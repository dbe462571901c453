\* Saves go into packages and back, on every backend, with failures and the power going.
CONSTANTS
    sav = sav
    extra = extra
    x = x
    v = v
    w = w
    Gone = Gone
    Cut = Cut
    NoValue = NoValue
    Absent = Absent
    None = None
    Staging = Staging
    Half = Half
    SavFile = sav
    Paths = {sav, extra}
    Bytes = {x}
    Values = {v}
    Kinds <- AllKinds
    Incoming <- Server
    ShortReads = FALSE
    MaxPlays = 2
    MaxFaults = 2
SPECIFICATION Spec
INVARIANTS
    PackagesAreSaves
    CommittedIsWhole
    RestoredIsWhole
PROPERTIES
    ReplacedIsBackedUp
