\* Two consoles with journalled saves, a 3DS and a Switch, synced by hand and at boot.
CONSTANTS
    c1 = c1
    c2 = c2
    a = a
    b = b
    d = d
    NoSave = NoSave
    Empty = Empty
    Torn = Torn
    Consoles <- TwoOf
    Kind <- CardAndNX
    Contents <- TwoSaves
    Opts <- ManualAndAuto
    MaxActs = 2
    MaxFaults = 1
    MaxRollbacks = 0
SPECIFICATION Spec
SYMMETRY Symmetric
INVARIANTS
    ProgressKept
    SilentUploadBuildsOnBase
    DeferredRestoreIsSafe
PROPERTIES
    BaseHolds
    KeepsPromise
