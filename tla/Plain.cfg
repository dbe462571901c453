\* An nds-bootstrap save and a desktop directory, plain files with two ways to rename, synced at boot; the server is restored from a backup once.
CONSTANTS
    c1 = c1
    c2 = c2
    a = a
    b = b
    d = d
    NoSave = NoSave
    Empty = Empty
    Torn = Torn
    Consoles <- TwoOf
    Kind <- NdsAndPC
    Contents <- TwoSaves
    Opts <- AutoOnly
    MaxActs = 3
    MaxFaults = 1
    MaxRollbacks = 1
SPECIFICATION Spec
SYMMETRY Symmetric
PROPERTIES
    SafeOnPlainFiles
