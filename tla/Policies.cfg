\* Library runs that pick a side, with a failure, until everything is quiet.
CONSTANTS
    c1 = c1
    c2 = c2
    a = a
    b = b
    d = d
    NoSave = NoSave
    Empty = Empty
    Torn = Torn
    Consoles <- TwoOf
    Kind <- CardAndNds
    Contents <- TwoSaves
    Opts <- KeepEither
    MaxActs = 1
    MaxFaults = 1
    MaxRollbacks = 0
SPECIFICATION FairSpec
PROPERTIES
    RunsEnd
    
