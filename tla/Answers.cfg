\* Every request ends, while consoles stall and statements fail.
CONSTANTS
    u1 = u1
    u2 = u2
    t1 = t1
    t2 = t2
    h1 = h1
    h2 = h2
    Users <- OneUser
    Titles <- OneTitle
    Digests = {x, y}
    Handlers <- TwoServed
    Deletable <- Nobody
    Chunks = 2
    MaxParent = 1
    MaxPuts = 2
    MaxGets = 1
    MaxFaults = 1
SPECIFICATION FairSpec
PROPERTIES
    EveryRequestEnds
CHECK_DEADLOCK FALSE
