\* Two people whose saves may have the same bytes upload and download; accounts are deleted, statements fail and the server dies.
CONSTANTS
    u1 = u1
    u2 = u2
    t1 = t1
    t2 = t2
    h1 = h1
    h2 = h2
    Users <- TwoUsers
    Titles <- OneTitle
    Digests = {x, y}
    Handlers <- TwoServed
    Deletable <- TwoUsers
    Chunks = 2
    MaxParent = 2
    MaxPuts = 3
    MaxGets = 1
    MaxFaults = 1
SPECIFICATION Spec
SYMMETRY Symmetric
INVARIANTS
    TablesAgree
    AnsweredIsKept
    OneWinner
    ServedIsThatPayload
PROPERTIES
    ImplementsVersionLog
CHECK_DEADLOCK FALSE
