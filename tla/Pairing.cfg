\* Two consoles pair with codes of two people, while statements fail, an answer is lost, the archive refuses a write and power goes while the file is rewritten.
CONSTANTS
    c1 = c1
    c2 = c2
    p1 = p1
    p2 = p2
    x = x
    y = y
    Consoles <- TwoConsoles
    People <- TwoPeople
    Codes <- OneCode
    AutoPair <- Nobody
    PairedBefore <- Nobody
    PowerCuts = TRUE
    MaxIssued = 2
    MaxFails = 1
    MaxLost = 1
    MaxRefusals = 1
SPECIFICATION Spec
SYMMETRY Symmetric
INVARIANTS
    CodeBuysOneToken
    RevokedTokenStaysDead
    TokenHasOneHome
    PairedIsKnown
