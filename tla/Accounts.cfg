\* Two browsers set the instance up, sign up, log in and remove people.
CONSTANTS
    b1 = b1
    b2 = b2
    n1 = n1
    n2 = n2
    i1 = i1
    i2 = i2
    i3 = i3
    t1 = t1
    t2 = t2
    t3 = t3
    None = None
    Browsers <- TwoBrowsers
    Names <- TwoNames
    Ids <- ThreeIds
    Tokens <- TwoTokens
SPECIFICATION Spec
SYMMETRY Symmetric
INVARIANTS
    AdministratorRemains
    SessionsHaveOwners
    SignUpWasOpened
