SPECIFICATION Spec
CONSTANTS
    None = None
    Counts = {0, 1}
    MaxOps = 2
    MaxReloads = 1
    MaxAsks = 1
INVARIANTS AnswersAreGiven ListHeld IconsOnTheirTiles
PROPERTIES OperationEnds
