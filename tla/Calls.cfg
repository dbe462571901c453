SPECIFICATION Spec
CONSTANTS
    None = None
    Backends = {"posix", "curl"}
    Ceiling = 3
    JsonRoom = 2
    ErrorRoom = 1
    MaxParts = 3
    MaxCalls = 1
    Portals = TRUE
INVARIANTS OkIsThisAnswers AnswerIsBelieved BodiesMoveOnce
PROPERTIES CallEnds
CHECK_DEADLOCK FALSE
