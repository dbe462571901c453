SPECIFICATION Spec
CONSTANTS
    None = None
    MaxTries = 2
    Sizes <- MCSizes
INVARIANTS OwnLibrary EachTitleOnce ReportTells Consented
PROPERTIES LaunchEnds
