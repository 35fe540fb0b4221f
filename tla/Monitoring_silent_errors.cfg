SPECIFICATION FairSpec
CONSTANTS
    Period = 1
    StartingDeadline = 1
    ActiveDeadline = 1
    BackoffLimit = 1
    Threshold = 2
    For = 1
    Window = 1
    Outcomes = {"clean", "fetch"}
    Mishaps = {}
PROPERTIES
    ErrorsNoticed
