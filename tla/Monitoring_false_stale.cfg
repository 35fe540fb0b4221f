SPECIFICATION Spec
CONSTANTS
    Period = 1
    StartingDeadline = 1
    ActiveDeadline = 1
    BackoffLimit = 1
    Threshold = 4
    For = 1
    Window = 1
    Outcomes = {"clean", "fetch"}
    Mishaps = {}
PROPERTIES
    LastSuccessKept
