SPECIFICATION FairSpec
CONSTANTS
    Period = 1
    StartingDeadline = 1
    ActiveDeadline = 1
    BackoffLimit = 1
    Threshold = 1
    For = 1
    Window = 1
    Outcomes = {"clean", "one", "two", "fetch"}
    Mishaps = {"kill", "refused", "dry_run", "restart"}
INVARIANTS
    TypeOK
    TruthfulTimestamp
    ErrorAlertMeansError
PROPERTIES
    DeadJobNoticed
    RunsAgain
