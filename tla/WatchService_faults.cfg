SPECIFICATION Spec
CONSTANTS
    Proc = {p1}
    Commands = {"run", "dry_run", "seed"}
    Faults = {"fetch", "notify", "ack", "store", "crash"}
    MaxPosts = 5
    Backlogs = {0, 1, 3, 5}
    Malformed = {2}
    PageSize = 2
    MaxPages = 2
INVARIANTS
    TypeOK
    FirstDeploymentQuiet
    SuccessMeansHandled
PROPERTIES
    ImplementsLedger
