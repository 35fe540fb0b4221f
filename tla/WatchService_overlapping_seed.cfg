SPECIFICATION Spec
CONSTANTS
    Proc = {p1, p2}
    Commands = {"run"}
    Faults = {}
    MaxPosts = 3
    Backlogs = {2}
    Malformed = {}
    PageSize = 3
    MaxPages = 1
INVARIANTS
    FirstDeploymentQuiet
