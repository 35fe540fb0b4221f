SPECIFICATION Spec
CONSTANTS
    Proc = {p1}
    Commands = {"run"}
    Faults = {"notify"}
    MaxPosts = 4
    Backlogs = {1}
    Malformed = {}
    PageSize = 4
    MaxPages = 2
INVARIANTS
    NothingDropped
