SPECIFICATION Spec
CONSTANTS
    Proc = {p1}
    Commands = {"run"}
    Faults = {}
    MaxPosts = 4
    Backlogs = {1}
    Malformed = {}
    PageSize = 2
    MaxPages = 3
INVARIANTS
    AtMostOnce
