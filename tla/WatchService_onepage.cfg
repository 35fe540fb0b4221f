SPECIFICATION Spec
CONSTANTS
    Proc = {p1}
    Commands = {"run", "no_seed", "seed"}
    Faults = {"fetch", "notify"}
    MaxPosts = 5
    Backlogs = {0, 1, 2}
    Malformed = {2}
    PageSize = 5
    MaxPages = 2
INVARIANTS
    AtMostOnce
