SPECIFICATION Spec
CONSTANTS
    Proc = {p1, p2}
    Commands = {"run"}
    Faults = {"notify", "crash"}
    MaxPosts = 3
    Backlogs = {1}
    Malformed = {}
    PageSize = 2
    MaxPages = 2
SYMMETRY ProcSymmetry
INVARIANTS
    NotifiedMeansDelivered
    SuccessMeansHandled
