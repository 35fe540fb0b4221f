SPECIFICATION Spec
CONSTANTS
    Proc = {p1}
    Commands = {"run"}
    Faults = {}
    MaxPosts = 3
    Backlogs = {0}
    Malformed = {}
    PageSize = 3
    MaxPages = 1
PROPERTIES
    NoSilentSeedAfterSuccess
