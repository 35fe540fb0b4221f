SPECIFICATION FairSpec
CONSTANTS
    Proc = {p1}
    Commands = {"run"}
    Faults = {"fetch"}
    MaxPosts = 5
    Backlogs = {1, 2}
    Malformed = {3}
    PageSize = 2
    MaxPages = 3
INVARIANTS
    NoGapInFetch
    NothingDropped
PROPERTIES
    NoSilentSeedAfterSuccess
    EventuallyRecorded
    EventuallyPushed
