SPECIFICATION FairClientSpec
CONSTANTS
    Proc = {p1}
    Dry = {}
    Faults = {"unreachable", "lost", "revoke", "expire", "store", "crash"}
    Rotates = {TRUE, FALSE}
    Seeds = {1}
    Lifetime = 3
    Leeway = 1
    MaxClock = 2
    MaxIssued = 3
    MaxLogins = 0
    MaxRetries = 2
    MaxPages = 2
    RetryAfters <- Headers
    MaxRetryAfter = 60
INVARIANTS
    ClientTypeOK
    CallBounded
    SleepBounded
PROPERTIES
    ProcessEnds
