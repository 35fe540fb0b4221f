SPECIFICATION Spec
CONSTANTS
    Proc = {p1}
    Dry = {}
    Faults = {"unreachable", "revoke"}
    Rotates = {TRUE, FALSE}
    Seeds = {1}
    Lifetime = 3
    Leeway = 1
    MaxClock = 6
    MaxIssued = 4
    MaxLogins = 1
INVARIANTS
    NoBrowserNeeded
