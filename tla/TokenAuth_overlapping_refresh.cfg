SPECIFICATION Spec
CONSTANTS
    Proc = {p1, p2}
    Dry = {}
    Faults = {}
    Rotates = {TRUE}
    Seeds = {1}
    Lifetime = 3
    Leeway = 1
    MaxClock = 3
    MaxIssued = 3
    MaxLogins = 0
INVARIANTS
    ConfigErrorIsFinal
