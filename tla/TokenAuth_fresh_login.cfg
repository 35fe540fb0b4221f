SPECIFICATION Spec
CONSTANTS
    Proc = {p1}
    Dry = {}
    Faults = {"expire"}
    Rotates = {TRUE}
    Seeds = {1}
    Lifetime = 3
    Leeway = 1
    MaxClock = 5
    MaxIssued = 3
    MaxLogins = 1
INVARIANTS
    FreshSeedIsUsed
