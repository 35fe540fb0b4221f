SPECIFICATION Spec
CONSTANTS
    Proc = {p1}
    Dry = {p1}
    Faults = {}
    Rotates = {TRUE}
    Seeds = {1}
    Lifetime = 3
    Leeway = 1
    MaxClock = 5
    MaxIssued = 3
    MaxLogins = 0
PROPERTIES
    DryRunWritesNothing
