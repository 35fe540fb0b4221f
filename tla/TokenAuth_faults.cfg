SPECIFICATION Spec
CONSTANTS
    Proc = {p1}
    Dry = {}
    Faults = {"unreachable", "lost", "revoke", "expire", "store", "crash", "volume"}
    Rotates = {TRUE, FALSE}
    Seeds = {0, 1}
    Lifetime = 3
    Leeway = 1
    MaxClock = 5
    MaxIssued = 3
    MaxLogins = 0
INVARIANTS
    TypeOK
    ConfigErrorIsFinal
    RejectedNotReused
PROPERTIES
    HandedOutWithLeeway
