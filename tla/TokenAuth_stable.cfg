SPECIFICATION Spec
CONSTANTS
    Proc = {p1, p2}
    Dry = {}
    Faults = {"unreachable", "lost", "revoke", "store", "crash", "volume"}
    Rotates = {FALSE}
    Seeds = {1}
    Lifetime = 3
    Leeway = 1
    MaxClock = 3
    MaxIssued = 2
    MaxLogins = 1
SYMMETRY ProcSymmetry
INVARIANTS
    NoBrowserNeeded
