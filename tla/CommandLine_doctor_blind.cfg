SPECIFICATION Spec
CONSTANTS
    t1 = t1
    t2 = t2
    Terminal = {t1, t2}
    MaxAttempts = 1
    Strays = {}
    Commands <- SecondLogin
    Worlds <- OneBroken
INVARIANTS
    DoctorChecksEverything
