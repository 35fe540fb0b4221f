SPECIFICATION FairSpec
CONSTANTS
    t1 = t1
    t2 = t2
    Terminal = {t1, t2}
    MaxAttempts = 2
    Strays = {"request", "silent"}
    Commands <- SecondLogin
    Worlds <- OneBroken
INVARIANTS
    TypeOK
    OwnCodeOnly
    ConfigErrorIsPermanent
    DoctorVouches
PROPERTIES
    EveryCommandEnds
