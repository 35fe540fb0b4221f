SPECIFICATION ClientSpec
CONSTANTS
    Proc = {p1}
    Dry = {}
    Faults = {}
    Rotates = {TRUE}
    Seeds = {1}
    Lifetime = 3
    Leeway = 1
    MaxClock = 0
    MaxIssued = 1
    MaxLogins = 0
    MaxRetries = 3
    MaxPages = 5
    RetryAfters = {60}
    MaxRetryAfter = 60
INVARIANTS
    SleepsBeforeAttempts
