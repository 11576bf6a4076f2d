SPECIFICATION GatewaySpec
CONSTANTS
    Symbols = {s1}
    Callers = {t1, t2, t3, t4}
    CallsEach = 1
    MaxConcurrency = 2
    GatewayAttempts = 2
    Minute = 2
    MaxRate = 2
    MinRate = 1
    RecoveryAfter = 2
    RecoveryStep = 1
    BaseCooldown = 1
    MaxCooldown = 2
    Jitter = 1
    Pause = 1
CHECK_DEADLOCK FALSE
INVARIANTS PacingHolds
PROPERTIES BatchEnds
