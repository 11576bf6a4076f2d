SPECIFICATION CapSpec
CONSTANTS
    c1 = c1
    c2 = c2
    u1 = u1
    u2 = u2
    u3 = u3
    NoCaller = NoCaller
    Clients = {c1}
    Callers = {u1, u2}
    Owner <- SharedOwner
    DailyCap = 3
    WorstCosts = {1, 2}
    Days = 1
    MaxKills = 0
    Threads = {t1}
    NoThread = NoThread
    Cap = 3
    Estimates = {1}
    MaxResponses = 1
    HasFallback = FALSE
    Hosts = {"siliconflow"}
    Conditions = {"good"}
    CheckEvery = 2
    CHECK_VALID_DAYS = 3
    QUALITY_DAYS = 3
    MIN_READS = 2
    LastCheckDay = 2
    MaxUpsets = 0
CHECK_DEADLOCK FALSE
INVARIANT DailyCapHolds
