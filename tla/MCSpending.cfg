SPECIFICATION CapSpec
CONSTANTS
    c1 = c1
    c2 = c2
    u1 = u1
    u2 = u2
    u3 = u3
    NoCaller = NoCaller
    Clients = {c1, c2}
    Callers = {u1, u2, u3}
    Owner <- MixedOwner
    DailyCap = 2
    WorstCosts = {1, 2}
    Days = 2
    MaxKills = 1
    Threads = {t1, t2, t3}
    NoThread = NoThread
    Cap = 3
    Estimates = {1, 2}
    MaxResponses = 2
    HasFallback = TRUE
    Hosts = {"siliconflow", "io-net"}
    Conditions = {"good", "masking", "gone"}
    CheckEvery = 2
    CHECK_VALID_DAYS = 3
    QUALITY_DAYS = 3
    MIN_READS = 2
    LastCheckDay = 4
    MaxUpsets = 2
CHECK_DEADLOCK FALSE
SYMMETRY Symmetry
INVARIANTS
    TypeOK
    ReservationsAreExact
    
    DailyOvershootIsBounded
    HostsAreGuarded
