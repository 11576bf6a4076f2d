SPECIFICATION ScheduleSpec
CONSTANTS
    Jobs = {"backup", "filings"}
    Seasons <- BothChanges
    First = 54
    Horizon = 80
    CatchUpHours = 36
    MaxOutages = 2
    NoJob = "none"
    KeepCopies = 4
    DoctorEvery = 2
    OFFSITE_MAX_AGE_DAYS = 1
    TextDays = 2
    FirstRun = 0
    LongestOutage = 3
    LastNight = 5
    MaxTroubles = 2
    NoRestore = NoRestore
CHECK_DEADLOCK FALSE
INVARIANTS  NothingDueIsLost 
PROPERTIES CatchUpEnds
