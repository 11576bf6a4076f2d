SPECIFICATION DiscoverSpec
CONSTANTS
    Plan <- DiscoverStages
    Contract <- DiscoverContract
    MaxMishaps = 1
    Decisions <- Picks
    Holidays = {6, 86, 115, 122, 139, 167}
    LastTraded <- StopsAt
    Horizons = {30, 90, 365}
    LookbackDays = 180
    HORIZONS = {126}
    HORIZON_DAYS = 126
    FirstWeekday = 1
    LastDay = 205
    Looked <- DaysOn
    Nothing = Nothing
    Stocks = {"a", "b", "c"}
    Held = {"b"}
    IndustryOf <- MCIndustryOf
    EpsOf <- MCEpsOf
    Tapes <- MCTapes
    LastMorning = 6
    TradingDays = {1, 2, 3, 4, 6}
    MIN_GROUP_SIZE = 1
    SIGNAL_QUIET_DAYS = 2
    FULL_SNAPSHOT_EVERY_DAYS = 3
    LEADERS_MAX_AGE_DAYS = 2
    LEADERS = 1
    DROP_WINDOW_DAYS = 3
    DROP_SLACK = 2
    HORIZON = 2
    Unpriced <- MCUnpriced
    BACKFILL = 3
    MaxTroubles = 2
    Symbols = {"spy","x","y"}
    SPY = "spy"
    BarsOf <- MCBarsOf
    Close <- MCClose
    Moving <- MCMoving
    SplitOn <- MCSplitOn
    SPLIT = 2
    Events <- MCEvents
    BEAR <- MCBear
    BULL = 10
    LAG = 5
    MOVER = 2
    OPEN_WINDOW_DAYS = 5
    REACTION_DAYS = 2
    GRADE_LOOKBACK_DAYS = 5
    CALIBRATION_DAYS = 7
    QUARTER_DAYS = 6
    CONVICTION_HORIZON = 2
    EV_HORIZONS = {4}
    TREND_BARS = 3
    TREND_DAYS = 6
    SPAN = 3
    SLACK = 2
    LastReview = 10
    MaxRuns = 2
    RunDays = {1, 4}
    MaxCalls = 1
INVARIANTS ReadsAreSettled FailuresAreTold 
PROPERTIES NothingAfterAFailure RunsEnd RecordsStand
CHECK_DEADLOCK FALSE
