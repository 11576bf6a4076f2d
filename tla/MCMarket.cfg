CONSTANTS
    Readers = {"prices", "technicals", "panel"}
    Processes = {"discover", "model"}
    ProcessOf <- MCProcessOf
    Batch = {"panel"}
    TICKER_CACHE_TTL = 1
    OVERLAP_DAYS = 1
    BARS_MIN_DAYS = 1
    StaleDays = 2
    LastTick = 4
    MaxAdjustments = 1
    MaxFailures = 1
    NoBars = NoBars
    None = None
    Names = {"n1", "n2", "n3"}
    Runs = {"nightly", "discover"}
    NightlyRun = "nightly"
    Reports <- MCReports
    FETCH_CACHE_DAYS = 4
    WeekDays = 3
    Nights = {0, 1}
    Nightly = 2
    LastNight = 9
    MaxErrors = 1
    Nothing = Nothing
    Threads = {t1, t2}
    NoThread = NoThread
    Calls = 2
    MaxAttempts = 3
    InitialBackoff = 2
    MaxBackoff = 4
    Multiplier = 2
    JitterPart = 2
    MinInterval = 2
    RetryAfters = {0, 9}
    Quarters = 8
    Delay = 4
    STALE = 6
    GROWTH_YEARS = 1
    Oddities = 2
    Missing = Missing
    Stocks = {"s1", "s2"}
    LastSession = 30
    WeekLength = 3
    MonthLength = 4
    Lookback = 2
    Horizon = 3
    MIN_TRAIN = 7
    TEST = 4
    MinRows = 1
    SpyGaps = {3, 12, 14}
    StockGaps = {2, 12, 13, 15}
    MaxGaps = 3
    Silent <- MCSilent
    Universes <- MCUniverses
    Dates = {1, 2, 3}
    Uncovered <- MCUncovered
    MAX_TICKERS = 2
    QUOTA_RESERVE = 2
    FullQuota = 6
    MaxMishaps = 2
    MaxRuns = 3
SPECIFICATION MarketSpec
INVARIANT NothingIsKnownEarly
PROPERTIES CallsAreSpaced  IsOneEdition  
CHECK_DEADLOCK FALSE
