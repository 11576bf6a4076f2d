SPECIFICATION FilingsSpec
CONSTANTS
    goog = goog
    googl = googl
    alphabet = alphabet
    Tickers = {goog, googl}
    Issuer <- OneCompany
    MaxFilings = 3
    Workers = 2
    Keep = 2
    MaxSweeps = 2
    Modes = {"weekly", "force", "recheck"}
    report = report
    activist = activist
    headline = headline
    Papers = {report, activist, headline}
    Kind <- Kinds
    Listed <- Parties
    Subject <- Subjects
    Book <- TheBook
    LOOKBACK_DAYS = 4
    NEWS_LOOKBACK_DAYS = 3
    SCAN_DAYS = 5
    FirstWeekday = 4
    Days = {0}
    LastDay = 3
    MaxMishaps = 1
    Unpublished = Unpublished
    Companies = {"bio", "drug", "chip", "odd"}
    IndustryOf <- MCIndustryOf
    Biotechs = {"bio", "drug", "odd"}
    CapOf <- MCCapOf
    Slots = 3
    MaxPerIndustry = 1
    MaxBiotech = 1
    Reports <- MCReports
    Counts = {0, 180, 360, 540, 720}
    Filed = 30
    TODAY = 800
    YEAR = 365
    STALE_DAYS = 200
    MaxNews = 2
    Unknown <- MCUnknown
INVARIANTS SweepIsSound  OneGoodEveningReadsIt 
PROPERTIES RecordsOnlyImprove SweepEnds
CHECK_DEADLOCK FALSE
