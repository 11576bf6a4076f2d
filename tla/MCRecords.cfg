SPECIFICATION RecordsSpec
CONSTANTS
    Activities <- MCActivities
    BrokerAccounts = {"acct"}
    Threads = {"t1", "t2", "t3"}
    Processes = {"email", "rebalance"}
    AccountOf <- MCAccountOf
    DayOf <- MCDayOf
    Identified = {"a1"}
    ProcessOf <- MCProcessOf
    OverlapDays = 1
    LastSyncDay = 2
    TradeDays = 3
    MaxTrades = 3
    YearDays = 2
    OneYear = 1
    WASH_SALE_DAYS = 1
    Quotes = {1, 2}
    Sizes = {1}
    TransferredIn = 1
    Unwritten = Unwritten
    Holdings = {"reports"}
    Headlines = {"story", "other"}
    EarningsDays <- Calendar
    Conditions <- Findings
    MaxAge = 28
    MailDays = {0, 7, 14}
    MaxRuns = 3
    MaxMishaps = 1
INVARIANTS  TaxesAddUp  RecordsTellTheMail
PROPERTIES ReadersAllRead
CHECK_DEADLOCK FALSE
