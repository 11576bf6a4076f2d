CONSTANTS
    Tickers <- MCTickers
    Accounts <- MCAccounts
    Units <- MCUnits
    Price <- MCPrice
    OpenCalls <- MCOpenCalls
    OpenPuts <- MCOpenPuts
    Cash <- MCCash
    Picks <- MCTickers
    OptionAccounts <- MCAccounts
    MaxPosition = 45
    MaxPerPut = 40
    MaxPuts = 80
    Strike <- MCStrike
    Core = "f"
    Proposals <- MCProposals
    Plan <- RebalanceStages
    Contract <- RebalanceContract
    MaxMishaps = 1
    Holding = "h"
    Runs <- MCRuns
    Survivors <- MCSurvivors
    DeepCount = 1
    MinNames = 2
    TopN = 2
    RankerRounds = 3
    DeepCost = 3
    LightCost = 1
    Moneys = {1, 3, 5, 6, 9}
    Stranger = "x"
    SectorOf <- MCSectorOf
    PairLists <- MCPairLists
    Asked = {300, 2000, 4500}
    MaxPair = 3500
    MaxStarter = 500
    MaxNew = 5000
    MaxBook = 3000
    Underlyings = {"s","u","v","m"}
    Sweeps = {"m"}
    Barred = {}
    Picked = {"u","v"}
    Holders = {"ira","roth"}
    Allowances = {{}, {"ira"}}
    LOT = 100
    Spot <- MCSpot
    Books <- MCBooks
    Purses <- MCPurses
    CallMenu <- MCCallMenu
    PutMenu <- MCPutMenu
    RollMenu <- MCRollMenu
    Legs <- MCLegs
    CallDays <- MCCallDays
    PutDays <- MCPutDays
    RollDays <- MCRollDays
    Band <- MCBand
    Upside = 15
    STRIKE_GAIN = 5
    MinRatio = 100
    YieldFloor = 10
    StubMin = 1000
    PerPut = 50
    InPuts = 80
    EARNINGS_BLACKLIST_DAYS = 7
    Reports = {0, 90}
    Realized = {0, 30}
    RowCap = 2
    MaxOffered = 1
    LastWeek = 3
    OddWeeks = 1
SPECIFICATION PlanningSpec
INVARIANTS StepsFindTheirKeys OrdersAreBacked ReportIsOfThePlan ReportTellsTheRun OffersHoldUp
PROPERTIES ChecksOnlyTakeAway
CHECK_DEADLOCK FALSE
