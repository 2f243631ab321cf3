SPECIFICATION PartsSpec
CONSTANTS
    \* ProviderLog
    Records = {r1, r2}
    TradeRecords = {r2}
    Overlap = 1
    Window = 2
    Delay = 1
    Retention = 2
    PruneInterval = 2
    BatchSize = 2
    MaxEvents = 3
    MaxTime = 3
    MaxSeq = 4
    MaxLogFaults = 1
    \* OutcomeStore
    Outcomes = {"i1", "i2"}
    MaxHot = 2
    Legacy <- AnyExport
    MaxAsked = 3
    MaxStoreFaults = 2
    MaxStoreCrashes = 1
    \* Ownership
    Entries = {"e1", "e2"}
    Quantity <- TwoAndOne
    Tagged = {"e1"}
    OpenedBefore = {"e1"}
    MaxGeneration = 1
    MaxChanges = 3
    MaxReads = 2
    MaxWire = 1
    MaxLost = 1
    \* Process
    Processes = {"p1", "p2"}
    Nobody = Nobody
    Host <- OneMachine
    MaxTaken = 1
    MaxProcessFaults = 2
    MaxDeaths = 1
    \* Universe
    Contracts = {"op", "other"}
    Operated = "op"
    Packets = {"p1", "p2"}
    Timeframes = 2
    HistoryBudget = 4
    MinHeadroom = 1
    BudgetWindow = 2
    StaleAfter = 1
    QueueWait = 0
    PacketWait = 1
    MaxDepth = 1
    MaxTimers = 1
    MaxTicks = 2
    MaxBarFaults = 1
    \* Admission
    Prices = {2, 3, 4, 5, 6, 7, 8}
    TickSize = 2
    Spread = 1
    MaxContracts = 2
    Fees = 1
    SlippageTicks = 0
    StartEquity = 20
    InitialLoss = 12
    HighestBalance = 24
    LossModel = "trading_combine_eod"
    MaxTurns = 3
    \* Market
    Instruments = {"op"}
    Held = {"op"}
    Lists = {"positions"}
    Bids = {1}
    Asks = {2}
    SideTtl = 0
    MaxQuoteAge = 1
    MaxStateAge = 0
    ReconcileGrace = 0
    FutureTolerance = 0
    MaxAhead = 1
    MaxDelay = 0
    MaxDisturbances = 1
    \* Watch
    OpenAfter = 2
    ClearAfter = 2
    Grace = 1
    FailureLimit = 2
    MaxPending = 2
    MaxBoots = 2
    \* DailyCapture
    Hours = 4
    Days = 3
    Noon = 2
    Reset = 3
    MustFlat = 2
    EntryOpen = 1
    West = 2
    Spring = 6
    Trades = {"win", "loss"}
    Pnl <- WinAndLoss
    Objective = 1
    FirstHour = 5
    LastHour = 9
    MaxRestarts = 1
    \* Amendment
    Levels = {2, 3, 4, 5, 6, 7, 8}
    Side = "long"
    StopLoss = 4
    Averages = {5, 6}
    FirstStops = {3, 4}
    AskGap = 1
    Reserve = 1
CONSTRAINTS LogBound TwoDisturbances AlertsOrWatchdog
INVARIANTS
    LogInv
    StoreInv
    OwnershipInv
    ProcessInv
    MarketInv
    CaptureInv
    AmendmentInv
PROPERTIES
    UniverseSafe
    AdmissionSafe
    WatchSafe
CHECK_DEADLOCK FALSE
