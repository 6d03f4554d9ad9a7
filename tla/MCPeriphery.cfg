SPECIFICATION Spec
CONSTANTS
    Listings <- FourListings
    OnDemand = {q1}
    Account <- SixExecutions
    TradeIds = {"t1"}
    Retention = 2
    Lookback = 1
    MaxFillAge = 2
    HoursADay = 2
    MaxDay = 5
    Requesters = {"poller", "listener"}
    NonceClock = 3
    MaxRequests = 4
    NonceRestarts = 1
    PageSize = 1
    Malformed = {1}
    MaxTrades = 3
    MaxFailures = 2
    FeedRestarts = 1
    ExecIds = {"e1"}
    MaxRows = 3
    MaxReady = 13
    Enrichers = {"poller", "listener"}
    Currencies = {"EUR", "USD"}
    Quoted = {"USD"}
    RateTTL = 2
    DayLength = 3
    RateClock = 3
    RateRestarts = 1
    Workers = {"t1", "t2"}
    Tickers = {"AAPL"}
    MaxAttempts = 2
    CacheTTL = 2
    FetchTime = 1
    MaxVersion = 2
    MarketClock = 5
    Commands = {"pause", "resume", "deploy", "destroy"}
    MaxDroplets = 4
    MaxSnapshots = 1
    MaxRecords = 1
    MaxDeaths = 2
INVARIANTS TypeOK OnePollAtATime ConsumerHoldsThePosition PrunedIsOutOfReach NonceStaysAbove FetchMissesNoTrade EachExecutionOnce RatesAreTrue StateIsKept
PROPERTIES EveryTradeComesIn NeverGoesBack PausedComesBack
CHECK_DEADLOCK FALSE
