SPECIFICATION Spec
CONSTANTS
    MaxTime = 6
    MaxLate = 3
    Skews = {0, 4}
    MaxClockSteps = 1
    Samples = 1
    Tolerance = 2
    MaxAhead = 2
    StaleAfter = 2
    BookLife = 2
    MaxBookAge = 3
    StreamStamps = {TRUE, FALSE}
    Symbols = {a, b}
    Clients = {1, 2}
    MaxStreamed = 1
    MaxReplace = 0
    Callers = {c1, c2}
    Bulk = {c2}
    Conns = {1, 2}
    MaxVersion = 2
    Ids = {1, 2}
    Whole = 6
    Staged = {3}
    EngineModes = {"paper", "live"}
    ClearBusy = FALSE
    MaxRestarts = 1
    MaxSubmits = 3
    Keys = {k1, k2}
    NoKey = NoKey
    FailureTolerance = 2
    Exchanges = {x1, x2}
    Trades = {t1}
    MaxSwitches = 3
    SignalIds = {g1, g2}
    Unlisted = {}
    Batch = 2
    Singles = 1
    Day = 2
    Life = 3
    Convs = {1, 2}
    MaxTurns = 2
    Rounds = 2
    Providers = 2
INVARIANTS PartsTypeOK FreshMeansRecent ClientsAgree UpIsServed SeriesReachesLive SoldOnce ManagedUntouched LiveNotSimulated FeedFollowsMarket TraderFollowsMarket TargetMeansNoStop MemoryApart OneVoice
PROPERTIES  KeepsTrades NeverGoesBack AnswersAdvance LatestWins
CHECK_DEADLOCK FALSE
