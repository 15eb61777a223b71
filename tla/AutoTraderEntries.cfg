SPECIFICATION Spec
CONSTANTS
    Symbol = {btc, eth}
    Manual = {m1}
    ScanTask = {s1}
    None = None
    MaxTrades = 2
    MaxConcurrent = 2
    LossLimit = 0
    Results <- Even
    Modes <- BothModes
    TickFeed = FALSE
    UserTrades = TRUE
    MayClear = FALSE
    MayRestart = TRUE
    StartDuringStop = FALSE
    MaxPresses = 0
    MaxFaults = 0
SYMMETRY Symmetry
INVARIANTS OneTradePerSymbol OneAutoRowPerSymbol BookMatchesTable
