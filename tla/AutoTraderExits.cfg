SPECIFICATION Spec
CONSTANTS
    Symbol = {btc}
    Manual = {m1}
    ScanTask = {s1}
    None = None
    MaxTrades = 2
    MaxConcurrent = 2
    LossLimit = 0
    Results <- Even
    Modes <- Live
    TickFeed = TRUE
    UserTrades = FALSE
    MayClear = FALSE
    MayRestart = FALSE
    StartDuringStop = FALSE
    MaxPresses = 0
    MaxFaults = 2

INVARIANTS CloseOrdersExplained ClosedMeansOrdered RowsProtected
