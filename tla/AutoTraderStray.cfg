SPECIFICATION Spec
CONSTANTS
    Symbol = {btc}
    Manual = {m1}
    ScanTask = {s1}
    None = None
    MaxTrades = 1
    MaxConcurrent = 1
    LossLimit = 0
    Results <- Even
    Modes <- Live
    TickFeed = FALSE
    UserTrades = FALSE
    MayClear = FALSE
    MayRestart = FALSE
    StartDuringStop = FALSE
    MaxPresses = 0
    MaxFaults = 0

INVARIANTS NoStrayPosition
