SPECIFICATION Spec
CONSTANTS
    Symbol = {btc}
    Manual = {m1}
    ScanTask = {s1, s2}
    None = None
    MaxTrades = 1
    MaxConcurrent = 1
    LossLimit = 0
    Results <- Even
    Modes <- Paper
    TickFeed = TRUE
    UserTrades = FALSE
    MayClear = FALSE
    MayRestart = FALSE
    StartDuringStop = TRUE
    MaxPresses = 0
    MaxFaults = 0
SYMMETRY Symmetry
INVARIANTS UniqueScan
