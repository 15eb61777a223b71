SPECIFICATION Spec
CONSTANTS
    Symbol = {btc, eth}
    Manual = {}
    ScanTask = {s1, s2}
    None = None
    MaxTrades = 2
    MaxConcurrent = 2
    LossLimit = 0
    Results <- Even
    Modes <- Paper
    TickFeed = TRUE
    UserTrades = FALSE
    MayClear = TRUE
    MayRestart = TRUE
    StartDuringStop = FALSE
    MaxPresses = 0
    MaxFaults = 0
SYMMETRY Symmetry
INVARIANTS TypeOK SingleExit StoppedMeansNoScan
