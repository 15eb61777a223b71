SPECIFICATION Spec
CONSTANTS
    Symbol = {btc, eth}
    Manual = {m1}
    ScanTask = {s1}
    None = None
    MaxTrades = 2
    MaxConcurrent = 1
    LossLimit = 1
    Results <- LossGain
    Modes <- Live
    TickFeed = FALSE
    UserTrades = FALSE
    MayClear = FALSE
    MayRestart = FALSE
    StartDuringStop = FALSE
    MaxPresses = 1
    MaxFaults = 0
SYMMETRY Symmetry
INVARIANT CapacityRespected
PROPERTIES KeepsLedger LossLimitHalts AdmissionWithinLimit
