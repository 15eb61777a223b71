SPECIFICATION Spec
CONSTANTS
    Ids = {1, 2}
    Whole = 6
    Staged = {2}
    EngineModes = {"paper"}
    ClearBusy = FALSE
    MaxRestarts = 0
    MaxSubmits = 2
    Keys = {k1}
    NoKey = NoKey
    Clients = {1, 2}
    FailureTolerance = 2
    Exchanges = {x1, x2}
    Trades = {t1}
    MaxSwitches = 2
    SignalIds = {g1, g2, g3}
    Unlisted = {g3}
    Batch = 2
    Singles = 0
    Day = 1
    Life = 1
PROPERTIES DueIsSold EveryEndIsTold DeadPollRevived VerdictsFollow SwitchEnds NoneForgotten
CHECK_DEADLOCK FALSE
