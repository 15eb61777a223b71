SPECIFICATION OutcomesSpec
CONSTANTS
    SignalIds = {g1, g2}
    Unlisted = {}
    Batch = 2
    Singles = 1
    Day = 2
    Life = 3
INVARIANT ResultSinceMade
