CONSTANTS
    Tick = 4
    MinChunk = 20
    MaxChunk = 120
    None = None
    MaxFails = 1
    MaxIdle = 2
    Jobs <- MCJobs
SPECIFICATION SessionSpec
INVARIANT
    RangeIsSigned
CHECK_DEADLOCK FALSE
