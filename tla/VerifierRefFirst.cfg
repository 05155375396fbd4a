CONSTANTS
    Tick = 1
    MinChunk = 50
    MaxChunk = 200
    Rate <- MCRate
    Offsets = {0}
    Files <- OrdinaryOnly
    Id = {"a"}
    Key = {"k"}
    Err = Err
    VideoLen = 5
    MaxFaults = 0
SPECIFICATION Spec
INVARIANT
    DefinedEarlierIsKnown
CHECK_DEADLOCK FALSE
