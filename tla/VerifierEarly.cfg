CONSTANTS
    Tick = 1
    MinChunk = 50
    MaxChunk = 200
    Rate <- MCRate
    Offsets = {50}
    Files <- OrdinaryOnly
    Id = {"a"}
    Key = {"k"}
    Err = Err
    VideoLen = 5
    MaxFaults = 0
SPECIFICATION FairSpec
PROPERTY
    EarlyIsOutOfRange
CHECK_DEADLOCK FALSE
