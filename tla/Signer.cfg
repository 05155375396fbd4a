CONSTANTS
    Tick = 1
    MinChunk = 50
    MaxChunk = 200
    Rate <- MCRate
    Offset = 50
    Starts <- MCStarts
    VideoLen = 5
    MaxErrs = 2
    MaxAsks = 2
    MaxKeyFails = 1
SPECIFICATION FairSpec
INVARIANTS
    TypeOK
    RecentBuffer
    RecentContext
    FaithfulFile
    Accounted
PROPERTY
    StreamEnds
CHECK_DEADLOCK FALSE
