CONSTANTS
    Tick = 10
    MinChunk = 500
    MaxChunk = 2000
    MaxFrame = 24
    Rates <- MCRates
    Offsets <- MCOffsets
    Starts <- MCStarts
SPECIFICATION Spec
INVARIANT
    SameFrames
CHECK_DEADLOCK FALSE
