CONSTANTS
    Tick = 10
    MinChunk = 500
    MaxChunk = 2000
    MaxFrame = 24
    Rates <- MCRates
    Offsets <- MCOffsets
    Starts <- MCStarts
SPECIFICATION Spec
INVARIANTS
    TypeOK
    SameFramesExact
    SpecFrames
    SizeAgrees
CHECK_DEADLOCK FALSE
