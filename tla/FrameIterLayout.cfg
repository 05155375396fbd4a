CONSTANTS
    Second = 1000
    Samples = 12
    Channels = 2
    Width = 1
    Slack = 5
    Round = 40
    Depth = 2
    RowAlign = 4
    None = None
    FrameTime = 142
    MaxBuffers = 2
    MaxFaults = 2
    Sources <- MCSources
    Sizes <- MCSizes
    Areas <- MCAreas
SPECIFICATION Spec
INVARIANTS
    LayoutAsSpecified
CHECK_DEADLOCK FALSE
