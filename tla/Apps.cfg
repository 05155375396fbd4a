CONSTANTS
    Tick = 4
    MinChunk = 20
    MaxChunk = 120
    None = None
    MaxFails = 1
    MaxVideos = 2
    MaxIdle = 2
    MaxJudged = 2
    Jobs <- MCJobs
    Outcomes <- MCOutcomes
SPECIFICATION FairSpec
INVARIANTS
    TypeOK
    ChunksMeet
    RefusalsExplained
    WholeVideoSigned
    DefinedFirst
    FileFaithful
    OverlaySafe
    LabelCurrent
    OverlayTruth
PROPERTIES
    ViewReturns
CHECK_DEADLOCK FALSE
