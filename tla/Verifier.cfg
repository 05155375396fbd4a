CONSTANTS
    Tick = 1
    MinChunk = 50
    MaxChunk = 200
    Rate <- MCRate
    Offsets = {0, 100}
    Files <- MCFiles
    Id = {"a", "b"}
    Key = {"k", "m"}
    Err = Err
    VideoLen = 5
    MaxFaults = 1
SPECIFICATION FairSpec
INVARIANTS
    TypeOK
    CacheMirrorsTasks
    VerifiedIsSound
    NoFalseAlarm
PROPERTIES
    SavedFirst
    VerdictsAreFinal
    LoadingEndsUnlessDoomed
    VideoNeverWaits
CHECK_DEADLOCK FALSE
