SPECIFICATION FairSpec
CONSTANTS
    NImages = 3
    Flagged <- MCFlagged
    Chunks <- MCChunks
    MaxDummy = 2
    MaxHello = 2
    MaxResend = 3
    MaxNoise = 2
INVARIANTS
    TypeOK
    AckedIsHeld
    OwnPartition
    FlushedWhole
PROPERTIES
    FollowsPlan
    DownloadEnds
