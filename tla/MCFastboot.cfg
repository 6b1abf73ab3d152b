SPECIFICATION FairSpec
CONSTANTS
    NImages = 3
    Need <- MCNeed
    Size <- MCSize
    NVars = 2
    PadSize = 1
    MaxInfo = 2
    ShortGrant = TRUE
INVARIANTS
    TypeOK
    FlashStaged
    InStep
    ProgressHonest
PROPERTIES
    FollowsPlan
    SessionEnds
