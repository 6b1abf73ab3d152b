SPECIFICATION FairSpec
CONSTANTS
    Sessions = {s1, s2}
    MaxClicks = 3
    MaxSeeks = 1
    Ports = {}
    FlashDirect = TRUE
    InTime = TRUE
    Reenumerate = FALSE
CHECK_DEADLOCK FALSE
INVARIANTS
    CpeTypeOK
    ServerReady
PROPERTIES
    SessionEnds
