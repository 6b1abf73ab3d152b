SPECIFICATION FairSpec
CONSTANTS
    Sessions = {s1, s2}
    MaxClicks = 1
    MaxSeeks = 1
    Ports <- OnePort
    FlashDirect = TRUE
    InTime = TRUE
    Reenumerate = TRUE
CHECK_DEADLOCK FALSE
PROPERTIES
    SessionEnds
