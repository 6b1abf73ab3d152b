SPECIFICATION Spec
CONSTANTS
    Sessions = {s1, s2}
    MaxClicks = 3
    MaxSeeks = 0
    Ports = {}
    FlashDirect = TRUE
    InTime = TRUE
    Reenumerate = FALSE
CHECK_DEADLOCK FALSE
INVARIANTS
    OneThreadOnly
