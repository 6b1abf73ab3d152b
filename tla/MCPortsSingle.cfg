SPECIFICATION FairSpec
CONSTANTS
    NSlots = 1
    MaxUnits = 2
    FlashDirect = TRUE
    NPorts = 1
    PortDevFixed = TRUE
    MaxThreads = 1
    MaxClicks = 2
    PlugModes <- DiagOnly
    Unplugging = "any"
    InTime = TRUE
CHECK_DEADLOCK FALSE
INVARIANTS
    PortsTypeOK
    OneObject
PROPERTIES
    FirstUnitServed
