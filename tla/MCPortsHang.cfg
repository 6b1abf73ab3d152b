SPECIFICATION FairSpec
CONSTANTS
    NSlots = 2
    MaxUnits = 2
    FlashDirect = TRUE
    NPorts = 1
    PortDevFixed = TRUE
    MaxThreads = 2
    MaxClicks = 1
    PlugModes <- DiagOnly
    Unplugging = "never"
    InTime = TRUE
CHECK_DEADLOCK FALSE
PROPERTIES
    UIResponsive
