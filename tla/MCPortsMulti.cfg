SPECIFICATION Spec
CONSTANTS
    NSlots = 2
    MaxUnits = 2
    FlashDirect = TRUE
    NPorts = 2
    PortDevFixed = FALSE
    MaxThreads = 3
    MaxClicks = 1
    PlugModes <- BothModes
    Unplugging = "never"
    InTime = FALSE
CONSTRAINT NotRaced
CHECK_DEADLOCK FALSE
INVARIANTS
    OneOwner
    WorkingAttached
    NoCrash
    FreshSignal
    PortHasWorker
