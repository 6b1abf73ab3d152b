SPECIFICATION FairSpec
CONSTANTS
    Workers = {w1, w2}
    Packages <- MCPackages
    UseAdb = TRUE
    MaxTries = 2
    MaxSends = 2
    MaxStray = 1
INVARIANTS
    DiagTypeOK
    RightImages
    CheckedFirst
    XmlWhole
PROPERTIES
    FlowEnds
