SPECIFICATION Spec
CONSTANTS
    NImages = 3
    Need <- MCNeed
    Size <- MCSize
    NVars = 1
    PadSize = 0
    MaxInfo = 0
    ShortGrant = FALSE
INVARIANT
    UpdatedMeansFlashed
