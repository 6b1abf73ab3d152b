SPECIFICATION FairSpec
CONSTANTS
    MaxPayload = 3
    MaxOutput = 7
    FileLen = 3
    MaxChunk = 3
    MaxCalls = 3
INVARIANTS
    AdbTypeOK
    BufferFits
    ShellWhole
    FilesInOrder
PROPERTIES
    ShellEnds
CHECK_DEADLOCK FALSE
