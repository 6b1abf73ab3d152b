SPECIFICATION FairSpec
CONSTANTS
    Plans <- MCPlans
    ProbeRounds = 2
    HelloTries = 2
    PrgTries = 3
    MaxSend = 3
    MaxResend = 2
INVARIANTS
    SaharaTypeOK
    RunsOnlyWhole
    CopyFits
PROPERTIES
    DialogueEnds
    PrgRuns
