-------------------------- MODULE MCPortScheduler ---------------------------
EXTENDS PortScheduler

DiagOnly == {"diag"}
BothModes == {"diag", "fastboot"}

\* For invariants that say nothing of what follows a race.
NotRaced == ~raced
==============================================================================
