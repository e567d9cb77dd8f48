\* two claims of one name, so that a claim can be replaced; two processes, so that
\* a killed helper can overlap with the next one; one trouble in every run
CONSTANTS
  MaxClaims = 2
  Names = 1
  Procs = {"p1", "p2"}
  MaxTroubles = 1
  CleanupAttempts = 2
  JobClaims = 1
  MaxCommands = 3
SPECIFICATION Spec
INVARIANTS
  GuardTellsTruth
PROPERTIES
  FailuresStay
  GuardEnds
\* the guard exits, the operator stops
CHECK_DEADLOCK FALSE
