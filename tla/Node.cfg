\* two sandboxes and a policy of two commands; output up to the collector's limit
\* and one chunk over it; one fault around the gate, one around the log
CONSTANTS
  MaxSandboxes = 2
  Commands = 2
  Helpers = {"h1", "h2"}
  MaxFaults = 1
  MaxChunks = 3
  MaxLogs = 2
  QueueLimit = 2
  MaxUpsets = 1
SPECIFICATION Spec
INVARIANTS
  VerifiedIsTrue
PROPERTIES
  StartsIsolated
  ResultStands
\* a run ends when its result is there or its pod has failed
CHECK_DEADLOCK FALSE
