\* one sandbox and no output: which faults can wedge the gate or lose the result
CONSTANTS
  MaxSandboxes = 1
  Commands = 2
  Helpers = {"h1", "h2"}
  MaxFaults = 2
  MaxChunks = 0
  MaxLogs = 0
  QueueLimit = 2
  MaxUpsets = 1
SPECIFICATION FairSpec
PROPERTIES
  GateOpens
  ResultArrives
CHECK_DEADLOCK FALSE
