\* the staging data changes twice, also after the pod has ended
CONSTANTS
  MaxUid = 1
  Tampered = {}
  MaxTampers = 0
  MaxWrites = 2
  Staged <- AnyData
SPECIFICATION Spec
INVARIANTS
  LedgerMatchesArtifacts
PROPERTIES
  EvidenceFrozen
  CancelBeforeLaunch
CHECK_DEADLOCK FALSE
