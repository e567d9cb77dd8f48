\* two UIDs per name and one hostile step: replacements, lost objects, a new cluster
CONSTANTS
  MaxUid = 2
  Tampered <- Hostile
  MaxTampers = 1
  MaxWrites = 0
  Staged = {}
SPECIFICATION Spec
INVARIANTS
  TypeOK
  LaunchedAtMostOnce
  OnlyOwnObjectsRemoved
  CompleteMeansGone
  ReadyBindsFinalLedger
  GateOpensToRecordedPod
  ClaimsAreTrue
PROPERTIES
  BindingStable
\* MaxUid and MaxTampers stop a run whose recorded object was replaced
CHECK_DEADLOCK FALSE
