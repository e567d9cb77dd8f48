\* three patches: one recorded, one whose file alone is kept, one that does not parse
CONSTANTS
  MaxUid = 1
  Tampered = {}
  MaxTampers = 0
  MaxWrites = 3
  Staged = {"none", "garbled"}
SPECIFICATION Spec
INVARIANTS
  PublicationIsRepairable
CHECK_DEADLOCK FALSE
