CONSTANTS
  MaxUid = 2
  Tampered <- OnlyResource
  MaxTampers = 1
  MaxWrites = 0
  Staged = {}
SPECIFICATION Spec
PROPERTIES
  NeverReplaces
CHECK_DEADLOCK FALSE
