\* no tampering: crashes, failing calls and two patches, under fairness
CONSTANTS
  MaxUid = 1
  Tampered = {}
  MaxTampers = 0
  MaxWrites = 2
  Staged = {"none", "garbled"}
SPECIFICATION FairSpec
PROPERTIES
  RunsFinish
