\* two input artifacts and the code's six charged attempts
CONSTANTS
  Inputs = {"run.json", "job.log"}
  MaxAttempts = 6
SPECIFICATION FairSpec
INVARIANTS
  SigningIsCharged
  OneBundleArchived
  ResultIsFinal
  FrozenInputsOnly
PROPERTIES
  PublishesAsPromised
  ProtectedAtPublication
  ArchivedIsPublished
  RunsSettle
CHECK_DEADLOCK FALSE
