\* a passing and a failing result of one job, and one that does not verify; one
\* retry before exhaustion
CONSTANTS
  Results = {"pass", "fail", "forged"}
  Valid = {"pass", "fail"}
  Failing = {"fail"}
  MaxTries = 2
SPECIFICATION FairSpec
INVARIANTS
  PostsAreCharged
  ReportsAreDurable
PROPERTIES
  DeliversAsPromised
  StoreCommitsOnce
  CommitIsRecognised
  ReportsArrive
  DeliverySettles
