\* one retry before the budget is spent, one delayed report at a time
CONSTANTS
  MaxAttempts = 2
  MaxLate = 1
SPECIFICATION FairSpec
INVARIANTS
  StateIsUsable
PROPERTIES
  OutcomeStands
  RunAdvances
  ReceiptEndsRun
  TableCatchesUp
