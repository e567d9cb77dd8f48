\* two attempts of the watchdog are enough to meet an exhausted finalizer
CONSTANTS
  MaxAttempts = 2
  MaxLate = 0
SPECIFICATION Spec
PROPERTY ArchivedIsNotGivenUp
