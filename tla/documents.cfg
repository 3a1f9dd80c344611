SPECIFICATION Spec
CONSTANTS
  Content = {a}
  MaxDoc = 2
  MaxReview = 2
  BatchSize = 2
  MaxCleanups = 1
  MaxCrashes = 1
INVARIANTS  DoneBatchIsOver
 
CHECK_DEADLOCK FALSE
