SPECIFICATION FairSpec
CONSTANTS
  Task = {t1}
  Rules = 3
  AiRules = {2, 3}
  Chunks <- TwoParts
  Submissions <- AnySubmission
  EgressSwitch = {TRUE, FALSE}
  Attempts = 2
  MaxCalls = 3
  MaxConcurrency = 1
INVARIANTS ConcludedMeansChecked EgressNeedsConsent BudgetKept CancelStopsRequests
 
CHECK_DEADLOCK FALSE
