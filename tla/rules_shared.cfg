SPECIFICATION Spec
CONSTANTS
  Task = {t1, t2}
  Rules = 1
  AiRules = {1}
  Chunks <- TwoParts
  Submissions <- Consented
  EgressSwitch = {TRUE}
  Attempts = 2
  MaxCalls = 2
  MaxConcurrency = 1
INVARIANTS SlotsAccounted
SYMMETRY Symmetric
CHECK_DEADLOCK FALSE
