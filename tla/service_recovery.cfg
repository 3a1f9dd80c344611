SPECIFICATION Spec
CONSTANTS
  r1 = r1
  r2 = r2
  r3 = r3
  r4 = r4
  Review = {r1, r2, r3, r4}
  Worker = {w1}
  Canceller = {}
  Loop = loop
  Watchdog = watchdog
  NoReview = none
  QueueCapacity = 1
  KeyOf <- PairedKeys
  MayIdle = {r1}
  MaxBoots = 2
INVARIANTS ExecutedOnce  NoDuplicateWork
SYMMETRY Symmetric
CHECK_DEADLOCK FALSE
