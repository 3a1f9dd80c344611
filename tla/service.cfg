SPECIFICATION FairSpec
CONSTANTS
  r1 = r1
  r2 = r2
  r3 = r3
  r4 = r4
  Review = {r1}
  Worker = {w1}
  Canceller = {k1}
  Loop = loop
  Watchdog = watchdog
  NoReview = none
  QueueCapacity = 0
  KeyOf <- PairedKeys
  MayIdle = {r1}
  MaxBoots = 2
INVARIANTS TypeOK CancelWins ShownVerdictIsStored
PROPERTIES ImplementsLifecycle 
CHECK_DEADLOCK FALSE
