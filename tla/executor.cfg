SPECIFICATION FairSpec
CONSTANTS
  Task = {t1, t2, t3}
  Worker = {w1, w2}
  Caller = {c1}
  Loop = loop
  NoTask = none
  QueueCapacity = 0
INVARIANTS SlotsAccounted RegistryClean StopIsTold
PROPERTIES ImplementsPool SlotsComeBack
CHECK_DEADLOCK FALSE
