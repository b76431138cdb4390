SPECIFICATION Spec
CONSTANTS
  Lease = {l1, l2}
  Sweeper = {s1}
  NoTask = NoTask
  Cap = 1
  MaxFaults = 2
  MaxDrops = 1
  MaxCrashes = 2
INVARIANTS
  SlotsAddUp
  ReleaseSurvives
PROPERTY SlotComesBack
CHECK_DEADLOCK FALSE
