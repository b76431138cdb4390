SPECIFICATION Spec
CONSTANTS
  Agent = {a1, a2, a3}
  Walker = {w1}
  NoAgent = NoAgent
  Limit = 2
  MaxDepth = 2
  Leasing = {a1, a2, a3}
  MaxUse = 1
  MaxUsers = 1
  MaxFaults = 1
  MaxDrops = 1
SYMMETRY Symmetry
INVARIANTS
  ConcurrencyRespected
  TreeIsCancelled
  LeaseSettled
  UsageExact
CHECK_DEADLOCK FALSE
