SPECIFICATION Spec
CONSTANTS
  Run = {1, 2}
  Call = {1, 2}
  Serial = {1}
  Asking = {1}
  Slots = 1
  MaxRounds <- MCMaxRounds
INVARIANTS
  ToolsStayInTheirBatch
  ToolsInTurn
  HistoryPaired
PROPERTY CancelEnds
CHECK_DEADLOCK FALSE
