\* Two of three calls, of one process or of two; three tokens, two faults.
SPECIFICATION Spec
CONSTANTS
  c1 = c1
  c2 = c2
  c3 = c3
  p1 = p1
  p2 = p2
  Call = {c1, c2, c3}
  Process = {p1, p2}
  Home <- MCHome
  Mask <- MCMask
  NoEntry = NoEntry
  MaxCalls = 2
  MaxTokens = 3
  MaxFaults = 2
INVARIANTS
  ConsumedOnce
  LossIsExplained
  LatestLoginWins
PROPERTY
  EveryCallEnds
  ImplementsCredentialCell
\* Calls and tokens are bounded.
CHECK_DEADLOCK FALSE
