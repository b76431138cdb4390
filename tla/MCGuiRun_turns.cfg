SPECIFICATION RunFairSpec
CONSTANTS
  Run = {r1, r2}
  Session = {s1}
  Approval = {a1}
  Nobody = nobody
  Home <- MCHome
INVARIANTS
  OneRunPerSession
  TerminalMeansFree
  OneTerminal
  CancelReachesAll
  NoDecisionIsLost
PROPERTIES
  DecisionArrives
  ShutdownEnds
  ImplementsTurnService
