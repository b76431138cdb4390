SPECIFICATION CoreFairSpec
CONSTANTS
  r1 = r1
  r2 = r2
  m1 = m1
  m2 = m2
  e1 = e1
  none = none
  Run <- MCRun
  Approve = {a1, a2}
  Model = {m1, m2}
  Effort = {e1}
  NotNamed = none
  AskedModel <- MCAskedModel
  AskedEffort <- MCAskedEffort
  Selected = m1
  Waits = {r1}
INVARIANTS
  NoGrantAfterEnd
  SettingsAreAsked

  
