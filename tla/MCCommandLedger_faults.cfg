\* Two calls of one or two clients share a ledger of one completed row: refused
\* database calls, a record that commits and is reported as failed, eviction
\* across clients, wake-ups that are lost or sent to another command id, and a
\* crash.
SPECIFICATION FairSpec
CONSTANTS
  Req = {r1, r2}
  Scope = {s1, s2}
  Cmd = {c1, c2}
  Key = {k1}
  NoKey = NoKey
  NoRow = NoRow
  NoReq = NoReq
  Error = Error
  Capacity = 1
  MaxFaults = 2
  MaxLate = 1
  MaxCrashes = 1
INVARIANTS
  ExclusiveExecution
  ReplayFaithful
  InflightHasExecutor
PROPERTIES
  AtMostOnce
  CompletedIsFinal
  EveryCallReturns
  ImplementsOnceService
\* The calls are finitely many: all answered is the end of the behaviour.
CHECK_DEADLOCK FALSE
