\* Lag, a failed connect, lost connections, a restart and a ring of three events.
SPECIFICATION GuiFairSpec
CONSTANTS
  SessionPub = {s1}
  FreePub = {fwd1}
  NoPub = NoPub
  Lagger = fwd1
  Capacity = 3
  MaxEvents = 5
  MaxPublished = 4
  QueueCapacity = 1
  MaxConnects = 2
  MaxFailed = 1
  MaxRestarts = 1
INVARIANTS
  AckedIsHeld
  LiveViewComplete
PROPERTY
  EventuallyTold
\* Events, connections and restarts are bounded.
CHECK_DEADLOCK FALSE
