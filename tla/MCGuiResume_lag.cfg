\* A queue of one event.
SPECIFICATION GuiSpec
CONSTANTS
  SessionPub = {s1}
  FreePub = {fwd1}
  NoPub = NoPub
  Lagger = fwd1
  Capacity = 4
  MaxEvents = 5
  MaxPublished = 3
  QueueCapacity = 1
  MaxConnects = 2
  MaxFailed = 0
  MaxRestarts = 0
INVARIANT
  LagRecoversBySnapshot
\* Events, connections and restarts are bounded.
CHECK_DEADLOCK FALSE
