\* Session threads only: the hub is one ordered log.
SPECIFICATION HubSpec
CONSTANTS
  SessionPub = {s1, s2, s3}
  FreePub = {}
  NoPub = NoPub
  Capacity = 3
  MaxEvents = 8
INVARIANTS
  StreamOrder
  ReplayIsGapFree
PROPERTIES
  ImplementsOrderedLog
CHECK_DEADLOCK FALSE
