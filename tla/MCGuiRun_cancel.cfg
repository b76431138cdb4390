SPECIFICATION RunSpec
CONSTANTS
  Run = {r1, r2}
  Session = {s1}
  Approval = {a1}
  Nobody = nobody
  Home <- MCHome
PROPERTIES
  CancelIsRecorded
