SPECIFICATION Spec
CONSTANTS
  MaxCall = 1
  Execute = {}
  MaxConn = 1
  MaxBeat = 3
  Faults = {}
INVARIANTS
  NothingUnreported
CHECK_DEADLOCK FALSE
