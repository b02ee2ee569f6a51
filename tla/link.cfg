SPECIFICATION Spec
CONSTANTS
  MaxCall = 2
  Execute = {1}
  MaxConn = 2
  MaxBeat = 2
  Faults = {"break", "hub_crash", "worker_crash", "timeout"}
INVARIANTS
  TypeOK
  InOrder
  AnswerKept
