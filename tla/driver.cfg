SPECIFICATION Spec
CONSTANTS
  MaxAssignment = 2
  Gpu <- TwoGpus
  GpusOf <- FirstTakesBoth
  MaxMail = 2
  MaxEarly = 1
  Faults = {"docker", "restart", "timeout"}
INVARIANTS
  TypeOK
  RunsUnderLease
  ThreadsUnderLease
  Stoppable
PROPERTIES
  OnlyNewestActs
CHECK_DEADLOCK FALSE
