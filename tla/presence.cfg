SPECIFICATION Spec
CONSTANTS
  GpuCount = 1
  Recovery = 2
  Valid = 1
  MaxThread = 2
  MaxFault = 2
  MaxSlow = 1
INVARIANTS
  TypeOK
  AdmittedWasLow
  ServedIsReachable
PROPERTIES
  AdmissionFollowsTheWorker
