SPECIFICATION FairSpec
CONSTANTS
  Task = {"task"}
  Lease = {"lease-1", "lease-2"}
  LeasesOf <- OneGang
  MaxStatus = 9
  MaxCrash = 2
  MaxSkew = 1
  Faults = {"tear", "wipe"}
INVARIANTS
  TypeOK
  SnapshotsAreRedundant
  RebuiltAsWritten
  ReleasedBeforeOutcome
PROPERTIES
  ComesUp
CHECK_DEADLOCK FALSE
