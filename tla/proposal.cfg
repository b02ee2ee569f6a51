SPECIFICATION Spec
CONSTANTS
  Key = {k1, k2}
  MaxRounds = 3
  MaxReviews = 2
  NoKey = NoKey
  Faults = {"crash", "time"}
INVARIANTS
  TypeOK
  ReviewsWithinLimit
  OneTask
  ApprovedOnly
  TaskMeansCompiled
PROPERTIES
  ClosedForGood
