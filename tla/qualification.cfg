SPECIFICATION Spec
CONSTANTS
  Task = {1, 2}
  Card = {1}
  MaxAttempts = 2
  MaxFault = 2
INVARIANTS
  TypeOK
  VerdictIsTrue
  OutcomeHasEvidence
PROPERTIES
  QualificationConcludes
CHECK_DEADLOCK FALSE
