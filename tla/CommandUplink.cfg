CONSTANTS
  SequenceModulus = 8
  SerialHalfRange = 4
  TimeModulus = 64
  MaximumAge = 1
  MaximumFutureSkew = 0
  IssueRate = 1
  ClockError = 1
  MaxTime = 8
  MaxInFlight = 2
SPECIFICATION Spec
INVARIANTS TypeOK ExecutedOnceInOrder
PROPERTIES YoungerCommandAccepted
CHECK_DEADLOCK FALSE
