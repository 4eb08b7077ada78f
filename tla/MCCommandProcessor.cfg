CONSTANTS
  MaximumFailedAttempts = 3
  CounterModulus = 16
  Argument <- MCArgument
SPECIFICATION Spec
INVARIANTS TypeOK RecoveryBudget
PROPERTIES RecoveryStartsFresh SafeLeftByCommandOnly FaultResponseReached RejectionKeepsState
