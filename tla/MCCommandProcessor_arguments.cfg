CONSTANTS
  MaximumFailedAttempts = 3
  CounterModulus = 16
  Argument <- MCArgument
SPECIFICATION Spec
PROPERTY InvalidArgumentRejected
