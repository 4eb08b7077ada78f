CONSTANTS
  MaximumFailedAttempts = 2
  CounterModulus = 4
  Policy <- OpenPolicy
  Thresholds <- MCThresholds
  WatchdogConfig <- MCWatchdogConfig
  MissedModulus = 3
  SequenceModulus = 8
  SerialHalfRange = 4
  TimeModulus = 16
  MaximumAge = 1
  MaximumFutureSkew = 1
  Capacity = 3
  EventModulus = 1
  Timestamp = {0}
  HealthSnapshot <- LateLoopHealth
  Command <- OperatorCommands
  TelemetryModulus = 1
SPECIFICATION Spec
PROPERTY ClearFaultClears
