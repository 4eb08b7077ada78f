CONSTANTS
  MaximumFailedAttempts = 2
  CounterModulus = 4
  Policy <- FlightPolicy
  Thresholds <- MCThresholds
  WatchdogConfig <- MCWatchdogConfig
  MissedModulus = 3
  SequenceModulus = 4
  SerialHalfRange = 2
  TimeModulus = 16
  MaximumAge = 1
  MaximumFutureSkew = 0
  Capacity = 1
  EventModulus = 1
  Timestamp = {0, 2}
  HealthSnapshot <- AnyHealth
  Command <- AnyCommand
  TelemetryModulus = 1
SPECIFICATION Spec
INVARIANTS MostUrgentFaultActedOn TestModeLocked
PROPERTIES SafeHeld RejectedCommandInert
VIEW ControlView
