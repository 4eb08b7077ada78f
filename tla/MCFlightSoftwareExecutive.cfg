CONSTANTS
  MaximumFailedAttempts = 2
  CounterModulus = 4
  Policy <- OpenPolicy
  Thresholds <- MCThresholds
  WatchdogConfig <- MCWatchdogConfig
  MissedModulus = 3
  SequenceModulus = 4
  SerialHalfRange = 2
  TimeModulus = 16
  MaximumAge = 1
  MaximumFutureSkew = 1
  Capacity = 3
  EventModulus = 1
  Timestamp = {0}
  HealthSnapshot <- MCHealth
  Command <- MCCommand
  TelemetryModulus = 4
  Task = {"FLIGHT_SOFTWARE_STEP", "HOUSEKEEPING_SNAPSHOT"}
  RateGroup <- MCRateGroup
  TickModulus = 8
  Delay = {0, 1, 2}
SPECIFICATION ExecutiveSpec
INVARIANTS NothingLeftPending OneStepPerRelease LateCompletionsCounted LogExplainsTelemetry
