CONSTANTS
  MaximumFailedAttempts = 3
  CounterModulus = 8
  Policy <- AllowAll
  Thresholds <- FlightThresholds
  WatchdogConfig <- FlightWatchdog
  MissedModulus = 8
  SequenceModulus = 16
  SerialHalfRange = 8
  TimeModulus = 1024
  MaximumAge = 100
  MaximumFutureSkew = 20
  Capacity = 1
  EventModulus = 1
  Timestamp = {}
  HealthSnapshot = {}
  Command = {}
  TelemetryModulus = 1
  CampaignLoops = 6
  DisturbedLoop = 5
  Scenarios <- MCScenarios
  ReceiveTimeout = 1
  LoopSleep = 3
  WatchdogSleep = 13
  StartupTime = 1
  Jitter = 0
  StartupDelay = 2
  SendTime = 1
  ExpectTimeout = 36
  PollSleep = 1
  ServerWait = 6
  MaxStray = 1
  MaxOverlooked = 1
  MaxClock = 100
SPECIFICATION RunnerSpec
INVARIANTS  WatchdogSeesDelay
PROPERTIES PassedAfterCommand ScenarioEnds
CHECK_DEADLOCK FALSE
