CONSTANTS
  Task = {"flight", "housekeeping"}
  RateGroup <- MCRateGroup
  TickModulus = 11
  UnknownTask = "unknown"
SPECIFICATION Spec
INVARIANTS EveryReleaseAccountedOnce OverdueIsRecorded ReleasesFollowConfiguration
PROPERTIES OnTimeNotBackdated
