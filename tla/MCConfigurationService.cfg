CONSTANTS
  Configuration <- MCConfiguration
  Client = {ground, payload}
  SchemaVersion = 1
  TimeModulus = 16
  CounterModulus = 16
SPECIFICATION Spec
INVARIANTS ValidConfigurationFlies LockedConfigurationFlies
PROPERTIES NoLostUpdate LockFreezes
