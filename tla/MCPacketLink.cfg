CONSTANTS
  CommandRequests <- MCCommandRequests
  TelemetryPackets <- MCTelemetryPackets
  Exposed <- MCExposed
  Bursts <- MCBursts
  Resizes <- MCResizes
SPECIFICATION Spec
INVARIANTS IntactUnderstood DamageRefused CrcIsRemainder
