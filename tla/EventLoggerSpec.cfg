CONSTANTS
  Event = {e1, e2}
  Capacity = 3
  EventModulus = 8
SPECIFICATION Spec
INVARIANTS TypeOK SnapshotContiguous
PROPERTIES ImplementsBoundedLog
