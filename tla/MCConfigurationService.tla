----------------------- MODULE MCConfigurationService -----------------------
(***************************************************************************)
(* Two clients, three revisions, and at each revision two good             *)
(* configurations and one with each field out of its range.                *)
(***************************************************************************)
EXTENDS ConfigurationService

Group(period, phase, deadline) ==
  [period_ticks |-> period, phase_ticks |-> phase, relative_deadline_ticks |-> deadline]

Good(revision) ==
  [schema_version |-> SchemaVersion, revision |-> revision, event_log_capacity |-> 16,
   maximum_age_ms |-> 1, maximum_future_skew_ms |-> 1, maximum_failed_attempts |-> 3,
   flight |-> Group(1, 0, 1), housekeeping |-> Group(10, 0, 2)]

Variants(good) ==
  {good,
   [good EXCEPT !.event_log_capacity = 4096],
   [good EXCEPT !.schema_version = SchemaVersion + 1],
   [good EXCEPT !.event_log_capacity = 0],
   [good EXCEPT !.maximum_age_ms = TimeModulus - 1],
   [good EXCEPT !.maximum_future_skew_ms = TimeModulus - 1],
   [good EXCEPT !.maximum_failed_attempts = 0],
   [good EXCEPT !.flight = Group(0, 0, 1)],
   [good EXCEPT !.housekeeping = Group(10, 10, 2)],
   [good EXCEPT !.housekeeping = Group(10, 0, 11)]}

MCConfiguration == UNION {Variants(Good(revision)) : revision \in 0 .. 3}
=============================================================================
