---------------------- MODULE MCFlightSoftwareExecutive ----------------------
(***************************************************************************)
(* The executive with a flight task every other tick, housekeeping every   *)
(* third, and a flight completion that is in time, at its deadline, or     *)
(* late.  The application is small: one kind of fault, three commands.     *)
(***************************************************************************)
EXTENDS FlightSoftwareExecutive

MCRateGroup ==
  [FLIGHT_SOFTWARE_STEP  |-> [period_ticks |-> 2, phase_ticks |-> 0, relative_deadline_ticks |-> 1],
   HOUSEKEEPING_SNAPSHOT |-> [period_ticks |-> 3, phase_ticks |-> 1, relative_deadline_ticks |-> 2]]

MCThresholds ==
  [cpu_warning_percent |-> 1, cpu_critical_percent |-> 1,
   memory_warning_percent |-> 1, memory_critical_percent |-> 1,
   sensor_timeout_ms |-> 1, payload_timeout_ms |-> 1, loop_deadline_ms |-> 1]

MCWatchdogConfig ==
  [warning_ms |-> 1, timeout_ms |-> 2, loop_deadline_ms |-> 1, max_missed_deadlines |-> 2]

OpenPolicy ==
  [allow_noop |-> TRUE, allow_set_mode |-> TRUE, allow_fault_injection |-> TRUE,
   allow_telemetry_request |-> TRUE, allow_fault_clear |-> TRUE, allow_test_mode |-> TRUE]

MCHealth == {[NoSnapshot EXCEPT !.sensor_age_ms = age] : age \in 0 .. 1}

Ground(sequence, id, argument) ==
  [sequence_number |-> sequence, timestamp_ms |-> 0, command_id |-> id, argument |-> argument]

(* Commands that leave a trail in the event log; two of them carry the same number. *)
MCCommand ==
  {Ground(0, "SET_MODE", ModeCode["NOMINAL"]), Ground(1, "SET_MODE", ModeCode["RECOVERY"]),
   Ground(1, "CLEAR_FAULT", 0)}
=============================================================================
