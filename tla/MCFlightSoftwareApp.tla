------------------------- MODULE MCFlightSoftwareApp -------------------------
(***************************************************************************)
(* Instances of FlightSoftwareApp.  Times, loads and ages are small        *)
(* numbers on both sides of every threshold; numbers wrap within a few     *)
(* steps, so the state space is finite without a bound on the steps.       *)
(***************************************************************************)
EXTENDS FlightSoftwareApp, Functions

MCThresholds ==
  [cpu_warning_percent |-> 1, cpu_critical_percent |-> 2,
   memory_warning_percent |-> 1, memory_critical_percent |-> 2,
   sensor_timeout_ms |-> 1, payload_timeout_ms |-> 1, loop_deadline_ms |-> 1]

MCWatchdogConfig ==
  [warning_ms |-> 1, timeout_ms |-> 2, loop_deadline_ms |-> 1, max_missed_deadlines |-> 2]

OpenPolicy ==
  [allow_noop |-> TRUE, allow_set_mode |-> TRUE, allow_fault_injection |-> TRUE,
   allow_telemetry_request |-> TRUE, allow_fault_clear |-> TRUE, allow_test_mode |-> TRUE]

(* The policy of a flight without tests: no TEST mode and no telemetry on request. *)
FlightPolicy == [OpenPolicy EXCEPT !.allow_test_mode = FALSE, !.allow_telemetry_request = FALSE]

Health(cpu, memory, sensor, payload, loop) ==
  [cpu_load_percent |-> cpu, memory_load_percent |-> memory, sensor_age_ms |-> sensor,
   payload_age_ms |-> payload, loop_duration_ms |-> loop]

Nominal == Health(0, 0, 0, 0, 0)

(* Each critical condition with its neighbour in the order of urgency, the       *)
(* least urgent one alone, the warnings by themselves, and nothing at all.        *)
AnyHealth ==
  {Nominal, Health(2, 0, 0, 0, 0), Health(2, 2, 0, 0, 0), Health(0, 2, 1, 0, 0),
   Health(0, 0, 1, 0, 1), Health(1, 1, 0, 1, 0)}

Ground(sequence, timestamp, id, argument) ==
  [sequence_number |-> sequence, timestamp_ms |-> timestamp, command_id |-> id,
   argument |-> argument]

(* Every kind of command, with the modes that have a role in the policy or in    *)
(* recovery, with a fault of every severity, and with arguments that name nothing *)
(* or alias TEST or a fault.  The numbers wrap; two of them carry all the kinds,  *)
(* CLEAR_FAULT carries any.  At time 2 the commands are fresh, at time  *)
(* 0 they are ahead of the clock; those of time 0 are stale at time 2.            *)
AnyCommand ==
  {Ground(n, 2, "CLEAR_FAULT", 0) : n \in 0 .. 3}
  \cup {Ground(n, 2, id, 0) : n \in 0 .. 1, id \in {"NOOP", "REQUEST_TELEMETRY"}}
  \cup {Ground(n, 2, "SET_MODE", a) :
           n \in 0 .. 1, a \in {ModeCode[m] : m \in {"NOMINAL", "STANDBY", "DEGRADED_SENSOR", "SAFE", "RECOVERY", "TEST"}}
                               \cup {8, 256 + ModeCode["TEST"]}}
  \cup {Ground(n, 2, "INJECT_FAULT", a) :
           n \in 0 .. 1, a \in {FaultNumber[f] : f \in {"COMMAND_BAD_CRC", "SENSOR_TIMEOUT"}}
                               \cup {1, 65536 + FaultNumber["CPU_OVERLOAD"]}}
  \cup {Ground(n, 0, "CLEAR_FAULT", 0) : n \in 0 .. 1}

(* An operator who sets the mode and clears the fault. *)
OperatorCommands ==
  {Ground(n, 0, "SET_MODE", ModeCode["NOMINAL"]) : n \in 0 .. 1}
  \cup {Ground(n, 0, "CLEAR_FAULT", 0) : n \in 0 .. 3}

LateLoopHealth == {Nominal, Health(0, 0, 0, 0, 1)}

(* The view of the run that is not about the event log: no action reads log, ack *)
(* or telemetry_sequence, and no invariant of that run mentions them.  Its action  *)
(* properties do, and are checked on every step.                                   *)
ControlView == <<proc, guard, watchdog, watchdog_initialized, output>>
=============================================================================
