---------------------------- MODULE FdirManager ----------------------------
(***************************************************************************)
(* Fault detection, isolation and recovery (fsw/src/fdir_manager.cpp): the *)
(* disposition of each fault, the choice of the fault that is acted on     *)
(* when several are active, and the mode change it causes.                 *)
(***************************************************************************)
EXTENDS ModeManager

(* enum class FaultCode, with the code each fault has on the wire. *)
FaultNumber ==
  [NONE                      |-> 0,
   SENSOR_TIMEOUT            |-> 100,
   SENSOR_INVALID_DATA       |-> 101,
   PAYLOAD_HEARTBEAT_TIMEOUT |-> 200,
   CPU_OVERLOAD              |-> 300,
   MEMORY_OVERLOAD           |-> 301,
   TELEMETRY_SOCKET_FAILURE  |-> 400,
   COMMAND_BAD_CRC           |-> 500,
   COMMAND_UNKNOWN_ID        |-> 501,
   COMMAND_TIMEOUT           |-> 502,
   WATCHDOG_DEADLINE_MISS    |-> 600]

FaultCode == {"NONE", "SENSOR_TIMEOUT", "SENSOR_INVALID_DATA",
              "PAYLOAD_HEARTBEAT_TIMEOUT", "CPU_OVERLOAD", "MEMORY_OVERLOAD",
              "TELEMETRY_SOCKET_FAILURE", "COMMAND_BAD_CRC", "COMMAND_UNKNOWN_ID",
              "COMMAND_TIMEOUT", "WATCHDOG_DEADLINE_MISS"}

Severity == {"NONE", "ADVISORY", "DEGRADED", "CRITICAL"}
Response == {"NONE", "HOLD_CURRENT_MODE", "ENTER_DEGRADED_SENSOR", "ENTER_DEGRADED_PAYLOAD",
             "ENTER_SAFE"}

Disp(severity, response, priority, latched, operatorClear) ==
  [severity |-> severity, response |-> response, priority |-> priority,
   latched |-> latched, operator_clear |-> operatorClear]

(* The fault table.  `latched` and `operator_clear` are recorded in it and   *)
(* read by nothing.                                                          *)
DispositionFor ==
  [NONE                      |-> Disp("NONE", "NONE", 0, FALSE, FALSE),
   SENSOR_TIMEOUT            |-> Disp("CRITICAL", "ENTER_SAFE", 90, TRUE, TRUE),
   SENSOR_INVALID_DATA       |-> Disp("CRITICAL", "ENTER_SAFE", 85, TRUE, TRUE),
   PAYLOAD_HEARTBEAT_TIMEOUT |-> Disp("DEGRADED", "ENTER_DEGRADED_PAYLOAD", 50, TRUE, FALSE),
   CPU_OVERLOAD              |-> Disp("DEGRADED", "ENTER_DEGRADED_PAYLOAD", 60, TRUE, FALSE),
   MEMORY_OVERLOAD           |-> Disp("CRITICAL", "ENTER_SAFE", 80, TRUE, TRUE),
   TELEMETRY_SOCKET_FAILURE  |-> Disp("CRITICAL", "ENTER_SAFE", 75, TRUE, TRUE),
   COMMAND_BAD_CRC           |-> Disp("ADVISORY", "HOLD_CURRENT_MODE", 20, FALSE, FALSE),
   COMMAND_UNKNOWN_ID        |-> Disp("ADVISORY", "HOLD_CURRENT_MODE", 15, FALSE, FALSE),
   COMMAND_TIMEOUT           |-> Disp("CRITICAL", "ENTER_SAFE", 70, TRUE, TRUE),
   WATCHDOG_DEADLINE_MISS    |-> Disp("CRITICAL", "ENTER_SAFE", 100, TRUE, TRUE)]

SeverityOf(fault) == DispositionFor[fault].severity
PriorityOf(fault) == DispositionFor[fault].priority

(* f is acted on rather than g: higher priority, or equal priority and the *)
(* smaller fault code.                                                     *)
Outranks(f, g) ==
  \/ PriorityOf(f) > PriorityOf(g)
  \/ PriorityOf(f) = PriorityOf(g) /\ FaultNumber[f] <= FaultNumber[g]

(* The one fault of a set of active faults that is acted on. *)
SelectPrimaryFault(faults) ==
  IF faults \ {"NONE"} = {} THEN "NONE"
  ELSE CHOOSE f \in faults \ {"NONE"} : \A g \in faults \ {"NONE"} : Outranks(f, g)

ResponseMode(response, mode) ==
  CASE response \in {"NONE", "HOLD_CURRENT_MODE"}  -> mode
    [] response = "ENTER_DEGRADED_SENSOR"          -> "DEGRADED_SENSOR"
    [] response = "ENTER_DEGRADED_PAYLOAD"         -> "DEGRADED_PAYLOAD"
    [] response = "ENTER_SAFE"                     -> "SAFE"

(* Mutant: a degraded mode that cannot be entered is given up, without the   *)
(* fall back to SAFE.                                                        *)
MutApplyFault(mode, fault) ==
  TransitionTo(mode, ResponseMode(DispositionFor[fault].response, mode))

(* The mode after the response to a fault: a response whose mode cannot be   *)
(* entered from here falls back to SAFE.                                     *)
ApplyFault(mode, fault) ==
  LET requested == ResponseMode(DispositionFor[fault].response, mode)
  IN  IF IsValidTransition(mode, requested) THEN requested
                                            ELSE TransitionTo(mode, "SAFE")
=============================================================================
