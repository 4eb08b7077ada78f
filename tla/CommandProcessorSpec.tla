------------------------ MODULE CommandProcessorSpec ------------------------
(***************************************************************************)
(* The command processor on its own, driven by arbitrary decoded packets.  *)
(***************************************************************************)
EXTENDS CommandProcessor

CONSTANT Argument   \* the 32-bit arguments a packet may carry

ASSUME ArgumentAssumption == Argument \subseteq Nat

VARIABLES
  proc,    \* mode_manager_, last_fault_, recovery_supervisor_.failed_attempts_
  result   \* the CommandResult returned last

vars == <<proc, result>>

Init ==
  /\ proc = InitialProcessor
  /\ result = [command_id |-> "NOOP", status |-> "ACCEPTED"]

Handle(id, argument) ==
  LET outcome == Process(proc, id, argument)
  IN  /\ proc' = outcome.state
      /\ result' = [command_id |-> id, status |-> outcome.status]

(* NOOP, REQUEST_TELEMETRY and CLEAR_FAULT do not read their argument. *)
Noop              == Handle("NOOP", 0)
RequestTelemetry  == Handle("REQUEST_TELEMETRY", 0)
ClearFault        == Handle("CLEAR_FAULT", 0)
SetMode(argument) == Handle("SET_MODE", argument)
InjectFault(argument) == Handle("INJECT_FAULT", argument)

Next ==
  \/ Noop
  \/ RequestTelemetry
  \/ ClearFault
  \/ \E argument \in Argument : SetMode(argument)
  \/ \E argument \in Argument : InjectFault(argument)

Spec == Init /\ [][Next]_vars

-----------------------------------------------------------------------------
(* The mode is in the graph, the fault in the table, and the 32-bit attempt   *)
(* counter of the recovery supervisor in range.                               *)
TypeOK ==
  /\ proc \in ProcessorState
  /\ result \in [command_id: CommandId, status: CommandStatus]

(* A recovery session of RecoverySupervisor never overspends its budget.       *)
RecoveryBudget == SessionBudget(proc)

(* Whichever edge leads into RECOVERY, the session starts with no failed       *)
(* attempt, although the processor calls begin_session only on the edge from   *)
(* SAFE.                                                                       *)
RecoveryStartsFresh ==
  [][proc.mode # "RECOVERY" /\ proc'.mode = "RECOVERY" => proc'.failed_attempts = 0]_vars

(* No command and no fault moves the vehicle out of SAFE, except an accepted   *)
(* SET_MODE to RECOVERY.                                                       *)
SafeLeftByCommandOnly ==
  [][proc.mode = "SAFE" /\ proc'.mode # "SAFE" =>
       /\ proc'.mode = "RECOVERY"
       /\ result' = [command_id |-> "SET_MODE", status |-> "ACCEPTED"]]_vars

(* An accepted fault takes effect from every mode, SAFE and RECOVERY included: *)
(* a critical one ends in SAFE, a degrading one in DEGRADED_PAYLOAD or, where  *)
(* the graph has no such edge, in SAFE; an advisory one moves nothing.         *)
FaultResponseReached ==
  [][result'.command_id = "INJECT_FAULT" /\ result'.status = "ACCEPTED" =>
       CASE SeverityOf(proc'.last_fault) = "CRITICAL" -> proc'.mode = "SAFE"
         [] SeverityOf(proc'.last_fault) = "DEGRADED" -> proc'.mode \in {"DEGRADED_PAYLOAD", "SAFE"}
         [] OTHER                                     -> proc'.mode = proc.mode]_vars

(* A rejected command leaves no trace but the attempt it costs in RECOVERY:    *)
(* the fault is kept, and the mode too unless the limit was reached.           *)
RejectionKeepsState ==
  [][result'.status # "ACCEPTED" =>
       /\ proc'.last_fault = proc.last_fault
       /\ proc'.mode # proc.mode <=> result'.status = "REJECTED_RECOVERY_LIMIT"
       /\ proc'.failed_attempts # proc.failed_attempts => proc.mode = "RECOVERY"]_vars

-----------------------------------------------------------------------------
(* docs/command_packet.md: "... invalid mode argument, or invalid fault         *)
(* argument must be rejected."  The conversions of the packet module keep only  *)
(* the low bits of the argument.                                                *)
InvalidArgumentRejected ==
  [][\A argument \in Argument :
       \/ SetMode(argument) /\ \A m \in Mode : ModeCode[m] # argument
       \/ InjectFault(argument) /\ \A f \in FaultCode : FaultNumber[f] # argument
       => result'.status = "REJECTED_BAD_ARGUMENT"]_vars
=============================================================================
