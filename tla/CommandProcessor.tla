-------------------------- MODULE CommandProcessor --------------------------
(***************************************************************************)
(* The handlers of the command processor (fsw/src/command_processor.cpp).  *)
(*                                                                         *)
(* One record holds what the processor reads and writes: the mode of the   *)
(* mode manager, the last fault, and the failed attempts of the current    *)
(* recovery session.  Process(p, id, argument) is the whole of process():  *)
(* the application runs it for ground commands and for the fault commands  *)
(* it makes itself.                                                        *)
(***************************************************************************)
EXTENDS CommandPacket, RecoverySupervisor

CommandStatus == {"ACCEPTED", "REJECTED_BAD_ARGUMENT", "REJECTED_INVALID_TRANSITION",
                  "REJECTED_RECOVERY_LIMIT"}

ProcessorState == [mode: Mode, last_fault: FaultCode,
                   failed_attempts: 0 .. CounterModulus - 1]

InitialProcessor == [mode |-> InitialMode, last_fault |-> "NONE", failed_attempts |-> 0]

(* A handler's outcome: the state it leaves and the status it reports. *)
Done(p, status) == [state |-> p, status |-> status]

ClearFaultCommand(p) == Done([p EXCEPT !.last_fault = "NONE"], "ACCEPTED")

(* Mutant: every refused request is a failed attempt. *)
MutSetModeRefused(p) == Done([p EXCEPT !.failed_attempts = FailuresAfter(p)], "REJECTED_INVALID_TRANSITION")

(* A refused exit from RECOVERY is a failed attempt.  (The code also asks that *)
(* the request is not for RECOVERY itself, which is never refused.)            *)
SetModeRefused(p) ==
  CASE p.mode = "RECOVERY" /\ FailSafeForced(p)  -> Done(RecordFailure(p), "REJECTED_RECOVERY_LIMIT")
    [] p.mode = "RECOVERY" /\ ~FailSafeForced(p) -> Done(RecordFailure(p), "REJECTED_INVALID_TRANSITION")
    [] OTHER                                     -> Done(p, "REJECTED_INVALID_TRANSITION")

SetModeGranted(p, requested) ==
  LET moved == [p EXCEPT !.mode = requested]
  IN  CASE p.mode = "SAFE" /\ requested = "RECOVERY" -> Done(BeginSession(moved), "ACCEPTED")
        [] p.mode = "RECOVERY" /\ requested # "RECOVERY" -> Done(RecordSuccess(moved), "ACCEPTED")
        [] OTHER -> Done(moved, "ACCEPTED")

SetModeCommand(p, argument) ==
  IF ~ArgumentIsMode(argument) THEN Done(p, "REJECTED_BAD_ARGUMENT")
  ELSE IF IsValidTransition(p.mode, ArgumentToMode(argument))
         THEN SetModeGranted(p, ArgumentToMode(argument))
         ELSE SetModeRefused(p)

(* The fault replaces the last one, whatever their severities, and is acted on. *)
Faulted(p, fault) ==
  [mode            |-> ApplyFault(p.mode, fault),
   last_fault      |-> fault,
   failed_attempts |-> p.failed_attempts]

InjectFaultCommand(p, argument) ==
  IF ~ArgumentIsFault(argument) THEN Done(p, "REJECTED_BAD_ARGUMENT")
  ELSE Done(Faulted(p, ArgumentToFault(argument)), "ACCEPTED")

Process(p, id, argument) ==
  CASE id \in {"NOOP", "REQUEST_TELEMETRY"} -> Done(p, "ACCEPTED")
    [] id = "CLEAR_FAULT"                   -> ClearFaultCommand(p)
    [] id = "SET_MODE"                      -> SetModeCommand(p, argument)
    [] id = "INJECT_FAULT"                  -> InjectFaultCommand(p, argument)
=============================================================================
