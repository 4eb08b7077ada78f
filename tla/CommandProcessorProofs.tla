----------------------- MODULE CommandProcessorProofs -----------------------
(***************************************************************************)
(* What the command processor guarantees for every recovery limit and for  *)
(* every sequence of commands with every 32-bit argument.                  *)
(***************************************************************************)
EXTENDS CommandProcessorSpec, FlightSoftwareLemmas

(* The inductive invariant.                                                     *)
Inv == TypeOK /\ RecoveryBudget

(* What one step of the processor does: one of its handlers, run on proc.       *)
LEMMA StepIsProcess ==
  ASSUME Next
  PROVE  \E id \in CommandId, argument \in Argument \cup {0} : Handle(id, argument)
BY DEF Next, Noop, RequestTelemetry, ClearFault, SetMode, InjectFault, CommandId

LEMMA InvInductive == Spec => []Inv
<1>1. Init => Inv
  BY RecoveryAssumption
     DEF Init, Inv, TypeOK, RecoveryBudget, SessionBudget, InitialProcessor, InitialMode,
         ProcessorState, Mode, FaultCode, CommandId, CommandStatus, SupervisorValid
<1>2. Inv /\ [Next]_vars => Inv'
  <2> SUFFICES ASSUME Inv, [Next]_vars PROVE Inv'
    OBVIOUS
  <2>1. CASE Next
    <3>1. PICK id \in CommandId, argument \in Argument \cup {0} : Handle(id, argument)
      BY <2>1, StepIsProcess
    <3>2. Sound(proc)
      BY DEF Inv, TypeOK, RecoveryBudget, Sound
    <3>3. Sound(proc') /\ result'.status \in CommandStatus /\ result' \in [command_id: CommandId, status: CommandStatus]
      BY <3>1, <3>2, ProcessSound DEF Handle
    <3>4. QED
      BY <3>3 DEF Inv, TypeOK, RecoveryBudget, Sound
  <2>2. CASE UNCHANGED vars
    BY <2>2 DEF vars, Inv, TypeOK, RecoveryBudget
  <2>3. QED
    BY <2>1, <2>2
<1>3. QED
  BY <1>1, <1>2, PTL DEF Spec

(* Whatever the commands, the mode, the fault and the 32-bit attempt counter    *)
(* of the processor stay in their types; the counter never wraps.               *)
THEOREM ProcessorTypeCorrect == Spec => []TypeOK
BY InvInductive, PTL DEF Inv

(* No sequence of commands overspends the failure budget of a recovery session, *)
(* and a spent budget leaves the vehicle in SAFE (RecoverySupervisor).           *)
THEOREM RecoveryBudgetHolds == Spec => []RecoveryBudget
BY InvInductive, PTL DEF Inv

-----------------------------------------------------------------------------
(* One step, as the lemmas about the handlers see it.                            *)
LEMMA StepEffect ==
  ASSUME Inv, [Next]_vars
  PROVE  /\ proc.mode # "RECOVERY" /\ proc'.mode = "RECOVERY" => proc'.failed_attempts = 0
         /\ proc.mode = "SAFE" /\ proc'.mode # "SAFE" =>
              /\ proc'.mode = "RECOVERY"
              /\ result' = [command_id |-> "SET_MODE", status |-> "ACCEPTED"]
         /\ ~UNCHANGED vars /\ result'.status # "ACCEPTED" =>
              /\ proc'.last_fault = proc.last_fault
              /\ proc'.mode # proc.mode <=> result'.status = "REJECTED_RECOVERY_LIMIT"
              /\ proc'.failed_attempts # proc.failed_attempts => proc.mode = "RECOVERY"
         /\ ~UNCHANGED vars /\ result'.command_id = "INJECT_FAULT" /\ result'.status = "ACCEPTED" =>
              /\ proc'.last_fault \in FaultCode
              /\ proc'.mode = ApplyFault(proc.mode, proc'.last_fault)
<1>0. Sound(proc)
  BY DEF Inv, TypeOK, RecoveryBudget, Sound
<1>1. CASE UNCHANGED vars
  BY <1>1 DEF vars
<1>2. CASE Noop \/ RequestTelemetry
  BY <1>2 DEF Noop, RequestTelemetry, Handle, Process, Done
<1>3. CASE ClearFault
  <2>1. proc = [mode |-> proc.mode, last_fault |-> proc.last_fault, failed_attempts |-> proc.failed_attempts]
    BY <1>0 DEF Sound, ProcessorState
  <2>2. QED
    BY <1>3, <2>1 DEF ClearFault, Handle, Process, ClearFaultCommand, Done
<1>4. CASE \E argument \in Argument : SetMode(argument)
  <2>1. PICK argument \in Argument : SetMode(argument)
    BY <1>4
  <2>2. /\ proc' = SetModeCommand(proc, argument).state
        /\ result' = [command_id |-> "SET_MODE", status |-> SetModeCommand(proc, argument).status]
    BY <2>1 DEF SetMode, Handle, Process
  <2>3. QED
    BY <1>0, <2>2, SetModeEffect
<1>5. CASE \E argument \in Argument : InjectFault(argument)
  <2>1. PICK argument \in Argument : InjectFault(argument)
    BY <1>5
  <2>2. /\ proc' = InjectFaultCommand(proc, argument).state
        /\ result' = [command_id |-> "INJECT_FAULT", status |-> InjectFaultCommand(proc, argument).status]
    BY <2>1 DEF InjectFault, Handle, Process
  <2>3. QED
    BY <1>0, <2>2, InjectEffect
<1>6. QED
  BY <1>1, <1>2, <1>3, <1>4, <1>5 DEF Next

(* Every recovery session of every behaviour starts with its whole budget,       *)
(* whichever edge of the mode graph opened it.                                   *)
THEOREM RecoverySessionsStartFresh == Spec => RecoveryStartsFresh
<1>1. Inv /\ [Next]_vars =>
        [proc.mode # "RECOVERY" /\ proc'.mode = "RECOVERY" => proc'.failed_attempts = 0]_vars
  BY StepEffect
<1>2. QED
  BY <1>1, InvInductive, PTL DEF Spec, RecoveryStartsFresh

(* Only an accepted SET_MODE to RECOVERY takes the vehicle out of SAFE.           *)
THEOREM SafeIsLeftByCommand == Spec => SafeLeftByCommandOnly
<1>1. Inv /\ [Next]_vars =>
        [proc.mode = "SAFE" /\ proc'.mode # "SAFE" =>
           /\ proc'.mode = "RECOVERY"
           /\ result' = [command_id |-> "SET_MODE", status |-> "ACCEPTED"]]_vars
  BY StepEffect
<1>2. QED
  BY <1>1, InvInductive, PTL DEF Spec, SafeLeftByCommandOnly

(* The response the fault table asks for is reached from every mode: no fault is  *)
(* swallowed because the graph lacks an edge.                                     *)
THEOREM FaultResponsesReached == Spec => FaultResponseReached
<1> DEFINE A == result'.command_id = "INJECT_FAULT" /\ result'.status = "ACCEPTED" =>
                  CASE SeverityOf(proc'.last_fault) = "CRITICAL" -> proc'.mode = "SAFE"
                    [] SeverityOf(proc'.last_fault) = "DEGRADED" -> proc'.mode \in {"DEGRADED_PAYLOAD", "SAFE"}
                    [] OTHER                                     -> proc'.mode = proc.mode
<1>1. Inv /\ [Next]_vars => [A]_vars
  <2> SUFFICES ASSUME Inv, [Next]_vars, ~UNCHANGED vars,
                      result'.command_id = "INJECT_FAULT", result'.status = "ACCEPTED"
               PROVE  A
    OBVIOUS
  <2>1. proc'.last_fault \in FaultCode /\ proc'.mode = ApplyFault(proc.mode, proc'.last_fault)
    BY StepEffect
  <2>2. proc.mode \in Mode
    BY DEF Inv, TypeOK, ProcessorState
  <2>3. QED
    BY <2>1, <2>2, ApplyFaultResult
<1>2. QED
  BY <1>1, InvInductive, PTL DEF Spec, FaultResponseReached

(* A rejected command changes neither the fault nor, unless the recovery limit    *)
(* was reached, the mode.                                                         *)
THEOREM RejectionsKeepState == Spec => RejectionKeepsState
<1>1. Inv /\ [Next]_vars =>
        [result'.status # "ACCEPTED" =>
           /\ proc'.last_fault = proc.last_fault
           /\ proc'.mode # proc.mode <=> result'.status = "REJECTED_RECOVERY_LIMIT"
           /\ proc'.failed_attempts # proc.failed_attempts => proc.mode = "RECOVERY"]_vars
  BY StepEffect
<1>2. QED
  BY <1>1, InvInductive, PTL DEF Spec, RejectionKeepsState
=============================================================================
