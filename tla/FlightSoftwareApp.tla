-------------------------- MODULE FlightSoftwareApp --------------------------
(***************************************************************************)
(* The flight software application (fsw/src/flight_software_app.cpp): one  *)
(* step evaluates the watchdog and the health monitor, passes at most one  *)
(* ground command through the guard, the authorizer and the processor,     *)
(* acts on the most urgent internal fault, kicks the watchdog, logs what   *)
(* changed and reports telemetry.                                          *)
(*                                                                         *)
(* A step is one call of FlightSoftwareApp::step and is atomic, as in the  *)
(* code.  Its inputs (time stamp, health snapshot, command) are arbitrary: *)
(* the clock of the caller may stand still, jump or go back.               *)
(***************************************************************************)
EXTENDS CommandProcessor, CommandAuthorizer, HealthMonitor, Watchdog,
        GroundCommandGuard, EventLogger

CONSTANTS
  Timestamp,          \* values of timestamp_ms a caller passes
  HealthSnapshot,     \* health snapshots a caller passes
  Command,            \* ground commands a caller passes
  TelemetryModulus    \* 2^32: values of telemetry_sequence_

ASSUME AppAssumption ==
  /\ Timestamp \subseteq Nat
  /\ HealthSnapshot \subseteq [cpu_load_percent: Nat, memory_load_percent: Nat,
                               sensor_age_ms: Nat, payload_age_ms: Nat, loop_duration_ms: Nat]
  /\ Command \subseteq [sequence_number: SequenceNumber, timestamp_ms: Nat,
                        command_id: CommandId, argument: Nat]
  /\ TelemetryModulus \in Nat \ {0}

(* FlightSoftwareApp::valid(): the constructor's checks of its parts. *)
AppValid == SupervisorValid /\ GuardValid /\ Capacity > 0

(* CommandStatus, with what the guard and the authorizer add to the processor's. *)
GroundStatus ==
  CommandStatus \cup (GuardStatus \ {"INVALID_CONFIGURATION"})
    \cup {"REJECTED_GUARD_CONFIGURATION", "REJECTED_UNAUTHORIZED"}

VARIABLES
  proc,                   \* mode_manager_ and command_processor_
  guard,                  \* ground_command_guard_
  watchdog,               \* watchdog_
  watchdog_initialized,
  log,                    \* event_logger_
  ack,                    \* last_ground_command_{sequence_number_, id_, status_}
  telemetry_sequence,
  output                  \* what the last step saw, and the internal fault it acted on

vars == <<proc, guard, watchdog, watchdog_initialized, log, ack, telemetry_sequence, output>>

NoSnapshot == [cpu_load_percent |-> 0, memory_load_percent |-> 0, sensor_age_ms |-> 0,
               payload_age_ms |-> 0, loop_duration_ms |-> 0]

(* The constructor.  The acknowledgement fields start at 0, which are the codes *)
(* of NOOP and ACCEPTED.                                                        *)
Init ==
  /\ AppValid
  /\ proc = InitialProcessor
  /\ guard = InitialGuard
  /\ watchdog = InitialWatchdog
  /\ watchdog_initialized = FALSE
  /\ log = EmptyLog
  /\ ack = [sequence_number |-> 0, command_id |-> "NOOP", status |-> "ACCEPTED"]
  /\ telemetry_sequence = 0
  /\ output = [command_processed |-> FALSE, health |-> NoSnapshot,
               watchdog_expired |-> FALSE, primary_internal_fault |-> "NONE"]

-----------------------------------------------------------------------------
(* The ground command of a step. *)

Verdict(command, now) ==
  GuardVerdict(guard, command.sequence_number, command.timestamp_ms, now)

(* Mutant: the policy is asked after the command was processed. *)
MutGroundOutcome(command, now) ==
  LET processed == Process(proc, command.command_id, command.argument)
  IN  IF Verdict(command, now) # "ACCEPTED" THEN Done(proc, Verdict(command, now))
      ELSE IF Authorized(command.command_id, command.argument) THEN processed
      ELSE Done(processed.state, "REJECTED_UNAUTHORIZED")

(* The guard first, then the policy, then the processor; a command that is    *)
(* stopped on the way leaves the processor as it was.                         *)
GroundOutcome(command, now) ==
  IF Verdict(command, now) = "INVALID_CONFIGURATION"
    THEN Done(proc, "REJECTED_GUARD_CONFIGURATION")
  ELSE IF Verdict(command, now) # "ACCEPTED"
    THEN Done(proc, Verdict(command, now))
  ELSE IF ~Authorized(command.command_id, command.argument)
    THEN Done(proc, "REJECTED_UNAUTHORIZED")
  ELSE Process(proc, command.command_id, command.argument)

-----------------------------------------------------------------------------
(* The internal fault of a step. *)

(* The fault the watchdog and the health monitor report; warnings do not count. *)
InternalFaults(watchdogReport, healthReport) ==
  {f \in {watchdogReport.fault} : watchdogReport.status = "EXPIRED"}
    \cup {f \in {healthReport.fault} : healthReport.status = "CRITICAL"}

(* Mutant: a fault that is already the last fault is not processed again. *)
MutAfterInternalFault(p, fault) ==
  IF fault \in {"NONE", p.last_fault} THEN p
  ELSE Process(p, "INJECT_FAULT", FaultNumber[fault]).state

(* The fault is processed as a command that bypasses the guard and the policy. *)
AfterInternalFault(p, fault) ==
  IF fault = "NONE" THEN p ELSE Process(p, "INJECT_FAULT", FaultNumber[fault]).state

-----------------------------------------------------------------------------
(* The events of a step: record_step_events. *)

EventSeverityFor(fault) ==
  CASE SeverityOf(fault) = "NONE"     -> "INFO"
    [] SeverityOf(fault) = "ADVISORY" -> "WARNING"
    [] SeverityOf(fault) = "DEGRADED" -> "ERROR"
    [] SeverityOf(fault) = "CRITICAL" -> "CRITICAL"

CommandEvent(a) ==
  [source |-> "COMMAND", severity |-> IF a.status = "ACCEPTED" THEN "INFO" ELSE "WARNING",
   code |-> a.command_id, detail |-> <<a.sequence_number, a.status>>]

ModeEvent(before, after) ==
  [source |-> "MODE", severity |-> "INFO", code |-> after, detail |-> <<before, after>>]

FaultEvent(before, after) ==
  [source |-> "FDIR", severity |-> EventSeverityFor(after), code |-> after,
   detail |-> <<before, after>>]

LogIf(condition, l, event) == IF condition THEN LogEvent(l, event) ELSE l

(* Mutant: a fault that was cleared is not logged. *)
MutStepLog(commanded, a, before, after) ==
  LET l1 == LogIf(commanded, log, CommandEvent(a))
      l2 == LogIf(after.mode # before.mode, l1, ModeEvent(before.mode, after.mode))
  IN  LogIf(after.last_fault \notin {before.last_fault, "NONE"}, l2,
            FaultEvent(before.last_fault, after.last_fault))

(* The command's disposition, then the mode and the fault if the step as a      *)
(* whole changed them.                                                          *)
StepLog(commanded, a, before, after) ==
  LET l1 == LogIf(commanded, log, CommandEvent(a))
      l2 == LogIf(after.mode # before.mode, l1, ModeEvent(before.mode, after.mode))
  IN  LogIf(after.last_fault # before.last_fault, l2,
            FaultEvent(before.last_fault, after.last_fault))

-----------------------------------------------------------------------------
(* What every step does, given what the ground command made of the processor,   *)
(* of the guard and of the acknowledgement.                                     *)
Finish(now, health, commanded, afterCommand, nextGuard, nextAck) ==
  LET counted == Counted(IF watchdog_initialized THEN watchdog ELSE WatchdogReset(now),
                         health.loop_duration_ms)
      watchdogReport == WatchdogReport(counted, now, health.loop_duration_ms)
  IN  \E primary \in {SelectPrimaryFault(InternalFaults(watchdogReport, HealthReport(health)))} :
      \E after \in {AfterInternalFault(afterCommand, primary)} :
      /\ proc' = after
      /\ guard' = nextGuard
      /\ watchdog' = Kicked(counted, now)
      /\ watchdog_initialized' = TRUE
      /\ log' = StepLog(commanded, nextAck, proc, after)
      /\ ack' = nextAck
      /\ telemetry_sequence' = (telemetry_sequence + 1) % TelemetryModulus
      /\ output' = [command_processed |-> commanded, health |-> health,
                    watchdog_expired |-> watchdogReport.status = "EXPIRED",
                    primary_internal_fault |-> primary]

(* FlightSoftwareApp::step without a ground command, and with one. *)
Step(now, health) == Finish(now, health, FALSE, proc, guard, ack)

StepWithCommand(now, health, command) ==
  \E outcome \in {GroundOutcome(command, now)} :
    Finish(now, health, TRUE, outcome.state,
           GuardAfter(guard, command.sequence_number, command.timestamp_ms, now),
           [sequence_number |-> command.sequence_number,
            command_id |-> command.command_id, status |-> outcome.status])

Next ==
  \E now \in Timestamp, health \in HealthSnapshot :
    \/ Step(now, health)
    \/ \E command \in Command : StepWithCommand(now, health, command)

Spec == Init /\ [][Next]_vars

-----------------------------------------------------------------------------
(* The critical conditions of the last step, taken from its snapshot and not    *)
(* from the report that the code condenses it to.                               *)
ActiveFaults ==
  {CriticalFault[i] : i \in CriticalConditions(output.health)}
    \cup {f \in {"WATCHDOG_DEADLINE_MISS"} : output.watchdog_expired}

(* Whatever the ground commanded in the same step, a step with critical         *)
(* conditions ends with the most urgent of them as the last fault and in a mode *)
(* that this fault allows.  The health monitor reports only its last condition, *)
(* so this needs its order to agree with FDIR's priorities.  (The first step    *)
(* initialises the watchdog; before it there is no snapshot to speak of.)       *)
MostUrgentFaultActedOn ==
  watchdog_initialized /\ ActiveFaults # {} =>
    /\ proc.last_fault \in ActiveFaults
    /\ \A f \in ActiveFaults : Outranks(proc.last_fault, f)
    /\ proc.mode \in IF SeverityOf(proc.last_fault) = "CRITICAL" THEN {"SAFE"}
                     ELSE {"DEGRADED_PAYLOAD", "SAFE"}

(* The vehicle leaves SAFE only to RECOVERY, by a ground command that passed     *)
(* every check, in a step in which no critical condition is active.              *)
SafeHeld ==
  [][proc.mode = "SAFE" /\ proc'.mode # "SAFE" =>
       /\ proc'.mode = "RECOVERY"
       /\ output'.command_processed
       /\ ack'.command_id = "SET_MODE" /\ ack'.status = "ACCEPTED"
       /\ ActiveFaults' = {}]_vars

(* A ground command that is not accepted moves neither the mode nor the fault;   *)
(* what moves in its step is the work of an internal fault or of the recovery    *)
(* limit.                                                                        *)
RejectedCommandInert ==
  [][/\ output'.command_processed
     /\ ack'.status \notin {"ACCEPTED", "REJECTED_RECOVERY_LIMIT"}
     /\ output'.primary_internal_fault = "NONE"
     => proc'.mode = proc.mode /\ proc'.last_fault = proc.last_fault]_vars

(* A policy without TEST mode keeps the vehicle out of TEST, whatever argument    *)
(* converts to it and whichever way leads to it.                                  *)
TestModeLocked == ~Policy.allow_test_mode => proc.mode # "TEST"

(* The places of one source's events in a list of records. *)
Trail(records, source) == {k \in 1 .. Len(records) : records[k].event.source = source}

(* No gap between two changes that follow each other on the trail, and the newest  *)
(* change leads to the current value.                                              *)
Leads(records, source, current) ==
  LET trail == Trail(records, source)
  IN  /\ \A i \in trail, j \in trail :
           i < j /\ (\A k \in trail : k <= i \/ k >= j)
             => records[i].event.detail[2] = records[j].event.detail[1]
      /\ \A i \in trail : (\A k \in trail : k <= i) => records[i].event.detail[2] = current

(* The oldest change starts at the initial value, which is the current one as long *)
(* as there is no change.                                                          *)
Begins(records, source, initial, current) ==
  LET trail == Trail(records, source)
  IN  /\ trail = {} => current = initial
      /\ \A i \in trail : (\A k \in trail : k >= i) => records[i].event.detail[1] = initial

(* The newest command event is the command a. *)
NewestCommand(records, a) ==
  LET trail == Trail(records, "COMMAND")
  IN  \A i \in trail : (\A k \in trail : k <= i) =>
        /\ records[i].event.code = a.command_id
        /\ records[i].event.detail = <<a.sequence_number, a.status>>

(* The event log and the telemetry tell the same story: the trails of mode and   *)
(* fault lead to the values telemetry reports, from the initial ones while        *)
(* nothing was dropped, and the newest command event is the acknowledged command. *)
LogExplainsTelemetry ==
  LET records == Snapshot(log)
  IN  /\ Leads(records, "MODE", proc.mode)
      /\ Leads(records, "FDIR", proc.last_fault)
      /\ NewestCommand(records, ack)
      /\ Len(records) < Capacity =>
           /\ Begins(records, "MODE", InitialMode, proc.mode)
           /\ Begins(records, "FDIR", "NONE", proc.last_fault)

-----------------------------------------------------------------------------
(* What the documents say of the application and the code does not do. *)

(* docs/REQUIREMENTS.md, FSW-REQ-005: the software "shall clear the active fault  *)
(* after an accepted CLEAR_FAULT command", here in a step whose own inputs are    *)
(* all good: no critical condition and no gap between kicks.                      *)
ClearFaultClears ==
  [][/\ output'.command_processed
     /\ ack'.command_id = "CLEAR_FAULT" /\ ack'.status = "ACCEPTED"
     /\ CriticalConditions(output'.health) = {}
     /\ watchdog_initialized => Elapsed(watchdog, watchdog'.last_kick_ms) < WatchdogConfig.timeout_ms
     => proc'.last_fault = "NONE"]_vars
=============================================================================
