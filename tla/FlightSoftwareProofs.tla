------------------------ MODULE FlightSoftwareProofs ------------------------
(***************************************************************************)
(* The flight software for every configuration of its parts: first the     *)
(* application, with any thresholds, any policy, any watchdog limits, any  *)
(* recovery limit, any snapshots, time stamps and commands of its callers, *)
(* and the log that it leaves; then the executive that runs it, with any   *)
(* rate groups, any ticks and any delays; and the flight program with the  *)
(* scenario runner beside it, for any scenarios, timings and losses: its   *)
(* watchdog, its commands and its acknowledgements.                        *)
(***************************************************************************)
EXTENDS FlightSoftwareExecutive, ScenarioRunner, FlightSoftwareLemmas, FiniteSetTheorems

(* The state of the processor is the one its handlers are proved to keep.          *)
Inv == Sound(proc) /\ MostUrgentFaultActedOn /\ TestModeLocked

-----------------------------------------------------------------------------
(* Of critical conditions, the last one in the order of the health monitor.        *)
LEMMA LastConditionExists ==
  ASSUME NEW S, S \subseteq 1 .. 4, S # {}
  PROVE  /\ (CHOOSE i \in S : \A j \in S : i >= j) \in S
         /\ \A j \in S : (CHOOSE i \in S : \A k \in S : i >= k) >= j
<1>1. \E i \in S : \A j \in S : i >= j
  <2>1. CASE 4 \in S
    BY <2>1
  <2>2. CASE 4 \notin S /\ 3 \in S
    BY <2>2
  <2>3. CASE 4 \notin S /\ 3 \notin S /\ 2 \in S
    BY <2>3
  <2>4. CASE 4 \notin S /\ 3 \notin S /\ 2 \notin S
    <3>1. PICK i \in S : TRUE
      OBVIOUS
    <3>2. \A j \in S : j = 1
      BY <2>4
    <3> QED
      BY <3>1, <3>2
  <2> QED
    BY <2>1, <2>2, <2>3, <2>4
<1> QED
  BY <1>1

(* The order of evaluate() agrees with the priorities of FDIR: the condition that    *)
(* it reports outranks every other one of the snapshot.                              *)
LEMMA HealthReportsMostUrgent ==
  ASSUME NEW s
  PROVE  /\ CriticalConditions(s) = {} => HealthReport(s).status # "CRITICAL"
         /\ CriticalConditions(s) # {} =>
              /\ HealthReport(s).status = "CRITICAL"
              /\ HealthReport(s).fault \in {CriticalFault[i] : i \in CriticalConditions(s)}
              /\ \A i \in CriticalConditions(s) : Outranks(HealthReport(s).fault, CriticalFault[i])
<1> DEFINE S == CriticalConditions(s)
           last == CHOOSE i \in S : \A j \in S : i >= j
<1>1. CASE S = {}
  BY <1>1 DEF HealthReport
<1>2. CASE S # {}
  <2>1. S \subseteq 1 .. 4
    BY DEF CriticalConditions
  <2>2. HealthReport(s) = [status |-> "CRITICAL", fault |-> CriticalFault[last]]
    BY <1>2 DEF HealthReport
  <2> HIDE DEF S
  <2>3. last \in S /\ \A j \in S : last >= j
    BY <1>2, <2>1, LastConditionExists
  <2> HIDE DEF last
  <2>4. \A j \in S : Outranks(CriticalFault[last], CriticalFault[j])
    <3> SUFFICES ASSUME NEW j \in S PROVE Outranks(CriticalFault[last], CriticalFault[j])
      OBVIOUS
    <3>1. last \in 1 .. 4 /\ j \in 1 .. 4 /\ last >= j
      BY <2>1, <2>3
    <3>2. \A i \in 1 .. 4 : PriorityOf(CriticalFault[i]) = <<60, 80, 90, 100>>[i]
      BY DEF PriorityOf, DispositionFor, Disp, CriticalFault
    <3>3. CASE last = j
      BY <3>1, <3>3 DEF Outranks, FaultNumber, CriticalFault
    <3>4. CASE last > j
      BY <3>1, <3>2, <3>4 DEF Outranks
    <3> QED
      BY <3>1, <3>3, <3>4
  <2> QED
    BY <1>2, <2>2, <2>3, <2>4 DEF S
<1> QED
  BY <1>1, <1>2

(* The faults that the application itself detects are real faults.                    *)
LEMMA InternalFaultsKnown ==
  /\ \A i \in 1 .. 4 : CriticalFault[i] \in FaultCode \ {"NONE"}
  /\ "WATCHDOG_DEADLINE_MISS" \in FaultCode \ {"NONE"}
BY DEF CriticalFault, FaultCode

(* Priorities, with the fault code to break a tie, order the faults.                   *)
LEMMA OutranksTransitive ==
  ASSUME NEW f \in FaultCode, NEW g \in FaultCode, NEW h \in FaultCode,
         Outranks(f, g), Outranks(g, h)
  PROVE  Outranks(f, h)
<1>1. \A c \in FaultCode : PriorityOf(c) \in Nat /\ FaultNumber[c] \in Nat
  BY DEF FaultCode, PriorityOf, DispositionFor, Disp, FaultNumber
<1>2. /\ PriorityOf(f) \in Nat /\ PriorityOf(g) \in Nat /\ PriorityOf(h) \in Nat
      /\ FaultNumber[f] \in Nat /\ FaultNumber[g] \in Nat /\ FaultNumber[h] \in Nat
  BY <1>1
<1> QED
  BY <1>2 DEF Outranks

(* Nothing outranks the watchdog.                                                       *)
LEMMA WatchdogOutranks ==
  ASSUME NEW f \in FaultCode
  PROVE  Outranks("WATCHDOG_DEADLINE_MISS", f) /\ Outranks(f, f)
BY DEF Outranks, FaultCode, PriorityOf, DispositionFor, Disp, FaultNumber

(* select_primary_fault finds a fault that outranks all, when there is one.            *)
LEMMA SelectsMostUrgent ==
  ASSUME NEW F, "NONE" \notin F, NEW f \in F, \A g \in F : Outranks(f, g)
  PROVE  SelectPrimaryFault(F) \in F /\ \A g \in F : Outranks(SelectPrimaryFault(F), g)
<1>1. F \ {"NONE"} = F
  OBVIOUS
<1>2. SelectPrimaryFault(F) = CHOOSE c \in F : \A g \in F : Outranks(c, g)
  BY <1>1 DEF SelectPrimaryFault
<1> QED
  BY <1>2

(* The critical conditions of a snapshot and of the watchdog, as ActiveFaults lists     *)
(* them.                                                                               *)
Conditions(health, expired) ==
  {CriticalFault[i] : i \in CriticalConditions(health)}
    \cup {f \in {"WATCHDOG_DEADLINE_MISS"} : expired}

(* The one fault a step acts on is the most urgent of all its critical conditions,      *)
(* although step() sees only two of them.                                               *)
LEMMA PrimaryIsMostUrgent ==
  ASSUME NEW health, NEW watchdogReport, NEW primary,
         watchdogReport.status = "EXPIRED" => watchdogReport.fault = "WATCHDOG_DEADLINE_MISS",
         primary = SelectPrimaryFault(InternalFaults(watchdogReport, HealthReport(health)))
  PROVE  LET active == Conditions(health, watchdogReport.status = "EXPIRED")
         IN  /\ active = {} => primary = "NONE"
             /\ active # {} => /\ primary \in active
                               /\ \A f \in active : Outranks(primary, f)
             /\ active \subseteq FaultCode \ {"NONE"}
<1> DEFINE expired == watchdogReport.status = "EXPIRED"
           critical == CriticalConditions(health)
           h == HealthReport(health).fault
           F == InternalFaults(watchdogReport, HealthReport(health))
           active == Conditions(health, expired)
<1>1. active \subseteq FaultCode \ {"NONE"}
  <2>1. critical \subseteq 1 .. 4
    BY DEF CriticalConditions
  <2> QED
    BY <2>1, InternalFaultsKnown DEF Conditions
<1>2. critical # {} => /\ h \in active
                       /\ \A i \in critical : Outranks(h, CriticalFault[i])
  BY HealthReportsMostUrgent DEF Conditions
<1>3. F = (IF expired THEN {"WATCHDOG_DEADLINE_MISS"} ELSE {})
            \cup (IF critical # {} THEN {h} ELSE {})
  <2>1. HealthReport(health).status = "CRITICAL" <=> critical # {}
    BY HealthReportsMostUrgent
  <2> QED
    BY <2>1 DEF InternalFaults
<1>4. CASE ~expired /\ critical = {}
  <2>1. F = {} /\ active = {}
    BY <1>3, <1>4 DEF Conditions
  <2> QED
    BY <1>1, <2>1 DEF SelectPrimaryFault
<1>5. CASE expired
  <2> DEFINE w == "WATCHDOG_DEADLINE_MISS"
  <2>1. w \in active /\ w \in F /\ F \subseteq active
    BY <1>2, <1>3, <1>5 DEF Conditions
  <2>2. \A f \in active : Outranks(w, f) /\ f \in FaultCode
    BY <1>1, WatchdogOutranks
  <2>3. primary \in F /\ Outranks(primary, w)
    BY <1>1, <2>1, <2>2, SelectsMostUrgent
  <2>4. \A f \in active : Outranks(primary, f)
    BY <2>1, <2>2, <2>3, OutranksTransitive
  <2> QED
    BY <1>1, <2>1, <2>3, <2>4
<1>6. CASE ~expired /\ critical # {}
  <2>1. F = {h} /\ active = {CriticalFault[i] : i \in critical}
    BY <1>3, <1>6 DEF Conditions
  <2>2. h \in FaultCode /\ h # "NONE"
    BY <1>1, <1>2, <1>6
  <2>3. primary \in F
    BY <2>1, <2>2, WatchdogOutranks, SelectsMostUrgent
  <2> QED
    BY <1>1, <1>2, <1>6, <2>1, <2>3
<1> QED
  BY <1>4, <1>5, <1>6

-----------------------------------------------------------------------------
(* A fault code of the enumeration survives the conversion from a command argument:     *)
(* every code fits in 16 bits and no two faults share one.                              *)
LEMMA FaultArgument ==
  ASSUME NEW f \in FaultCode
  PROVE  ArgumentIsFault(FaultNumber[f]) /\ ArgumentToFault(FaultNumber[f]) = f
<1>1. /\ FaultNumber["NONE"] = 0 /\ FaultNumber["SENSOR_TIMEOUT"] = 100
      /\ FaultNumber["SENSOR_INVALID_DATA"] = 101
      /\ FaultNumber["PAYLOAD_HEARTBEAT_TIMEOUT"] = 200 /\ FaultNumber["CPU_OVERLOAD"] = 300
      /\ FaultNumber["MEMORY_OVERLOAD"] = 301 /\ FaultNumber["TELEMETRY_SOCKET_FAILURE"] = 400
      /\ FaultNumber["COMMAND_BAD_CRC"] = 500 /\ FaultNumber["COMMAND_UNKNOWN_ID"] = 501
      /\ FaultNumber["COMMAND_TIMEOUT"] = 502 /\ FaultNumber["WATCHDOG_DEADLINE_MISS"] = 600
  BY DEF FaultNumber
<1>2. FaultNumber[f] % 65536 = FaultNumber[f]
  <2>1. FaultNumber[f] \in Nat /\ FaultNumber[f] < 65536
    BY <1>1 DEF FaultCode
  <2> DEFINE n == FaultNumber[f]
  <2> HIDE DEF n
  <2>2. n \in Nat /\ n < 65536 => n % 65536 = n
    OBVIOUS
  <2> QED
    BY <2>1, <2>2 DEF n
<1>3. \A g \in FaultCode : FaultNumber[g] = FaultNumber[f] => g = f
  BY <1>1 DEF FaultCode
<1>4. \A g \in FaultCode : FaultNumber[g] = FaultNumber[f] % 65536 <=> g = f
  BY <1>2, <1>3
<1> QED
  <2>1. ArgumentIsFault(FaultNumber[f])
    BY <1>4 DEF ArgumentIsFault
  <2>2. ArgumentToFault(FaultNumber[f]) = f
    BY <1>4 DEF ArgumentToFault
  <2> QED
    BY <2>1, <2>2

(* What an internal fault does to the processor.                                         *)
LEMMA InternalFaultEffect ==
  ASSUME NEW p, Sound(p), NEW f \in FaultCode
  PROVE  /\ Sound(AfterInternalFault(p, f))
         /\ f = "NONE" => AfterInternalFault(p, f) = p
         /\ f # "NONE" =>
              /\ AfterInternalFault(p, f).last_fault = f
              /\ AfterInternalFault(p, f).mode = ApplyFault(p.mode, f)
<1>1. CASE f = "NONE"
  BY <1>1 DEF AfterInternalFault
<1>2. CASE f # "NONE"
  <2>1. AfterInternalFault(p, f) = Process(p, "INJECT_FAULT", FaultNumber[f]).state
    BY <1>2 DEF AfterInternalFault
  <2>2. Process(p, "INJECT_FAULT", FaultNumber[f]) = Done(Faulted(p, f), "ACCEPTED")
    BY FaultArgument DEF Process, InjectFaultCommand
  <2>3. Sound(AfterInternalFault(p, f))
    BY <2>1, ProcessSound DEF CommandId
  <2> QED
    BY <1>2, <2>1, <2>2, <2>3 DEF Done, Faulted
<1> QED
  BY <1>1, <1>2

(* SET_MODE enters TEST only with an argument that converts to TEST.                     *)
LEMMA TestOnlyByName ==
  ASSUME NEW p, Sound(p), NEW argument, SetModeCommand(p, argument).state.mode = "TEST"
  PROVE  p.mode = "TEST" \/ NamesTestMode(argument)
<1>1. CASE ~ArgumentIsMode(argument)
  BY <1>1 DEF SetModeCommand, Done
<1>2. CASE ArgumentIsMode(argument) /\ IsValidTransition(p.mode, ArgumentToMode(argument))
  BY <1>2, GrantedSound, ArgumentConversion DEF SetModeCommand, NamesTestMode
<1>3. CASE ArgumentIsMode(argument) /\ ~IsValidTransition(p.mode, ArgumentToMode(argument))
  BY <1>3, RefusedSound DEF SetModeCommand
<1> QED
  BY <1>1, <1>2, <1>3

(* What a ground command can do to the processor, whatever the guard, the policy and     *)
(* the processor say of it.                                                              *)
LEMMA GroundEffect ==
  ASSUME NEW command, command.command_id \in CommandId, NEW now, Sound(proc),
         NEW o, o = GroundOutcome(command, now)
  PROVE  /\ Sound(o.state)
         /\ ~Policy.allow_test_mode /\ proc.mode # "TEST" => o.state.mode # "TEST"
         /\ proc.mode = "SAFE" /\ o.state.mode # "SAFE" =>
              /\ o.state.mode = "RECOVERY"
              /\ command.command_id = "SET_MODE" /\ o.status = "ACCEPTED"
         /\ o.status \notin {"ACCEPTED", "REJECTED_RECOVERY_LIMIT"} =>
              o.state.mode = proc.mode /\ o.state.last_fault = proc.last_fault
<1> DEFINE id == command.command_id
           argument == command.argument
<1>1. id \in CommandId
  OBVIOUS
<1>2. CASE o.state = proc /\ o.status \notin {"ACCEPTED", "REJECTED_RECOVERY_LIMIT"}
  BY <1>2
<1>3. CASE Authorized(id, argument) /\ o = Process(proc, id, argument)
  <2> HIDE DEF id, argument
  <2>1. Sound(o.state)
    BY <1>1, <1>3, ProcessSound
  <2>2. CASE id \in {"NOOP", "REQUEST_TELEMETRY"}
    BY <1>3, <2>1, <2>2 DEF Process, Done
  <2>3. CASE id = "CLEAR_FAULT"
    <3>1. o.state.mode = proc.mode /\ o.status = "ACCEPTED"
      BY <1>3, <2>3 DEF Process, ClearFaultCommand, Done, Sound, ProcessorState
    <3> QED
      BY <2>1, <3>1
  <2>4. CASE id = "SET_MODE"
    <3>1. o = SetModeCommand(proc, argument)
      BY <1>3, <2>4 DEF Process
    <3>2. ~Policy.allow_test_mode => ~NamesTestMode(argument)
      BY <1>3, <2>4 DEF Authorized
    <3>3. ~Policy.allow_test_mode /\ proc.mode # "TEST" => o.state.mode # "TEST"
      BY <3>1, <3>2, TestOnlyByName
    <3> QED
      BY <2>1, <2>4, <3>1, <3>3, SetModeEffect DEF id
  <2>5. CASE id = "INJECT_FAULT"
    <3>1. o = InjectFaultCommand(proc, argument)
      BY <1>3, <2>5 DEF Process
    <3>2. proc.mode \in Mode
      BY DEF Sound, ProcessorState
    <3>3. proc.mode # "TEST" => o.state.mode # "TEST"
      <4>1. CASE o.status = "ACCEPTED"
        <5>1. o.state.last_fault \in FaultCode /\ o.state.mode = ApplyFault(proc.mode, o.state.last_fault)
          BY <3>1, <4>1, InjectEffect
        <5>2. o.state.mode \in {proc.mode, "DEGRADED_PAYLOAD", "SAFE"}
          BY <3>2, <5>1, ApplyFaultResult
        <5> QED
          BY <5>2
      <4>2. CASE o.status # "ACCEPTED"
        BY <3>1, <4>2, InjectEffect
      <4> QED
        BY <4>1, <4>2
    <3> QED
      BY <2>1, <3>1, <3>3, InjectEffect
  <2> QED
    BY <1>1, <2>2, <2>3, <2>4, <2>5 DEF CommandId
<1> QED
  BY <1>2, <1>3 DEF GroundOutcome, Verdict, GuardVerdict, Done

-----------------------------------------------------------------------------
(* Every critical condition is severe enough to change the mode.                         *)
LEMMA ConditionsAreSevere ==
  ASSUME NEW health, NEW expired, NEW f \in Conditions(health, expired)
  PROVE  SeverityOf(f) \in {"CRITICAL", "DEGRADED"}
<1>1. f \in {"CPU_OVERLOAD", "MEMORY_OVERLOAD", "SENSOR_TIMEOUT", "WATCHDOG_DEADLINE_MISS"}
  BY DEF Conditions, CriticalConditions, CriticalFault
<1> QED
  BY <1>1 DEF SeverityOf, DispositionFor, Disp

(* What a step does after its ground command, p being what the command made of the       *)
(* processor.                                                                            *)
LEMMA FinishEffect ==
  ASSUME NEW now, NEW health, NEW commanded, NEW p, Sound(p), NEW g, NEW a,
         Finish(now, health, commanded, p, g, a)
  PROVE  /\ Sound(proc') /\ watchdog_initialized' = TRUE /\ ack' = a
         /\ output'.command_processed = commanded
         /\ output'.primary_internal_fault = "NONE" => proc' = p
         /\ ActiveFaults' = {} => proc' = p
         /\ ActiveFaults' # {} =>
              /\ proc'.last_fault \in ActiveFaults'
              /\ \A f \in ActiveFaults' : Outranks(proc'.last_fault, f)
              /\ SeverityOf(proc'.last_fault) \in {"CRITICAL", "DEGRADED"}
              /\ proc'.last_fault \in FaultCode
              /\ proc'.mode = ApplyFault(p.mode, proc'.last_fault)
<1> DEFINE counted == Counted(IF watchdog_initialized THEN watchdog ELSE WatchdogReset(now),
                              health.loop_duration_ms)
           w == WatchdogReport(counted, now, health.loop_duration_ms)
           primary == SelectPrimaryFault(InternalFaults(w, HealthReport(health)))
           active == Conditions(health, w.status = "EXPIRED")
<1>1. /\ proc' = AfterInternalFault(p, primary)
      /\ watchdog_initialized' = TRUE /\ ack' = a
      /\ output' = [command_processed |-> commanded, health |-> health,
                    watchdog_expired |-> w.status = "EXPIRED",
                    primary_internal_fault |-> primary]
  BY DEF Finish
<1>2. ActiveFaults' = active
  BY <1>1 DEF ActiveFaults, Conditions, CriticalConditions
<1>3. w.status = "EXPIRED" => w.fault = "WATCHDOG_DEADLINE_MISS"
  BY DEF WatchdogReport
<1> HIDE DEF w
<1>4. /\ active = {} => primary = "NONE"
      /\ active # {} => primary \in active /\ \A f \in active : Outranks(primary, f)
      /\ active \subseteq FaultCode \ {"NONE"}
  BY <1>3, PrimaryIsMostUrgent
<1>5. active # {} => SeverityOf(primary) \in {"CRITICAL", "DEGRADED"}
  BY <1>4, ConditionsAreSevere
<1> HIDE DEF primary, active
<1>6. primary \in FaultCode
  BY <1>4 DEF FaultCode
<1>7. /\ Sound(proc')
      /\ primary = "NONE" => proc' = p
      /\ primary # "NONE" => proc'.last_fault = primary /\ proc'.mode = ApplyFault(p.mode, primary)
  BY <1>1, <1>6, InternalFaultEffect
<1> QED
  BY <1>1, <1>2, <1>4, <1>5, <1>6, <1>7

(* A call of the application: by the callers of its own specification, by the executive   *)
(* or by the flight program.                                                              *)
AnyCall ==
  \/ \E now, health : Step(now, health)
  \/ \E now, health, command :
       command.command_id \in CommandId /\ StepWithCommand(now, health, command)

(* The application's own specification does nothing but call it.                          *)
LEMMA NextIsCall == Next => AnyCall
BY AppAssumption DEF Next, AnyCall

(* What a ground command hands to the rest of its step.                                   *)
CommandOutcome(command, now, health, o) ==
  /\ o = GroundOutcome(command, now)
  /\ Finish(now, health, TRUE, o.state,
            GuardAfter(guard, command.sequence_number, command.timestamp_ms, now),
            [sequence_number |-> command.sequence_number,
             command_id |-> command.command_id, status |-> o.status])

(* A call keeps the invariant: the handlers keep the processor sound, and the fault of    *)
(* the step is acted on after whatever the ground commanded.                              *)
LEMMA CallKeepsInv ==
  ASSUME Inv, AnyCall
  PROVE  Inv'
<1>1. ASSUME NEW p, Sound(p), ~Policy.allow_test_mode => p.mode # "TEST",
             NEW now, NEW health, NEW commanded, NEW g, NEW a,
             Finish(now, health, commanded, p, g, a)
      PROVE  Inv'
  <2>1. p.mode \in Mode
    BY <1>1 DEF Sound, ProcessorState
  <2>2. Sound(proc)' /\ (ActiveFaults' = {} => proc' = p)
    BY <1>1, FinishEffect DEF Sound
  <2>3. ActiveFaults' # {} =>
          /\ proc'.last_fault \in ActiveFaults'
          /\ \A f \in ActiveFaults' : Outranks(proc'.last_fault, f)
          /\ proc'.mode \in IF SeverityOf(proc'.last_fault) = "CRITICAL" THEN {"SAFE"}
                            ELSE {"DEGRADED_PAYLOAD", "SAFE"}
    <3> SUFFICES ASSUME ActiveFaults' # {}
                 PROVE  /\ proc'.last_fault \in ActiveFaults'
                        /\ \A f \in ActiveFaults' : Outranks(proc'.last_fault, f)
                        /\ proc'.mode \in IF SeverityOf(proc'.last_fault) = "CRITICAL"
                                            THEN {"SAFE"} ELSE {"DEGRADED_PAYLOAD", "SAFE"}
      OBVIOUS
    <3>1. /\ proc'.last_fault \in ActiveFaults'
          /\ \A f \in ActiveFaults' : Outranks(proc'.last_fault, f)
          /\ SeverityOf(proc'.last_fault) \in {"CRITICAL", "DEGRADED"}
          /\ proc'.last_fault \in FaultCode
          /\ proc'.mode = ApplyFault(p.mode, proc'.last_fault)
      BY <1>1, FinishEffect
    <3> QED
      BY <2>1, <3>1, ApplyFaultResult
  <2>4. MostUrgentFaultActedOn'
    BY <2>3 DEF MostUrgentFaultActedOn
  <2>5. TestModeLocked'
    BY <1>1, <2>2, <2>3 DEF TestModeLocked
  <2> QED
    BY <2>2, <2>4, <2>5 DEF Inv
<1>2. ASSUME NEW now, NEW health, Step(now, health)
      PROVE  Inv'
  BY <1>1, <1>2 DEF Step, Inv, TestModeLocked
<1>3. ASSUME NEW now, NEW health, NEW command, command.command_id \in CommandId,
             StepWithCommand(now, health, command)
      PROVE  Inv'
  <2>1. PICK o : CommandOutcome(command, now, health, o)
    BY <1>3 DEF StepWithCommand, CommandOutcome
  <2>2. Sound(o.state) /\ (~Policy.allow_test_mode => o.state.mode # "TEST")
    BY <1>3, <2>1, GroundEffect DEF CommandOutcome, Inv, TestModeLocked
  <2> QED
    BY <1>1, <2>1, <2>2 DEF CommandOutcome
<1> QED
  BY <1>2, <1>3 DEF AnyCall

(* A step that does not touch the application keeps its invariant.                        *)
LEMMA InvUnchanged ==
  ASSUME Inv, UNCHANGED vars
  PROVE  Inv'
BY DEF vars, Inv, Sound, MostUrgentFaultActedOn, TestModeLocked, ActiveFaults, CriticalConditions

(* The initial state is sound.                                                            *)
LEMMA InvBegins == Init => Inv
<1> SUFFICES ASSUME Init PROVE Inv
  OBVIOUS
<1>1. Sound(proc)
  BY RecoveryAssumption DEF Init, AppValid, InitialProcessor, InitialMode, Sound, ProcessorState,
                            SessionBudget, SupervisorValid, Mode, FaultCode
<1> QED
  BY <1>1 DEF Init, Inv, MostUrgentFaultActedOn, TestModeLocked, InitialProcessor, InitialMode

(* The invariant is inductive.                                                            *)
LEMMA InvInductive == Spec => []Inv
<1>1. Inv /\ [Next]_vars => Inv'
  BY CallKeepsInv, InvUnchanged, NextIsCall
<1> QED
  BY <1>1, InvBegins, PTL DEF Spec

-----------------------------------------------------------------------------
(* A step with critical conditions ends with the most urgent of them as the last fault,  *)
(* and in the mode it asks for, whatever the ground commanded in the same step.           *)
THEOREM MostUrgentActedOn == Spec => []MostUrgentFaultActedOn
BY InvInductive, PTL DEF Inv

(* Without the policy's permission no command and no fault leads to TEST: the authorizer  *)
(* and the processor convert the argument in the same way.                                *)
THEOREM NoTestWithoutPermission == Spec => []TestModeLocked
BY InvInductive, PTL DEF Inv

(* A call leaves SAFE only as SafeHeld says.                                              *)
LEMMA CallHoldsSafe ==
  ASSUME Inv, AnyCall, proc.mode = "SAFE", proc'.mode # "SAFE"
  PROVE  /\ proc'.mode = "RECOVERY"
         /\ output'.command_processed
         /\ ack'.command_id = "SET_MODE" /\ ack'.status = "ACCEPTED"
         /\ ActiveFaults' = {}
<1>1. ASSUME NEW p, Sound(p), NEW now, NEW health, NEW commanded, NEW g, NEW a,
             Finish(now, health, commanded, p, g, a), p.mode \in {"SAFE", "RECOVERY"}
      PROVE  ActiveFaults' = {} /\ proc' = p
  <2>1. p.mode \in Mode
    BY <1>1 DEF Sound, ProcessorState
  <2>2. ActiveFaults' # {} => proc'.mode = "SAFE"
    <3> SUFFICES ASSUME ActiveFaults' # {} PROVE proc'.mode = "SAFE"
      OBVIOUS
    <3>1. /\ SeverityOf(proc'.last_fault) \in {"CRITICAL", "DEGRADED"}
          /\ proc'.last_fault \in FaultCode
          /\ proc'.mode = ApplyFault(p.mode, proc'.last_fault)
      BY <1>1, FinishEffect
    <3> QED
      BY <1>1, <2>1, <3>1, ApplyFaultResult
  <2> QED
    BY <1>1, <2>2, FinishEffect
<1>2. ASSUME NEW now, NEW health, Step(now, health)
      PROVE  FALSE
  BY <1>1, <1>2 DEF Step, Inv
<1>3. ASSUME NEW now, NEW health, NEW command, command.command_id \in CommandId,
             StepWithCommand(now, health, command)
      PROVE  /\ proc'.mode = "RECOVERY"
             /\ output'.command_processed
             /\ ack'.command_id = "SET_MODE" /\ ack'.status = "ACCEPTED"
             /\ ActiveFaults' = {}
  <2>1. PICK o : CommandOutcome(command, now, health, o)
    BY <1>3 DEF StepWithCommand, CommandOutcome
  <2>2. /\ Sound(o.state)
        /\ o.state.mode # "SAFE" =>
             /\ o.state.mode = "RECOVERY"
             /\ command.command_id = "SET_MODE" /\ o.status = "ACCEPTED"
    BY <1>3, <2>1, GroundEffect DEF CommandOutcome, Inv
  <2>3. ActiveFaults' = {} /\ proc' = o.state
    BY <1>1, <2>1, <2>2 DEF CommandOutcome
  <2>4. /\ output'.command_processed = TRUE
        /\ ack' = [sequence_number |-> command.sequence_number,
                   command_id |-> command.command_id, status |-> o.status]
    BY <2>1, <2>2, FinishEffect DEF CommandOutcome
  <2> QED
    BY <2>2, <2>3, <2>4
<1> QED
  BY <1>2, <1>3 DEF AnyCall

(* SAFE is left by an accepted SET_MODE to RECOVERY only, in a step without a critical     *)
(* condition.                                                                             *)
THEOREM SafeIsHeld == Spec => SafeHeld
<1>1. Inv /\ [Next]_vars =>
        [proc.mode = "SAFE" /\ proc'.mode # "SAFE" =>
           /\ proc'.mode = "RECOVERY"
           /\ output'.command_processed
           /\ ack'.command_id = "SET_MODE" /\ ack'.status = "ACCEPTED"
           /\ ActiveFaults' = {}]_vars
  BY CallHoldsSafe, NextIsCall
<1> QED
  BY <1>1, InvInductive, PTL DEF Spec, SafeHeld

(* A call with a rejected command does what RejectedCommandInert says.                     *)
LEMMA CallRejectedInert ==
  ASSUME Inv, AnyCall, output'.command_processed,
         ack'.status \notin {"ACCEPTED", "REJECTED_RECOVERY_LIMIT"},
         output'.primary_internal_fault = "NONE"
  PROVE  proc'.mode = proc.mode /\ proc'.last_fault = proc.last_fault
<1>1. ASSUME NEW now, NEW health, Step(now, health)
      PROVE  proc' = proc
  BY <1>1, FinishEffect DEF Step, Inv
<1>2. ASSUME NEW now, NEW health, NEW command, command.command_id \in CommandId,
             StepWithCommand(now, health, command)
      PROVE  proc'.mode = proc.mode /\ proc'.last_fault = proc.last_fault
  <2>1. PICK o : CommandOutcome(command, now, health, o)
    BY <1>2 DEF StepWithCommand, CommandOutcome
  <2>2. Sound(o.state)
    BY <1>2, <2>1, GroundEffect DEF CommandOutcome, Inv
  <2>3. /\ proc' = o.state
        /\ ack' = [sequence_number |-> command.sequence_number,
                   command_id |-> command.command_id, status |-> o.status]
    BY <2>1, <2>2, FinishEffect DEF CommandOutcome
  <2> QED
    BY <1>2, <2>1, <2>3, GroundEffect DEF CommandOutcome, Inv
<1> QED
  BY <1>1, <1>2 DEF AnyCall

(* A ground command that the guard, the policy or the processor rejects changes neither    *)
(* the mode nor the fault, the recovery limit apart.                                       *)
THEOREM RejectedIsInert == Spec => RejectedCommandInert
<1>1. Inv /\ [Next]_vars =>
        [/\ output'.command_processed
         /\ ack'.status \notin {"ACCEPTED", "REJECTED_RECOVERY_LIMIT"}
         /\ output'.primary_internal_fault = "NONE"
         => proc'.mode = proc.mode /\ proc'.last_fault = proc.last_fault]_vars
  BY CallRejectedInert, NextIsCall
<1> QED
  BY <1>1, InvInductive, PTL DEF Spec, RejectedCommandInert

-----------------------------------------------------------------------------
(* The event log. *)

(* A new record is at the end of its source's trail; the others stay where they    *)
(* were.                                                                          *)
LEMMA TrailAppended ==
  ASSUME NEW R, NEW s \in Seq(R), NEW r \in R, NEW source
  PROVE  /\ Append(s, r) \in Seq(R) /\ Len(s) \in Nat /\ Len(Append(s, r)) = Len(s) + 1
         /\ Append(s, r)[Len(s) + 1] = r
         /\ \A k \in Trail(s, source) : /\ k \in 1 .. Len(s)
                                        /\ Append(s, r)[k] = s[k]
         /\ r.event.source # source => Trail(Append(s, r), source) = Trail(s, source)
         /\ r.event.source = source => Trail(Append(s, r), source) = Trail(s, source) \cup {Len(s) + 1}
<1> DEFINE n == Len(s)
           t == Append(s, r)
<1>1. /\ t \in Seq(R) /\ n \in Nat /\ Len(t) = n + 1 /\ t[n + 1] = r
      /\ \A k \in 1 .. n : t[k] = s[k]
  BY AppendProperties
<1>2. \A k \in Trail(s, source) : k \in 1 .. n /\ t[k] = s[k]
  BY <1>1 DEF Trail
<1> HIDE DEF n, t
<1>3. \A k : k \in Trail(t, source) <=>
               \/ k \in 1 .. n /\ s[k].event.source = source
               \/ k = n + 1 /\ r.event.source = source
  <2>1. \A k : k \in 1 .. n + 1 <=> k \in 1 .. n \/ k = n + 1
    BY <1>1
  <2>2. \A k : k \in Trail(t, source) <=> k \in 1 .. n + 1 /\ t[k].event.source = source
    BY <1>1 DEF Trail
  <2>3. n + 1 \notin 1 .. n
    BY <1>1
  <2> QED
    BY <1>1, <2>1, <2>2, <2>3
<1>4. \A k : k \in Trail(s, source) <=> k \in 1 .. n /\ s[k].event.source = source
  BY DEF Trail, n
<1>5. /\ r.event.source # source => Trail(t, source) = Trail(s, source)
      /\ r.event.source = source => Trail(t, source) = Trail(s, source) \cup {n + 1}
  BY <1>3, <1>4
<1> QED
  BY <1>1, <1>2, <1>5 DEF n, t

(* Without the oldest record every trail moves down by one.                        *)
LEMMA TrailShortened ==
  ASSUME NEW R, NEW s \in Seq(R), s # <<>>, NEW source
  PROVE  /\ Tail(s) \in Seq(R) /\ Len(Tail(s)) = Len(s) - 1 /\ Len(s) \in Nat \ {0}
         /\ \A k \in Trail(Tail(s), source) : /\ k \in Nat \ {0} /\ k + 1 \in Trail(s, source)
                                              /\ Tail(s)[k] = s[k + 1]
         /\ \A k \in Trail(s, source) : k \in Nat /\ (k > 1 => k - 1 \in Trail(Tail(s), source))
<1> DEFINE n == Len(s)
           t == Tail(s)
<1>1. /\ t \in Seq(R) /\ n \in Nat \ {0} /\ Len(t) = n - 1
      /\ \A k \in 1 .. n - 1 : t[k] = s[k + 1]
  BY HeadTailProperties, EmptySeq
<1>2. \A k : k \in Trail(s, source) <=> k \in 1 .. n /\ s[k].event.source = source
  BY DEF Trail
<1> HIDE DEF n, t
<1>3. \A k : k \in Trail(t, source) <=> k \in 1 .. n - 1 /\ t[k].event.source = source
  BY <1>1 DEF Trail
<1>4. ASSUME NEW k \in Trail(t, source)
      PROVE  k \in Nat \ {0} /\ k + 1 \in Trail(s, source) /\ t[k] = s[k + 1]
  <2>1. k \in 1 .. n - 1 /\ t[k].event.source = source /\ t[k] = s[k + 1]
    BY <1>1, <1>3
  <2>2. k \in Nat \ {0} /\ k + 1 \in 1 .. n
    BY <1>1, <2>1
  <2> QED
    BY <1>2, <2>1, <2>2
<1>5. ASSUME NEW k \in Trail(s, source), k > 1
      PROVE  k - 1 \in Trail(t, source)
  <2>1. k \in 1 .. n /\ s[k].event.source = source
    BY <1>2
  <2>2. k - 1 \in 1 .. n - 1 /\ (k - 1) + 1 = k
    BY <1>1, <1>5, <2>1
  <2>3. t[k - 1] = s[k]
    BY <1>1, <2>2
  <2> QED
    BY <1>3, <2>1, <2>2, <2>3
<1>6. \A k \in Trail(s, source) : k \in Nat
  BY <1>1, <1>2
<1> QED
  BY <1>1, <1>4, <1>5, <1>6 DEF n, t

-----------------------------------------------------------------------------
(* A record of another source does not touch a trail.                              *)
LEMMA OtherAppended ==
  ASSUME NEW R, NEW s \in Seq(R), NEW r \in R, NEW source, r.event.source # source
  PROVE  /\ \A v : Leads(s, source, v) => Leads(Append(s, r), source, v)
         /\ \A u, v : Begins(s, source, u, v) => Begins(Append(s, r), source, u, v)
         /\ source = "COMMAND" => \A a : NewestCommand(s, a) => NewestCommand(Append(s, r), a)
<1> DEFINE t == Append(s, r)
<1>1. /\ Trail(t, source) = Trail(s, source)
      /\ \A k \in Trail(s, source) : t[k] = s[k]
  BY TrailAppended
<1> HIDE DEF t
<1>2. \A v : Leads(s, source, v) => Leads(t, source, v)
  BY <1>1 DEF Leads
<1>3. \A u, v : Begins(s, source, u, v) => Begins(t, source, u, v)
  BY <1>1 DEF Begins
<1>4. source = "COMMAND" => \A a : NewestCommand(s, a) => NewestCommand(t, a)
  BY <1>1 DEF NewestCommand
<1> QED
  BY <1>2, <1>3, <1>4 DEF t

(* A record of the change from v to w takes a trail from v to w.                    *)
LEMMA ChangeAppended ==
  ASSUME NEW R, NEW s \in Seq(R), NEW r \in R, NEW source, r.event.source = source,
         NEW v, NEW w, r.event.detail = <<v, w>>
  PROVE  /\ Leads(s, source, v) => Leads(Append(s, r), source, w)
         /\ \A u : Begins(s, source, u, v) => Begins(Append(s, r), source, u, w)
<1> DEFINE t == Append(s, r)
           n == Len(s)
           old == Trail(s, source)
<1>1. /\ n \in Nat /\ t[n + 1] = r
      /\ Trail(t, source) = old \cup {n + 1}
      /\ \A k \in old : k \in 1 .. n /\ t[k] = s[k]
  <2> HIDE DEF t, n, old
  <2>1. Len(s) \in Nat /\ Append(s, r)[Len(s) + 1] = r
    BY TrailAppended
  <2>2. Trail(Append(s, r), source) = Trail(s, source) \cup {Len(s) + 1}
    BY TrailAppended
  <2>3. \A k \in Trail(s, source) : k \in 1 .. Len(s) /\ Append(s, r)[k] = s[k]
    BY TrailAppended
  <2> QED
    BY <2>1, <2>2, <2>3 DEF t, n, old
<1>2. r.event.detail[1] = v /\ r.event.detail[2] = w
  OBVIOUS
<1> HIDE DEF t, n, old
<1>3. \A k \in old : k \in Nat /\ k < n + 1
  BY <1>1
<1>4. ASSUME Leads(s, source, v) PROVE Leads(t, source, w)
  <2>1. ASSUME NEW i \in old \cup {n + 1}, NEW j \in old \cup {n + 1}, i < j,
               \A k \in old \cup {n + 1} : k <= i \/ k >= j
        PROVE  t[i].event.detail[2] = t[j].event.detail[1]
    <3>1. i \in old
      BY <1>1, <1>3, <2>1
    <3>2. CASE j \in old
      BY <1>1, <1>4, <2>1, <3>1, <3>2 DEF Leads, old
    <3>3. CASE j = n + 1
      <4>1. \A k \in old : k <= i
        BY <1>1, <1>3, <2>1, <3>1, <3>3
      <4> QED
        <5>1. s[i].event.detail[2] = v
          BY <1>4, <3>1, <4>1 DEF Leads, old
        <5>2. t[i] = s[i] /\ t[j] = r
          BY <1>1, <3>1, <3>3
        <5> QED
          BY <1>2, <5>1, <5>2
    <3> QED
      BY <3>2, <3>3
  <2>2. ASSUME NEW i \in old \cup {n + 1}, \A k \in old \cup {n + 1} : k <= i
        PROVE  t[i].event.detail[2] = w
    <3>1. i = n + 1
      BY <1>1, <1>3, <2>2
    <3> QED
      BY <1>1, <1>2, <3>1
  <2> QED
    BY <1>1, <2>1, <2>2 DEF Leads
<1>5. ASSUME NEW u, Begins(s, source, u, v) PROVE Begins(t, source, u, w)
  <2>1. ASSUME NEW i \in old \cup {n + 1}, \A k \in old \cup {n + 1} : k >= i
        PROVE  t[i].event.detail[1] = u
    <3>1. CASE i \in old
      BY <1>1, <1>5, <2>1, <3>1 DEF Begins, old
    <3>2. CASE i = n + 1
      <4>1. old = {}
        BY <1>1, <1>3, <2>1, <3>2
      <4> QED
        BY <1>1, <1>2, <1>5, <3>2, <4>1 DEF Begins, old
    <3> QED
      BY <2>1, <3>1, <3>2
  <2> QED
    BY <1>1, <2>1 DEF Begins
<1> QED
  BY <1>4, <1>5 DEF t

(* The record of a command is the newest of its kind.                               *)
LEMMA CommandAppended ==
  ASSUME NEW R, NEW s \in Seq(R), NEW r \in R, NEW a, r.event = CommandEvent(a)
  PROVE  NewestCommand(Append(s, r), a)
<1> DEFINE t == Append(s, r)
           n == Len(s)
           old == Trail(s, "COMMAND")
<1>1. /\ r.event.source = "COMMAND" /\ r.event.code = a.command_id
      /\ r.event.detail = <<a.sequence_number, a.status>>
  BY DEF CommandEvent
<1>2. /\ n \in Nat /\ t[n + 1] = r
      /\ Trail(t, "COMMAND") = old \cup {n + 1}
      /\ \A k \in old : k \in 1 .. n
  <2> HIDE DEF t, n, old
  <2>1. Len(s) \in Nat /\ Append(s, r)[Len(s) + 1] = r
    BY TrailAppended
  <2>2. Trail(Append(s, r), "COMMAND") = Trail(s, "COMMAND") \cup {Len(s) + 1}
    <3> DEFINE source == "COMMAND"
    <3>1. r.event.source = source
      BY <1>1
    <3> HIDE DEF source
    <3>2. Trail(Append(s, r), source) = Trail(s, source) \cup {Len(s) + 1}
      BY <3>1, TrailAppended
    <3> QED
      BY <3>2 DEF source
  <2>3. \A k \in Trail(s, "COMMAND") : k \in 1 .. Len(s)
    BY TrailAppended
  <2> QED
    BY <2>1, <2>2, <2>3 DEF t, n, old
<1> HIDE DEF t, n, old
<1>3. \A i \in old \cup {n + 1} : (\A k \in old \cup {n + 1} : k <= i) => i = n + 1
  <2> SUFFICES ASSUME NEW i \in old, n + 1 <= i PROVE FALSE
    OBVIOUS
  <2> QED
    BY <1>2
<1> QED
  BY <1>1, <1>2, <1>3 DEF NewestCommand, t

(* A trail that loses its oldest record still leads where it led.                   *)
LEMMA TailLeads ==
  ASSUME NEW R, NEW s \in Seq(R), s # <<>>
  PROVE  /\ \A source, v : Leads(s, source, v) => Leads(Tail(s), source, v)
         /\ \A a : NewestCommand(s, a) => NewestCommand(Tail(s), a)
<1> DEFINE t == Tail(s)
<1>1. ASSUME NEW source
      PROVE  /\ \A k \in Trail(t, source) : /\ k \in Nat \ {0} /\ k + 1 \in Trail(s, source)
                                            /\ t[k] = s[k + 1]
             /\ \A k \in Trail(s, source) : k \in Nat /\ (k > 1 => k - 1 \in Trail(t, source))
  BY TrailShortened
<1> HIDE DEF t
<1>2. ASSUME NEW source, NEW i \in Trail(t, source), \A k \in Trail(t, source) : k <= i
      PROVE  \A k \in Trail(s, source) : k <= i + 1
  <2> SUFFICES ASSUME NEW k \in Trail(s, source) PROVE k <= i + 1
    OBVIOUS
  <2>1. i \in Nat \ {0} /\ k \in Nat
    BY <1>1
  <2>2. k > 1 => k - 1 <= i
    BY <1>1, <1>2
  <2> QED
    BY <2>1, <2>2
<1>3. ASSUME NEW source, NEW v, Leads(s, source, v) PROVE Leads(t, source, v)
  <2>1. ASSUME NEW i \in Trail(t, source), NEW j \in Trail(t, source), i < j,
               \A k \in Trail(t, source) : k <= i \/ k >= j
        PROVE  t[i].event.detail[2] = t[j].event.detail[1]
    <3>1. /\ i \in Nat \ {0} /\ j \in Nat \ {0}
          /\ i + 1 \in Trail(s, source) /\ j + 1 \in Trail(s, source)
          /\ t[i] = s[i + 1] /\ t[j] = s[j + 1]
      BY <1>1
    <3>2. \A k \in Trail(s, source) : k <= i + 1 \/ k >= j + 1
      <4> SUFFICES ASSUME NEW k \in Trail(s, source) PROVE k <= i + 1 \/ k >= j + 1
        OBVIOUS
      <4>1. k \in Nat /\ (k > 1 => k - 1 <= i \/ k - 1 >= j)
        BY <1>1, <2>1
      <4> QED
        BY <3>1, <4>1
    <3>3. i + 1 < j + 1
      BY <2>1, <3>1
    <3> QED
      BY <1>3, <3>1, <3>2, <3>3 DEF Leads
  <2>2. ASSUME NEW i \in Trail(t, source), \A k \in Trail(t, source) : k <= i
        PROVE  t[i].event.detail[2] = v
    <3>1. i + 1 \in Trail(s, source) /\ t[i] = s[i + 1]
      BY <1>1
    <3>2. \A k \in Trail(s, source) : k <= i + 1
      BY <1>2, <2>2
    <3> QED
      BY <1>3, <3>1, <3>2 DEF Leads
  <2> QED
    BY <2>1, <2>2 DEF Leads
<1>4. ASSUME NEW a, NewestCommand(s, a) PROVE NewestCommand(t, a)
  <2>1. ASSUME NEW i \in Trail(t, "COMMAND"), \A k \in Trail(t, "COMMAND") : k <= i
        PROVE  /\ t[i].event.code = a.command_id
               /\ t[i].event.detail = <<a.sequence_number, a.status>>
    <3>1. i + 1 \in Trail(s, "COMMAND") /\ t[i] = s[i + 1]
      BY <1>1
    <3>2. \A k \in Trail(s, "COMMAND") : k <= i + 1
      BY <1>2, <2>1
    <3> QED
      BY <1>4, <3>1, <3>2 DEF NewestCommand
  <2> QED
    BY <2>1 DEF NewestCommand
<1> QED
  BY <1>3, <1>4 DEF t

-----------------------------------------------------------------------------
(* What the retained records say of a mode, a fault and an acknowledgement.          *)
Tell(s, mode, fault, a) ==
  Leads(s, "MODE", mode) /\ Leads(s, "FDIR", fault) /\ NewestCommand(s, a)

TellFromStart(s, mode, fault) ==
  Begins(s, "MODE", InitialMode, mode) /\ Begins(s, "FDIR", "NONE", fault)

Story(s, mode, fault, a) ==
  Tell(s, mode, fault, a) /\ (Len(s) < Capacity => TellFromStart(s, mode, fault))

(* The event e reports the step from one mode, fault and acknowledgement to others.  *)
Reports(e, mode, fault, a, mode2, fault2, a2) ==
  \/ e = CommandEvent(a2) /\ mode2 = mode /\ fault2 = fault
  \/ e = ModeEvent(mode, mode2) /\ fault2 = fault /\ a2 = a
  \/ e = FaultEvent(fault, fault2) /\ mode2 = mode /\ a2 = a

(* A record that reports the step continues the story.                               *)
LEMMA StoryAppended ==
  ASSUME NEW R, NEW s \in Seq(R), NEW r \in R,
         NEW m, NEW f, NEW a, NEW m2, NEW f2, NEW a2, Reports(r.event, m, f, a, m2, f2, a2)
  PROVE  /\ Tell(s, m, f, a) => Tell(Append(s, r), m2, f2, a2)
         /\ TellFromStart(s, m, f) => TellFromStart(Append(s, r), m2, f2)
<1> DEFINE t == Append(s, r)
<1>1. CASE r.event = CommandEvent(a2) /\ m2 = m /\ f2 = f
  <2>1. r.event.source = "COMMAND"
    BY <1>1 DEF CommandEvent
  <2>2. NewestCommand(t, a2)
    BY <1>1, CommandAppended
  <2>3. /\ Leads(s, "MODE", m) => Leads(t, "MODE", m)
        /\ Leads(s, "FDIR", f) => Leads(t, "FDIR", f)
        /\ Begins(s, "MODE", InitialMode, m) => Begins(t, "MODE", InitialMode, m)
        /\ Begins(s, "FDIR", "NONE", f) => Begins(t, "FDIR", "NONE", f)
    BY <2>1, OtherAppended
  <2> QED
    BY <1>1, <2>2, <2>3 DEF Tell, TellFromStart
<1>2. CASE r.event = ModeEvent(m, m2) /\ f2 = f /\ a2 = a
  <2>1. r.event.source = "MODE" /\ r.event.detail = <<m, m2>>
    BY <1>2 DEF ModeEvent
  <2>2. /\ Leads(s, "MODE", m) => Leads(t, "MODE", m2)
        /\ Begins(s, "MODE", InitialMode, m) => Begins(t, "MODE", InitialMode, m2)
    BY <2>1, ChangeAppended
  <2>3. /\ NewestCommand(s, a) => NewestCommand(t, a)
        /\ Leads(s, "FDIR", f) => Leads(t, "FDIR", f)
        /\ Begins(s, "FDIR", "NONE", f) => Begins(t, "FDIR", "NONE", f)
    BY <2>1, OtherAppended
  <2> QED
    BY <1>2, <2>2, <2>3 DEF Tell, TellFromStart
<1>3. CASE r.event = FaultEvent(f, f2) /\ m2 = m /\ a2 = a
  <2>1. r.event.source = "FDIR" /\ r.event.detail = <<f, f2>>
    BY <1>3 DEF FaultEvent
  <2>2. /\ Leads(s, "FDIR", f) => Leads(t, "FDIR", f2)
        /\ Begins(s, "FDIR", "NONE", f) => Begins(t, "FDIR", "NONE", f2)
    BY <2>1, ChangeAppended
  <2>3. /\ NewestCommand(s, a) => NewestCommand(t, a)
        /\ Leads(s, "MODE", m) => Leads(t, "MODE", m)
        /\ Begins(s, "MODE", InitialMode, m) => Begins(t, "MODE", InitialMode, m)
    BY <2>1, OtherAppended
  <2> QED
    BY <1>3, <2>2, <2>3 DEF Tell, TellFromStart
<1> QED
  BY <1>1, <1>2, <1>3 DEF Reports

(* The ring of the application's logger: it turns only once it is full.              *)
Ring(l) ==
  /\ IsSequence(l.records)
  /\ Len(l.records) <= Capacity
  /\ l.start_index \in 0 .. Capacity - 1
  /\ Len(l.records) < Capacity => l.start_index = 0

(* log() of an event that reports a step continues the story of the snapshot, with    *)
(* room left in the ring and without.                                                 *)
LEMMA StoryLogged ==
  ASSUME Capacity > 0, NEW l, Ring(l), NEW e,
         NEW m, NEW f, NEW a, NEW m2, NEW f2, NEW a2,
         Story(Snapshot(l), m, f, a), Reports(e, m, f, a, m2, f2, a2)
  PROVE  Ring(LogEvent(l, e)) /\ Story(Snapshot(LogEvent(l, e)), m2, f2, a2)
<1> DEFINE new == NewRecord(l, e)
           R == {l.records[k] : k \in DOMAIN l.records} \cup {new}
           s == Snapshot(l)
           after == LogEvent(l, e)
<1>1. Capacity \in Nat \ {0} /\ new.event = e /\ new \in R
  BY LoggerAssumption DEF NewRecord
<1>2. l.records \in Seq(R) /\ Len(l.records) \in Nat
  <2>1. l.records \in Seq({l.records[k] : k \in DOMAIN l.records})
    BY DEF Ring, IsSequence
  <2>2. \A Q : l.records \in Seq(Q) => l.records \in Seq(Q \cup {new}) /\ Len(l.records) \in Nat
    OBVIOUS
  <2> QED
    BY <2>1, <2>2
<1> HIDE DEF new, R
<1>3. /\ l.start_index \in 0 .. Capacity - 1 /\ l.start_index \in Nat
      /\ Len(l.records) <= Capacity
      /\ Len(l.records) < Capacity => l.start_index = 0
  BY <1>1 DEF Ring
<1>4. s \in Seq(R) /\ Len(s) = Len(l.records)
  BY <1>2, <1>3, SnapshotIsSequence
<1>5. CASE Len(l.records) < Capacity
  <2>1. after = Pushed(l, e)
    BY <1>1, <1>2, <1>5 DEF LogEvent
  <2>2. s = l.records /\ Snapshot(after) = Append(s, new)
    BY <1>1, <1>2, <1>3, <1>5, <2>1, SnapshotPushed DEF new
  <2>3. after.records = Append(l.records, new) /\ after.start_index = 0
    BY <1>3, <1>5, <2>1 DEF Pushed, new
  <2>4. /\ after.records \in Seq(R) /\ Len(after.records) = Len(l.records) + 1
    BY <1>1, <1>2, <2>3, AppendProperties
  <2> HIDE DEF after, s
  <2>5. Ring(after)
    <3>1. IsSequence(after.records)
      BY <2>4, SequenceOf
    <3>2. Len(after.records) <= Capacity /\ after.start_index \in 0 .. Capacity - 1
      BY <1>1, <1>2, <1>5, <2>3, <2>4
    <3> QED
      BY <2>3, <3>1, <3>2 DEF Ring
  <2>6. Tell(s, m, f, a) /\ TellFromStart(s, m, f)
    BY <1>4, <1>5 DEF Story, s
  <2>7. Tell(Snapshot(after), m2, f2, a2) /\ TellFromStart(Snapshot(after), m2, f2)
    BY <1>1, <1>4, <2>2, <2>6, StoryAppended
  <2> QED
    BY <2>5, <2>7 DEF Story, after
<1>6. CASE Len(l.records) = Capacity
  <2>1. after = Overwritten(l, e)
    BY <1>1, <1>6 DEF LogEvent
  <2>2. Snapshot(after) = Append(Tail(s), new)
    BY <1>1, <1>2, <1>3, <1>6, <2>1, SnapshotOverwritten DEF new
  <2>3. /\ after.records = [l.records EXCEPT ![l.start_index + 1] = new]
        /\ after.start_index = (l.start_index + 1) % Capacity
    BY <2>1 DEF Overwritten, new
  <2>4. l.start_index + 1 \in 1 .. Len(l.records)
    BY <1>1, <1>3, <1>6
  <2>5. after.records \in Seq(R) /\ Len(after.records) = Capacity
    BY <1>1, <1>2, <1>6, <2>3, <2>4, ExceptSeq
  <2>6. after.start_index \in 0 .. Capacity - 1
    BY <1>1, <1>3, <2>3
  <2> HIDE DEF after, s
  <2>7. Ring(after)
    <3>1. IsSequence(after.records)
      BY <2>5, SequenceOf
    <3> QED
      BY <1>1, <2>5, <2>6, <3>1 DEF Ring
  <2>8. s # <<>> /\ Len(s) = Capacity
    BY <1>1, <1>4, <1>6
  <2>9. Tail(s) \in Seq(R) /\ Len(Tail(s)) = Capacity - 1
    BY <1>4, <2>8, HeadTailProperties
  <2>10. Tell(Tail(s), m, f, a)
    <3>1. Tell(s, m, f, a)
      BY DEF Story, s
    <3> QED
      BY <1>4, <2>8, <3>1, TailLeads DEF Tell
  <2>11. Tell(Snapshot(after), m2, f2, a2)
    BY <1>1, <2>2, <2>9, <2>10, StoryAppended
  <2>12. ~(Len(Snapshot(after)) < Capacity)
    <3>1. Len(Snapshot(after)) = Len(Tail(s)) + 1
      BY <1>1, <2>2, <2>9, AppendProperties
    <3> QED
      BY <1>1, <2>9, <3>1
  <2> QED
    BY <2>7, <2>11, <2>12 DEF Story, after
<1> QED
  BY <1>1, <1>2, <1>3, <1>5, <1>6

(* The same when the event is logged on a condition that says whether there is a      *)
(* step to report.                                                                     *)
LEMMA StoryLoggedIf ==
  ASSUME Capacity > 0, NEW c, NEW l, Ring(l), NEW e,
         NEW m, NEW f, NEW a, NEW m2, NEW f2, NEW a2, Story(Snapshot(l), m, f, a),
         c => Reports(e, m, f, a, m2, f2, a2), ~c => m2 = m /\ f2 = f /\ a2 = a
  PROVE  Ring(LogIf(c, l, e)) /\ Story(Snapshot(LogIf(c, l, e)), m2, f2, a2)
<1>1. CASE c
  <2>1. LogIf(c, l, e) = LogEvent(l, e)
    BY <1>1 DEF LogIf
  <2> QED
    BY <1>1, <2>1, StoryLogged
<1>2. CASE ~c
  BY <1>2 DEF LogIf
<1> QED
  BY <1>1, <1>2

(* The ring and what it tells.                                                         *)
LogInv ==
  /\ Capacity > 0
  /\ Ring(log)
  /\ Story(Snapshot(log), proc.mode, proc.last_fault, ack)

(* Every step logs what it did: the command's disposition, and the mode and the fault    *)
(* if they are not what they were before the step.                                       *)
LEMMA FinishTellsStory ==
  ASSUME LogInv, NEW now, NEW health, NEW commanded, NEW p, NEW g, NEW a,
         Finish(now, health, commanded, p, g, a), ~commanded => a = ack
  PROVE  LogInv'
<1> DEFINE l1 == LogIf(commanded, log, CommandEvent(a))
           l2 == LogIf(proc'.mode # proc.mode, l1, ModeEvent(proc.mode, proc'.mode))
           l3 == LogIf(proc'.last_fault # proc.last_fault, l2,
                       FaultEvent(proc.last_fault, proc'.last_fault))
<1>1. log' = l3 /\ ack' = a
  BY DEF Finish, StepLog
<1>2. Capacity > 0 /\ Ring(log) /\ Story(Snapshot(log), proc.mode, proc.last_fault, ack)
  BY DEF LogInv
<1>3. Ring(l1) /\ Story(Snapshot(l1), proc.mode, proc.last_fault, a)
  <2>1. commanded => Reports(CommandEvent(a), proc.mode, proc.last_fault, ack,
                             proc.mode, proc.last_fault, a)
    BY DEF Reports
  <2> QED
    BY <1>2, <2>1, StoryLoggedIf
<1> HIDE DEF l1
<1>4. Ring(l2) /\ Story(Snapshot(l2), proc'.mode, proc.last_fault, a)
  <2>1. Reports(ModeEvent(proc.mode, proc'.mode), proc.mode, proc.last_fault, a,
                proc'.mode, proc.last_fault, a)
    BY DEF Reports
  <2> QED
    BY <1>2, <1>3, <2>1, StoryLoggedIf
<1> HIDE DEF l2
<1>5. Ring(l3) /\ Story(Snapshot(l3), proc'.mode, proc'.last_fault, a)
  <2>1. Reports(FaultEvent(proc.last_fault, proc'.last_fault), proc'.mode, proc.last_fault, a,
                proc'.mode, proc'.last_fault, a)
    BY DEF Reports
  <2> QED
    BY <1>2, <1>4, <2>1, StoryLoggedIf
<1> HIDE DEF l3
<1> QED
  BY <1>1, <1>2, <1>5 DEF LogInv

(* The empty log explains the initial values.                                             *)
LEMMA StoryBegins == Init => LogInv
<1> SUFFICES ASSUME Init PROVE LogInv
  OBVIOUS
<1>1. /\ Capacity > 0 /\ Capacity \in Nat /\ log.records = <<>> /\ log.start_index = 0
      /\ proc.mode = InitialMode /\ proc.last_fault = "NONE"
  BY LoggerAssumption DEF Init, AppValid, EmptyLog, InitialProcessor
<1>2. log.records \in Seq({}) /\ Len(log.records) = 0
  BY <1>1
<1>3. Ring(log)
  <2>1. IsSequence(log.records)
    BY <1>2, SequenceOf
  <2> QED
    BY <1>1, <1>2, <2>1 DEF Ring
<1>4. Snapshot(log) = <<>>
  BY <1>1, <1>2, SnapshotUnturned
<1>5. \A source : Trail(<<>>, source) = {}
  BY DEF Trail
<1>6. Story(<<>>, InitialMode, "NONE", ack)
  BY <1>5 DEF Story, Tell, TellFromStart, Leads, Begins, NewestCommand
<1> QED
  BY <1>1, <1>3, <1>4, <1>6 DEF LogInv

(* A call keeps the story, and so does a step that does not touch the application.        *)
LEMMA CallTellsStory ==
  ASSUME LogInv, AnyCall \/ UNCHANGED vars
  PROVE  LogInv'
<1>1. CASE UNCHANGED vars
  BY <1>1 DEF LogInv, vars
<1>2. ASSUME NEW now, NEW health, Step(now, health)
      PROVE  LogInv'
  BY <1>2, FinishTellsStory DEF Step
<1>3. ASSUME NEW now, NEW health, NEW command, StepWithCommand(now, health, command)
      PROVE  LogInv'
  <2>1. PICK o : Finish(now, health, TRUE, o.state,
                    GuardAfter(guard, command.sequence_number, command.timestamp_ms, now),
                    [sequence_number |-> command.sequence_number,
                     command_id |-> command.command_id, status |-> o.status])
    BY <1>3 DEF StepWithCommand
  <2> QED
    BY <2>1, FinishTellsStory
<1> QED
  BY <1>1, <1>2, <1>3 DEF AnyCall

(* The story is what LogExplainsTelemetry asks for.                                        *)
LEMMA StoryExplains == LogInv => LogExplainsTelemetry
BY DEF LogInv, Story, Tell, TellFromStart, LogExplainsTelemetry

(* Whatever the callers do, the event log explains the telemetry.                          *)
THEOREM LogTellsTelemetry == Spec => []LogExplainsTelemetry
<1>1. LogInv /\ [Next]_vars => LogInv'
  BY CallTellsStory, NextIsCall
<1> QED
  BY <1>1, StoryBegins, StoryExplains, PTL DEF Spec

-----------------------------------------------------------------------------
(* The executive. *)

TaskState ==
  [pending: BOOLEAN, deadline_miss_recorded: BOOLEAN, release_tick: Nat, deadline_tick: Nat,
   release_count: Nat, completion_count: Nat, deadline_miss_count: Nat]

FlightDeadline == RateGroup["FLIGHT_SOFTWARE_STEP"].relative_deadline_ticks

ExecutiveInv ==
  /\ SchedulerValid
  /\ sched \in [tick_initialized: BOOLEAN, last_tick: Tick, tasks: [Task -> TaskState]]
  /\ sched.tick_initialized \/ sched.last_tick = 0
  /\ late \in Nat
  /\ NothingLeftPending
  /\ OneStepPerRelease
  /\ LateCompletionsCounted

(* A step of the executive makes a step of the application, or leaves it alone.           *)
LEMMA ExecutiveStepOfApp ==
  ASSUME ExecutiveNext
  PROVE  \E tick \in Tick, delay \in Delay : ExecutiveStep(tick, delay, Next)
<1>1. PICK tick \in Tick, delay \in Delay, now \in Timestamp, health \in HealthSnapshot :
        \/ ExecutiveStep(tick, delay, Step(now, health))
        \/ \E command \in Command : ExecutiveStep(tick, delay, StepWithCommand(now, health, command))
  BY DEF ExecutiveNext
<1>2. /\ Step(now, health) => Next
      /\ \A command \in Command : StepWithCommand(now, health, command) => Next
  BY DEF Next
<1>3. ExecutiveStep(tick, delay, Next)
  BY <1>1, <1>2 DEF ExecutiveStep
<1> QED
  BY <1>3

(* Every step of the application counts one telemetry frame and leaves the watchdog        *)
(* initialised.                                                                            *)
LEMMA AppStepCounts ==
  ASSUME Next
  PROVE  /\ telemetry_sequence' = (telemetry_sequence + 1) % TelemetryModulus
         /\ watchdog_initialized' = TRUE
<1>1. ASSUME NEW now, NEW health, NEW commanded, NEW p, NEW g, NEW a,
             Finish(now, health, commanded, p, g, a)
      PROVE  /\ telemetry_sequence' = (telemetry_sequence + 1) % TelemetryModulus
             /\ watchdog_initialized' = TRUE
  BY <1>1, Zenon DEF Finish
<1> QED
  BY <1>1, Zenon DEF Next, Step, StepWithCommand

(* Counting on from a number that was wrapped is counting on before wrapping.              *)
LEMMA CountOn ==
  ASSUME NEW n \in Nat, NEW m \in Nat \ {0}
  PROVE  ((n % m) + 1) % m = (n + 1) % m
<1> DEFINE q == n \div m
           r == n % m
<1>1. q \in Nat /\ r \in 0 .. m - 1 /\ n = m * q + r
  OBVIOUS
<1> HIDE DEF q, r
<1>2. CASE r + 1 < m
  <2>1. (m * q + (r + 1)) % m = r + 1 /\ (r + 1) % m = r + 1
    BY <1>1, <1>2
  <2>2. n + 1 = m * q + (r + 1)
    BY <1>1
  <2> QED
    BY <2>1, <2>2 DEF r
<1>3. CASE r + 1 = m
  <2>1. n + 1 = m * (q + 1) + 0
    BY <1>1, <1>3
  <2>2. (m * (q + 1) + 0) % m = 0 /\ m % m = 0
    BY <1>1
  <2> QED
    BY <1>3, <2>1, <2>2 DEF r
<1> QED
  BY <1>1, <1>2, <1>3

(* A release of a task without an open release, completed at once: the counters go on by   *)
(* one, and a completion outside of the deadline is one miss.                              *)
LEMMA ReleasedAndCompleted ==
  ASSUME NEW task \in TaskState, ~task.pending, NEW g, NEW tick, NEW at
  PROVE  LET r == Released(task, g, tick)
             c == Completed(r, at)
         IN  /\ r.pending
             /\ c = [pending |-> FALSE, deadline_miss_recorded |-> FALSE,
                     release_tick |-> tick,
                     deadline_tick |-> (tick + g.relative_deadline_ticks) % TickModulus,
                     release_count |-> task.release_count + 1,
                     completion_count |-> task.completion_count + 1,
                     deadline_miss_count |->
                       task.deadline_miss_count +
                         IF at \in tick .. ((tick + g.relative_deadline_ticks) % TickModulus)
                           THEN 0 ELSE 1]
<1> DEFINE due == (tick + g.relative_deadline_ticks) % TickModulus
           r == [pending |-> TRUE, deadline_miss_recorded |-> FALSE, release_tick |-> tick,
                 deadline_tick |-> due, release_count |-> task.release_count + 1,
                 completion_count |-> task.completion_count,
                 deadline_miss_count |-> task.deadline_miss_count]
<1>1. Released(task, g, tick) = r
  <2>1. MissesAfter(task, MissObserved(task, g, tick)) = task.deadline_miss_count
    BY DEF MissesAfter, MissObserved, Open, TaskState
  <2> QED
    BY <2>1 DEF Released
<1>2. Open(r) /\ (CompletedOnTime(r, at) <=> at \in tick .. due)
  BY DEF Open, CompletedOnTime
<1>3. MissesAfter(r, Open(r) /\ ~CompletedOnTime(r, at)) =
        task.deadline_miss_count + IF at \in tick .. due THEN 0 ELSE 1
  BY <1>2 DEF MissesAfter
<1> DEFINE misses == task.deadline_miss_count + IF at \in tick .. due THEN 0 ELSE 1
<1> HIDE DEF due, misses
<1>4. Completed(r, at) = [pending |-> FALSE, deadline_miss_recorded |-> FALSE,
                          release_tick |-> tick, deadline_tick |-> due,
                          release_count |-> task.release_count + 1,
                          completion_count |-> task.completion_count + 1,
                          deadline_miss_count |-> misses]
  <2>1. Completed(r, at) =
          [r EXCEPT !.pending = FALSE, !.deadline_miss_recorded = FALSE,
                    !.completion_count = task.completion_count + 1,
                    !.deadline_miss_count = misses]
    BY <1>3 DEF Completed, misses
  <2> QED
    BY <2>1
<1>5. r.pending
  OBVIOUS
<1> HIDE DEF r
<1> QED
  BY <1>1, <1>4, <1>5 DEF misses, due

(* A task that is not due keeps its counters. *)
LEMMA NotDueWaits ==
  ASSUME NEW task \in TaskState, ~task.pending, NEW g, NEW tick
  PROVE  Waited(task, g, tick) = task
<1>1. /\ (task.deadline_miss_recorded \/ MissObserved(task, g, tick)) = task.deadline_miss_recorded
      /\ MissesAfter(task, MissObserved(task, g, tick)) = task.deadline_miss_count
  BY DEF MissObserved, Open, MissesAfter, TaskState
<1>2. Waited(task, g, tick) =
        [task EXCEPT !.deadline_miss_recorded = task.deadline_miss_recorded,
                     !.deadline_miss_count = task.deadline_miss_count]
  BY <1>1 DEF Waited
<1> QED
  BY <1>2 DEF TaskState

(* What one accepted tick makes of the tasks when none is pending: each released one is     *)
(* completed in the same step, the flight task at its delayed tick.                         *)
LEMMA DispatchedTasks ==
  ASSUME SchedulerValid, NEW tick \in Tick, NEW delay \in Nat,
         sched.tasks \in [Task -> TaskState], \A t \in Task : ~sched.tasks[t].pending,
         StepStatus(sched, tick) = "OK"
  PROVE  LET s == Dispatched(AfterStep(sched, tick), Releases(sched, tick), tick, delay)
             At(t) == IF t = "FLIGHT_SOFTWARE_STEP" THEN CompletionTick(tick, delay) ELSE tick
         IN  s = [tick_initialized |-> TRUE, last_tick |-> tick,
                  tasks |-> [t \in Task |->
                               IF t \in Releases(sched, tick)
                                 THEN Completed(Released(sched.tasks[t], RateGroup[t], tick), At(t))
                                 ELSE sched.tasks[t]]]
<1> DEFINE flight == "FLIGHT_SOFTWARE_STEP"
           house == "HOUSEKEEPING_SNAPSHOT"
           R == Releases(sched, tick)
           f == [t \in Task |-> IF t \in R THEN Released(sched.tasks[t], RateGroup[t], tick)
                                ELSE sched.tasks[t]]
           s0 == [tick_initialized |-> TRUE, last_tick |-> tick, tasks |-> f]
<1>1. Task = {flight, house} /\ flight # house
  BY ExecutiveAssumption
<1>2. \A t \in Task : t \in R <=> Due(RateGroup[t], tick)
  BY DEF Releases
<1>3. AfterStep(sched, tick) = s0
  <2>1. \A t \in Task : ~Due(RateGroup[t], tick) =>
           Waited(sched.tasks[t], RateGroup[t], tick) = sched.tasks[t]
    BY NotDueWaits
  <2>2. AfterStep(sched, tick) = Stepped(sched, tick)
    BY DEF AfterStep
  <2> HIDE DEF R
  <2> QED
    BY <1>2, <2>1, <2>2 DEF Stepped
<1>4. \A t \in R : t \in Task /\ f[t].pending
  BY DEF Releases, Released
<1> HIDE DEF R
<1> DEFINE State(h) == [tick_initialized |-> TRUE, last_tick |-> tick, tasks |-> h]
<1>5. ASSUME NEW h, NEW t \in Task, h[t].pending, NEW at
      PROVE  AfterComplete(State(h), t, at) = State([h EXCEPT ![t] = Completed(h[t], at)])
  BY <1>5 DEF AfterComplete, CompletionStatus
<1> DEFINE f1 == IF flight \in R
                   THEN [f EXCEPT ![flight] = Completed(f[flight], CompletionTick(tick, delay))]
                   ELSE f
           f2 == IF house \in R THEN [f1 EXCEPT ![house] = Completed(f1[house], tick)] ELSE f1
<1>6. f1[house] = f[house]
  BY <1>1
<1>7. Dispatched(State(f), R, tick, delay) = State(f2)
  <2> HIDE DEF f, State
  <2>1. (IF flight \in R THEN AfterComplete(State(f), flight, CompletionTick(tick, delay))
                         ELSE State(f)) = State(f1)
    BY <1>1, <1>4, <1>5
  <2>2. house \in R => AfterComplete(State(f1), house, tick) = State([f1 EXCEPT ![house] = Completed(f1[house], tick)])
    <3> HIDE DEF f1
    <3> QED
      BY <1>1, <1>4, <1>5, <1>6
  <2> HIDE DEF f1
  <2> QED
    BY <2>1, <2>2 DEF Dispatched
<1>8. f2 = [t \in Task |->
              IF t \in R
                THEN Completed(Released(sched.tasks[t], RateGroup[t], tick),
                               IF t = flight THEN CompletionTick(tick, delay) ELSE tick)
                ELSE sched.tasks[t]]
  BY <1>1
<1> HIDE DEF f2
<1> QED
  BY <1>3, <1>7, <1>8 DEF R

(* The deadline decides on the completion exactly as the delay does, short of the end of   *)
(* the clock: there the completion tick saturates and the deadline wraps.                  *)
LEMMA LateExactlyByDelay ==
  ASSUME NEW tick \in Tick, NEW delay \in Nat, NEW due \in Nat,
         tick + due < TickModulus - 1
  PROVE  CompletionTick(tick, delay) \in tick .. ((tick + due) % TickModulus)
           <=> ~(delay > due)
<1>1. tick \in Nat /\ TickModulus \in Nat \ {0} /\ tick < TickModulus
  BY SchedulerAssumption DEF Tick
<1>2. (tick + due) % TickModulus = tick + due
  BY <1>1
<1> QED
  BY <1>1, <1>2 DEF CompletionTick

(* The inductive invariant of the executive.  That no release stays pending makes the       *)
(* rest possible: each released task is released and completed by one and the same step.   *)
LEMMA ExecutiveInvInductive == ExecutiveSpec => []ExecutiveInv
<1>0. /\ "FLIGHT_SOFTWARE_STEP" \in Task /\ FlightDeadline \in Nat
      /\ \A t \in Task : RateGroup[t].relative_deadline_ticks \in Nat
      /\ TickModulus \in Nat \ {0} /\ TelemetryModulus \in Nat \ {0} /\ Delay \subseteq Nat
  BY ExecutiveAssumption, SchedulerAssumption, AppAssumption DEF FlightDeadline
<1>1. ExecutiveInit => ExecutiveInv
  <2> SUFFICES ASSUME ExecutiveInit PROVE ExecutiveInv
    OBVIOUS
  <2>1. sched = [tick_initialized |-> FALSE, last_tick |-> 0, tasks |-> [t \in Task |-> IdleTask]]
    BY DEF ExecutiveInit, InitialScheduler
  <2>2. 0 \in Tick /\ IdleTask \in TaskState /\ 0 % TelemetryModulus = 0
    BY <1>0 DEF Tick, IdleTask, TaskState
  <2>3. /\ sched \in [tick_initialized: BOOLEAN, last_tick: Tick, tasks: [Task -> TaskState]]
        /\ sched.tick_initialized \/ sched.last_tick = 0
    BY <2>1, <2>2
  <2>4. \A t \in Task : sched.tasks[t] = IdleTask
    BY <2>1
  <2>5. OneStepPerRelease /\ LateCompletionsCounted /\ NothingLeftPending
    BY <1>0, <2>2, <2>4 DEF ExecutiveInit, Init, OneStepPerRelease, LateCompletionsCounted,
                            NothingLeftPending, Flight, IdleTask
  <2> QED
    BY <2>3, <2>5 DEF ExecutiveInit, ExecutiveInv
<1>2. ExecutiveInv /\ [ExecutiveNext]_executiveVars => ExecutiveInv'
  <2> SUFFICES ASSUME ExecutiveInv, [ExecutiveNext]_executiveVars PROVE ExecutiveInv'
    OBVIOUS
  <2>1. CASE UNCHANGED executiveVars
    BY <2>1 DEF executiveVars, vars, ExecutiveInv, NothingLeftPending, OneStepPerRelease,
                LateCompletionsCounted, Flight, SchedulerValid, RateGroupValid
  <2>2. ASSUME NEW tick \in Tick, NEW delay \in Delay, ExecutiveStep(tick, delay, Next)
        PROVE  ExecutiveInv'
    <3> DEFINE R == Releases(sched, tick)
               flight == "FLIGHT_SOFTWARE_STEP"
    <3>1. /\ sched' = Dispatched(AfterStep(sched, tick), R, tick, delay)
          /\ exec'.deadline_misses = DeadlineMisses(sched, tick)
          /\ IF flight \in R THEN Next ELSE UNCHANGED vars
          /\ late' = late + IF flight \in R /\ delay > FlightDeadline THEN 1 ELSE 0
      BY <2>2 DEF ExecutiveStep, FlightDeadline
    <3>2. /\ SchedulerValid /\ late \in Nat /\ sched.last_tick \in Tick
          /\ sched.tasks \in [Task -> TaskState] /\ \A t \in Task : ~sched.tasks[t].pending
      BY DEF ExecutiveInv, NothingLeftPending
    <3>3. exec'.deadline_misses = {}
      BY <3>1, <3>2 DEF DeadlineMisses, MissObserved, Open
    <3>4. CASE StepStatus(sched, tick) # "OK"
      <4>1. R = {}
        BY <3>4 DEF Releases
      <4>2. UNCHANGED <<sched, vars, late>>
        BY <1>0, <3>1, <3>2, <3>4, <4>1 DEF Dispatched, AfterStep
      <4> QED
        BY <3>3, <4>2 DEF vars, ExecutiveInv, NothingLeftPending, OneStepPerRelease,
                          LateCompletionsCounted, Flight, SchedulerValid, RateGroupValid
    <3>5. CASE StepStatus(sched, tick) = "OK"
      <4> DEFINE At(t) == IF t = flight THEN CompletionTick(tick, delay) ELSE tick
                 Deadline(t) == (tick + RateGroup[t].relative_deadline_ticks) % TickModulus
                 Closed(t) == [pending |-> FALSE, deadline_miss_recorded |-> FALSE,
                               release_tick |-> tick, deadline_tick |-> Deadline(t),
                               release_count |-> sched.tasks[t].release_count + 1,
                               completion_count |-> sched.tasks[t].completion_count + 1,
                               deadline_miss_count |->
                                 sched.tasks[t].deadline_miss_count +
                                   IF At(t) \in tick .. Deadline(t) THEN 0 ELSE 1]
      <4>1. \A t \in Task : Completed(Released(sched.tasks[t], RateGroup[t], tick), At(t)) = Closed(t)
        BY <3>2, ReleasedAndCompleted
      <4>2. sched' = [tick_initialized |-> TRUE, last_tick |-> tick,
                      tasks |-> [t \in Task |-> IF t \in R THEN Closed(t) ELSE sched.tasks[t]]]
        <5>1. delay \in Nat
          BY <1>0
        <5>2. sched' = [tick_initialized |-> TRUE, last_tick |-> tick,
                        tasks |-> [t \in Task |->
                          IF t \in R
                            THEN Completed(Released(sched.tasks[t], RateGroup[t], tick), At(t))
                            ELSE sched.tasks[t]]]
          BY <3>1, <3>2, <3>5, <5>1, DispatchedTasks
        <5> HIDE DEF Closed, At, R
        <5> QED
          BY <4>1, <5>2
      <4>3. \A t \in Task : Closed(t) \in TaskState
        <5> SUFFICES ASSUME NEW t \in Task PROVE Closed(t) \in TaskState
          OBVIOUS
        <5>1. Deadline(t) \in Nat /\ tick \in Nat /\ sched.tasks[t] \in TaskState
          BY <1>0, <3>2 DEF Tick
        <5> HIDE DEF Deadline, At
        <5> QED
          BY <5>1 DEF TaskState
      <4>4. \A t \in Task : sched'.tasks[t] = IF t \in R THEN Closed(t) ELSE sched.tasks[t]
        BY <4>2
      <4>5. /\ (sched \in [tick_initialized: BOOLEAN, last_tick: Tick, tasks: [Task -> TaskState]])'
            /\ sched'.last_tick = tick /\ sched'.tick_initialized
        <5> HIDE DEF Closed, R
        <5> QED
          BY <3>2, <4>2, <4>3
      <4>6. NothingLeftPending'
        <5>1. \A t \in Task : ~Closed(t).pending
          OBVIOUS
        <5> HIDE DEF Closed, R
        <5> QED
          BY <3>2, <3>3, <4>4, <5>1 DEF NothingLeftPending
      <4>7. OneStepPerRelease'
        <5>1. /\ Flight' = IF flight \in R THEN Closed(flight) ELSE Flight
              /\ Closed(flight).release_count = Flight.release_count + 1
              /\ Flight.release_count \in Nat
          BY <1>0, <3>2, <4>4 DEF Flight, TaskState
        <5>2. OneStepPerRelease
          BY DEF ExecutiveInv
        <5> HIDE DEF Closed, R
        <5>3. CASE flight \in R
          <6>1. telemetry_sequence' = (telemetry_sequence + 1) % TelemetryModulus
                /\ watchdog_initialized' = TRUE
            BY <3>1, <5>3, AppStepCounts
          <6>2. ((Flight.release_count % TelemetryModulus) + 1) % TelemetryModulus
                  = (Flight.release_count + 1) % TelemetryModulus
            BY <1>0, <5>1, CountOn
          <6>3. Flight'.release_count = Flight.release_count + 1
            BY <5>1, <5>3
          <6> QED
            BY <5>1, <5>2, <6>1, <6>2, <6>3 DEF OneStepPerRelease
        <5>4. CASE flight \notin R
          BY <3>1, <5>1, <5>2, <5>4 DEF OneStepPerRelease, vars
        <5> QED
          BY <5>3, <5>4
      <4>8. LateCompletionsCounted'
        <5> SUFFICES ASSUME tick + FlightDeadline < TickModulus - 1
                     PROVE  Flight'.deadline_miss_count = late'
          BY <4>5 DEF LateCompletionsCounted, FlightDeadline
        <5>1. sched.last_tick + FlightDeadline < TickModulus - 1
          <6>1. sched.last_tick \in Nat /\ tick \in Nat
            BY <3>2 DEF Tick
          <6>2. sched.last_tick <= tick
            BY <3>5, <6>1 DEF ExecutiveInv, StepStatus, TickContinues
          <6> QED
            BY <1>0, <6>1, <6>2
        <5>2. Flight.deadline_miss_count = late
          BY <5>1 DEF ExecutiveInv, LateCompletionsCounted, FlightDeadline
        <5>3. CompletionTick(tick, delay) \in tick .. Deadline(flight) <=> ~(delay > FlightDeadline)
          BY <1>0, LateExactlyByDelay DEF FlightDeadline
        <5>4. Flight' = IF flight \in R THEN Closed(flight) ELSE Flight
          BY <1>0, <4>4 DEF Flight
        <5>5. Closed(flight).deadline_miss_count =
                Flight.deadline_miss_count + IF delay > FlightDeadline THEN 1 ELSE 0
          BY <5>3 DEF Flight
        <5> HIDE DEF Closed, R
        <5> QED
          BY <3>1, <3>2, <5>2, <5>4, <5>5
      <4> QED
        BY <3>1, <3>2, <4>5, <4>6, <4>7, <4>8 DEF ExecutiveInv, SchedulerValid, RateGroupValid
    <3> QED
      BY <3>4, <3>5
  <2> QED
    BY <2>1, <2>2, ExecutiveStepOfApp
<1>3. QED
  BY <1>1, <1>2, PTL DEF ExecutiveSpec

(* FlightSoftwareExecutive::step completes every release it makes before it returns, and   *)
(* step() of the scheduler therefore never observes a miss.                                *)
THEOREM ReleasesEndWithStep == ExecutiveSpec => []NothingLeftPending
BY ExecutiveInvInductive, PTL DEF ExecutiveInv

(* FlightSoftwareExecutive::step runs the application once per release of the flight task: *)
(* rejected ticks run nothing, and the telemetry number is the release count, wrapped.     *)
THEOREM AppStepsAreReleases == ExecutiveSpec => []OneStepPerRelease
BY ExecutiveInvInductive, PTL DEF ExecutiveInv

(* The statistics of the scheduler count exactly the flight completions whose delay         *)
(* exceeds the deadline, whatever rates are configured.                                    *)
THEOREM LateCountedOnce == ExecutiveSpec => []LateCompletionsCounted
BY ExecutiveInvInductive, PTL DEF ExecutiveInv

(* The executive adds no behaviour to the application: whatever it does is a behaviour of  *)
(* FlightSoftwareApp, so what is proved of that holds under the executive too.             *)
THEOREM ExecutiveImplementsApp == ExecutiveSpec => Spec
<1>1. ExecutiveInit => Init
  BY DEF ExecutiveInit
<1>2. [ExecutiveNext]_executiveVars => [Next]_vars
  <2>1. ASSUME ExecutiveNext PROVE [Next]_vars
    BY <2>1, ExecutiveStepOfApp DEF ExecutiveStep
  <2> QED
    BY <2>1 DEF executiveVars
<1> QED
  BY <1>1, <1>2, PTL DEF ExecutiveSpec, Spec

(* Under the executive, as under any other caller of FlightSoftwareApp::step, the most      *)
(* urgent fault is acted on and SAFE is held.                                              *)
THEOREM ExecutiveKeepsAppSafe == ExecutiveSpec => []MostUrgentFaultActedOn /\ SafeHeld
BY ExecutiveImplementsApp, MostUrgentActedOn, SafeIsHeld

(* And its log explains its telemetry, whichever ticks run the application.                 *)
THEOREM ExecutiveLogTellsTelemetry == ExecutiveSpec => []LogExplainsTelemetry
BY ExecutiveImplementsApp, LogTellsTelemetry

-----------------------------------------------------------------------------
(* The flight program that the scenario runner starts: its watchdog. *)

(* The time stamp of loop n, t, follows the last kick by a wait for a command, the   *)
(* sleep at the end of a loop and the one before loop n, each of them oversleeping    *)
(* by no more than jitter.                                                           *)
Follows(t, n, jitter) ==
  /\ watchdog.last_kick_ms + LoopSleep + DelayBefore(n) <= t
  /\ t <= watchdog.last_kick_ms + ReceiveTimeout + LoopSleep + DelayBefore(n) + jitter

LoopInv ==
  /\ scenario \in Scenarios
  /\ {clock, stamp, timer.from, timer.to, watchdog.last_kick_ms} \subseteq Nat
  /\ loop \in Nat \ {0}
  /\ watchdog = [last_kick_ms |-> watchdog.last_kick_ms, missed_deadline_count |-> 0]
  /\ watchdog_initialized \in BOOLEAN
  /\ watchdog_initialized <=> loop > 1
  /\ program = "starting" => loop = 1
  /\ Running => clock <= timer.to
  /\ program = "asleep" => /\ timer.to = timer.from + Jitter
                           /\ loop > 1 => Follows(timer.from, loop, 0)
  /\ program = "receiving" => /\ timer.to = stamp + ReceiveTimeout
                              /\ loop <= scenario.loop_count
                              /\ stamp <= clock
                              /\ loop > 1 => Follows(stamp, loop, Jitter)
  /\ WatchdogSeesDelay

(* What a step of the application does to the watchdog of a program that reports     *)
(* loops of no duration.                                                             *)
LEMMA WatchdogOfStep ==
  ASSUME NEW now \in Nat, NEW health, health.loop_duration_ms = 0,
         NEW commanded, NEW p, NEW g, NEW a, Finish(now, health, commanded, p, g, a),
         watchdog = [last_kick_ms |-> watchdog.last_kick_ms, missed_deadline_count |-> 0],
         watchdog.last_kick_ms \in Nat, watchdog_initialized \in BOOLEAN
  PROVE  /\ watchdog' = [last_kick_ms |-> now, missed_deadline_count |-> 0]
         /\ watchdog_initialized' = TRUE
         /\ watchdog_initialized => (output'.watchdog_expired <=>
              Elapsed(watchdog, now) >= WatchdogConfig.timeout_ms)
         /\ ~watchdog_initialized => ~output'.watchdog_expired
<1> DEFINE w == IF watchdog_initialized THEN watchdog ELSE WatchdogReset(now)
           counted == Counted(w, health.loop_duration_ms)
           report == WatchdogReport(counted, now, health.loop_duration_ms)
<1>1. /\ watchdog' = Kicked(counted, now) /\ watchdog_initialized' = TRUE
      /\ output'.watchdog_expired = (report.status = "EXPIRED")
  BY DEF Finish
<1>2. /\ WatchdogConfig.loop_deadline_ms \in Nat /\ WatchdogConfig.loop_deadline_ms > 0
      /\ WatchdogConfig.max_missed_deadlines \in Nat /\ WatchdogConfig.max_missed_deadlines > 0
      /\ WatchdogConfig.timeout_ms \in Nat /\ WatchdogConfig.timeout_ms > 0
  BY WatchdogAssumption, TimingAssumption, LoopAssumption
<1>3. ~LoopLate(health.loop_duration_ms)
  BY <1>2 DEF LoopLate
<1>4. w = [last_kick_ms |-> w.last_kick_ms, missed_deadline_count |-> 0]
  BY DEF WatchdogReset
<1> HIDE DEF w
<1>5. counted = w
  BY <1>3, <1>4 DEF Counted
<1> HIDE DEF counted
<1>6. watchdog' = [last_kick_ms |-> now, missed_deadline_count |-> 0]
  BY <1>1, <1>4, <1>5 DEF Kicked
<1>7. report.status = "EXPIRED" <=> Elapsed(w, now) >= WatchdogConfig.timeout_ms
  <2>1. w.missed_deadline_count = 0
    BY <1>4
  <2>2. ~(w.missed_deadline_count >= WatchdogConfig.max_missed_deadlines)
    BY <1>2, <2>1
  <2> QED
    BY <1>5, <2>2 DEF WatchdogReport
<1> HIDE DEF report
<1>8. watchdog_initialized => w = watchdog
  BY DEF w
<1>9. ~watchdog_initialized => ~(Elapsed(w, now) >= WatchdogConfig.timeout_ms)
  <2> SUFFICES ASSUME ~watchdog_initialized PROVE ~(Elapsed(w, now) >= WatchdogConfig.timeout_ms)
    OBVIOUS
  <2>1. w.last_kick_ms = now
    BY DEF w, WatchdogReset
  <2>2. Elapsed(w, now) = 0
    BY <2>1 DEF Elapsed
  <2> QED
    BY <1>2, <2>2
<1> QED
  BY <1>1, <1>6, <1>7, <1>8, <1>9

(* What a loop's step of the application leaves to the watchdog.                      *)
LEMMA LoopStep ==
  ASSUME LoopInv, NEW command,
         Step(stamp, LoopInput) \/ StepWithCommand(stamp, LoopInput, command)
  PROVE  /\ watchdog' = [last_kick_ms |-> stamp, missed_deadline_count |-> 0]
         /\ watchdog_initialized' = TRUE
         /\ loop > 1 => (output'.watchdog_expired <=>
              Elapsed(watchdog, stamp) >= WatchdogConfig.timeout_ms)
         /\ loop = 1 => ~output'.watchdog_expired
<1>1. LoopInput.loop_duration_ms = 0
  BY DEF LoopInput
<1>2. /\ stamp \in Nat /\ watchdog.last_kick_ms \in Nat
      /\ watchdog = [last_kick_ms |-> watchdog.last_kick_ms, missed_deadline_count |-> 0]
  BY DEF LoopInv
<1>3. /\ watchdog_initialized \in BOOLEAN
      /\ watchdog_initialized <=> loop > 1
      /\ loop \in Nat
  BY DEF LoopInv
<1>4. /\ loop > 1 => watchdog_initialized
      /\ loop = 1 => ~watchdog_initialized
  BY <1>3
<1>5. \E commanded, p, g, a : Finish(stamp, LoopInput, commanded, p, g, a)
  <2>1. Step(stamp, LoopInput) => \E commanded, p, g, a : Finish(stamp, LoopInput, commanded, p, g, a)
    BY Zenon DEF Step
  <2>2. StepWithCommand(stamp, LoopInput, command)
          => \E commanded, p, g, a : Finish(stamp, LoopInput, commanded, p, g, a)
    BY Zenon DEF StepWithCommand
  <2> QED
    BY <2>1, <2>2
<1>6. PICK commanded, p, g, a : Finish(stamp, LoopInput, commanded, p, g, a)
  BY <1>5
<1>7. /\ watchdog' = [last_kick_ms |-> stamp, missed_deadline_count |-> 0]
      /\ watchdog_initialized' = TRUE
      /\ watchdog_initialized => (output'.watchdog_expired <=>
           Elapsed(watchdog, stamp) >= WatchdogConfig.timeout_ms)
      /\ ~watchdog_initialized => ~output'.watchdog_expired
  BY <1>1, <1>2, <1>3, <1>6, WatchdogOfStep
<1> QED
  BY <1>4, <1>7

(* The constants of the loop, and the sleep before loop n.                            *)
LEMMA LoopTimes ==
  ASSUME scenario \in Scenarios, NEW n
  PROVE  /\ {ReceiveTimeout, LoopSleep, WatchdogSleep, StartupTime, Jitter} \subseteq Nat
         /\ scenario.loop_count \in Nat /\ scenario.watchdog_timeout_loop # 1
         /\ DelayBefore(n) \in Nat
         /\ DelayBefore(n) # 0 => n = scenario.watchdog_timeout_loop
         /\ n = scenario.watchdog_timeout_loop /\ n <= scenario.loop_count => DelayBefore(n) = WatchdogSleep
BY LoopAssumption, TimingAssumption DEF DelayBefore

(* The invariant of the loop lives on these variables.                                *)
LoopClockVars == <<clock, scenario, program, loop, timer, stamp, watchdog, watchdog_initialized, output>>

(* A step that leaves those variables as they are keeps the invariant of the loop.     *)
LEMMA LoopInvUnchanged ==
  ASSUME LoopInv, UNCHANGED LoopClockVars
  PROVE  LoopInv'
BY DEF LoopInv, LoopClockVars, Running, Follows, DelayBefore, WatchdogSeesDelay

(* The end of a loop: the watchdog was kicked with the time stamp of the loop, and     *)
(* had expired if and only if the loop was held up.                                    *)
LEMMA LoopEnds ==
  ASSUME LoopInv, program = "receiving", NEW command,
         Step(stamp, LoopInput) \/ StepWithCommand(stamp, LoopInput, command), EndLoop
  PROVE  LoopInv'
<1>1. /\ scenario \in Scenarios /\ clock \in Nat /\ stamp \in Nat /\ loop \in Nat \ {0}
      /\ watchdog.last_kick_ms \in Nat
      /\ clock <= timer.to /\ timer.to = stamp + ReceiveTimeout /\ stamp <= clock
      /\ loop <= scenario.loop_count
      /\ loop > 1 => Follows(stamp, loop, Jitter)
  BY DEF LoopInv, Running
<1>2. /\ program' \in {"asleep", "failed"} /\ loop' = loop + 1
      /\ timer' = Window(clock + LoopSleep + DelayBefore(loop + 1), Jitter)
      /\ clock' = clock /\ scenario' = scenario /\ stamp' = stamp
  BY DEF EndLoop
<1>3. /\ watchdog' = [last_kick_ms |-> stamp, missed_deadline_count |-> 0]
      /\ watchdog_initialized' = TRUE
      /\ loop > 1 => (output'.watchdog_expired <=>
           Elapsed(watchdog, stamp) >= WatchdogConfig.timeout_ms)
      /\ loop = 1 => ~output'.watchdog_expired
  BY LoopStep
<1> DEFINE d == DelayBefore(loop + 1)
<1>4. /\ {ReceiveTimeout, LoopSleep, WatchdogSleep, Jitter, d, DelayBefore(loop)} \subseteq Nat
      /\ scenario.watchdog_timeout_loop # 1
      /\ DelayBefore(loop) # 0 => loop = scenario.watchdog_timeout_loop
      /\ loop = scenario.watchdog_timeout_loop => DelayBefore(loop) = WatchdogSleep
  BY <1>1, LoopTimes
<1>5. timer'.from = clock + LoopSleep + d /\ timer'.to = clock + LoopSleep + d + Jitter
  BY <1>2 DEF Window
<1>6. DelayBefore(loop)' = d
  BY <1>2 DEF DelayBefore
<1>7. output'.watchdog_expired <=> loop = scenario.watchdog_timeout_loop
  <2>1. CASE loop = 1
    BY <1>3, <1>4, <2>1
  <2>2. CASE loop > 1
    <3>1. Elapsed(watchdog, stamp) = stamp - watchdog.last_kick_ms
      BY <1>1, <1>4, <2>2 DEF Elapsed, Follows
    <3>2. CASE loop = scenario.watchdog_timeout_loop
      <4>1. stamp - watchdog.last_kick_ms >= WatchdogConfig.timeout_ms
        BY <1>1, <1>4, <2>2, <3>2, TimingAssumption, WatchdogAssumption DEF Follows
      <4> QED
        BY <1>3, <2>2, <3>1, <3>2, <4>1
    <3>3. CASE loop # scenario.watchdog_timeout_loop
      <4>1. ~(stamp - watchdog.last_kick_ms >= WatchdogConfig.timeout_ms)
        BY <1>1, <1>4, <2>2, <3>3, TimingAssumption, WatchdogAssumption DEF Follows
      <4> QED
        BY <1>3, <2>2, <3>1, <3>3, <4>1
    <3> QED
      BY <3>2, <3>3
  <2> QED
    BY <1>1, <2>1, <2>2
<1> HIDE DEF d
<1>8. WatchdogSeesDelay'
  <2>1. loop' - 1 = loop
    BY <1>1, <1>2
  <2> QED
    BY <1>2, <1>7, <2>1 DEF WatchdogSeesDelay
<1>9. Follows(timer.from, loop, 0)'
  BY <1>1, <1>2, <1>3, <1>4, <1>5, <1>6 DEF Follows
<1>10. /\ watchdog'.last_kick_ms = stamp /\ timer'.to = timer'.from + Jitter
       /\ timer'.from \in Nat /\ timer'.to \in Nat /\ clock' <= timer'.to
       /\ loop' \in Nat \ {0} /\ loop' > 1
       /\ clock' \in Nat /\ stamp' \in Nat /\ scenario' \in Scenarios
  BY <1>1, <1>2, <1>3, <1>4, <1>5
<1>11. program' # "starting" /\ program' # "receiving"
  BY <1>2
<1> QED
  BY <1>3, <1>8, <1>9, <1>10, <1>11 DEF LoopInv

(* Every step of the flight program keeps the invariant of the loop.                   *)
LEMMA LoopInvStep ==
  ASSUME LoopInv, LoopNext
  PROVE  LoopInv'
<1>1. CASE StartUp
  <2>1. /\ clock' = clock /\ scenario' = scenario /\ loop' = loop /\ stamp' = stamp
        /\ watchdog' = watchdog /\ watchdog_initialized' = watchdog_initialized
        /\ output' = output /\ program = "starting" /\ program' = "asleep"
        /\ timer' = Window(clock + DelayBefore(1), Jitter)
    BY <1>1 DEF StartUp, appVars
  <2>2. /\ {Jitter, DelayBefore(1), clock} \subseteq Nat
        /\ timer'.from = clock + DelayBefore(1) /\ timer'.to = clock + DelayBefore(1) + Jitter
    BY <2>1, LoopTimes DEF LoopInv, Window
  <2>3. /\ timer'.from \in Nat /\ timer'.to \in Nat /\ clock' <= timer'.to
        /\ timer'.to = timer'.from + Jitter
    BY <2>1, <2>2
  <2>4. loop = 1
    BY <2>1 DEF LoopInv
  <2> QED
    BY <2>1, <2>3, <2>4 DEF LoopInv, WatchdogSeesDelay
<1>2. CASE BeginLoop
  <2>1. /\ clock' = clock /\ scenario' = scenario /\ loop' = loop /\ stamp' = clock
        /\ watchdog' = watchdog /\ watchdog_initialized' = watchdog_initialized
        /\ output' = output /\ program = "asleep" /\ program' = "receiving"
        /\ timer' = Window(clock, ReceiveTimeout)
        /\ clock >= timer.from /\ loop <= scenario.loop_count
    BY <1>2 DEF BeginLoop, appVars
  <2>2. /\ {Jitter, ReceiveTimeout, LoopSleep, DelayBefore(loop)} \subseteq Nat
        /\ {clock, timer.from, watchdog.last_kick_ms} \subseteq Nat
        /\ clock <= timer.from + Jitter
        /\ loop > 1 => Follows(timer.from, loop, 0)
    BY <2>1, LoopTimes DEF LoopInv, Running
  <2>3. timer'.from = clock /\ timer'.to = clock + ReceiveTimeout
    BY <2>1 DEF Window
  <2>4. loop > 1 => Follows(stamp, loop, Jitter)'
    <3>1. DelayBefore(loop)' = DelayBefore(loop)
      BY <2>1 DEF DelayBefore
    <3> QED
      BY <2>1, <2>2, <3>1 DEF Follows
  <2>5. timer'.to \in Nat /\ clock' <= timer'.to
    BY <2>1, <2>2, <2>3
  <2> QED
    BY <2>1, <2>2, <2>3, <2>4, <2>5 DEF LoopInv, WatchdogSeesDelay
<1>3. CASE ReceivePacket
  BY <1>3, LoopEnds DEF ReceivePacket
<1>4. CASE ReceiveNothing
  BY <1>4, LoopEnds DEF ReceiveNothing
<1>5. CASE Exit
  <2>1. /\ clock' = clock /\ scenario' = scenario /\ loop' = loop /\ stamp' = stamp
        /\ watchdog' = watchdog /\ watchdog_initialized' = watchdog_initialized
        /\ output' = output /\ program' = "ended" /\ timer' = timer
    BY <1>5 DEF Exit, appVars
  <2> QED
    BY <2>1 DEF LoopInv, Running, WatchdogSeesDelay
<1> QED
  BY <1>1, <1>2, <1>3, <1>4, <1>5 DEF LoopNext

(* The runner, other senders and the clock do not come between the watchdog and its    *)
(* loop.                                                                              *)
LEMMA LoopInvInductive == RunnerSpec => []LoopInv
<1>1. RunnerInit => LoopInv
  <2> SUFFICES ASSUME RunnerInit PROVE LoopInv
    OBVIOUS
  <2>1. /\ clock = 0 /\ scenario \in Scenarios /\ program = "starting" /\ loop = 1
        /\ timer = [from |-> 0, to |-> StartupTime] /\ stamp = 0
        /\ watchdog = [last_kick_ms |-> 0, missed_deadline_count |-> 0]
        /\ watchdog_initialized = FALSE
    BY LoopAssumption DEF RunnerInit, LoopInit, Init, InitialWatchdog, Window
  <2>2. /\ timer.from = 0 /\ timer.to = StartupTime /\ StartupTime \in Nat
        /\ watchdog.last_kick_ms = 0 /\ clock <= timer.to
    BY <2>1, LoopAssumption
  <2>3. ~(loop > 1) /\ loop \in Nat \ {0}
    BY <2>1
  <2>4. watchdog_initialized \in BOOLEAN /\ (watchdog_initialized <=> loop > 1)
    BY <2>1, <2>3
  <2>5. program # "asleep" /\ program # "receiving"
    BY <2>1
  <2> QED
    BY <2>1, <2>2, <2>3, <2>4, <2>5 DEF LoopInv, WatchdogSeesDelay
<1>2. LoopInv /\ [RunnerNext]_allVars => LoopInv'
  <2> SUFFICES ASSUME LoopInv, [RunnerNext]_allVars PROVE LoopInv'
    OBVIOUS
  <2>1. CASE LoopNext
    BY <2>1, LoopInvStep
  <2>2. CASE Listen \/ SendStep \/ Scan \/ LeaveBehind \/ Expire \/ Stray \/ UNCHANGED allVars
    <3>1. UNCHANGED LoopClockVars
      BY <2>2 DEF Listen, SendStep, Scan, LeaveBehind, Expire, Stray, allVars, appVars, loopVars,
                  LoopClockVars
    <3> QED
      BY <3>1, LoopInvUnchanged
  <2>3. CASE EndScenario
    <3>1. /\ clock' = clock /\ scenario' = scenario /\ loop' = loop /\ stamp' = stamp
          /\ watchdog' = watchdog /\ watchdog_initialized' = watchdog_initialized
          /\ output' = output /\ timer' = timer
          /\ program' = IF Running THEN "terminated" ELSE program
      BY <2>3 DEF EndScenario, appVars
    <3>2. program' \notin {"starting", "asleep", "receiving"}
      BY <3>1 DEF Running
    <3> QED
      BY <3>1, <3>2 DEF LoopInv, Running, WatchdogSeesDelay
  <2>4. CASE TimePasses
    <3>1. /\ clock' = clock + 1 /\ scenario' = scenario /\ loop' = loop /\ stamp' = stamp
          /\ watchdog' = watchdog /\ watchdog_initialized' = watchdog_initialized
          /\ output' = output /\ timer' = timer /\ program' = program
          /\ Running => clock < timer.to
      BY <2>4 DEF TimePasses, appVars, loopVars, LoopAllowsTick
    <3>2. clock \in Nat /\ timer.to \in Nat /\ stamp \in Nat
      BY DEF LoopInv
    <3>3. /\ clock + 1 \in Nat /\ (clock < timer.to => clock + 1 <= timer.to)
          /\ (stamp <= clock => stamp <= clock + 1)
      BY <3>2
    <3> QED
      BY <3>1, <3>3 DEF LoopInv, Running, WatchdogSeesDelay, Follows, DelayBefore
  <2> QED
    BY <2>1, <2>2, <2>3, <2>4 DEF RunnerNext
<1> QED
  BY <1>1, <1>2, PTL DEF RunnerSpec

(* Whatever the runner, the clock and other senders do, the watchdog expires in the     *)
(* loop that is held up, and in no other.                                              *)
THEOREM WatchdogSeesHeldUpLoop == RunnerSpec => []WatchdogSeesDelay
BY LoopInvInductive, PTL DEF LoopInv

-----------------------------------------------------------------------------
(* The scenario runner: commands and acknowledgements. *)

(* The commands in the socket: numbered in the order in which they wait, from the    *)
(* acknowledged one, a, up to the last one sent; next is the number of the next one.  *)
SocketOrdered(s, a, next) ==
  /\ IsSequence(s)
  /\ \A i \in 1 .. Len(s) : s[i] # Malformed => s[i].sequence_number \in a .. next - 1
  /\ \A i \in 1 .. Len(s), j \in 1 .. Len(s) :
       i < j /\ s[i] # Malformed /\ s[j] # Malformed
         => s[i].sequence_number <= s[j].sequence_number

(* Telemetry that is under way or collected is no newer than the acknowledgement.     *)
NotNewer(t, a) == IsSequence(t) /\ \A i \in 1 .. Len(t) : t[i].ack_seq \in 0 .. a

(* The steps are behind the runner as far as their commands are numbered.             *)
StepsCounted ==
  /\ runner = "sending" =>
       /\ step \in 1 .. Len(Steps)
       /\ sequence = Cardinality(CommandsUpTo(scenario, step - 1)) + 1
  /\ runner \in {"waiting", "scanned"} =>
       /\ step \in 1 .. Len(Steps)
       /\ sequence = Cardinality(CommandsUpTo(scenario, step)) + 1

AckInv ==
  /\ scenario \in Scenarios
  /\ sequence \in Nat \ {0}
  /\ ack.sequence_number \in 0 .. sequence - 1
  /\ SocketOrdered(socket, ack.sequence_number, sequence)
  /\ NotNewer(downlink, ack.sequence_number)
  /\ NotNewer(packets, ack.sequence_number)
  /\ StepsCounted
  /\ checked \in Nat

(* A command taken from the socket is no older than the acknowledged one.              *)
LEMMA SocketTaken ==
  ASSUME NEW s, NEW a \in Nat, NEW next \in Nat \ {0}, a \in 0 .. next - 1,
         SocketOrdered(s, a, next), s # <<>>,
         NEW b, b = IF Head(s) = Malformed THEN a ELSE Head(s).sequence_number
  PROVE  b \in a .. next - 1 /\ SocketOrdered(Tail(s), b, next)
<1> DEFINE n == Len(s)
           t == Tail(s)
<1>1. /\ IsSequence(t) /\ n \in Nat \ {0} /\ Len(t) = n - 1 /\ Head(s) = s[1]
      /\ \A k \in 1 .. n - 1 : t[k] = s[k + 1]
  BY SequenceShortened DEF SocketOrdered
<1>2. /\ \A i \in 1 .. n : s[i] # Malformed => s[i].sequence_number \in a .. next - 1
      /\ \A i \in 1 .. n, j \in 1 .. n :
           i < j /\ s[i] # Malformed /\ s[j] # Malformed
             => s[i].sequence_number <= s[j].sequence_number
  BY DEF SocketOrdered
<1> HIDE DEF n, t
<1>3. b \in a .. next - 1
  <2>1. 1 \in 1 .. n
    BY <1>1
  <2> QED
    BY <1>1, <1>2, <2>1
<1>4. ASSUME NEW k \in 1 .. n - 1, t[k] # Malformed
      PROVE  t[k].sequence_number \in b .. next - 1
  <2>1. /\ k + 1 \in 1 .. n /\ 1 \in 1 .. n /\ 1 < k + 1 /\ t[k] = s[k + 1]
    BY <1>1
  <2>2. s[k + 1].sequence_number \in a .. next - 1
    BY <1>2, <1>4, <2>1
  <2>3. s[1] # Malformed => s[1].sequence_number <= s[k + 1].sequence_number
    BY <1>2, <1>4, <2>1
  <2>4. b <= s[k + 1].sequence_number
    BY <1>1, <2>2, <2>3
  <2> QED
    BY <1>3, <2>1, <2>2, <2>4
<1>5. ASSUME NEW i \in 1 .. n - 1, NEW j \in 1 .. n - 1, i < j, t[i] # Malformed, t[j] # Malformed
      PROVE  t[i].sequence_number <= t[j].sequence_number
  <2>1. /\ i + 1 \in 1 .. n /\ j + 1 \in 1 .. n /\ i + 1 < j + 1
        /\ t[i] = s[i + 1] /\ t[j] = s[j + 1]
    BY <1>1, <1>5
  <2> QED
    BY <1>2, <1>5, <2>1
<1>6. SocketOrdered(t, b, next)
  BY <1>1, <1>4, <1>5 DEF SocketOrdered
<1> QED
  BY <1>3, <1>6 DEF t

(* A datagram that arrives is at the end: a stray one, or the newest command.           *)
LEMMA SocketFilled ==
  ASSUME NEW s, NEW a \in Nat, NEW next \in Nat \ {0}, SocketOrdered(s, a, next),
         a \in 0 .. next - 1, NEW later \in {next, next + 1}, NEW d,
         d # Malformed => later = next + 1 /\ d.sequence_number = next
  PROVE  SocketOrdered(s, a, later) /\ SocketOrdered(Append(s, d), a, later)
<1> DEFINE n == Len(s)
           t == Append(s, d)
<1>1. /\ IsSequence(s) /\ IsSequence(t) /\ n \in Nat /\ Len(t) = n + 1 /\ t[n + 1] = d
      /\ \A k \in 1 .. n : t[k] = s[k]
  BY SequenceAppended DEF SocketOrdered
<1>2. /\ \A i \in 1 .. n : s[i] # Malformed => s[i].sequence_number \in a .. next - 1
      /\ \A i \in 1 .. n, j \in 1 .. n :
           i < j /\ s[i] # Malformed /\ s[j] # Malformed
             => s[i].sequence_number <= s[j].sequence_number
  BY DEF SocketOrdered
<1>3. \A x \in a .. next - 1 : x \in a .. later - 1 /\ x <= next
  OBVIOUS
<1>4. SocketOrdered(s, a, later)
  <2>1. \A i \in 1 .. n : s[i] # Malformed => s[i].sequence_number \in a .. later - 1
    BY <1>2, <1>3
  <2> QED
    BY <1>1, <1>2, <2>1 DEF SocketOrdered
<1> HIDE DEF n, t
<1>5. \A k \in 1 .. n + 1 : k \in 1 .. n \/ k = n + 1
  BY <1>1
<1>6. ASSUME NEW k \in 1 .. n + 1, t[k] # Malformed
      PROVE  t[k].sequence_number \in a .. later - 1
  <2>1. CASE k \in 1 .. n
    BY <1>1, <1>2, <1>3, <1>6, <2>1
  <2>2. CASE k = n + 1
    BY <1>1, <1>6, <2>2
  <2> QED
    BY <1>5, <2>1, <2>2
<1>7. ASSUME NEW i \in 1 .. n + 1, NEW j \in 1 .. n + 1, i < j, t[i] # Malformed, t[j] # Malformed
      PROVE  t[i].sequence_number <= t[j].sequence_number
  <2>1. i \in 1 .. n
    BY <1>1, <1>7
  <2>2. CASE j \in 1 .. n
    BY <1>1, <1>2, <1>7, <2>1, <2>2
  <2>3. CASE j = n + 1
    <3>1. t[i].sequence_number <= next
      BY <1>1, <1>2, <1>3, <1>7, <2>1
    <3>2. t[j].sequence_number = next
      BY <1>1, <1>7, <2>3
    <3> QED
      BY <3>1, <3>2
  <2> QED
    BY <1>5, <2>2, <2>3
<1>8. SocketOrdered(t, a, later)
  BY <1>1, <1>6, <1>7 DEF SocketOrdered
<1> QED
  BY <1>4, <1>8 DEF t

(* Telemetry stays no newer when the acknowledgement moves on, when a packet with the    *)
(* current acknowledgement joins it and when the oldest packet leaves.                  *)
LEMMA TelemetryNotNewer ==
  ASSUME NEW t, NEW a \in Nat, NotNewer(t, a)
  PROVE  /\ \A b \in Nat : a <= b => NotNewer(t, b)
         /\ \A p : p.ack_seq \in 0 .. a => NotNewer(Append(t, p), a)
         /\ t # <<>> => Head(t).ack_seq \in 0 .. a /\ NotNewer(Tail(t), a)
<1> DEFINE n == Len(t)
<1>1. IsSequence(t) /\ \A i \in 1 .. n : t[i].ack_seq \in 0 .. a
  BY DEF NotNewer
<1>2. ASSUME NEW b \in Nat, a <= b PROVE NotNewer(t, b)
  <2>1. \A x \in 0 .. a : x \in 0 .. b
    BY <1>2
  <2> QED
    BY <1>1, <2>1 DEF NotNewer
<1>3. ASSUME NEW p, p.ack_seq \in 0 .. a PROVE NotNewer(Append(t, p), a)
  <2> DEFINE u == Append(t, p)
  <2>1. /\ IsSequence(u) /\ n \in Nat /\ Len(u) = n + 1 /\ u[n + 1] = p
        /\ \A k \in 1 .. n : u[k] = t[k]
    BY <1>1, SequenceAppended
  <2> HIDE DEF n, u
  <2>2. \A k \in 1 .. n + 1 : k \in 1 .. n \/ k = n + 1
    BY <2>1
  <2>3. \A k \in 1 .. n + 1 : u[k].ack_seq \in 0 .. a
    BY <1>1, <1>3, <2>1, <2>2
  <2>4. NotNewer(u, a)
    BY <2>1, <2>3 DEF NotNewer
  <2> QED
    BY <2>4 DEF u
<1>4. ASSUME t # <<>> PROVE Head(t).ack_seq \in 0 .. a /\ NotNewer(Tail(t), a)
  <2> DEFINE u == Tail(t)
  <2>1. /\ IsSequence(u) /\ n \in Nat \ {0} /\ Len(u) = n - 1 /\ Head(t) = t[1]
        /\ \A k \in 1 .. n - 1 : u[k] = t[k + 1]
    BY <1>1, <1>4, SequenceShortened
  <2> HIDE DEF n, u
  <2>2. 1 \in 1 .. n /\ \A k \in 1 .. n - 1 : k + 1 \in 1 .. n
    BY <2>1
  <2>3. \A k \in 1 .. n - 1 : u[k].ack_seq \in 0 .. a
    BY <1>1, <2>1, <2>2
  <2>4. NotNewer(u, a) /\ Head(t).ack_seq \in 0 .. a
    BY <1>1, <2>1, <2>2, <2>3 DEF NotNewer
  <2> QED
    BY <2>4 DEF u
<1> QED
  BY <1>2, <1>3, <1>4

(* One command more, or none, with every step.                                           *)
LEMMA CommandsCounted ==
  ASSUME NEW s, NEW n \in Nat \ {0}
  PROVE  /\ Cardinality(CommandsUpTo(s, n)) \in Nat
         /\ Cardinality(CommandsUpTo(s, n - 1)) \in Nat
         /\ Cardinality(CommandsUpTo(s, 0)) = 0
         /\ Cardinality(CommandsUpTo(s, n)) = Cardinality(CommandsUpTo(s, n - 1))
              + IF s.steps[n].command # NoCommand THEN 1 ELSE 0
<1> DEFINE before == CommandsUpTo(s, n - 1)
<1>1. IsFiniteSet(before) /\ Cardinality(before) \in Nat
  <2>1. IsFiniteSet(1 .. n - 1)
    BY FS_Interval
  <2>2. before \subseteq 1 .. n - 1
    BY DEF CommandsUpTo
  <2>3. IsFiniteSet(before)
    BY <2>1, <2>2, FS_Subset
  <2> QED
    BY <2>3, FS_CardinalityType
<1>2. Cardinality(CommandsUpTo(s, 0)) = 0
  <2>1. CommandsUpTo(s, 0) = {}
    BY DEF CommandsUpTo
  <2> QED
    BY <2>1, FS_EmptySet
<1>3. n \notin before
  BY DEF CommandsUpTo
<1>4. \A i : i \in 1 .. n <=> i \in 1 .. n - 1 \/ i = n
  OBVIOUS
<1>5. CASE s.steps[n].command # NoCommand
  <2>1. CommandsUpTo(s, n) = before \cup {n}
    BY <1>4, <1>5 DEF CommandsUpTo
  <2>2. Cardinality(before \cup {n}) = Cardinality(before) + 1
    BY <1>1, <1>3, FS_AddElement
  <2> QED
    BY <1>1, <1>2, <1>5, <2>1, <2>2
<1>6. CASE s.steps[n].command = NoCommand
  <2>1. CommandsUpTo(s, n) = before
    BY <1>4, <1>6 DEF CommandsUpTo
  <2> QED
    BY <1>1, <1>2, <1>6, <2>1
<1> QED
  BY <1>5, <1>6

(* The acknowledgement after a step of the application.                                    *)
LEMMA AckOfStep ==
  ASSUME NEW now, NEW health, NEW command
  PROVE  /\ Step(now, health) => ack' = ack
         /\ StepWithCommand(now, health, command)
              => ack'.sequence_number = command.sequence_number
<1>1. ASSUME NEW commanded, NEW p, NEW g, NEW a, Finish(now, health, commanded, p, g, a)
      PROVE  ack' = a
  BY <1>1, Zenon DEF Finish
<1>2. Step(now, health) => ack' = ack
  BY <1>1, Zenon DEF Step
<1>3. ASSUME StepWithCommand(now, health, command)
      PROVE  ack'.sequence_number = command.sequence_number
  <2>1. PICK o : Finish(now, health, TRUE, o.state,
                    GuardAfter(guard, command.sequence_number, command.timestamp_ms, now),
                    [sequence_number |-> command.sequence_number,
                     command_id |-> command.command_id, status |-> o.status])
    BY <1>3, Zenon DEF StepWithCommand
  <2>2. ack' = [sequence_number |-> command.sequence_number,
                command_id |-> command.command_id, status |-> o.status]
    BY <1>1, <2>1
  <2> QED
    BY <2>2
<1> QED
  BY <1>2, <1>3

(* The invariant of the acknowledgement lives on these variables.                           *)
AckVars == <<scenario, sequence, ack, socket, downlink, packets, runner, step, checked>>

(* A step that leaves those variables as they are keeps the invariant.                      *)
LEMMA AckInvUnchanged ==
  ASSUME AckInv, UNCHANGED AckVars
  PROVE  AckInv'
BY DEF AckInv, AckVars, StepsCounted, Steps

(* A step of the application, with the oldest datagram or without: the acknowledgement       *)
(* moves to that command, and the telemetry of the loop carries it.                         *)
LEMMA AckMoves ==
  ASSUME AckInv, EndLoop, UNCHANGED runnerVars, ack'.sequence_number \in Nat,
         ack.sequence_number <= ack'.sequence_number, ack'.sequence_number \in 0 .. sequence - 1,
         SocketOrdered(socket', ack'.sequence_number, sequence)
  PROVE  AckInv'
<1> DEFINE a == ack.sequence_number
           b == ack'.sequence_number
<1>1. /\ scenario' = scenario /\ sequence' = sequence /\ packets' = packets
      /\ runner' = runner /\ step' = step /\ checked' = checked
  BY DEF EndLoop, runnerVars
<1>2. /\ a \in Nat /\ b \in Nat /\ a <= b
      /\ NotNewer(downlink, a) /\ NotNewer(packets, a)
  BY DEF AckInv
<1> HIDE DEF a, b
<1>3. NotNewer(packets, b) /\ NotNewer(downlink, b)
  BY <1>2, TelemetryNotNewer
<1>4. NotNewer(downlink', b)
  <2>1. CASE downlink' = Append(downlink, TelemetryPacket')
    <3> DEFINE p == TelemetryPacket'
    <3>1. p.ack_seq = b
      BY DEF TelemetryPacket, b
    <3>2. p.ack_seq \in 0 .. b
      BY <1>2, <3>1
    <3> HIDE DEF p
    <3>3. NotNewer(Append(downlink, p), b)
      BY <1>2, <1>3, <3>2, TelemetryNotNewer
    <3> QED
      BY <2>1, <3>3 DEF p
  <2>2. CASE downlink' = downlink
    BY <1>3, <2>2
  <2> QED
    BY <2>1, <2>2 DEF EndLoop
<1>5. StepsCounted'
  BY <1>1 DEF AckInv, StepsCounted, Steps
<1> QED
  BY <1>1, <1>3, <1>4, <1>5 DEF AckInv, b

(* Every step of the flight program keeps the invariant of the acknowledgement: only the end *)
(* of a loop, which takes a datagram from the socket or finds none, moves it.                *)
LEMMA AckInvLoop ==
  ASSUME AckInv, LoopNext, UNCHANGED runnerVars
  PROVE  AckInv'
<1> DEFINE a == ack.sequence_number
<1>1. /\ a \in 0 .. sequence - 1 /\ sequence \in Nat \ {0} /\ a \in Nat
      /\ SocketOrdered(socket, a, sequence)
  BY DEF AckInv
<1>2. CASE StartUp \/ BeginLoop \/ Exit
  <2>1. UNCHANGED AckVars
    BY <1>2 DEF StartUp, BeginLoop, Exit, appVars, runnerVars, AckVars
  <2> QED
    BY <2>1, AckInvUnchanged
<1>3. CASE ReceivePacket
  <2> DEFINE b == IF Head(socket) = Malformed THEN a ELSE Head(socket).sequence_number
  <2>1. /\ socket # <<>> /\ socket' = Tail(socket) /\ EndLoop
        /\ IF Head(socket) = Malformed THEN Step(stamp, LoopInput)
           ELSE StepWithCommand(stamp, LoopInput, Head(socket))
    BY <1>3 DEF ReceivePacket
  <2>2. ack'.sequence_number = b
    BY <2>1, AckOfStep
  <2> HIDE DEF a
  <2>3. b \in a .. sequence - 1 /\ SocketOrdered(Tail(socket), b, sequence)
    BY <1>1, <2>1, SocketTaken
  <2> HIDE DEF b
  <2>4. b \in Nat /\ b \in 0 .. sequence - 1 /\ a <= b
    BY <1>1, <2>3
  <2> QED
    BY <2>1, <2>2, <2>3, <2>4, AckMoves DEF a
<1>4. CASE ReceiveNothing
  <2>1. Step(stamp, LoopInput) /\ EndLoop /\ socket' = socket
    BY <1>4 DEF ReceiveNothing
  <2>2. ack' = ack
    BY <2>1, AckOfStep
  <2>3. a <= a
    BY <1>1
  <2> QED
    BY <1>1, <2>1, <2>2, <2>3, AckMoves
<1> QED
  BY <1>2, <1>3, <1>4 DEF LoopNext

(* The command of a step gets the next number.                                               *)
LEMMA AckInvSend ==
  ASSUME AckInv, SendStep
  PROVE  AckInv'
<1> DEFINE a == ack.sequence_number
           commanded == Steps[step].command # NoCommand
           p == Packet(Steps[step].command, Steps[step].offset)
<1>1. /\ runner = "sending" /\ runner' = "waiting" /\ scenario' = scenario /\ ack' = ack
      /\ downlink' = downlink /\ packets' = packets /\ step' = step /\ checked' = 0
      /\ commanded => Deliver(p) /\ sequence' = sequence + 1
      /\ ~commanded => socket' = socket /\ sequence' = sequence
  BY DEF SendStep, appVars
<1>2. /\ a \in 0 .. sequence - 1 /\ sequence \in Nat \ {0} /\ a \in Nat
      /\ SocketOrdered(socket, a, sequence)
      /\ step \in 1 .. Len(Steps) /\ sequence = Cardinality(CommandsUpTo(scenario, step - 1)) + 1
      /\ Len(Steps) \in Nat
  BY <1>1, ScenarioAssumption DEF AckInv, StepsCounted, Steps
<1>3. sequence' = Cardinality(CommandsUpTo(scenario, step)) + 1
  <2>1. step \in Nat \ {0}
    BY <1>2
  <2>2. /\ Cardinality(CommandsUpTo(scenario, step)) \in Nat
        /\ Cardinality(CommandsUpTo(scenario, step - 1)) \in Nat
        /\ Cardinality(CommandsUpTo(scenario, step)) = Cardinality(CommandsUpTo(scenario, step - 1))
              + IF commanded THEN 1 ELSE 0
    BY <2>1, CommandsCounted DEF Steps
  <2> HIDE DEF commanded
  <2>3. CASE commanded
    BY <1>1, <1>2, <2>2, <2>3
  <2>4. CASE ~commanded
    BY <1>1, <1>2, <2>2, <2>4
  <2> QED
    BY <2>3, <2>4
<1>4. StepsCounted'
  BY <1>1, <1>2, <1>3 DEF StepsCounted, Steps
<1>5. /\ sequence' \in Nat \ {0} /\ a \in 0 .. sequence' - 1
      /\ SocketOrdered(socket', a, sequence')
  <2>1. CASE commanded
    <3>1. p.sequence_number = sequence
      BY DEF Packet
    <3> HIDE DEF p, a
    <3> DEFINE later == sequence + 1
    <3>4. later \in {sequence, sequence + 1} /\ later = sequence + 1
      OBVIOUS
    <3> HIDE DEF later
    <3>2. SocketOrdered(socket, a, later) /\ SocketOrdered(Append(socket, p), a, later)
      BY <1>2, <3>1, <3>4, SocketFilled
    <3>3. socket' \in {socket, Append(socket, p)} /\ sequence' = sequence + 1
      BY <1>1, <2>1 DEF Deliver
    <3>5. later \in Nat \ {0} /\ a \in 0 .. later - 1
      BY <1>2, <3>4
    <3> QED
      BY <3>2, <3>3, <3>4, <3>5
  <2>2. CASE ~commanded
    BY <1>1, <1>2, <2>2
  <2> QED
    BY <2>1, <2>2
<1> QED
  BY <1>1, <1>4, <1>5 DEF AckInv

(* Commands are acknowledged in the order in which they were sent, whatever is in between.    *)
LEMMA AckInvInductive == RunnerSpec => []AckInv
<1>1. RunnerInit => AckInv
  <2> SUFFICES ASSUME RunnerInit PROVE AckInv
    OBVIOUS
  <2>1. /\ scenario \in Scenarios /\ sequence = 1 /\ ack.sequence_number = 0 /\ step = 1
        /\ socket = <<>> /\ downlink = <<>> /\ packets = <<>> /\ runner = "sending"
        /\ checked = 0
    BY DEF RunnerInit, LoopInit, Init
  <2>2. IsSequence(<<>>) /\ Len(<<>>) = 0
    BY DEF IsSequence
  <2>3. SocketOrdered(socket, 0, 1) /\ NotNewer(downlink, 0) /\ NotNewer(packets, 0)
    BY <2>1, <2>2 DEF SocketOrdered, NotNewer
  <2>4. StepsCounted
    <3>1. Len(Steps) \in Nat \ {0}
      BY <2>1, ScenarioAssumption DEF Steps
    <3>2. Cardinality(CommandsUpTo(scenario, 0)) = 0
      <4>1. 1 \in Nat \ {0}
        OBVIOUS
      <4> QED
        BY <4>1, CommandsCounted
    <3>3. step - 1 = 0 /\ step \in 1 .. Len(Steps)
      BY <2>1, <3>1
    <3> QED
      BY <2>1, <3>2, <3>3 DEF StepsCounted
  <2> QED
    BY <2>1, <2>3, <2>4 DEF AckInv
<1>2. AckInv /\ [RunnerNext]_allVars => AckInv'
  <2> SUFFICES ASSUME AckInv, [RunnerNext]_allVars PROVE AckInv'
    OBVIOUS
  <2> DEFINE a == ack.sequence_number
  <2>1. /\ a \in 0 .. sequence - 1 /\ sequence \in Nat \ {0} /\ a \in Nat
        /\ SocketOrdered(socket, a, sequence) /\ NotNewer(downlink, a) /\ NotNewer(packets, a)
    BY DEF AckInv
  <2>2. CASE LoopNext /\ UNCHANGED runnerVars
    BY <2>2, AckInvLoop
  <2>3. CASE Listen
    <3>1. /\ downlink # <<>> /\ packets' = Append(packets, Head(downlink))
          /\ downlink' = Tail(downlink) /\ ack' = ack
          /\ scenario' = scenario /\ sequence' = sequence /\ socket' = socket
          /\ runner' = runner /\ step' = step /\ checked' = checked
      BY <2>3 DEF Listen, appVars
    <3>2. NotNewer(downlink', a) /\ NotNewer(packets', a)
      <4> HIDE DEF a
      <4>1. Head(downlink).ack_seq \in 0 .. a /\ NotNewer(Tail(downlink), a)
        BY <2>1, <3>1, TelemetryNotNewer
      <4> DEFINE h == Head(downlink)
      <4> HIDE DEF h
      <4>2. NotNewer(Append(packets, h), a)
        BY <2>1, <4>1, TelemetryNotNewer DEF h
      <4> QED
        BY <3>1, <4>1, <4>2 DEF h
    <3>3. StepsCounted'
      BY <3>1 DEF AckInv, StepsCounted, Steps
    <3> QED
      BY <2>1, <3>1, <3>2, <3>3 DEF AckInv
  <2>4. CASE SendStep
    BY <2>4, AckInvSend
  <2>5. CASE Scan
    <3>1. /\ runner = "waiting" /\ UNCHANGED <<scenario, sequence, ack, socket, downlink, packets, checked>>
          /\ \/ /\ step' = step + 1
                /\ runner' = IF step < Len(Steps) THEN "sending" ELSE "finishing"
             \/ step' = step /\ runner' = "scanned"
      BY <2>5 DEF Scan, GoOn, appVars, loopVars
    <3>2. /\ step \in 1 .. Len(Steps) /\ Len(Steps) \in Nat
          /\ sequence = Cardinality(CommandsUpTo(scenario, step)) + 1
      BY <3>1, ScenarioAssumption DEF AckInv, StepsCounted, Steps
    <3>3. /\ (step + 1) - 1 = step
          /\ step < Len(Steps) => step + 1 \in 1 .. Len(Steps)
      BY <3>2
    <3>4. Steps' = Steps
      BY <3>1 DEF Steps
    <3>5. StepsCounted'
      BY <3>1, <3>2, <3>3, <3>4 DEF StepsCounted
    <3> QED
      BY <3>1, <3>5 DEF AckInv
  <2>6. CASE LeaveBehind
    <3>1. /\ runner = "scanned" /\ runner' = "waiting"
          /\ UNCHANGED <<scenario, sequence, ack, socket, downlink, packets, step>>
          /\ checked' = Len(packets)
      BY <2>6 DEF LeaveBehind, appVars, loopVars
    <3>3. Len(packets) \in Nat
      <4>1. IsSequence(packets)
        BY <2>1 DEF NotNewer
      <4> QED
        BY <4>1, SequenceAppended
    <3>2. StepsCounted'
      BY <3>1 DEF AckInv, StepsCounted, Steps
    <3> QED
      BY <3>1, <3>2, <3>3 DEF AckInv
  <2>7. CASE Expire \/ EndScenario
    <3>1. /\ runner' \in {"finishing", "done"}
          /\ UNCHANGED <<scenario, sequence, ack, socket, downlink, packets, step, checked>>
      BY <2>7 DEF Expire, GoOn, EndScenario, appVars, loopVars
    <3>2. StepsCounted'
      BY <3>1 DEF StepsCounted
    <3> QED
      BY <3>1, <3>2 DEF AckInv
  <2>8. CASE Stray
    <3>1. /\ socket' \in {socket, Append(socket, Malformed)}
          /\ UNCHANGED <<scenario, sequence, ack, downlink, packets, runner, step, checked>>
      BY <2>8 DEF Stray, Deliver, appVars
    <3>2. SocketOrdered(socket', a, sequence)
      <4> HIDE DEF a
      <4>1. SocketOrdered(Append(socket, Malformed), a, sequence)
        BY <2>1, SocketFilled
      <4> QED
        BY <2>1, <3>1, <4>1
    <3>3. StepsCounted'
      BY <3>1 DEF AckInv, StepsCounted, Steps
    <3> QED
      BY <3>1, <3>2, <3>3 DEF AckInv
  <2>9. CASE TimePasses \/ UNCHANGED allVars
    <3>1. UNCHANGED AckVars
      BY <2>9 DEF TimePasses, allVars, appVars, loopVars, runnerVars, AckVars
    <3> QED
      BY <3>1, AckInvUnchanged
  <2> QED
    BY <2>2, <2>3, <2>4, <2>5, <2>6, <2>7, <2>8, <2>9 DEF RunnerNext
<1> QED
  BY <1>1, <1>2, PTL DEF RunnerSpec

(* A packet that meets the expectation of a step with a command is the answer to that         *)
(* command: the runner numbers its commands as the scenario expects them, and no telemetry    *)
(* runs ahead of the acknowledgement it reports.                                              *)
THEOREM StepPassesAfterItsCommand == RunnerSpec => PassedAfterCommand
<1>1. AckInv /\ [RunnerNext]_allVars
        => [step' # step /\ Steps[step].command # NoCommand => ack.sequence_number = sequence - 1]_allVars
  <2> SUFFICES ASSUME AckInv, RunnerNext, step' # step, Steps[step].command # NoCommand
               PROVE  ack.sequence_number = sequence - 1
    BY DEF allVars, runnerVars
  <2>1. Scan
    BY DEF RunnerNext, LoopNext, Listen, SendStep, LeaveBehind, Expire, EndScenario, Stray,
           TimePasses, runnerVars
  <2>2. runner = "waiting" /\ Seen # {}
    BY <2>1 DEF Scan
  <2>3. PICK k \in checked + 1 .. Len(packets) : PacketMatches(packets[k], Steps[step].expect)
    BY <2>2 DEF Seen
  <2>4. /\ step \in 1 .. Len(Steps) /\ DOMAIN Steps = 1 .. Len(Steps)
        /\ sequence = Cardinality(CommandsUpTo(scenario, step)) + 1
        /\ sequence \in Nat \ {0} /\ ack.sequence_number \in 0 .. sequence - 1
        /\ NotNewer(packets, ack.sequence_number)
    BY <2>2, ScenarioAssumption DEF AckInv, StepsCounted, Steps
  <2>5. /\ "ack_seq" \in DOMAIN Steps[step].expect
        /\ Steps[step].expect["ack_seq"] = Cardinality(CommandsUpTo(scenario, step))
    BY <2>4, ScenarioAssumption DEF AckInv, Steps
  <2>6. packets[k].ack_seq = Steps[step].expect["ack_seq"]
    BY <2>3, <2>5 DEF PacketMatches
  <2>7. k \in 1 .. Len(packets)
    <3>1. IsSequence(packets)
      BY <2>4 DEF NotNewer
    <3>2. Len(packets) \in Nat
      BY <3>1, SequenceAppended
    <3> QED
      BY <2>3, <3>2 DEF AckInv
  <2>8. packets[k].ack_seq \in 0 .. ack.sequence_number
    BY <2>4, <2>7 DEF NotNewer
  <2>9. packets[k].ack_seq = sequence - 1
    <3>1. Cardinality(CommandsUpTo(scenario, step)) \in Nat
      BY <2>4, CommandsCounted
    <3> QED
      BY <2>4, <2>5, <2>6, <3>1
  <2> QED
    BY <2>4, <2>8, <2>9
<1> QED
  BY <1>1, AckInvInductive, PTL DEF RunnerSpec, PassedAfterCommand

-----------------------------------------------------------------------------
(* The flight program under the runner is one more caller of the application. *)

(* What waits in the socket is malformed or has a command of the enumeration.                 *)
SocketKnown ==
  \A i \in 1 .. Len(socket) : socket[i] # Malformed => socket[i].command_id \in CommandId

(* A datagram taken from the socket or added to it leaves known ones.                         *)
LEMMA SocketStaysKnown ==
  ASSUME SocketKnown, IsSequence(socket), NEW d,
         d # Malformed => d.command_id \in CommandId,
         socket' \in {socket, Append(socket, d)} \/ (socket # <<>> /\ socket' = Tail(socket))
  PROVE  SocketKnown'
<1> DEFINE n == Len(socket)
<1>1. CASE socket' = socket
  BY <1>1 DEF SocketKnown
<1>2. CASE socket' = Append(socket, d)
  <2>1. /\ n \in Nat /\ Len(Append(socket, d)) = n + 1 /\ Append(socket, d)[n + 1] = d
        /\ \A k \in 1 .. n : Append(socket, d)[k] = socket[k]
    BY SequenceAppended
  <2> DEFINE t == Append(socket, d)
  <2> HIDE DEF n, t
  <2>2. \A k \in 1 .. n + 1 : k \in 1 .. n \/ k = n + 1
    BY <2>1 DEF t
  <2>3. \A k \in 1 .. n : t[k] # Malformed => t[k].command_id \in CommandId
    BY <2>1 DEF SocketKnown, n, t
  <2>4. \A k \in 1 .. Len(t) : t[k] # Malformed => t[k].command_id \in CommandId
    BY <2>1, <2>2, <2>3 DEF t
  <2> QED
    BY <1>2, <2>4 DEF SocketKnown, t
<1>3. CASE socket # <<>> /\ socket' = Tail(socket)
  <2> DEFINE t == Tail(socket)
  <2>1. /\ n \in Nat \ {0} /\ Len(t) = n - 1
        /\ \A k \in 1 .. n - 1 : t[k] = socket[k + 1]
    BY <1>3, SequenceShortened
  <2>2. \A k \in 1 .. n : socket[k] # Malformed => socket[k].command_id \in CommandId
    BY DEF SocketKnown
  <2> HIDE DEF n, t
  <2>3. ASSUME NEW k \in 1 .. n - 1, t[k] # Malformed
        PROVE  t[k].command_id \in CommandId
    <3>1. k + 1 \in 1 .. n /\ t[k] = socket[k + 1]
      BY <2>1
    <3> QED
      BY <2>2, <2>3, <3>1
  <2>4. \A k \in 1 .. Len(t) : t[k] # Malformed => t[k].command_id \in CommandId
    BY <2>1, <2>3
  <2> QED
    BY <1>3, <2>4 DEF SocketKnown, t
<1> QED
  BY <1>1, <1>2, <1>3

(* Every step of the runner keeps the socket known.                                            *)
LEMMA RunnerKeepsSocket ==
  ASSUME AckInv, SocketKnown, [RunnerNext]_allVars
  PROVE  SocketKnown'
<1>1. IsSequence(socket) /\ scenario \in Scenarios
  BY DEF AckInv, SocketOrdered
<1>2. CASE UNCHANGED socket
  BY <1>2 DEF SocketKnown
<1>3. CASE ReceivePacket
  BY <1>1, <1>3, SocketStaysKnown DEF ReceivePacket
<1>4. CASE SendStep
  <2> DEFINE p == Packet(Steps[step].command, Steps[step].offset)
  <2>1. CASE Steps[step].command = NoCommand
    BY <1>2, <1>4, <2>1 DEF SendStep
  <2>2. CASE Steps[step].command # NoCommand
    <3>1. step \in DOMAIN Steps
      BY <1>1, <1>4, ScenarioAssumption DEF AckInv, StepsCounted, SendStep, Steps
    <3>2. Steps[step].command.command_id \in CommandId
      BY <1>1, <2>2, <3>1, RunnerAssumption DEF Steps
    <3>3. p.command_id \in CommandId
      BY <3>2 DEF Packet
    <3>4. socket' \in {socket, Append(socket, p)}
      BY <1>4, <2>2 DEF SendStep, Deliver
    <3> HIDE DEF p
    <3> QED
      BY <1>1, <3>3, <3>4, SocketStaysKnown
  <2> QED
    BY <2>1, <2>2
<1>5. CASE Stray
  <2>1. socket' \in {socket, Append(socket, Malformed)}
    BY <1>5 DEF Stray, Deliver
  <2> QED
    BY <1>1, <2>1, SocketStaysKnown
<1>6. CASE [StartUp \/ BeginLoop \/ ReceiveNothing \/ Exit \/ Listen \/ Scan \/ LeaveBehind
            \/ Expire \/ EndScenario \/ TimePasses]_allVars
  <2>1. UNCHANGED socket
    BY <1>6 DEF StartUp, BeginLoop, ReceiveNothing, Exit, Listen, Scan, LeaveBehind, Expire,
                EndScenario, TimePasses, allVars, loopVars
  <2> QED
    BY <1>2, <2>1
<1> QED
  BY <1>3, <1>4, <1>5, <1>6 DEF RunnerNext, LoopNext

(* A step of the runner or of the flight program calls the application once or not at all.    *)
LEMMA RunnerCallsApp ==
  ASSUME AckInv, SocketKnown, [RunnerNext]_allVars
  PROVE  AnyCall \/ UNCHANGED vars
<1>1. CASE ReceivePacket
  <2>1. CASE Head(socket) = Malformed
    BY <1>1, <2>1 DEF ReceivePacket, AnyCall
  <2>2. CASE Head(socket) # Malformed
    <3>1. /\ Len(socket) \in Nat \ {0} /\ Head(socket) = socket[1]
      BY <1>1, SequenceShortened DEF ReceivePacket, AckInv, SocketOrdered
    <3>2. Head(socket).command_id \in CommandId
      <4>1. 1 \in 1 .. Len(socket)
        BY <3>1
      <4> QED
        BY <2>2, <3>1, <4>1 DEF SocketKnown
    <3>3. StepWithCommand(stamp, LoopInput, Head(socket))
      BY <1>1, <2>2 DEF ReceivePacket
    <3> QED
      BY <3>2, <3>3, Zenon DEF AnyCall
  <2> QED
    BY <2>1, <2>2
<1>2. CASE ReceiveNothing
  <2>1. Step(stamp, LoopInput)
    BY <1>2 DEF ReceiveNothing
  <2> QED
    BY <2>1, Zenon DEF AnyCall
<1>3. CASE [StartUp \/ BeginLoop \/ Exit \/ Listen \/ SendStep \/ Scan \/ LeaveBehind
            \/ Expire \/ EndScenario \/ Stray \/ TimePasses]_allVars
  BY <1>3 DEF StartUp, BeginLoop, Exit, Listen, SendStep, Scan, LeaveBehind, Expire, EndScenario,
              Stray, TimePasses, allVars, appVars, vars
<1> QED
  BY <1>1, <1>2, <1>3 DEF RunnerNext, LoopNext

(* All that the safety of the application under the runner rests on.                           *)
FlightInv == AckInv /\ SocketKnown /\ Inv /\ LogInv

(* The invariant is inductive.                                                                 *)
LEMMA FlightInvInductive == RunnerSpec => []FlightInv
<1>1. RunnerInit => SocketKnown /\ Inv /\ LogInv
  <2> SUFFICES ASSUME RunnerInit PROVE SocketKnown /\ Inv /\ LogInv
    OBVIOUS
  <2>1. Init /\ socket = <<>>
    BY DEF RunnerInit, LoopInit
  <2>2. SocketKnown
    BY <2>1 DEF SocketKnown
  <2> QED
    BY <2>1, <2>2, InvBegins, StoryBegins
<1>2. AckInv /\ SocketKnown /\ Inv /\ LogInv /\ [RunnerNext]_allVars
        => SocketKnown' /\ Inv' /\ LogInv'
  BY RunnerKeepsSocket, RunnerCallsApp, CallKeepsInv, InvUnchanged, CallTellsStory
<1> QED
  BY <1>1, <1>2, AckInvInductive, PTL DEF RunnerSpec, FlightInv

(* In the flight program under any scenario, with any delays, losses and stray datagrams, the  *)
(* most urgent fault is acted on, SAFE is held, TEST stays locked, rejected commands are inert *)
(* and the log explains the telemetry.                                                         *)
THEOREM FlightProgramKeepsAppSafe ==
  RunnerSpec => /\ [](MostUrgentFaultActedOn /\ TestModeLocked /\ LogExplainsTelemetry)
                /\ SafeHeld
                /\ RejectedCommandInert
<1>1. FlightInv => MostUrgentFaultActedOn /\ TestModeLocked /\ LogExplainsTelemetry
  BY StoryExplains DEF FlightInv, Inv
<1>2. FlightInv /\ [RunnerNext]_allVars =>
        [proc.mode = "SAFE" /\ proc'.mode # "SAFE" =>
           /\ proc'.mode = "RECOVERY"
           /\ output'.command_processed
           /\ ack'.command_id = "SET_MODE" /\ ack'.status = "ACCEPTED"
           /\ ActiveFaults' = {}]_vars
  BY RunnerCallsApp, CallHoldsSafe DEF FlightInv
<1>3. FlightInv /\ [RunnerNext]_allVars =>
        [/\ output'.command_processed
         /\ ack'.status \notin {"ACCEPTED", "REJECTED_RECOVERY_LIMIT"}
         /\ output'.primary_internal_fault = "NONE"
         => proc'.mode = proc.mode /\ proc'.last_fault = proc.last_fault]_vars
  BY RunnerCallsApp, CallRejectedInert DEF FlightInv
<1> QED
  BY <1>1, <1>2, <1>3, FlightInvInductive, PTL DEF RunnerSpec, SafeHeld, RejectedCommandInert
=============================================================================
