------------------------ MODULE FlightSoftwareLemmas ------------------------
(***************************************************************************)
(* Lemmas about the operators that several proofs rest on: what the        *)
(* handlers of the command processor do to a sound state, for every        *)
(* recovery limit and every argument, and what EventLogger::log does to    *)
(* the snapshot of a ring, for every capacity and every kind of record.    *)
(***************************************************************************)
EXTENDS CommandProcessor, EventLogger, SequenceTheorems, TLAPS

(* No mode of the graph is without a way to SAFE, so neither the fall back of  *)
(* apply_fault nor the forced SAFE of record_failure can be refused.           *)
LEMMA SafeReachable ==
  ASSUME NEW m \in Mode
  PROVE  IsValidTransition(m, "SAFE")
BY DEF Mode, IsValidTransition, Successors

(* apply_fault, by the severity of the fault.                                  *)
LEMMA ApplyFaultResult ==
  ASSUME NEW m \in Mode, NEW f \in FaultCode
  PROVE  /\ SeverityOf(f) = "CRITICAL" => ApplyFault(m, f) = "SAFE"
         /\ SeverityOf(f) = "DEGRADED" => ApplyFault(m, f) \in {"DEGRADED_PAYLOAD", "SAFE"}
         /\ SeverityOf(f) \notin {"CRITICAL", "DEGRADED"} => ApplyFault(m, f) = m
         /\ m = "SAFE" => ApplyFault(m, f) = "SAFE"
         /\ ApplyFault(m, f) \in {m, "DEGRADED_PAYLOAD", "SAFE"}
         /\ m = "RECOVERY" => ApplyFault(m, f) \in {"RECOVERY", "SAFE"}
<1> USE DEF DispositionFor, Disp, SeverityOf, ApplyFault, ResponseMode
<1>1. CASE f \in {"NONE", "COMMAND_BAD_CRC", "COMMAND_UNKNOWN_ID"}
  BY <1>1 DEF IsValidTransition
<1>2. CASE f \in {"PAYLOAD_HEARTBEAT_TIMEOUT", "CPU_OVERLOAD"}
  BY <1>2, SafeReachable DEF TransitionTo, IsValidTransition, Successors
<1>3. CASE f \in {"SENSOR_TIMEOUT", "SENSOR_INVALID_DATA", "MEMORY_OVERLOAD",
                  "TELEMETRY_SOCKET_FAILURE", "COMMAND_TIMEOUT", "WATCHDOG_DEADLINE_MISS"}
  BY <1>3, SafeReachable
<1>4. QED
  BY <1>1, <1>2, <1>3 DEF FaultCode

(* command_argument_to_mode and command_argument_to_fault yield a mode or a    *)
(* fault of the enumeration when they succeed.                                 *)
LEMMA ArgumentConversion ==
  ASSUME NEW argument
  PROVE  /\ ArgumentIsMode(argument) => ArgumentToMode(argument) \in Mode
         /\ ArgumentIsFault(argument) => ArgumentToFault(argument) \in FaultCode
BY DEF ArgumentIsMode, ArgumentToMode, ArgumentIsFault, ArgumentToFault

(* The state of the processor that its invariant describes.                    *)
Sound(p) == p \in ProcessorState /\ SessionBudget(p)

(* A refused SET_MODE spends at most one attempt, and in RECOVERY only.        *)
LEMMA RefusedSound ==
  ASSUME NEW p, Sound(p)
  PROVE  /\ Sound(SetModeRefused(p).state)
         /\ SetModeRefused(p).status \in CommandStatus \ {"ACCEPTED"}
         /\ SetModeRefused(p).state.last_fault = p.last_fault
         /\ SetModeRefused(p).state.mode \in {p.mode, "SAFE"}
         /\ SetModeRefused(p).state.mode # p.mode <=> SetModeRefused(p).status = "REJECTED_RECOVERY_LIMIT"
         /\ SetModeRefused(p).state.failed_attempts # p.failed_attempts => p.mode = "RECOVERY"
<1> USE RecoveryAssumption
<1>1. CASE p.mode # "RECOVERY"
  BY <1>1 DEF SetModeRefused, Done, Sound, CommandStatus
<1>2. CASE p.mode = "RECOVERY" /\ ~SupervisorValid
  BY <1>2 DEF SetModeRefused, Done, RecordFailure, FailSafeForced, Sound, CommandStatus
<1>3. CASE p.mode = "RECOVERY" /\ SupervisorValid
  <2> DEFINE n == p.failed_attempts + 1
  <2>1. /\ p.mode \in Mode
        /\ p.last_fault \in FaultCode
        /\ p.failed_attempts \in 0 .. CounterModulus - 1
        /\ p = [mode |-> p.mode, last_fault |-> p.last_fault, failed_attempts |-> p.failed_attempts]
    BY DEF Sound, ProcessorState
  <2>2. n \in 1 .. MaximumFailedAttempts
    BY <1>3, <2>1 DEF Sound, SessionBudget
  <2>3. FailuresAfter(p) = n
    BY <2>1, <2>2 DEF FailuresAfter
  <2>4. FailSafeForced(p) <=> n = MaximumFailedAttempts
    BY <1>3, <2>1, <2>2, <2>3, SafeReachable DEF FailSafeForced
  <2>5. RecordFailure(p) = [mode |-> IF n = MaximumFailedAttempts THEN "SAFE" ELSE "RECOVERY",
                            last_fault |-> p.last_fault, failed_attempts |-> n]
    BY <1>3, <2>1, <2>3, <2>4 DEF RecordFailure
  <2>6. Sound(RecordFailure(p))
    BY <2>1, <2>2, <2>5 DEF Sound, ProcessorState, SessionBudget, Mode
  <2>7. QED
    BY <1>3, <2>4, <2>5, <2>6 DEF SetModeRefused, Done, CommandStatus
<1>4. QED
  BY <1>1, <1>2, <1>3

(* A granted SET_MODE leaves a sound state: a session with failed attempts is   *)
(* left either to SAFE or with its count cleared.                               *)
LEMMA GrantedSound ==
  ASSUME NEW p, Sound(p), NEW requested \in Mode, IsValidTransition(p.mode, requested)
  PROVE  /\ Sound(SetModeGranted(p, requested).state)
         /\ SetModeGranted(p, requested).status = "ACCEPTED"
         /\ SetModeGranted(p, requested).state.mode = requested
         /\ p.mode # "RECOVERY" /\ requested = "RECOVERY" =>
              SetModeGranted(p, requested).state.failed_attempts = 0
<1> USE RecoveryAssumption
<1>1. /\ p.mode \in Mode
      /\ p.last_fault \in FaultCode
      /\ p.failed_attempts \in 0 .. CounterModulus - 1
      /\ p = [mode |-> p.mode, last_fault |-> p.last_fault, failed_attempts |-> p.failed_attempts]
  BY DEF Sound, ProcessorState
<1> DEFINE Moved(n) == [mode |-> requested, last_fault |-> p.last_fault, failed_attempts |-> n]
<1>2. Sound(Moved(0))
  BY <1>1 DEF Sound, ProcessorState, SessionBudget, SupervisorValid
<1>3. CASE p.mode = "SAFE" /\ requested = "RECOVERY"
  BY <1>1, <1>2, <1>3 DEF SetModeGranted, Done, BeginSession
<1>4. CASE p.mode = "RECOVERY" /\ requested # "RECOVERY"
  <2>1. SupervisorValid \/ p.failed_attempts = 0
    BY <1>1 DEF SupervisorValid, Sound, SessionBudget
  <2>2. [p EXCEPT !.mode = requested] = Moved(p.failed_attempts)
    BY <1>1
  <2>3. RecordSuccess(Moved(p.failed_attempts)) = Moved(0)
    BY <2>1 DEF RecordSuccess
  <2>4. SetModeGranted(p, requested) = Done(Moved(0), "ACCEPTED")
    BY <1>4, <2>2, <2>3 DEF SetModeGranted
  <2>5. QED
    BY <1>2, <1>4, <2>4 DEF Done
<1>5. CASE ~(p.mode = "SAFE" /\ requested = "RECOVERY") /\ ~(p.mode = "RECOVERY" /\ requested # "RECOVERY")
  <2>1. SetModeGranted(p, requested) = Done(Moved(p.failed_attempts), "ACCEPTED")
    BY <1>1, <1>5 DEF SetModeGranted
  <2>2. requested = p.mode \/ p.failed_attempts = 0
    BY <1>1, <1>5 DEF Sound, SessionBudget, IsValidTransition, Successors
  <2>3. Sound(Moved(p.failed_attempts))
    BY <1>1, <1>2, <2>2
  <2>4. QED
    BY <1>5, <2>1, <2>2, <2>3 DEF Done
<1>6. QED
  BY <1>3, <1>4, <1>5

(* Every command, with every argument, keeps the state sound.                   *)
LEMMA ProcessSound ==
  ASSUME NEW p, Sound(p), NEW id \in CommandId, NEW argument
  PROVE  /\ Sound(Process(p, id, argument).state)
         /\ Process(p, id, argument).status \in CommandStatus
<1>0. /\ p.mode \in Mode
      /\ p.last_fault \in FaultCode
      /\ p.failed_attempts \in 0 .. CounterModulus - 1
      /\ p = [mode |-> p.mode, last_fault |-> p.last_fault, failed_attempts |-> p.failed_attempts]
  BY DEF Sound, ProcessorState
<1>1. CASE id \in {"NOOP", "REQUEST_TELEMETRY"}
  BY <1>1 DEF Process, Done, CommandStatus
<1>2. CASE id = "CLEAR_FAULT"
  BY <1>0, <1>2 DEF Process, ClearFaultCommand, Done, Sound, ProcessorState, SessionBudget,
                    FaultCode, CommandStatus
<1>3. CASE id = "SET_MODE"
  <2>1. SetModeCommand(p, argument).status \in CommandStatus /\ Sound(SetModeCommand(p, argument).state)
    BY RefusedSound, GrantedSound, ArgumentConversion DEF SetModeCommand, Done, CommandStatus
  <2>2. QED
    BY <1>3, <2>1 DEF Process
<1>4. CASE id = "INJECT_FAULT"
  <2>1. ASSUME ArgumentIsFault(argument)
        PROVE  Sound(Faulted(p, ArgumentToFault(argument)))
    <3> DEFINE f == ArgumentToFault(argument)
    <3>1. f \in FaultCode
      BY <2>1, ArgumentConversion
    <3> HIDE DEF f
    <3>2. Faulted(p, f) = [mode |-> ApplyFault(p.mode, f), last_fault |-> f,
                           failed_attempts |-> p.failed_attempts]
      BY DEF Faulted
    <3>3. /\ ApplyFault(p.mode, f) \in Mode
          /\ p.mode = "SAFE" => ApplyFault(p.mode, f) = "SAFE"
          /\ p.mode = "RECOVERY" => ApplyFault(p.mode, f) \in {"RECOVERY", "SAFE"}
      BY <1>0, <3>1, ApplyFaultResult DEF Mode
    <3>4. Sound(Faulted(p, f))
      BY <1>0, <3>1, <3>2, <3>3 DEF Sound, ProcessorState, SessionBudget
    <3>5. QED
      BY <3>4 DEF f
  <2>2. QED
    BY <1>4, <2>1 DEF Process, InjectFaultCommand, Done, CommandStatus
<1>5. QED
  BY <1>1, <1>2, <1>3, <1>4 DEF CommandId

(* What a SET_MODE can do: be granted, or be refused for its argument or for     *)
(* the graph.                                                                    *)
LEMMA SetModeEffect ==
  ASSUME NEW p, Sound(p), NEW argument,
         NEW s, s = SetModeCommand(p, argument)
  PROVE  /\ s.state.last_fault = p.last_fault
         /\ p.mode # "RECOVERY" /\ s.state.mode = "RECOVERY" => s.state.failed_attempts = 0
         /\ p.mode = "SAFE" /\ s.state.mode # "SAFE" => s.state.mode = "RECOVERY" /\ s.status = "ACCEPTED"
         /\ s.status # "ACCEPTED" =>
              /\ s.state.mode # p.mode <=> s.status = "REJECTED_RECOVERY_LIMIT"
              /\ s.state.failed_attempts # p.failed_attempts => p.mode = "RECOVERY"
<1>0. /\ p.mode \in Mode
      /\ p = [mode |-> p.mode, last_fault |-> p.last_fault, failed_attempts |-> p.failed_attempts]
  BY DEF Sound, ProcessorState
<1>1. CASE ~ArgumentIsMode(argument)
  BY <1>1 DEF SetModeCommand, Done
<1>2. CASE ArgumentIsMode(argument) /\ IsValidTransition(p.mode, ArgumentToMode(argument))
  <2> DEFINE m == ArgumentToMode(argument)
  <2>1. m \in Mode /\ s = SetModeGranted(p, m)
    BY <1>2, ArgumentConversion DEF SetModeCommand
  <2> HIDE DEF m
  <2>2. s.state.last_fault = p.last_fault
    BY <1>0, <2>1 DEF SetModeGranted, Done, BeginSession, RecordSuccess
  <2>3. /\ s.status = "ACCEPTED"
        /\ s.state.mode = m
        /\ p.mode # "RECOVERY" /\ m = "RECOVERY" => s.state.failed_attempts = 0
    BY <1>2, <2>1, GrantedSound DEF m
  <2>4. p.mode = "SAFE" => m \in {"SAFE", "RECOVERY"}
    BY <1>2 DEF m, IsValidTransition, Successors
  <2>5. QED
    BY <2>2, <2>3, <2>4
<1>3. CASE ArgumentIsMode(argument) /\ ~IsValidTransition(p.mode, ArgumentToMode(argument))
  <2>1. s = SetModeRefused(p)
    BY <1>3 DEF SetModeCommand
  <2>2. QED
    BY <2>1, RefusedSound DEF CommandStatus
<1>4. QED
  BY <1>1, <1>2, <1>3

(* What an INJECT_FAULT can do.                                                   *)
LEMMA InjectEffect ==
  ASSUME NEW p, Sound(p), NEW argument,
         NEW s, s = InjectFaultCommand(p, argument)
  PROVE  /\ s.status # "ACCEPTED" => s.state = p /\ s.status # "REJECTED_RECOVERY_LIMIT"
         /\ s.status = "ACCEPTED" =>
              /\ s.state.last_fault \in FaultCode
              /\ s.state.mode = ApplyFault(p.mode, s.state.last_fault)
         /\ s.state.failed_attempts = p.failed_attempts
         /\ p.mode = "SAFE" => s.state.mode = "SAFE"
         /\ p.mode # "RECOVERY" => s.state.mode # "RECOVERY"
<1>0. p.mode \in Mode
  BY DEF Sound, ProcessorState
<1>1. CASE ~ArgumentIsFault(argument)
  BY <1>1 DEF InjectFaultCommand, Done
<1>2. CASE ArgumentIsFault(argument)
  <2> DEFINE f == ArgumentToFault(argument)
  <2>1. f \in FaultCode
    BY <1>2, ArgumentConversion
  <2>2. s = [state |-> [mode |-> ApplyFault(p.mode, f), last_fault |-> f,
                        failed_attempts |-> p.failed_attempts],
             status |-> "ACCEPTED"]
    BY <1>2 DEF InjectFaultCommand, Done, Faulted
  <2> HIDE DEF f
  <2>3. QED
    BY <1>0, <2>1, <2>2, ApplyFaultResult
<1>3. QED
  BY <1>1, <1>2

-----------------------------------------------------------------------------
(* A sequence, of whatever its members are. *)
IsSequence(s) == s \in Seq({s[k] : k \in DOMAIN s})

(* A sequence of members of any set is one. *)
LEMMA SequenceOf ==
  ASSUME NEW R, NEW s \in Seq(R)
  PROVE  IsSequence(s)
<1>1. DOMAIN s = 1 .. Len(s) /\ Len(s) \in Nat /\ s = [k \in 1 .. Len(s) |-> s[k]]
  OBVIOUS
<1>2. s \in [1 .. Len(s) -> {s[k] : k \in DOMAIN s}]
  BY <1>1
<1> QED
  BY <1>1, <1>2 DEF IsSequence

(* Append keeps its members in place and adds one. *)
LEMMA SequenceAppended ==
  ASSUME NEW s, IsSequence(s), NEW e
  PROVE  /\ IsSequence(Append(s, e)) /\ Len(s) \in Nat /\ Len(Append(s, e)) = Len(s) + 1
         /\ Append(s, e)[Len(s) + 1] = e
         /\ \A k \in 1 .. Len(s) : Append(s, e)[k] = s[k]
<1> DEFINE R == {s[k] : k \in DOMAIN s} \cup {e}
<1>1. s \in Seq(R) /\ e \in R
  <2>1. \A Q : s \in Seq(Q) => s \in Seq(Q \cup {e})
    OBVIOUS
  <2> QED
    BY <2>1 DEF IsSequence
<1> HIDE DEF R
<1> QED
  <2>1. /\ Append(s, e) \in Seq(R) /\ Len(s) \in Nat /\ Len(Append(s, e)) = Len(s) + 1
        /\ Append(s, e)[Len(s) + 1] = e
        /\ \A k \in 1 .. Len(s) : Append(s, e)[k] = s[k]
    BY <1>1, AppendProperties
  <2>2. IsSequence(Append(s, e))
    BY <2>1, SequenceOf
  <2> QED
    BY <2>1, <2>2

(* Tail moves them down by one. *)
LEMMA SequenceShortened ==
  ASSUME NEW s, IsSequence(s), s # <<>>
  PROVE  /\ IsSequence(Tail(s)) /\ Len(s) \in Nat \ {0} /\ Len(Tail(s)) = Len(s) - 1
         /\ Head(s) = s[1]
         /\ \A k \in 1 .. Len(s) - 1 : Tail(s)[k] = s[k + 1]
<1> DEFINE R == {s[k] : k \in DOMAIN s}
<1>1. s \in Seq(R)
  BY DEF IsSequence
<1> HIDE DEF R
<1> QED
  <2>1. /\ Tail(s) \in Seq(R) /\ Len(s) \in Nat \ {0} /\ Len(Tail(s)) = Len(s) - 1
        /\ \A k \in 1 .. Len(s) - 1 : Tail(s)[k] = s[k + 1]
    BY <1>1, HeadTailProperties, EmptySeq
  <2>2. Head(s) = s[1]
    BY <1>1
  <2>3. IsSequence(Tail(s))
    BY <2>1, SequenceOf
  <2> QED
    BY <2>1, <2>2, <2>3

-----------------------------------------------------------------------------
(* Before the ring turns, its snapshot is the vector itself.                        *)
LEMMA SnapshotUnturned ==
  ASSUME NEW R, NEW l, l.records \in Seq(R), l.start_index = 0
  PROVE  Snapshot(l) = l.records
<1> DEFINE n == Len(l.records)
<1>1. \A k \in 1 .. n : ((l.start_index + k - 1) % n) + 1 = k
  <2> SUFFICES ASSUME NEW k \in 1 .. n PROVE ((l.start_index + k - 1) % n) + 1 = k
    OBVIOUS
  <2>1. n \in Nat \ {0} /\ k \in Int /\ l.start_index + k - 1 = k - 1 /\ k - 1 \in 0 .. n - 1
    OBVIOUS
  <2> HIDE DEF n
  <2>2. (k - 1) % n = k - 1
    BY <2>1
  <2> QED
    BY <2>1, <2>2
<1>2. Snapshot(l) = [k \in 1 .. n |-> l.records[k]]
  BY <1>1 DEF Snapshot
<1> QED
  BY <1>2

(* A snapshot has one record for each one in the ring.                               *)
LEMMA SnapshotIsSequence ==
  ASSUME NEW R, NEW l, l.records \in Seq(R), l.start_index \in Nat
  PROVE  Snapshot(l) \in Seq(R) /\ Len(Snapshot(l)) = Len(l.records)
<1> DEFINE n == Len(l.records)
<1>1. \A k \in 1 .. n : ((l.start_index + k - 1) % n) + 1 \in 1 .. n
  <2> SUFFICES ASSUME NEW k \in 1 .. n PROVE (l.start_index + k - 1) % n \in 0 .. n - 1
    OBVIOUS
  <2>1. n \in Nat \ {0} /\ l.start_index + k - 1 \in Int
    OBVIOUS
  <2> HIDE DEF n
  <2> QED
    BY <2>1
<1> QED
  BY <1>1 DEF Snapshot

(* While there is room, log() extends the snapshot.                                  *)
LEMMA SnapshotPushed ==
  ASSUME NEW R, NEW l, l.records \in Seq(R), l.start_index = 0, NEW e,
         NewRecord(l, e) \in R
  PROVE  /\ Snapshot(l) = l.records
         /\ Snapshot(Pushed(l, e)) = Append(l.records, NewRecord(l, e))
<1>1. /\ Pushed(l, e).records = Append(l.records, NewRecord(l, e))
      /\ Pushed(l, e).start_index = 0
  BY DEF Pushed
<1>2. Append(l.records, NewRecord(l, e)) \in Seq(R)
  BY AppendProperties
<1> QED
  BY <1>1, <1>2, SnapshotUnturned

(* In a full ring, log() drops the oldest record of the snapshot and adds the new     *)
(* one at its end.                                                                    *)
LEMMA SnapshotOverwritten ==
  ASSUME NEW R, NEW l, l.records \in Seq(R), Len(l.records) = Capacity, Capacity > 0,
         l.start_index \in 0 .. Capacity - 1, NEW e, NewRecord(l, e) \in R
  PROVE  Snapshot(Overwritten(l, e)) = Append(Tail(Snapshot(l)), NewRecord(l, e))
<1> DEFINE new == NewRecord(l, e)
           o == Overwritten(l, e)
           old == Snapshot(l)
           first == l.start_index
<1>1. Capacity \in Nat \ {0} /\ first \in 0 .. Capacity - 1
  BY LoggerAssumption
<1>2. o.records = [l.records EXCEPT ![first + 1] = new] /\ o.start_index = (first + 1) % Capacity
  BY DEF Overwritten
<1>3. o.records \in Seq(R) /\ Len(o.records) = Capacity
  BY <1>1, <1>2, ExceptSeq
<1>4. o.start_index = IF first + 1 < Capacity THEN first + 1 ELSE 0
  <2> HIDE DEF first
  <2>1. (first + 1) % Capacity = IF first + 1 < Capacity THEN first + 1 ELSE first + 1 - Capacity
    BY <1>1
  <2> QED
    BY <1>1, <1>2, <2>1
<1>5. old \in Seq(R) /\ Len(old) = Capacity /\ old # <<>>
  BY <1>1, SnapshotIsSequence
<1>6. Snapshot(o) \in Seq(R) /\ Len(Snapshot(o)) = Capacity
  <2>1. o.start_index \in Nat
    BY <1>1, <1>4
  <2> HIDE DEF o
  <2> QED
    BY <1>3, <2>1, SnapshotIsSequence
<1>7. /\ Append(Tail(old), new) \in Seq(R) /\ Len(Append(Tail(old), new)) = Capacity
      /\ \A k \in 1 .. Capacity - 1 : Append(Tail(old), new)[k] = old[k + 1]
      /\ Append(Tail(old), new)[Capacity] = new
  <2>1. /\ Tail(old) \in Seq(R) /\ Len(Tail(old)) = Capacity - 1
        /\ \A k \in 1 .. Capacity - 1 : Tail(old)[k] = old[k + 1]
    BY <1>5, HeadTailProperties
  <2> HIDE DEF old, new
  <2> QED
    BY <1>1, <2>1, AppendProperties DEF new
<1>8. \A k \in 1 .. Capacity : Snapshot(o)[k] = o.records[((o.start_index + k - 1) % Capacity) + 1]
  <2> HIDE DEF o
  <2> QED
    BY <1>3 DEF Snapshot
<1>9. \A k \in 1 .. Capacity : old[k] = l.records[((first + k - 1) % Capacity) + 1]
  BY DEF Snapshot
<1>10. \A k \in 1 .. Capacity - 1 : Snapshot(o)[k] = old[k + 1]
  <2> SUFFICES ASSUME NEW k \in 1 .. Capacity - 1 PROVE Snapshot(o)[k] = old[k + 1]
    OBVIOUS
  <2> DEFINE place == (first + k) % Capacity
  <2>1. place = IF first + k < Capacity THEN first + k ELSE first + k - Capacity
    <3> HIDE DEF first
    <3> QED
      BY <1>1
  <2>2. o.start_index + (k - 1) = IF first + 1 < Capacity THEN first + k ELSE k - 1
    BY <1>1, <1>4
  <2>3. (o.start_index + (k - 1)) % Capacity = place
    <3>1. CASE first + 1 < Capacity
      BY <2>2, <3>1
    <3>2. CASE ~(first + 1 < Capacity)
      <4>1. k - 1 \in 0 .. Capacity - 1 /\ first + k - Capacity = k - 1
        BY <1>1, <3>2
      <4>2. (k - 1) % Capacity = k - 1
        BY <1>1, <4>1
      <4>3. ~(first + k < Capacity)
        BY <1>1, <3>2
      <4> QED
        BY <2>1, <2>2, <3>2, <4>1, <4>2, <4>3
    <3> QED
      BY <3>1, <3>2
  <2>4. place \in 0 .. Capacity - 1 /\ place # first
    BY <1>1, <2>1
  <2> HIDE DEF place, o, old
  <2>5. Snapshot(o)[k] = o.records[place + 1]
    <3>1. o.start_index + k - 1 = o.start_index + (k - 1) /\ k \in 1 .. Capacity
      BY <1>1, <1>4
    <3> QED
      BY <1>8, <2>3, <3>1
  <2>6. o.records[place + 1] = l.records[place + 1]
    BY <1>1, <1>2, <2>4
  <2>7. old[k + 1] = l.records[place + 1]
    <3>1. k + 1 \in 1 .. Capacity /\ first + (k + 1) - 1 = first + k
      BY <1>1
    <3> QED
      BY <1>9, <3>1 DEF place
  <2> QED
    BY <2>5, <2>6, <2>7
<1>11. Snapshot(o)[Capacity] = new
  <2>1. (o.start_index + Capacity - 1) % Capacity = first
    <3>1. o.start_index + Capacity - 1 = IF first + 1 < Capacity THEN first + Capacity ELSE first
      BY <1>1, <1>4
    <3>2. first % Capacity = first /\ (first + Capacity) % Capacity = first
      <4> HIDE DEF first
      <4> QED
        BY <1>1
    <3> QED
      BY <3>1, <3>2
  <2>2. Capacity \in 1 .. Capacity
    BY <1>1
  <2>3. Snapshot(o)[Capacity] = o.records[first + 1]
    <3> HIDE DEF o
    <3> QED
      BY <1>8, <2>1, <2>2
  <2>4. o.records[first + 1] = new
    BY <1>1, <1>2
  <2> QED
    BY <2>3, <2>4
<1>12. \A k \in 1 .. Capacity : Snapshot(o)[k] = Append(Tail(old), new)[k]
  <2> HIDE DEF o, old, new
  <2> QED
    BY <1>1, <1>7, <1>10, <1>11
<1> QED
  <2> HIDE DEF o, old, new
  <2>1. Snapshot(o) = Append(Tail(old), new)
    BY <1>6, <1>7, <1>12, SeqEqual
  <2> QED
    BY <2>1 DEF o, old, new
=============================================================================
