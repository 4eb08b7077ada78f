-------------------------- MODULE EventLoggerProofs --------------------------
(***************************************************************************)
(* The event logger keeps its promise for every capacity, every width of   *)
(* the event number and every sequence of log() and clear(): the ring read *)
(* through its snapshot is the bounded log.                                *)
(***************************************************************************)
EXTENDS EventLoggerSpec, FlightSoftwareLemmas

Number == 0 .. EventModulus - 1

Record == [sequence: Number, event: Event]

(* TypeOK says what the fields hold; this says that there are no others.           *)
Shape ==
  log = [records |-> log.records, start_index |-> log.start_index,
         next_sequence |-> log.next_sequence, dropped_count |-> log.dropped_count]

Inv == Shape /\ TypeOK /\ SnapshotContiguous

-----------------------------------------------------------------------------
(* Whole turns of the number do not show in it.                                      *)
LEMMA WholeTurns ==
  ASSUME NEW a \in Int, NEW q \in Int, NEW m \in Nat \ {0}
  PROVE  (a + m * q) % m = a % m
<1> DEFINE r == a % m
           d == a \div m
<1>1. r \in 0 .. m - 1 /\ d \in Int /\ a = m * d + r
  OBVIOUS
<1> HIDE DEF r, d
<1>2. m * q \in Int /\ a + m * q = m * (d + q) + r
  BY <1>1
<1>3. (m * (d + q) + r) % m = r
  BY <1>1
<1> QED
  BY <1>2, <1>3 DEF r

(* Counting on from a number that was wrapped is counting on before wrapping.         *)
LEMMA NumberAfter ==
  ASSUME NEW a \in Int, NEW d \in Int, NEW m \in Nat \ {0}
  PROVE  ((a % m) + d) % m = (a + d) % m
<1> DEFINE q == a \div m
           r == a % m
           turns == m * q
<1>1. q \in Int /\ turns \in Int /\ a = turns + r /\ r \in Int
  OBVIOUS
<1> HIDE DEF q, r
<1>2. ((r + d) + turns) % m = (r + d) % m
  <2>1. q \in Int /\ r + d \in Int
    BY <1>1
  <2> QED
    BY <2>1, WholeTurns
<1> HIDE DEF turns
<1>3. a + d = (r + d) + turns
  BY <1>1
<1> QED
  BY <1>2, <1>3 DEF r

-----------------------------------------------------------------------------
(* A sequence of records numbered consecutively up to the number before next.         *)
Consecutive(records, next) ==
  \A k \in 1 .. Len(records) :
    records[k].sequence = (next + EventModulus - 1 - (Len(records) - k)) % EventModulus

(* The number given to a new record continues the numbering, also where it wraps.      *)
LEMMA ConsecutiveAppend ==
  ASSUME NEW records \in Seq(Record), NEW next \in Number,
         Consecutive(records, next), NEW record \in Record, record.sequence = next
  PROVE  Consecutive(Append(records, record), (next + 1) % EventModulus)
<1> DEFINE longer == Append(records, record)
           n == Len(records)
<1>1. EventModulus \in Nat \ {0} /\ next \in 0 .. EventModulus - 1 /\ n \in Nat
  BY LoggerAssumption DEF Number
<1>2. /\ Len(longer) = n + 1 /\ longer[n + 1] = record
      /\ \A k \in 1 .. n : longer[k] = records[k]
  BY AppendProperties
<1> HIDE DEF longer, n
<1> DEFINE wrapped == (next + 1) % EventModulus
<1>3. ASSUME NEW k \in 1 .. n + 1
      PROVE  longer[k].sequence = (wrapped + EventModulus - 1 - ((n + 1) - k)) % EventModulus
  <2> DEFINE back == EventModulus - 1 - (n + 1 - k)
  <2>1. (wrapped + back) % EventModulus = (next + 1 + back) % EventModulus
    <3>1. next + 1 \in Int /\ back \in Int
      BY <1>1
    <3> HIDE DEF back
    <3> QED
      BY <1>1, <3>1, NumberAfter
  <2>2. wrapped \in Int /\ wrapped + EventModulus - 1 - ((n + 1) - k) = wrapped + back
    BY <1>1
  <2>3. next + 1 + back = next + EventModulus - 1 - (n - k)
    BY <1>1
  <2>4. CASE k \in 1 .. n
    <3>1. longer[k].sequence = (next + EventModulus - 1 - (n - k)) % EventModulus
      BY <1>2, <2>4 DEF Consecutive, n
    <3> HIDE DEF wrapped, back
    <3> QED
      BY <2>1, <2>2, <2>3, <3>1
  <2>5. CASE k = n + 1
    <3>1. next + 1 + back = next + EventModulus
      BY <1>1, <2>5
    <3>2. (next + EventModulus) % EventModulus = next
      BY <1>1
    <3>3. longer[k].sequence = next
      BY <1>2, <2>5
    <3> HIDE DEF wrapped, back
    <3> QED
      BY <2>1, <2>2, <3>1, <3>2, <3>3
  <2> QED
    BY <1>1, <2>4, <2>5
<1> HIDE DEF wrapped
<1>4. Consecutive(longer, wrapped)
  BY <1>2, <1>3 DEF Consecutive
<1> QED
  BY <1>4 DEF longer, wrapped

(* Dropping the oldest record leaves the numbering without a hole.                     *)
LEMMA ConsecutiveTail ==
  ASSUME NEW records \in Seq(Record), NEW next \in Number, records # <<>>,
         Consecutive(records, next)
  PROVE  Consecutive(Tail(records), next)
<1> DEFINE n == Len(records)
<1>1. /\ Len(Tail(records)) = n - 1 /\ n \in Nat
      /\ \A k \in 1 .. n - 1 : Tail(records)[k] = records[k + 1]
  BY HeadTailProperties
<1>2. \A k \in 1 .. n - 1 : k + 1 \in 1 .. n /\ (n - 1) - k = n - (k + 1)
  BY <1>1
<1> QED
  BY <1>1, <1>2 DEF Consecutive

-----------------------------------------------------------------------------
(* The cases of log(): an invalid logger, room left, a full ring.                       *)
LEMMA LogCases ==
  ASSUME TypeOK, NEW e, Log(e)
  PROVE  \/ log' = log
         \/ Capacity > 0 /\ Len(log.records) < Capacity /\ log' = Pushed(log, e)
         \/ Capacity > 0 /\ Len(log.records) = Capacity /\ log' = Overwritten(log, e)
<1>1. Capacity \in Nat /\ Len(log.records) \in Nat /\ Len(log.records) <= Capacity
  BY LoggerAssumption DEF TypeOK
<1>2. CASE Capacity = 0
  BY <1>2 DEF Log, LogEvent
<1>3. CASE Capacity > 0 /\ Len(log.records) < Capacity
  BY <1>1, <1>3 DEF Log, LogEvent
<1>4. CASE Capacity > 0 /\ Len(log.records) >= Capacity
  BY <1>1, <1>4 DEF Log, LogEvent
<1> QED
  BY <1>1, <1>2, <1>3, <1>4

(* What the invariant says of the ring.                                                 *)
LEMMA InvMeans ==
  ASSUME Inv
  PROVE  /\ log.records \in Seq(Record) /\ Len(log.records) \in Nat
         /\ Len(log.records) <= Capacity /\ Capacity \in Nat
         /\ log.start_index \in Nat
         /\ Len(log.records) < Capacity => log.start_index = 0
         /\ Capacity > 0 => log.start_index \in 0 .. Capacity - 1
         /\ log.next_sequence \in Number /\ log.dropped_count \in Number
         /\ Snapshot(log) \in Seq(Record) /\ Len(Snapshot(log)) = Len(log.records)
         /\ Consecutive(Snapshot(log), log.next_sequence)
         /\ \A e \in Event : /\ NewRecord(log, e) \in Record
                             /\ NewRecord(log, e).sequence = log.next_sequence
<1>1. /\ log.records \in Seq(Record) /\ Len(log.records) \in Nat
      /\ Len(log.records) <= Capacity /\ Capacity \in Nat
      /\ log.next_sequence \in Number /\ log.dropped_count \in Number
  BY LoggerAssumption DEF Inv, TypeOK, Record, Number
<1>2. /\ log.start_index \in Nat
      /\ Len(log.records) < Capacity => log.start_index = 0
      /\ Capacity > 0 => log.start_index \in 0 .. Capacity - 1
  BY <1>1 DEF Inv, TypeOK
<1>3. Snapshot(log) \in Seq(Record) /\ Len(Snapshot(log)) = Len(log.records)
  BY <1>1, <1>2, SnapshotIsSequence
<1>4. Consecutive(Snapshot(log), log.next_sequence)
  BY <1>3 DEF Inv, SnapshotContiguous, Consecutive
<1>5. \A e \in Event : /\ NewRecord(log, e) \in Record
                       /\ NewRecord(log, e).sequence = log.next_sequence
  BY <1>1 DEF NewRecord, Record
<1> QED
  BY <1>1, <1>2, <1>3, <1>4, <1>5

(* The invariant: the ring turns only when it is full, and its snapshot is numbered     *)
(* without a hole.                                                                      *)
LEMMA InvInductive == Spec => []Inv
<1>1. Init => Inv
  <2> SUFFICES ASSUME Init PROVE Inv
    OBVIOUS
  <2>1. /\ log.records = <<>> /\ log.start_index = 0 /\ log.dropped_count = 0
        /\ log.next_sequence = 1 % EventModulus /\ Shape
    BY DEF Init, EmptyLog, Shape
  <2>2. 1 % EventModulus \in 0 .. EventModulus - 1 /\ 0 \in 0 .. EventModulus - 1
    BY LoggerAssumption
  <2>3. TypeOK
    BY <2>1, <2>2, LoggerAssumption DEF TypeOK
  <2> QED
    <3>1. Len(log.records) = 0
      BY <2>1
    <3> QED
      BY <2>1, <2>3, <3>1 DEF Inv, SnapshotContiguous
<1>2. Inv /\ [Next]_log => Inv'
  <2> SUFFICES ASSUME Inv, [Next]_log PROVE Inv'
    OBVIOUS
  <2>1. CASE log' = log
    BY <2>1 DEF Inv, Shape, TypeOK, SnapshotContiguous, Snapshot
  <2>2. CASE Clear
    <3>1. /\ log'.records = <<>> /\ log'.start_index = 0 /\ log'.dropped_count = 0
          /\ log'.next_sequence = log.next_sequence /\ Shape'
      BY <2>2 DEF Clear, Cleared, Shape
    <3>2. TypeOK'
      BY <3>1, LoggerAssumption DEF TypeOK, Inv
    <3> QED
      BY <3>1, <3>2 DEF Inv, SnapshotContiguous
  <2>3. ASSUME NEW e \in Event, Capacity > 0, Len(log.records) < Capacity, log' = Pushed(log, e)
        PROVE  Inv'
    <3> DEFINE new == NewRecord(log, e)
    <3>1. /\ log'.records = Append(log.records, new) /\ log'.start_index = 0
          /\ log'.next_sequence = (log.next_sequence + 1) % EventModulus
          /\ log'.dropped_count = log.dropped_count /\ Shape'
      BY <2>3, InvMeans DEF Pushed, Shape
    <3>2. /\ log'.records \in Seq(Record) /\ Len(log'.records) = Len(log.records) + 1
      BY <3>1, InvMeans, AppendProperties
    <3>3. log'.next_sequence \in Number
      BY <3>1, InvMeans, LoggerAssumption DEF Number
    <3>4. TypeOK'
      BY <2>3, <3>1, <3>2, <3>3, InvMeans DEF TypeOK, Record, Number
    <3>5. Snapshot(log)' = Append(Snapshot(log), new)
      BY <2>3, InvMeans, SnapshotPushed
    <3>6. Consecutive(Snapshot(log), log.next_sequence)'
      BY <3>1, <3>5, InvMeans, ConsecutiveAppend
    <3>7. Len(Snapshot(log)') = Len(log'.records)
      BY <3>2, <3>5, InvMeans, AppendProperties
    <3> QED
      BY <3>1, <3>4, <3>6, <3>7 DEF Inv, SnapshotContiguous, Consecutive
  <2>4. ASSUME NEW e \in Event, Capacity > 0, Len(log.records) = Capacity,
               log' = Overwritten(log, e)
        PROVE  Inv'
    <3> DEFINE new == NewRecord(log, e)
               shorter == Tail(Snapshot(log))
    <3>1. /\ log'.records = [log.records EXCEPT ![log.start_index + 1] = new]
          /\ log'.start_index = (log.start_index + 1) % Capacity
          /\ log'.next_sequence = (log.next_sequence + 1) % EventModulus
          /\ log'.dropped_count = (log.dropped_count + 1) % EventModulus /\ Shape'
      BY <2>4 DEF Overwritten, Shape
    <3>2. log'.records \in Seq(Record) /\ Len(log'.records) = Capacity
      BY <2>4, <3>1, InvMeans, ExceptSeq
    <3>3. log'.next_sequence \in Number /\ log'.dropped_count \in Number
      <4>1. \A n \in Number : (n + 1) % EventModulus \in Number
        BY LoggerAssumption DEF Number
      <4> QED
        BY <3>1, <4>1, InvMeans
    <3>4. log'.start_index \in 0 .. Capacity - 1
      BY <2>4, <3>1, InvMeans
    <3>5. TypeOK'
      BY <3>2, <3>3, <3>4, InvMeans DEF TypeOK, Record, Number
    <3>6. Snapshot(log)' = Append(shorter, new)
      BY <2>4, InvMeans, SnapshotOverwritten
    <3>7. Snapshot(log) # <<>>
      BY <2>4, InvMeans
    <3>8. shorter \in Seq(Record) /\ Len(shorter) = Capacity - 1
      BY <2>4, <3>7, InvMeans, HeadTailProperties
    <3>9. Consecutive(shorter, log.next_sequence)
      BY <3>7, InvMeans, ConsecutiveTail
    <3>10. Consecutive(Snapshot(log), log.next_sequence)'
      <4> HIDE DEF shorter
      <4> QED
        BY <3>1, <3>6, <3>8, <3>9, InvMeans, ConsecutiveAppend
    <3>11. Len(Snapshot(log)') = Len(log'.records)
      <4> HIDE DEF shorter
      <4> QED
        BY <3>2, <3>6, <3>8, InvMeans, AppendProperties
    <3> QED
      BY <3>1, <3>5, <3>10, <3>11 DEF Inv, SnapshotContiguous, Consecutive
  <2> QED
    BY <2>1, <2>2, <2>3, <2>4, LogCases DEF Next, Inv
<1>3. QED
  BY <1>1, <1>2, PTL DEF Spec

-----------------------------------------------------------------------------
(* log() keeps start_index_ at the first slot until the ring is full: the modulus of    *)
(* snapshot(), the current size, is the one with which log() moved the index.           *)
THEOREM RingTurnsOnlyWhenFull == Spec => []TypeOK
BY InvInductive, PTL DEF Inv

(* snapshot() returns the newest events without a hole, also where the 64-bit number    *)
(* wraps and after clear().                                                             *)
THEOREM SnapshotHasNoHole == Spec => []SnapshotContiguous
BY InvInductive, PTL DEF Inv

(* The ring of log(), snapshot() and clear() implements the bounded log: every call     *)
(* is a step of BoundedLog on the snapshot, or changes nothing.                          *)
THEOREM RingImplementsBoundedLog == Spec => ImplementsBoundedLog
<1>1. Init => Promise!Init
  <2> SUFFICES ASSUME Init PROVE Promise!Init
    OBVIOUS
  <2>1. /\ log.records = <<>> /\ log.start_index = 0 /\ log.dropped_count = 0
        /\ log.next_sequence = 1 % EventModulus
    BY DEF Init, EmptyLog
  <2>2. log.records \in Seq(Record)
    BY <2>1
  <2>3. Snapshot(log) = <<>>
    BY <2>1, <2>2, SnapshotUnturned
  <2> QED
    BY <2>1, <2>3 DEF Promise!Init
<1>2. Inv /\ [Next]_log => [Promise!Next]_(Promise!vars)
  <2> SUFFICES ASSUME Inv, [Next]_log PROVE [Promise!Next]_(Promise!vars)
    OBVIOUS
  <2>1. CASE log' = log
    BY <2>1 DEF Promise!vars, Snapshot
  <2>2. CASE Clear
    <3>1. /\ log'.records = <<>> /\ log'.start_index = 0 /\ log'.dropped_count = 0
          /\ log'.next_sequence = log.next_sequence
      BY <2>2 DEF Clear, Cleared
    <3>2. log'.records \in Seq(Record)
      BY <3>1
    <3>3. Snapshot(log)' = <<>>
      BY <3>1, <3>2, SnapshotUnturned
    <3> QED
      BY <3>1, <3>3 DEF Promise!Next, Promise!Clear
  <2>3. ASSUME NEW e \in Event, Capacity > 0, Len(log.records) < Capacity, log' = Pushed(log, e)
        PROVE  Promise!Keep(e)
    <3>1. Snapshot(log)' = Append(Snapshot(log), NewRecord(log, e))
      BY <2>3, InvMeans, SnapshotPushed
    <3>2. /\ log'.next_sequence = (log.next_sequence + 1) % EventModulus
          /\ log'.dropped_count = log.dropped_count
      BY <2>3 DEF Pushed
    <3> QED
      BY <2>3, <3>1, <3>2, InvMeans DEF Promise!Keep, Promise!Numbered, NewRecord
  <2>4. ASSUME NEW e \in Event, Capacity > 0, Len(log.records) = Capacity,
               log' = Overwritten(log, e)
        PROVE  Promise!Replace(e)
    <3>1. Snapshot(log)' = Append(Tail(Snapshot(log)), NewRecord(log, e))
      BY <2>4, InvMeans, SnapshotOverwritten
    <3>2. /\ log'.next_sequence = (log.next_sequence + 1) % EventModulus
          /\ log'.dropped_count = (log.dropped_count + 1) % EventModulus
      BY <2>4 DEF Overwritten
    <3> QED
      BY <2>4, <3>1, <3>2, InvMeans DEF Promise!Replace, Promise!Numbered, NewRecord
  <2> QED
    BY <2>1, <2>2, <2>3, <2>4, LogCases DEF Next, Promise!Next, Inv
<1> QED
  BY <1>1, <1>2, InvInductive, PTL DEF Spec, ImplementsBoundedLog, Promise!Spec
=============================================================================
