------------------------- MODULE CommandUplinkProofs -------------------------
(***************************************************************************)
(* The ground command guard against every network that loses, delays,      *)
(* reorders and repeats packets, for every width of the sequence number,   *)
(* every limit of its configuration and every rate of commands.            *)
(***************************************************************************)
EXTENDS CommandUplink, SequenceTheorems, TLAPS

(* The absolute time is not in a packet, but its time stamp bounds it: since a       *)
(* packet was issued at most so many commands can have followed.                     *)
Aging ==
  \A packet \in network :
    /\ packet.timestamp <= now + ClockError
    /\ issued - packet.number <= thisTick + IssueRate * (now + ClockError - packet.timestamp)

Increasing == \A i, j \in 1 .. Len(executed) : i < j => executed[i] < executed[j]

(* The order of execution is the guard's merit only if the numbers in use at one time *)
(* fit in the half range; the rest holds without.                                    *)
Inv == TypeOK /\ Aging /\ (FreshNumbers <= SerialHalfRange => Increasing)

-----------------------------------------------------------------------------
(* The difference of two wrapped numbers, wrapped, is the difference wrapped: what     *)
(* 32-bit subtraction relies on.                                                      *)
LEMMA SerialDifference ==
  ASSUME NEW a \in Int, NEW b \in Int, NEW m \in Nat \ {0}
  PROVE  ((a % m) - (b % m)) % m = (a - b) % m
<1> DEFINE qa == a \div m
           qb == b \div m
           qd == (a - b) \div m
           ra == a % m
           rb == b % m
           rd == (a - b) % m
<1>1. /\ qa \in Int /\ ra \in 0 .. m - 1 /\ a = m * qa + ra
      /\ qb \in Int /\ rb \in 0 .. m - 1 /\ b = m * qb + rb
      /\ qd \in Int /\ rd \in 0 .. m - 1 /\ a - b = m * qd + rd
  OBVIOUS
<1> HIDE DEF qa, qb, qd, ra, rb, rd
<1> DEFINE q == qd - qa + qb
<1>2. q \in Int /\ ra - rb = m * q + rd
  BY <1>1
<1> HIDE DEF q
<1>3. (m * q + rd) % m = rd
  BY <1>1, <1>2
<1> QED
  BY <1>2, <1>3 DEF ra, rb, rd

(* The serial comparison on numbers that are less than half the range apart, whichever *)
(* is the younger: it tells which one is.                                              *)
LEMMA SerialComparison ==
  ASSUME NEW a \in Nat, NEW b \in Nat
  PROVE  /\ a - b \in 1 .. SerialHalfRange - 1 =>
              /\ SequenceIsNewer(a % SequenceModulus, b % SequenceModulus)
              /\ a % SequenceModulus # b % SequenceModulus
         /\ b - a \in 0 .. SerialHalfRange - 1 =>
              ~SequenceIsNewer(a % SequenceModulus, b % SequenceModulus)
<1> DEFINE m == SequenceModulus
           d == ((a % m) - (b % m)) % m
<1>1. m \in Nat \ {0} /\ SerialHalfRange \in Nat \ {0} /\ m = 2 * SerialHalfRange
  BY GuardAssumption
<1>2. d = (a - b) % m
  <2>1. a \in Int /\ b \in Int
    OBVIOUS
  <2> QED
    BY <1>1, <2>1, SerialDifference, Zenon
<1>3. ASSUME a - b \in 1 .. SerialHalfRange - 1
      PROVE  d = a - b /\ a % m # b % m
  <2>1. d = a - b
    BY <1>1, <1>2, <1>3
  <2>2. a % m = b % m => d = 0
    BY <1>1
  <2> QED
    BY <1>3, <2>1, <2>2
<1>4. ASSUME b - a \in 0 .. SerialHalfRange - 1
      PROVE  d \notin 1 .. SerialHalfRange - 1
  <2>1. CASE a = b
    BY <1>1, <1>2, <2>1
  <2>2. CASE b - a \in 1 .. SerialHalfRange - 1
    <3>1. (a - b) % m = m - (b - a)
      BY <1>1, <2>2
    <3> QED
      BY <1>1, <1>2, <2>2, <3>1
  <2> QED
    BY <1>1, <1>4, <2>1, <2>2
<1> HIDE DEF d
<1> QED
  BY <1>3, <1>4 DEF SequenceIsNewer, d

(* What the guard accepts is fresh, and with the fresh numbers within the half range     *)
(* it is younger than what it accepted last.                                            *)
LEMMA AcceptedIsYounger ==
  ASSUME Inv, NEW packet \in network, FreshNumbers <= SerialHalfRange, executed # <<>>,
         GuardVerdict(guard, packet.number % SequenceModulus, packet.timestamp, now) = "ACCEPTED"
  PROVE  Latest < packet.number
<1> DEFINE age == now + ClockError - packet.timestamp
<1>1. /\ now \in Nat /\ issued \in Nat /\ thisTick \in 0 .. IssueRate
      /\ packet.number \in 0 .. issued - 1 /\ packet.timestamp \in Nat
      /\ IssueRate \in Nat /\ ClockError \in Nat /\ MaximumAge \in Nat
      /\ SerialHalfRange \in Nat \ {0}
  BY UplinkAssumption, GuardAssumption DEF Inv, TypeOK, Packet
<1>2. Latest \in 0 .. issued - 1
  BY DEF Inv, TypeOK, Latest
<1>3. /\ ~TooOld(packet.timestamp, now)
      /\ SequenceIsNewer(packet.number % SequenceModulus, Latest % SequenceModulus)
  BY DEF GuardVerdict, Inv, TypeOK
<1>4. age \in 0 .. MaximumAge + ClockError
  <2>1. packet.timestamp <= now + ClockError
    BY Zenon DEF Inv, Aging
  <2> QED
    BY <1>1, <1>3, <2>1 DEF TooOld
<1>5. issued - packet.number <= thisTick + IssueRate * age
  BY DEF Inv, Aging
<1> HIDE DEF age
<1>6. IssueRate * age <= IssueRate * (MaximumAge + ClockError)
  BY <1>1, <1>4
<1>7. issued - packet.number <= FreshNumbers
  BY <1>1, <1>4, <1>5, <1>6 DEF FreshNumbers
<1>8. issued - packet.number <= SerialHalfRange
  BY <1>1, <1>7 DEF FreshNumbers
<1>9. ~(Latest - packet.number \in 0 .. SerialHalfRange - 1)
  BY <1>1, <1>2, <1>3, SerialComparison
<1> QED
  BY <1>1, <1>2, <1>8, <1>9

(* The inductive invariant: types, the guard's memory, the age of packets and the order. *)
LEMMA InvInductive == Spec => []Inv
<1>1. Init => Inv
  <2> SUFFICES ASSUME Init PROVE Inv
    OBVIOUS
  <2>1. TypeOK
    <3>1. /\ now \in 0 .. MaxTime /\ issued \in Nat /\ thisTick \in 0 .. IssueRate
          /\ network \subseteq Packet
      BY UplinkAssumption DEF Init
    <3>2. guard = [sequence_initialized |-> executed # <<>>,
                   highest_sequence     |-> IF executed = <<>> THEN 0 ELSE Latest % SequenceModulus]
      BY DEF Init, InitialGuard
    <3>3. executed \in Seq(0 .. issued - 1)
      BY DEF Init
    <3>4. verdict \in [packet: Packet \cup {NoPacket}, status: GuardStatus]
      BY DEF Init, GuardStatus
    <3> QED
      BY <3>1, <3>2, <3>3, <3>4 DEF TypeOK
  <2> QED
    BY <2>1 DEF Init, Inv, Aging, Increasing
<1>2. Inv /\ [Next]_vars => Inv'
  <2> SUFFICES ASSUME Inv, [Next]_vars PROVE Inv'
    OBVIOUS
  <2>0. /\ now \in 0 .. MaxTime /\ issued \in Nat /\ thisTick \in 0 .. IssueRate
        /\ IssueRate \in Nat /\ ClockError \in Nat /\ MaxTime \in Nat
        /\ \A packet \in network : /\ packet.number \in 0 .. issued - 1
                                   /\ packet.timestamp \in 0 .. MaxTime + ClockError
    BY UplinkAssumption DEF Inv, TypeOK, Packet
  <2>1. CASE UNCHANGED vars
    BY <2>1 DEF vars, Inv, TypeOK, Packet, Latest, Aging, Increasing
  <2>2. CASE Tick
    <3>1. TypeOK'
      BY <2>0, <2>2 DEF Tick, Inv, TypeOK, Packet, Latest
    <3>2. Aging'
      <4> SUFFICES ASSUME NEW packet \in network
                   PROVE  /\ packet.timestamp <= (now + 1) + ClockError
                          /\ issued - packet.number <=
                               0 + IssueRate * ((now + 1) + ClockError - packet.timestamp)
        BY <2>2 DEF Tick, Aging
      <4> DEFINE age == now + ClockError - packet.timestamp
      <4>1. age \in Int /\ (now + 1) + ClockError - packet.timestamp = age + 1
        BY <2>0
      <4>2. packet.timestamp <= now + ClockError /\ issued - packet.number <= thisTick + IssueRate * age
        BY DEF Inv, Aging
      <4> HIDE DEF age
      <4>3. IssueRate * (age + 1) = IssueRate * age + IssueRate /\ IssueRate * age \in Int
        BY <2>0, <4>1
      <4> QED
        BY <2>0, <4>1, <4>2, <4>3
    <3> QED
      BY <2>2, <3>1, <3>2 DEF Tick, Inv, Increasing
  <2>3. CASE Issue
    <3>1. PICK stamp \in now - ClockError .. now + ClockError :
            stamp >= 0 /\ network' = network \cup {[number |-> issued, timestamp |-> stamp]}
      BY <2>3 DEF Issue
    <3>2. issued' = issued + 1 /\ thisTick' = thisTick + 1 /\ thisTick < IssueRate
          /\ UNCHANGED <<now, guard, executed, verdict>>
      BY <2>3 DEF Issue
    <3>3. stamp \in 0 .. MaxTime + ClockError
      BY <2>0, <3>1
    <3>4. TypeOK'
      <4>1. Packet \subseteq Packet' /\ [number |-> issued, timestamp |-> stamp] \in Packet'
        BY <2>0, <3>2, <3>3 DEF Packet
      <4>2. network' \subseteq Packet'
        BY <3>1, <4>1 DEF Inv, TypeOK
      <4>3. executed' \in Seq(0 .. issued' - 1)
        BY <2>0, <3>2 DEF Inv, TypeOK
      <4>4. verdict' \in [packet: Packet' \cup {NoPacket}, status: GuardStatus]
        BY <3>2, <4>1 DEF Inv, TypeOK
      <4> QED
        BY <2>0, <3>2, <4>2, <4>3, <4>4 DEF Inv, TypeOK, Latest
    <3>5. Aging'
      <4>1. ASSUME NEW packet \in network
            PROVE  /\ packet.timestamp <= now + ClockError
                   /\ (issued + 1) - packet.number <=
                        (thisTick + 1) + IssueRate * (now + ClockError - packet.timestamp)
        <5> DEFINE room == IssueRate * (now + ClockError - packet.timestamp)
        <5>1. packet.timestamp <= now + ClockError /\ issued - packet.number <= thisTick + room
          BY Zenon DEF Inv, Aging
        <5>2. room \in Int
          BY <2>0
        <5> HIDE DEF room
        <5>3. (issued + 1) - packet.number <= (thisTick + 1) + room
          BY <2>0, <5>1, <5>2
        <5> QED
          BY <5>1, <5>3 DEF room
      <4>2. /\ stamp <= now + ClockError
            /\ (issued + 1) - issued <= (thisTick + 1) + IssueRate * (now + ClockError - stamp)
        <5> DEFINE age == now + ClockError - stamp
        <5>1. age \in Nat
          BY <2>0, <3>1, <3>3
        <5> HIDE DEF age
        <5>2. IssueRate * age \in Nat
          BY <2>0, <5>1
        <5>3. (issued + 1) - issued <= (thisTick + 1) + IssueRate * age
          BY <2>0, <5>2
        <5> QED
          BY <2>0, <3>1, <5>3 DEF age
      <4> QED
        BY <3>1, <3>2, <4>1, <4>2 DEF Aging
    <3> QED
      BY <3>2, <3>4, <3>5 DEF Inv, Increasing
  <2>4. ASSUME NEW packet \in network, Lose(packet) PROVE Inv'
    <3>1. TypeOK'
      BY <2>4 DEF Lose, Inv, TypeOK, Packet, Latest
    <3> QED
      BY <2>4, <3>1 DEF Lose, Inv, Aging, Increasing
  <2>5. ASSUME NEW packet \in network, Deliver(packet) PROVE Inv'
    <3> DEFINE sequence == packet.number % SequenceModulus
               status   == GuardVerdict(guard, sequence, packet.timestamp, now)
    <3>1. /\ UNCHANGED <<now, issued, thisTick, network>>
          /\ verdict' = [packet |-> packet, status |-> status]
          /\ status = "ACCEPTED" =>
               /\ executed' = Append(executed, packet.number)
               /\ guard' = [sequence_initialized |-> TRUE, highest_sequence |-> sequence]
          /\ status # "ACCEPTED" => UNCHANGED <<executed, guard>>
      BY <2>5 DEF Deliver, GuardAfter
    <3>2. status \in GuardStatus
      BY DEF GuardVerdict, GuardStatus
    <3>3. Aging'
      BY <3>1 DEF Inv, Aging
    <3>4. /\ (now \in 0 .. MaxTime)' /\ (issued \in Nat)' /\ (thisTick \in 0 .. IssueRate)'
          /\ (network \subseteq Packet)'
          /\ (verdict \in [packet: Packet \cup {NoPacket}, status: GuardStatus])'
      BY <3>1, <3>2 DEF Inv, TypeOK, Packet
    <3>5. executed \in Seq(0 .. issued - 1)
      BY DEF Inv, TypeOK
    <3>6. CASE status = "ACCEPTED"
      <4>1. /\ executed' \in Seq(0 .. issued - 1) /\ executed' # <<>>
            /\ Len(executed') = Len(executed) + 1
            /\ executed'[Len(executed')] = packet.number
            /\ \A i \in 1 .. Len(executed) : executed'[i] = executed[i]
        <5>1. packet.number \in 0 .. issued - 1 /\ executed' = Append(executed, packet.number)
          BY <2>0, <3>1, <3>6
        <5> QED
          BY <3>5, <5>1, AppendProperties
      <4>2. TypeOK'
        BY <3>1, <3>4, <3>6, <4>1 DEF TypeOK, Latest
      <4>3. ASSUME FreshNumbers <= SerialHalfRange PROVE Increasing'
        <5>1. Increasing
          BY <4>3 DEF Inv
        <5>2. ASSUME NEW i \in 1 .. Len(executed) PROVE executed[i] < packet.number
          <6>1. executed # <<>> /\ Len(executed) \in Nat
            BY <3>5, <5>2
          <6>2. Latest < packet.number
            BY <3>6, <4>3, <6>1, AcceptedIsYounger
          <6>3. executed[i] <= Latest /\ executed[i] \in Int /\ Latest \in Int
            <7>1. \A k \in 1 .. Len(executed) : executed[k] \in Int
              BY <2>0, <3>5
            <7>2. Len(executed) \in 1 .. Len(executed) /\ i <= Len(executed)
              BY <6>1
            <7>3. CASE i = Len(executed)
              BY <7>1, <7>2, <7>3 DEF Latest
            <7>4. CASE i < Len(executed)
              BY <5>1, <7>1, <7>2, <7>4 DEF Increasing, Latest
            <7> QED
              BY <6>1, <7>2, <7>3, <7>4
          <6> QED
            BY <2>0, <6>2, <6>3
        <5>3. Len(executed) \in Nat
          BY <3>5
        <5> QED
          BY <4>1, <5>1, <5>2, <5>3 DEF Increasing
      <4> QED
        BY <3>3, <4>2, <4>3 DEF Inv, FreshNumbers
    <3>7. CASE status # "ACCEPTED"
      <4>1. TypeOK'
        BY <3>1, <3>4, <3>7 DEF Inv, TypeOK, Latest
      <4> QED
        BY <3>1, <3>3, <3>7, <4>1 DEF Inv, Increasing, FreshNumbers
    <3> QED
      BY <3>6, <3>7
  <2> QED
    BY <2>1, <2>2, <2>3, <2>4, <2>5 DEF Next
<1>3. QED
  BY <1>1, <1>2, PTL DEF Spec

-----------------------------------------------------------------------------
(* TypeOK holds for every network and every width: the guard's single number is that of *)
(* the last command it let through, never one of a packet it refused, and what it let   *)
(* through was issued (GroundCommandGuard::evaluate).                                   *)
THEOREM GuardRemembersLast == Spec => []TypeOK
<1>1. Inv => TypeOK
  BY DEF Inv
<1> QED
  BY <1>1, InvInductive, PTL

(* ExecutedOnceInOrder for every half range that holds the fresh numbers: no command is *)
(* executed twice or after a younger one, however the network repeats and reorders, and *)
(* however often the sequence number wraps (GroundCommandGuard::evaluate).              *)
THEOREM NoReplayNoReorder == Spec => []ExecutedOnceInOrder
<1>1. Inv => ExecutedOnceInOrder
  BY DEF Inv, Increasing, ExecutedOnceInOrder
<1> QED
  BY <1>1, InvInductive, PTL

(* YoungerCommandAccepted: losing packets never locks the ground out; a fresh packet    *)
(* less than half the range ahead of the last executed command passes                   *)
(* (GroundCommandGuard::evaluate).                                                      *)
THEOREM LossNeverLocksOut == Spec => YoungerCommandAccepted
<1> DEFINE Step == \A packet \in network :
                     /\ verdict' # verdict
                     /\ verdict'.packet = packet
                     /\ Fresh(packet)
                     /\ executed # <<>> => packet.number - Latest \in 1 .. SerialHalfRange - 1
                     => verdict'.status = "ACCEPTED"
<1>1. Inv /\ [Next]_vars => [Step]_vars
  <2> SUFFICES ASSUME Inv, Next, NEW packet \in network, verdict' # verdict,
                      verdict'.packet = packet, Fresh(packet),
                      executed # <<>> => packet.number - Latest \in 1 .. SerialHalfRange - 1
               PROVE  verdict'.status = "ACCEPTED"
    OBVIOUS
  <2>1. PICK q \in network : Deliver(q)
    BY DEF Next, Tick, Issue, Lose
  <2>2. /\ q = packet
        /\ verdict'.status = GuardVerdict(guard, packet.number % SequenceModulus,
                                          packet.timestamp, now)
    BY <2>1 DEF Deliver
  <2>3. GuardValid /\ ~TooFarAhead(packet.timestamp, now) /\ ~TooOld(packet.timestamp, now)
    BY UplinkAssumption DEF Fresh
  <2>4. guard = [sequence_initialized |-> executed # <<>>,
                 highest_sequence     |-> IF executed = <<>> THEN 0 ELSE Latest % SequenceModulus]
    BY DEF Inv, TypeOK
  <2>5. CASE executed = <<>>
    BY <2>2, <2>3, <2>4, <2>5 DEF GuardVerdict
  <2>6. CASE executed # <<>>
    <3>1. packet.number \in Nat /\ Latest \in Nat
      BY <2>6 DEF Inv, TypeOK, Packet, Latest
    <3>2. /\ SequenceIsNewer(packet.number % SequenceModulus, Latest % SequenceModulus)
          /\ packet.number % SequenceModulus # Latest % SequenceModulus
      BY <2>6, <3>1, SerialComparison
    <3> QED
      BY <2>2, <2>3, <2>4, <2>6, <3>2 DEF GuardVerdict
  <2> QED
    BY <2>5, <2>6
<1> QED
  BY <1>1, InvInductive, PTL DEF Spec, YoungerCommandAccepted
=============================================================================
