---------------------------- MODULE CommandUplink ----------------------------
(***************************************************************************)
(* Ground commands on their way to the guard.  The ground numbers its      *)
(* commands 0, 1, 2, ... and sends each number modulo 2^32 with the time   *)
(* of its own clock; the datagram network loses, delays, reorders and       *)
(* repeats packets; the flight software evaluates each packet it receives  *)
(* against its own clock (fsw/src/ground_command_guard.cpp, as called by   *)
(* fsw/src/flight_software_app.cpp).                                       *)
(*                                                                         *)
(* The absolute numbers exist only here: they say what the guard, which    *)
(* sees 32 bits, ought to be deciding.                                     *)
(***************************************************************************)
EXTENDS GroundCommandGuard, FiniteSets, Sequences

CONSTANTS
  IssueRate,    \* commands the ground issues within one unit of time
  ClockError,   \* how far the ground clock may be from the flight clock
  MaxTime,      \* bound: the behaviour ends at this time
  MaxInFlight   \* bound: packets the network holds

ASSUME UplinkAssumption ==
  /\ {IssueRate, ClockError, MaxTime, MaxInFlight} \subseteq Nat
  /\ GuardValid

VARIABLES
  now,        \* the flight clock
  issued,     \* commands issued so far
  thisTick,   \* commands issued at the current time
  network,    \* packets that may still arrive
  guard,      \* GroundCommandGuard's fields
  executed,   \* absolute numbers of the commands accepted, in that order
  verdict     \* the last packet evaluated and the guard's verdict

vars == <<now, issued, thisTick, network, guard, executed, verdict>>

NoPacket == [number |-> -1, timestamp |-> 0]

Init ==
  /\ now = 0
  /\ issued = 0
  /\ thisTick = 0
  /\ network = {}
  /\ guard = InitialGuard
  /\ executed = <<>>
  /\ verdict = [packet |-> NoPacket, status |-> "ACCEPTED"]

Tick ==
  /\ now < MaxTime
  /\ now' = now + 1
  /\ thisTick' = 0
  /\ UNCHANGED <<issued, network, guard, executed, verdict>>

(* The ground sends its next command, stamped with a clock that is off by at *)
(* most ClockError.                                                          *)
Issue ==
  /\ thisTick < IssueRate
  /\ Cardinality(network) < MaxInFlight
  /\ \E stamp \in now - ClockError .. now + ClockError :
       /\ stamp >= 0
       /\ network' = network \cup {[number |-> issued, timestamp |-> stamp]}
  /\ issued' = issued + 1
  /\ thisTick' = thisTick + 1
  /\ UNCHANGED <<now, guard, executed, verdict>>

Lose(packet) ==
  /\ network' = network \ {packet}
  /\ UNCHANGED <<now, issued, thisTick, guard, executed, verdict>>

(* A packet arrives and is evaluated.  It stays in the network: it may arrive *)
(* again, and whether it does is up to Lose.                                  *)
Deliver(packet) ==
  LET sequence == packet.number % SequenceModulus
      status   == GuardVerdict(guard, sequence, packet.timestamp, now)
  IN  /\ guard' = GuardAfter(guard, sequence, packet.timestamp, now)
      /\ executed' = IF status = "ACCEPTED" THEN Append(executed, packet.number) ELSE executed
      /\ verdict' = [packet |-> packet, status |-> status]
      /\ UNCHANGED <<now, issued, thisTick, network>>

Next ==
  \/ Tick
  \/ Issue
  \/ \E packet \in network : Lose(packet)
  \/ \E packet \in network : Deliver(packet)

Spec == Init /\ [][Next]_vars

-----------------------------------------------------------------------------
(* Commands that can still pass the freshness check were issued within this  *)
(* many units of time, so at most this many numbers are in use at once.      *)
FreshNumbers == IssueRate * (MaximumAge + ClockError + 1)

Latest == executed[Len(executed)]

Packet == [number: 0 .. issued - 1, timestamp: 0 .. MaxTime + ClockError]

(* The guard's number is that of the last command executed. *)
TypeOK ==
  /\ now \in 0 .. MaxTime
  /\ issued \in Nat
  /\ thisTick \in 0 .. IssueRate
  /\ network \subseteq Packet
  /\ guard = [sequence_initialized |-> executed # <<>>,
              highest_sequence     |-> IF executed = <<>> THEN 0 ELSE Latest % SequenceModulus]
  /\ executed \in Seq(0 .. issued - 1)
  /\ verdict \in [packet: Packet \cup {NoPacket}, status: GuardStatus]

(* No command is executed twice and none after a younger one, although the   *)
(* guard remembers a single number and the numbers wrap: the freshness check *)
(* keeps the packets it sees within half the number range.                   *)
ExecutedOnceInOrder ==
  FreshNumbers <= SerialHalfRange =>
    \A i, j \in 1 .. Len(executed) : i < j => executed[i] < executed[j]

Fresh(packet) == ~TooOld(packet.timestamp, now) /\ ~TooFarAhead(packet.timestamp, now)

(* A fresh packet of a command younger than the last one executed is         *)
(* accepted, however many packets were lost in between, unless they are half *)
(* the number range or more.                                                 *)
YoungerCommandAccepted ==
  [][\A packet \in network :
       /\ verdict' # verdict
       /\ verdict'.packet = packet
       /\ Fresh(packet)
       /\ executed # <<>> => packet.number - Latest \in 1 .. SerialHalfRange - 1
       => verdict'.status = "ACCEPTED"]_vars
=============================================================================
