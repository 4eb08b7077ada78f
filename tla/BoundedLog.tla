----------------------------- MODULE BoundedLog -----------------------------
(***************************************************************************)
(* What the event log promises, without saying how: it keeps the newest    *)
(* Capacity events in the order in which they were logged, it numbers      *)
(* every event ever logged, and it counts the events it no longer has.     *)
(***************************************************************************)
EXTENDS Integers, Sequences

CONSTANTS
  Event,          \* what is logged
  Capacity,       \* how many events are kept
  EventModulus    \* number of event sequence numbers

VARIABLES
  kept,   \* the numbered events, oldest first
  lost,   \* events that made room for newer ones
  next    \* the number of the next event

vars == <<kept, lost, next>>

Init == kept = <<>> /\ lost = 0 /\ next = 1 % EventModulus

Numbered(e) == [sequence |-> next, event |-> e]

Keep(e) ==
  /\ Len(kept) < Capacity
  /\ kept' = Append(kept, Numbered(e))
  /\ next' = (next + 1) % EventModulus
  /\ UNCHANGED lost

Replace(e) ==
  /\ Capacity > 0
  /\ Len(kept) = Capacity
  /\ kept' = Append(Tail(kept), Numbered(e))
  /\ lost' = (lost + 1) % EventModulus
  /\ next' = (next + 1) % EventModulus

Clear == kept' = <<>> /\ lost' = 0 /\ UNCHANGED next

Next == Clear \/ \E e \in Event : Keep(e) \/ Replace(e)

Spec == Init /\ [][Next]_vars
=============================================================================
