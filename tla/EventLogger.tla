----------------------------- MODULE EventLogger -----------------------------
(***************************************************************************)
(* The event logger (fsw/src/event_logger.cpp): a vector of at most        *)
(* Capacity records that becomes a ring once it is full.                   *)
(*                                                                         *)
(* LogEvent(l, e) is EventLogger::log on the record l of the logger's      *)
(* fields; the flight software application logs with it.  An event stands  *)
(* for the time stamp, severity, source, code and message of a record.     *)
(***************************************************************************)
EXTENDS Integers, Sequences

CONSTANTS
  Capacity,       \* EventLogger::capacity_
  EventModulus    \* 2^64: values of a std::uint64_t

ASSUME LoggerAssumption ==
  /\ Capacity \in Nat
  /\ EventModulus \in Nat \ {0}

EmptyLog == [records |-> <<>>, start_index |-> 0,
             next_sequence |-> 1 % EventModulus, dropped_count |-> 0]

NewRecord(l, e) == [sequence |-> l.next_sequence, event |-> e]

Pushed(l, e) ==
  [records       |-> Append(l.records, NewRecord(l, e)),
   start_index   |-> l.start_index,
   next_sequence |-> (l.next_sequence + 1) % EventModulus,
   dropped_count |-> l.dropped_count]

(* Mutant: the record is written over the newest one. *)
MutOverwritten(l, e) ==
  [records       |-> [l.records EXCEPT ![((l.start_index + Capacity - 1) % Capacity) + 1] = NewRecord(l, e)],
   start_index   |-> (l.start_index + 1) % Capacity,
   next_sequence |-> (l.next_sequence + 1) % EventModulus,
   dropped_count |-> (l.dropped_count + 1) % EventModulus]

(* The oldest record, at start_index counted from 0, makes room. *)
Overwritten(l, e) ==
  [records       |-> [l.records EXCEPT ![l.start_index + 1] = NewRecord(l, e)],
   start_index   |-> (l.start_index + 1) % Capacity,
   next_sequence |-> (l.next_sequence + 1) % EventModulus,
   dropped_count |-> (l.dropped_count + 1) % EventModulus]

(* A logger without capacity is invalid and logs nothing. *)
LogEvent(l, e) ==
  CASE Capacity = 0                               -> l
    [] Capacity > 0 /\ Len(l.records) < Capacity  -> Pushed(l, e)
    [] Capacity > 0 /\ Len(l.records) >= Capacity -> Overwritten(l, e)

(* Mutant: the ring is read from its first slot. *)
MutSnapshot(l) == l.records

(* The records from the oldest to the newest. *)
Snapshot(l) ==
  [k \in 1 .. Len(l.records) |->
     l.records[((l.start_index + k - 1) % Len(l.records)) + 1]]

(* Mutant: start_index_ survives the clearing of the records. *)
MutCleared(l) ==
  [records |-> <<>>, start_index |-> l.start_index,
   next_sequence |-> l.next_sequence, dropped_count |-> 0]

(* Numbering goes on where it was. *)
Cleared(l) ==
  [records |-> <<>>, start_index |-> 0,
   next_sequence |-> l.next_sequence, dropped_count |-> 0]
=============================================================================
