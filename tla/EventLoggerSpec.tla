-------------------------- MODULE EventLoggerSpec --------------------------
(***************************************************************************)
(* The event logger on its own, and the promise it keeps.                  *)
(***************************************************************************)
EXTENDS EventLogger

CONSTANT Event   \* what is logged

VARIABLE log   \* records_, start_index_, next_sequence_, dropped_count_

Init == log = EmptyLog

Log(e) == log' = LogEvent(log, e)

Clear == log' = Cleared(log)

Next == Clear \/ \E e \in Event : Log(e)

Spec == Init /\ [][Next]_log

-----------------------------------------------------------------------------
(* The ring only turns once it is full: Snapshot's modulus, the current size,   *)
(* is then the modulus with which log() moved start_index_, the capacity.       *)
TypeOK ==
  /\ log.records \in Seq([sequence: 0 .. EventModulus - 1, event: Event])
  /\ Len(log.records) <= Capacity
  /\ log.start_index \in {0} \cup {i \in 1 .. Capacity - 1 : Len(log.records) = Capacity}
  /\ log.next_sequence \in 0 .. EventModulus - 1
  /\ log.dropped_count \in 0 .. EventModulus - 1

(* A snapshot has no hole and no repetition: its records are numbered           *)
(* consecutively and end with the newest event logged.                          *)
SnapshotContiguous ==
  \A k \in 1 .. Len(log.records) :
    Snapshot(log)[k].sequence =
      (log.next_sequence + EventModulus - 1 - (Len(log.records) - k)) % EventModulus

(* The ring implements the promise of BoundedLog, read through its snapshot.     *)
Promise == INSTANCE BoundedLog WITH
  kept <- Snapshot(log), lost <- log.dropped_count, next <- log.next_sequence

ImplementsBoundedLog == Promise!Spec
=============================================================================
