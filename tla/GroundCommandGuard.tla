------------------------- MODULE GroundCommandGuard -------------------------
(***************************************************************************)
(* The ground command guard (fsw/src/ground_command_guard.cpp): freshness  *)
(* of the command's time stamp, then serial-number comparison of its       *)
(* sequence number with the highest one accepted so far.                   *)
(*                                                                         *)
(* A library of operators on the record g of the guard's fields.           *)
(***************************************************************************)
EXTENDS Integers

CONSTANTS
  SequenceModulus,     \* 2^32: values of a std::uint32_t
  SerialHalfRange,     \* SERIAL_HALF_RANGE, 2^31
  TimeModulus,         \* 2^64: values of a std::uint64_t
  MaximumAge,          \* GroundCommandGuardConfig::maximum_age_ms
  MaximumFutureSkew    \* GroundCommandGuardConfig::maximum_future_skew_ms

ASSUME GuardAssumption ==
  /\ SerialHalfRange \in Nat \ {0}
  /\ SequenceModulus = 2 * SerialHalfRange
  /\ TimeModulus \in Nat \ {0}
  /\ MaximumAge \in 0 .. TimeModulus - 1
  /\ MaximumFutureSkew \in 0 .. TimeModulus - 1

SequenceNumber == 0 .. SequenceModulus - 1

GuardStatus == {"ACCEPTED", "REJECTED_DUPLICATE_SEQUENCE", "REJECTED_REPLAYED_SEQUENCE",
                "REJECTED_STALE_TIMESTAMP", "REJECTED_FUTURE_TIMESTAMP",
                "INVALID_CONFIGURATION"}

GuardState == [sequence_initialized: BOOLEAN, highest_sequence: SequenceNumber]

InitialGuard == [sequence_initialized |-> FALSE, highest_sequence |-> 0]

(* The largest 64-bit value is refused as a limit. *)
GuardValid == MaximumAge # TimeModulus - 1 /\ MaximumFutureSkew # TimeModulus - 1

(* Mutant: numbers are compared as if they never wrapped. *)
MutSequenceIsNewerPlain(candidate, reference) == candidate > reference

(* candidate - reference in 32-bit arithmetic is in the forward half range. *)
SequenceIsNewer(candidate, reference) ==
  (candidate - reference) % SequenceModulus \in 1 .. SerialHalfRange - 1

TooFarAhead(timestamp, now) == timestamp > now /\ timestamp - now > MaximumFutureSkew

(* Mutant: the age of a command is not checked. *)
MutTooOld(timestamp, now) == FALSE

TooOld(timestamp, now) == timestamp <= now /\ now - timestamp > MaximumAge

(* The checks in the order of GroundCommandGuard::evaluate. *)
GuardVerdict(g, sequence, timestamp, now) ==
  IF ~GuardValid                                        THEN "INVALID_CONFIGURATION"
  ELSE IF TooFarAhead(timestamp, now)                   THEN "REJECTED_FUTURE_TIMESTAMP"
  ELSE IF TooOld(timestamp, now)                        THEN "REJECTED_STALE_TIMESTAMP"
  ELSE IF ~g.sequence_initialized                       THEN "ACCEPTED"
  ELSE IF sequence = g.highest_sequence                 THEN "REJECTED_DUPLICATE_SEQUENCE"
  ELSE IF ~SequenceIsNewer(sequence, g.highest_sequence) THEN "REJECTED_REPLAYED_SEQUENCE"
  ELSE "ACCEPTED"

(* Mutant: a command refused for its time stamp uses up its number. *)
MutGuardAfter(g, sequence, timestamp, now) ==
  [sequence_initialized |-> TRUE, highest_sequence |-> sequence]

(* Only an accepted command uses up its sequence number. *)
GuardAfter(g, sequence, timestamp, now) ==
  IF GuardVerdict(g, sequence, timestamp, now) = "ACCEPTED"
    THEN [sequence_initialized |-> TRUE, highest_sequence |-> sequence]
    ELSE g
=============================================================================
