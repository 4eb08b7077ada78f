------------------------- MODULE RecoverySupervisor -------------------------
(***************************************************************************)
(* The recovery supervisor (fsw/src/recovery_supervisor.cpp): a budget of  *)
(* failed attempts to leave RECOVERY.                                      *)
(*                                                                         *)
(* Operators on a record p that has the supervisor's failed_attempts and   *)
(* the mode of the mode manager, which record_failure may force to SAFE.   *)
(***************************************************************************)
EXTENDS ModeManager

CONSTANTS
  MaximumFailedAttempts, \* RecoverySupervisorConfig::maximum_failed_attempts
  CounterModulus         \* 2^32: values of a std::uint32_t

ASSUME RecoveryAssumption ==
  /\ CounterModulus \in Nat \ {0}
  /\ MaximumFailedAttempts \in 0 .. CounterModulus - 1

(* A limit of zero makes the supervisor, and the processor, invalid. *)
SupervisorValid == MaximumFailedAttempts # 0

(* Mutant: entering RECOVERY keeps the count of the session before. *)
MutBeginSession(p) == p

BeginSession(p) == [p EXCEPT !.failed_attempts = 0]

(* Mutant: a success does not end the session. *)
MutRecordSuccess(p) == p

RecordSuccess(p) == IF SupervisorValid THEN [p EXCEPT !.failed_attempts = 0] ELSE p

FailuresAfter(p) == (p.failed_attempts + 1) % CounterModulus

FailSafeForced(p) ==
  /\ SupervisorValid
  /\ FailuresAfter(p) >= MaximumFailedAttempts
  /\ IsValidTransition(p.mode, "SAFE")

(* Mutant: the limit is never enforced. *)
MutRecordFailureUnlimited(p) == [p EXCEPT !.failed_attempts = @ + 1]

RecordFailure(p) ==
  IF ~SupervisorValid THEN p
  ELSE [p EXCEPT !.failed_attempts = FailuresAfter(p),
                 !.mode = IF FailSafeForced(p) THEN "SAFE" ELSE @]

(* The budget of a recovery session, as the supervisor spends it: the count   *)
(* never passes the limit, failed attempts outlive RECOVERY only in SAFE, and  *)
(* a spent budget means that the vehicle is held in SAFE.                      *)
SessionBudget(p) ==
  /\ p.failed_attempts <= MaximumFailedAttempts
  /\ p.failed_attempts > 0 => p.mode \in {"RECOVERY", "SAFE"}
  /\ SupervisorValid /\ p.failed_attempts = MaximumFailedAttempts => p.mode = "SAFE"
=============================================================================
