------------------------ MODULE ConfigurationService ------------------------
(***************************************************************************)
(* The configuration service (fsw/src/configuration_service.cpp).  It      *)
(* holds one active configuration, replaces it by a validated candidate    *)
(* whose author names the revision that the candidate is based on, and     *)
(* stops replacing it once it is locked for flight.                        *)
(*                                                                         *)
(* Authors are clients that read active() at one time and call apply() at  *)
(* another, with calls of other clients and of lock() in between.          *)
(***************************************************************************)
EXTENDS Integers

CONSTANTS
  Configuration,   \* configurations that are offered, good and bad
  Client,          \* authors of configurations
  SchemaVersion,   \* ASTRA_CONFIGURATION_SCHEMA_VERSION
  TimeModulus,     \* 2^64: values of a std::uint64_t
  CounterModulus   \* 2^32: values of a std::uint32_t

RateGroupFields == [period_ticks: Nat, phase_ticks: Nat, relative_deadline_ticks: Nat]

ASSUME ConfigurationAssumption ==
  /\ Client # {}
  /\ TimeModulus \in Nat \ {0}
  /\ CounterModulus \in Nat \ {0}
  /\ Configuration \subseteq
       [schema_version: Nat, revision: Nat, event_log_capacity: Nat,
        maximum_age_ms: 0 .. TimeModulus - 1, maximum_future_skew_ms: 0 .. TimeModulus - 1,
        maximum_failed_attempts: 0 .. CounterModulus - 1,
        flight: RateGroupFields, housekeeping: RateGroupFields]

(* validate_rate_group *)
RateGroupAccepted(g) ==
  /\ g.period_ticks # 0
  /\ g.phase_ticks < g.period_ticks
  /\ g.relative_deadline_ticks # 0
  /\ g.relative_deadline_ticks <= g.period_ticks

(* Mutant: the housekeeping rate group is not looked at. *)
MutValidConfiguration(c) ==
  /\ c.schema_version = SchemaVersion
  /\ c.revision # 0
  /\ c.event_log_capacity \in 16 .. 4096
  /\ c.maximum_age_ms # TimeModulus - 1
  /\ c.maximum_future_skew_ms # TimeModulus - 1
  /\ c.maximum_failed_attempts # 0
  /\ RateGroupAccepted(c.flight)

(* validate_configuration *)
ValidConfiguration(c) ==
  /\ c.schema_version = SchemaVersion
  /\ c.revision # 0
  /\ c.event_log_capacity \in 16 .. 4096
  /\ c.maximum_age_ms # TimeModulus - 1
  /\ c.maximum_future_skew_ms # TimeModulus - 1
  /\ c.maximum_failed_attempts # 0
  /\ RateGroupAccepted(c.flight)
  /\ RateGroupAccepted(c.housekeeping)

VARIABLES
  active,   \* active_configuration_
  valid,    \* valid_
  locked,   \* locked_
  basis,    \* for each client, the configuration it read last
  report    \* the client that called apply or lock last, and its answer

vars == <<active, valid, locked, basis, report>>

(* The constructor takes any configuration, and says whether it was valid. *)
Init ==
  /\ active \in Configuration
  /\ valid = ValidConfiguration(active)
  /\ locked = FALSE
  /\ basis = [c \in Client |-> active]
  /\ report = [client |-> CHOOSE c \in Client : TRUE, status |-> "NONE"]

Read(client) ==
  /\ basis' = [basis EXCEPT ![client] = active]
  /\ UNCHANGED <<active, valid, locked, report>>

(* Mutant: the candidate need only be newer than the configuration it is based *)
(* on.                                                                         *)
MutApplyStatus(candidate, expected) ==
  IF locked                                            THEN "REJECTED_LOCKED"
  ELSE IF candidate.revision <= expected               THEN "REJECTED_NON_MONOTONIC_REVISION"
  ELSE IF ValidConfiguration(candidate)                THEN "ACCEPTED"
  ELSE IF candidate.schema_version # SchemaVersion     THEN "REJECTED_INVALID_SCHEMA"
  ELSE "REJECTED_INVALID_VALUE"

(* Mutant: the lock is not looked at. *)
MutApplyStatusUnlocked(candidate, expected) ==
  IF expected # active.revision                        THEN "REJECTED_REVISION_CONFLICT"
  ELSE IF candidate.revision <= active.revision        THEN "REJECTED_NON_MONOTONIC_REVISION"
  ELSE IF ValidConfiguration(candidate)                THEN "ACCEPTED"
  ELSE IF candidate.schema_version # SchemaVersion     THEN "REJECTED_INVALID_SCHEMA"
  ELSE "REJECTED_INVALID_VALUE"

(* The checks of apply(), in their order. *)
ApplyStatus(candidate, expected) ==
  IF locked                                            THEN "REJECTED_LOCKED"
  ELSE IF expected # active.revision                   THEN "REJECTED_REVISION_CONFLICT"
  ELSE IF candidate.revision <= active.revision        THEN "REJECTED_NON_MONOTONIC_REVISION"
  ELSE IF ValidConfiguration(candidate)                THEN "ACCEPTED"
  ELSE IF candidate.schema_version # SchemaVersion     THEN "REJECTED_INVALID_SCHEMA"
  ELSE "REJECTED_INVALID_VALUE"

(* A client offers a candidate for the configuration it read. *)
Apply(client, candidate) ==
  /\ report' = [client |-> client, status |-> ApplyStatus(candidate, basis[client].revision)]
  /\ IF report'.status = "ACCEPTED" THEN active' = candidate /\ valid' = TRUE
                                   ELSE UNCHANGED <<active, valid>>
  /\ UNCHANGED <<locked, basis>>

(* Mutant: a service without a valid configuration can be locked. *)
MutLock(client) ==
  /\ locked' = TRUE
  /\ report' = [client |-> client, status |-> IF locked THEN "LOCK_REFUSED" ELSE "LOCKED"]
  /\ UNCHANGED <<active, valid, basis>>

Lock(client) ==
  /\ locked' = (valid \/ locked)
  /\ report' = [client |-> client, status |-> IF ~valid \/ locked THEN "LOCK_REFUSED" ELSE "LOCKED"]
  /\ UNCHANGED <<active, valid, basis>>

Next ==
  \/ \E client \in Client : Read(client) \/ Lock(client)
  \/ \E client \in Client, candidate \in Configuration : Apply(client, candidate)

Spec == Init /\ [][Next]_vars

-----------------------------------------------------------------------------
(* The parts that FlightSoftwareExecutive builds from a configuration. *)
SchedulerOf(c) == INSTANCE RateGroupScheduler WITH
  Task <- {"flight", "housekeeping"}, TickModulus <- TimeModulus,
  RateGroup <- [flight |-> c.flight, housekeeping |-> c.housekeeping]
GuardOf(c) == INSTANCE GroundCommandGuard WITH
  MaximumAge <- c.maximum_age_ms, MaximumFutureSkew <- c.maximum_future_skew_ms,
  SequenceModulus <- CounterModulus, SerialHalfRange <- CounterModulus \div 2
SupervisorOf(c) == INSTANCE RecoverySupervisor WITH
  MaximumFailedAttempts <- c.maximum_failed_attempts

(* FlightSoftwareExecutive(c).valid() *)
ExecutiveValid(c) ==
  /\ SchedulerOf(c)!SchedulerValid
  /\ GuardOf(c)!GuardValid
  /\ SupervisorOf(c)!SupervisorValid
  /\ c.event_log_capacity > 0

(* A configuration that the service calls valid is one that every constructor   *)
(* of the executive accepts: the two sets of checks, in five files, agree.      *)
ValidConfigurationFlies == valid => ExecutiveValid(active)

(* Only a flyable configuration is ever locked, also when the service started   *)
(* from an invalid one.                                                         *)
LockedConfigurationFlies == locked => ExecutiveValid(active)

(* No update is lost: a candidate replaces exactly the configuration that its   *)
(* author had read, although the author only names a revision.  (Revisions      *)
(* identify the configurations that were ever active.)                          *)
NoLostUpdate ==
  [][active' # active => basis[report'.client] = active]_vars

(* The configuration that was locked is the one that flies: it never changes    *)
(* again, and neither does the lock.                                            *)
LockFreezes == [][locked => locked' /\ active' = active]_vars
=============================================================================
