--------------------- MODULE ConfigurationServiceProofs ---------------------
(***************************************************************************)
(* What the configuration service guarantees for any number of authors and *)
(* any configurations they may offer.                                      *)
(***************************************************************************)
EXTENDS ConfigurationService, TLAPS

TypeCorrect ==
  /\ active \in Configuration
  /\ valid \in BOOLEAN
  /\ locked \in BOOLEAN
  /\ basis \in [Client -> Configuration]

(* A revision names one configuration: what an author read is the active          *)
(* configuration, or an older one with a smaller revision.                        *)
RevisionsIdentify ==
  \A c \in Client : basis[c] = active \/ basis[c].revision < active.revision

(* What is active was checked, when the service says so; nothing else is locked.  *)
ValidityKnown == (valid => ValidConfiguration(active)) /\ (locked => valid)

Inv == TypeCorrect /\ RevisionsIdentify /\ ValidityKnown

(* What apply() says of a candidate it accepts. *)
LEMMA AcceptedMeans ==
  ASSUME NEW candidate, NEW expected, ApplyStatus(candidate, expected) = "ACCEPTED"
  PROVE  /\ ~locked
         /\ expected = active.revision
         /\ ~(candidate.revision <= active.revision)
         /\ ValidConfiguration(candidate)
BY DEF ApplyStatus

LEMMA InvInductive == Spec => []Inv
<1>1. Init => Inv
  <2> SUFFICES ASSUME Init PROVE Inv
    OBVIOUS
  <2>1. valid \in BOOLEAN /\ (valid => ValidConfiguration(active))
    BY Zenon DEF Init, ValidConfiguration
  <2> QED
    BY <2>1 DEF Init, Inv, TypeCorrect, RevisionsIdentify, ValidityKnown
<1>2. Inv /\ [Next]_vars => Inv'
  <2> SUFFICES ASSUME Inv, [Next]_vars PROVE Inv'
    OBVIOUS
  <2>1. CASE UNCHANGED vars
    BY <2>1 DEF vars, Inv, TypeCorrect, RevisionsIdentify, ValidityKnown, ValidConfiguration
  <2>2. ASSUME NEW client \in Client, Read(client) PROVE Inv'
    BY <2>2 DEF Read, Inv, TypeCorrect, RevisionsIdentify, ValidityKnown, ValidConfiguration
  <2>3. ASSUME NEW client \in Client, Lock(client) PROVE Inv'
    BY <2>3 DEF Lock, Inv, TypeCorrect, RevisionsIdentify, ValidityKnown, ValidConfiguration
  <2>4. ASSUME NEW client \in Client, NEW candidate \in Configuration, Apply(client, candidate)
        PROVE  Inv'
    <3>1. CASE report'.status # "ACCEPTED"
      BY <2>4, <3>1 DEF Apply, Inv, TypeCorrect, RevisionsIdentify, ValidityKnown, ValidConfiguration
    <3>2. CASE report'.status = "ACCEPTED"
      <4>1. /\ ApplyStatus(candidate, basis[client].revision) = "ACCEPTED"
            /\ active' = candidate /\ valid' = TRUE /\ UNCHANGED <<locked, basis>>
        BY <2>4, <3>2 DEF Apply
      <4>2. ~locked /\ ~(candidate.revision <= active.revision) /\ ValidConfiguration(candidate)
        BY <4>1, AcceptedMeans
      <4>3. candidate.revision \in Nat /\ active.revision \in Nat
            /\ \A c \in Client : basis[c].revision \in Nat
        BY ConfigurationAssumption DEF Inv, TypeCorrect
      <4>4. \A c \in Client : basis[c].revision < candidate.revision
        BY <4>2, <4>3 DEF Inv, RevisionsIdentify
      <4>5. ValidConfiguration(active)'
        BY <4>1, <4>2 DEF ValidConfiguration
      <4> QED
        BY <4>1, <4>2, <4>4, <4>5 DEF Inv, TypeCorrect, RevisionsIdentify, ValidityKnown
    <3> QED
      BY <3>1, <3>2
  <2> QED
    BY <2>1, <2>2, <2>3, <2>4 DEF Next
<1>3. QED
  BY <1>1, <1>2, PTL DEF Spec

(* Authors do not overwrite each other: whatever becomes active replaces the        *)
(* configuration its author had read.                                              *)
THEOREM NoUpdateLost == Spec => NoLostUpdate
<1>1. Inv /\ [Next]_vars => [active' # active => basis[report'.client] = active]_vars
  <2> SUFFICES ASSUME Inv, Next, active' # active PROVE basis[report'.client] = active
    OBVIOUS
  <2>1. PICK client \in Client, candidate \in Configuration : Apply(client, candidate)
    BY DEF Next, Read, Lock
  <2>2. /\ report' = [client |-> client, status |-> ApplyStatus(candidate, basis[client].revision)]
        /\ report'.status = "ACCEPTED"
    BY <2>1 DEF Apply
  <2>3. basis[client].revision = active.revision
    BY <2>2, AcceptedMeans
  <2>4. basis[client].revision \in Nat /\ active.revision \in Nat
    BY ConfigurationAssumption DEF Inv, TypeCorrect
  <2> QED
    BY <2>2, <2>3, <2>4 DEF Inv, RevisionsIdentify
<1>2. QED
  BY <1>1, InvInductive, PTL DEF Spec, NoLostUpdate

(* The checks of the service imply those of every constructor that the executive    *)
(* calls with the configuration.                                                    *)
LEMMA ValidFlies ==
  ASSUME NEW c \in Configuration, ValidConfiguration(c)
  PROVE  ExecutiveValid(c)
<1>1. SchedulerOf(c)!SchedulerValid
  <2>1. RateGroupAccepted(c.flight) /\ RateGroupAccepted(c.housekeeping)
    BY DEF ValidConfiguration
  <2>2. ASSUME NEW g \in RateGroupFields, RateGroupAccepted(g)
        PROVE  SchedulerOf(c)!RateGroupValid(g)
    BY <2>2 DEF RateGroupFields, RateGroupAccepted, SchedulerOf!RateGroupValid
  <2>3. c.flight \in RateGroupFields /\ c.housekeeping \in RateGroupFields
    BY ConfigurationAssumption
  <2> QED
    BY <2>1, <2>2, <2>3 DEF SchedulerOf!SchedulerValid
<1>2. GuardOf(c)!GuardValid
  BY ConfigurationAssumption DEF ValidConfiguration, GuardOf!GuardValid
<1>3. SupervisorOf(c)!SupervisorValid
  BY DEF ValidConfiguration, SupervisorOf!SupervisorValid
<1>4. c.event_log_capacity > 0
  <2> DEFINE capacity == c.event_log_capacity
  <2>1. capacity \in 16 .. 4096
    BY DEF ValidConfiguration
  <2> HIDE DEF capacity
  <2>2. capacity > 0
    BY <2>1
  <2> QED
    BY <2>2 DEF capacity
<1> QED
  BY <1>1, <1>2, <1>3, <1>4 DEF ExecutiveValid

(* What the service calls valid is accepted by every constructor of the executive.   *)
THEOREM ValidConfigurationsFly == Spec => []ValidConfigurationFlies
<1>1. Inv => ValidConfigurationFlies
  BY ValidFlies DEF Inv, TypeCorrect, ValidityKnown, ValidConfigurationFlies
<1>2. QED
  BY <1>1, InvInductive, PTL

(* What the service locks for flight is, too, even if it started from an invalid     *)
(* configuration.                                                                    *)
THEOREM LockedConfigurationsFly == Spec => []LockedConfigurationFlies
<1>1. Inv => LockedConfigurationFlies
  BY ValidFlies DEF Inv, TypeCorrect, ValidityKnown, LockedConfigurationFlies
<1>2. QED
  BY <1>1, InvInductive, PTL

(* lock() is final, for the configuration and for itself. *)
THEOREM LockIsFinal == Spec => LockFreezes
<1>1. Inv /\ [Next]_vars => [locked => locked' /\ active' = active]_vars
  <2> SUFFICES ASSUME Inv, Next, locked PROVE locked' /\ active' = active
    OBVIOUS
  <2>1. ASSUME NEW client \in Client, Read(client) \/ Lock(client)
        PROVE  locked' /\ active' = active
    BY <2>1 DEF Read, Lock, Inv, TypeCorrect
  <2>2. ASSUME NEW client \in Client, NEW candidate \in Configuration, Apply(client, candidate)
        PROVE  locked' /\ active' = active
    <3>1. ApplyStatus(candidate, basis[client].revision) = "REJECTED_LOCKED"
      BY DEF ApplyStatus
    <3> QED
      BY <2>2, <3>1 DEF Apply
  <2> QED
    BY <2>1, <2>2 DEF Next
<1>2. QED
  BY <1>1, InvInductive, PTL DEF Spec, LockFreezes
=============================================================================
