----------------------- MODULE RateGroupSchedulerSpec -----------------------
(***************************************************************************)
(* The rate-group scheduler on its own, stepped with arbitrary ticks and   *)
(* told of completions at arbitrary times with arbitrary completion ticks: *)
(* tasks may overrun, finish early by their own account, or never finish.  *)
(***************************************************************************)
EXTENDS RateGroupScheduler

CONSTANT UnknownTask   \* an identifier the configuration does not have

ASSUME UnknownTaskAssumption == UnknownTask \notin Task

VARIABLES
  sched,     \* tick_initialized_, last_tick_, tasks_
  result,    \* what the last call reported
  onTime     \* history: completions of each task reported as on time

vars == <<sched, result, onTime>>

Init ==
  /\ sched = InitialScheduler
  /\ result = "OK"
  /\ onTime = [t \in Task |-> 0]

Step(tick) ==
  /\ sched' = AfterStep(sched, tick)
  /\ result' = StepStatus(sched, tick)
  /\ UNCHANGED onTime

Complete(t, tick) ==
  LET status == CompletionStatus(sched, t, tick)
  IN  /\ sched' = AfterComplete(sched, t, tick)
      /\ result' = status
      /\ onTime' = IF status = "COMPLETED_ON_TIME" THEN [onTime EXCEPT ![t] = @ + 1] ELSE onTime

Next ==
  \/ \E tick \in Tick : Step(tick)
  \/ \E t \in Task \cup {UnknownTask}, tick \in Tick : Complete(t, tick)

Spec == Init /\ [][Next]_vars

-----------------------------------------------------------------------------
(* Every release of a task is accounted for exactly once: completed on time,    *)
(* missed, or still open.  A release that is late in several ways (overdue at   *)
(* a tick, overtaken by the next release, completed late) is one miss.          *)
EveryReleaseAccountedOnce ==
  \A t \in Task :
    sched.tasks[t].release_count =
      onTime[t] + sched.tasks[t].deadline_miss_count + IF Open(sched.tasks[t]) THEN 1 ELSE 0

(* No release stays open beyond its deadline: once the scheduler has seen a     *)
(* later tick, the miss is on record.  (A deadline beyond the last tick of the  *)
(* 64-bit clock wraps and is exempt.)                                           *)
OverdueIsRecorded ==
  \A t \in Task :
    LET task == sched.tasks[t]
    IN  Open(task) /\ task.deadline_tick > task.release_tick
          => sched.last_tick <= task.deadline_tick

(* The releases follow from the configuration alone: one at every due tick up   *)
(* to the last tick accepted, none lost to or repeated by rejected ticks.       *)
ReleasesFollowConfiguration ==
  \A t \in Task :
    LET g == RateGroup[t]
    IN  sched.tasks[t].release_count =
          IF sched.tick_initialized /\ sched.last_tick >= g.phase_ticks
            THEN (sched.last_tick - g.phase_ticks) \div g.period_ticks + 1
            ELSE 0

(* A completion is on time only while the scheduler itself has not seen a tick  *)
(* after the deadline, whatever tick the caller claims to have completed at.    *)
OnTimeNotBackdated ==
  [][\A t \in Task :
       /\ onTime'[t] # onTime[t]
       /\ sched.tasks[t].deadline_tick > sched.tasks[t].release_tick
       => sched.last_tick <= sched.tasks[t].deadline_tick]_vars
=============================================================================
