------------------------- MODULE RateGroupScheduler -------------------------
(***************************************************************************)
(* The rate-group scheduler (fsw/src/rate_group_scheduler.cpp) as          *)
(* operators on its state s: whether a tick was seen, the last tick, and   *)
(* for each task the open release and the counters.                        *)
(*                                                                         *)
(* Tasks are named by their identifiers, so the constructor's checks of    *)
(* names and of duplicate identifiers hold by construction here.           *)
(***************************************************************************)
EXTENDS Integers

CONSTANTS
  Task,          \* task identifiers of the configuration
  RateGroup,     \* RateGroupConfig of each task
  TickModulus    \* 2^64: values of a std::uint64_t

ASSUME SchedulerAssumption ==
  /\ RateGroup \in [Task -> [period_ticks: Nat, phase_ticks: Nat, relative_deadline_ticks: Nat]]
  /\ TickModulus \in Nat \ {0}

Tick == 0 .. TickModulus - 1

(* The checks of one rate group in the constructor. *)
RateGroupValid(g) ==
  /\ g.period_ticks > 0
  /\ g.phase_ticks < g.period_ticks
  /\ g.relative_deadline_ticks \in 1 .. g.period_ticks

SchedulerValid == Task # {} /\ \A t \in Task : RateGroupValid(RateGroup[t])

IdleTask == [pending |-> FALSE, deadline_miss_recorded |-> FALSE, release_tick |-> 0,
             deadline_tick |-> 0, release_count |-> 0, completion_count |-> 0,
             deadline_miss_count |-> 0]

InitialScheduler ==
  [tick_initialized |-> FALSE, last_tick |-> 0, tasks |-> [t \in Task |-> IdleTask]]

-----------------------------------------------------------------------------
(* RateGroupScheduler::step *)

(* The first tick is 0 and each later one the successor of the last; the last   *)
(* tick of all has none.                                                        *)
TickContinues(s, tick) ==
  IF s.tick_initialized THEN s.last_tick # TickModulus - 1 /\ tick = s.last_tick + 1
                        ELSE tick = 0

StepStatus(s, tick) ==
  IF ~SchedulerValid THEN "INVALID_CONFIGURATION"
  ELSE IF ~TickContinues(s, tick) THEN "TICK_DISCONTINUITY"
  ELSE "OK"

Due(g, tick) == tick >= g.phase_ticks /\ (tick - g.phase_ticks) % g.period_ticks = 0

(* An open release whose miss has not been recorded yet. *)
Open(task) == task.pending /\ ~task.deadline_miss_recorded

(* Mutant: a deadline is over one tick late. *)
MutMissObserved(task, g, tick) ==
  Open(task) /\ (tick > task.deadline_tick + 1 \/ Due(g, tick))

(* The step records the miss of an open release when its deadline has passed,   *)
(* and at the latest when the next release takes its place.                     *)
MissObserved(task, g, tick) ==
  Open(task) /\ (tick > task.deadline_tick \/ Due(g, tick))

MissesAfter(task, missed) == task.deadline_miss_count + IF missed THEN 1 ELSE 0

(* Mutant: a new release silently replaces an open one. *)
MutReleased(task, g, tick) ==
  [pending                |-> TRUE,
   deadline_miss_recorded |-> FALSE,
   release_tick           |-> tick,
   deadline_tick          |-> (tick + g.relative_deadline_ticks) % TickModulus,
   release_count          |-> task.release_count + 1,
   completion_count       |-> task.completion_count,
   deadline_miss_count    |-> MissesAfter(task, Open(task) /\ tick > task.deadline_tick)]

Released(task, g, tick) ==
  [pending                |-> TRUE,
   deadline_miss_recorded |-> FALSE,
   release_tick           |-> tick,
   deadline_tick          |-> (tick + g.relative_deadline_ticks) % TickModulus,
   release_count          |-> task.release_count + 1,
   completion_count       |-> task.completion_count,
   deadline_miss_count    |-> MissesAfter(task, MissObserved(task, g, tick))]

Waited(task, g, tick) ==
  [task EXCEPT !.deadline_miss_recorded = @ \/ MissObserved(task, g, tick),
               !.deadline_miss_count = MissesAfter(task, MissObserved(task, g, tick))]

Stepped(s, tick) ==
  [tick_initialized |-> TRUE,
   last_tick        |-> tick,
   tasks            |-> [t \in Task |-> IF Due(RateGroup[t], tick)
                                          THEN Released(s.tasks[t], RateGroup[t], tick)
                                          ELSE Waited(s.tasks[t], RateGroup[t], tick)]]

(* Mutant: a skipped tick is rejected but remembered. *)
MutAfterStep(s, tick) ==
  IF StepStatus(s, tick) = "OK" THEN Stepped(s, tick) ELSE [s EXCEPT !.last_tick = tick]

AfterStep(s, tick) == IF StepStatus(s, tick) = "OK" THEN Stepped(s, tick) ELSE s

(* Mutant: a rejected tick still releases the tasks that would be due. *)
MutReleases(s, tick) == {t \in Task : Due(RateGroup[t], tick)}

(* The tasks a step releases, and those whose miss it reports. *)
Releases(s, tick) ==
  {t \in Task : StepStatus(s, tick) = "OK" /\ Due(RateGroup[t], tick)}

DeadlineMisses(s, tick) ==
  {t \in Task : StepStatus(s, tick) = "OK" /\ MissObserved(s.tasks[t], RateGroup[t], tick)}

-----------------------------------------------------------------------------
(* RateGroupScheduler::complete.  The completion tick is the caller's word. *)

(* Mutant: a miss that was already recorded does not make a completion late. *)
MutCompletedOnTime(task, tick) == tick \in task.release_tick .. task.deadline_tick

(* Mutant: the deadline itself is too late. *)
MutCompletedOnTimeExclusive(task, tick) ==
  tick \in task.release_tick .. task.deadline_tick - 1 /\ ~task.deadline_miss_recorded

CompletedOnTime(task, tick) ==
  tick \in task.release_tick .. task.deadline_tick /\ ~task.deadline_miss_recorded

CompletionStatus(s, t, tick) ==
  IF ~SchedulerValid                           THEN "SCHEDULER_INVALID"
  ELSE IF t \notin Task                        THEN "UNKNOWN_TASK"
  ELSE IF ~s.tasks[t].pending                  THEN "NOT_PENDING"
  ELSE IF CompletedOnTime(s.tasks[t], tick)    THEN "COMPLETED_ON_TIME"
  ELSE "COMPLETED_LATE"

Completed(task, tick) ==
  [task EXCEPT !.pending = FALSE,
               !.deadline_miss_recorded = FALSE,
               !.completion_count = @ + 1,
               !.deadline_miss_count =
                 MissesAfter(task, Open(task) /\ ~CompletedOnTime(task, tick))]

AfterComplete(s, t, tick) ==
  IF CompletionStatus(s, t, tick) \in {"COMPLETED_ON_TIME", "COMPLETED_LATE"}
    THEN [s EXCEPT !.tasks[t] = Completed(@, tick)]
    ELSE s
=============================================================================
