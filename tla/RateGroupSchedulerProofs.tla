---------------------- MODULE RateGroupSchedulerProofs ----------------------
(***************************************************************************)
(* What the rate-group scheduler guarantees for every configuration, every *)
(* width of its clock, and every sequence of ticks and completions.        *)
(***************************************************************************)
EXTENDS RateGroupSchedulerSpec, TLAPS

TaskState ==
  [pending: BOOLEAN, deadline_miss_recorded: BOOLEAN, release_tick: Tick,
   deadline_tick: Tick, release_count: Nat, completion_count: Nat, deadline_miss_count: Nat]

TypeCorrect ==
  /\ sched \in [tick_initialized: BOOLEAN, last_tick: Tick, tasks: [Task -> TaskState]]
  /\ onTime \in [Task -> Nat]

Inv ==
  /\ TypeCorrect
  /\ EveryReleaseAccountedOnce
  /\ OverdueIsRecorded
  /\ ReleasesFollowConfiguration

-----------------------------------------------------------------------------
(* Counting periods: one more has begun exactly at the multiples of the period,    *)
(* where step() finds the task due.                                                *)
LEMMA PeriodsBegun ==
  ASSUME NEW n \in Nat, NEW p \in Nat \ {0}
  PROVE  /\ (n + 1) \div p = (n \div p) + IF (n + 1) % p = 0 THEN 1 ELSE 0
         /\ 0 \div p = 0
         /\ 0 % p = 0
         /\ n \div p \in Nat
OBVIOUS

(* What step() makes of one task: still well-formed, with at most one more release  *)
(* and one more miss.                                                               *)
LEMMA SteppedTask ==
  ASSUME NEW task \in TaskState, NEW g \in [period_ticks: Nat, phase_ticks: Nat,
                                            relative_deadline_ticks: Nat],
         NEW tick \in Tick
  PROVE  Released(task, g, tick) \in TaskState /\ Waited(task, g, tick) \in TaskState
<1>1. MissesAfter(task, MissObserved(task, g, tick)) \in Nat
  BY DEF MissesAfter, TaskState
<1>2. (tick + g.relative_deadline_ticks) % TickModulus \in Tick
  BY SchedulerAssumption DEF Tick
<1>3. (task.deadline_miss_recorded \/ MissObserved(task, g, tick)) \in BOOLEAN
  OBVIOUS
<1>4. Released(task, g, tick) \in TaskState
  BY <1>1, <1>2 DEF Released, TaskState
<1>5. Waited(task, g, tick) \in TaskState
  BY <1>1, <1>3 DEF Waited, TaskState
<1> QED
  BY <1>4, <1>5

(* complete() leaves a well-formed task, closed, with one more completion. *)
LEMMA CompletedTask ==
  ASSUME NEW task \in TaskState, NEW tick \in Tick
  PROVE  /\ Completed(task, tick) \in TaskState
         /\ ~Completed(task, tick).pending
         /\ Completed(task, tick).release_count = task.release_count
         /\ Completed(task, tick).deadline_miss_count =
              MissesAfter(task, Open(task) /\ ~CompletedOnTime(task, tick))
<1> DEFINE misses == MissesAfter(task, Open(task) /\ ~CompletedOnTime(task, tick))
<1>1. misses \in Nat
  BY DEF MissesAfter, TaskState
<1>2. Completed(task, tick) =
        [task EXCEPT !.pending = FALSE, !.deadline_miss_recorded = FALSE,
                     !.completion_count = task.completion_count + 1,
                     !.deadline_miss_count = misses]
  BY DEF Completed
<1> HIDE DEF misses
<1>3. Completed(task, tick) =
        [pending |-> FALSE, deadline_miss_recorded |-> FALSE,
         release_tick |-> task.release_tick, deadline_tick |-> task.deadline_tick,
         release_count |-> task.release_count,
         completion_count |-> task.completion_count + 1,
         deadline_miss_count |-> misses]
  BY <1>2 DEF TaskState
<1>4. /\ Completed(task, tick) \in TaskState
      /\ ~Completed(task, tick).pending
      /\ Completed(task, tick).release_count = task.release_count
      /\ Completed(task, tick).deadline_miss_count = misses
  BY <1>1, <1>3 DEF TaskState
<1> QED
  BY <1>4 DEF misses

(* A tick that step() accepts moves the scheduler and every task; any other leaves  *)
(* everything alone.                                                                *)
LEMMA StepCases ==
  ASSUME NEW tick \in Tick, Step(tick)
  PROVE  \/ UNCHANGED <<sched, onTime>>
         \/ /\ SchedulerValid
            /\ TickContinues(sched, tick)
            /\ sched' = Stepped(sched, tick)
            /\ UNCHANGED onTime
BY DEF Step, AfterStep, StepStatus

(* A completion that complete() accepts closes one pending task; any other leaves   *)
(* everything alone.                                                                *)
LEMMA CompleteCases ==
  ASSUME NEW t, NEW tick \in Tick, Complete(t, tick)
  PROVE  \/ UNCHANGED <<sched, onTime>>
         \/ /\ t \in Task
            /\ sched.tasks[t].pending
            /\ sched' = [sched EXCEPT !.tasks[t] = Completed(@, tick)]
            /\ onTime' = IF CompletedOnTime(sched.tasks[t], tick)
                           THEN [onTime EXCEPT ![t] = @ + 1] ELSE onTime
BY DEF Complete, AfterComplete, CompletionStatus

-----------------------------------------------------------------------------
(* The inductive invariant: the accounting of releases, misses and completions, the *)
(* deadlines of open releases, and the number of releases the clock implies.        *)
LEMMA InvInductive == Spec => []Inv
<1>1. Init => Inv
  <2> SUFFICES ASSUME Init PROVE Inv
    OBVIOUS
  <2>1. 0 \in Tick
    BY SchedulerAssumption DEF Tick
  <2>2. IdleTask \in TaskState
    BY <2>1 DEF IdleTask, TaskState
  <2>3. TypeCorrect
    BY <2>1, <2>2 DEF Init, InitialScheduler, TypeCorrect
  <2>4. /\ ~sched.tick_initialized /\ sched.last_tick = 0
        /\ \A t \in Task : sched.tasks[t] = IdleTask /\ onTime[t] = 0
    BY DEF Init, InitialScheduler
  <2> QED
    BY <2>3, <2>4 DEF Inv, EveryReleaseAccountedOnce, OverdueIsRecorded,
                      ReleasesFollowConfiguration, IdleTask, Open
<1>2. Inv /\ [Next]_vars => Inv'
  <2> SUFFICES ASSUME Inv, [Next]_vars PROVE Inv'
    OBVIOUS
  <2>1. CASE UNCHANGED <<sched, onTime>>
    BY <2>1 DEF Inv, TypeCorrect, EveryReleaseAccountedOnce,
                OverdueIsRecorded, ReleasesFollowConfiguration, Open
  <2>2. ASSUME NEW tick \in Tick, SchedulerValid, TickContinues(sched, tick),
               sched' = Stepped(sched, tick), UNCHANGED onTime
        PROVE  Inv'
    <3> DEFINE Dues(t) == Due(RateGroup[t], tick)
               After(t) == IF Dues(t) THEN Released(sched.tasks[t], RateGroup[t], tick)
                                      ELSE Waited(sched.tasks[t], RateGroup[t], tick)
    <3>1. /\ sched'.tick_initialized = TRUE /\ sched'.last_tick = tick
          /\ sched'.tasks = [t \in Task |-> After(t)]
          /\ sched' = [tick_initialized |-> TRUE, last_tick |-> tick, tasks |-> sched'.tasks]
      BY <2>2 DEF Stepped
    <3>2. \A t \in Task : RateGroup[t] \in [period_ticks: Nat, phase_ticks: Nat,
                                            relative_deadline_ticks: Nat]
      BY SchedulerAssumption
    <3>3. \A t \in Task : sched.tasks[t] \in TaskState /\ onTime[t] \in Nat
      BY DEF Inv, TypeCorrect
    <3>4. \A t \in Task : After(t) \in TaskState
      BY <3>2, <3>3, SteppedTask
    <3>5. TypeCorrect'
      BY <2>2, <3>1, <3>4 DEF TypeCorrect, Inv
    <3>6. EveryReleaseAccountedOnce'
      <4> SUFFICES ASSUME NEW t \in Task
                   PROVE  After(t).release_count =
                            onTime[t] + After(t).deadline_miss_count + IF Open(After(t)) THEN 1 ELSE 0
        BY <2>2, <3>1 DEF EveryReleaseAccountedOnce, Open
      <4>1. sched.tasks[t].release_count =
              onTime[t] + sched.tasks[t].deadline_miss_count
                + IF Open(sched.tasks[t]) THEN 1 ELSE 0
        BY DEF Inv, EveryReleaseAccountedOnce
      <4>2. CASE Dues(t)
        BY <3>3, <4>1, <4>2 DEF Released, MissesAfter, MissObserved, Open, TaskState
      <4>3. CASE ~Dues(t)
        BY <3>3, <4>1, <4>3 DEF Waited, MissesAfter, MissObserved, Open, TaskState
      <4> QED
        BY <4>2, <4>3
    <3>7. OverdueIsRecorded'
      <4> SUFFICES ASSUME NEW t \in Task, Open(After(t)),
                          After(t).deadline_tick > After(t).release_tick
                   PROVE  tick <= After(t).deadline_tick
        BY <3>1 DEF OverdueIsRecorded, Open
      <4>1. CASE Dues(t)
        BY <3>4, <4>1 DEF Released, TaskState, Tick
      <4>2. CASE ~Dues(t)
        <5>1. /\ Open(sched.tasks[t]) /\ ~MissObserved(sched.tasks[t], RateGroup[t], tick)
              /\ After(t).deadline_tick = sched.tasks[t].deadline_tick
          BY <3>3, <4>2 DEF Waited, Open, TaskState
        <5> QED
          BY <3>3, <5>1 DEF MissObserved, TaskState, Tick
      <4> QED
        BY <4>1, <4>2
    <3>8. ReleasesFollowConfiguration'
      <4> SUFFICES ASSUME NEW t \in Task
                   PROVE  After(t).release_count =
                            IF tick >= RateGroup[t].phase_ticks
                              THEN ((tick - RateGroup[t].phase_ticks) \div RateGroup[t].period_ticks) + 1
                              ELSE 0
        BY <3>1 DEF ReleasesFollowConfiguration
      <4> DEFINE phase == RateGroup[t].phase_ticks
                 period == RateGroup[t].period_ticks
      <4>1. /\ phase \in Nat /\ period \in Nat \ {0}
            /\ tick \in Nat /\ sched.last_tick \in Nat
            /\ sched.tasks[t].release_count \in Nat
        BY <2>2, <3>2, <3>3 DEF SchedulerValid, RateGroupValid, Inv, TypeCorrect, TaskState, Tick
      <4>2. sched.tasks[t].release_count =
              IF sched.tick_initialized /\ sched.last_tick >= phase
                THEN ((sched.last_tick - phase) \div period) + 1 ELSE 0
        BY DEF Inv, ReleasesFollowConfiguration
      <4>3. IF sched.tick_initialized THEN tick = sched.last_tick + 1 ELSE tick = 0
        BY <2>2 DEF TickContinues
      <4>4. After(t).release_count = sched.tasks[t].release_count + IF Dues(t) THEN 1 ELSE 0
        BY <3>3 DEF Released, Waited, TaskState
      <4>5. Dues(t) <=> tick >= phase /\ (tick - phase) % period = 0
        BY DEF Due
      <4> DEFINE Begun == IF tick >= phase THEN ((tick - phase) \div period) + 1 ELSE 0
      <4> HIDE DEF phase, period, Dues, After
      <4>6. ASSUME tick < phase PROVE After(t).release_count = Begun
        BY <4>1, <4>2, <4>3, <4>4, <4>5, <4>6
      <4>7. ASSUME tick = phase PROVE After(t).release_count = Begun
        <5>1. tick - phase = 0 /\ 0 \div period = 0 /\ 0 % period = 0
          BY <4>1, <4>7, PeriodsBegun
        <5> QED
          BY <4>1, <4>2, <4>3, <4>4, <4>5, <4>7, <5>1
      <4>8. ASSUME tick > phase PROVE After(t).release_count = Begun
        <5>1. sched.tick_initialized /\ sched.last_tick >= phase /\ sched.last_tick - phase \in Nat
              /\ tick - phase = (sched.last_tick - phase) + 1
          BY <4>1, <4>3, <4>8
        <5> DEFINE n == sched.last_tick - phase
        <5>2. /\ (n + 1) \div period = (n \div period) + IF (n + 1) % period = 0 THEN 1 ELSE 0
              /\ n \div period \in Nat
          <6> HIDE DEF n
          <6> QED
            BY <4>1, <5>1, PeriodsBegun DEF n
        <5>3. tick - phase = n + 1
          BY <5>1
        <5> DEFINE before == n \div period
                   now == (tick - phase) \div period
        <5>4. /\ now = before + IF Dues(t) THEN 1 ELSE 0
              /\ before \in Nat
          BY <4>1, <4>5, <4>8, <5>2, <5>3
        <5>5. sched.tasks[t].release_count = before + 1
          BY <4>2, <5>1
        <5>6. Begun = now + 1
          BY <4>1, <4>8
        <5> HIDE DEF n, before, now, Begun
        <5> QED
          BY <4>4, <5>4, <5>5, <5>6
      <4>9. After(t).release_count = Begun
        BY <4>1, <4>6, <4>7, <4>8
      <4> QED
        BY <4>9 DEF phase, period
    <3> QED
      BY <3>5, <3>6, <3>7, <3>8 DEF Inv
  <2>3. ASSUME NEW u \in Task, NEW tick \in Tick, sched.tasks[u].pending,
               sched' = [sched EXCEPT !.tasks[u] = Completed(@, tick)],
               onTime' = IF CompletedOnTime(sched.tasks[u], tick)
                           THEN [onTime EXCEPT ![u] = @ + 1] ELSE onTime
        PROVE  Inv'
    <3>1. /\ sched'.tick_initialized = sched.tick_initialized
          /\ sched'.last_tick = sched.last_tick
          /\ sched'.tasks = [sched.tasks EXCEPT ![u] = Completed(@, tick)]
          /\ sched' = [tick_initialized |-> sched'.tick_initialized,
                       last_tick |-> sched'.last_tick, tasks |-> sched'.tasks]
      BY <2>3 DEF Inv, TypeCorrect
    <3>2. \A t \in Task : sched.tasks[t] \in TaskState /\ onTime[t] \in Nat
      BY DEF Inv, TypeCorrect
    <3>3. Completed(sched.tasks[u], tick) \in TaskState
      BY <3>2, CompletedTask
    <3>4. TypeCorrect'
      BY <2>3, <3>1, <3>2, <3>3 DEF TypeCorrect, Inv
    <3>5. EveryReleaseAccountedOnce'
      <4> SUFFICES ASSUME NEW t \in Task
                   PROVE  sched'.tasks[t].release_count =
                            onTime'[t] + sched'.tasks[t].deadline_miss_count
                              + IF Open(sched'.tasks[t]) THEN 1 ELSE 0
        BY DEF EveryReleaseAccountedOnce, Open
      <4>1. sched.tasks[t].release_count =
              onTime[t] + sched.tasks[t].deadline_miss_count
                + IF Open(sched.tasks[t]) THEN 1 ELSE 0
        BY DEF Inv, EveryReleaseAccountedOnce
      <4>2. CASE t = u
        <5>1. /\ sched'.tasks[t] = Completed(sched.tasks[t], tick)
              /\ onTime'[t] = onTime[t] + IF CompletedOnTime(sched.tasks[t], tick) THEN 1 ELSE 0
          BY <2>3, <3>1, <3>2, <4>2 DEF Inv, TypeCorrect
        <5>2. CompletedOnTime(sched.tasks[t], tick) => Open(sched.tasks[t])
          BY <2>3, <4>2 DEF CompletedOnTime, Open
        <5> QED
          BY <3>2, <4>1, <5>1, <5>2, CompletedTask DEF MissesAfter, Open, TaskState
      <4>3. CASE t # u
        BY <2>3, <3>1, <4>1, <4>3 DEF Inv, TypeCorrect
      <4> QED
        BY <4>2, <4>3
    <3>6. OverdueIsRecorded'
      BY <3>1, <3>2, CompletedTask DEF OverdueIsRecorded, Open, Inv, TypeCorrect
    <3>7. ReleasesFollowConfiguration'
      BY <3>1, <3>2, CompletedTask DEF ReleasesFollowConfiguration, Inv, TypeCorrect
    <3> QED
      BY <3>4, <3>5, <3>6, <3>7 DEF Inv
  <2>4. CASE UNCHANGED vars
    BY <2>1, <2>4 DEF vars
  <2>5. ASSUME NEW tick \in Tick, Step(tick) PROVE Inv'
    BY <2>1, <2>2, <2>5, StepCases
  <2>6. ASSUME NEW t, NEW tick \in Tick, Complete(t, tick) PROVE Inv'
    BY <2>1, <2>3, <2>6, CompleteCases
  <2> QED
    BY <2>4, <2>5, <2>6 DEF Next
<1>3. QED
  BY <1>1, <1>2, PTL DEF Spec

-----------------------------------------------------------------------------
(* Every release is completed on time, missed or still open, and never two of them:  *)
(* step() and complete() together record each miss exactly once.                     *)
THEOREM ReleasesAccountedOnce == Spec => []EveryReleaseAccountedOnce
BY InvInductive, PTL DEF Inv

(* Once step() has seen a tick after the deadline of an open release, the miss is on *)
(* record.                                                                           *)
THEOREM OverdueRecorded == Spec => []OverdueIsRecorded
BY InvInductive, PTL DEF Inv

(* step() releases each task at every due tick exactly once, whatever ticks it       *)
(* rejected in between.                                                              *)
THEOREM ReleasesFromConfiguration == Spec => []ReleasesFollowConfiguration
BY InvInductive, PTL DEF Inv

(* complete() believes the completion tick of its caller only as far as the           *)
(* scheduler's own clock allows.                                                     *)
THEOREM NotBackdated == Spec => OnTimeNotBackdated
<1>1. Inv /\ [Next]_vars =>
        [\A t \in Task :
           /\ onTime'[t] # onTime[t]
           /\ sched.tasks[t].deadline_tick > sched.tasks[t].release_tick
           => sched.last_tick <= sched.tasks[t].deadline_tick]_vars
  <2> SUFFICES ASSUME Inv, Next, NEW t \in Task, onTime'[t] # onTime[t],
                      sched.tasks[t].deadline_tick > sched.tasks[t].release_tick
               PROVE  sched.last_tick <= sched.tasks[t].deadline_tick
    BY DEF vars
  <2>1. PICK u \in Task \cup {UnknownTask}, tick \in Tick : Complete(u, tick)
    BY DEF Next, Step
  <2>2. /\ u \in Task /\ sched.tasks[u].pending
        /\ onTime' = IF CompletedOnTime(sched.tasks[u], tick)
                       THEN [onTime EXCEPT ![u] = @ + 1] ELSE onTime
    BY <2>1, CompleteCases
  <2>3. t = u /\ CompletedOnTime(sched.tasks[t], tick)
    BY <2>2 DEF Inv, TypeCorrect
  <2>4. Open(sched.tasks[t])
    BY <2>2, <2>3 DEF CompletedOnTime, Open
  <2> QED
    BY <2>4 DEF Inv, OverdueIsRecorded
<1> QED
  BY <1>1, InvInductive, PTL DEF Spec, OnTimeNotBackdated
=============================================================================
