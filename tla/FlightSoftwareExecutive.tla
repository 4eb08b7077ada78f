----------------------- MODULE FlightSoftwareExecutive -----------------------
(***************************************************************************)
(* The executive (fsw/src/flight_software_executive.cpp): a step of the    *)
(* scheduler, then the released tasks in the order of the configuration,   *)
(* each completed before the step returns.  The flight task is a step of   *)
(* the application, whose completion the caller may delay on paper; the    *)
(* housekeeping task does nothing but complete.                            *)
(***************************************************************************)
EXTENDS FlightSoftwareApp, RateGroupScheduler

CONSTANT Delay   \* values of simulated_flight_completion_delay_ticks

ASSUME ExecutiveAssumption ==
  /\ Delay \subseteq Nat
  /\ Task = {"FLIGHT_SOFTWARE_STEP", "HOUSEKEEPING_SNAPSHOT"}

VARIABLES
  sched,   \* scheduler_
  exec,    \* FlightSoftwareExecutiveOutput of the last step
  late     \* history: flight completions that were late

executiveVars == <<vars, sched, exec, late>>

ExecutiveInit ==
  /\ Init
  /\ SchedulerValid
  /\ sched = InitialScheduler
  /\ exec = [scheduler_status |-> "OK", deadline_misses |-> {}, flight_software_ran |-> FALSE]
  /\ late = 0

(* The completion tick of the flight task saturates at the last tick. *)
CompletionTick(tick, delay) ==
  IF tick > TickModulus - 1 - delay THEN TickModulus - 1 ELSE tick + delay

(* Mutant: the flight task is left pending until its delay is over. *)
MutDispatched(s, released, tick, delay) ==
  LET flown == IF "FLIGHT_SOFTWARE_STEP" \in released /\ delay = 0
                 THEN AfterComplete(s, "FLIGHT_SOFTWARE_STEP", tick) ELSE s
  IN  IF "HOUSEKEEPING_SNAPSHOT" \in released
        THEN AfterComplete(flown, "HOUSEKEEPING_SNAPSHOT", tick) ELSE flown

(* The scheduler after the released tasks were dispatched. *)
Dispatched(s, released, tick, delay) ==
  LET flown == IF "FLIGHT_SOFTWARE_STEP" \in released
                 THEN AfterComplete(s, "FLIGHT_SOFTWARE_STEP", CompletionTick(tick, delay)) ELSE s
  IN  IF "HOUSEKEEPING_SNAPSHOT" \in released
        THEN AfterComplete(flown, "HOUSEKEEPING_SNAPSHOT", tick) ELSE flown

(* FlightSoftwareExecutive::step, given the step of the application that it      *)
(* makes if it makes one.                                                        *)
ExecutiveStep(tick, delay, appStep) ==
  LET after    == AfterStep(sched, tick)
      released == Releases(sched, tick)
      ran      == "FLIGHT_SOFTWARE_STEP" \in released
  IN  /\ sched' = Dispatched(after, released, tick, delay)
      /\ exec' = [scheduler_status    |-> StepStatus(sched, tick),
                  deadline_misses     |-> DeadlineMisses(sched, tick),
                  flight_software_ran |-> ran]
      /\ IF ran THEN appStep ELSE UNCHANGED vars
      /\ late' = late + IF ran /\ delay > RateGroup["FLIGHT_SOFTWARE_STEP"].relative_deadline_ticks
                          THEN 1 ELSE 0

ExecutiveNext ==
  \E tick \in Tick, delay \in Delay, now \in Timestamp, health \in HealthSnapshot :
    \/ ExecutiveStep(tick, delay, Step(now, health))
    \/ \E command \in Command : ExecutiveStep(tick, delay, StepWithCommand(now, health, command))

ExecutiveSpec == ExecutiveInit /\ [][ExecutiveNext]_executiveVars

-----------------------------------------------------------------------------
Flight == sched.tasks["FLIGHT_SOFTWARE_STEP"]

(* No release outlives the step that made it, so an overrun of the flight task   *)
(* cannot cover for the next release, and the executive's list of misses         *)
(* observed by step() stays empty: overruns show in the statistics only.         *)
NothingLeftPending ==
  /\ \A t \in Task : ~sched.tasks[t].pending
  /\ exec.deadline_misses = {}

(* The application makes exactly one step per release of the flight task,        *)
(* whatever ticks the caller skips, repeats or takes back: its telemetry number   *)
(* is the release count.                                                          *)
OneStepPerRelease ==
  /\ telemetry_sequence = Flight.release_count % TelemetryModulus
  /\ watchdog_initialized <=> Flight.release_count > 0

(* The statistics count each late flight completion once, and no other.  (At the  *)
(* end of the 64-bit clock deadlines wrap and delays saturate; that is exempt.)    *)
LateCompletionsCounted ==
  sched.last_tick + RateGroup["FLIGHT_SOFTWARE_STEP"].relative_deadline_ticks < TickModulus - 1
    => Flight.deadline_miss_count = late
=============================================================================
