------------------------ MODULE MCRateGroupScheduler ------------------------
(***************************************************************************)
(* Two rate groups: one whose deadline is its period, so that the next     *)
(* release finds it neither overdue nor done, and a slower one with a      *)
(* phase and a deadline within the period.  The clock ends at its last     *)
(* tick, so the counters are bounded without a bound of their own.         *)
(***************************************************************************)
EXTENDS RateGroupSchedulerSpec

MCRateGroup ==
  [flight |-> [period_ticks |-> 2, phase_ticks |-> 0, relative_deadline_ticks |-> 2],
   housekeeping |-> [period_ticks |-> 3, phase_ticks |-> 1, relative_deadline_ticks |-> 1]]
=============================================================================
