------------------------------ MODULE Watchdog ------------------------------
(***************************************************************************)
(* The software watchdog (fsw/src/watchdog.cpp), as operators on the       *)
(* record w of its fields.                                                 *)
(***************************************************************************)
EXTENDS Integers

CONSTANTS
  WatchdogConfig,    \* WatchdogConfig
  MissedModulus      \* 2^32: values of a std::uint32_t

ASSUME WatchdogAssumption ==
  /\ WatchdogConfig \in [warning_ms: Nat, timeout_ms: Nat, loop_deadline_ms: Nat,
                         max_missed_deadlines: Nat]
  /\ MissedModulus \in Nat \ {0}

InitialWatchdog == [last_kick_ms |-> 0, missed_deadline_count |-> 0]

WatchdogReset(now) == [last_kick_ms |-> now, missed_deadline_count |-> 0]

Kicked(w, now) == [w EXCEPT !.last_kick_ms = now]

LoopLate(loop) == loop >= WatchdogConfig.loop_deadline_ms

(* Every late loop counts; nothing but a reset takes a late loop back. *)
Counted(w, loop) ==
  [w EXCEPT !.missed_deadline_count = IF LoopLate(loop) THEN (@ + 1) % MissedModulus ELSE @]

(* A clock that went back counts as no time elapsed. *)
Elapsed(w, now) == IF now >= w.last_kick_ms THEN now - w.last_kick_ms ELSE 0

(* The report of Watchdog::evaluate on the counted w. *)
WatchdogReport(w, now, loop) ==
  IF \/ w.missed_deadline_count >= WatchdogConfig.max_missed_deadlines
     \/ Elapsed(w, now) >= WatchdogConfig.timeout_ms
    THEN [status |-> "EXPIRED", fault |-> "WATCHDOG_DEADLINE_MISS"]
  ELSE IF LoopLate(loop) \/ Elapsed(w, now) >= WatchdogConfig.warning_ms
    THEN [status |-> "WARNING", fault |-> "NONE"]
  ELSE [status |-> "OK", fault |-> "NONE"]
=============================================================================
