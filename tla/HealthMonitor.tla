---------------------------- MODULE HealthMonitor ----------------------------
(***************************************************************************)
(* The health monitor (fsw/src/health_monitor.cpp): a snapshot of the      *)
(* vehicle against thresholds.  Loads and ages are numbers; what matters   *)
(* is on which side of its thresholds each one is.                         *)
(***************************************************************************)
EXTENDS FdirManager

CONSTANT Thresholds   \* HealthThresholds

ASSUME ThresholdsAssumption ==
  Thresholds \in [cpu_warning_percent: Nat, cpu_critical_percent: Nat,
                  memory_warning_percent: Nat, memory_critical_percent: Nat,
                  sensor_timeout_ms: Nat, payload_timeout_ms: Nat, loop_deadline_ms: Nat]

(* The critical conditions and their faults, in the order of the code. *)
CriticalFault == <<"CPU_OVERLOAD", "MEMORY_OVERLOAD", "SENSOR_TIMEOUT", "WATCHDOG_DEADLINE_MISS">>

CriticalConditions(s) ==
  {i \in 1 .. 4 :
     \/ i = 1 /\ s.cpu_load_percent    >= Thresholds.cpu_critical_percent
     \/ i = 2 /\ s.memory_load_percent >= Thresholds.memory_critical_percent
     \/ i = 3 /\ s.sensor_age_ms       >= Thresholds.sensor_timeout_ms
     \/ i = 4 /\ s.loop_duration_ms    >= Thresholds.loop_deadline_ms}

(* The warning conditions and their faults, in the order of the code. *)
WarningFault == <<"CPU_OVERLOAD", "MEMORY_OVERLOAD", "PAYLOAD_HEARTBEAT_TIMEOUT">>

WarningConditions(s) ==
  {i \in 1 .. 3 :
     \/ i = 1 /\ s.cpu_load_percent    >= Thresholds.cpu_warning_percent
     \/ i = 2 /\ s.memory_load_percent >= Thresholds.memory_warning_percent
     \/ i = 3 /\ s.payload_age_ms      >= Thresholds.payload_timeout_ms}

(* Mutant: a critical condition found later does not replace the first one. *)
MutHealthReport(s) ==
  LET critical == CriticalConditions(s)
  IN  IF critical # {}
        THEN [status |-> "CRITICAL",
              fault  |-> CriticalFault[CHOOSE i \in critical : \A j \in critical : i <= j]]
        ELSE [status |-> "OK", fault |-> "NONE"]

(* HealthMonitor::evaluate: the last critical condition gives the fault; when  *)
(* there is none, the first warning does.                                      *)
HealthReport(s) ==
  LET critical == CriticalConditions(s)
      warning  == WarningConditions(s)
  IN  IF critical # {}
        THEN [status |-> "CRITICAL",
              fault  |-> CriticalFault[CHOOSE i \in critical : \A j \in critical : i >= j]]
      ELSE IF warning # {}
        THEN [status |-> "WARNING",
              fault  |-> WarningFault[CHOOSE i \in warning : \A j \in warning : i <= j]]
      ELSE [status |-> "OK", fault |-> "NONE"]
=============================================================================
