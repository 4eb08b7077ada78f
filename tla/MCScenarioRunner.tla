-------------------------- MODULE MCScenarioRunner --------------------------
(* All scenarios of the campaigns, in ticks of 50 ms.  Start-up, loops and time-   *)
(* outs are fewer than in the code, so that the flight program may outlive the     *)
(* runner's patience.                                                             *)
EXTENDS ScenarioRunner

FlightThresholds ==
  [cpu_warning_percent |-> 80, cpu_critical_percent |-> 95,
   memory_warning_percent |-> 85, memory_critical_percent |-> 95,
   sensor_timeout_ms |-> 1000, payload_timeout_ms |-> 1500, loop_deadline_ms |-> 250]

FlightWatchdog ==
  [warning_ms |-> 8, timeout_ms |-> 10, loop_deadline_ms |-> 5, max_missed_deadlines |-> 3]

AllowAll ==
  [allow_noop |-> TRUE, allow_set_mode |-> TRUE, allow_fault_injection |-> TRUE,
   allow_telemetry_request |-> TRUE, allow_fault_clear |-> TRUE, allow_test_mode |-> TRUE]

(* The same command twice, with the same outcome; the second one is stamped ahead  *)
(* of the clock.                                                                  *)
Repeated ==
  Scenario(0, 0, <<EnterNominal,
                   [CommandStep(2, SetMode("NOMINAL"), "ACCEPTED", "NOMINAL", "NONE")
                      EXCEPT !.offset = 10]>>)

MCScenarios == FdirCampaign \cup MakeCase \cup {Repeated}
=============================================================================
