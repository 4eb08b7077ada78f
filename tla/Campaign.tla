------------------------------ MODULE Campaign ------------------------------
(***************************************************************************)
(* The scenarios that the campaign tools generate and hand to the scenario *)
(* runner: one for every fault (tools/run_fdir_campaign.py) and the        *)
(* templates of the Monte Carlo runs (tools/run_monte_carlo.py).  Each tool *)
(* states what the vehicle should report after every step; the tables here *)
(* are the tools', and not derived from the vehicle's.                     *)
(***************************************************************************)
EXTENDS FdirManager

CONSTANTS
  CampaignLoops,    \* loop_count: 12, 20 or 22 in the tools
  DisturbedLoop     \* sensor_timeout_loop or watchdog_timeout_loop: 7 to 11

ASSUME CampaignAssumption == {CampaignLoops, DisturbedLoop} \subseteq Nat

(* The command of a step that only waits. *)
NoCommand == [command_id |-> "none", argument |-> 0]

SetMode(mode)      == [command_id |-> "SET_MODE", argument |-> ModeCode[mode]]
InjectFault(fault) == [command_id |-> "INJECT_FAULT", argument |-> FaultNumber[fault]]
ClearFault         == [command_id |-> "CLEAR_FAULT", argument |-> 0]

(* Step number seq of a scenario in which every step so far has a command. *)
CommandStep(seq, command, status, mode, fault) ==
  [command |-> command, offset |-> 0,
   expect |-> [ack_seq |-> seq, ack_cmd |-> command.command_id, ack_status |-> status,
               mode |-> mode, fault |-> fault]]

WaitStep(mode, fault) ==
  [command |-> NoCommand, offset |-> 0, expect |-> [mode |-> mode, fault |-> fault]]

Scenario(sensorLoop, watchdogLoop, steps) ==
  [loop_count |-> CampaignLoops, sensor_timeout_loop |-> sensorLoop,
   watchdog_timeout_loop |-> watchdogLoop, steps |-> steps]

EnterNominal == CommandStep(1, SetMode("NOMINAL"), "ACCEPTED", "NOMINAL", "NONE")

FaultCases ==
  [SENSOR_TIMEOUT            |-> "SAFE",
   SENSOR_INVALID_DATA       |-> "SAFE",
   PAYLOAD_HEARTBEAT_TIMEOUT |-> "DEGRADED_PAYLOAD",
   CPU_OVERLOAD              |-> "DEGRADED_PAYLOAD",
   MEMORY_OVERLOAD           |-> "SAFE",
   TELEMETRY_SOCKET_FAILURE  |-> "SAFE",
   COMMAND_BAD_CRC           |-> "NOMINAL",
   COMMAND_UNKNOWN_ID        |-> "NOMINAL",
   COMMAND_TIMEOUT           |-> "SAFE",
   WATCHDOG_DEADLINE_MISS    |-> "SAFE"]

ScenarioFor(fault) ==
  Scenario(0, 0, <<EnterNominal,
                   CommandStep(2, InjectFault(fault), "ACCEPTED", FaultCases[fault], fault)>>)

FdirCampaign == {ScenarioFor(fault) : fault \in DOMAIN FaultCases}

(* The templates of make_case; the first of them is the beginning of the others. *)
MakeCase ==
  {Scenario(0, 0, <<EnterNominal>>),
   Scenario(0, 0, <<CommandStep(1, SetMode("RECOVERY"), "REJECTED_INVALID_TRANSITION", "BOOT", "NONE")>>),
   Scenario(0, 0,
     <<EnterNominal,
       CommandStep(2, InjectFault("CPU_OVERLOAD"), "ACCEPTED", "DEGRADED_PAYLOAD", "CPU_OVERLOAD"),
       CommandStep(3, ClearFault, "ACCEPTED", "DEGRADED_PAYLOAD", "NONE")>>),
   Scenario(DisturbedLoop, 0, <<EnterNominal, WaitStep("SAFE", "SENSOR_TIMEOUT")>>),
   Scenario(0, DisturbedLoop, <<EnterNominal, WaitStep("SAFE", "WATCHDOG_DEADLINE_MISS")>>)}
=============================================================================
