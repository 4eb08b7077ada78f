------------------------ MODULE CommandTelemetryLoop ------------------------
(***************************************************************************)
(* The flight program (fsw/src/command_telemetry_demo.cpp): a loop that     *)
(* takes the time, waits for a command, lets the application take a step,   *)
(* sends a telemetry packet and sleeps.  The receiver and the sender are    *)
(* those of fsw/src/udp_command_receiver.cpp and udp_telemetry_sender.cpp.  *)
(*                                                                         *)
(* Time is counted in ticks.  A thread that sleeps or waits has a timer:    *)
(* it goes on no earlier than timer.from, and the clock does not pass       *)
(* timer.to before it did.                                                 *)
(***************************************************************************)
EXTENDS FlightSoftwareApp

CONSTANTS
  Scenarios,           \* scenarios, with the arguments of the program
  ReceiveTimeout,      \* 50 ms, the timeout of the command socket
  LoopSleep,           \* 150 ms at the end of a loop
  WatchdogSleep,       \* 650 ms before the loop that should trip the watchdog
  StartupTime,         \* ticks the program needs at most until its sockets are open
  Jitter               \* ticks a sleeping thread may oversleep

ASSUME LoopAssumption ==
  /\ \A s \in Scenarios :
       {s.loop_count, s.sensor_timeout_loop, s.watchdog_timeout_loop} \subseteq Nat
  /\ {ReceiveTimeout, LoopSleep, WatchdogSleep, StartupTime, Jitter} \subseteq Nat

(* What the watchdog of a scenario is counted on for: its 500 ms are longer than a  *)
(* loop that is not held up, of 50 + 150 ms, and no longer than one that is; the    *)
(* loop that is held up is not the first, in which the watchdog only starts.  The   *)
(* program reports loops of no duration, which are never late.                      *)
ASSUME TimingAssumption ==
  /\ ReceiveTimeout + LoopSleep + Jitter < WatchdogConfig.timeout_ms
  /\ WatchdogConfig.timeout_ms <= LoopSleep + WatchdogSleep
  /\ WatchdogConfig.loop_deadline_ms > 0 /\ WatchdogConfig.max_missed_deadlines > 0
  /\ \A s \in Scenarios : s.watchdog_timeout_loop # 1

VARIABLES
  clock,
  scenario,   \* the one that is run; it does not change
  program,    \* "starting", "asleep", "receiving", "ended", "failed" or "terminated"
  loop,       \* the number of the current loop
  timer,
  stamp,      \* input.timestamp_ms of the current loop
  socket,     \* the datagrams in the command socket
  downlink    \* the telemetry that was sent and not yet received

appVars  == <<proc, guard, watchdog, watchdog_initialized, log, ack, telemetry_sequence, output>>
loopVars == <<scenario, program, loop, timer, stamp, socket, downlink>>

Window(from, length) == [from |-> from, to |-> from + length]

Malformed == [malformed |-> TRUE]

LoopInit ==
  /\ Init
  /\ clock = 0
  /\ scenario \in Scenarios
  /\ program = "starting"
  /\ loop = 1
  /\ timer = Window(0, StartupTime)
  /\ stamp = 0
  /\ socket = <<>>
  /\ downlink = <<>>

Running == program \in {"starting", "asleep", "receiving"}

(* Mutant: loops are counted from 0 where the argument counts from 1. *)
MutDelayBefore(n) == IF n - 1 = scenario.watchdog_timeout_loop /\ n <= scenario.loop_count THEN WatchdogSleep ELSE 0

(* The sleep that comes before loop n takes its time stamp. *)
DelayBefore(n) == IF n = scenario.watchdog_timeout_loop /\ n <= scenario.loop_count THEN WatchdogSleep ELSE 0

(* The sockets are open and the first loop begins. *)
StartUp ==
  /\ program = "starting"
  /\ program' = "asleep"
  /\ timer' = Window(clock + DelayBefore(1), Jitter)
  /\ UNCHANGED <<clock, scenario, loop, stamp, socket, downlink, appVars>>

(* The time stamp is taken before the program waits for a command. *)
BeginLoop ==
  /\ program = "asleep" /\ clock >= timer.from /\ loop <= scenario.loop_count
  /\ program' = "receiving"
  /\ stamp' = clock
  /\ timer' = Window(clock, ReceiveTimeout)
  /\ UNCHANGED <<clock, scenario, loop, socket, downlink, appVars>>

(* The simulated vehicle: the load follows the fault, the sensor falls silent in  *)
(* loop sensor_timeout_loop for good.                                             *)
LoopInput ==
  [cpu_load_percent |-> IF proc.last_fault = "CPU_OVERLOAD" THEN 92 ELSE 18,
   memory_load_percent |-> 42 + loop \div 4,
   sensor_age_ms |-> IF scenario.sensor_timeout_loop # 0 /\ loop >= scenario.sensor_timeout_loop THEN 1500 ELSE 0,
   payload_age_ms |-> 0, loop_duration_ms |-> 0]

(* The fields of a telemetry packet that the ground looks at, as it decodes them. *)
TelemetryPacket ==
  [ack_seq |-> ack.sequence_number,
   ack_cmd |-> IF ack.command_id = "NOOP" THEN "NONE" ELSE ack.command_id,
   ack_status |-> ack.status, mode |-> proc.mode, fault |-> proc.last_fault]

(* The end of a loop: telemetry is sent and the program sleeps, or sending fails  *)
(* and the program ends there.                                                    *)
EndLoop ==
  /\ \/ /\ downlink' = Append(downlink, TelemetryPacket')
        /\ program' = "asleep"
     \/ /\ program' = "failed"
        /\ UNCHANGED downlink
  /\ loop' = loop + 1
  /\ timer' = Window(clock + LoopSleep + DelayBefore(loop + 1), Jitter)
  /\ UNCHANGED <<clock, scenario, stamp>>


(* One datagram is taken from the socket; what does not decode counts as nothing. *)
ReceivePacket ==
  /\ program = "receiving" /\ socket # <<>>
  /\ IF Head(socket) = Malformed THEN Step(stamp, LoopInput)
     ELSE StepWithCommand(stamp, LoopInput, Head(socket))
  /\ socket' = Tail(socket)
  /\ EndLoop

ReceiveNothing ==
  /\ program = "receiving" /\ socket = <<>> /\ clock >= timer.to
  /\ Step(stamp, LoopInput)
  /\ EndLoop
  /\ UNCHANGED socket

(* The sleep of the last loop is over and main returns. *)
Exit ==
  /\ program = "asleep" /\ clock >= timer.from /\ loop > scenario.loop_count
  /\ program' = "ended"
  /\ UNCHANGED <<clock, scenario, loop, timer, stamp, socket, downlink, appVars>>

LoopNext == StartUp \/ BeginLoop \/ ReceivePacket \/ ReceiveNothing \/ Exit

(* The clock waits for a thread whose time has come and for a datagram that has   *)
(* arrived.                                                                       *)
LoopAllowsTick ==
  /\ Running => clock < timer.to
  /\ ~(program = "receiving" /\ socket # <<>>)

-----------------------------------------------------------------------------
(* The watchdog expires in the loop that is held up, and in no other: the wait for *)
(* a command and the sleep stay below its timeout, although both stretch the time   *)
(* between two kicks.                                                              *)
WatchdogSeesDelay ==
  loop > 1 => (output.watchdog_expired <=> loop - 1 = scenario.watchdog_timeout_loop)
=============================================================================
