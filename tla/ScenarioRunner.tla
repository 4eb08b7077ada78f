--------------------------- MODULE ScenarioRunner ---------------------------
(***************************************************************************)
(* The scenario runner (tools/run_scenario.py) and the flight program that  *)
(* it starts.  The runner has two threads: the listener appends every       *)
(* telemetry packet to a list, and the main thread sends the command of a   *)
(* step and looks through the list for a packet that meets the step's        *)
(* expectation.  Both programs run on one machine: they share the clock, and *)
(* the loopback loses and reorders nothing.                                 *)
(***************************************************************************)
EXTENDS CommandTelemetryLoop, Campaign, FiniteSets

CONSTANTS
  StartupDelay,     \* 0.8 s before the first step
  SendTime,         \* ticks that send_command.py runs at most
  ExpectTimeout,    \* 2.5 s
  PollSleep,        \* 50 ms between two looks at the list
  ServerWait,       \* 6 s for the flight program to end
  MaxStray,         \* bound on the datagrams of others that arrive
  MaxOverlooked,    \* bound on the packets that wait_for_expectation overlooks
  MaxClock          \* bound on the clock

ASSUME RunnerAssumption ==
  /\ {StartupDelay, SendTime, ExpectTimeout, PollSleep, ServerWait,
      MaxStray, MaxOverlooked, MaxClock} \subseteq Nat
  /\ \A s \in Scenarios : \A i \in DOMAIN s.steps :
       /\ s.steps[i].command # NoCommand => s.steps[i].command.command_id \in CommandId
       /\ DOMAIN s.steps[i].expect \subseteq {"ack_seq", "ack_cmd", "ack_status", "mode", "fault"}

(* The commands among the first n steps of a scenario. *)
CommandsUpTo(s, n) == {i \in 1 .. n : s.steps[i].command # NoCommand}

(* A scenario has steps, and a step with a command expects the acknowledgement of   *)
(* that command, counted from 1: so do all of scenarios/ and the campaign tools.     *)
ASSUME ScenarioAssumption ==
  \A s \in Scenarios :
    /\ Len(s.steps) \in Nat \ {0} /\ DOMAIN s.steps = 1 .. Len(s.steps)
    /\ \A i \in DOMAIN s.steps : s.steps[i].command # NoCommand =>
         /\ "ack_seq" \in DOMAIN s.steps[i].expect
         /\ s.steps[i].expect["ack_seq"] = Cardinality(CommandsUpTo(s, i))

VARIABLES
  runner,       \* "sending", "waiting", "scanned", "finishing" or "done"
  runnerTimer,
  deadline,     \* of wait_for_expectation, and of the wait for the flight program
  step,         \* index of the current step
  sequence,     \* number of the next command
  packets,      \* what the listener collected
  checked,      \* packets that wait_for_expectation has left behind
  passed,
  strays,       \* how many datagrams of others have arrived
  overlooked    \* how many packets came between a look at the list and the note of its length

runnerVars == <<runner, runnerTimer, deadline, step, sequence, packets, checked, passed, strays, overlooked>>
allVars    == <<clock, appVars, loopVars, runnerVars>>

Steps == scenario.steps

RunnerInit ==
  /\ LoopInit
  /\ runner = "sending"
  /\ runnerTimer = Window(StartupDelay, SendTime)
  /\ deadline = 0
  /\ step = 1
  /\ sequence = 1
  /\ packets = <<>>
  /\ checked = 0
  /\ passed = TRUE
  /\ strays = 0
  /\ overlooked = 0

-----------------------------------------------------------------------------
(* The listener thread. *)
Listen ==
  /\ runner # "done" /\ downlink # <<>>
  /\ overlooked' = overlooked + IF runner = "scanned" THEN 1 ELSE 0
  /\ overlooked' <= MaxOverlooked
  /\ packets' = Append(packets, Head(downlink))
  /\ downlink' = Tail(downlink)
  /\ UNCHANGED <<clock, scenario, appVars, program, loop, timer, stamp, socket,
                 runner, runnerTimer, deadline, step, sequence, checked, passed, strays>>

-----------------------------------------------------------------------------
(* The main thread. *)

(* The packet that send_command.py builds.  A time stamp relative to now is taken   *)
(* when the step begins, any other when the command is sent.                      *)
Packet(command, offset) ==
  [sequence_number |-> sequence,
   timestamp_ms |-> IF offset = 0 THEN clock ELSE runnerTimer.from + offset,
   command_id |-> command.command_id, argument |-> command.argument]

(* A datagram for a socket that is not open yet, or not any more, is lost. *)
Deliver(datagram) ==
  socket' = IF program \in {"asleep", "receiving"} THEN Append(socket, datagram) ELSE socket

(* The command of the step, if it has one; then wait_for_expectation begins. *)
SendStep ==
  /\ runner = "sending" /\ clock >= runnerTimer.from
  /\ IF Steps[step].command = NoCommand THEN UNCHANGED <<socket, sequence>>
     ELSE /\ Deliver(Packet(Steps[step].command, Steps[step].offset))
          /\ sequence' = sequence + 1
  /\ runner' = "waiting"
  /\ runnerTimer' = Window(clock, 0)
  /\ deadline' = clock + ExpectTimeout
  /\ checked' = 0
  /\ UNCHANGED <<clock, scenario, appVars, program, loop, timer, stamp, downlink,
                 step, packets, passed, strays, overlooked>>

(* Mutant: the sequence number of the acknowledgement is not compared. *)
MutPacketMatches(packet, expected) ==
  \A key \in DOMAIN expected \ {"ack_seq"} : packet[key] = expected[key]

PacketMatches(packet, expected) == \A key \in DOMAIN expected : packet[key] = expected[key]

Seen == {k \in checked + 1 .. Len(packets) : PacketMatches(packets[k], Steps[step].expect)}

(* After the last step, or a failed one, the runner waits for the flight program. *)
GoOn(more) ==
  /\ runner' = IF more THEN "sending" ELSE "finishing"
  /\ runnerTimer' = IF more THEN Window(clock, SendTime) ELSE Window(clock, ServerWait)
  /\ deadline' = IF more THEN deadline ELSE clock + ServerWait

(* A look at the packets that have arrived since the last one. *)
Scan ==
  /\ runner = "waiting" /\ clock >= runnerTimer.from /\ clock < deadline
  /\ IF Seen # {}
       THEN /\ step' = step + 1
            /\ GoOn(step < Len(Steps))
       ELSE /\ runner' = "scanned"
            /\ UNCHANGED <<step, runnerTimer, deadline>>
  /\ UNCHANGED <<clock, appVars, loopVars, sequence, packets, checked, passed, strays, overlooked>>

(* Everything that is in the list by now counts as looked at. *)
LeaveBehind ==
  /\ runner = "scanned"
  /\ checked' = Len(packets)
  /\ runner' = "waiting"
  /\ runnerTimer' = Window(clock + PollSleep, Jitter)
  /\ UNCHANGED <<clock, appVars, loopVars, deadline, step, sequence, packets, passed, strays, overlooked>>

(* Mutant: the wait for a packet has no end. *)
MutExpire == FALSE /\ UNCHANGED allVars

Expire ==
  /\ runner = "waiting" /\ clock >= runnerTimer.from /\ clock >= deadline
  /\ passed' = FALSE
  /\ GoOn(FALSE)
  /\ UNCHANGED <<clock, appVars, loopVars, step, sequence, packets, checked, strays, overlooked>>

(* server.wait(): the flight program has ended, or it is terminated. *)
EndScenario ==
  /\ runner = "finishing"
  /\ ~Running \/ clock >= deadline
  /\ program' = IF Running THEN "terminated" ELSE program
  /\ runner' = "done"
  /\ UNCHANGED <<clock, scenario, appVars, loop, timer, stamp, socket, downlink,
                 runnerTimer, deadline, step, sequence, packets, checked, passed, strays, overlooked>>

-----------------------------------------------------------------------------
(* A datagram of somebody else that is no command packet, while the verdict is open. *)
Stray ==
  /\ strays < MaxStray /\ program \in {"asleep", "receiving"}
  /\ runner \in {"sending", "waiting", "scanned"}
  /\ strays' = strays + 1
  /\ Deliver(Malformed)
  /\ UNCHANGED <<clock, scenario, appVars, program, loop, timer, stamp, downlink,
                 runner, runnerTimer, deadline, step, sequence, packets, checked, passed, overlooked>>

(* No thread is held up for longer than its timer says, nor a packet for a tick. *)
TimePasses ==
  /\ clock < MaxClock
  /\ runner # "done" \/ Running
  /\ LoopAllowsTick
  /\ downlink = <<>> \/ runner = "done"
  /\ runner \in {"sending", "waiting"} => clock < runnerTimer.to
  /\ runner # "scanned"
  /\ runner = "finishing" => Running /\ clock < deadline
  /\ clock' = clock + 1
  /\ UNCHANGED <<appVars, loopVars, runnerVars>>

RunnerNext ==
  \/ LoopNext /\ UNCHANGED runnerVars
  \/ Listen \/ SendStep \/ Scan \/ LeaveBehind \/ Expire \/ EndScenario
  \/ Stray \/ TimePasses

(* The operating system schedules the threads of both programs. *)
RunnerSpec == RunnerInit /\ [][RunnerNext]_allVars /\ WF_allVars(RunnerNext)

-----------------------------------------------------------------------------

(* A step with a command passes only after the vehicle has dealt with that very    *)
(* command, and not because an older packet looks the same.                        *)
PassedAfterCommand ==
  [][step' # step /\ Steps[step].command # NoCommand =>
       ack.sequence_number = sequence - 1]_allVars

(* Every run comes to a verdict, and the flight program does not outlive it. *)
ScenarioEnds == <>(runner = "done" /\ ~Running)
=============================================================================
