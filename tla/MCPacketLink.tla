---------------------------- MODULE MCPacketLink ----------------------------
(* Every command with every argument, and telemetry with every mode, fault, status   *)
(* and command; bytes at both ends of their range in every field, and bursts of up   *)
(* to 12 bits in five of the packets.                                                *)
EXTENDS PacketLink

Request(sequence_number, timestamp_ms, id, argument) ==
  [sequence_number |-> sequence_number, timestamp_ms |-> timestamp_ms,
   command_id |-> id, argument |-> argument]

ExposedRequests ==
  {Request(<<65535, 65535>>, <<4660, 22136, 1, 0>>, "INJECT_FAULT", "SENSOR_TIMEOUT"),
   Request(<<1, 0>>, <<65535, 65535, 65535, 65535>>, "NOOP", "NONE")}

MCCommandRequests ==
  ExposedRequests
    \cup {Request(<<2, 0>>, <<7, 0, 0, 0>>, "SET_MODE", m) : m \in Mode}
    \cup {Request(<<3, 0>>, <<8, 0, 0, 0>>, "INJECT_FAULT", f) : f \in FaultCode}
    \cup {Request(<<4, 0>>, <<9, 0, 0, 0>>, id, "NONE") : id \in {"REQUEST_TELEMETRY", "CLEAR_FAULT"}}

Telemetry(digit, mode, fault, id, status) ==
  [sequence_number |-> <<digit, 0>>, timestamp_ms |-> <<digit, digit, 1, 0>>,
   mode |-> mode, last_fault |-> fault,
   cpu_load_percent |-> <<0, 16784>>, memory_load_percent |-> <<digit, 16936>>,
   heartbeat_count |-> <<digit, 0>>, last_command_sequence_number |-> <<digit, digit>>,
   last_command_id |-> CommandNumber[id], last_command_status |-> StatusNumber[status]]

ExposedTelemetry ==
  {Telemetry(65535, "SAFE", "WATCHDOG_DEADLINE_MISS", "CLEAR_FAULT", "REJECTED_RECOVERY_LIMIT"),
   Telemetry(0, "BOOT", "NONE", "NOOP", "ACCEPTED"),
   Telemetry(1, "STANDBY", "NONE", "SET_MODE", "ACCEPTED")}

MCTelemetryPackets ==
  ExposedTelemetry
    \cup {Telemetry(2, m, "NONE", "SET_MODE", "ACCEPTED") : m \in Mode}
    \cup {Telemetry(3, "SAFE", f, "INJECT_FAULT", "ACCEPTED") : f \in FaultCode}
    \cup {Telemetry(4, "NOMINAL", "NONE", id, status) : id \in CommandId, status \in DOMAIN StatusNumber}

MCExposed == ExposedRequests \cup ExposedTelemetry

Ones(n) == [k \in 1 .. n |-> TRUE]
Ends(n) == [k \in 1 .. n |-> k \in {1, n}]

MCBursts == {Ones(1), Ends(2), Ends(9), Ends(12), Ones(12)}

(* The last one does not fit into the receiver's buffer. *)
MCResizes == {-2, -1, 1, 250}
=============================================================================
