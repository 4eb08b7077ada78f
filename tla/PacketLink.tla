----------------------------- MODULE PacketLink -----------------------------
(***************************************************************************)
(* Packets on the wire: the ground writes commands that the vehicle reads, *)
(* the vehicle writes telemetry that the ground reads, and on the way a     *)
(* packet may be damaged: a burst of bits inverted, bytes cut off or added. *)
(* The fuzzer hands the vehicle's reader its seeds directly.                 *)
(***************************************************************************)
EXTENDS PacketCodec

CONSTANTS
  CommandRequests,   \* commands the ground sends, their arguments by name
  TelemetryPackets,  \* telemetry the vehicle sends
  Exposed,           \* the ones among them that are damaged on their way
  Bursts,            \* patterns of inverted bits, the first and the last one set
  Resizes            \* changes of the length of a datagram

ASSUME PacketLinkAssumption ==
  /\ \A r \in CommandRequests :
       /\ r.sequence_number \in [1 .. 2 -> Digit] /\ r.timestamp_ms \in [1 .. 4 -> Digit]
       /\ r.command_id \in CommandId
       /\ r.command_id = "SET_MODE" => r.argument \in Mode
       /\ r.command_id = "INJECT_FAULT" => r.argument \in FaultCode
  /\ \A burst \in Bursts : burst # <<>> /\ Head(burst) /\ Last(burst)
  /\ Resizes \subseteq Int \ {0}

VARIABLES
  phase,     \* "idle", "wire" or "read"
  sent,      \* the packet that was sent, with its direction
  wire,      \* the datagram
  damaged,
  received   \* what the reader made of it

vars == <<phase, sent, wire, damaged, received>>

Init ==
  /\ phase = "idle"
  /\ sent = [direction |-> "none"]
  /\ wire = <<>>
  /\ damaged = FALSE
  /\ received = Refused

Send(direction, packet, bytes) ==
  /\ phase = "idle"
  /\ phase' = "wire"
  /\ sent' = [direction |-> direction, packet |-> packet]
  /\ wire' = bytes
  /\ damaged' = FALSE
  /\ received' = Refused

SendCommand   == \E r \in CommandRequests : Send("command", r, BuildPacket(r))
SendTelemetry == \E p \in TelemetryPackets : Send("telemetry", p, SerializeTelemetry(p))

(* Bit k of a datagram, in the order in which the CRC takes them: the highest   *)
(* bit of a byte first.                                                         *)
FlippedByte(byte, index, start, burst) ==
  byte ^^ SumSet({2 ^ (7 - b) : b \in {c \in 0 .. 7 :
                   /\ 8 * (index - 1) + c - start + 1 \in DOMAIN burst
                   /\ burst[8 * (index - 1) + c - start + 1]}})

Damage ==
  /\ phase = "wire" /\ ~damaged
  /\ sent.packet \in Exposed
  /\ damaged' = TRUE
  /\ \/ \E burst \in Bursts : \E start \in 0 .. 8 * Len(wire) - Len(burst) :
          wire' = [k \in 1 .. Len(wire) |-> FlippedByte(wire[k], k, start, burst)]
     \/ \E r \in Resizes :
          wire' = IF r < 0 THEN SubSeq(wire, 1, Len(wire) + r)
                  ELSE wire \o [k \in 1 .. r |-> 0]
  /\ UNCHANGED <<phase, sent, received>>

(* recvfrom cuts a datagram off at the size of its buffer. *)
CutOff(bytes, buffer) == SubSeq(bytes, 1, IF Len(bytes) > buffer THEN buffer ELSE Len(bytes))

ReceiveCommand ==
  /\ phase = "wire" /\ sent.direction = "command"
  /\ phase' = "read"
  /\ received' = DeserializeCommand(CutOff(wire, 256))
  /\ UNCHANGED <<sent, wire, damaged>>

ReceiveTelemetry ==
  /\ phase = "wire" /\ sent.direction = "telemetry"
  /\ phase' = "read"
  /\ received' = DecodePacket(CutOff(wire, 2048))
  /\ UNCHANGED <<sent, wire, damaged>>

(* The vehicle's own library reads the telemetry, as a second ground program would. *)
ReadBackTelemetry ==
  /\ phase = "wire" /\ sent.direction = "telemetry"
  /\ phase' = "read"
  /\ sent' = [sent EXCEPT !.direction = "readback"]
  /\ received' = DeserializeTelemetry(wire)
  /\ UNCHANGED <<wire, damaged>>

WatchTelemetry ==
  /\ phase = "wire" /\ sent.direction = "telemetry"
  /\ phase' = "read"
  /\ sent' = [sent EXCEPT !.direction = "dashboard"]
  /\ received' = DashboardPacket(CutOff(wire, 2048))
  /\ UNCHANGED <<wire, damaged>>

ReadSeed(kind, bytes) ==
  /\ phase = "idle"
  /\ phase' = "read"
  /\ sent' = kind
  /\ wire' = bytes
  /\ damaged' = FALSE
  /\ received' = DeserializeCommand(bytes)

FuzzValid ==
  \E seed \in ValidSeeds :
    ReadSeed([direction |-> "seed", packet |-> seed[2]], SeedBytes(seed[1], seed[2]))
FuzzMalformed == \E bytes \in MalformedSeeds : ReadSeed([direction |-> "malformed"], bytes)

(* The readers have no memory of a packet they have read. *)
ReadOn ==
  /\ phase = "read"
  /\ phase' = "idle"
  /\ sent' = [direction |-> "none"]
  /\ wire' = <<>>
  /\ damaged' = FALSE
  /\ received' = Refused

Next == SendCommand \/ SendTelemetry \/ Damage \/ ReceiveCommand \/ ReceiveTelemetry
        \/ ReadBackTelemetry \/ WatchTelemetry \/ FuzzValid \/ FuzzMalformed \/ ReadOn

Spec == Init /\ [][Next]_vars

-----------------------------------------------------------------------------
(* A packet as its reader should understand it, by the vehicle's enumerations: the *)
(* argument that was asked for by name arrives as the vehicle's code of it; the     *)
(* ground names the codes of the vehicle, and cannot tell NOOP from no command.     *)
(* The dashboard shows the number of a status, and cannot tell STANDBY and TEST.    *)
CodeOf(r) ==
  CASE r.command_id = "SET_MODE"     -> ModeCode[r.argument]
    [] r.command_id = "INJECT_FAULT" -> FaultNumber[r.argument]
    [] OTHER                         -> 0

CommandShown(number) ==
  IF number = 0 THEN "NONE" ELSE CHOOSE id \in CommandId : CommandNumber[id] = number

Understood(s) ==
  CASE s.direction = "command" -> [s.packet EXCEPT !.argument = <<CodeOf(s.packet), 0>>]
    [] s.direction \in {"seed", "readback"} -> s.packet
    [] s.direction = "telemetry" ->
         [s.packet EXCEPT !.last_command_id = CommandShown(@),
                          !.last_command_status = CHOOSE status \in DOMAIN StatusNumber :
                                                    StatusNumber[status] = @]
    [] s.direction = "dashboard" ->
         [s.packet EXCEPT !.last_command_id = CommandShown(@),
                          !.mode = IF @ \in {"STANDBY", "TEST"} THEN "UNKNOWN" ELSE @]

(* What one side writes the other side understands, although writer and reader   *)
(* are separate programs with layouts, CRCs and tables of codes of their own:      *)
(* deserialize_command_packet reads what build_packet wrote, decode_packet and      *)
(* deserialize_telemetry_packet what serialize_telemetry_packet wrote.  A seed of   *)
(* the fuzzer is accepted exactly if the corpus calls it valid.                     *)
IntactUnderstood ==
  phase = "read" /\ ~damaged =>
    IF sent.direction = "malformed" THEN received = Refused
    ELSE received = [accepted |-> TRUE, packet |-> Understood(sent)]

(* No reader accepts a damaged packet, wherever the burst falls, also across the   *)
(* boundary to the CRC, which is stored with its low byte first.                   *)
DamageRefused == phase = "read" /\ damaged => received = Refused

(* The remainder of the polynomial with these exponents, divided by the            *)
(* generator x^16 + x^12 + x^5 + 1 over the field of two elements.                  *)
RECURSIVE Remainder(_)
Remainder(polynomial) ==
  IF \A e \in polynomial : e < 16 THEN polynomial
  ELSE LET shift == Max(polynomial) - 16
           multiple == {shift + 16, shift + 12, shift + 5, shift}
       IN  Remainder(SymDiff(polynomial, multiple))

(* The message as a polynomial, times x^16, its first 16 bits inverted. *)
MessagePolynomial(bytes) ==
  LET length == 8 * Len(bytes)
      ones == {length + 15 - i : i \in {j \in 0 .. length - 1 :
                 (bytes[(j \div 8) + 1] \div 2 ^ (7 - (j % 8))) % 2 = 1}}
  IN  SymDiff(ones, length .. length + 15)

(* The bitwise loops of build_packet and serialize_telemetry_packet compute the    *)
(* remainder that the standard defines.                                            *)
CrcIsRemainder ==
  phase = "wire" /\ ~damaged =>
    ReadU16(wire, Len(wire) - 2) =
      SumSet({2 ^ e : e \in Remainder(MessagePolynomial(WithoutCrc(wire)))})
=============================================================================
