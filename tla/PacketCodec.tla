----------------------------- MODULE PacketCodec -----------------------------
(***************************************************************************)
(* The wire formats: fsw/src/command_packet.cpp, fsw/src/telemetry_packet  *)
(* .cpp, tools/send_command.py and tools/telemetry_receiver.py.  Ground    *)
(* and vehicle have a writer and a reader each, written in two languages;   *)
(* tools/telemetry_dashboard.py has another reader and                      *)
(* tools/generate_command_fuzz_corpus.py another writer.                    *)
(*                                                                         *)
(* The programs share no file: each has its own header constants, layout,  *)
(* tables of codes and CRC, and so it is here.  Only what the Python        *)
(* programs have in the same words (the CRC, the layout of telemetry) is    *)
(* one definition for them all.                                             *)
(*                                                                         *)
(* A packet on the wire is a sequence of bytes.  Integers of 32 and 64     *)
(* bits are sequences of 16-bit digits, the least significant one first,   *)
(* and a float is the 32-bit integer that memcpy makes of it.              *)
(***************************************************************************)
EXTENDS CommandPacket, SequencesExt, Bitwise

Byte  == 0 .. 255
Digit == 0 .. 65535

Refused == [accepted |-> FALSE]

(* append_u16, append_u32, append_u64: little-endian bytes of the digits.  struct   *)
(* packs the formats H, I and Q into the same bytes.                               *)
U16(digit) == <<digit % 256, digit \div 256>>
Wide(digits) == FlattenSeq([k \in 1 .. Len(digits) |-> U16(digits[k])])

(* read_u16, read_u32, read_u64 of the `width` bytes that follow `offset`. *)
ReadU16(bytes, offset) == bytes[offset + 1] + 256 * bytes[offset + 2]
ReadWide(bytes, offset, width) ==
  [k \in 1 .. width \div 2 |-> ReadU16(bytes, offset + 2 * (k - 1))]

(* struct.unpack: fields of these widths, one behind the other. *)
Unpack(widths, bytes) ==
  [k \in DOMAIN widths |->
     LET offset == SumFunctionOnSet(widths, 1 .. k - 1)
     IN  CASE widths[k] = 1 -> bytes[offset + 1]
           [] widths[k] = 2 -> ReadU16(bytes, offset)
           [] OTHER         -> ReadWide(bytes, offset, widths[k])]

-----------------------------------------------------------------------------
(* CRC-16-CCITT. *)

EightTimes(Shift(_), crc) ==
  Shift(Shift(Shift(Shift(Shift(Shift(Shift(Shift(crc))))))))

(* The vehicle's register is 16 bits wide, and a shift drops the highest one. *)
ShiftBit(crc) ==
  IF crc >= 32768 THEN ((2 * crc) % 65536) ^^ 4129 ELSE 2 * crc

(* Mutant: the register starts at zero, as in another variant of the CRC. *)
MutCrc16(bytes) ==
  LET loop[k \in 1 .. Len(bytes) + 1, crc \in Digit] ==
        IF k > Len(bytes) THEN crc
        ELSE loop[k + 1, EightTimes(ShiftBit, crc ^^ (256 * bytes[k]))]
  IN  loop[1, 0]

Crc16(bytes) ==
  LET loop[k \in 1 .. Len(bytes) + 1, crc \in Digit] ==
        IF k > Len(bytes) THEN crc
        ELSE loop[k + 1, EightTimes(ShiftBit, crc ^^ (256 * bytes[k]))]
  IN  loop[1, 65535]

(* Python's integers have no width: the mask is applied last. *)
GroundShiftBit(crc) ==
  IF (crc \div 32768) % 2 = 1 THEN ((2 * crc) ^^ 4129) % 65536 ELSE (2 * crc) % 65536

GroundCrc16(bytes) ==
  LET loop[k \in 1 .. Len(bytes) + 1, crc \in Digit] ==
        IF k > Len(bytes) THEN crc
        ELSE loop[k + 1, EightTimes(GroundShiftBit, crc ^^ (256 * bytes[k]))]
  IN  loop[1, 65535]

(* What the CRC is taken of: all but the last two bytes. *)
WithoutCrc(bytes) == SubSeq(bytes, 1, Len(bytes) - 2)

(* Mutant: the trailer is not looked at. *)
MutSealHolds(bytes, expected_crc) == TRUE

SealHolds(bytes, expected_crc) == ReadU16(bytes, Len(bytes) - 2) = expected_crc

-----------------------------------------------------------------------------
(* Commands: build_packet on the ground, deserialize_command_packet on board. *)

(* send_command.py: COMMAND_MAGIC, COMMAND_VERSION, COMMANDS, MODES and FAULTS. *)
SenderHeader == [magic |-> <<17491, 17229>>, version |-> 1]   \* 0x434D4453

SenderCommands ==
  [NOOP |-> 0, SET_MODE |-> 1, INJECT_FAULT |-> 2, REQUEST_TELEMETRY |-> 3, CLEAR_FAULT |-> 4]

SenderModes ==
  [BOOT |-> 0, NOMINAL |-> 1, DEGRADED_SENSOR |-> 2, DEGRADED_PAYLOAD |-> 3, SAFE |-> 4,
   RECOVERY |-> 5, STANDBY |-> 6, TEST |-> 7]

SenderFaults ==
  [NONE |-> 0, SENSOR_TIMEOUT |-> 100, SENSOR_INVALID_DATA |-> 101,
   PAYLOAD_HEARTBEAT_TIMEOUT |-> 200, CPU_OVERLOAD |-> 300, MEMORY_OVERLOAD |-> 301,
   TELEMETRY_SOCKET_FAILURE |-> 400, COMMAND_BAD_CRC |-> 500, COMMAND_UNKNOWN_ID |-> 501,
   COMMAND_TIMEOUT |-> 502, WATCHDOG_DEADLINE_MISS |-> 600]

(* An argument that a command does not take is not looked at. *)
ParseArgument(command, argument) ==
  CASE command = "SET_MODE"     -> SenderModes[argument]
    [] command = "INJECT_FAULT" -> SenderFaults[argument]
    [] OTHER                    -> 0

(* Mutant: the argument is packed in front of the command. *)
MutBuildPacket(r) ==
  LET payload == Wide(SenderHeader.magic) \o U16(SenderHeader.version) \o Wide(r.sequence_number)
                   \o Wide(r.timestamp_ms) \o Wide(<<ParseArgument(r.command_id, r.argument), 0>>)
                   \o U16(SenderCommands[r.command_id])
  IN  payload \o U16(GroundCrc16(payload))

BuildPacket(r) ==
  LET payload == Wide(SenderHeader.magic) \o U16(SenderHeader.version) \o Wide(r.sequence_number)
                   \o Wide(r.timestamp_ms) \o U16(SenderCommands[r.command_id])
                   \o Wide(<<ParseArgument(r.command_id, r.argument), 0>>)
  IN  payload \o U16(GroundCrc16(payload))

(* command_packet.hpp: COMMAND_MAGIC, COMMAND_VERSION, COMMAND_PACKET_SIZE_BYTES   *)
(* and CommandId.                                                                  *)
CommandMagic   == <<17491, 17229>>     \* 0x434D4453
CommandVersion == 1
CommandSize    == 26

CommandNumber ==
  [NOOP |-> 0, SET_MODE |-> 1, INJECT_FAULT |-> 2, REQUEST_TELEMETRY |-> 3, CLEAR_FAULT |-> 4]

(* The size and the CRC come first; a packet is read only when both are right. *)
DeserializeCommand(bytes) ==
  IF /\ Len(bytes) = CommandSize
     /\ SealHolds(bytes, Crc16(WithoutCrc(bytes)))
     /\ ReadWide(bytes, 0, 4) = CommandMagic
     /\ ReadU16(bytes, 4) = CommandVersion
     /\ \E id \in CommandId : CommandNumber[id] = ReadU16(bytes, 18)
  THEN [accepted |-> TRUE,
        packet |-> [sequence_number |-> ReadWide(bytes, 6, 4),
                    timestamp_ms    |-> ReadWide(bytes, 10, 8),
                    command_id      |-> CHOOSE id \in CommandId :
                                          CommandNumber[id] = ReadU16(bytes, 18),
                    argument        |-> ReadWide(bytes, 20, 4)]]
  ELSE Refused

-----------------------------------------------------------------------------
(* The seeds of the fuzzer: commands, and datagrams that are wrong in one way. *)

CorpusHeader == [magic |-> <<17491, 17229>>, version |-> 1]   \* 0x434D4453

(* command_packet: any header may be written, and an error into the CRC. *)
RawCommand(magic, version, id, p, crc_error) ==
  LET without_crc == Wide(magic) \o U16(version) \o Wide(p.sequence_number)
                       \o Wide(p.timestamp_ms) \o U16(id) \o Wide(p.argument)
  IN  without_crc \o U16(GroundCrc16(without_crc) ^^ crc_error)

SeedPacket(number, name, argument) ==
  [sequence_number |-> <<number, 0>>, timestamp_ms |-> <<1000 * number, 0, 0, 0>>,
   command_id |-> name, argument |-> <<argument, 0>>]

(* The number of the command that is written, and the packet that the name of the   *)
(* seed announces.                                                                  *)
ValidSeeds ==
  {<<0, SeedPacket(0, "NOOP", 0)>>, <<1, SeedPacket(1, "SET_MODE", 1)>>,
   <<2, SeedPacket(2, "INJECT_FAULT", 300)>>, <<3, SeedPacket(3, "REQUEST_TELEMETRY", 0)>>,
   <<4, SeedPacket(4, "CLEAR_FAULT", 0)>>}

SeedBytes(id, p) == RawCommand(CorpusHeader.magic, CorpusHeader.version, id, p, 0)

MalformedSeeds ==
  LET set_mode == SeedBytes(1, SeedPacket(1, "SET_MODE", 1))
      Noop(magic, version, id, number, crc_error) ==
        RawCommand(magic, version, id, SeedPacket(number, "NOOP", 0), crc_error)
  IN  {<<>>, <<0>>, Front(set_mode), Append(set_mode, 0),
       [k \in 1 .. 26 |-> 255], [k \in 1 .. 64 |-> k - 1],
       Noop(CorpusHeader.magic, CorpusHeader.version, 0, 5, 1),
       Noop(<<48879, 57005>>, CorpusHeader.version, 0, 6, 0),
       Noop(CorpusHeader.magic, 2, 0, 7, 0),
       Noop(CorpusHeader.magic, CorpusHeader.version, 99, 8, 0)}

-----------------------------------------------------------------------------
(* Telemetry on board: serialize_telemetry_packet and its own reader. *)

(* telemetry_packet.hpp: TELEMETRY_MAGIC and the constants that follow it. *)
TelemetryMagic   == <<21586, 16723>>   \* 0x41535452
TelemetryVersion == 1
TelemetryType    == 1
TelemetrySize    == 43

(* CommandStatus as the vehicle numbers it. *)
StatusNumber ==
  [ACCEPTED |-> 0, REJECTED_BAD_ARGUMENT |-> 1, REJECTED_INVALID_TRANSITION |-> 2,
   REJECTED_UNKNOWN_COMMAND |-> 3, REJECTED_DUPLICATE_SEQUENCE |-> 4,
   REJECTED_REPLAYED_SEQUENCE |-> 5, REJECTED_STALE_TIMESTAMP |-> 6,
   REJECTED_FUTURE_TIMESTAMP |-> 7, REJECTED_GUARD_CONFIGURATION |-> 8,
   REJECTED_UNAUTHORIZED |-> 9, REJECTED_RECOVERY_LIMIT |-> 10]

SerializeTelemetry(p) ==
  LET bytes == Wide(TelemetryMagic) \o U16(TelemetryVersion) \o U16(TelemetryType)
                 \o Wide(p.sequence_number) \o Wide(p.timestamp_ms)
                 \o <<ModeCode[p.mode]>> \o U16(FaultNumber[p.last_fault])
                 \o Wide(p.cpu_load_percent) \o Wide(p.memory_load_percent)
                 \o Wide(p.heartbeat_count) \o Wide(p.last_command_sequence_number)
                 \o <<p.last_command_id, p.last_command_status>>
  IN  bytes \o U16(Crc16(bytes))

(* deserialize_telemetry_packet refuses modes and faults that it does not know. *)
DeserializeTelemetry(bytes) ==
  IF /\ Len(bytes) = TelemetrySize
     /\ SealHolds(bytes, Crc16(WithoutCrc(bytes)))
     /\ ReadWide(bytes, 0, 4) = TelemetryMagic
     /\ ReadU16(bytes, 4) = TelemetryVersion
     /\ ReadU16(bytes, 6) = TelemetryType
     /\ \E m \in Mode : ModeCode[m] = bytes[21]
     /\ \E f \in FaultCode : FaultNumber[f] = ReadU16(bytes, 21)
  THEN [accepted |-> TRUE,
        packet |-> [sequence_number              |-> ReadWide(bytes, 8, 4),
                    timestamp_ms                 |-> ReadWide(bytes, 12, 8),
                    mode                         |-> CHOOSE m \in Mode : ModeCode[m] = bytes[21],
                    last_fault                   |-> CHOOSE f \in FaultCode :
                                                       FaultNumber[f] = ReadU16(bytes, 21),
                    cpu_load_percent             |-> ReadWide(bytes, 23, 4),
                    memory_load_percent          |-> ReadWide(bytes, 27, 4),
                    heartbeat_count              |-> ReadWide(bytes, 31, 4),
                    last_command_sequence_number |-> ReadWide(bytes, 35, 4),
                    last_command_id              |-> bytes[40],
                    last_command_status          |-> bytes[41]]]
  ELSE Refused

-----------------------------------------------------------------------------
(* Telemetry on the ground: decode_packet of the receiver and of the dashboard, which *)
(* declare the header, the size and the tables in the same words, except for the      *)
(* modes and statuses.                                                                *)

GroundTelemetry ==
  [magic |-> <<21586, 16723>>, version |-> 1, type |-> 1, size |-> 43]

DashboardModes ==
  0 :> "BOOT" @@ 1 :> "NOMINAL" @@ 2 :> "DEGRADED_SENSOR" @@ 3 :> "DEGRADED_PAYLOAD"
    @@ 4 :> "SAFE" @@ 5 :> "RECOVERY"

ReceiverModes ==
  0 :> "BOOT" @@ 1 :> "NOMINAL" @@ 2 :> "DEGRADED_SENSOR" @@ 3 :> "DEGRADED_PAYLOAD"
    @@ 4 :> "SAFE" @@ 5 :> "RECOVERY" @@ 6 :> "STANDBY" @@ 7 :> "TEST"

ReceiverFaults ==
  0 :> "NONE" @@ 100 :> "SENSOR_TIMEOUT" @@ 101 :> "SENSOR_INVALID_DATA"
    @@ 200 :> "PAYLOAD_HEARTBEAT_TIMEOUT" @@ 300 :> "CPU_OVERLOAD" @@ 301 :> "MEMORY_OVERLOAD"
    @@ 400 :> "TELEMETRY_SOCKET_FAILURE" @@ 500 :> "COMMAND_BAD_CRC"
    @@ 501 :> "COMMAND_UNKNOWN_ID" @@ 502 :> "COMMAND_TIMEOUT" @@ 600 :> "WATCHDOG_DEADLINE_MISS"

ReceiverCommands ==
  0 :> "NOOP" @@ 1 :> "SET_MODE" @@ 2 :> "INJECT_FAULT" @@ 3 :> "REQUEST_TELEMETRY"
    @@ 4 :> "CLEAR_FAULT"

ReceiverStatuses ==
  0 :> "ACCEPTED" @@ 1 :> "REJECTED_BAD_ARGUMENT" @@ 2 :> "REJECTED_INVALID_TRANSITION"
    @@ 3 :> "REJECTED_UNKNOWN_COMMAND" @@ 4 :> "REJECTED_DUPLICATE_SEQUENCE"
    @@ 5 :> "REJECTED_REPLAYED_SEQUENCE" @@ 6 :> "REJECTED_STALE_TIMESTAMP"
    @@ 7 :> "REJECTED_FUTURE_TIMESTAMP" @@ 8 :> "REJECTED_GUARD_CONFIGURATION"
    @@ 9 :> "REJECTED_UNAUTHORIZED" @@ 10 :> "REJECTED_RECOVERY_LIMIT"

(* The name of a code in a table of the decoder, or UNKNOWN. *)
Named(table, code) == IF code \in DOMAIN table THEN table[code] ELSE "UNKNOWN"

(* The ground reads command 0 as NONE: it stands for no command as well as NOOP. *)
CommandName(number) == IF number = 0 THEN "NONE" ELSE Named(ReceiverCommands, number)

(* decode_packet with the modes it knows.  It names every code, and keeps a packet   *)
(* with codes it cannot name.                                                        *)
DecodeTelemetry(bytes, modes) ==
  LET field == Unpack(<<4, 2, 2, 4, 8, 1, 2, 4, 4, 4, 4, 1, 1, 2>>, bytes)
  IN  IF /\ Len(bytes) = GroundTelemetry.size
         /\ SealHolds(bytes, GroundCrc16(WithoutCrc(bytes)))
         /\ field[1] = GroundTelemetry.magic
         /\ field[2] = GroundTelemetry.version
         /\ field[3] = GroundTelemetry.type
      THEN [accepted |-> TRUE,
            packet |-> [sequence_number              |-> field[4],
                        timestamp_ms                 |-> field[5],
                        mode                         |-> Named(modes, field[6]),
                        last_fault                   |-> Named(ReceiverFaults, field[7]),
                        cpu_load_percent             |-> field[8],
                        memory_load_percent          |-> field[9],
                        heartbeat_count              |-> field[10],
                        last_command_sequence_number |-> field[11],
                        last_command_id              |-> CommandName(field[12]),
                        last_command_status          |-> field[13]]]
      ELSE Refused

(* The dashboard leaves the status of a command a number. *)
DashboardPacket(bytes) == DecodeTelemetry(bytes, DashboardModes)

DecodePacket(bytes) ==
  LET decoded == DecodeTelemetry(bytes, ReceiverModes)
  IN  IF decoded.accepted
      THEN [decoded EXCEPT !.packet.last_command_status = Named(ReceiverStatuses, @)]
      ELSE Refused
=============================================================================
