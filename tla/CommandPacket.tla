--------------------------- MODULE CommandPacket ---------------------------
(***************************************************************************)
(* The command packet (fsw/src/command_packet.cpp) after it was decoded:   *)
(* the command identifier and what its 32-bit argument stands for.         *)
(*                                                                         *)
(* Mode is an 8-bit and FaultCode a 16-bit enumeration, so the casts of a   *)
(* 32-bit argument keep its low 8 or 16 bits: 257 names the same mode as 1.*)
(***************************************************************************)
EXTENDS FdirManager

CommandId == {"NOOP", "SET_MODE", "INJECT_FAULT", "REQUEST_TELEMETRY", "CLEAR_FAULT"}

(* command_argument_to_mode and command_argument_to_fault: whether the       *)
(* conversion succeeds, and its result when it does.                         *)
ArgumentIsMode(argument)  == \E m \in Mode : ModeCode[m] = argument % 256
ArgumentIsFault(argument) == \E f \in FaultCode : FaultNumber[f] = argument % 65536
ArgumentToMode(argument)  == CHOOSE m \in Mode : ModeCode[m] = argument % 256
ArgumentToFault(argument) == CHOOSE f \in FaultCode : FaultNumber[f] = argument % 65536
=============================================================================
