-------------------------- MODULE CommandAuthorizer --------------------------
(* The command authorization policy (fsw/src/command_authorizer.cpp).        *)
EXTENDS CommandPacket

CONSTANT Policy   \* CommandAuthorizationConfig

ASSUME PolicyAssumption ==
  Policy \in [allow_noop: BOOLEAN, allow_set_mode: BOOLEAN,
              allow_fault_injection: BOOLEAN, allow_telemetry_request: BOOLEAN,
              allow_fault_clear: BOOLEAN, allow_test_mode: BOOLEAN]

(* Mutant: TEST is recognised by the argument as it was sent, not as it will   *)
(* be converted.                                                               *)
MutNamesTestMode(argument) == argument = ModeCode["TEST"]

NamesTestMode(argument) == ArgumentIsMode(argument) /\ ArgumentToMode(argument) = "TEST"

(* An argument that names no mode passes: refusing it is left to the processor. *)
Authorized(id, argument) ==
  CASE id = "NOOP"              -> Policy.allow_noop
    [] id = "SET_MODE"          -> Policy.allow_set_mode
                                     /\ (NamesTestMode(argument) => Policy.allow_test_mode)
    [] id = "INJECT_FAULT"      -> Policy.allow_fault_injection
    [] id = "REQUEST_TELEMETRY" -> Policy.allow_telemetry_request
    [] id = "CLEAR_FAULT"       -> Policy.allow_fault_clear
=============================================================================
