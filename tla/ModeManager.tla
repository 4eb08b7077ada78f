---------------------------- MODULE ModeManager ----------------------------
(***************************************************************************)
(* The mode graph of the flight software (fsw/src/mode_manager.cpp).       *)
(*                                                                         *)
(* The manager holds one value, the current mode, and changes it only      *)
(* along a declared edge.  It is a library of operators here: the mode is  *)
(* a field of the state of the component that owns the manager.            *)
(***************************************************************************)
EXTENDS Naturals

(* enum class Mode, with the code each mode has on the wire. *)
ModeCode ==
  [BOOT             |-> 0,
   NOMINAL          |-> 1,
   DEGRADED_SENSOR  |-> 2,
   DEGRADED_PAYLOAD |-> 3,
   SAFE             |-> 4,
   RECOVERY         |-> 5,
   STANDBY          |-> 6,
   TEST             |-> 7]

Mode == {"BOOT", "NOMINAL", "DEGRADED_SENSOR", "DEGRADED_PAYLOAD",
         "SAFE", "RECOVERY", "STANDBY", "TEST"}

(* The mode of a manager that was just constructed. *)
InitialMode == "BOOT"

(* The edges that leave each mode. *)
Successors ==
  [BOOT             |-> {"STANDBY", "NOMINAL", "SAFE"},
   STANDBY          |-> {"NOMINAL", "TEST", "SAFE"},
   NOMINAL          |-> {"STANDBY", "DEGRADED_SENSOR", "DEGRADED_PAYLOAD", "SAFE"},
   DEGRADED_SENSOR  |-> {"STANDBY", "RECOVERY", "SAFE"},
   DEGRADED_PAYLOAD |-> {"STANDBY", "NOMINAL", "RECOVERY", "SAFE"},
   TEST             |-> {"STANDBY", "SAFE"},
   SAFE             |-> {"RECOVERY"},
   RECOVERY         |-> {"STANDBY", "NOMINAL", "SAFE"}]

(* Mutant: the edge from SAFE straight back to NOMINAL has been declared. *)
MutIsValidTransitionSafeToNominal(from, to) ==
  from = to \/ to \in Successors[from] \/ <<from, to>> = <<"SAFE", "NOMINAL">>

(* Staying in a mode is always allowed. *)
IsValidTransition(from, to) == from = to \/ to \in Successors[from]

(* The mode after a request to enter `next`; a refused request changes nothing. *)
TransitionTo(mode, next) == IF IsValidTransition(mode, next) THEN next ELSE mode
=============================================================================
