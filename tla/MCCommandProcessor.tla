------------------------ MODULE MCCommandProcessor ------------------------
(* CommandProcessorSpec with every mode and fault code as an argument, and       *)
(* arguments that alias one of them after the cast or name nothing.          *)
EXTENDS CommandProcessorSpec

MCArgument ==
  {ModeCode[m] : m \in Mode} \cup {FaultNumber[f] : f \in FaultCode}
    \cup {8, 255, 256 + 1, 256 + 7, 65536, 65536 + 100}
=============================================================================
