--------------------------- MODULE MCAgentRunner ----------------------------
(***************************************************************************)
(* Instances of AgentRunner for TLC: up to three steering messages, of     *)
(* which the second may be blank; all have a commentary target of their    *)
(* own.                                                                    *)
(***************************************************************************)
EXTENDS AgentRunner

MCBlank == {2}
MCTargeted == 1 .. MaxSteering
=============================================================================
