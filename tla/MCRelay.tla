------------------------------ MODULE MCRelay ------------------------------
(***************************************************************************)
(* Instances of Relay for TLC: two players and up to four chat lines, of   *)
(* which the second asks for the task board and the third mentions nobody. *)
(***************************************************************************)
EXTENDS Relay

CONSTANTS ann, bob

MCPlayer == <<ann, bob, ann, ann>>
MCPlayer3 == <<ann, bob, ann>>
MCTriggered == {1, 2, 4}
MCTriggered3 == {1, 2}
MCTaskBoard == {2}
=============================================================================
