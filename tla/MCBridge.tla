------------------------------ MODULE MCBridge ------------------------------
(***************************************************************************)
(* Instances of Bridge for TLC: five console lines of which the third is   *)
(* no chat line, so that more lines appear than a GET looks at and than    *)
(* the bridge keeps marks for.                                             *)
(***************************************************************************)
EXTENDS Bridge

MCChat == {1, 2, 4, 5}
=============================================================================
