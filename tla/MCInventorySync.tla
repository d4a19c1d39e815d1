-------------------------- MODULE MCInventorySync --------------------------
(***************************************************************************)
(* One position, and intervals short enough for every source to be due     *)
(* again within the clock's bound, the chests not before the exports.      *)
(***************************************************************************)
EXTENDS InventorySync

Intervals == [players |-> 3, me |-> 3, quests |-> 4, blocks |-> 4, exports |-> 2, chests |-> 2]
=============================================================================
