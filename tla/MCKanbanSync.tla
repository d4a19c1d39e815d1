---------------------------- MODULE MCKanbanSync ----------------------------
(***************************************************************************)
(* Instances of KanbanSync for TLC, with one output at a time: the two     *)
(* share nothing but the loop.                                             *)
(***************************************************************************)
EXTENDS KanbanSync

MCOutputs == {{"board"}, {"progress"}}
=============================================================================
