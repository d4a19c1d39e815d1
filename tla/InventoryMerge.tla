--------------------------- MODULE InventoryMerge ---------------------------
(***************************************************************************)
(* inventory-sync/main.go: how containers and blocks of several sources    *)
(* become one list with at most one record per position.  A record is the  *)
(* source that reported it and the time of that report; the items of a     *)
(* container go with it.                                                   *)
(***************************************************************************)
EXTENDS Naturals, Functions

CONSTANT Positions

Origins == {"region", "area", "block_export"}

Records(times) == [source : Origins, at : times]

\* Records by position, where there are any.
Lists(times) == UNION {[P -> Records(times)] : P \in SUBSET Positions}

\* chestPriority, blockPriority
Priority(record) == IF record.source = "block_export" THEN 2 ELSE 1

\* Mutant: a merge keeps what the source reported before.
MergedKeepingOld(existing, found, source, time) ==
  LET new == [source |-> source, at |-> time]
      shadowed == {p \in found \intersect DOMAIN existing :
                     Priority(existing[p]) > Priority(new)}
  IN  [p \in DOMAIN existing \union found |->
         IF p \in found \ shadowed THEN new ELSE existing[p]]

\* mergeChestRecords, mergeBlockRecords: the source's old records go, its new
\* ones replace those of no higher priority at their position.
Merged(existing, found, source, time) ==
  LET new == [source |-> source, at |-> time]
      kept == {p \in DOMAIN existing : existing[p].source # source}
      shadowed == {p \in kept \intersect found : Priority(existing[p]) > Priority(new)}
  IN  [p \in kept \union found |-> IF p \in found \ shadowed THEN new ELSE existing[p]]
=============================================================================
