--------------------------- MODULE MCMemoryStore ----------------------------
(* Two agents, two slots: at most two items are in the file at a time. *)
EXTENDS MemoryStore

CONSTANTS p1, p2, a, b, x, y
=============================================================================
