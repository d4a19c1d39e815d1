------------------------------ MODULE ChatFeed ------------------------------
(***************************************************************************)
(* What the readers of GET /mc/console may rely on, whatever the bridge    *)
(* does inside: chat lines appear in the console in order, and a line is   *)
(* handed over again only after the bridge has forgotten that it handed it *)
(* over before.  Handing over is destructive: the line counts as handed    *)
(* over even when the response that carries it never arrives.              *)
(*                                                                         *)
(* Bridge implements this specification; Relay is written against it.      *)
(***************************************************************************)
EXTENDS Naturals

CONSTANT MaxLines           \* number of lines the console ever shows (bound)

Lines == 1 .. MaxLines

VARIABLES
  emitted,   \* lines 1..emitted are in the game console
  handed,    \* handed[e]: how often line e was put into a response
  forgot     \* forgot[e]: how often the mark for line e was lost

feedVars == <<emitted, handed, forgot>>

TypeOK ==
  /\ emitted \in 0 .. MaxLines
  /\ handed \in [Lines -> Nat]
  /\ forgot \in [Lines -> Nat]

Marked(e) == handed[e] > forgot[e]

Available == {e \in 1 .. emitted : ~Marked(e)}

Init ==
  /\ emitted = 0
  /\ handed = [e \in Lines |-> 0]
  /\ forgot = [e \in Lines |-> 0]

Emit ==
  /\ emitted < MaxLines
  /\ emitted' = emitted + 1
  /\ UNCHANGED <<handed, forgot>>

HandOver(S) ==
  /\ S \subseteq Available
  /\ handed' = [e \in Lines |-> IF e \in S THEN handed[e] + 1 ELSE handed[e]]
  /\ UNCHANGED <<emitted, forgot>>

Forget(S) ==
  /\ \A e \in S : Marked(e)
  /\ forgot' = [e \in Lines |-> IF e \in S THEN forgot[e] + 1 ELSE forgot[e]]
  /\ UNCHANGED <<emitted, handed>>

Next ==
  \/ Emit
  \/ \E S \in SUBSET Lines : HandOver(S)
  \/ \E S \in SUBSET Lines : Forget(S)

Spec == Init /\ [][Next]_feedVars
=============================================================================
