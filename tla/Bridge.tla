------------------------------- MODULE Bridge -------------------------------
(***************************************************************************)
(* The DatHost bridge (bridge/main.go): GET /mc/console reads the last     *)
(* lines of the game console, keeps the chat lines it has not returned     *)
(* before and marks each of them as seen, one by one under stateMu, before *)
(* the response is written.  Marks are kept in a map and in an insertion   *)
(* order that is cut to DedupeMax; both are saved after every new mark.    *)
(*                                                                         *)
(* A line is named by its position in the console, which stands for the    *)
(* event id sha1(timestamp|raw): two lines differ in text or timestamp.    *)
(***************************************************************************)
EXTENDS Naturals, Sequences

CONSTANTS
  Clients,     \* processes that GET /mc/console (mc-relay, tools/mc_poll.sh)
  MaxLines,    \* lines the console ever shows (bound)
  Chat,        \* the lines parseChatEvent accepts
  Window,      \* the ?lines= parameter: how many last lines a GET looks at
  DedupeMax,   \* cfg.DedupeMax
  SaveFails,   \* TRUE: saveStateLocked may fail (it only logs the error)
  MaxRestarts  \* how often the process restarts (bound)

Lines == 1 .. MaxLines

ASSUME BridgeAssumption ==
  /\ MaxLines \in Nat
  /\ Chat \subseteq Lines
  /\ Window \in Nat \ {0}
  /\ DedupeMax \in Nat \ {0}
  /\ SaveFails \in BOOLEAN
  /\ MaxRestarts \in Nat

VARIABLES
  emitted,   \* lines 1..emitted are in the console (the game server's side)
  seen,      \* domain of BridgeState.Seen
  order,     \* BridgeState.Order
  diskSeen, diskOrder,   \* the state file
  scanning,  \* clients whose GET is past callDatHost and inside the loop
  next,      \* per client: the line its loop looks at next
  last,      \* per client: the last line of its snapshot of the console
  events,    \* per client: the events collected for its response
  handed,    \* history: how often a line was put into a response
  forgot,    \* history: how often a mark was lost in a restart
  restarts   \* restarts so far

Elements(o) == {o[i] : i \in 1 .. Len(o)}

vars == <<emitted, seen, order, diskSeen, diskOrder, scanning, next, last,
          events, handed, forgot, restarts>>

TypeOK ==
  /\ emitted \in 0 .. MaxLines
  /\ seen \subseteq Lines
  /\ order \in Seq(Lines)
  /\ diskSeen \subseteq Lines
  /\ diskOrder \in Seq(Lines)
  /\ scanning \subseteq Clients
  /\ next \in [Clients -> Nat \ {0}]
  /\ last \in [Clients -> 0 .. MaxLines]
  /\ events \in [Clients -> SUBSET Lines]
  /\ handed \in [Lines -> Nat]
  /\ forgot \in [Lines -> Nat]
  /\ restarts \in 0 .. MaxRestarts

Init ==
  /\ emitted = 0
  /\ seen = {}
  /\ order = <<>>
  /\ diskSeen = {}
  /\ diskOrder = <<>>
  /\ scanning = {}
  /\ next = [c \in Clients |-> 1]
  /\ last = [c \in Clients |-> 0]
  /\ events = [c \in Clients |-> {}]
  /\ handed = [e \in Lines |-> 0]
  /\ forgot = [e \in Lines |-> 0]
  /\ restarts = 0

\* The game server writes one more line to its console.
Emit ==
  /\ emitted < MaxLines
  /\ emitted' = emitted + 1
  /\ UNCHANGED <<seen, order, diskSeen, diskOrder, scanning, next, last, events,
                 handed, forgot, restarts>>

\* Mutant: the slice starts one line too late.
FirstInWindowLate == IF emitted > Window THEN emitted - Window + 2 ELSE 1

\* all = all[len(all)-lines:] when the console has more lines than that.
FirstInWindow == IF emitted > Window THEN emitted - Window + 1 ELSE 1

\* callDatHost returned the console.  A failed call answers 502 and changes
\* nothing.
Fetch(c) ==
  /\ c \notin scanning
  /\ scanning' = scanning \union {c}
  /\ next' = [next EXCEPT ![c] = FirstInWindow]
  /\ last' = [last EXCEPT ![c] = emitted]
  /\ UNCHANGED <<emitted, seen, order, diskSeen, diskOrder, events, handed,
                 forgot, restarts>>

\* pruneLocked on a list that is at most one longer than DedupeMax.
PruneOrder(o) == IF Len(o) > DedupeMax THEN Tail(o) ELSE o

\* Mutant: one mark too many is deleted from the map.
PruneSeenEager(s, o) == IF Len(o) >= DedupeMax THEN s \ {Head(o)} ELSE s

\* Mutant: the list is cut, the map is not.
PruneSeenNever(s, o) == s

PruneSeen(s, o) == IF Len(o) > DedupeMax THEN s \ {Head(o)} ELSE s

\* saveStateLocked writes a temporary file and renames it: the state file is
\* the old or the new state, never a part of it.
SaveState ==
  \/ diskSeen' = seen' /\ diskOrder' = order'
  \/ SaveFails /\ UNCHANGED <<diskSeen, diskOrder>>

\* Mutant: the check looks at the saved marks only.
KnownOnDisk(e) == e \in diskSeen

\* _, ok := b.state.Seen[eventID]
Known(e) == e \in seen

\* The loop meets a line that is no chat, or that seenBefore knows.
SkipLine(c) ==
  /\ c \in scanning
  /\ next[c] <= last[c]
  /\ next[c] \notin Chat \/ Known(next[c])
  /\ next' = [next EXCEPT ![c] = @ + 1]
  /\ UNCHANGED <<emitted, seen, order, diskSeen, diskOrder, scanning, last,
                 events, handed, forgot, restarts>>

\* seenBefore finds a new event: mark, append, prune, save, and return false;
\* the event goes into the response.
TakeLine(c) ==
  LET e == next[c] IN
  /\ c \in scanning
  /\ e <= last[c]
  /\ e \in Chat
  /\ ~Known(e)
  /\ order' = PruneOrder(Append(order, e))
  /\ seen' = PruneSeen(seen \union {e}, Append(order, e))
  /\ SaveState
  /\ next' = [next EXCEPT ![c] = @ + 1]
  /\ events' = [events EXCEPT ![c] = @ \union {e}]
  /\ handed' = [handed EXCEPT ![e] = @ + 1]
  /\ UNCHANGED <<emitted, scanning, last, forgot, restarts>>

\* The response is written; whether the client still listens changes nothing.
Respond(c) ==
  /\ c \in scanning
  /\ next[c] > last[c]
  /\ scanning' = scanning \ {c}
  /\ next' = [next EXCEPT ![c] = 1]
  /\ last' = [last EXCEPT ![c] = 0]
  /\ events' = [events EXCEPT ![c] = {}]
  /\ UNCHANGED <<emitted, seen, order, diskSeen, diskOrder, handed, forgot,
                 restarts>>

\* The process dies and newBridge loads the state file again.
Restart ==
  /\ restarts < MaxRestarts
  /\ seen' = diskSeen
  /\ order' = diskOrder
  /\ scanning' = {}
  /\ next' = [c \in Clients |-> 1]
  /\ last' = [c \in Clients |-> 0]
  /\ events' = [c \in Clients |-> {}]
  /\ forgot' = [e \in Lines |->
                  IF e \in seen \ diskSeen THEN forgot[e] + 1 ELSE forgot[e]]
  /\ restarts' = restarts + 1
  /\ UNCHANGED <<emitted, diskSeen, diskOrder, handed>>

Next ==
  \/ Emit
  \/ \E c \in Clients : Fetch(c) \/ SkipLine(c) \/ TakeLine(c) \/ Respond(c)
  \/ Restart

Spec == Init /\ [][Next]_vars

\* A handler runs its loop to the end and answers; clients poll on a ticker,
\* but nothing makes the game server talk or the bridge restart.
Fairness ==
  \A c \in Clients : WF_vars(Fetch(c)) /\ WF_vars(SkipLine(c) \/ TakeLine(c) \/ Respond(c))

FairSpec == Spec /\ Fairness
-----------------------------------------------------------------------------
Feed == INSTANCE ChatFeed

(***************************************************************************)
(* The bridge implements the feed its readers rely on: no line is handed   *)
(* over again unless its mark was lost in a restart, although the list of  *)
(* marks is cut to DedupeMax (seenBefore, pruneLocked, loadState).         *)
(***************************************************************************)
FeedSpec == Feed!Spec

(***************************************************************************)
(* A line is handed over at most once per mark the bridge keeps: cutting   *)
(* the marks to DedupeMax never drops one whose line a later GET can still *)
(* see, across restarts too.                                               *)
(***************************************************************************)
AtMostOncePerMark == \A e \in Lines : handed[e] <= forgot[e] + 1

(***************************************************************************)
(* A chat line that stays in sight is handed over: once it is in the       *)
(* console it gets into some response or falls out of the window that a    *)
(* GET looks at (getMCConsole).                                            *)
(***************************************************************************)
EveryLineHandedOrMissed ==
  \A e \in Chat : (e <= emitted) ~> (handed[e] > 0 \/ e + Window <= emitted)
-----------------------------------------------------------------------------
(***************************************************************************)
(* The inductive invariant behind AtMostOncePerMark, for one reader and a  *)
(* window that is no larger than DedupeMax.                                *)
(***************************************************************************)
OneReader == \A c, d \in Clients : c = d
WindowFits == Window <= DedupeMax

\* No GET, running or to come, will look at line e any more.
Dead(e) ==
  /\ e + Window <= emitted
  /\ \A c \in scanning : e < next[c]

\* A list of n marks spans at least n lines of the console, in order.
Spread(o) ==
  /\ Len(o) <= DedupeMax
  /\ \A i, j \in 1 .. Len(o) : i <= j => o[i] + (j - i) <= o[j]

\* The marks leave no gap that a GET could still fill.
GoodMarks(marks) ==
  /\ \A m \in marks : m <= emitted /\ m \in Chat
  /\ \A m \in marks, e \in Chat \ marks : e < m => Dead(e)

GoodRequest(c) ==
  /\ last[c] <= emitted
  /\ next[c] <= last[c] + 1
  /\ last[c] < next[c] + Window
  /\ \A e \in Chat : (last[c] < e + Window /\ e < next[c])
                       => (e \in seen \/ Dead(e))

GoodCount(e) ==
  /\ forgot[e] <= handed[e] /\ handed[e] <= forgot[e] + 1
  /\ e \in seen \union diskSeen => handed[e] = forgot[e] + 1
  /\ (handed[e] > forgot[e] /\ e \notin seen) => Dead(e)

IInv ==
  /\ TypeOK
  /\ seen = Elements(order) /\ Spread(order) /\ GoodMarks(seen)
  /\ diskSeen = Elements(diskOrder) /\ Spread(diskOrder) /\ GoodMarks(diskSeen)
  /\ \A c \in scanning : GoodRequest(c)
  /\ \A e \in Lines : GoodCount(e)
=============================================================================
