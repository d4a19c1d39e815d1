----------------------------- MODULE RelayProofs -----------------------------
(***************************************************************************)
(* Proofs about Relay for any number of chat lines, players, marks kept by *)
(* pruneSeen, losses and crashes: the invariant IInv is inductive, part by *)
(* part, and the safety properties follow from it.                         *)
(***************************************************************************)
EXTENDS Relay, FiniteSetTheorems, WellFoundedInduction, TLAPS

\* The feed and the relay number the same lines.
LEMMA FeedLines == Feed!Lines = Lines
BY DEF Feed!Lines, Lines

\* A response that is not empty has a first line.
LEMMA LeastFacts ==
  ASSUME NEW S \in SUBSET Lines, S # {}
  PROVE  Least(S) \in S /\ \A f \in S : Least(S) <= f
<1>1. S \subseteq Nat
  BY DEF Lines
<1>2. PICK x \in S : \A y \in S : ~(<<y, x>> \in OpToRel(<, Nat))
  BY <1>1, NatLessThanWellFounded, WFMin
<1>3. \A y \in S : ~(y < x)
  BY <1>1, <1>2 DEF OpToRel
<1>4. \A y \in S : x <= y
  BY <1>1, <1>3
<1> QED
  BY <1>4 DEF Least

\* What is available has no mark; a poll hands over all of it.
LEMMA AvailableFacts ==
  ASSUME TypeOK
  PROVE  /\ Feed!Available \subseteq Lines
         /\ \A e \in Feed!Available : e <= emitted /\ handed[e] <= forgot[e]
         /\ \A e \in Lines \ Feed!Available : e <= emitted => handed[e] > forgot[e]
BY FeedLines, RelayAssumption DEF TypeOK, Feed!TypeOK, Feed!Available, Feed!Marked, Lines

LEMMA LineNumbers == \A e \in Lines : e \in Nat \ {0} /\ e \in 0 .. MaxLines
BY RelayAssumption DEF Lines

\* The loops over a response take its first event.
LEMMA NextEventTakes ==
  ASSUME TypeOK, NextEvent
  PROVE  \E e \in Lines :
           /\ e \in batch /\ \A f \in batch : e <= f
           /\ pc = "batch" /\ batch' = batch \ {e}
           /\ SkipEvent(e) \/ RecordEvent(e)
<1>1. Least(batch) \in batch /\ \A f \in batch : Least(batch) <= f
  BY LeastFacts DEF TypeOK, LoopTypeOK, NextEvent
<1>2. Least(batch) \in Lines
  BY <1>1 DEF TypeOK, LoopTypeOK
<1> QED
  BY <1>1, <1>2 DEF NextEvent

LEMMA MonitorEventTakes ==
  ASSUME TypeOK, MonitorEvent
  PROVE  \E e \in Lines :
           /\ e \in monitor /\ \A f \in monitor : e <= f
           /\ pc \in {"agent", "stopping"} /\ queued = 0 /\ monitor' = monitor \ {e}
           /\ PassOver(e) \/ Queue(e)
<1>1. Least(monitor) \in monitor /\ \A f \in monitor : Least(monitor) <= f
  BY LeastFacts DEF TypeOK, MonitorTypeOK, MonitorEvent
<1>2. Least(monitor) \in Lines
  BY <1>1 DEF TypeOK, MonitorTypeOK
<1> QED
  BY <1>1, <1>2 DEF MonitorEvent

\* pruneSeen keeps a part of the marks.
LEMMA PruneFacts ==
  ASSUME NEW marks, NEW times, NEW kept \in PruneSeen(marks, times)
  PROVE  kept \subseteq marks
BY DEF PruneSeen

-----------------------------------------------------------------------------
(* Types *)

LEMMA TypeInit == Init => TypeOK
<1> SUFFICES ASSUME Init PROVE TypeOK
  OBVIOUS
<1> USE RelayAssumption DEF Init
<1>1. Feed!TypeOK
  BY FeedLines DEF Feed!Init, Feed!TypeOK
<1>2. StateTypeOK
  BY DEF StateTypeOK
<1>3. LoopTypeOK
  BY DEF LoopTypeOK
<1>4. MonitorTypeOK
  BY DEF MonitorTypeOK
<1>5. HistoryTypeOK
  BY DEF HistoryTypeOK
<1> QED
  BY <1>1, <1>2, <1>3, <1>4, <1>5 DEF TypeOK

\* The feed keeps its type.
LEMMA FeedType ==
  ASSUME TypeOK,
         \/ Feed!Emit
         \/ \E S \in SUBSET Lines : Feed!HandOver(S) \/ Feed!Forget(S)
         \/ UNCHANGED <<emitted, handed, forgot>>
  PROVE  Feed!TypeOK'
<1>1. emitted \in 0..MaxLines /\ handed \in [Lines -> Nat] /\ forgot \in [Lines -> Nat]
  BY FeedLines DEF TypeOK, Feed!TypeOK
<1>2. emitted' \in 0..MaxLines /\ handed' \in [Lines -> Nat] /\ forgot' \in [Lines -> Nat]
  <2>1. CASE Feed!Emit
    BY <1>1, <2>1, RelayAssumption DEF Feed!Emit
  <2>2. ASSUME NEW S \in SUBSET Lines, Feed!HandOver(S) PROVE <1>2!:
    BY <1>1, <2>2, FeedLines DEF Feed!HandOver
  <2>3. ASSUME NEW S \in SUBSET Lines, Feed!Forget(S) PROVE <1>2!:
    BY <1>1, <2>3, FeedLines DEF Feed!Forget
  <2> QED
    BY <1>1, <2>1, <2>2, <2>3
<1> QED
  BY <1>2, FeedLines DEF Feed!TypeOK

LEMMA FeedTypeStep == TypeOK /\ [Next]_vars => Feed!TypeOK'
<1> SUFFICES ASSUME TypeOK, [Next]_vars PROVE Feed!TypeOK'
  OBVIOUS
<1> USE DEF feedVars
<1>1. Chat => Feed!Emit
  BY DEF Chat
<1>2. \A e \in Lines : BridgeForgets(e) => \E S \in SUBSET Lines : Feed!Forget(S)
  BY DEF BridgeForgets
<1>3. LosePoll \/ SeedPoll \/ Poll \/ MonitorPoll => \E S \in SUBSET Lines : Feed!HandOver(S)
  BY AvailableFacts DEF LosePoll, SeedPoll, Poll, MonitorPoll
<1>4. \/ UNCHANGED vars \/ NextEvent \/ EndBatch \/ MonitorEvent \/ MarkQueued \/ MonitorStopped
      \/ AgentReads \/ AgentFails \/ AgentReturns \/ Crash
      \/ (\E t \in Texts : Publish(t)) \/ (\E ok \in BOOLEAN : SayPart(ok))
      => UNCHANGED <<emitted, handed, forgot>>
  BY DEF vars, NextEvent, EndBatch, MonitorEvent, MarkQueued, MonitorStopped, AgentReads,
     AgentFails, AgentReturns, Crash, Publish, SayPart
<1> QED
  BY <1>1, <1>2, <1>3, <1>4, FeedType DEF Next, MainLoop, Turn, Monitor

\* What saveState writes is what the state holds, or what the file held.
LEMMA DiskType ==
  ASSUME StateTypeOK, SaveState, initialized' \in BOOLEAN, seen' \subseteq Lines,
         stamp' \in [Lines -> Nat]
  PROVE  diskInitialized' \in BOOLEAN /\ diskSeen' \subseteq Lines /\ diskStamp' \in [Lines -> Nat]
BY DEF StateTypeOK, SaveState, diskVars

LEMMA StateTypeStep == TypeOK /\ Control /\ [Next]_vars => StateTypeOK'
<1> SUFFICES ASSUME TypeOK, Control, [Next]_vars PROVE StateTypeOK'
  OBVIOUS
<1> USE DEF feedVars, stVars
<1>t. StateTypeOK /\ LoopTypeOK /\ MonitorTypeOK
  BY DEF TypeOK
<1>a. Feed!Available \subseteq Lines
  BY AvailableFacts
<1>u. UNCHANGED <<stVars, diskVars, clock, batchTime>> => StateTypeOK'
  BY <1>t DEF StateTypeOK, diskVars
<1>1. ASSUME SeedPoll PROVE StateTypeOK'
  <2>1. stamp' \in [Lines -> Nat] /\ clock' \in Nat
    BY <1>1, <1>t DEF SeedPoll, StateTypeOK
  <2>2. seen' \subseteq Lines
    BY <1>1, <1>t, <1>a, PruneFacts DEF SeedPoll, StateTypeOK
  <2>3. initialized' \in BOOLEAN /\ SaveState /\ UNCHANGED batchTime
    BY <1>1 DEF SeedPoll
  <2> QED
    BY <1>t, <2>1, <2>2, <2>3, DiskType DEF StateTypeOK
<1>2. ASSUME Poll PROVE StateTypeOK'
  BY <1>2, <1>t DEF Poll, Tick, StateTypeOK, diskVars
<1>3. ASSUME NextEvent PROVE StateTypeOK'
  <2>1. PICK e \in Lines : /\ e \in batch /\ batch' = batch \ {e}
                           /\ SkipEvent(e) \/ RecordEvent(e)
    BY <1>3, NextEventTakes
  <2>3. UNCHANGED <<initialized, diskVars, clock, batchTime>>
    BY <1>3 DEF NextEvent
  <2>4. seen' \subseteq Lines /\ stamp' \in [Lines -> Nat]
    BY <2>1, <1>t DEF SkipEvent, RecordEvent, StateTypeOK
  <2> QED
    BY <2>3, <2>4, <1>t DEF StateTypeOK, diskVars
<1>4. ASSUME EndBatch PROVE StateTypeOK'
  <2>1. seen' \subseteq Lines
    BY <1>4, <1>t, PruneFacts DEF EndBatch, StateTypeOK
  <2>2. UNCHANGED <<initialized, stamp, clock, batchTime>> /\ SaveState
    BY <1>4 DEF EndBatch
  <2> QED
    BY <1>t, <2>1, <2>2, DiskType DEF StateTypeOK
<1>5. ASSUME MonitorPoll PROVE StateTypeOK'
  BY <1>5, <1>t DEF MonitorPoll, StateTypeOK, diskVars
<1>6. ASSUME MarkQueued PROVE StateTypeOK'
  <2>1. queued \in Lines
    BY <1>6, <1>t DEF MarkQueued, MonitorTypeOK, Lines
  <2>2. stamp' \in [Lines -> Nat]
    BY <1>6, <1>t DEF MarkQueued, StateTypeOK
  <2>3. seen' \subseteq Lines
    BY <1>6, <1>t, <2>1, PruneFacts DEF MarkQueued, StateTypeOK
  <2>4. UNCHANGED <<initialized, clock, batchTime>> /\ SaveState
    BY <1>6 DEF MarkQueued
  <2> QED
    BY <1>t, <2>2, <2>3, <2>4, DiskType DEF StateTypeOK
<1>7. ASSUME Crash PROVE StateTypeOK'
  BY <1>7, <1>t DEF Crash, StateTypeOK, diskVars
<1>8. \/ UNCHANGED vars \/ Chat \/ (\E e \in Lines : BridgeForgets(e)) \/ LosePoll \/ MonitorEvent
      \/ MonitorStopped \/ AgentReads \/ AgentFails \/ AgentReturns
      \/ (\E t \in Texts : Publish(t)) \/ (\E ok \in BOOLEAN : SayPart(ok))
      => UNCHANGED <<stVars, diskVars, clock, batchTime>>
  BY DEF vars, Chat, BridgeForgets, LosePoll, MonitorEvent, MonitorStopped, AgentReads,
     AgentFails, AgentReturns, Publish, SayPart
<1> QED
  BY <1>u, <1>1, <1>2, <1>3, <1>4, <1>5, <1>6, <1>7, <1>8 DEF Next, MainLoop, Turn, Monitor

LEMMA LoopTypeStep == TypeOK /\ Control /\ [Next]_vars => LoopTypeOK'
<1> SUFFICES ASSUME TypeOK, Control, [Next]_vars PROVE LoopTypeOK'
  OBVIOUS
<1> USE RelayAssumption DEF commentaryVars, partVars
<1>t. LoopTypeOK /\ MonitorTypeOK
  BY DEF TypeOK
<1>a. Feed!Available \subseteq Lines
  BY AvailableFacts
<1>u. UNCHANGED <<pc, batch, cur, attempt, shown, sent, partsLeft, partsSaid>> => LoopTypeOK'
  BY <1>t DEF LoopTypeOK
<1>1. ASSUME Poll PROVE LoopTypeOK'
  BY <1>1, <1>t, <1>a DEF Poll, LoopTypeOK
<1>2. ASSUME NextEvent PROVE LoopTypeOK'
  <2>1. PICK e \in Lines : /\ e \in batch /\ batch' = batch \ {e}
                           /\ SkipEvent(e) \/ RecordEvent(e)
    BY <1>2, NextEventTakes
  <2>3. batch' \subseteq Lines
    BY <1>2, <1>t DEF NextEvent, LoopTypeOK
  <2>4. CASE UNCHANGED <<pc, cur, attempt, turns, partVars, commentaryVars>>
    BY <2>3, <2>4, <1>t DEF LoopTypeOK
  <2>5. CASE RecordEvent(e) /\ e \in Triggered
    <3>1. pc' \in {"say", "agent"} /\ cur' = e /\ attempt' = 1 /\ sent' = {} /\ partsSaid' = 0
      BY <2>5 DEF RecordEvent
    <3>2. shown' = [t \in Texts |-> 0]
      BY <2>5 DEF RecordEvent
    <3>3. partsLeft' \in 0 .. MaxParts
      BY <2>5, <1>t DEF RecordEvent, LoopTypeOK
    <3>4. partsSaid' \in 0 .. MaxParts /\ attempt' \in 1 .. 2
      BY <3>1
    <3> QED
      BY <2>1, LineNumbers, <2>3, <3>1, <3>2, <3>3, <3>4 DEF LoopTypeOK
  <2> QED
    BY <2>1, <2>4, <2>5 DEF SkipEvent, RecordEvent
<1>3. ASSUME EndBatch PROVE LoopTypeOK'
  BY <1>3, <1>t DEF EndBatch, LoopTypeOK
<1>4. ASSUME MonitorStopped PROVE LoopTypeOK'
  BY <1>4, <1>t DEF MonitorStopped, LoopTypeOK
<1>5. ASSUME AgentFails PROVE LoopTypeOK'
  BY <1>5, <1>t DEF AgentFails, LoopTypeOK
<1>6. ASSUME AgentReturns PROVE LoopTypeOK'
  BY <1>6, <1>t DEF AgentReturns, LoopTypeOK
<1>7. ASSUME NEW t \in Texts, Publish(t) PROVE LoopTypeOK'
  <2>1. shown' \in [Texts -> Nat] /\ sent' \subseteq Texts
    BY <1>7, <1>t DEF Publish, LoopTypeOK
  <2>2. UNCHANGED <<pc, batch, cur, attempt, partsLeft, partsSaid>>
    BY <1>7 DEF Publish
  <2> QED
    BY <1>t, <2>1, <2>2 DEF LoopTypeOK
<1>8. ASSUME NEW ok \in BOOLEAN, SayPart(ok) PROVE LoopTypeOK'
  <2>1. partsLeft \in 1 .. MaxParts /\ partsSaid \in 0 .. MaxParts /\ partsSaid + partsLeft <= MaxParts
    BY <1>8, <1>t DEF Control, SayPart, LoopTypeOK
  <2>2. partsSaid' \in 0 .. MaxParts
    BY <1>8, <2>1 DEF SayPart
  <2>3. partsLeft' \in 0 .. MaxParts
    BY <1>8, <2>1 DEF SayPart, FinishReply
  <2>4. pc' \in {"say", "batch"} /\ cur' \in 0 .. MaxLines
    BY <1>8, <1>t DEF SayPart, FinishReply, LoopTypeOK
  <2>5. UNCHANGED <<batch, attempt, shown, sent>>
    BY <1>8 DEF SayPart
  <2> QED
    BY <1>t, <2>2, <2>3, <2>4, <2>5 DEF LoopTypeOK
<1>9. ASSUME Crash PROVE LoopTypeOK'
  <2>1. pc' = "idle" /\ batch' = {} /\ cur' = 0 /\ attempt' = 1 /\ partsLeft' = 0 /\ partsSaid' = 0
    BY <1>9 DEF Crash
  <2>2. shown' = [t \in Texts |-> 0] /\ sent' = {}
    BY <1>9 DEF Crash
  <2> QED
    BY <2>1, <2>2 DEF LoopTypeOK
<1>10. \/ UNCHANGED vars \/ Chat \/ (\E e \in Lines : BridgeForgets(e)) \/ LosePoll \/ SeedPoll
       \/ MonitorPoll \/ MonitorEvent \/ MarkQueued \/ AgentReads
       => UNCHANGED <<pc, batch, cur, attempt, shown, sent, partsLeft, partsSaid>>
  BY DEF vars, Chat, BridgeForgets, LosePoll, SeedPoll, MonitorPoll, MonitorEvent, MarkQueued,
     AgentReads
<1> QED
  BY <1>u, <1>1, <1>2, <1>3, <1>4, <1>5, <1>6, <1>7, <1>8, <1>9, <1>10
     DEF Next, MainLoop, Turn, Monitor

LEMMA MonitorTypeStep == TypeOK /\ Control /\ [Next]_vars => MonitorTypeOK'
<1> SUFFICES ASSUME TypeOK, Control, [Next]_vars PROVE MonitorTypeOK'
  OBVIOUS
<1> USE RelayAssumption DEF monitorVars
<1>t. MonitorTypeOK
  BY DEF TypeOK
<1>a. Feed!Available \subseteq Lines
  BY AvailableFacts
<1>1. ASSUME MonitorPoll PROVE MonitorTypeOK'
  BY <1>1, <1>t, <1>a DEF MonitorPoll, MonitorTypeOK
<1>2. ASSUME MonitorEvent PROVE MonitorTypeOK'
  <2>1. PICK e \in Lines : /\ e \in monitor /\ monitor' = monitor \ {e}
                           /\ PassOver(e) \/ Queue(e)
    BY <1>2, MonitorEventTakes
  <2>3. monitor' \subseteq Lines
    BY <1>2, <1>t DEF MonitorEvent, MonitorTypeOK
  <2>4. CASE PassOver(e)
    BY <2>3, <2>4, <1>t DEF PassOver, MonitorTypeOK
  <2>5. CASE Queue(e)
    BY <2>1, LineNumbers, <2>3, <2>5, <1>t DEF Queue, ChannelFull, MonitorTypeOK
  <2> QED
    BY <2>1, <2>4, <2>5
<1>3. ASSUME MarkQueued PROVE MonitorTypeOK'
  BY <1>3, <1>t DEF MarkQueued, MonitorTypeOK
<1>4. ASSUME MonitorStopped PROVE MonitorTypeOK'
  BY <1>4, <1>t DEF MonitorStopped, MonitorTypeOK
<1>5. ASSUME AgentReads PROVE MonitorTypeOK'
  BY <1>5, <1>t DEF AgentReads, MonitorTypeOK
<1>6. ASSUME Crash PROVE MonitorTypeOK'
  BY <1>6, <1>t DEF Crash, MonitorTypeOK
<1>7. UNCHANGED <<monitor, queued, steering>> => MonitorTypeOK'
  BY <1>t DEF MonitorTypeOK
<1>8. \/ UNCHANGED vars \/ Chat \/ (\E e \in Lines : BridgeForgets(e)) \/ LosePoll \/ SeedPoll
      \/ Poll \/ NextEvent \/ EndBatch \/ AgentFails \/ AgentReturns
      \/ (\E t \in Texts : Publish(t)) \/ (\E ok \in BOOLEAN : SayPart(ok))
      => UNCHANGED <<monitor, queued, steering>>
  BY DEF vars, Chat, BridgeForgets, LosePoll, SeedPoll, Poll, NextEvent, EndBatch, AgentFails,
     AgentReturns, Publish, SayPart
<1> QED
  BY <1>1, <1>2, <1>3, <1>4, <1>5, <1>6, <1>7, <1>8 DEF Next, MainLoop, Turn, Monitor

LEMMA HistoryTypeStep == TypeOK /\ Control /\ [Next]_vars => HistoryTypeOK'
<1> SUFFICES ASSUME TypeOK, Control, [Next]_vars PROVE HistoryTypeOK'
  OBVIOUS
<1> USE RelayAssumption DEF logVars, histVars
<1>t. HistoryTypeOK /\ StateTypeOK /\ LoopTypeOK /\ MonitorTypeOK
  BY DEF TypeOK
<1>a. Feed!Available \subseteq Lines
  BY AvailableFacts
<1>q. queued # 0 => queued \in Lines
  BY <1>t DEF MonitorTypeOK, Lines
<1>1. ASSUME LosePoll PROVE HistoryTypeOK'
  BY <1>1, <1>t, <1>a DEF LosePoll, HistoryTypeOK
<1>2. ASSUME SeedPoll PROVE HistoryTypeOK'
  BY <1>2, <1>t, <1>a DEF SeedPoll, HistoryTypeOK, StateTypeOK
<1>3. ASSUME NextEvent PROVE HistoryTypeOK'
  <2>1. PICK e \in Lines : /\ e \in batch /\ batch' = batch \ {e}
                           /\ SkipEvent(e) \/ RecordEvent(e)
    BY <1>3, NextEventTakes
  <2>3. UNCHANGED <<replyLog, seeded, steered, readIn, taken, answered, dropped, lost, crashes>>
    BY <1>3 DEF NextEvent
  <2>4. chatLog' \subseteq Lines /\ unlogged' \subseteq Lines /\ turns' \in [Lines -> Nat]
    BY <2>1, <1>t DEF SkipEvent, RecordEvent, LogChat, HistoryTypeOK
  <2> QED
    BY <1>t, <2>3, <2>4 DEF HistoryTypeOK
<1>4. ASSUME EndBatch PROVE HistoryTypeOK'
  BY <1>4, <1>t DEF EndBatch, HistoryTypeOK, StateTypeOK
<1>5. ASSUME MonitorEvent PROVE HistoryTypeOK'
  <2>1. PICK e \in Lines : /\ e \in monitor /\ monitor' = monitor \ {e}
                           /\ PassOver(e) \/ Queue(e)
    BY <1>5, MonitorEventTakes
  <2>3. UNCHANGED <<chatLog, replyLog, seeded, turns, readIn, taken, answered, unlogged, lost, crashes>>
    BY <1>5 DEF MonitorEvent
  <2>4. dropped' \subseteq Lines /\ steered' \in [Lines -> Nat]
    <3>1. CASE PassOver(e)
      BY <2>1, <3>1, <1>t DEF PassOver, HistoryTypeOK
    <3>2. CASE Queue(e)
      BY <2>1, <3>2, <1>t DEF Queue, HistoryTypeOK
    <3> QED
      BY <2>1, <3>1, <3>2
  <2> QED
    BY <1>t, <2>3, <2>4 DEF HistoryTypeOK
<1>6. ASSUME MarkQueued PROVE HistoryTypeOK'
  BY <1>6, <1>t, <1>q DEF MarkQueued, LogChat, HistoryTypeOK, StateTypeOK
<1>7. ASSUME AgentReads PROVE HistoryTypeOK'
  <2>1. cur \in Lines /\ Head(steering) \in Lines
    BY <1>7, <1>t DEF AgentReads, Control, MonitorTypeOK
  <2>2. readIn' \subseteq Lines \X Lines
    BY <1>7, <1>t, <2>1 DEF AgentReads, HistoryTypeOK
  <2>3. /\ taken' = taken \union {Head(steering)}
        /\ UNCHANGED <<chatLog, replyLog, seeded, turns, steered, answered, dropped, unlogged,
                       lost, crashes>>
    BY <1>7 DEF AgentReads
  <2> QED
    BY <1>t, <2>1, <2>2, <2>3 DEF HistoryTypeOK
<1>8. ASSUME NEW ok \in BOOLEAN, SayPart(ok) PROVE HistoryTypeOK'
  <2>1. cur \in Lines
    BY <1>8 DEF SayPart, Control
  <2>2. UNCHANGED <<chatLog, seeded, turns, steered, readIn, unlogged, lost, crashes>>
    BY <1>8 DEF SayPart
  <2>3. /\ replyLog' \subseteq replyLog \union {cur} /\ taken' \subseteq taken
        /\ answered' \subseteq answered \union {cur} \union taken
        /\ dropped' \subseteq dropped \union {cur} \union taken
    BY <1>8 DEF SayPart, FinishReply, LogReply
  <2> QED
    BY <1>t, <2>1, <2>2, <2>3 DEF HistoryTypeOK
<1>9. ASSUME Crash PROVE HistoryTypeOK'
  <2>1. lost' \subseteq Lines
    BY <1>9, <1>t, <1>q DEF Crash, HistoryTypeOK, StateTypeOK
  <2>2. crashes' \in 0 .. MaxCrashes
    BY <1>9, <1>t DEF Crash, HistoryTypeOK
  <2> QED
    BY <1>9, <1>t, <2>1, <2>2 DEF Crash, HistoryTypeOK
<1>10. UNCHANGED <<logVars, histVars>> => HistoryTypeOK'
  BY <1>t DEF HistoryTypeOK
<1>11. \/ UNCHANGED vars \/ Chat \/ (\E e \in Lines : BridgeForgets(e)) \/ Poll \/ MonitorPoll
       \/ (\E t \in Texts : Publish(t))
       => UNCHANGED <<logVars, histVars>>
  BY DEF vars, Chat, BridgeForgets, Poll, MonitorPoll, Publish
<1>12. ASSUME MonitorStopped PROVE HistoryTypeOK'
  <2>1. {steering[i] : i \in DOMAIN steering} \subseteq Lines
    BY <1>t DEF MonitorTypeOK
  <2> QED
    BY <1>12, <1>t, <2>1 DEF MonitorStopped, HistoryTypeOK
<1>13. ASSUME AgentFails \/ AgentReturns PROVE HistoryTypeOK'
  BY <1>13, <1>t DEF AgentFails, AgentReturns, LoseTaken, HistoryTypeOK
<1> QED
  BY <1>1, <1>2, <1>3, <1>4, <1>5, <1>6, <1>7, <1>8, <1>9, <1>10, <1>11, <1>12, <1>13
     DEF Next, MainLoop, Turn, Monitor

LEMMA TypeStep == TypeOK /\ Control /\ [Next]_vars => TypeOK'
BY FeedTypeStep, StateTypeStep, LoopTypeStep, MonitorTypeStep, HistoryTypeStep DEF TypeOK
-----------------------------------------------------------------------------
(* The parts of the invariant *)

LEMMA ControlStep == TypeOK /\ Control /\ [Next]_vars => Control'
<1> SUFFICES ASSUME TypeOK, Control, [Next]_vars PROVE Control'
  OBVIOUS
<1> USE RelayAssumption DEF Control, stVars, monitorVars, diskVars, partVars, SaveState
<1>t. LoopTypeOK /\ MonitorTypeOK
  BY DEF TypeOK
<1>b. initialized \in BOOLEAN /\ diskInitialized \in BOOLEAN
  BY DEF TypeOK, StateTypeOK
<1>p. partsLeft \in Nat /\ partsSaid \in Nat
  BY <1>t DEF LoopTypeOK
<1>1. ASSUME SeedPoll PROVE Control'
  BY <1>1, <1>b, <1>p DEF SeedPoll
<1>2. ASSUME Poll PROVE Control'
  BY <1>2 DEF Poll
<1>3. ASSUME NextEvent PROVE Control'
  <2>1. PICK e \in Lines : /\ e \in batch /\ pc = "batch" /\ batch' = batch \ {e}
                           /\ SkipEvent(e) \/ RecordEvent(e)
    BY <1>3, NextEventTakes
  <2>2. /\ initialized' = TRUE /\ diskInitialized' = diskInitialized /\ diskSeen' = diskSeen
        /\ monitor' = {} /\ queued' = 0 /\ steering' = <<>>
    BY <1>3, <1>b, <2>1 DEF NextEvent
  <2>3. CASE SkipEvent(e)
    <3>1. pc' = pc /\ cur' = cur /\ partsLeft' = partsLeft /\ partsSaid' = partsSaid
      BY <2>3 DEF SkipEvent
    <3> QED
      BY <2>1, <2>2, <3>1, <1>b, <1>p
  <2>4. CASE RecordEvent(e) /\ e \notin Triggered
    <3>1. pc' = pc /\ cur' = cur /\ partsLeft' = partsLeft /\ partsSaid' = partsSaid
      BY <2>4 DEF RecordEvent
    <3> QED
      BY <2>1, <2>2, <3>1, <1>b, <1>p
  <2>5. CASE RecordEvent(e) /\ e \in Triggered
    <3>1. pc' \in {"say", "agent"} /\ cur' = e /\ partsSaid' = 0
      BY <2>5 DEF RecordEvent
    <3>2. pc' = "say" => partsLeft' \in 1 .. MaxParts
      BY <2>5 DEF RecordEvent
    <3> QED
      BY <2>1, <2>2, <3>1, <3>2, <1>b, <1>p
  <2> QED
    BY <2>1, <2>3, <2>4, <2>5
<1>4. ASSUME EndBatch PROVE Control'
  BY <1>4 DEF EndBatch
<1>5. ASSUME MonitorPoll PROVE Control'
  BY <1>5 DEF MonitorPoll
<1>6. ASSUME MonitorEvent PROVE Control'
  BY <1>6 DEF MonitorEvent
<1>7. ASSUME MarkQueued PROVE Control'
  <2>1. initialized' = TRUE /\ pc \in {"agent", "stopping"} /\ queued' = 0
    BY <1>7, <1>b DEF MarkQueued
  <2>2. /\ pc' = pc /\ batch' = batch /\ cur' = cur /\ steering' = steering /\ monitor' = monitor
        /\ partsLeft' = partsLeft /\ partsSaid' = partsSaid
    BY <1>7 DEF MarkQueued
  <2>3. ~diskInitialized' => diskSeen' = {}
    BY <1>7, <1>b, <2>1 DEF MarkQueued
  <2> QED
    BY <2>1, <2>2, <2>3, <1>p
<1>8. ASSUME MonitorStopped PROVE Control'
  <2>1. partsLeft' > 0 /\ partsSaid' + partsLeft' <= MaxParts
    <3>1. PICK n \in 1 .. MaxParts : partsLeft' = n
      BY <1>8 DEF MonitorStopped
    <3>2. partsSaid' = 0
      BY <1>8 DEF MonitorStopped
    <3> QED
      BY <3>1, <3>2
  <2>2. pc' = "say" /\ initialized' = TRUE /\ monitor' = {} /\ queued' = 0 /\ steering' = <<>>
    BY <1>8, <1>b DEF MonitorStopped
  <2>3. cur' \in Lines /\ diskInitialized' = diskInitialized /\ diskSeen' = diskSeen
    BY <1>8 DEF MonitorStopped
  <2> QED
    BY <2>1, <2>2, <2>3, <1>b
<1>9. ASSUME AgentReads \/ AgentFails \/ AgentReturns \/ \E t \in Texts : Publish(t) PROVE Control'
  BY <1>9 DEF AgentReads, AgentFails, AgentReturns, Publish
<1>10. ASSUME NEW ok \in BOOLEAN, SayPart(ok) PROVE Control'
  <2>1. partsLeft \in 1 .. MaxParts /\ partsSaid \in 0 .. MaxParts /\ partsSaid + partsLeft <= MaxParts
    BY <1>10, <1>t DEF SayPart, LoopTypeOK
  <2>2. /\ partsSaid' = (IF ok THEN partsSaid + 1 ELSE partsSaid)
        /\ IF ok /\ partsLeft > 1
           THEN partsLeft' = partsLeft - 1 /\ UNCHANGED <<pc, cur, replyLog>>
           ELSE FinishReply
    BY <1>10 DEF SayPart
  <2>3. pc = "say" /\ UNCHANGED <<initialized, seen, diskInitialized, diskSeen, batch, steering,
                                  monitor, queued>>
    BY <1>10 DEF SayPart
  <2>4. CASE ok /\ partsLeft > 1
    BY <2>1, <2>2, <2>3, <2>4
  <2>5. CASE ~(ok /\ partsLeft > 1)
    BY <2>2, <2>3, <2>5 DEF FinishReply
  <2> QED
    BY <2>4, <2>5
<1>11. ASSUME Crash PROVE Control'
  BY <1>11 DEF Crash
<1>12. ASSUME Chat \/ (\E e \in Lines : BridgeForgets(e)) \/ LosePoll PROVE Control'
  BY <1>12 DEF Chat, BridgeForgets, LosePoll
<1>13. ASSUME UNCHANGED vars PROVE Control'
  BY <1>13 DEF vars
<1> QED
  BY <1>1, <1>2, <1>3, <1>4, <1>5, <1>6, <1>7, <1>8, <1>9, <1>10, <1>11, <1>12, <1>13
     DEF Next, MainLoop, Turn, Monitor

\* A poll hands over what is available, once more.
LEMMA HandOverFacts ==
  ASSUME TypeOK, Feed!HandOver(Feed!Available)
  PROVE  /\ UNCHANGED <<emitted, forgot>>
         /\ \A e \in Lines :
              handed'[e] = IF e \in Feed!Available THEN handed[e] + 1 ELSE handed[e]
         /\ \A e \in Lines : handed[e] <= handed'[e]
BY FeedLines DEF TypeOK, Feed!TypeOK, Feed!HandOver

LEMMA DeliveredStep == TypeOK /\ Delivered /\ [Next]_vars => Delivered'
<1> SUFFICES ASSUME TypeOK, Delivered, [Next]_vars PROVE Delivered'
  OBVIOUS
<1> USE DEF feedVars
<1>t. emitted \in 0..MaxLines /\ handed \in [Lines -> Nat] /\ forgot \in [Lines -> Nat]
  BY FeedLines DEF TypeOK, Feed!TypeOK
<1>1. ASSUME Feed!HandOver(Feed!Available) PROVE Delivered'
  <2> SUFFICES ASSUME NEW e \in Lines
               PROVE  /\ handed'[e] <= forgot'[e] + 1
                      /\ handed'[e] > 0 => e <= emitted' /\ \A d \in 1..e : handed'[d] > 0
    BY DEF Delivered
  <2>1. handed'[e] <= forgot'[e] + 1
    BY <1>1, <1>t, HandOverFacts, AvailableFacts DEF Delivered
  <2>2. ASSUME handed'[e] > 0 PROVE e <= emitted
    BY <1>1, <1>t, <2>2, HandOverFacts, AvailableFacts DEF Delivered
  <2>3. ASSUME e <= emitted, NEW d \in 1..e PROVE handed'[d] > 0
    <3>1. d \in Lines /\ d <= emitted
      BY <1>t, <2>3, RelayAssumption DEF Lines
    <3>2. CASE d \in Feed!Available
      BY <1>1, <1>t, <3>1, <3>2, HandOverFacts
    <3>3. CASE d \notin Feed!Available
      BY <1>1, <1>t, <3>1, <3>3, HandOverFacts, AvailableFacts
    <3> QED
      BY <3>2, <3>3
  <2> QED
    BY <1>1, <2>1, <2>2, <2>3, HandOverFacts
<1>2. ASSUME Chat PROVE Delivered'
  BY <1>2, <1>t, LineNumbers DEF Chat, Feed!Emit, Delivered
<1>3. ASSUME NEW e \in Lines, BridgeForgets(e) PROVE Delivered'
  <2>1. /\ UNCHANGED <<emitted, handed>>
        /\ forgot' = [d \in Lines |-> IF d \in {e} THEN forgot[d] + 1 ELSE forgot[d]]
    BY <1>3, FeedLines DEF BridgeForgets, Feed!Forget
  <2>2. \A d \in Lines : forgot[d] <= forgot'[d] /\ forgot[d] \in Nat /\ forgot'[d] \in Nat
    BY <1>t, <2>1
  <2> QED
    BY <1>t, <2>1, <2>2 DEF Delivered
<1>4. LosePoll \/ SeedPoll \/ Poll \/ MonitorPoll => Feed!HandOver(Feed!Available)
  BY DEF LosePoll, SeedPoll, Poll, MonitorPoll
<1>5. \/ UNCHANGED vars \/ NextEvent \/ EndBatch \/ MonitorEvent \/ MarkQueued \/ MonitorStopped
      \/ AgentReads \/ AgentFails \/ AgentReturns \/ Crash
      \/ (\E t \in Texts : Publish(t)) \/ (\E ok \in BOOLEAN : SayPart(ok))
      => UNCHANGED <<emitted, handed, forgot>>
  BY DEF vars, NextEvent, EndBatch, MonitorEvent, MarkQueued, MonitorStopped, AgentReads,
     AgentFails, AgentReturns, Crash, Publish, SayPart
<1>6. UNCHANGED <<emitted, handed, forgot>> => Delivered'
  BY DEF Delivered
<1> QED
  BY <1>1, <1>2, <1>3, <1>4, <1>5, <1>6 DEF Next, MainLoop, Turn, Monitor

LEMMA CountedStep == TypeOK /\ Control /\ Counted /\ [Next]_vars => Counted'
<1> SUFFICES ASSUME TypeOK, Control, Counted, [Next]_vars PROVE Counted'
  OBVIOUS
<1> USE DEF Counted, Handled, histVars, monitorVars, feedVars
<1>t. handed \in [Lines -> Nat] /\ turns \in [Lines -> Nat] /\ steered \in [Lines -> Nat]
  BY FeedLines DEF TypeOK, Feed!TypeOK, HistoryTypeOK
<1>1. ASSUME LosePoll \/ SeedPoll PROVE Counted'
  <2>1. UNCHANGED <<turns, steered, batch, monitor>> /\ Feed!HandOver(Feed!Available)
    BY <1>1 DEF LosePoll, SeedPoll
  <2>2. \A e \in Lines : handed[e] <= handed'[e] /\ handed'[e] \in Nat
    BY <1>t, <2>1, HandOverFacts
  <2> QED
    BY <1>t, <2>1, <2>2
<1>2. ASSUME Poll PROVE Counted'
  <2>1. /\ UNCHANGED <<turns, steered, monitor>> /\ Feed!HandOver(Feed!Available)
        /\ batch = {} /\ batch' = Feed!Available
    BY <1>2 DEF Poll, Control
  <2> QED
    BY <1>t, <2>1, HandOverFacts
<1>3. ASSUME NextEvent PROVE Counted'
  <2>1. PICK e \in Lines : e \in batch /\ batch' = batch \ {e} /\ (SkipEvent(e) \/ RecordEvent(e))
    BY <1>3, NextEventTakes
  <2>2. UNCHANGED <<handed, steered, monitor>>
    BY <1>3 DEF NextEvent
  <2>3. turns' = turns \/ turns' = [turns EXCEPT ![e] = @ + 1]
    BY <2>1 DEF SkipEvent, RecordEvent
  <2> QED
    BY <1>t, <2>1, <2>2, <2>3
<1>4. ASSUME MonitorPoll PROVE Counted'
  <2>1. /\ UNCHANGED <<turns, steered, batch>> /\ Feed!HandOver(Feed!Available)
        /\ monitor = {} /\ monitor' = Feed!Available
    BY <1>4 DEF MonitorPoll
  <2> QED
    BY <1>t, <2>1, HandOverFacts
<1>5. ASSUME MonitorEvent PROVE Counted'
  <2>1. PICK e \in Lines : e \in monitor /\ monitor' = monitor \ {e} /\ (PassOver(e) \/ Queue(e))
    BY <1>5, MonitorEventTakes
  <2>2. UNCHANGED <<handed, turns, batch>>
    BY <1>5 DEF MonitorEvent
  <2>3. steered' = steered \/ steered' = [steered EXCEPT ![e] = @ + 1]
    BY <2>1 DEF PassOver, Queue
  <2> QED
    BY <1>t, <2>1, <2>2, <2>3
<1>6. ASSUME Crash PROVE Counted'
  <2>1. UNCHANGED <<handed, turns, steered>> /\ batch' = {} /\ monitor' = {}
    BY <1>6 DEF Crash
  <2> QED
    BY <1>t, <2>1
<1>7. UNCHANGED <<handed, turns, steered, batch, monitor>> => Counted'
  OBVIOUS
<1>8. \/ UNCHANGED vars \/ Chat \/ (\E e \in Lines : BridgeForgets(e)) \/ EndBatch \/ MarkQueued
      \/ MonitorStopped \/ AgentReads \/ AgentFails \/ AgentReturns
      \/ (\E t \in Texts : Publish(t)) \/ (\E ok \in BOOLEAN : SayPart(ok))
      => UNCHANGED <<handed, turns, steered, batch, monitor>>
  BY DEF vars, Chat, BridgeForgets, Feed!Emit, Feed!Forget, EndBatch, MarkQueued, MonitorStopped,
     AgentReads, AgentFails, AgentReturns, Publish, SayPart
<1> QED
  BY <1>1, <1>2, <1>3, <1>4, <1>5, <1>6, <1>7, <1>8 DEF Next, MainLoop, Turn, Monitor

LEMMA NotedStep == TypeOK /\ Control /\ Noted /\ [Next]_vars => Noted'
<1> SUFFICES ASSUME TypeOK, Control, Noted, [Next]_vars PROVE Noted'
  OBVIOUS
<1> USE DEF stVars, histVars, monitorVars
<1>t. turns \in [Lines -> Nat] /\ steered \in [Lines -> Nat]
  BY DEF TypeOK, HistoryTypeOK
<1>b. initialized \in BOOLEAN
  BY DEF TypeOK, StateTypeOK
\* Marks move from seen to lost, and nothing is handled.
<1>m. ASSUME UNCHANGED <<turns, steered, seeded>>, lost \subseteq lost',
             seen \subseteq seen' \union lost',
             queued \in seen' \union lost' \union {0} \/ queued' = queued
      PROVE  Noted'
  <2>1. \A e \in Lines : Handled(e)' = Handled(e) /\ e # 0
    BY <1>m, LineNumbers DEF Handled
  <2>2. seeded' = seeded
    BY <1>m
  <2>3. \A e \in Lines : Handled(e)' > 0 => e \in seen' \union lost' \/ e = queued'
    BY <1>m, <2>1 DEF Noted
  <2> QED
    BY <1>m, <2>1, <2>2, <2>3 DEF Noted
<1>1. ASSUME SeedPoll PROVE Noted'
  <2>1. seen = {} /\ queued = 0 /\ queued' = 0
    BY <1>1, <1>b DEF SeedPoll, Control
  <2>2. UNCHANGED <<turns, steered>>
    BY <1>1 DEF SeedPoll
  <2>3. /\ lost' = lost \union (Feed!Available \ seen')
        /\ seeded' = seeded \union Feed!Available
    BY <1>1, <2>1 DEF SeedPoll
  <2>4. \A e \in Lines : Handled(e)' = Handled(e) /\ e # 0
    BY <2>2, LineNumbers DEF Handled
  <2>5. \A e \in Lines : Handled(e) > 0 => e \in lost
    BY <2>1, <2>4 DEF Noted
  <2>6. seeded \subseteq lost
    BY <2>1 DEF Noted
  <2> QED
    BY <2>1, <2>3, <2>4, <2>5, <2>6 DEF Noted
<1>2. ASSUME NextEvent PROVE Noted'
  <2>1. PICK e \in Lines : /\ e \in batch /\ pc = "batch" /\ batch' = batch \ {e}
                           /\ SkipEvent(e) \/ RecordEvent(e)
    BY <1>2, NextEventTakes
  <2>2. UNCHANGED <<steered, seeded, lost, queued>> /\ queued = 0
    BY <1>2, <2>1 DEF NextEvent, Control
  <2>3. CASE SkipEvent(e)
    BY <1>m, <2>2, <2>3 DEF SkipEvent
  <2>4. CASE RecordEvent(e)
    <3>1. e \notin seen /\ seen' = seen \union {e}
      BY <2>4 DEF RecordEvent, Known
    <3>2. turns' = turns \/ turns' = [turns EXCEPT ![e] = @ + 1]
      BY <2>4 DEF RecordEvent
    <3>3. \A d \in Lines : Handled(d) \in Nat /\ d # 0
      BY <1>t, LineNumbers DEF Handled
    <3>4. \A d \in Lines \ {e} : Handled(d)' = Handled(d)
      BY <1>t, <2>2, <3>2 DEF Handled
    <3>5. Handled(e)' = Handled(e) \/ Handled(e)' = Handled(e) + 1
      BY <1>t, <2>2, <3>2 DEF Handled
    <3>6. (Handled(e) > 0 => e \in lost) /\ (e \in seeded => e \in lost)
      BY <2>2, <3>1, <3>3 DEF Noted
    <3>7. Handled(e)' > 1 => e \in lost
      BY <3>3, <3>5, <3>6
    <3> QED
      BY <2>2, <3>1, <3>3, <3>4, <3>6, <3>7 DEF Noted
  <2> QED
    BY <2>1, <2>3, <2>4
<1>3. ASSUME EndBatch PROVE Noted'
  BY <1>3, <1>m DEF EndBatch
<1>4. ASSUME MonitorEvent PROVE Noted'
  <2>1. PICK e \in Lines : /\ e \in monitor /\ queued = 0
                           /\ PassOver(e) \/ Queue(e)
    BY <1>4, MonitorEventTakes
  <2>2. UNCHANGED <<turns, seeded, lost, seen>>
    BY <1>4 DEF MonitorEvent
  <2>3. CASE PassOver(e)
    BY <1>m, <2>1, <2>2, <2>3 DEF PassOver
  <2>4. CASE Queue(e)
    <3>1. e \notin seen /\ queued' = e /\ steered' = [steered EXCEPT ![e] = @ + 1]
      BY <2>4 DEF Queue, Known
    <3>3. \A d \in Lines : Handled(d) \in Nat /\ d # 0
      BY <1>t, LineNumbers DEF Handled
    <3>4. \A d \in Lines \ {e} : Handled(d)' = Handled(d)
      BY <1>t, <2>2, <3>1 DEF Handled
    <3>5. Handled(e)' = Handled(e) + 1
      BY <1>t, <2>2, <3>1 DEF Handled
    <3>6. (Handled(e) > 0 => e \in lost) /\ (e \in seeded => e \in lost)
      BY <2>1, <3>1, <3>3 DEF Noted
    <3>7. Handled(e)' > 1 => e \in lost
      BY <3>3, <3>5, <3>6
    <3> QED
      BY <2>1, <2>2, <3>1, <3>3, <3>4, <3>6, <3>7 DEF Noted
  <2> QED
    BY <2>1, <2>3, <2>4
<1>5. ASSUME MarkQueued PROVE Noted'
  <2>1. queued \in seen' \union lost' \union {0}
    BY <1>5 DEF MarkQueued
  <2> QED
    BY <1>5, <1>m, <2>1 DEF MarkQueued
<1>6. ASSUME Crash PROVE Noted'
  BY <1>6, <1>m DEF Crash
<1>7. UNCHANGED <<turns, steered, seeded, lost, seen, queued>> => Noted'
  BY <1>m
<1>8. \/ UNCHANGED vars \/ Chat \/ (\E e \in Lines : BridgeForgets(e)) \/ LosePoll \/ Poll
      \/ MonitorPoll \/ MonitorStopped \/ AgentReads \/ AgentFails \/ AgentReturns
      \/ (\E t \in Texts : Publish(t)) \/ (\E ok \in BOOLEAN : SayPart(ok))
      => UNCHANGED <<turns, steered, seeded, lost, seen, queued>>
  BY DEF vars, Chat, BridgeForgets, LosePoll, Poll, MonitorPoll, MonitorStopped, AgentReads,
     AgentFails, AgentReturns, Publish, SayPart
<1> QED
  BY <1>1, <1>2, <1>3, <1>4, <1>5, <1>6, <1>7, <1>8 DEF Next, MainLoop, Turn, Monitor

\* What went to the history, whether it took it or not.
Recorded == chatLog \union unlogged

\* A mark that is lost stays lost, what went to the history has been there.
LEMMA GrowStep == [Next]_vars => lost \subseteq lost' /\ Recorded \subseteq Recorded'
<1> USE DEF histVars, logVars, LogChat, Recorded
<1>1. Chat \/ (\E e \in Lines : BridgeForgets(e)) \/ LosePoll \/ SeedPoll \/ Poll \/ EndBatch
      => lost \subseteq lost' /\ Recorded \subseteq Recorded'
  BY DEF Chat, BridgeForgets, LosePoll, SeedPoll, Poll, EndBatch
<1>2. NextEvent => lost \subseteq lost' /\ Recorded \subseteq Recorded'
  BY DEF NextEvent, SkipEvent, RecordEvent
<1>3. Monitor => lost \subseteq lost' /\ Recorded \subseteq Recorded'
  BY DEF Monitor, MonitorPoll, MonitorEvent, MarkQueued, MonitorStopped
<1>4. Turn => lost \subseteq lost' /\ Recorded \subseteq Recorded'
  BY DEF Turn, AgentReads, AgentFails, AgentReturns, Publish, SayPart
<1>5. Crash \/ UNCHANGED vars => lost \subseteq lost' /\ Recorded \subseteq Recorded'
  BY DEF Crash, vars
<1> QED
  BY <1>1, <1>2, <1>3, <1>4, <1>5 DEF Next, MainLoop

LEMMA SteeredStep == TypeOK /\ Control /\ Noted /\ Steered /\ [Next]_vars => Steered'
<1> SUFFICES ASSUME TypeOK, Control, Noted, Steered, [Next]_vars PROVE Steered'
  OBVIOUS
<1> USE DEF logVars, histVars, Recorded
<1>t. turns \in [Lines -> Nat] /\ steered \in [Lines -> Nat] /\ steering \in Seq(Lines)
  BY DEF TypeOK, HistoryTypeOK, MonitorTypeOK
<1>g. lost \subseteq lost' /\ Recorded \subseteq Recorded'
  BY GrowStep
<1>k. queued' # 0 => steered'[queued'] > 0
  <2>1. CASE MonitorEvent
    <3>1. PICK e \in Lines : queued = 0 /\ (PassOver(e) \/ Queue(e))
      BY <2>1, MonitorEventTakes
    <3> QED
      BY <3>1, <1>t DEF PassOver, Queue
  <2>2. CASE ~MonitorEvent
    <3>1. UNCHANGED steered /\ (queued' = 0 \/ queued' = queued)
      BY <2>2 DEF vars, monitorVars, Next, Chat, BridgeForgets, LosePoll, MainLoop, SeedPoll,
         Poll, NextEvent, EndBatch, Turn, AgentReads, AgentFails, AgentReturns, Publish, SayPart,
         Monitor, MonitorPoll, MarkQueued, MonitorStopped, Crash
    <3> QED
      BY <3>1 DEF Steered
  <2> QED
    BY <2>1, <2>2
<1>u. ASSUME UNCHANGED <<pc, cur, turns, steering>> PROVE Steered'
  BY <1>u, <1>g, <1>k DEF Steered
<1>1. ASSUME NextEvent PROVE Steered'
  <2>1. PICK e \in Lines : /\ pc = "batch"
                           /\ SkipEvent(e) \/ RecordEvent(e)
    BY <1>1, NextEventTakes
  <2>2. steering' = <<>>
    BY <1>1, <2>1 DEF NextEvent, Control
  <2>3. pc' = "batch" \/ (turns'[cur'] > 0 /\ cur' \in Recorded')
    <3>1. CASE pc' = pc
      BY <2>1, <3>1
    <3>2. CASE RecordEvent(e) /\ e \in Triggered
      BY <1>t, <3>2 DEF RecordEvent, LogChat, Recorded
    <3> QED
      BY <2>1, <3>1, <3>2 DEF SkipEvent, RecordEvent
  <2> QED
    BY <1>k, <2>2, <2>3 DEF Steered
<1>2. ASSUME MonitorEvent PROVE Steered'
  <2>1. PICK e \in Lines : /\ pc \in {"agent", "stopping"} /\ queued = 0
                           /\ PassOver(e) \/ Queue(e)
    BY <1>2, MonitorEventTakes
  <2>2. UNCHANGED <<pc, cur, turns>>
    BY <1>2 DEF MonitorEvent
  <2>3. CASE PassOver(e)
    BY <1>u, <2>2, <2>3 DEF PassOver
  <2>4. CASE Queue(e)
    <3>1. Player[e] = Player[cur] /\ e \notin seen /\ steering' = Append(steering, e)
      BY <2>4 DEF Queue, SamePlayer, Known
    <3>2. turns[cur] > 0 /\ cur \in Recorded /\ cur \in Lines
      BY <2>1 DEF Steered, Control, Recorded
    <3>3. Handled(cur) > 0
      BY <1>t, <3>2 DEF Handled
    <3>4. cur \in seen \union lost
      BY <2>1, <3>2, <3>3, LineNumbers DEF Noted
    <3>5. \A i \in 1..Len(steering') :
            \/ i \in 1..Len(steering) /\ steering'[i] = steering[i]
            \/ steering'[i] = e
      BY <1>t, <3>1
    <3>6. \A i \in 1..Len(steering') :
            Player[steering'[i]] = Player[cur] /\ (steering'[i] = cur => cur \in lost')
      BY <1>g, <3>1, <3>4, <3>5 DEF Steered
    <3> QED
      BY <1>k, <1>g, <2>2, <3>2, <3>6 DEF Steered
  <2> QED
    BY <2>1, <2>3, <2>4
<1>3. ASSUME MonitorStopped PROVE Steered'
  <2>1. pc = "stopping" /\ pc' = "say" /\ cur' = cur /\ turns' = turns /\ steering' = <<>>
    BY <1>3 DEF MonitorStopped
  <2> QED
    BY <1>k, <1>g, <2>1 DEF Steered
<1>4. ASSUME AgentReads PROVE Steered'
  <2>1. UNCHANGED <<pc, cur, turns>> /\ steering # <<>> /\ steering' = Tail(steering)
    BY <1>4 DEF AgentReads
  <2>2. \A i \in 1..Len(steering') : i+1 \in 1..Len(steering) /\ steering'[i] = steering[i+1]
    BY <1>t, <2>1
  <2> QED
    BY <1>k, <1>g, <2>1, <2>2 DEF Steered
<1>5. ASSUME AgentReturns PROVE Steered'
  <2>1. pc = "agent" /\ pc' = "stopping" /\ UNCHANGED <<cur, turns, steering>>
    BY <1>5 DEF AgentReturns
  <2> QED
    BY <1>k, <1>g, <2>1 DEF Steered
<1>6. ASSUME NEW ok \in BOOLEAN, SayPart(ok) PROVE Steered'
  <2>1. steering' = <<>> /\ turns' = turns
    BY <1>6 DEF SayPart, Control
  <2>2. pc' = "batch" \/ (pc' = pc /\ cur' = cur)
    BY <1>6 DEF SayPart, FinishReply
  <2> QED
    BY <1>k, <1>g, <2>1, <2>2 DEF Steered
<1>7. ASSUME SeedPoll \/ Poll \/ EndBatch \/ Crash PROVE Steered'
  <2>1. pc' \in {"idle", "batch"} /\ steering' = <<>>
    BY <1>7 DEF SeedPoll, Poll, EndBatch, Crash, Control
  <2> QED
    BY <1>k, <2>1 DEF Steered
<1>8. \/ UNCHANGED vars \/ Chat \/ (\E e \in Lines : BridgeForgets(e)) \/ LosePoll \/ MonitorPoll
      \/ MarkQueued \/ AgentFails \/ (\E t \in Texts : Publish(t))
      => UNCHANGED <<pc, cur, turns, steering>>
  BY DEF vars, Chat, BridgeForgets, LosePoll, MonitorPoll, MarkQueued, AgentFails, Publish
<1> QED
  BY <1>u, <1>1, <1>2, <1>3, <1>4, <1>5, <1>6, <1>7, <1>8 DEF Next, MainLoop, Turn, Monitor

\* A line that is handed over for the first time is after all that had a turn.
LEMMA OrderedStep ==
  TypeOK /\ Control /\ Delivered /\ Counted /\ Ordered /\ [Next]_vars => Ordered'
<1> SUFFICES ASSUME TypeOK, Control, Delivered, Counted, Ordered, [Next]_vars PROVE Ordered'
  OBVIOUS
<1> USE DEF feedVars, histVars
<1>t. /\ emitted \in Nat /\ handed \in [Lines -> Nat] /\ forgot \in [Lines -> Nat]
      /\ turns \in [Lines -> Nat] /\ steered \in [Lines -> Nat] /\ batch \subseteq Lines
  BY FeedLines DEF TypeOK, Feed!TypeOK, HistoryTypeOK, LoopTypeOK
<1>1. ASSUME Poll PROVE Ordered'
  <2>1. /\ batch' = Feed!Available /\ Feed!HandOver(Feed!Available) /\ turns' = turns
        /\ batch = {} /\ forgot' = forgot
    BY <1>1, HandOverFacts DEF Poll, Control
  <2> SUFFICES ASSUME NEW e \in Feed!Available, forgot[e] = 0, NEW f \in Lines, f > e
               PROVE  turns[f] = 0
    BY <2>1 DEF Ordered
  <2>2. e \in Lines /\ handed[e] = 0
    BY <1>t, AvailableFacts
  <2>3. e \in 1..f
    BY <2>2, LineNumbers
  <2>4. handed[f] = 0
    BY <1>t, <2>2, <2>3 DEF Delivered
  <2>5. Handled(f) <= handed[f]
    BY <1>t DEF Counted, Handled
  <2> QED
    BY <1>t, <2>4, <2>5 DEF Handled
<1>2. ASSUME NextEvent PROVE Ordered'
  <2>1. PICK e \in Lines : /\ e \in batch /\ (\A f \in batch : e <= f) /\ batch' = batch \ {e}
                           /\ SkipEvent(e) \/ RecordEvent(e)
    BY <1>2, NextEventTakes
  <2>2. forgot' = forgot /\ (turns' = turns \/ turns' = [turns EXCEPT ![e] = @ + 1])
    BY <1>2, <2>1 DEF NextEvent, SkipEvent, RecordEvent
  <2> SUFFICES ASSUME NEW d \in batch', forgot'[d] = 0, NEW f \in Lines, f > d
               PROVE  turns'[f] = 0
    BY DEF Ordered
  <2>3. d \in batch /\ d \in Lines /\ e < d
    BY <1>t, <2>1, LineNumbers
  <2>4. turns[f] = 0
    BY <2>2, <2>3 DEF Ordered
  <2>5. f # e
    BY <2>3, LineNumbers
  <2> QED
    BY <1>t, <2>2, <2>4, <2>5
<1>3. ASSUME NEW e \in Lines, BridgeForgets(e) PROVE Ordered'
  <2>1. UNCHANGED <<batch, turns>>
    BY <1>3 DEF BridgeForgets
  <2>2. \A d \in Lines : forgot'[d] = 0 => forgot[d] = 0
    BY <1>3, <1>t, FeedLines DEF BridgeForgets, Feed!Forget
  <2> QED
    BY <1>t, <2>1, <2>2 DEF Ordered
<1>4. ASSUME SeedPoll \/ LosePoll \/ MonitorPoll PROVE Ordered'
  <2>1. UNCHANGED <<batch, turns>> /\ Feed!HandOver(Feed!Available)
    BY <1>4 DEF SeedPoll, LosePoll, MonitorPoll
  <2>2. forgot' = forgot
    BY <2>1, HandOverFacts
  <2> QED
    BY <2>1, <2>2 DEF Ordered
<1>5. Crash => batch' = {}
  BY DEF Crash
<1>6. \/ UNCHANGED vars \/ Chat \/ EndBatch \/ MonitorEvent \/ MarkQueued \/ MonitorStopped
      \/ AgentReads \/ AgentFails \/ AgentReturns
      \/ (\E t \in Texts : Publish(t)) \/ (\E ok \in BOOLEAN : SayPart(ok))
      => UNCHANGED <<forgot, batch, turns>>
  BY DEF vars, Chat, Feed!Emit, EndBatch, MonitorEvent, MarkQueued, MonitorStopped, AgentReads,
     AgentFails, AgentReturns, Publish, SayPart
<1>7. UNCHANGED <<forgot, batch, turns>> \/ batch' = {} => Ordered'
  BY DEF Ordered
<1> QED
  BY <1>1, <1>2, <1>3, <1>4, <1>5, <1>6, <1>7 DEF Next, MainLoop, Turn, Monitor

LEMMA AccountedStep == TypeOK /\ Control /\ Accounted /\ [Next]_vars => Accounted'
<1> SUFFICES ASSUME TypeOK, Control, Accounted, [Next]_vars PROVE Accounted'
  OBVIOUS
<1> DEFINE Found == Settled \union InTurn
<1> USE DEF stVars, diskVars, histVars, monitorVars, feedVars
<1>t. /\ handed \in [Lines -> Nat] /\ crashes \in Nat
      /\ steering \in Seq(Lines) /\ queued \in 0 .. MaxLines /\ taken \subseteq Lines
  BY FeedLines DEF TypeOK, Feed!TypeOK, HistoryTypeOK, MonitorTypeOK
<1>l. Triggered \subseteq Lines /\ 0 \notin Lines
  BY RelayAssumption, LineNumbers
<1>q. queued # 0 => queued \in Lines
  BY <1>t DEF Lines
\* A step that loses no line from the settled ones and the turn.
<1>m. ASSUME crashes' = crashes,
             pc' \in {"idle", "batch"} => cur' = 0 /\ taken' = {},
             \A e \in Lines : e \in Found => e \in Found',
             queued' \in {0, queued} \/ queued' \in Found',
             \A e \in Triggered : e \in seen' => e \in seen \/ e \in Found' \/ e = queued,
             \A e \in Triggered : handed'[e] > 0 =>
               \/ handed[e] > 0 /\ (e \in batch \union monitor => e \in batch' \union monitor' \/ e \in Found')
               \/ e \in batch' \union monitor' \/ e \in Found'
      PROVE  Accounted'
  <2> HIDE DEF Found
  <2>1. crashes = 0 =>
          /\ queued # 0 => queued \in Found
          /\ \A e \in Triggered : /\ e \in seen => e \in Found
                                  /\ handed[e] > 0 => e \in Found \/ e \in batch \union monitor
    BY DEF Accounted, Found
  <2>2. crashes' = 0 => (queued' # 0 => queued' \in Found')
    BY <1>m, <1>q, <2>1
  <2>3. ASSUME crashes' = 0, NEW e \in Triggered
        PROVE  /\ e \in seen' => e \in Found'
               /\ handed'[e] > 0 => e \in Found' \/ e \in batch' \union monitor'
    <3>1. e \in Lines /\ e # 0
      BY <1>l
    <3>2. e \in seen' => e \in Found'
      BY <1>m, <2>1, <2>3, <3>1
    <3>3. handed'[e] > 0 => e \in Found' \/ e \in batch' \union monitor'
      BY <1>m, <2>1, <2>3, <3>1
    <3> QED
      BY <3>2, <3>3
  <2> QED
    BY <1>m, <2>2, <2>3 DEF Accounted, Found
<1>a. ASSUME Feed!HandOver(Feed!Available), NEW e \in Triggered, handed'[e] > 0
      PROVE  handed[e] > 0 \/ e \in Feed!Available
  BY <1>a, <1>l, HandOverFacts
<1>s. ASSUME UNCHANGED <<answered, dropped, seeded, steering, taken, cur>> PROVE Found' = Found
  BY <1>s DEF Settled, InTurn
<1>1. ASSUME LosePoll PROVE Accounted'
  <2>1. Found' = Found \union Feed!Available
    BY <1>1 DEF LosePoll, Settled, InTurn
  <2>2. \A e \in Triggered : handed'[e] > 0 => handed[e] > 0 \/ e \in Found'
    BY <1>1, <1>a, <2>1 DEF LosePoll
  <2>3. UNCHANGED <<pc, cur, taken, crashes, queued, seen, batch, monitor>>
    BY <1>1 DEF LosePoll
  <2>4. pc' \in {"idle", "batch"} => cur' = 0 /\ taken' = {}
    BY <2>3 DEF Accounted
  <2> HIDE DEF Found
  <2> QED
    BY <1>m, <2>1, <2>2, <2>3, <2>4
<1>2. ASSUME SeedPoll PROVE Accounted'
  <2>1. Found' = Found \union Feed!Available
    BY <1>2 DEF SeedPoll, Settled, InTurn
  <2>2. \A e \in Triggered : handed'[e] > 0 => handed[e] > 0 \/ e \in Found'
    BY <1>2, <1>a, <2>1 DEF SeedPoll
  <2>3. \A e \in seen' : e \in seen \/ e \in Found'
    BY <1>2, <2>1, PruneFacts DEF SeedPoll
  <2>4. UNCHANGED <<pc, cur, taken, crashes, queued, batch, monitor>>
    BY <1>2 DEF SeedPoll
  <2>5. pc' \in {"idle", "batch"} => cur' = 0 /\ taken' = {}
    BY <2>4 DEF Accounted
  <2> HIDE DEF Found
  <2> QED
    BY <1>m, <2>1, <2>2, <2>3, <2>4, <2>5
<1>3. ASSUME Poll PROVE Accounted'
  <2>1. Found' = Found
    BY <1>3, <1>s DEF Poll
  <2>2. \A e \in Triggered : handed'[e] > 0 => handed[e] > 0 \/ e \in batch'
    BY <1>3, <1>a DEF Poll
  <2>3. batch = {} /\ monitor = {} /\ cur = 0 /\ taken = {}
    BY <1>3 DEF Poll, Control, Accounted
  <2>4. UNCHANGED <<cur, taken, crashes, queued, seen>>
    BY <1>3 DEF Poll
  <2> HIDE DEF Found
  <2> QED
    BY <1>m, <2>1, <2>2, <2>3, <2>4
<1>4. ASSUME NextEvent PROVE Accounted'
  <2>1. PICK e \in Lines : /\ pc = "batch" /\ batch' = batch \ {e}
                           /\ SkipEvent(e) \/ RecordEvent(e)
    BY <1>4, NextEventTakes
  <2>2. UNCHANGED <<handed, queued, monitor, seeded, steering, taken, answered, dropped, crashes>>
    BY <1>4 DEF NextEvent
  <2>3. cur = 0 /\ taken = {} /\ queued = 0
    BY <2>1 DEF Accounted, Control
  <2>4. CASE SkipEvent(e)
    <3>1. e \in seen /\ UNCHANGED <<seen, pc, cur>>
      BY <2>4 DEF SkipEvent, Known
    <3>2. Found' = Found
      BY <1>s, <2>2, <3>1
    <3>3. e \in Triggered /\ crashes = 0 => e \in Found
      BY <3>1 DEF Accounted
    <3>4. ASSUME crashes = 0 PROVE Accounted'
      <4> HIDE DEF Found
      <4> QED
        BY <1>m, <2>1, <2>2, <2>3, <3>1, <3>2, <3>3, <3>4
    <3>5. ASSUME crashes # 0 PROVE Accounted'
      BY <2>2, <2>3, <3>1, <3>5 DEF Accounted
    <3> QED
      BY <3>4, <3>5
  <2>5. CASE RecordEvent(e)
    <3>1. seen' = seen \union {e}
      BY <2>5 DEF RecordEvent
    <3>2. CASE e \notin Triggered
      <4>1. UNCHANGED <<pc, cur>>
        BY <2>5, <3>2 DEF RecordEvent
      <4>2. Found' = Found
        BY <1>s, <2>2, <4>1
      <4> HIDE DEF Found
      <4> QED
        BY <1>m, <2>1, <2>2, <2>3, <3>1, <3>2, <4>1, <4>2
    <3>3. CASE e \in Triggered
      <4>1. cur' = e /\ pc' \in {"agent", "say"}
        BY <2>5, <3>3 DEF RecordEvent
      <4>2. e \in Found' /\ \A d \in Lines : d \in Found => d \in Found'
        BY <1>l, <2>2, <2>3, <4>1 DEF Settled, InTurn
      <4> HIDE DEF Found
      <4> QED
        BY <1>m, <2>1, <2>2, <2>3, <3>1, <4>1, <4>2
    <3> QED
      BY <3>2, <3>3
  <2> QED
    BY <2>1, <2>4, <2>5
<1>5. ASSUME EndBatch PROVE Accounted'
  <2>1. seen' \subseteq seen
    BY <1>5, PruneFacts DEF EndBatch
  <2>2. UNCHANGED <<answered, dropped, seeded, steering, taken, cur, crashes, queued, handed, batch, monitor>>
    BY <1>5 DEF EndBatch
  <2>3. Found' = Found
    BY <1>s, <2>2
  <2>4. cur = 0 /\ taken = {}
    BY <1>5 DEF EndBatch, Accounted
  <2> HIDE DEF Found
  <2> QED
    BY <1>m, <2>1, <2>2, <2>3, <2>4
<1>6. ASSUME MonitorPoll PROVE Accounted'
  <2>1. \A e \in Triggered : handed'[e] > 0 => handed[e] > 0 \/ e \in monitor'
    BY <1>6, <1>a DEF MonitorPoll
  <2>2. /\ UNCHANGED <<answered, dropped, seeded, steering, taken, cur, pc, crashes, queued, seen, batch>>
        /\ pc = "agent" /\ monitor = {}
    BY <1>6 DEF MonitorPoll
  <2>3. Found' = Found
    BY <1>s, <2>2
  <2> HIDE DEF Found
  <2> QED
    BY <1>m, <2>1, <2>2, <2>3
<1>7. ASSUME MonitorEvent PROVE Accounted'
  <2>1. PICK e \in Lines : /\ pc \in {"agent", "stopping"}
                           /\ queued = 0 /\ monitor' = monitor \ {e}
                           /\ PassOver(e) \/ Queue(e)
    BY <1>7, MonitorEventTakes
  <2>2. UNCHANGED <<handed, seen, batch, seeded, answered, taken, cur, pc, crashes>>
    BY <1>7 DEF MonitorEvent
  <2>3. CASE PassOver(e)
    <3>1. /\ UNCHANGED <<queued, steering>> /\ dropped \subseteq dropped'
          /\ e \in seen \/ e \in dropped'
      BY <2>3 DEF PassOver, Known
    <3>2. /\ \A d \in Lines : d \in Found => d \in Found'
          /\ e \in seen \/ e \in Found'
      BY <2>2, <3>1 DEF Settled, InTurn
    <3>3. e \in Triggered /\ crashes = 0 /\ e \in seen => e \in Found
      BY DEF Accounted
    <3>4. ASSUME crashes = 0 PROVE Accounted'
      <4> HIDE DEF Found
      <4> QED
        BY <1>m, <2>1, <2>2, <3>1, <3>2, <3>3, <3>4
    <3>5. ASSUME crashes # 0 PROVE Accounted'
      BY <2>1, <2>2, <3>5 DEF Accounted
    <3> QED
      BY <3>4, <3>5
  <2>4. CASE Queue(e)
    <3>1. queued' = e /\ steering' = Append(steering, e) /\ dropped' = dropped
      BY <2>4 DEF Queue
    <3>2. /\ \A i \in DOMAIN steering : i \in DOMAIN steering' /\ steering'[i] = steering[i]
          /\ Len(steering) + 1 \in DOMAIN steering' /\ steering'[Len(steering) + 1] = e
      BY <1>t, <3>1
    <3>3. {steering[i] : i \in DOMAIN steering} \union {e} \subseteq {steering'[i] : i \in DOMAIN steering'}
      BY <3>2
    <3>4. e \in Found' /\ \A d \in Lines : d \in Found => d \in Found'
      BY <2>2, <3>1, <3>3 DEF Settled, InTurn
    <3> HIDE DEF Found
    <3> QED
      BY <1>m, <2>1, <2>2, <3>1, <3>4
  <2> QED
    BY <2>1, <2>3, <2>4
<1>8. ASSUME MarkQueued PROVE Accounted'
  <2>1. seen' \subseteq seen \union {queued} /\ queued' = 0
    BY <1>8, PruneFacts DEF MarkQueued
  <2>2. UNCHANGED <<answered, dropped, seeded, steering, taken, cur, pc, crashes, handed, batch, monitor>>
    BY <1>8 DEF MarkQueued
  <2>3. Found' = Found
    BY <1>s, <2>2
  <2>4. pc' \in {"idle", "batch"} => cur' = 0 /\ taken' = {}
    BY <2>2 DEF Accounted
  <2> HIDE DEF Found
  <2> QED
    BY <1>m, <2>1, <2>2, <2>3, <2>4
<1>9. ASSUME Crash PROVE Accounted'
  <2>1. crashes' # 0 /\ cur' = 0 /\ taken' = {}
    BY <1>9, <1>t DEF Crash
  <2> QED
    BY <2>1 DEF Accounted
<1>10. ASSUME MonitorStopped PROVE Accounted'
  <2>1. /\ UNCHANGED <<answered, seeded, taken, cur, crashes, handed, queued, seen, batch, monitor>>
        /\ pc' = "say"
        /\ dropped' = dropped \union {steering[i] : i \in DOMAIN steering}
    BY <1>10 DEF MonitorStopped
  <2>2. \A e \in Lines : e \in Found => e \in Found'
    BY <2>1 DEF Settled, InTurn
  <2> HIDE DEF Found
  <2> QED
    BY <1>m, <2>1, <2>2
<1>11. ASSUME AgentReads PROVE Accounted'
  <2>1. /\ UNCHANGED <<answered, dropped, seeded, cur, pc, crashes, handed, queued, seen, batch, monitor>>
        /\ pc = "agent" /\ steering # <<>>
        /\ taken' = taken \union {Head(steering)} /\ steering' = Tail(steering)
    BY <1>11 DEF AgentReads
  <2>2. ASSUME NEW i \in DOMAIN steering
        PROVE  steering[i] = Head(steering) \/ \E j \in DOMAIN steering' : steering'[j] = steering[i]
    <3>1. CASE i = 1
      BY <1>t, <2>1, <3>1
    <3>2. CASE i # 1
      <4>1. i - 1 \in DOMAIN steering' /\ steering'[i - 1] = steering[i]
        BY <1>t, <2>1, <3>2
      <4> QED
        BY <4>1
    <3> QED
      BY <3>1, <3>2
  <2>3. \A e \in Lines : e \in Found => e \in Found'
    BY <2>1, <2>2 DEF Settled, InTurn
  <2> HIDE DEF Found
  <2> QED
    BY <1>m, <2>1, <2>3
<1>12. ASSUME AgentFails \/ AgentReturns PROVE Accounted'
  <2>1. /\ UNCHANGED <<answered, seeded, steering, cur, crashes, handed, queued, seen, batch, monitor>>
        /\ pc' \in {"agent", "stopping"}
        /\ \/ UNCHANGED <<taken, dropped>>
           \/ dropped' = dropped \union taken /\ taken' = {}
    BY <1>12 DEF AgentFails, AgentReturns, LoseTaken
  <2>2. \A e \in Lines : e \in Found => e \in Found'
    BY <2>1 DEF Settled, InTurn
  <2> HIDE DEF Found
  <2> QED
    BY <1>m, <2>1, <2>2
<1>13. ASSUME NEW ok \in BOOLEAN, SayPart(ok) PROVE Accounted'
  <2>1. /\ UNCHANGED <<seeded, steering, crashes, handed, queued, seen, batch, monitor>>
        /\ pc = "say"
        /\ \/ UNCHANGED <<pc, cur, taken, answered, dropped>>
           \/ FinishReply
    BY <1>13 DEF SayPart
  <2>2. CASE UNCHANGED <<pc, cur, taken, answered, dropped>>
    <3>1. Found' = Found
      BY <1>s, <2>1, <2>2
    <3> HIDE DEF Found
    <3> QED
      BY <1>m, <2>1, <2>2, <3>1
  <2>3. CASE FinishReply
    <3>1. /\ cur' = 0 /\ taken' = {}
          /\ answered \union dropped \union taken \union {cur} \subseteq answered' \union dropped'
      BY <2>3 DEF FinishReply
    <3>2. \A e \in Lines : e \in Found => e \in Found'
      BY <2>1, <3>1 DEF Settled, InTurn
    <3> HIDE DEF Found
    <3> QED
      BY <1>m, <2>1, <3>1, <3>2
  <2> QED
    BY <2>1, <2>2, <2>3
<1>14. ASSUME \/ UNCHANGED vars \/ Chat \/ (\E e \in Lines : BridgeForgets(e))
              \/ (\E t \in Texts : Publish(t))
       PROVE  Accounted'
  <2>1. UNCHANGED <<answered, dropped, seeded, steering, taken, cur, pc, crashes, handed, queued, seen,
                    batch, monitor>>
    BY <1>14 DEF vars, Chat, BridgeForgets, Feed!Emit, Feed!Forget, Publish
  <2> QED
    BY <2>1 DEF Accounted, Settled, InTurn
<1> QED
  BY <1>1, <1>2, <1>3, <1>4, <1>5, <1>6, <1>7, <1>8, <1>9, <1>10, <1>11, <1>12, <1>13, <1>14
     DEF Next, MainLoop, Turn, Monitor

\* The first clause of HistoryFits: what is handled goes to the history.
LEMMA RowStep ==
  ASSUME TypeOK, Control, [Next]_vars,
         \A e \in Lines : Handled(e) > 0 => e \in Recorded \union lost \/ e = queued
  PROVE  \A e \in Lines : Handled(e)' > 0 => e \in Recorded' \union lost' \/ e = queued'
<1> DEFINE Rows == \A e \in Lines : Handled(e)' > 0 => e \in Recorded' \union lost' \/ e = queued'
<1> USE DEF stVars, monitorVars, logVars, histVars
<1>t. turns \in [Lines -> Nat] /\ steered \in [Lines -> Nat]
  BY DEF TypeOK, HistoryTypeOK
<1>g. lost \subseteq lost' /\ Recorded \subseteq Recorded'
  BY GrowStep
<1>m. ASSUME UNCHANGED <<turns, steered>>,
             queued \in Recorded' \union lost' \union {0} \/ queued' = queued
      PROVE  Rows
  <2>1. \A e \in Lines : Handled(e)' = Handled(e) /\ e # 0
    BY <1>m, LineNumbers DEF Handled
  <2> QED
    BY <1>m, <1>g, <2>1
<1>1. ASSUME NextEvent PROVE Rows
  <2>1. PICK e \in Lines : pc = "batch" /\ (SkipEvent(e) \/ RecordEvent(e))
    BY <1>1, NextEventTakes
  <2>2. UNCHANGED <<steered, queued>>
    BY <1>1 DEF NextEvent
  <2>3. CASE SkipEvent(e)
    BY <1>m, <2>2, <2>3 DEF SkipEvent
  <2>4. CASE RecordEvent(e)
    <3>1. e \in Recorded'
      BY <2>4 DEF RecordEvent, LogChat, Recorded
    <3>2. turns' = turns \/ turns' = [turns EXCEPT ![e] = @ + 1]
      BY <2>4 DEF RecordEvent
    <3>3. \A d \in Lines \ {e} : Handled(d)' = Handled(d)
      BY <1>t, <2>2, <3>2 DEF Handled
    <3> QED
      BY <1>g, <2>2, <3>1, <3>3
  <2> QED
    BY <2>1, <2>3, <2>4
<1>2. ASSUME MonitorEvent PROVE Rows
  <2>1. PICK e \in Lines : queued = 0 /\ (PassOver(e) \/ Queue(e))
    BY <1>2, MonitorEventTakes
  <2>2. UNCHANGED turns
    BY <1>2 DEF MonitorEvent
  <2>3. CASE PassOver(e)
    BY <1>m, <2>1, <2>2, <2>3 DEF PassOver
  <2>4. CASE Queue(e)
    <3>1. queued' = e /\ steered' = [steered EXCEPT ![e] = @ + 1]
      BY <2>4 DEF Queue
    <3>2. \A d \in Lines \ {e} : Handled(d)' = Handled(d) /\ d # 0
      BY <1>t, <2>2, <3>1, LineNumbers DEF Handled
    <3> QED
      BY <1>g, <2>1, <3>1, <3>2
  <2> QED
    BY <2>1, <2>3, <2>4
<1>3. ASSUME MarkQueued PROVE Rows
  <2>1. queued \in Recorded' /\ UNCHANGED <<turns, steered>>
    BY <1>3 DEF MarkQueued, LogChat, Recorded
  <2> QED
    BY <1>m, <2>1
<1>4. ASSUME Crash PROVE Rows
  <2>1. queued \in lost' \union {0} /\ UNCHANGED <<turns, steered>>
    BY <1>4 DEF Crash
  <2> QED
    BY <1>m, <2>1
<1>5. \/ UNCHANGED vars \/ Chat \/ (\E e \in Lines : BridgeForgets(e)) \/ LosePoll \/ SeedPoll
      \/ Poll \/ EndBatch \/ MonitorPoll \/ AgentReads \/ AgentFails \/ AgentReturns
      \/ (\E t \in Texts : Publish(t)) \/ (\E ok \in BOOLEAN : SayPart(ok))
      => UNCHANGED <<turns, steered, queued>>
  BY DEF vars, Chat, BridgeForgets, LosePoll, SeedPoll, Poll, EndBatch, MonitorPoll, AgentReads,
     AgentFails, AgentReturns, Publish, SayPart
<1>6. MonitorStopped => UNCHANGED <<turns, steered, queued>>
  BY DEF MonitorStopped
<1> QED
  BY <1>m, <1>1, <1>2, <1>3, <1>4, <1>5, <1>6 DEF Next, MainLoop, Turn, Monitor

\* The second clause: a line with a row has a mark and is not of the backlog.
LEMMA RowMarkStep ==
  ASSUME TypeOK, Control, Noted, Steered, [Next]_vars, chatLog \subseteq (seen \ seeded) \union lost
  PROVE  chatLog' \subseteq (seen' \ seeded') \union lost'
<1> DEFINE Marked == chatLog' \subseteq (seen' \ seeded') \union lost'
<1> USE DEF stVars, monitorVars, logVars, histVars
<1>1. ASSUME SeedPoll PROVE Marked
  <2>1. seen = {}
    BY <1>1 DEF SeedPoll, Control
  <2> QED
    BY <1>1, <2>1 DEF SeedPoll
<1>2. ASSUME NextEvent PROVE Marked
  <2>1. PICK e \in Lines : SkipEvent(e) \/ RecordEvent(e)
    BY <1>2, NextEventTakes
  <2>2. UNCHANGED <<seeded, lost>>
    BY <1>2 DEF NextEvent
  <2>3. CASE SkipEvent(e)
    BY <2>2, <2>3 DEF SkipEvent
  <2>4. CASE RecordEvent(e)
    <3>1. e \notin seen /\ seen' = seen \union {e} /\ chatLog' \subseteq chatLog \union {e}
      BY <2>4 DEF RecordEvent, Known, LogChat
    <3>2. e \in seeded => e \in lost
      BY <3>1 DEF Noted
    <3> QED
      BY <2>2, <3>1, <3>2
  <2> QED
    BY <2>1, <2>3, <2>4
<1>3. ASSUME MarkQueued PROVE Marked
  <2>1. queued # 0 /\ chatLog' \subseteq chatLog \union {queued} /\ seeded' = seeded
    BY <1>3 DEF MarkQueued, LogChat
  <2>2. lost' = lost \union ((seen \union {queued}) \ seen')
    BY <1>3 DEF MarkQueued
  <2>3. queued \in Lines
    BY <2>1 DEF TypeOK, MonitorTypeOK, Lines
  <2>4. turns[queued] \in Nat /\ steered[queued] \in Nat /\ steered[queued] > 0
    BY <2>1, <2>3 DEF TypeOK, HistoryTypeOK, Steered
  <2>5. queued \in seeded => queued \in lost
    BY <2>3, <2>4 DEF Noted, Handled
  <2> QED
    BY <2>1, <2>2, <2>5
<1>4. ASSUME EndBatch \/ Crash PROVE Marked
  <2>1. UNCHANGED <<chatLog, seeded>> /\ seen \ seen' \subseteq lost' /\ lost \subseteq lost'
    BY <1>4 DEF EndBatch, Crash
  <2> QED
    BY <2>1
<1>5. \/ UNCHANGED vars \/ Chat \/ (\E e \in Lines : BridgeForgets(e)) \/ LosePoll \/ Poll
      \/ MonitorPoll \/ MonitorEvent \/ MonitorStopped \/ AgentReads \/ AgentFails \/ AgentReturns
      \/ (\E t \in Texts : Publish(t)) \/ (\E ok \in BOOLEAN : SayPart(ok))
      => UNCHANGED <<chatLog, seen, seeded, lost>>
  BY DEF vars, Chat, BridgeForgets, LosePoll, Poll, MonitorPoll, MonitorEvent, MonitorStopped,
     AgentReads, AgentFails, AgentReturns, Publish, SayPart
<1>6. UNCHANGED <<chatLog, seen, seeded, lost>> => Marked
  OBVIOUS
<1> QED
  BY <1>1, <1>2, <1>3, <1>4, <1>5, <1>6 DEF Next, MainLoop, Turn, Monitor

\* The third clause: only a turn whose line went to the history has a reply.
LEMMA ReplyStep ==
  ASSUME TypeOK, Control, Steered, [Next]_vars,
         replyLog \subseteq {e \in Recorded : turns[e] > 0}
  PROVE  replyLog' \subseteq {e \in Recorded' : turns'[e] > 0}
<1> DEFINE Fit == replyLog' \subseteq {e \in Recorded' : turns'[e] > 0}
<1> USE DEF stVars, monitorVars, logVars, histVars
<1>t. turns \in [Lines -> Nat] /\ replyLog \subseteq Lines
  BY DEF TypeOK, HistoryTypeOK
<1>g. Recorded \subseteq Recorded'
  BY GrowStep
<1>1. ASSUME NextEvent PROVE Fit
  <2>1. PICK e \in Lines : SkipEvent(e) \/ RecordEvent(e)
    BY <1>1, NextEventTakes
  <2>2. turns' = turns \/ turns' = [turns EXCEPT ![e] = @ + 1]
    BY <2>1 DEF SkipEvent, RecordEvent
  <2>3. \A d \in Lines : turns[d] > 0 => turns'[d] > 0
    BY <1>t, <2>2
  <2>4. replyLog' = replyLog
    BY <1>1 DEF NextEvent
  <2> QED
    BY <1>g, <1>t, <2>3, <2>4
<1>2. ASSUME NEW ok \in BOOLEAN, SayPart(ok) PROVE Fit
  <2>1. turns[cur] > 0 /\ cur \in Recorded
    BY <1>2 DEF SayPart, Steered, Recorded
  <2>2. turns' = turns /\ replyLog' \subseteq replyLog \union {cur}
    BY <1>2 DEF SayPart, FinishReply, LogReply
  <2> QED
    BY <1>g, <2>1, <2>2
<1>3. \/ UNCHANGED vars \/ Chat \/ (\E e \in Lines : BridgeForgets(e)) \/ LosePoll \/ SeedPoll
      \/ Poll \/ EndBatch \/ MonitorPoll \/ MonitorEvent \/ MarkQueued \/ MonitorStopped \/ Crash
      \/ AgentReads \/ AgentFails \/ AgentReturns \/ (\E t \in Texts : Publish(t))
      => UNCHANGED <<replyLog, turns>>
  BY DEF vars, Chat, BridgeForgets, LosePoll, SeedPoll, Poll, EndBatch, MonitorPoll, MonitorEvent,
     MarkQueued, MonitorStopped, Crash, AgentReads, AgentFails, AgentReturns, Publish
<1>4. UNCHANGED <<replyLog, turns>> => Fit
  BY <1>g
<1> QED
  BY <1>1, <1>2, <1>3, <1>4 DEF Next, MainLoop, Turn, Monitor

LEMMA HistoryFitsStep ==
  TypeOK /\ Control /\ Noted /\ Steered /\ HistoryFits /\ [Next]_vars => HistoryFits'
BY RowStep, RowMarkStep, ReplyStep DEF HistoryFits, Recorded

LEMMA OwnSteeringStep ==
  TypeOK /\ Control /\ Steered /\ OwnSteering /\ [Next]_vars => OwnSteering'
<1> SUFFICES ASSUME TypeOK, Control, Steered, OwnSteering, [Next]_vars PROVE OwnSteering'
  OBVIOUS
<1>t. steering \in Seq(Lines)
  BY DEF TypeOK, MonitorTypeOK
<1>g. lost \subseteq lost'
  BY GrowStep
<1>1. ASSUME AgentReads PROVE OwnSteering'
  <2>1. steering # <<>> /\ readIn' = readIn \union {<<Head(steering), cur>>}
    BY <1>1 DEF AgentReads
  <2>2. 1 \in 1..Len(steering) /\ Head(steering) = steering[1]
    BY <1>t, <2>1
  <2>3. Player[steering[1]] = Player[cur] /\ (steering[1] = cur => cur \in lost)
    BY <2>2 DEF Steered
  <2> QED
    BY <1>g, <2>1, <2>2, <2>3 DEF OwnSteering
<1>2. ASSUME ~AgentReads PROVE OwnSteering'
  <2>1. readIn' = readIn
    BY <1>2 DEF vars, histVars, Next, Chat, BridgeForgets, LosePoll, MainLoop, SeedPoll, Poll,
       NextEvent, EndBatch, Turn, AgentFails, AgentReturns, Publish, SayPart, Monitor, MonitorPoll,
       MonitorEvent, MarkQueued, MonitorStopped, Crash
  <2> QED
    BY <1>g, <2>1 DEF OwnSteering
<1> QED
  BY <1>1, <1>2

-----------------------------------------------------------------------------
(* The theorems *)

LEMMA IInvInit == Init => IInv
<1> SUFFICES ASSUME Init PROVE IInv
  OBVIOUS
<1>1. TypeOK
  BY TypeInit
<1>2. handed = [e \in Lines |-> 0] /\ forgot = [e \in Lines |-> 0] /\ emitted = 0
  BY FeedLines DEF Init, Feed!Init
<1>3. \A e \in Lines : Handled(e) = 0
  BY DEF Init, Handled
<1>4. Control
  BY DEF Init, Control
<1>5. Delivered
  BY <1>2 DEF Delivered
<1>6. Counted
  BY <1>2, <1>3 DEF Init, Counted
<1>7. Noted /\ Steered /\ Ordered
  BY <1>3 DEF Init, Noted, Steered, Ordered
<1>8. Accounted
  BY <1>2, RelayAssumption DEF Init, Accounted
<1>9. HistoryFits /\ OwnSteering
  BY <1>3 DEF Init, HistoryFits, OwnSteering
<1> QED
  BY <1>1, <1>4, <1>5, <1>6, <1>7, <1>8, <1>9 DEF IInv

LEMMA IInvStep == IInv /\ [Next]_vars => IInv'
BY TypeStep, ControlStep, DeliveredStep, CountedStep, NotedStep, SteeredStep, OrderedStep,
   AccountedStep, HistoryFitsStep, OwnSteeringStep
   DEF IInv

(***************************************************************************)
(* What the loop, the turns, the monitor and the state file hold together, *)
(* in every reachable state: IInv is inductive.                            *)
(***************************************************************************)
THEOREM InvariantHolds == Spec => []IInv
BY IInvInit, IInvStep, PTL DEF Spec

\* Every variable keeps its type (State, the queues of the loop and the monitor).
THEOREM TypeCorrect == Spec => []TypeOK
<1>1. IInv => TypeOK
  BY DEF IInv
<1> QED
  BY <1>1, InvariantHolds, PTL

(***************************************************************************)
(* A chat line is handled at most once, unless the bridge repeats it and   *)
(* mc-relay lost its mark: two handlings take two deliveries, two          *)
(* deliveries take a mark the bridge forgot, and the second delivery is    *)
(* only looked at without a mark in State.Seen.                            *)
(***************************************************************************)
THEOREM LineHandledOnce == Spec => []HandledOnce
<1>1. ASSUME IInv PROVE HandledOnce
  <2>t. /\ turns \in [Lines -> Nat] /\ steered \in [Lines -> Nat]
        /\ handed \in [Lines -> Nat] /\ forgot \in [Lines -> Nat]
    BY <1>1, FeedLines DEF IInv, TypeOK, Feed!TypeOK, HistoryTypeOK
  <2> SUFFICES ASSUME NEW e \in Lines
               PROVE  /\ Handled(e) > 1 => e \in lost /\ forgot[e] > 0
                      /\ Handled(e) > 0 /\ e \in seeded => e \in lost
    BY DEF HandledOnce
  <2>1. Handled(e) <= handed[e] /\ Handled(e) \in Nat
    BY <1>1, <2>t DEF IInv, Counted, Handled
  <2>2. handed[e] <= forgot[e] + 1
    BY <1>1 DEF IInv, Delivered
  <2>3. Handled(e) > 1 => forgot[e] > 0
    BY <2>t, <2>1, <2>2
  <2> QED
    BY <1>1, <2>3 DEF IInv, Noted
<1> QED
  BY <1>1, InvariantHolds, PTL

(***************************************************************************)
(* A run of the agent only reads what the player of its own turn wrote,    *)
(* and the turn's own line only when its mark was lost.                    *)
(***************************************************************************)
THEOREM SteeringIsOwn == Spec => []OwnSteering
<1>1. IInv => OwnSteering
  BY DEF IInv
<1> QED
  BY <1>1, InvariantHolds, PTL

(***************************************************************************)
(* The chat history fits what was done with the lines: no row is missing   *)
(* that the history did not refuse or a crash cost, no line has a row and  *)
(* no mark, and a reply has a row only after the line it answers (record-  *)
(* MinecraftChat, recordMinecraftReply).                                   *)
(***************************************************************************)
THEOREM HistoryIsFit == Spec => []HistoryFits
<1>1. IInv => HistoryFits
  BY DEF IInv
<1> QED
  BY <1>1, InvariantHolds, PTL

(***************************************************************************)
(* Between two polls and without a crash, every triggered line that was    *)
(* handed over is known to a reply of which some part was said, or it is   *)
(* of the backlog of the start, or it was dropped at one of the places     *)
(* that TriggeredAnswered lists.                                           *)
(***************************************************************************)
THEOREM TriggersSettled == Spec => []TriggeredAnswered
<1>1. ASSUME IInv PROVE TriggeredAnswered
  <2> SUFFICES ASSUME pc = "idle", crashes = 0, NEW e \in Triggered, handed[e] > 0
               PROVE  e \in Settled
    BY DEF TriggeredAnswered, Settled
  <2>1. batch = {} /\ monitor = {} /\ steering = <<>> /\ cur = 0 /\ taken = {}
    BY <1>1 DEF IInv, Control, Accounted
  <2>2. e \in Settled \union InTurn
    BY <1>1, <2>1 DEF IInv, Accounted
  <2>3. InTurn = {0} /\ e # 0
    BY <2>1, LineNumbers, RelayAssumption DEF InTurn
  <2> QED
    BY <2>2, <2>3
<1> QED
  BY <1>1, InvariantHolds, PTL

\* The publisher's record is what was shown, as long as no say fails after the
\* line reached the game.
LEMMA PublishedStep ==
  ASSUME AckLost = FALSE, TypeOK, Published, [Next]_vars
  PROVE  Published'
<1> USE DEF commentaryVars
<1>t. shown \in [Texts -> Nat] /\ sent \subseteq Texts
  BY DEF TypeOK, LoopTypeOK
<1>r. ASSUME shown' = [t \in Texts |-> 0], sent' = {} PROVE Published'
  <2>1. IsFiniteSet(sent') /\ Cardinality(sent') = 0
    BY <1>r, FS_EmptySet
  <2>2. \A t \in Texts : shown'[t] = IF t \in sent' THEN 1 ELSE 0
    BY <1>r
  <2> QED
    BY <2>1, <2>2, RelayAssumption DEF Published
<1>1. ASSUME NextEvent PROVE Published'
  <2>1. PICK e \in Lines : SkipEvent(e) \/ RecordEvent(e)
    BY <1>1, NextEventTakes
  <2>2. \/ UNCHANGED <<shown, sent>>
        \/ shown' = [t \in Texts |-> 0] /\ sent' = {}
    BY <2>1 DEF SkipEvent, RecordEvent
  <2> QED
    BY <1>r, <2>2 DEF Published
<1>2. ASSUME NEW t \in Texts, Publish(t) PROVE Published'
  <2>1. t \notin sent /\ Cardinality(sent) < MaxUpdates
    BY <1>2 DEF Publish, Publishable
  <2>2. shown' = [shown EXCEPT ![t] = @ + 1] /\ sent' = sent \union {t}
    BY <1>2 DEF Publish
  <2>3. IsFiniteSet(sent') /\ Cardinality(sent') = Cardinality(sent) + 1
    BY <2>1, <2>2, FS_AddElement DEF Published
  <2>4. Cardinality(sent) \in Nat
    BY FS_CardinalityType DEF Published
  <2>5. Cardinality(sent') <= MaxUpdates
    BY <2>1, <2>3, <2>4, RelayAssumption
  <2>6. shown[t] = 0
    BY <2>1 DEF Published
  <2>7. \A d \in Texts : shown'[d] = IF d \in sent' THEN 1 ELSE 0
    BY <1>t, <2>1, <2>2, <2>6 DEF Published
  <2> QED
    BY <2>3, <2>5, <2>7 DEF Published
<1>3. ASSUME Crash PROVE Published'
  BY <1>3, <1>r DEF Crash
<1>4. \/ UNCHANGED vars \/ Chat \/ (\E e \in Lines : BridgeForgets(e)) \/ LosePoll \/ SeedPoll
      \/ Poll \/ EndBatch \/ MonitorPoll \/ MonitorEvent \/ MarkQueued \/ MonitorStopped
      \/ AgentReads \/ AgentFails \/ AgentReturns \/ (\E ok \in BOOLEAN : SayPart(ok))
      => UNCHANGED <<shown, sent>>
  BY DEF vars, Chat, BridgeForgets, LosePoll, SeedPoll, Poll, EndBatch, MonitorPoll,
     MonitorEvent, MarkQueued, MonitorStopped, AgentReads, AgentFails, AgentReturns, SayPart
<1>5. UNCHANGED <<shown, sent>> => Published'
  BY DEF Published
<1> QED
  BY <1>1, <1>2, <1>3, <1>4, <1>5 DEF Next, MainLoop, Turn, Monitor

(***************************************************************************)
(* When a failed say means that nothing was shown, no commentary is shown  *)
(* twice and no more of it than ProgressMaxUpdates in a turn with its      *)
(* retry; and the triggered lines have the fate of TriggersSettled.        *)
(***************************************************************************)
THEOREM PlayersServed ==
  ASSUME AckLost = FALSE
  PROVE  Spec => []TurnsServed
<1>1. Init => Published
  <2>1. IsFiniteSet({}) /\ Cardinality({}) = 0
    BY FS_EmptySet
  <2> QED
    BY <2>1, RelayAssumption DEF Init, Published
<1>2. TypeOK /\ Published /\ [Next]_vars => Published'
  BY PublishedStep
<1>3. ASSUME TypeOK, Published PROVE CommentaryCapped
  <2>1. {t \in Texts : shown[t] > 0} = sent
    BY <1>3 DEF TypeOK, LoopTypeOK, Published
  <2>2. \A t \in Texts : shown[t] <= 1
    BY <1>3 DEF Published
  <2> QED
    BY <1>3, <2>1, <2>2 DEF Published, CommentaryCapped
<1>4. Spec => []Published
  BY <1>1, <1>2, TypeCorrect, PTL DEF Spec
<1>5. Spec => []CommentaryCapped
  BY <1>3, <1>4, TypeCorrect, PTL
<1>6. TriggeredAnswered /\ CommentaryCapped => TurnsServed
  BY DEF TurnsServed
<1> QED
  BY <1>5, <1>6, TriggersSettled, PTL

(***************************************************************************)
(* Turns are taken in the order of the chat, as long as the bridge lost no *)
(* mark of the line: the lines that wait are before all that had a turn.   *)
(***************************************************************************)
THEOREM TurnsOrdered == Spec => TurnsInOrder
<1> DEFINE InOrder == \A e \in Lines :
                        (turns'[e] > turns[e] /\ forgot[e] = 0)
                          => \A f \in Lines : f > e => turns[f] = 0
<1>1. ASSUME IInv, [Next]_vars PROVE [InOrder]_vars
  <2>t. turns \in [Lines -> Nat]
    BY <1>1 DEF IInv, TypeOK, HistoryTypeOK
  <2>1. CASE NextEvent
    <3>1. PICK e \in Lines : e \in batch /\ (SkipEvent(e) \/ RecordEvent(e))
      BY <1>1, <2>1, NextEventTakes DEF IInv
    <3>2. turns' = turns \/ turns' = [turns EXCEPT ![e] = @ + 1]
      BY <3>1 DEF SkipEvent, RecordEvent
    <3>3. \A d \in Lines : turns'[d] > turns[d] => d = e
      BY <2>t, <3>2
    <3>4. forgot[e] = 0 => \A f \in Lines : f > e => turns[f] = 0
      BY <1>1, <3>1 DEF IInv, Ordered
    <3> QED
      BY <3>3, <3>4
  <2>2. CASE ~NextEvent
    <3>1. turns' = turns
      BY <1>1, <2>2 DEF vars, histVars, Next, Chat, BridgeForgets, LosePoll, MainLoop, SeedPoll,
         Poll, EndBatch, Turn, AgentReads, AgentFails, AgentReturns, Publish, SayPart, Monitor,
         MonitorPoll, MonitorEvent, MarkQueued, MonitorStopped, Crash
    <3> QED
      BY <2>t, <3>1
  <2> QED
    BY <2>1, <2>2
<1> QED
  BY <1>1, InvariantHolds, PTL DEF Spec, TurnsInOrder
=============================================================================
