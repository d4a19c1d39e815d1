------------------------------- MODULE Relay -------------------------------
(***************************************************************************)
(* mc-relay (relay/main.go): one loop polls the bridge for new chat lines, *)
(* records them, and answers those that mention greg, one after the other. *)
(* While the agent works on one line, a second goroutine polls the bridge  *)
(* for more lines of the same player and queues them as steering.  Both    *)
(* mark lines in the same State.Seen, which survives a crash as far as it  *)
(* was saved.                                                              *)
(*                                                                         *)
(* The bridge is the specification ChatFeed; the agent run is what Agent   *)
(* Runner may do: read steering, publish commentary, return or fail.       *)
(***************************************************************************)
EXTENDS Naturals, Sequences, FiniteSets

CONSTANTS
  MaxLines,     \* chat lines the game ever shows (bound)
  Player,       \* Player[e]: who wrote line e
  Triggered,    \* lines that mention greg
  TaskBoard,    \* triggered lines that ask for the task board
  SteeringCap,  \* capacity of the steering channel (32)
  SeenMax,      \* marks that pruneSeen keeps (10000)
  Texts,        \* sentences the model may publish as commentary
  MaxUpdates,   \* cfg.ProgressMaxUpdates
  MaxParts,     \* cfg.MaxReplyParts
  SaveFails,    \* TRUE: saveState may fail (it only logs the error)
  AckLost,      \* TRUE: a line may reach the game although say fails
  MaxUnlogged,  \* for how many lines the history refuses a row (bound); it
                \* refuses rows for replies if that is not 0
  MaxForgets,   \* how often the bridge loses marks (bound)
  MaxCrashes    \* how often mc-relay crashes (bound)

Lines == 1 .. MaxLines

ASSUME RelayAssumption ==
  /\ MaxLines \in Nat
  /\ DOMAIN Player = Lines
  /\ Triggered \subseteq Lines
  /\ TaskBoard \subseteq Triggered
  /\ SteeringCap \in Nat \ {0}
  /\ SeenMax \in Nat
  /\ MaxUpdates \in Nat \ {0} /\ MaxParts \in Nat \ {0}
  /\ SaveFails \in BOOLEAN /\ AckLost \in BOOLEAN
  /\ MaxUnlogged \in Nat /\ MaxForgets \in Nat /\ MaxCrashes \in Nat

VARIABLES
  emitted, handed, forgot,         \* the feed: see ChatFeed
  initialized, seen, stamp,        \* State; stamp[e]: the time Seen[e] holds
  diskInitialized, diskSeen, diskStamp,   \* the state file
  clock,      \* time.Now() as the marks see it
  pc,         \* where the main loop is
  batch,      \* events of the response that the loop has not reached yet
  batchTime,  \* the time taken before the loop over the response
  cur,        \* the event being handled (0: none)
  attempt,    \* 1, or 2 for the retry in a fresh session
  steering,   \* the steering channel
  monitor,    \* events of the monitor's response not looked at yet
  queued,     \* the event the monitor has sent but not marked yet (0: none)
  shown,      \* shown[t]: how often commentary t appeared in this turn
  sent,       \* minecraftCommentaryPublisher.sent (sentCount is its size)
  partsLeft, partsSaid,            \* parts of the reply
  chatLog, replyLog,               \* history rows for lines and replies
  seeded,     \* history: lines marked by the first poll
  turns,      \* history: how often the loop handled a triggered line
  steered,    \* history: how often a line was queued as steering
  readIn,     \* history: pairs <<line, turn>>: a run for turn read the line
  taken,      \* history: steering lines that the present attempt has read
  answered,   \* history: lines known to a reply of which a part was said
  dropped,    \* history: lines the code gave up, at one of the places below
  unlogged,   \* history: lines the chat history has refused
  lost,       \* history: lines whose mark a crash or pruneSeen lost
  crashes

feedVars == <<emitted, handed, forgot>>
stVars == <<initialized, seen, stamp>>
monitorVars == <<monitor, queued>>
diskVars == <<diskInitialized, diskSeen, diskStamp>>
commentaryVars == <<shown, sent>>
partVars == <<partsLeft, partsSaid>>
logVars == <<chatLog, replyLog>>
histVars == <<seeded, turns, steered, readIn, taken, answered, dropped, unlogged, lost, crashes>>
vars == <<feedVars, stVars, diskVars, clock, pc, batch, batchTime, cur, attempt,
          steering, monitorVars, commentaryVars, partVars, logVars, histVars>>

Feed == INSTANCE ChatFeed

\* Mutant: the response is worked off from its end.
Greatest(S) == CHOOSE e \in S : \A f \in S : f <= e

\* range resp.Events: the events of a response come in the order of the chat.
Least(S) == CHOOSE e \in S : \A f \in S : e <= f

\* The types of the marks, the loop with its turn, the monitor, the history.
StateTypeOK ==
  /\ initialized \in BOOLEAN /\ diskInitialized \in BOOLEAN
  /\ seen \subseteq Lines /\ diskSeen \subseteq Lines
  /\ stamp \in [Lines -> Nat] /\ diskStamp \in [Lines -> Nat]
  /\ clock \in Nat /\ batchTime \in Nat

LoopTypeOK ==
  /\ pc \in {"idle", "batch", "agent", "stopping", "say"}
  /\ batch \subseteq Lines
  /\ cur \in 0 .. MaxLines
  /\ attempt \in 1 .. 2
  /\ shown \in [Texts -> Nat] /\ sent \subseteq Texts
  /\ partsLeft \in 0 .. MaxParts /\ partsSaid \in 0 .. MaxParts

MonitorTypeOK ==
  /\ monitor \subseteq Lines
  /\ queued \in 0 .. MaxLines
  /\ steering \in Seq(Lines) /\ Len(steering) <= SteeringCap

HistoryTypeOK ==
  /\ chatLog \subseteq Lines /\ replyLog \subseteq Lines
  /\ {seeded, taken, answered, dropped, unlogged, lost} \subseteq SUBSET Lines
  /\ turns \in [Lines -> Nat] /\ steered \in [Lines -> Nat]
  /\ readIn \subseteq Lines \X Lines
  /\ crashes \in 0 .. MaxCrashes

TypeOK == Feed!TypeOK /\ StateTypeOK /\ LoopTypeOK /\ MonitorTypeOK /\ HistoryTypeOK

Init ==
  /\ Feed!Init
  /\ initialized = FALSE /\ diskInitialized = FALSE
  /\ seen = {} /\ diskSeen = {}
  /\ stamp = [e \in Lines |-> 0] /\ diskStamp = [e \in Lines |-> 0]
  /\ clock = 0 /\ batchTime = 0
  /\ pc = "idle"
  /\ batch = {} /\ monitor = {}
  /\ cur = 0 /\ queued = 0 /\ attempt = 1
  /\ steering = <<>>
  /\ shown = [t \in Texts |-> 0] /\ sent = {}
  /\ partsLeft = 0 /\ partsSaid = 0
  /\ chatLog = {} /\ replyLog = {}
  /\ seeded = {} /\ lost = {} /\ taken = {} /\ answered = {} /\ dropped = {} /\ unlogged = {}
  /\ turns = [e \in Lines |-> 0] /\ steered = [e \in Lines |-> 0]
  /\ readIn = {}
  /\ crashes = 0
-----------------------------------------------------------------------------
\* The game and the bridge: another chat line; a restart of the bridge with a
\* state file older than its marks (Bridge!Restart).
Chat ==
  /\ Feed!Emit
  /\ UNCHANGED <<stVars, diskVars, clock, pc, batch, batchTime, cur, attempt, steering,
                 monitorVars, commentaryVars, partVars, logVars, histVars>>

BridgeForgets(e) ==
  /\ e \in Lines
  /\ forgot[e] < MaxForgets
  /\ Feed!Forget({e})
  /\ UNCHANGED <<stVars, diskVars, clock, pc, batch, batchTime, cur, attempt, steering,
                 monitorVars, commentaryVars, partVars, logVars, histVars>>

\* saveState: temporary file and rename, errors are logged.
SaveState ==
  \/ /\ diskInitialized' = initialized' /\ diskSeen' = seen' /\ diskStamp' = stamp'
  \/ SaveFails /\ UNCHANGED diskVars

\* pruneSeen(st, max): drops the oldest marks; sort.Slice leaves the order of
\* equal times open.
PruneSeen(marks, times) ==
  {kept \in SUBSET marks :
     /\ Cardinality(kept) = IF Cardinality(marks) <= SeenMax
                            THEN Cardinality(marks) ELSE SeenMax
     /\ \A d \in marks \ kept, k \in kept : times[d] <= times[k]}

\* A poll whose response is lost on the way: the client's timeout, a broken
\* connection, a body above the 1 MiB limit.  The bridge has marked the lines.
LosePoll ==
  /\ pc \in {"idle", "agent", "stopping"}
  /\ monitor = {} /\ queued = 0
  /\ Feed!Available # {}
  /\ Feed!HandOver(Feed!Available)
  /\ dropped' = dropped \union Feed!Available
  /\ UNCHANGED <<stVars, diskVars, clock, pc, batch, batchTime, cur, attempt, steering,
                 monitorVars, commentaryVars, partVars, logVars,
                 seeded, turns, steered, readIn, taken, answered, unlogged, lost, crashes>>

\* processOnceWithHistory, first poll: mark everything, answer nothing.
SeedPoll ==
  /\ pc = "idle"
  /\ ~initialized
  /\ Feed!HandOver(Feed!Available)
  /\ clock' = clock + 1
  /\ initialized' = TRUE
  /\ stamp' = [e \in Lines |-> IF e \in Feed!Available THEN clock' ELSE stamp[e]]
  /\ seen' \in PruneSeen(seen \union Feed!Available, stamp')
  /\ lost' = lost \union ((seen \union Feed!Available) \ seen')
  /\ seeded' = seeded \union Feed!Available
  /\ SaveState
  /\ UNCHANGED <<pc, batch, batchTime, cur, attempt, steering, monitorVars, commentaryVars,
                 partVars, logVars, turns, steered, readIn, taken, answered, dropped,
                 unlogged, crashes>>

\* processOnceWithHistory, any later poll.  The clock only matters for marks:
\* it moves with the responses that carry events.
Tick == clock' = IF Feed!Available = {} THEN clock ELSE clock + 1

Poll ==
  /\ pc = "idle"
  /\ initialized
  /\ Feed!HandOver(Feed!Available)
  /\ Tick
  /\ batch' = Feed!Available
  /\ batchTime' = clock'
  /\ pc' = "batch"
  /\ UNCHANGED <<stVars, diskVars, cur, attempt, steering, monitorVars, commentaryVars,
                 partVars, logVars, histVars>>

\* Mutant: marks expire.
KnownLately(e) == e \in seen /\ clock <= stamp[e] + 1

\* Mutant: only saved marks count.
KnownOnDisk(e) == e \in diskSeen

\* _, ok := st.Seen[id]
Known(e) == e \in seen

\* Mutant: only triggered lines are recorded.
LogChatTriggered(e) ==
  chatLog' = chatLog \union ({e} \intersect Triggered) /\ UNCHANGED unlogged

\* recordMinecraftChat; the history keeps one row for each line.  An error, also
\* that it could not be opened for this poll, is logged and nothing more.
LogChat(e) ==
  \/ chatLog' = chatLog \union {e} /\ UNCHANGED unlogged
  \/ /\ Cardinality(unlogged) < MaxUnlogged
     /\ unlogged' = unlogged \union {e} /\ UNCHANGED chatLog

\* The head of the loop over resp.Events, up to the first thing that waits.
SkipEvent(e) ==
  /\ Known(e)
  /\ UNCHANGED <<seen, stamp, chatLog, unlogged, pc, cur, attempt, turns, partVars, commentaryVars>>

RecordEvent(e) ==
  /\ ~Known(e)
  /\ seen' = seen \union {e}
  /\ stamp' = [stamp EXCEPT ![e] = batchTime]
  /\ LogChat(e)
  /\ IF e \notin Triggered
     THEN UNCHANGED <<pc, cur, attempt, turns, partVars, commentaryVars>>
     ELSE /\ turns' = [turns EXCEPT ![e] = @ + 1]
          /\ cur' = e
          /\ attempt' = 1
          /\ shown' = [t \in Texts |-> 0]
          /\ sent' = {}
          /\ partsSaid' = 0
          /\ IF e \in TaskBoard
             THEN pc' = "say" /\ partsLeft' \in 1 .. MaxParts
             ELSE pc' = "agent" /\ UNCHANGED partsLeft

NextEvent ==
  LET e == Least(batch) IN
  /\ pc = "batch"
  /\ batch # {}
  /\ batch' = batch \ {e}
  /\ SkipEvent(e) \/ RecordEvent(e)
  /\ UNCHANGED <<feedVars, initialized, diskVars, clock, batchTime, steering, monitorVars,
                 replyLog, seeded, steered, readIn, taken, answered, dropped, lost, crashes>>

EndBatch ==
  /\ pc = "batch"
  /\ batch = {}
  /\ pc' = "idle"
  /\ seen' \in PruneSeen(seen, stamp)
  /\ lost' = lost \union (seen \ seen')
  /\ UNCHANGED <<initialized, stamp>>
  /\ SaveState
  /\ UNCHANGED <<feedVars, clock, batch, batchTime, cur, attempt, steering, monitorVars,
                 commentaryVars, partVars, logVars, seeded, turns, steered, readIn, taken,
                 answered, dropped, unlogged, crashes>>
-----------------------------------------------------------------------------
\* startMinecraftSteeringMonitor: the goroutine polls on its own ticker.
MonitorPoll ==
  /\ pc = "agent"
  /\ monitor = {} /\ queued = 0
  /\ Feed!Available # {}
  /\ Feed!HandOver(Feed!Available)
  /\ monitor' = Feed!Available
  /\ clock' = clock + 1
  /\ UNCHANGED <<stVars, diskVars, queued, pc, batch, batchTime, cur, attempt, steering,
                 commentaryVars, partVars, logVars, histVars>>

\* The default branch of the select that sends to the channel.
ChannelFull == Len(steering) >= SteeringCap

\* Mutant: the monitor takes every player's lines.
AnyPlayer(e) == TRUE

\* strings.EqualFold(ev.Player, activePlayer)
SamePlayer(e) == Player[e] = Player[cur]

\* Mutant: a send to a full channel blocks.
PassOverOrBlock(e) ==
  /\ ~SamePlayer(e) \/ Known(e)
  /\ dropped' = IF Known(e) THEN dropped ELSE dropped \union {e}
  /\ UNCHANGED <<queued, steering, steered>>

\* One event of its response: another player's line, a line marked before, and
\* a line that finds the channel full are passed over.
PassOver(e) ==
  /\ ~SamePlayer(e) \/ Known(e) \/ ChannelFull
  /\ dropped' = IF Known(e) THEN dropped ELSE dropped \union {e}
  /\ UNCHANGED <<queued, steering, steered>>

Queue(e) ==
  /\ SamePlayer(e)
  /\ ~Known(e)
  /\ ~ChannelFull
  /\ steering' = Append(steering, e)
  /\ steered' = [steered EXCEPT ![e] = @ + 1]
  /\ queued' = e
  /\ UNCHANGED dropped

MonitorEvent ==
  LET e == Least(monitor) IN
  /\ pc \in {"agent", "stopping"}
  /\ queued = 0
  /\ monitor # {}
  /\ monitor' = monitor \ {e}
  /\ PassOver(e) \/ Queue(e)
  /\ UNCHANGED <<feedVars, stVars, diskVars, clock, pc, batch, batchTime, cur, attempt,
                 commentaryVars, partVars, logVars, seeded, turns, readIn, taken, answered,
                 unlogged, lost, crashes>>

\* What follows the send: the agent may have read the line by now.  Mark,
\* record, prune, save.
MarkQueued ==
  /\ queued # 0
  /\ queued' = 0
  /\ stamp' = [stamp EXCEPT ![queued] = clock]
  /\ LogChat(queued)
  /\ seen' \in PruneSeen(seen \union {queued}, stamp')
  /\ lost' = lost \union ((seen \union {queued}) \ seen')
  /\ UNCHANGED initialized
  /\ SaveState
  /\ UNCHANGED <<feedVars, clock, pc, batch, batchTime, cur, attempt, steering, monitor,
                 commentaryVars, partVars, replyLog, seeded, turns, steered, readIn,
                 taken, answered, dropped, crashes>>

\* stop(): the context is cancelled and the goroutine has finished its loop.
\* Nobody reads what is left in the channel.
MonitorStopped ==
  /\ pc = "stopping"
  /\ monitor = {} /\ queued = 0
  /\ pc' = "say"
  /\ partsLeft' \in 1 .. MaxParts
  /\ dropped' = dropped \union {steering[i] : i \in DOMAIN steering}
  /\ steering' = <<>>
  /\ UNCHANGED <<feedVars, stVars, diskVars, clock, batch, batchTime, cur, attempt, monitorVars,
                 commentaryVars, partsSaid, logVars, seeded, turns, steered, readIn, taken,
                 answered, unlogged, lost, crashes>>
-----------------------------------------------------------------------------
\* askAgent: what a run of the agent does to the relay.
AgentReads ==
  /\ pc = "agent"
  /\ steering # <<>>
  /\ readIn' = readIn \union {<<Head(steering), cur>>}
  /\ taken' = taken \union {Head(steering)}
  /\ steering' = Tail(steering)
  /\ UNCHANGED <<feedVars, stVars, diskVars, clock, pc, batch, batchTime, cur, attempt,
                 monitorVars, commentaryVars, partVars, logVars, seeded, turns, steered,
                 answered, dropped, unlogged, lost, crashes>>

\* minecraftCommentaryPublisher.Publish up to the call of say.
Publishable(t) ==
  /\ t \notin sent
  /\ Cardinality(sent) < MaxUpdates

\* say succeeds; say fails although the line was shown; a plain failure of say
\* changes nothing.
Publish(t) ==
  /\ pc = "agent"
  /\ Publishable(t)
  /\ shown[t] <= MaxUpdates
  /\ shown' = [shown EXCEPT ![t] = @ + 1]
  /\ \/ sent' = sent \union {t}
     \/ AckLost /\ UNCHANGED sent
  /\ UNCHANGED <<feedVars, stVars, diskVars, clock, pc, batch, batchTime, cur, attempt,
                 steering, monitorVars, partVars, logVars, histVars>>

\* The attempt has failed, and no reply will know what it has read.
LoseTaken == dropped' = dropped \union taken /\ taken' = {}

\* The retry is a session of its own, which is given the line only.
AgentFails ==
  /\ pc = "agent"
  /\ attempt = 1
  /\ attempt' = 2
  /\ LoseTaken
  /\ UNCHANGED <<feedVars, stVars, diskVars, clock, pc, batch, batchTime, cur, steering,
                 monitorVars, commentaryVars, partVars, logVars, seeded, turns, steered, readIn,
                 answered, unlogged, lost, crashes>>

\* A reply, or the fallback reply after the second error.
AgentReturns ==
  /\ pc = "agent"
  /\ pc' = "stopping"
  /\ \/ UNCHANGED <<taken, dropped>>
     \/ attempt = 2 /\ LoseTaken
  /\ UNCHANGED <<feedVars, stVars, diskVars, clock, batch, batchTime, cur, attempt, steering,
                 monitorVars, commentaryVars, partVars, logVars, seeded, turns, steered, readIn,
                 answered, unlogged, lost, crashes>>

\* Mutant: the handler returns after a reply instead of going on.
FinishReplyAndReturn ==
  /\ pc' = "idle"
  /\ cur' = 0
  /\ partsLeft' = 0
  /\ taken' = {}
  /\ IF partsSaid' > 0
     THEN /\ answered' = answered \union {cur} \union taken
          /\ replyLog' = replyLog \union {cur} /\ UNCHANGED dropped
     ELSE dropped' = dropped \union {cur} \union taken /\ UNCHANGED <<answered, replyLog>>

\* recordMinecraftReply: likewise.
LogReply(e) ==
  \/ replyLog' = replyLog \union {e}
  \/ MaxUnlogged > 0 /\ UNCHANGED replyLog

\* The loop over the parts of the reply stops at the first error; the reply is
\* recorded when at least one part was sent.
FinishReply ==
  /\ pc' = "batch"
  /\ cur' = 0
  /\ partsLeft' = 0
  /\ taken' = {}
  /\ IF partsSaid' > 0
     THEN /\ answered' = answered \union {cur} \union taken
          /\ LogReply(cur)
          /\ UNCHANGED dropped
     ELSE dropped' = dropped \union {cur} \union taken /\ UNCHANGED <<answered, replyLog>>

SayPart(ok) ==
  /\ pc = "say"
  /\ partsSaid' = IF ok THEN partsSaid + 1 ELSE partsSaid
  /\ IF ok /\ partsLeft > 1
     THEN partsLeft' = partsLeft - 1 /\ UNCHANGED <<pc, cur, replyLog, taken, answered, dropped>>
     ELSE FinishReply
  /\ UNCHANGED <<feedVars, stVars, diskVars, clock, batch, batchTime, attempt, steering,
                 monitorVars, commentaryVars, chatLog, seeded, turns, steered, readIn,
                 unlogged, lost, crashes>>

\* The process dies at any point and starts again from the state file.
Crash ==
  /\ crashes < MaxCrashes
  /\ crashes' = crashes + 1
  /\ initialized' = diskInitialized /\ seen' = diskSeen /\ stamp' = diskStamp
  /\ lost' = lost \union (seen \ diskSeen) \union ({queued} \ {0})
  /\ pc' = "idle" /\ batch' = {} /\ monitor' = {} /\ queued' = 0 /\ steering' = <<>> /\ cur' = 0
  /\ batchTime' = 0 /\ attempt' = 1 /\ partsLeft' = 0 /\ partsSaid' = 0
  /\ shown' = [t \in Texts |-> 0] /\ sent' = {} /\ taken' = {}
  /\ UNCHANGED <<feedVars, diskVars, clock, logVars, seeded, turns, steered, readIn, answered,
                 dropped, unlogged>>

MainLoop == SeedPoll \/ Poll \/ NextEvent \/ EndBatch
Turn ==
  \/ AgentReads \/ AgentFails \/ AgentReturns
  \/ \E t \in Texts : Publish(t)
  \/ \E ok \in BOOLEAN : SayPart(ok)
Monitor == MonitorPoll \/ MonitorEvent \/ MarkQueued \/ MonitorStopped

Next ==
  \/ Chat
  \/ \E e \in Lines : BridgeForgets(e)
  \/ LosePoll
  \/ MainLoop
  \/ Turn
  \/ Monitor
  \/ Crash

Spec == Init /\ [][Next]_vars

\* The loops of the relay run; the agent's context has a timeout, so that a run
\* ends; every say has one too.
Fairness ==
  /\ WF_vars(MainLoop)
  /\ WF_vars(AgentReturns)
  /\ WF_vars(MonitorEvent \/ MarkQueued \/ MonitorStopped)
  /\ WF_vars(\E ok \in BOOLEAN : SayPart(ok))

FairSpec == Spec /\ Fairness
-----------------------------------------------------------------------------
Handled(e) == turns[e] + steered[e]

(***************************************************************************)
(* A chat line is handled at most once, as a turn of its own or as         *)
(* steering of another, whatever the bridge repeats and wherever mc-relay  *)
(* crashes: it takes the loss of the mark in both programs to handle a     *)
(* line twice (State.Seen in processOnceWithHistory and in the monitor).   *)
(* A line of the seed poll is not handled at all, unless its mark is lost. *)
(***************************************************************************)
HandledOnce ==
  \A e \in Lines :
    /\ Handled(e) > 1 => e \in lost /\ forgot[e] > 0
    /\ Handled(e) > 0 /\ e \in seeded => e \in lost

(***************************************************************************)
(* A run only reads steering that the player of its own turn wrote:        *)
(* nothing that was queued for an earlier turn leaks into a later one.     *)
(* The line a turn answers is not steering of that turn, unless its mark   *)
(* is lost, as pruneSeen may do in a long turn                             *)
(* (startMinecraftSteeringMonitor).                                        *)
(***************************************************************************)
OwnSteering ==
  \A r \in readIn : Player[r[1]] = Player[r[2]] /\ (r[1] = r[2] => r[1] \in lost)

(***************************************************************************)
(* Turns are taken in the order of the chat: when a turn begins for a      *)
(* line, no later line has had one, as long as neither program lost a mark *)
(* (the loop over resp.Events).                                            *)
(***************************************************************************)
TurnsInOrder ==
  [][\A e \in Lines :
       (turns'[e] > turns[e] /\ forgot[e] = 0)
         => \A f \in Lines : f > e => turns[f] = 0]_vars

(***************************************************************************)
(* A turn, its retry and its steering share one publisher: no commentary   *)
(* is shown twice and at most MaxUpdates are (README, live commentary;     *)
(* minecraftCommentaryPublisher.Publish).                                  *)
(***************************************************************************)
CommentaryCapped ==
  /\ \A t \in Texts : shown[t] <= 1
  /\ Cardinality({t \in Texts : shown[t] > 0}) <= MaxUpdates

(***************************************************************************)
(* The chat history that later turns recall fits what was done with the    *)
(* lines.  A line that was handled has a row, unless the history refused   *)
(* it, or a crash came between the send to the steering channel and        *)
(* recordMinecraftChat, and then its mark is lost as well.  A line with a  *)
(* row has a mark, so that it gets neither a second turn nor is it from    *)
(* the backlog of the start, unless the mark is lost.  And a row for a     *)
(* reply is one of a turn whose line went to the history before.           *)
(***************************************************************************)
HistoryFits ==
  /\ \A e \in Lines : Handled(e) > 0 => e \in chatLog \union unlogged \union lost \/ e = queued
  /\ chatLog \subseteq (seen \ seeded) \union lost
  /\ replyLog \subseteq {e \in chatLog \union unlogged : turns[e] > 0}

(***************************************************************************)
(* README.md:397 calls every line that mentions greg actionable.  What the *)
(* code keeps of it: between two polls, every such line that the bridge    *)
(* has handed over was answered, by a reply that knew it and of which some *)
(* part was said, unless it belongs to the backlog of the start or was     *)
(* dropped at one of these places: in a response that was lost; by the     *)
(* monitor of a turn, as the line of another player or since the channel   *)
(* was full; unread when the turn ended; read by an attempt that failed;   *)
(* by a say that failed for the first part of the reply.  No other path    *)
(* loses a line.                                                           *)
(***************************************************************************)
TriggeredAnswered ==
  (pc = "idle" /\ crashes = 0) =>
    \A e \in Triggered :
      handed[e] > 0 => e \in answered \union dropped \union seeded

(***************************************************************************)
(* What a player gets to see: the answers above, and commentary within its *)
(* limits.                                                                 *)
(***************************************************************************)
TurnsServed == TriggeredAnswered /\ CommentaryCapped

(***************************************************************************)
(* The loop always comes back for the next poll: no run, reply or monitor  *)
(* can hold it up (the send to the steering channel never blocks).         *)
(***************************************************************************)
BatchEnds == (pc # "idle") ~> (pc = "idle")
-----------------------------------------------------------------------------
(***************************************************************************)
(* The inductive invariant behind HandledOnce, OwnSteering, TurnsInOrder,  *)
(* HistoryFits and TriggeredAnswered, by parts.                            *)
(***************************************************************************)

\* What belongs to a poll, a turn or its monitor is gone when that is over.
Control ==
  /\ ~initialized => pc = "idle" /\ seen = {}
  /\ ~diskInitialized => diskSeen = {}
  /\ pc = "idle" => batch = {}
  /\ pc \notin {"agent", "stopping"} => monitor = {} /\ queued = 0 /\ steering = <<>>
  /\ pc \in {"agent", "stopping", "say"} => cur \in Lines
  /\ pc \in {"agent", "stopping"} => partsSaid = 0
  /\ pc = "say" => partsLeft > 0 /\ partsSaid + partsLeft <= MaxParts

\* The feed: a line is handed over once per mark, and after those before it.
Delivered ==
  \A e \in Lines :
    /\ handed[e] <= forgot[e] + 1
    /\ handed[e] > 0 => e <= emitted /\ \A d \in 1..e : handed[d] > 0

\* Every delivery of a line is handled, waits in a response, or is used up.
Counted ==
  \A e \in Lines :
    Handled(e) + (IF e \in batch THEN 1 ELSE 0) + (IF e \in monitor THEN 1 ELSE 0)
      <= handed[e]

\* What was handled or seeded is marked, unless the mark is lost.
Noted ==
  /\ \A e \in Lines : Handled(e) > 0 => e \in seen \union lost \/ e = queued
  /\ \A e \in Lines : Handled(e) > 1 => e \in lost
  /\ \A e \in Lines : Handled(e) > 0 /\ e \in seeded => e \in lost
  /\ seeded \subseteq seen \union lost

\* The turn and its steering.
Steered ==
  /\ pc \in {"agent", "stopping", "say"} => turns[cur] > 0 /\ cur \in chatLog \union unlogged
  /\ \A i \in 1..Len(steering) :
       Player[steering[i]] = Player[cur] /\ (steering[i] = cur => cur \in lost)
  /\ queued # 0 => steered[queued] > 0

\* A line that waits for its turn is before all that had one.
Ordered ==
  \A e \in batch : forgot[e] = 0 => \A f \in Lines : f > e => turns[f] = 0

\* The lines of the turn: its own, those the attempt has read, and those in the
\* channel.
InTurn == {steering[i] : i \in DOMAIN steering} \union taken \union {cur}

\* The fate of these lines is settled.
Settled == answered \union dropped \union seeded

\* A triggered line with a mark is settled or in the turn; one without a mark may
\* also wait in a response.
Accounted ==
  /\ pc \in {"idle", "batch"} => cur = 0 /\ taken = {}
  /\ crashes = 0 =>
       /\ queued # 0 => queued \in Settled \union InTurn
       /\ \A e \in Triggered :
            /\ e \in seen => e \in Settled \union InTurn
            /\ handed[e] > 0 => e \in Settled \union InTurn \union batch \union monitor

\* The publisher remembers what it has shown, when say is acknowledged.
Published ==
  /\ IsFiniteSet(sent) /\ Cardinality(sent) <= MaxUpdates
  /\ \A t \in Texts : shown[t] = IF t \in sent THEN 1 ELSE 0

IInv ==
  /\ TypeOK /\ Control /\ Delivered /\ Counted /\ Noted /\ Steered /\ Ordered /\ Accounted
  /\ HistoryFits /\ OwnSteering
=============================================================================
