----------------------------- MODULE KanbanSync -----------------------------
(***************************************************************************)
(* kanban-sync/main.go: the loop that shows the tasks of the workspace in  *)
(* Discord, one board message and one message for every task in progress.  *)
(* The process remembers message ids and hashes of what it sent, saves     *)
(* them at the end of a poll that changed something, and starts again from *)
(* the saved state.  A request may fail, be carried out although it is     *)
(* reported as failed, or be carried out twice by the retries of           *)
(* doDiscordJSON; moderators delete messages.                              *)
(*                                                                         *)
(* Abstractions.  The payload of a task is a version of it, the board      *)
(* shows all versions; a hash is what it is computed from.  A message is   *)
(* its place in `posts'.  The sort order of tasks is arbitrary.  The       *)
(* channels of both outputs are configured together.  Pins and the guild   *)
(* id, which nothing depends on, are left out.                             *)
(***************************************************************************)
EXTENDS Naturals, Sequences, FiniteSets

CONSTANTS
  Tasks,
  Board,         \* what the board message is about
  Channels,      \* channels that may be configured
  NoChannel,     \* of a state that was never saved
  Deleted,       \* in place of a message that is gone
  Outputs,       \* the choices of outputs that may be enabled
  MaxVersion,    \* bound on the versions of a task; version 0 is not in progress
  MaxChanges,    \* bound on changes of the tasks
  MaxFaults,     \* bound on failures of requests, commands and saves
  MaxRestarts,
  Unheard        \* an error of the API may hide that the request was carried out

ASSUME KanbanAssumption ==
  /\ Outputs \subseteq SUBSET {"board", "progress"}
  /\ Board \notin Tasks /\ NoChannel \notin Channels
  /\ {MaxVersion, MaxChanges, MaxFaults, MaxRestarts} \subseteq Nat
  /\ Unheard \in BOOLEAN
  /\ Deleted \notin [channel : Channels, about : Tasks \union {Board},
                     shows : (0..MaxVersion) \union [Tasks -> 0..MaxVersion]]

VARIABLES
  work,        \* the version of each task
  changes,
  posts,       \* every message the bot ever sent
  faults,
  restarts,
  pc,
  outputs,     \* which outputs are enabled
  home,        \* the configured channel
  payload,     \* the tasks as the poll has read them
  board,       \* SyncState
  boardFile,
  progress,    \* InProgressSyncState
  progressFile,
  changed,
  todo,        \* tasks whose message the poll has yet to create or edit
  astray       \* messages the service has lost from sight: they stay
               \* although it knows nothing, or something outdated, of them

worldVars == <<work, changes>>
boardVars == <<board, boardFile>>
progressVars == <<progress, progressFile, changed, todo>>
vars == <<worldVars, posts, faults, restarts, pc, outputs, home, payload, boardVars, progressVars, astray>>

Works == [Tasks -> 0..MaxVersion]
NoTasks == [t \in Tasks |-> 0]
Untracked == [id |-> 0, hash |-> 0]
NoBoard == [channel |-> NoChannel, id |-> 0, hash |-> NoTasks]
NoProgress == [channel |-> NoChannel, messages |-> [t \in Tasks |-> Untracked]]

SyncState == [channel : Channels \union {NoChannel}, id : 0..Len(posts), hash : Works]
InProgressSyncState ==
  [channel : Channels \union {NoChannel},
   messages : [Tasks -> [id : 0..Len(posts), hash : 0..MaxVersion]]]

TypeOK ==
  /\ work \in Works /\ payload \in Works
  /\ changes \in 0..MaxChanges
  /\ faults \in 0..MaxFaults
  /\ restarts \in 0..MaxRestarts
  /\ \A id \in 1..Len(posts) :
       \/ posts[id] = Deleted
       \/ posts[id] \in [channel : Channels, about : Tasks, shows : 1..MaxVersion]
       \/ posts[id] \in [channel : Channels, about : {Board}, shows : Works]
  /\ pc \in {"idle", "board", "tasks", "syncing"}
  /\ outputs \in Outputs
  /\ home \in Channels
  /\ {board, boardFile} \subseteq SyncState
  /\ {progress, progressFile} \subseteq InProgressSyncState
  /\ changed \in BOOLEAN
  /\ todo \subseteq Tasks
  /\ astray \subseteq 1..Len(posts)

Init ==
  /\ work \in Works
  /\ changes = 0
  /\ posts = <<>>
  /\ faults = 0
  /\ restarts = 0
  /\ pc = "idle"
  /\ outputs \in Outputs
  /\ home \in Channels
  /\ payload = NoTasks
  /\ board = NoBoard /\ boardFile = NoBoard
  /\ progress = NoProgress /\ progressFile = NoProgress
  /\ changed = FALSE
  /\ todo = {}
  /\ astray = {}

Visible(id) == id # 0 /\ posts[id] # Deleted

Fault == faults < MaxFaults /\ faults' = faults + 1

-----------------------------------------------------------------------------
(* What happens around the service *)

\* gtnh_tasks changes a task, starts it or finishes it.
ChangeTask(t) ==
  /\ changes < MaxChanges
  /\ \E v \in (0..MaxVersion) \ {work[t]} : work' = [work EXCEPT ![t] = v]
  /\ changes' = changes + 1
  /\ UNCHANGED <<posts, faults, restarts, pc, outputs, home, payload, boardVars, progressVars, astray>>

\* A moderator deletes a message.
DeleteByHand(id) ==
  /\ Visible(id)
  /\ Fault
  /\ posts' = [posts EXCEPT ![id] = Deleted]
  /\ astray' = astray \ {id}
  /\ UNCHANGED <<worldVars, restarts, pc, outputs, home, payload, boardVars, progressVars>>

\* The message of id is tracked, and shows what the state says it shows.
KnownIn(b, p, id) ==
  IF posts[id].about = Board THEN b.id = id /\ b.hash = posts[id].shows
  ELSE p.messages[posts[id].about] = [id |-> id, hash |-> posts[id].shows]

\* The process stops at any point and starts from its files, perhaps with
\* another configuration.
Restart ==
  /\ restarts < MaxRestarts
  /\ restarts' = restarts + 1
  /\ pc' = "idle"
  /\ home' \in Channels
  /\ board' = boardFile /\ progress' = progressFile
  /\ changed' = FALSE /\ todo' = {}
  /\ payload' = NoTasks
  /\ astray' = astray \union {id \in 1..Len(posts) : Visible(id) /\ ~KnownIn(boardFile, progressFile, id)}
  /\ UNCHANGED <<worldVars, posts, faults, outputs, boardFile, progressFile>>

-----------------------------------------------------------------------------
(* Requests *)

Message(about, version) == [channel |-> home, about |-> about, shows |-> version]

\* createMessage returns an id, that of the last message; `dropped' are the
\* messages whose id it replaces.
Created(about, version, dropped) ==
  \/ /\ posts' = Append(posts, Message(about, version))
     /\ astray' = astray \union {id \in dropped : Visible(id)}
     /\ UNCHANGED faults
  \/ /\ Fault /\ Unheard
     /\ posts' = posts \o <<Message(about, version), Message(about, version)>>
     /\ astray' = astray \union {id \in dropped : Visible(id)} \union {Len(posts) + 1}

NotCreated(about, version) ==
  /\ Fault
  /\ \/ UNCHANGED <<posts, astray>>
     \/ /\ Unheard
        /\ posts' = Append(posts, Message(about, version))
        /\ astray' = astray \union {Len(posts) + 1}

Edited(id, version) ==
  /\ Visible(id)
  /\ posts' = [posts EXCEPT ![id].shows = version]
  /\ astray' = astray \ {id}
  /\ UNCHANGED faults

NotEdited(id, version) ==
  /\ Fault
  /\ \/ UNCHANGED <<posts, astray>>
     \/ /\ Unheard /\ Visible(id)
        /\ posts' = [posts EXCEPT ![id].shows = version]
        /\ astray' = astray \union {id}

-----------------------------------------------------------------------------
(* syncBoardOnce *)

Leave(state) == pc' = state /\ payload' = NoTasks

\* The in-progress messages are next if they are enabled.
LeaveBoard == Leave(IF "progress" \in outputs THEN "tasks" ELSE "idle")

\* A tick: the board is read if it is enabled; the tasks command may fail.
ReadBoard ==
  /\ pc = "idle"
  /\ IF "board" \in outputs
     THEN \/ pc' = "board" /\ payload' = work /\ UNCHANGED faults
          \/ Fault /\ LeaveBoard
     ELSE LeaveBoard /\ UNCHANGED faults
  /\ UNCHANGED <<worldVars, posts, restarts, outputs, home, boardVars, progressVars, astray>>

\* A save that fails goes unnoticed.
SaveBoard(id) ==
  /\ board' = [channel |-> home, id |-> id, hash |-> payload]
  /\ boardFile' \in {board', boardFile}

\* The message is there, in the configured channel as far as is known.
BoardTracked == board.id # 0 /\ board.channel = home

SkipBoard ==
  /\ pc = "board"
  /\ BoardTracked /\ board.hash = payload
  /\ LeaveBoard
  /\ UNCHANGED <<worldVars, posts, faults, restarts, outputs, home, boardVars, progressVars, astray>>

CreateBoard ==
  /\ pc = "board"
  /\ ~BoardTracked \/ (board.hash # payload /\ ~Visible(board.id))
  /\ LeaveBoard
  /\ \/ Created(Board, payload, {board.id}) /\ SaveBoard(Len(posts'))
     \/ NotCreated(Board, payload) /\ UNCHANGED boardVars
  /\ UNCHANGED <<worldVars, restarts, outputs, home, progressVars>>

EditBoard ==
  /\ pc = "board"
  /\ BoardTracked /\ board.hash # payload
  /\ LeaveBoard
  /\ \/ Edited(board.id, payload) /\ SaveBoard(board.id)
     \/ NotEdited(board.id, payload) /\ UNCHANGED boardVars
  /\ UNCHANGED <<worldVars, restarts, outputs, home, progressVars>>

-----------------------------------------------------------------------------
(* syncInProgressOnce *)

Tracked == {t \in Tasks : progress.messages[t].id # 0}
Moved == progress.channel \notin {NoChannel, home}

\* deleteTrackedMessages: what cannot be deleted is forgotten all the same.
MoveOut(t) ==
  /\ pc = "tasks"
  /\ Moved /\ t \in Tracked
  /\ LET id == progress.messages[t].id
     IN  \/ posts' = [posts EXCEPT ![id] = Deleted] /\ UNCHANGED <<faults, astray>>
         \/ Fault /\ Visible(id) /\ astray' = astray \union {id} /\ UNCHANGED posts
  /\ progress' = [progress EXCEPT !.messages[t] = Untracked]
  /\ UNCHANGED <<worldVars, restarts, pc, outputs, home, payload, boardVars, progressFile, changed, todo>>

UpToDate(t) ==
  /\ progress.channel = home
  /\ progress.messages[t].id # 0 /\ progress.messages[t].hash = work[t]

\* Of the tasks in progress those that are not skipped.
Pending == {t \in Tasks : work[t] # 0 /\ ~UpToDate(t)}

\* runInProgressJSON, or its failure.
ReadTasks ==
  /\ pc = "tasks"
  /\ Moved => Tracked = {}
  /\ progress' = [progress EXCEPT !.channel = IF Moved THEN home ELSE @]
  /\ \/ /\ pc' = "syncing" /\ payload' = work
        /\ todo' = Pending
        /\ UNCHANGED faults
     \/ pc' = "idle" /\ Fault /\ UNCHANGED <<payload, todo>>
  /\ UNCHANGED <<worldVars, posts, restarts, outputs, home, boardVars, progressFile, changed, astray>>

Track(t, id) ==
  /\ progress' = [progress EXCEPT !.messages[t] = [id |-> id, hash |-> payload[t]]]
  /\ changed' = TRUE
  /\ todo' = todo \ {t}
  /\ UNCHANGED <<pc, payload>>

\* An error ends the poll: nothing is saved, memory keeps what it has.
GiveUp ==
  /\ Leave("idle") /\ changed' = FALSE /\ todo' = {}
  /\ UNCHANGED progress

\* The task has a message in the configured channel as far as is known.
Editable(t) == t \in Tracked /\ progress.channel = home

\* A message is created for a task without one; after a 404 of an edit; and
\* for every task as long as the state names no channel.
Create(t) ==
  /\ pc = "syncing" /\ t \in todo
  /\ ~Editable(t) \/ ~Visible(progress.messages[t].id)
  /\ \/ Created(t, payload[t], {progress.messages[t].id}) /\ Track(t, Len(posts'))
     \/ NotCreated(t, payload[t]) /\ GiveUp
  /\ UNCHANGED <<worldVars, restarts, outputs, home, boardVars, progressFile>>

\* Mutant: a message that could not be edited is replaced, whatever the error.
EditOrReplace(t) ==
  /\ pc = "syncing" /\ t \in todo
  /\ Editable(t)
  /\ LET id == progress.messages[t].id
     IN  \/ Edited(id, payload[t]) /\ Track(t, id)
         \/ /\ Fault
            /\ posts' = Append(posts, Message(t, payload[t]))
            /\ Track(t, Len(posts'))
            /\ UNCHANGED astray
  /\ UNCHANGED <<worldVars, restarts, outputs, home, boardVars, progressFile>>

Edit(t) ==
  /\ pc = "syncing" /\ t \in todo
  /\ Editable(t)
  /\ LET id == progress.messages[t].id
     IN  \/ Edited(id, payload[t]) /\ Track(t, id)
         \/ NotEdited(id, payload[t]) /\ GiveUp
  /\ UNCHANGED <<worldVars, restarts, outputs, home, boardVars, progressFile>>

Done == {t \in Tracked : payload[t] = 0}

\* Mutant: a message that is gone already is an error.
SweepStrictly(t) ==
  /\ pc = "syncing" /\ todo = {} /\ t \in Done
  /\ LET id == progress.messages[t].id
     IN  \/ /\ Visible(id)
            /\ posts' = [posts EXCEPT ![id] = Deleted]
            /\ progress' = [progress EXCEPT !.messages[t] = Untracked]
            /\ changed' = TRUE
            /\ UNCHANGED <<faults, pc, payload, todo>>
         \/ ~Visible(id) /\ GiveUp /\ UNCHANGED <<posts, faults>>
  /\ UNCHANGED <<worldVars, restarts, outputs, home, boardVars, progressFile, astray>>

\* The message of a task that is no longer in progress is deleted, or was
\* before; with any other error the poll ends.
Sweep(t) ==
  /\ pc = "syncing" /\ todo = {} /\ t \in Done
  /\ LET id == progress.messages[t].id
     IN  \/ /\ posts' = [posts EXCEPT ![id] = Deleted]
            /\ progress' = [progress EXCEPT !.messages[t] = Untracked]
            /\ changed' = TRUE
            /\ UNCHANGED <<faults, pc, payload, todo>>
         \/ /\ Fault /\ GiveUp
            /\ \/ UNCHANGED posts
               \/ Unheard /\ posts' = [posts EXCEPT ![id] = Deleted]
  /\ UNCHANGED <<worldVars, restarts, outputs, home, boardVars, progressFile, astray>>

\* The end of the poll; a save may fail without a consequence in memory.
Finish ==
  /\ pc = "syncing" /\ todo = {} /\ Done = {}
  /\ progress' = [progress EXCEPT !.channel = home]
  /\ IF changed \/ progress.channel # home
     THEN \/ progressFile' = progress' /\ UNCHANGED faults
          \/ Fault /\ UNCHANGED progressFile
     ELSE UNCHANGED <<progressFile, faults>>
  /\ changed' = FALSE
  /\ Leave("idle")
  /\ UNCHANGED <<worldVars, posts, restarts, outputs, home, boardVars, todo, astray>>

Service ==
  \/ ReadBoard \/ SkipBoard \/ CreateBoard \/ EditBoard
  \/ ReadTasks \/ Finish
  \/ \E t \in Tasks : MoveOut(t) \/ Create(t) \/ Edit(t) \/ Sweep(t)

Next ==
  \/ Service \/ Restart
  \/ \E t \in Tasks : ChangeTask(t)
  \/ \E id \in 1..Len(posts) : DeleteByHand(id)

Spec == Init /\ [][Next]_vars

\* The ticker never stops, and every request and command has a time limit.
Fairness == WF_vars(Service)

FairSpec == Spec /\ Fairness

-----------------------------------------------------------------------------
(* Properties *)

\* Every message in sight of a reader is tracked, under its task, with what
\* it shows, in memory; none is forgotten, shown twice or outdated without
\* notice unless a crash, a lost answer, a failed deletion in the old channel
\* or a first poll that failed has hidden it from the service.
NothingForgotten ==
  \A id \in 1..Len(posts) : Visible(id) /\ id \notin astray => KnownIn(board, progress, id)

\* When the tasks rest, the service arrives at a state in which it tracks a
\* message for exactly the tasks in progress, all up to date, and the board,
\* whatever failed, was deleted or moved before.
Settles ==
  <>[](/\ "progress" \in outputs =>
            \A t \in Tasks : IF work[t] = 0 THEN t \notin Tracked ELSE UpToDate(t)
       /\ "board" \in outputs => BoardTracked /\ board.hash = work)

-----------------------------------------------------------------------------
(* The inductive invariant behind NothingForgotten *)

Messages ==
  [channel : Channels, about : Tasks \union {Board}, shows : (0..MaxVersion) \union Works]

\* What the state b, p tracks, it tracks under what the message is about.
PointsRight(ps, b, p) ==
  /\ b.id \in 0..Len(ps)
  /\ b.id # 0 /\ ps[b.id] # Deleted => ps[b.id].about = Board
  /\ \A t \in Tasks :
       LET id == p.messages[t].id
       IN  /\ id \in 0..Len(ps)
           /\ id # 0 /\ ps[id] # Deleted => ps[id].about = t

BoardStates == [channel : Channels \union {NoChannel}, id : Nat, hash : Works]
ProgressStates ==
  [channel : Channels \union {NoChannel},
   messages : [Tasks -> [id : Nat, hash : 0..MaxVersion]]]

Shape ==
  /\ work \in Works /\ payload \in Works /\ home \in Channels
  /\ posts \in Seq(Messages \union {Deleted})
  /\ board \in BoardStates /\ boardFile \in BoardStates
  /\ progress \in ProgressStates /\ progressFile \in ProgressStates
  /\ todo \subseteq Tasks

TrackInv ==
  /\ Shape
  /\ PointsRight(posts, board, progress)
  /\ PointsRight(posts, boardFile, progressFile)
  /\ NothingForgotten
=============================================================================
