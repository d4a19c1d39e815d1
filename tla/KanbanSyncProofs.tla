-------------------------- MODULE KanbanSyncProofs --------------------------
(***************************************************************************)
(* Proof of NothingForgotten for any number of tasks, versions, channels,  *)
(* faults and restarts.                                                    *)
(***************************************************************************)
EXTENDS KanbanSync, TLAPS

\* ps2 is ps with more messages, and some of them deleted or edited: what is
\* still there is about what it was about.
Extends(ps, ps2) ==
  /\ Len(ps) <= Len(ps2)
  /\ \A id \in 1..Len(ps) : ps2[id] # Deleted => ps[id] # Deleted /\ ps2[id].about = ps[id].about

\* A state that tracks messages rightly still does when the messages change.
LEMMA PointsKept ==
  ASSUME NEW ps \in Seq(Messages \union {Deleted}), NEW ps2 \in Seq(Messages \union {Deleted}),
         NEW b \in BoardStates, NEW p \in ProgressStates,
         PointsRight(ps, b, p), Extends(ps, ps2)
  PROVE  PointsRight(ps2, b, p)
<1>1. Len(ps) \in Nat /\ Len(ps2) \in Nat
  OBVIOUS
<1>2. \A id \in 0..Len(ps) : id # 0 => id \in 1..Len(ps)
  BY <1>1
<1>3. \A id \in 0..Len(ps) : id \in 0..Len(ps2)
  BY <1>1 DEF Extends
<1> QED
  BY <1>1, <1>2, <1>3 DEF PointsRight, Extends

\* Messages are records, other than Deleted.
LEMMA MessageType ==
  ASSUME Shape, NEW about \in Tasks \union {Board}, NEW version \in (0..MaxVersion) \union Works
  PROVE  /\ Message(about, version) \in Messages
         /\ Message(about, version).about = about
         /\ Message(about, version).shows = version
BY DEF Shape, Message, Messages

\* The mark of a deleted message is not a message.
LEMMA DeletedNoMessage == Deleted \notin Messages
BY KanbanAssumption DEF Messages, Works

\* Appending a message.
LEMMA AppendExtends ==
  ASSUME NEW ps \in Seq(Messages \union {Deleted}), NEW m \in Messages
  PROVE  /\ Append(ps, m) \in Seq(Messages \union {Deleted})
         /\ Extends(ps, Append(ps, m))
         /\ Len(Append(ps, m)) = Len(ps) + 1
         /\ \A id \in 1..Len(ps) : Append(ps, m)[id] = ps[id]
         /\ Append(ps, m)[Len(ps) + 1] = m
BY DEF Extends

\* Two copies of a message.
LEMMA TwiceExtends ==
  ASSUME NEW ps \in Seq(Messages \union {Deleted}), NEW m \in Messages
  PROVE  LET ps2 == ps \o <<m, m>>
         IN  /\ ps2 \in Seq(Messages \union {Deleted})
             /\ Extends(ps, ps2)
             /\ Len(ps2) = Len(ps) + 2
             /\ \A id \in 1..Len(ps) : ps2[id] = ps[id]
             /\ ps2[Len(ps) + 1] = m /\ ps2[Len(ps) + 2] = m
<1>1. <<m, m>> \in Seq(Messages \union {Deleted})
  OBVIOUS
<1> QED
  BY <1>1 DEF Extends

\* Deleting a message.
LEMMA DeleteExtends ==
  ASSUME NEW ps \in Seq(Messages \union {Deleted}), NEW id \in 1..Len(ps)
  PROVE  LET ps2 == [ps EXCEPT ![id] = Deleted]
         IN  /\ ps2 \in Seq(Messages \union {Deleted})
             /\ Extends(ps, ps2)
             /\ Len(ps2) = Len(ps)
             /\ \A i \in 1..Len(ps) : ps2[i] = IF i = id THEN Deleted ELSE ps[i]
BY DEF Extends

\* A message with another content.
LEMMA EditType ==
  ASSUME NEW m \in Messages, NEW version \in (0..MaxVersion) \union Works
  PROVE  /\ [m EXCEPT !.shows = version] \in Messages
         /\ [m EXCEPT !.shows = version].about = m.about
         /\ [m EXCEPT !.shows = version].shows = version
BY DEF Messages

\* Initially nothing was sent.
LEMMA TrackInit == Init => TrackInv
<1> SUFFICES ASSUME Init PROVE TrackInv
  OBVIOUS
<1>1. NoTasks \in Works
  BY KanbanAssumption DEF NoTasks, Works
<1>2. NoBoard \in BoardStates /\ NoProgress \in ProgressStates
  BY <1>1, KanbanAssumption DEF NoBoard, NoProgress, BoardStates, ProgressStates, Untracked
<1>3. Shape
  BY <1>1, <1>2 DEF Init, Shape
<1>4. PointsRight(posts, NoBoard, NoProgress)
  BY DEF Init, PointsRight, NoBoard, NoProgress, Untracked
<1>5. NothingForgotten
  BY DEF Init, NothingForgotten
<1> QED
  BY <1>3, <1>4, <1>5 DEF TrackInv, Init

-----------------------------------------------------------------------------
(* What the requests do to the messages in sight of the service *)

InSight(ps, stray, id) == id \in 1..Len(ps) /\ ps[id] # Deleted /\ id \notin stray

\* A new message is the last one; the others in sight were so before, and are
\* not the one whose place it takes.
LEMMA CreatedFacts ==
  ASSUME Shape, NEW about \in Tasks \union {Board}, NEW version \in (0..MaxVersion) \union Works,
         NEW old, Created(about, version, {old})
  PROVE  /\ posts' \in Seq(Messages \union {Deleted}) /\ Extends(posts, posts')
         /\ Len(posts') > Len(posts)
         /\ posts'[Len(posts')] # Deleted
         /\ posts'[Len(posts')].about = about /\ posts'[Len(posts')].shows = version
         /\ \A id : InSight(posts', astray', id) /\ id # Len(posts') =>
              InSight(posts, astray, id) /\ posts'[id] = posts[id] /\ id # old
<1> DEFINE m == Message(about, version)
<1>1. m \in Messages /\ m.about = about /\ m.shows = version /\ m # Deleted
  BY MessageType, DeletedNoMessage
<1>2. posts \in Seq(Messages \union {Deleted}) /\ Len(posts) \in Nat
  BY DEF Shape
<1> HIDE DEF m
<1>3. CASE posts' = Append(posts, m) /\ astray' = astray \union {id \in {old} : Visible(id)}
  <2>1. /\ posts' \in Seq(Messages \union {Deleted}) /\ Extends(posts, posts')
        /\ Len(posts') = Len(posts) + 1
        /\ \A id \in 1..Len(posts) : posts'[id] = posts[id]
        /\ posts'[Len(posts) + 1] = m
    BY <1>1, <1>2, <1>3, AppendExtends
  <2> QED
    BY <1>1, <1>2, <1>3, <2>1 DEF InSight, Visible
<1>4. CASE /\ posts' = posts \o <<m, m>>
           /\ astray' = astray \union {id \in {old} : Visible(id)} \union {Len(posts) + 1}
  <2>1. /\ posts' \in Seq(Messages \union {Deleted}) /\ Extends(posts, posts')
        /\ Len(posts') = Len(posts) + 2
        /\ \A id \in 1..Len(posts) : posts'[id] = posts[id]
        /\ posts'[Len(posts) + 2] = m
    BY <1>1, <1>2, <1>4, TwiceExtends
  <2> QED
    BY <1>1, <1>2, <1>4, <2>1 DEF InSight, Visible
<1> QED
  BY <1>3, <1>4 DEF Created, m

\* A creation that is reported as failed adds nothing to what is in sight.
LEMMA NotCreatedFacts ==
  ASSUME Shape, NEW about \in Tasks \union {Board}, NEW version \in (0..MaxVersion) \union Works,
         NotCreated(about, version)
  PROVE  /\ posts' \in Seq(Messages \union {Deleted}) /\ Extends(posts, posts')
         /\ \A id : InSight(posts', astray', id) =>
              InSight(posts, astray, id) /\ posts'[id] = posts[id]
<1> DEFINE m == Message(about, version)
<1>1. m \in Messages
  BY MessageType
<1>2. posts \in Seq(Messages \union {Deleted}) /\ Len(posts) \in Nat
  BY DEF Shape
<1> HIDE DEF m
<1>3. CASE UNCHANGED <<posts, astray>>
  BY <1>2, <1>3 DEF Extends, InSight
<1>4. CASE posts' = Append(posts, m) /\ astray' = astray \union {Len(posts) + 1}
  <2>1. /\ posts' \in Seq(Messages \union {Deleted}) /\ Extends(posts, posts')
        /\ Len(posts') = Len(posts) + 1
        /\ \A id \in 1..Len(posts) : posts'[id] = posts[id]
    BY <1>1, <1>2, <1>4, AppendExtends
  <2> QED
    BY <1>2, <1>4, <2>1 DEF InSight
<1> QED
  BY <1>3, <1>4 DEF NotCreated, m

\* An edit changes what one message shows.
LEMMA EditedFacts ==
  ASSUME Shape, NEW id \in 1..Len(posts), NEW version \in (0..MaxVersion) \union Works,
         Edited(id, version)
  PROVE  /\ posts' \in Seq(Messages \union {Deleted}) /\ Extends(posts, posts')
         /\ Len(posts') = Len(posts) /\ posts[id] # Deleted
         /\ posts'[id].about = posts[id].about /\ posts'[id].shows = version
         /\ \A i : InSight(posts', astray', i) /\ i # id =>
              InSight(posts, astray, i) /\ posts'[i] = posts[i]
<1> DEFINE m == [posts[id] EXCEPT !.shows = version]
<1>1. posts \in Seq(Messages \union {Deleted}) /\ posts[id] # Deleted
  BY DEF Shape, Edited, Visible
<1>2. m \in Messages /\ m.about = posts[id].about /\ m.shows = version
  <2>1. posts[id] \in Messages
    BY <1>1
  <2> QED
    BY <2>1, EditType
<1>3. posts' = [posts EXCEPT ![id] = m]
  BY DEF Edited
<1> HIDE DEF m
<1>4. /\ posts' \in Seq(Messages \union {Deleted}) /\ Extends(posts, posts')
      /\ Len(posts') = Len(posts)
      /\ \A i \in 1..Len(posts) : i # id => posts'[i] = posts[i]
      /\ posts'[id].about = posts[id].about /\ posts'[id].shows = version
  BY <1>1, <1>2, <1>3 DEF Extends
<1> QED
  BY <1>1, <1>4 DEF Edited, InSight

\* An edit that is reported as failed hides the message if it was done.
LEMMA NotEditedFacts ==
  ASSUME Shape, NEW id \in 1..Len(posts), NEW version \in (0..MaxVersion) \union Works,
         NotEdited(id, version)
  PROVE  /\ posts' \in Seq(Messages \union {Deleted}) /\ Extends(posts, posts')
         /\ \A i : InSight(posts', astray', i) =>
              InSight(posts, astray, i) /\ posts'[i] = posts[i]
<1>1. posts \in Seq(Messages \union {Deleted})
  BY DEF Shape
<1>2. CASE UNCHANGED <<posts, astray>>
  BY <1>1, <1>2 DEF Extends, InSight
<1>3. CASE /\ Visible(id)
           /\ posts' = [posts EXCEPT ![id].shows = version]
           /\ astray' = astray \union {id}
  <2> DEFINE m == [posts[id] EXCEPT !.shows = version]
  <2>1. posts[id] # Deleted /\ posts[id] \in Messages
    BY <1>1, <1>3 DEF Visible
  <2>2. m \in Messages /\ m.about = posts[id].about
    BY <2>1, EditType
  <2>3. posts' = [posts EXCEPT ![id] = m]
    BY <1>3
  <2> HIDE DEF m
  <2>4. /\ posts' \in Seq(Messages \union {Deleted}) /\ Extends(posts, posts')
        /\ Len(posts') = Len(posts)
        /\ \A i \in 1..Len(posts) : i # id => posts'[i] = posts[i]
    BY <1>1, <2>1, <2>2, <2>3 DEF Extends
  <2> QED
    BY <1>3, <2>4 DEF InSight
<1> QED
  BY <1>2, <1>3 DEF NotEdited

\* A deletion takes one message out of sight.
LEMMA DeletedFacts ==
  ASSUME Shape, NEW id \in 1..Len(posts), posts' = [posts EXCEPT ![id] = Deleted]
  PROVE  /\ posts' \in Seq(Messages \union {Deleted}) /\ Extends(posts, posts')
         /\ \A i : InSight(posts', astray, i) =>
              i # id /\ InSight(posts, astray, i) /\ posts'[i] = posts[i]
<1>1. posts \in Seq(Messages \union {Deleted})
  BY DEF Shape
<1>2. /\ posts' \in Seq(Messages \union {Deleted}) /\ Extends(posts, posts')
      /\ Len(posts') = Len(posts)
      /\ \A i \in 1..Len(posts) : posts'[i] = IF i = id THEN Deleted ELSE posts[i]
  BY <1>1, DeleteExtends
<1> QED
  BY <1>2 DEF InSight

-----------------------------------------------------------------------------
(* The actions *)

\* What memory tracks is a message number.
LEMMA TrackedIds ==
  ASSUME TrackInv
  PROVE  /\ posts \in Seq(Messages \union {Deleted}) /\ Len(posts) \in Nat
         /\ board.id \in 0..Len(posts)
         /\ \A t \in Tasks : progress.messages[t].id \in 0..Len(posts)
BY DEF TrackInv, Shape, PointsRight

\* A step with all its parts.
LEMMA StepParts ==
  ASSUME Shape', PointsRight(posts', board', progress'),
         PointsRight(posts', boardFile', progressFile'),
         \A id : InSight(posts', astray', id) => KnownIn(board, progress, id)'
  PROVE  TrackInv'
BY DEF TrackInv, NothingForgotten, InSight, Visible

\* A step that does not touch what memory tracks, nor the files.
LEMMA QuietStep ==
  ASSUME TrackInv, Shape', Extends(posts, posts'),
         UNCHANGED <<board, boardFile, progressFile>>,
         progress'.messages = progress.messages,
         \A id : InSight(posts', astray', id) =>
           InSight(posts, astray, id) /\ posts'[id] = posts[id]
  PROVE  TrackInv'
<1>1. Shape /\ PointsRight(posts, board, progress) /\ PointsRight(posts, boardFile, progressFile)
  BY DEF TrackInv
<1>2. PointsRight(posts, board', progress')
  BY <1>1 DEF PointsRight
<1>3. PointsRight(posts', board', progress') /\ PointsRight(posts', boardFile', progressFile')
  BY <1>1, <1>2, PointsKept DEF Shape
<1>4. ASSUME NEW id, InSight(posts', astray', id) PROVE KnownIn(board, progress, id)'
  <2>1. InSight(posts, astray, id) /\ posts'[id] = posts[id]
    BY <1>4
  <2>2. KnownIn(board, progress, id)
    BY <2>1 DEF TrackInv, NothingForgotten, InSight, Visible
  <2> QED
    BY <2>1, <2>2 DEF KnownIn
<1> QED
  BY <1>3, <1>4, StepParts

\* The board is created, or its creation reported as failed.
LEMMA CreateBoardStep == TrackInv /\ CreateBoard => TrackInv'
<1> SUFFICES ASSUME TrackInv, CreateBoard PROVE TrackInv'
  OBVIOUS
<1>1. NoTasks \in Works
  BY KanbanAssumption DEF NoTasks, Works
<1>2. Shape /\ payload \in (0..MaxVersion) \union Works /\ payload \in Works
  BY DEF TrackInv, Shape
<1>3. CASE Created(Board, payload, {board.id}) /\ SaveBoard(Len(posts'))
  <2>1. /\ posts' \in Seq(Messages \union {Deleted}) /\ Extends(posts, posts')
        /\ Len(posts') > Len(posts)
        /\ posts'[Len(posts')] # Deleted
        /\ posts'[Len(posts')].about = Board /\ posts'[Len(posts')].shows = payload
        /\ \A id : InSight(posts', astray', id) /\ id # Len(posts') =>
             InSight(posts, astray, id) /\ posts'[id] = posts[id] /\ id # board.id
    BY <1>2, <1>3, CreatedFacts
  <2>2. Shape'
    BY <1>1, <1>2, <1>3, <2>1 DEF Shape, CreateBoard, SaveBoard, BoardStates, LeaveBoard, Leave, worldVars, progressVars
  <2>3. board'.id = Len(posts') /\ board'.hash = payload /\ UNCHANGED <<progress, progressFile>>
    BY <1>3 DEF SaveBoard, CreateBoard, progressVars
  <2>4. PointsRight(posts', board, progress) /\ PointsRight(posts', boardFile, progressFile)
    BY <1>2, <2>1, PointsKept DEF Shape, TrackInv
  <2>5. PointsRight(posts', board', progress') /\ PointsRight(posts', board', progressFile')
    BY <2>1, <2>3, <2>4 DEF PointsRight
  <2>6. PointsRight(posts', boardFile', progressFile')
    BY <1>3, <2>3, <2>4, <2>5 DEF SaveBoard
  <2>7. ASSUME NEW id, InSight(posts', astray', id) PROVE KnownIn(board, progress, id)'
    <3>1. CASE id = Len(posts')
      BY <2>1, <2>3, <3>1 DEF KnownIn
    <3>2. CASE id # Len(posts')
      <4>1. InSight(posts, astray, id) /\ posts'[id] = posts[id] /\ id # board.id
        BY <2>1, <2>7, <3>2
      <4>2. KnownIn(board, progress, id)
        BY <4>1 DEF TrackInv, NothingForgotten, InSight, Visible
      <4> QED
        BY <2>3, <4>1, <4>2 DEF KnownIn
    <3> QED
      BY <3>1, <3>2
  <2> QED
    BY <2>2, <2>5, <2>6, <2>7, StepParts
<1>4. CASE NotCreated(Board, payload) /\ UNCHANGED boardVars
  <2>1. /\ posts' \in Seq(Messages \union {Deleted}) /\ Extends(posts, posts')
        /\ \A id : InSight(posts', astray', id) =>
             InSight(posts, astray, id) /\ posts'[id] = posts[id]
    BY <1>2, <1>4, NotCreatedFacts
  <2>2. Shape' /\ UNCHANGED <<board, boardFile, progress, progressFile>>
    BY <1>1, <1>2, <1>4, <2>1 DEF Shape, CreateBoard, LeaveBoard, Leave, worldVars, boardVars, progressVars
  <2> QED
    BY <2>1, <2>2, QuietStep
<1> QED
  BY <1>3, <1>4 DEF CreateBoard

\* The board is edited.
LEMMA EditBoardStep == TrackInv /\ EditBoard => TrackInv'
<1> SUFFICES ASSUME TrackInv, EditBoard PROVE TrackInv'
  OBVIOUS
<1>1. NoTasks \in Works
  BY KanbanAssumption DEF NoTasks, Works
<1>2. Shape /\ payload \in (0..MaxVersion) \union Works /\ payload \in Works
  BY DEF TrackInv, Shape
<1>3. board.id \in 1..Len(posts)
  BY TrackedIds DEF EditBoard, BoardTracked
<1>4. CASE Edited(board.id, payload) /\ SaveBoard(board.id)
  <2>1. /\ posts' \in Seq(Messages \union {Deleted}) /\ Extends(posts, posts')
        /\ Len(posts') = Len(posts) /\ posts[board.id] # Deleted
        /\ posts'[board.id].about = posts[board.id].about /\ posts'[board.id].shows = payload
        /\ \A i : InSight(posts', astray', i) /\ i # board.id =>
             InSight(posts, astray, i) /\ posts'[i] = posts[i]
    BY <1>2, <1>3, <1>4, EditedFacts
  <2>2. Shape'
    BY <1>1, <1>2, <1>3, <1>4, <2>1 DEF Shape, EditBoard, SaveBoard, BoardStates, LeaveBoard, Leave, worldVars, progressVars
  <2>3. board'.id = board.id /\ board'.hash = payload /\ UNCHANGED <<progress, progressFile>>
    BY <1>4 DEF SaveBoard, EditBoard, progressVars
  <2>4. PointsRight(posts', board, progress) /\ PointsRight(posts', boardFile, progressFile)
    BY <1>2, <2>1, PointsKept DEF Shape, TrackInv
  <2>5. PointsRight(posts', board', progress') /\ PointsRight(posts', board', progressFile')
    BY <2>1, <2>3, <2>4 DEF PointsRight
  <2>6. PointsRight(posts', boardFile', progressFile')
    BY <1>4, <2>3, <2>4, <2>5 DEF SaveBoard
  <2>7. posts'[board.id].about = Board
    BY <1>3, <2>1 DEF TrackInv, PointsRight
  <2>8. ASSUME NEW id, InSight(posts', astray', id) PROVE KnownIn(board, progress, id)'
    <3>1. CASE id = board.id
      BY <2>1, <2>3, <2>7, <3>1 DEF KnownIn
    <3>2. CASE id # board.id
      <4>1. InSight(posts, astray, id) /\ posts'[id] = posts[id]
        BY <2>1, <2>8, <3>2
      <4>2. KnownIn(board, progress, id)
        BY <4>1 DEF TrackInv, NothingForgotten, InSight, Visible
      <4> QED
        BY <2>3, <3>2, <4>1, <4>2 DEF KnownIn
    <3> QED
      BY <3>1, <3>2
  <2> QED
    BY <2>2, <2>5, <2>6, <2>8, StepParts
<1>5. CASE NotEdited(board.id, payload) /\ UNCHANGED boardVars
  <2>1. /\ posts' \in Seq(Messages \union {Deleted}) /\ Extends(posts, posts')
        /\ \A id : InSight(posts', astray', id) =>
             InSight(posts, astray, id) /\ posts'[id] = posts[id]
    BY <1>2, <1>3, <1>5, NotEditedFacts
  <2>2. Shape' /\ UNCHANGED <<board, boardFile, progress, progressFile>>
    BY <1>1, <1>2, <1>5, <2>1 DEF Shape, EditBoard, LeaveBoard, Leave, worldVars, boardVars, progressVars
  <2> QED
    BY <2>1, <2>2, QuietStep
<1> QED
  BY <1>4, <1>5 DEF EditBoard

\* The record of one task changes.
TracksOne(p, p2, t, r) ==
  /\ p2 \in ProgressStates
  /\ p2.messages[t] = r
  /\ \A u \in Tasks : u # t => p2.messages[u] = p.messages[u]

\* Assigning one record of the map is such a change.
LEMMA TrackFacts ==
  ASSUME Shape, NEW t \in Tasks, NEW r \in [id : Nat, hash : 0..MaxVersion],
         progress' = [progress EXCEPT !.messages[t] = r]
  PROVE  TracksOne(progress, progress', t, r)
<1>1. progress \in ProgressStates
  BY DEF Shape
<1>2. progress' = [progress EXCEPT !.messages = [progress.messages EXCEPT ![t] = r]]
  OBVIOUS
<1>3. [progress.messages EXCEPT ![t] = r] \in [Tasks -> [id : Nat, hash : 0..MaxVersion]]
  BY <1>1 DEF ProgressStates
<1>4. progress' \in ProgressStates /\ progress'.messages = [progress.messages EXCEPT ![t] = r]
  BY <1>1, <1>2, <1>3 DEF ProgressStates
<1>5. progress'.messages[t] = r /\ \A u \in Tasks : u # t => progress'.messages[u] = progress.messages[u]
  BY <1>1, <1>4 DEF ProgressStates
<1> QED
  BY <1>4, <1>5 DEF TracksOne

\* A step after which the task t is tracked with r, or not at all.
LEMMA TrackStep ==
  ASSUME TrackInv, Shape', Extends(posts, posts'),
         UNCHANGED <<board, boardFile, progressFile>>,
         NEW t \in Tasks, NEW r, TracksOne(progress, progress', t, r),
         r.id \in 0..Len(posts'),
         r.id # 0 /\ posts'[r.id] # Deleted => posts'[r.id].about = t,
         \A id : InSight(posts', astray', id) =>
           \/ r.id = id /\ posts'[id].about = t /\ r = [id |-> id, hash |-> posts'[id].shows]
           \/ /\ InSight(posts, astray, id) /\ posts'[id] = posts[id]
              /\ id # progress.messages[t].id
  PROVE  TrackInv'
<1>1. Shape /\ PointsRight(posts, board, progress) /\ PointsRight(posts, boardFile, progressFile)
  BY DEF TrackInv
<1>2. PointsRight(posts', board, progress) /\ PointsRight(posts', boardFile, progressFile)
  BY <1>1, PointsKept DEF Shape
<1>3. PointsRight(posts', board', progress')
  BY <1>2 DEF PointsRight, TracksOne
<1>4. ASSUME NEW id, InSight(posts', astray', id) PROVE KnownIn(board, progress, id)'
  <2>1. CASE r.id = id /\ posts'[id].about = t /\ r = [id |-> id, hash |-> posts'[id].shows]
    BY <2>1, KanbanAssumption DEF KnownIn, TracksOne
  <2>2. CASE /\ InSight(posts, astray, id) /\ posts'[id] = posts[id]
             /\ id # progress.messages[t].id
    <3>1. KnownIn(board, progress, id)
      BY <2>2 DEF TrackInv, NothingForgotten, InSight, Visible
    <3>2. CASE posts[id].about = Board
      BY <2>2, <3>1, <3>2 DEF KnownIn
    <3>3. CASE posts[id].about # Board
      <4>1. posts[id].about \in Tasks
        <5>1. posts[id] \in Messages
          BY <1>1, <2>2 DEF Shape, InSight
        <5> QED
          BY <3>3, <5>1 DEF Messages
      <4>2. posts[id].about # t
        BY <2>2, <3>1, <3>3 DEF KnownIn
      <4> QED
        BY <2>2, <3>1, <3>3, <4>1, <4>2 DEF KnownIn, TracksOne
    <3> QED
      BY <3>2, <3>3
  <2> QED
    BY <1>4, <2>1, <2>2
<1> QED
  BY <1>2, <1>3, <1>4, StepParts

\* The message of a task is created.
LEMMA CreateStep == ASSUME TrackInv, NEW t \in Tasks, Create(t) PROVE TrackInv'
<1>1. NoTasks \in Works
  BY KanbanAssumption DEF NoTasks, Works
<1>2. Shape /\ payload[t] \in (0..MaxVersion) \union Works /\ payload[t] \in 0..MaxVersion
  BY DEF TrackInv, Shape, Works
<1> DEFINE old == progress.messages[t].id
<1>3. CASE Created(t, payload[t], {old}) /\ Track(t, Len(posts'))
  <2> DEFINE r == [id |-> Len(posts'), hash |-> payload[t]]
  <2>1. /\ posts' \in Seq(Messages \union {Deleted}) /\ Extends(posts, posts')
        /\ Len(posts') > Len(posts)
        /\ posts'[Len(posts')] # Deleted
        /\ posts'[Len(posts')].about = t /\ posts'[Len(posts')].shows = payload[t]
        /\ \A id : InSight(posts', astray', id) /\ id # Len(posts') =>
             InSight(posts, astray, id) /\ posts'[id] = posts[id] /\ id # old
    BY <1>2, <1>3, CreatedFacts
  <2>2. r \in [id : Nat, hash : 0..MaxVersion]
    BY <1>2, <2>1
  <2>3. TracksOne(progress, progress', t, r)
    BY <1>2, <1>3, <2>2, TrackFacts DEF Track
  <2>4. Shape' /\ UNCHANGED <<board, boardFile, progressFile>>
    BY <1>2, <1>3, <2>1, <2>3 DEF Shape, Create, Track, TracksOne, worldVars, boardVars
  <2> QED
    BY <2>1, <2>2, <2>3, <2>4, TrackStep
<1>4. CASE NotCreated(t, payload[t]) /\ GiveUp
  <2>1. /\ posts' \in Seq(Messages \union {Deleted}) /\ Extends(posts, posts')
        /\ \A id : InSight(posts', astray', id) =>
             InSight(posts, astray, id) /\ posts'[id] = posts[id]
    BY <1>2, <1>4, NotCreatedFacts
  <2>2. Shape' /\ UNCHANGED <<board, boardFile, progress, progressFile>>
    BY <1>1, <1>2, <1>4, <2>1 DEF Shape, Create, GiveUp, Leave, worldVars, boardVars
  <2> QED
    BY <2>1, <2>2, QuietStep
<1> QED
  BY <1>3, <1>4 DEF Create

\* The message of a task is edited.
LEMMA EditStep == ASSUME TrackInv, NEW t \in Tasks, Edit(t) PROVE TrackInv'
<1>1. NoTasks \in Works
  BY KanbanAssumption DEF NoTasks, Works
<1>2. Shape /\ payload[t] \in (0..MaxVersion) \union Works /\ payload[t] \in 0..MaxVersion
  BY DEF TrackInv, Shape, Works
<1> DEFINE id == progress.messages[t].id
<1>3. id \in 1..Len(posts)
  BY TrackedIds DEF Edit, Editable, Tracked
<1>4. CASE Edited(id, payload[t]) /\ Track(t, id)
  <2> DEFINE r == [id |-> id, hash |-> payload[t]]
  <2>1. /\ posts' \in Seq(Messages \union {Deleted}) /\ Extends(posts, posts')
        /\ Len(posts') = Len(posts) /\ posts[id] # Deleted
        /\ posts'[id].about = posts[id].about /\ posts'[id].shows = payload[t]
        /\ \A i : InSight(posts', astray', i) /\ i # id =>
             InSight(posts, astray, i) /\ posts'[i] = posts[i]
    BY <1>2, <1>3, <1>4, EditedFacts
  <2>2. r \in [id : Nat, hash : 0..MaxVersion]
    BY <1>2, <1>3
  <2>3. TracksOne(progress, progress', t, r)
    BY <1>2, <1>4, <2>2, TrackFacts DEF Track
  <2>4. Shape' /\ UNCHANGED <<board, boardFile, progressFile>>
    BY <1>2, <1>4, <2>1, <2>3 DEF Shape, Edit, Track, TracksOne, worldVars, boardVars
  <2>5. posts'[id].about = t
    BY <1>3, <2>1 DEF TrackInv, PointsRight
  <2> QED
    BY <1>3, <2>1, <2>2, <2>3, <2>4, <2>5, TrackStep
<1>5. CASE NotEdited(id, payload[t]) /\ GiveUp
  <2>1. /\ posts' \in Seq(Messages \union {Deleted}) /\ Extends(posts, posts')
        /\ \A i : InSight(posts', astray', i) =>
             InSight(posts, astray, i) /\ posts'[i] = posts[i]
    BY <1>2, <1>3, <1>5, NotEditedFacts
  <2>2. Shape' /\ UNCHANGED <<board, boardFile, progress, progressFile>>
    BY <1>1, <1>2, <1>5, <2>1 DEF Shape, Edit, GiveUp, Leave, worldVars, boardVars
  <2> QED
    BY <2>1, <2>2, QuietStep
<1> QED
  BY <1>4, <1>5 DEF Edit

\* The message of a task that is over is deleted.
LEMMA SweepStep == ASSUME TrackInv, NEW t \in Tasks, Sweep(t) PROVE TrackInv'
<1>1. NoTasks \in Works
  BY KanbanAssumption DEF NoTasks, Works
<1>2. Shape
  BY DEF TrackInv
<1> DEFINE id == progress.messages[t].id
<1>3. id \in 1..Len(posts)
  BY TrackedIds DEF Sweep, Done, Tracked
<1>4. UNCHANGED <<astray, board, boardFile, progressFile, work, home>>
  BY DEF Sweep, worldVars, boardVars
<1>5. CASE /\ posts' = [posts EXCEPT ![id] = Deleted]
           /\ progress' = [progress EXCEPT !.messages[t] = Untracked]
           /\ UNCHANGED <<payload, todo>>
  <2>1. /\ posts' \in Seq(Messages \union {Deleted}) /\ Extends(posts, posts')
        /\ \A i : InSight(posts', astray, i) =>
             i # id /\ InSight(posts, astray, i) /\ posts'[i] = posts[i]
    BY <1>2, <1>3, <1>5, DeletedFacts
  <2>2. TracksOne(progress, progress', t, Untracked)
    BY <1>2, <1>5, KanbanAssumption, TrackFacts DEF Untracked
  <2>3. Shape'
    BY <1>2, <1>4, <1>5, <2>1, <2>2 DEF Shape, TracksOne
  <2> QED
    BY <1>4, <2>1, <2>2, <2>3, TrackStep DEF Untracked
<1>6. CASE GiveUp /\ UNCHANGED posts
  <2>1. Shape'
    BY <1>1, <1>2, <1>4, <1>6 DEF Shape, GiveUp, Leave
  <2>2. Extends(posts, posts') /\ progress' = progress
    BY <1>2, <1>6 DEF Extends, GiveUp, Shape
  <2> QED
    BY <1>4, <1>6, <2>1, <2>2, QuietStep
<1>7. CASE GiveUp /\ posts' = [posts EXCEPT ![id] = Deleted]
  <2>1. /\ posts' \in Seq(Messages \union {Deleted}) /\ Extends(posts, posts')
        /\ \A i : InSight(posts', astray, i) =>
             i # id /\ InSight(posts, astray, i) /\ posts'[i] = posts[i]
    BY <1>2, <1>3, <1>7, DeletedFacts
  <2>2. Shape' /\ progress' = progress
    BY <1>1, <1>2, <1>4, <1>7, <2>1 DEF Shape, GiveUp, Leave
  <2> QED
    BY <1>4, <2>1, <2>2, QuietStep
<1> QED
  BY <1>5, <1>6, <1>7 DEF Sweep

\* A message in the old channel is deleted, or its deletion fails.
LEMMA MoveOutStep == ASSUME TrackInv, NEW t \in Tasks, MoveOut(t) PROVE TrackInv'
<1>1. Shape
  BY DEF TrackInv
<1> DEFINE id == progress.messages[t].id
<1>2. id \in 1..Len(posts)
  BY TrackedIds DEF MoveOut, Tracked
<1>3. UNCHANGED <<board, boardFile, progressFile, work, home, payload, todo>>
  BY DEF MoveOut, worldVars, boardVars
<1>4. TracksOne(progress, progress', t, Untracked)
  <2>1. progress' = [progress EXCEPT !.messages[t] = Untracked]
    BY DEF MoveOut
  <2> QED
    BY <1>1, <2>1, KanbanAssumption, TrackFacts DEF Untracked
<1>5. CASE posts' = [posts EXCEPT ![id] = Deleted] /\ UNCHANGED astray
  <2>1. /\ posts' \in Seq(Messages \union {Deleted}) /\ Extends(posts, posts')
        /\ \A i : InSight(posts', astray, i) =>
             i # id /\ InSight(posts, astray, i) /\ posts'[i] = posts[i]
    BY <1>1, <1>2, <1>5, DeletedFacts
  <2>2. Shape'
    BY <1>1, <1>3, <1>4, <2>1 DEF Shape, TracksOne
  <2>3. Untracked.id = 0 /\ 0 \in 0..Len(posts')
    BY <2>1 DEF Untracked, Extends
  <2>4. \A i : InSight(posts', astray', i) =>
           \/ Untracked.id = i /\ posts'[i].about = t /\ Untracked = [id |-> i, hash |-> posts'[i].shows]
           \/ InSight(posts, astray, i) /\ posts'[i] = posts[i] /\ i # progress.messages[t].id
    BY <1>5, <2>1
  <2> HIDE DEF id
  <2> QED
    BY <1>3, <1>4, <2>1, <2>2, <2>3, <2>4, TrackStep
<1>6. CASE astray' = astray \union {id} /\ UNCHANGED posts
  <2>1. Shape' /\ Extends(posts, posts') /\ Len(posts) \in Nat
    BY <1>1, <1>3, <1>4, <1>6 DEF Shape, TracksOne, Extends
  <2>2. \A i : InSight(posts', astray', i) =>
           i # id /\ InSight(posts, astray, i) /\ posts'[i] = posts[i]
    BY <1>6 DEF InSight
  <2>3. Untracked.id = 0 /\ 0 \in 0..Len(posts')
    BY <1>6, <2>1 DEF Untracked
  <2>4. \A i : InSight(posts', astray', i) =>
           \/ Untracked.id = i /\ posts'[i].about = t /\ Untracked = [id |-> i, hash |-> posts'[i].shows]
           \/ InSight(posts, astray, i) /\ posts'[i] = posts[i] /\ i # progress.messages[t].id
    BY <2>2
  <2> HIDE DEF id
  <2> QED
    BY <1>3, <1>4, <2>1, <2>3, <2>4, TrackStep
<1> QED
  BY <1>5, <1>6 DEF MoveOut

\* The end of a poll: memory, and the file if it is saved.
LEMMA FinishStep == TrackInv /\ Finish => TrackInv'
<1> SUFFICES ASSUME TrackInv, Finish PROVE TrackInv'
  OBVIOUS
<1>1. NoTasks \in Works
  BY KanbanAssumption DEF NoTasks, Works
<1>2. Shape /\ PointsRight(posts, board, progress) /\ PointsRight(posts, boardFile, progressFile)
  BY DEF TrackInv
<1>3. UNCHANGED <<posts, astray, board, boardFile, work, home, todo>> /\ payload' = NoTasks
  BY DEF Finish, Leave, worldVars, boardVars
<1>4. /\ progress' \in ProgressStates /\ progress'.messages = progress.messages
      /\ progressFile' \in {progress', progressFile}
  BY <1>2 DEF Finish, Shape, ProgressStates
<1>5. Shape'
  BY <1>1, <1>2, <1>3, <1>4 DEF Shape
<1>6. PointsRight(posts', board', progress') /\ PointsRight(posts', boardFile', progressFile')
  BY <1>2, <1>3, <1>4 DEF PointsRight
<1>7. ASSUME NEW id, InSight(posts', astray', id) PROVE KnownIn(board, progress, id)'
  <2>1. InSight(posts, astray, id)
    BY <1>3, <1>7
  <2>2. KnownIn(board, progress, id)
    BY <2>1 DEF TrackInv, NothingForgotten, InSight, Visible
  <2> QED
    BY <1>3, <1>4, <2>2 DEF KnownIn
<1> QED
  BY <1>5, <1>6, <1>7, StepParts

\* A restart hides what the files do not know.
LEMMA RestartStep == TrackInv /\ Restart => TrackInv'
<1> SUFFICES ASSUME TrackInv, Restart PROVE TrackInv'
  OBVIOUS
<1>1. NoTasks \in Works
  BY KanbanAssumption DEF NoTasks, Works
<1>2. Shape /\ PointsRight(posts, boardFile, progressFile)
  BY DEF TrackInv
<1>3. UNCHANGED <<posts, boardFile, progressFile>> /\ board' = boardFile /\ progress' = progressFile
  BY DEF Restart
<1>4. Shape'
  BY <1>1, <1>2, <1>3 DEF Shape, Restart, worldVars
<1>5. PointsRight(posts', board', progress') /\ PointsRight(posts', boardFile', progressFile')
  BY <1>2, <1>3
<1>6. ASSUME NEW id, InSight(posts', astray', id) PROVE KnownIn(board, progress, id)'
  <2>1. id \in 1..Len(posts) /\ posts[id] # Deleted /\ id # 0 /\ id \notin astray'
    BY <1>2, <1>3, <1>6 DEF InSight, Shape
  <2>2. KnownIn(boardFile, progressFile, id)
    BY <2>1 DEF Restart, Visible
  <2> QED
    BY <1>3, <2>2 DEF KnownIn
<1> QED
  BY <1>4, <1>5, <1>6, StepParts

\* Deletions by moderators.
LEMMA DeleteByHandStep ==
  ASSUME TrackInv, NEW id \in 1..Len(posts), DeleteByHand(id) PROVE TrackInv'
<1>1. Shape /\ posts \in Seq(Messages \union {Deleted})
  BY DEF TrackInv, Shape
<1>2. /\ posts' \in Seq(Messages \union {Deleted}) /\ Extends(posts, posts')
      /\ \A i : InSight(posts', astray, i) =>
           i # id /\ InSight(posts, astray, i) /\ posts'[i] = posts[i]
  BY <1>1, DeletedFacts DEF DeleteByHand
<1>3. posts'[id] = Deleted
  BY <1>1 DEF DeleteByHand
<1>4. \A i : InSight(posts', astray', i) => InSight(posts, astray, i) /\ posts'[i] = posts[i]
  BY <1>2, <1>3 DEF DeleteByHand, InSight
<1>5. Shape' /\ UNCHANGED <<board, boardFile, progress, progressFile>>
  BY <1>1, <1>2 DEF Shape, DeleteByHand, worldVars, boardVars, progressVars
<1> QED
  BY <1>2, <1>4, <1>5, QuietStep

\* Steps without a request.
LEMMA ReadStep ==
  ASSUME TrackInv, ReadBoard \/ SkipBoard \/ ReadTasks \/ (\E t \in Tasks : ChangeTask(t))
  PROVE  TrackInv'
<1>1. NoTasks \in Works
  BY KanbanAssumption DEF NoTasks, Works
<1>2. Shape /\ Len(posts) \in Nat
  BY DEF TrackInv, Shape
<1>3. UNCHANGED <<posts, astray, board, boardFile, progressFile>>
  BY DEF ReadBoard, SkipBoard, ReadTasks, ChangeTask, boardVars, progressVars
<1>4. progress' \in ProgressStates /\ progress'.messages = progress.messages
  <2>1. CASE ReadTasks
    BY <1>2, <2>1 DEF Shape, ReadTasks, ProgressStates
  <2>2. CASE ReadBoard \/ SkipBoard \/ (\E t \in Tasks : ChangeTask(t))
    BY <1>2, <2>2 DEF Shape, ReadBoard, SkipBoard, ChangeTask, progressVars
  <2> QED
    BY <2>1, <2>2
<1>5. work' \in Works /\ payload' \in Works /\ home' \in Channels /\ todo' \subseteq Tasks
  <2>1. CASE ReadTasks
    BY <1>2, <2>1 DEF Shape, ReadTasks, Pending, worldVars
  <2>2. CASE ReadBoard \/ SkipBoard
    BY <1>1, <1>2, <2>2 DEF Shape, ReadBoard, SkipBoard, LeaveBoard, Leave, worldVars, progressVars
  <2>3. ASSUME NEW t \in Tasks, ChangeTask(t)
        PROVE  work' \in Works /\ payload' \in Works /\ home' \in Channels /\ todo' \subseteq Tasks
    BY <1>2, <2>3 DEF Shape, ChangeTask, Works, progressVars
  <2> QED
    BY <2>1, <2>2, <2>3
<1>6. Shape' /\ Extends(posts, posts')
  BY <1>2, <1>3, <1>4, <1>5 DEF Shape, Extends
<1> QED
  BY <1>3, <1>4, <1>6, QuietStep

\* Every step keeps the invariant.
LEMMA TrackNext == TrackInv /\ [Next]_vars => TrackInv'
<1> SUFFICES ASSUME TrackInv, [Next]_vars PROVE TrackInv'
  OBVIOUS
<1>1. CASE Service
  BY <1>1, ReadStep, CreateBoardStep, EditBoardStep, FinishStep, MoveOutStep, CreateStep, EditStep, SweepStep
     DEF Service
<1>2. CASE Restart
  BY <1>2, RestartStep
<1>3. CASE \E t \in Tasks : ChangeTask(t)
  BY <1>3, ReadStep
<1>4. CASE \E id \in 1..Len(posts) : DeleteByHand(id)
  BY <1>4, DeleteByHandStep
<1>5. CASE UNCHANGED vars
  BY <1>5 DEF vars, worldVars, boardVars, progressVars, TrackInv, Shape, PointsRight, NothingForgotten,
              KnownIn, Visible
<1> QED
  BY <1>1, <1>2, <1>3, <1>4, <1>5 DEF Next

(***************************************************************************)
(* Whatever requests fail, are repeated or are cut off by a restart: every *)
(* message a reader sees is tracked under its task with what it shows,     *)
(* except those the code is known to lose (kanban-sync/main.go,            *)
(* syncBoardOnce and syncInProgressOnce).                                  *)
(***************************************************************************)
THEOREM NothingIsForgotten == Spec => []NothingForgotten
<1>1. TrackInv => NothingForgotten
  BY DEF TrackInv
<1> QED
  BY TrackInit, TrackNext, <1>1, PTL DEF Spec
=============================================================================
