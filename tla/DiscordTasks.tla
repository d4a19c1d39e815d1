---------------------------- MODULE DiscordTasks ----------------------------
(***************************************************************************)
(* discord-commands/main.go, onMessageCreate: the messages of one user in  *)
(* one channel (the key of Service.active).  discordgo runs the handler of *)
(* every message in a goroutine of its own.  A mention starts a task;      *)
(* while the task is registered every other message of the user is steering *)
(* for its agent run.  Commentary is posted as temporary messages that are *)
(* deleted after the reply.                                                *)
(*                                                                         *)
(* Abstractions.  Other keys share nothing but the mutex.  A mention of a  *)
(* user who is not allowed is an ordinary message.  Of the run there is    *)
(* what it does here: it reads steering and publishes commentary until it  *)
(* returns (AgentTurn).  History lookups, rows for replies, the typing     *)
(* indicator and texts are left out.                                       *)
(***************************************************************************)
EXTENDS Naturals, Sequences, FiniteSets, SequencesExt

CONSTANTS
  Deliveries,   \* events of the gateway, each with a handler
  Message,      \* Message[d]: the message of a delivery; it may come twice
  Mentions,     \* messages that mention the bot
  Blank,        \* messages without text besides the mention
  SteeringCap,  \* capacity of a steering channel (32)
  MaxComments,  \* bound on the commentary of a task
  MayRefuse,    \* messages whose rows the history may refuse
  None          \* no task is active

ASSUME DiscordAssumption ==
  /\ DOMAIN Message = Deliveries
  /\ SteeringCap \in Nat \ {0} /\ MaxComments \in Nat
  /\ MayRefuse \subseteq {Message[d] : d \in Deliveries}
  /\ None \notin Deliveries

VARIABLES
  pc,          \* what the handler of a delivery does
  activeTask,  \* the registered task, by its delivery
  queue,       \* the steering channel of a task
  taken,       \* steering its run has received
  posted,      \* how often the run has published commentary
  shown,       \* commentary messages the channel shows
  tracked,     \* those whose id the publisher knows
  left,        \* those that an API error left behind
  replied,     \* deliveries that were answered
  recorded,    \* the messages the history has a row for
  refused,     \* history: messages it was offered in vain
  observed,    \* history: deliveries that found no task and start none
  missed,      \* history: deliveries that no reply knows, see MessagesSettled
  turnedAway   \* history: deliveries whose handler gave up in Abandon

taskVars == <<queue, taken, posted>>
postVars == <<shown, tracked, left>>
rowVars == <<recorded, refused>>
fateVars == <<observed, missed, turnedAway>>
vars == <<pc, activeTask, taskVars, postVars, replied, rowVars, fateVars>>

\* The handler owns the active task.
Owning == {"running", "replying", "cleaning", "leaving"}

States == {"expected", "checking", "registering", "again", "ended"} \union Owning

TypeOK ==
  /\ pc \in [Deliveries -> States]
  /\ activeTask \in Deliveries \union {None}
  /\ queue \in [Deliveries -> Seq(Deliveries)]
  /\ \A d \in Deliveries : Len(queue[d]) <= SteeringCap
  /\ taken \in [Deliveries -> Seq(Deliveries)]
  /\ posted \in [Deliveries -> 0..MaxComments]
  /\ shown \in [Deliveries -> Nat]
  /\ tracked \in [Deliveries -> Nat]
  /\ left \in [Deliveries -> Nat]
  /\ replied \subseteq Deliveries
  /\ {recorded, refused} \subseteq SUBSET {Message[d] : d \in Deliveries}
  /\ {observed, missed, turnedAway} \subseteq SUBSET Deliveries

Init ==
  /\ pc = [d \in Deliveries |-> "expected"]
  /\ activeTask = None
  /\ queue = [d \in Deliveries |-> <<>>]
  /\ taken = [d \in Deliveries |-> <<>>]
  /\ posted = [d \in Deliveries |-> 0]
  /\ shown = [d \in Deliveries |-> 0]
  /\ tracked = [d \in Deliveries |-> 0]
  /\ left = [d \in Deliveries |-> 0]
  /\ replied = {}
  /\ recorded = {} /\ refused = {}
  /\ observed = {} /\ missed = {} /\ turnedAway = {}

Goto(d, state) == pc' = [pc EXCEPT ![d] = state]

\* recordObservedDiscordMessage: one row for each message; an error is logged.
Record(d) ==
  \/ recorded' = recorded \union {Message[d]} /\ UNCHANGED refused
  \/ Message[d] \in MayRefuse /\ refused' = refused \union {Message[d]} /\ UNCHANGED recorded

Receive(d) ==
  /\ pc[d] = "expected"
  /\ Goto(d, "checking")
  /\ UNCHANGED <<activeTask, taskVars, postVars, replied, rowVars, fateVars>>

-----------------------------------------------------------------------------
(* Steering or a task of its own *)

\* Mutant: the original message steers its own task.
SteersAny(d) == Message[d] \notin Blank /\ activeTask # None

\* enqueueDiscordSteering finds a task that d can steer.
Steers(d) ==
  /\ Message[d] \notin Blank
  /\ activeTask # None
  /\ Message[activeTask] # Message[d]

\* The queue takes the message or, when it is full, drops it; the handler
\* takes both for success.
EnqueueSteering(d) ==
  /\ Steers(d)
  /\ IF Len(queue[activeTask]) < SteeringCap
     THEN queue' = [queue EXCEPT ![activeTask] = Append(@, d)] /\ UNCHANGED missed
     ELSE missed' = missed \union {d} /\ UNCHANGED queue
  /\ Record(d)
  /\ Goto(d, "ended")

EnqueueFirst(d) ==
  /\ pc[d] = "checking"
  /\ EnqueueSteering(d)
  /\ UNCHANGED <<activeTask, taken, posted, postVars, replied, observed, turnedAway>>

\* An ordinary message without a task is only recorded.
Observe(d) ==
  /\ pc[d] = "checking"
  /\ ~Steers(d)
  /\ IF Message[d] \in Mentions THEN Goto(d, "registering") /\ UNCHANGED <<rowVars, observed>>
     ELSE Goto(d, "ended") /\ Record(d) /\ observed' = observed \union {d}
  /\ UNCHANGED <<activeTask, taskVars, postVars, replied, missed, turnedAway>>

\* Mutant: the handler relies on the check before, outside the mutex.
RegisterUnchecked(d) ==
  /\ pc[d] = "registering"
  /\ activeTask' = d
  /\ Goto(d, "running")
  /\ UNCHANGED <<taskVars, postVars, replied, rowVars, fateVars>>

\* registerDiscordTask
Register(d) ==
  /\ pc[d] = "registering"
  /\ IF activeTask = None THEN activeTask' = d /\ Goto(d, "running")
     ELSE Goto(d, "again") /\ UNCHANGED activeTask
  /\ UNCHANGED <<taskVars, postVars, replied, rowVars, fateVars>>

EnqueueAgain(d) ==
  /\ pc[d] = "again"
  /\ EnqueueSteering(d)
  /\ UNCHANGED <<activeTask, taken, posted, postVars, replied, observed, turnedAway>>

\* Nothing that d can steer is left.
NoteTurnedAway(d) ==
  turnedAway' = IF Steers(d) THEN turnedAway ELSE turnedAway \union {d}

\* Mutant: the handler returns without a second look for a task.
AbandonAtOnce(d) ==
  /\ pc[d] = "again"
  /\ Goto(d, "ended")
  /\ NoteTurnedAway(d)
  /\ UNCHANGED <<activeTask, taskVars, postVars, replied, rowVars, observed, missed>>

\* The task that stood in the way has ended, or the message is a duplicate
\* of it: the handler returns without a trace.
Abandon(d) ==
  /\ pc[d] = "again"
  /\ ~Steers(d)
  /\ Goto(d, "ended")
  /\ NoteTurnedAway(d)
  /\ UNCHANGED <<activeTask, taskVars, postVars, replied, rowVars, observed, missed>>

-----------------------------------------------------------------------------
(* The task *)

\* The run, if there is one, takes the next message from the channel.
Take(d) ==
  /\ pc[d] = "running" /\ queue[d] # <<>>
  /\ Message[d] \notin Blank
  /\ taken' = [taken EXCEPT ![d] = Append(@, Head(queue[d]))]
  /\ queue' = [queue EXCEPT ![d] = Tail(@)]
  /\ UNCHANGED <<pc, activeTask, posted, postVars, replied, rowVars, fateVars>>

\* Mutant: commentary that replies to steering is not remembered.
PublishUntracked(d) ==
  /\ pc[d] = "running" /\ posted[d] < MaxComments
  /\ posted' = [posted EXCEPT ![d] = @ + 1]
  /\ shown' = [shown EXCEPT ![d] = @ + 1]
  /\ tracked' = [tracked EXCEPT ![d] = IF taken[d] = <<>> THEN @ + 1 ELSE @]
  /\ UNCHANGED <<pc, activeTask, queue, taken, left, replied, rowVars, fateVars>>

\* publish: the message appears and its id is kept, or the API reports an
\* error and the message appears nevertheless or not.
Publish(d) ==
  /\ pc[d] = "running" /\ posted[d] < MaxComments
  /\ Message[d] \notin Blank
  /\ posted' = [posted EXCEPT ![d] = @ + 1]
  /\ \/ /\ shown' = [shown EXCEPT ![d] = @ + 1]
        /\ tracked' = [tracked EXCEPT ![d] = @ + 1]
        /\ UNCHANGED left
     \/ /\ shown' = [shown EXCEPT ![d] = @ + 1]
        /\ left' = [left EXCEPT ![d] = @ + 1]
        /\ UNCHANGED tracked
     \/ UNCHANGED postVars
  /\ UNCHANGED <<pc, activeTask, queue, taken, replied, rowVars, fateVars>>

\* processGregGPTMention returns: the answer, an error text, or nothing for
\* a mention without text.  The question is recorded.
Finish(d) ==
  /\ pc[d] = "running"
  /\ Record(d)
  /\ Goto(d, IF Message[d] \in Blank THEN "leaving" ELSE "replying")
  /\ UNCHANGED <<activeTask, taskVars, postVars, replied, fateVars>>

\* A reply that fails leaves the commentary where it is.
Reply(d) ==
  /\ pc[d] = "replying"
  /\ \/ replied' = replied \union {d} /\ Goto(d, "cleaning") /\ UNCHANGED missed
     \/ /\ missed' = missed \union {d} \union Range(taken[d])
        /\ Goto(d, "leaving") /\ UNCHANGED replied
  /\ UNCHANGED <<activeTask, taskVars, postVars, rowVars, observed, turnedAway>>

\* DeleteAll: some deletions may fail; then the reply is recorded.
DeleteAll(d) ==
  /\ pc[d] = "cleaning"
  /\ \E failed \in 0..tracked[d] :
       /\ shown' = [shown EXCEPT ![d] = @ - tracked[d] + failed]
       /\ left' = [left EXCEPT ![d] = @ + failed]
  /\ tracked' = [tracked EXCEPT ![d] = 0]
  /\ Goto(d, "leaving")
  /\ UNCHANGED <<activeTask, taskVars, replied, rowVars, fateVars>>

\* Mutant: the task is unregistered only when it was answered.
UnregisterAnswered(d) ==
  /\ pc[d] = "leaving"
  /\ activeTask' = IF activeTask = d /\ d \in replied THEN None ELSE activeTask
  /\ Goto(d, "ended")
  /\ missed' = missed \union Range(queue[d])
  /\ UNCHANGED <<taskVars, postVars, replied, rowVars, observed, turnedAway>>

\* unregisterDiscordTask, deferred.  What is still in the channel goes with it.
Unregister(d) ==
  /\ pc[d] = "leaving"
  /\ activeTask' = IF activeTask = d THEN None ELSE activeTask
  /\ Goto(d, "ended")
  /\ missed' = missed \union Range(queue[d])
  /\ UNCHANGED <<taskVars, postVars, replied, rowVars, observed, turnedAway>>

Handle(d) ==
  \/ EnqueueFirst(d) \/ Observe(d) \/ Register(d) \/ EnqueueAgain(d) \/ Abandon(d)
  \/ Finish(d) \/ Reply(d) \/ DeleteAll(d) \/ Unregister(d)

Next == \E d \in Deliveries : Receive(d) \/ Handle(d) \/ Take(d) \/ Publish(d)

Spec == Init /\ [][Next]_vars

\* A handler runs on until it returns; an agent run returns because its
\* context ends (AgentRunner, RunEnds).
Fairness == \A d \in Deliveries : WF_vars(Handle(d))

FairSpec == Spec /\ Fairness

-----------------------------------------------------------------------------
(* Properties *)

\* At most one task of a user in a channel runs, and it is the registered
\* one, whatever handlers race for it.
OneTask == \A d \in Deliveries : pc[d] \in Owning => activeTask = d

\* What was sent to a task's run.
Given(d) == queue[d] \o taken[d]

\* Each delivery of a message steers at most one run, once; a delivery that
\* steered gets no reply of its own; and no run is steered by the message
\* that it works on, not even when the gateway delivers that again.  Beyond
\* that the bot keeps no message ids: a steering message that is delivered
\* twice may steer twice (enqueueDiscordSteering).
SteersOnce ==
  \A d \in Deliveries :
    /\ IsInjective(Given(d))
    /\ \A s \in Range(Given(d)) :
         /\ Message[s] # Message[d]
         /\ s \notin replied
         /\ \A e \in Deliveries \ {d} : s \notin Range(Given(e))

\* Deliveries that a reply knows: those replied to, and what their runs read.
Answered == replied \union UNION {Range(taken[d]) : d \in replied}

\* README.md:119: a message with text steers the task of its author, and a
\* mention starts one otherwise.  What the code keeps of it: a message whose
\* handler has returned is with the task that is still active, or is known to
\* a reply that was sent, unless it was an ordinary message that found no
\* task, or was lost at one of these places: the channel was full; the run
\* did not read it before it returned; the reply failed (missed); or it was
\* refused a task by one that ended before the second look for it, or by one
\* of the same message (turnedAway).  And only the last of these leaves no
\* row in the history, if that accepts the rows.
MessagesSettled ==
  \A d \in Deliveries :
    pc[d] = "ended" /\ Message[d] \notin Blank =>
      /\ \/ d \in Answered \union observed \union missed \union turnedAway
         \/ activeTask # None /\ d \in Range(Given(activeTask))
      /\ d \notin turnedAway => Message[d] \in recorded \union refused

\* When a task that was answered has ended, the channel shows none of its
\* commentary but what an API error left behind.
CommentaryGone ==
  \A d \in Deliveries : pc[d] = "ended" /\ d \in replied => shown[d] = left[d]

\* The task is unregistered in the end, so that the next mention starts a
\* task and is not taken for steering.
TaskEnds == [](activeTask # None => <>(activeTask = None))

-----------------------------------------------------------------------------
(* The inductive invariant behind OneTask, SteersOnce, MessagesSettled and *)
(* CommentaryGone, by parts.                                               *)

\* A delivery that was given to a run has been handled: it is not given again.
Entered == \A d \in Deliveries : \A s \in Range(Given(d)) : pc[s] = "ended"

\* Every commentary message is known to the publisher or was left behind, and
\* none is known any more when an answered task leaves.
Tallied ==
  \A d \in Deliveries :
    /\ shown[d] = tracked[d] + left[d]
    /\ d \in replied => pc[d] \in {"cleaning", "leaving", "ended"}
    /\ d \in replied /\ pc[d] # "cleaning" => tracked[d] = 0

\* What the task has read is settled when it leaves, and recorded from its
\* return on; without text it has read nothing.
Settling ==
  \A d \in Deliveries :
    /\ Message[d] \in Blank => taken[d] = <<>>
    /\ pc[d] = "cleaning" => d \in replied
    /\ pc[d] = "leaving" /\ Message[d] \notin Blank =>
         d \in replied \/ {d} \union Range(taken[d]) \subseteq missed
    /\ pc[d] \in Owning \ {"running"} => Message[d] \in recorded \union refused

IInv == TypeOK /\ OneTask /\ Entered /\ SteersOnce /\ MessagesSettled /\ Settling /\ Tallied

=============================================================================
