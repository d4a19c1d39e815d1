---------------------------- MODULE AgentRunner -----------------------------
(***************************************************************************)
(* Runner.Run (internal/agent/runner.go) with its client (client.go).  The *)
(* loop asks the model for a response in a goroutine of its own and waits  *)
(* for the response, for a steering message or for the end of the context. *)
(* A steering message cancels the request and starts the next one with the *)
(* message added to the input; a response is only used when no message     *)
(* waits in the channel.  Tool calls are executed one by one up to a limit *)
(* for the whole run.  A run whose deadline passes asks once more, without *)
(* tools, for a summary.                                                   *)
(*                                                                         *)
(* Of the input sent to the model the specification keeps the steering     *)
(* messages and the number of tool outputs.                                *)
(***************************************************************************)
EXTENDS Naturals, Sequences

CONSTANTS
  MaxSteering,    \* steering messages ever sent (bound)
  Blank,          \* messages whose content is empty
  Targeted,       \* messages with an OnCommentary of their own
  MaxToolCalls,   \* cfg.MaxToolCalls
  MaxCalls,       \* tool calls in one response (bound)
  MaxCommentary   \* commentary items in one response (bound)

Messages == 1 .. MaxSteering

ASSUME RunnerAssumption ==
  /\ MaxSteering \in Nat
  /\ Blank \subseteq Messages
  /\ Targeted \subseteq Messages
  /\ MaxToolCalls \in Nat \ {0}
  /\ MaxCalls \in Nat
  /\ MaxCommentary \in Nat

VARIABLES
  sent,       \* messages 1..sent were put into the channel
  channel,    \* req.Steering
  open,       \* the channel is open
  listening,  \* req.Steering # nil
  ctx,        \* "live", "expired" (deadline) or "cancelled"
  pc,         \* where Run is
  got,        \* message taken while a request was in flight (0: none)
  flying,     \* goroutines inside CreateResponse
  result,     \* what the last one left in responseCh
  streamed,   \* commentary items the request in flight has published
  asked,      \* steering messages in the input of the request
  steered,    \* steering messages in the input
  toolCalls,  \* tool calls executed
  left,       \* tool calls of the response still to execute
  target,     \* commentaryTarget: message it replies to (0: req.OnCommentary)
  taken,      \* history: messages received from the channel
  published,  \* history: the commentary, with its target and the last message
              \* its response knew of
  outcome     \* how Run returned

callerVars == <<sent, open, ctx>>
callVars == <<flying, result, streamed, asked, published>>
inputVars == <<steered, target>>
steeringVars == <<channel, listening, got, taken>>
toolVars == <<toolCalls, left>>
vars == <<callerVars, callVars, inputVars, steeringVars, toolVars, pc, outcome>>

NoResult == [kind |-> "none"]
Failures == [kind : {"backend", "deadline", "cancelled"}]
Responses == [kind : {"response"}, final : BOOLEAN, calls : 0 .. MaxCalls]
Comments == [to : Messages \union {0}, last : Messages \union {0}]

TypeOK ==
  /\ sent \in 0 .. MaxSteering /\ open \in BOOLEAN
  /\ ctx \in {"live", "expired", "cancelled"}
  /\ flying \in Nat
  /\ result \in {NoResult} \union Failures \union Responses
  /\ streamed \in 0 .. MaxCommentary
  /\ asked \in Seq(Messages) /\ steered \in Seq(Messages)
  /\ published \in Seq(Comments)
  /\ target \in Messages \union {0}
  /\ channel \in Seq(Messages) /\ taken \in Seq(Messages)
  /\ listening \in BOOLEAN /\ got \in Messages \union {0}
  /\ toolCalls \in 0 .. MaxToolCalls
  /\ left \in 0 .. MaxCalls
  /\ pc \in {"request", "wait", "waitClosed", "drain", "abandon", "tools", "recover", "done"}
  /\ outcome \in {"none", "final", "nothing", "limit", "timeout", "error"}

Init ==
  /\ sent = 0 /\ open = TRUE /\ ctx = "live"
  /\ flying = 0 /\ result = NoResult /\ streamed = 0 /\ asked = <<>> /\ published = <<>>
  /\ steered = <<>> /\ target = 0
  /\ channel = <<>> /\ listening = TRUE /\ got = 0 /\ taken = <<>>
  /\ toolCalls = 0 /\ left = 0
  /\ pc = "request" /\ outcome = "none"
-----------------------------------------------------------------------------
\* The caller: puts messages into the channel, may close it; its context ends.
Send ==
  /\ open
  /\ sent < MaxSteering
  /\ sent' = sent + 1
  /\ channel' = Append(channel, sent')
  /\ UNCHANGED <<open, ctx, listening, got, taken, callVars, inputVars, toolVars, pc, outcome>>

Close ==
  /\ open
  /\ open' = FALSE
  /\ UNCHANGED <<sent, ctx, callVars, inputVars, steeringVars, toolVars, pc, outcome>>

EndContext(how) ==
  /\ ctx = "live"
  /\ ctx' = how
  /\ UNCHANGED <<sent, open, callVars, inputVars, steeringVars, toolVars, pc, outcome>>
-----------------------------------------------------------------------------
\* The goroutine around CreateResponse.
Request ==
  /\ pc = "request"
  /\ pc' = "wait"
  /\ flying' = flying + 1
  /\ result' = NoResult
  /\ streamed' = 0
  /\ asked' = steered
  /\ UNCHANGED <<published, callerVars, inputVars, steeringVars, toolVars, outcome>>

\* Every commentary item is emitted once, while the response streams or when it
\* is complete, to the target that is current then; a message's own target is
\* used for one item (sync.Once), after it the request's.
Stream ==
  /\ flying > 0
  /\ streamed < MaxCommentary
  /\ streamed' = streamed + 1
  /\ published' = Append(published,
       [to |-> target, last |-> IF asked = <<>> THEN 0 ELSE asked[Len(asked)]])
  /\ target' = 0
  /\ UNCHANGED <<flying, result, asked, steered, callerVars, steeringVars, toolVars, pc, outcome>>

Finish(r) ==
  /\ flying > 0
  /\ result = NoResult
  /\ flying' = flying - 1
  /\ result' = r
  /\ UNCHANGED <<streamed, asked, published, callerVars, inputVars, steeringVars, toolVars,
                 pc, outcome>>

Complete == \E r \in Responses : Finish(r)

\* The backend fails, or times out by itself.
Fail == \E why \in {"backend", "deadline"} : Finish([kind |-> why])

\* responseCtx is done: the call returns with its error.
Interrupted ==
  /\ pc \in {"drain", "abandon"} \/ ctx # "live"
  /\ Finish([kind |-> IF ctx = "expired" THEN "deadline" ELSE "cancelled"])
-----------------------------------------------------------------------------
\* Mutant: a second message replaces the first in the input.
IncorporateLast(m) ==
  IF m \in Blank
  THEN UNCHANGED inputVars
  ELSE steered' = <<m>> /\ target' = IF m \in Targeted THEN m ELSE 0

\* A message with content goes into the input and takes over the commentary.
Incorporate(m) ==
  IF m \in Blank
  THEN UNCHANGED inputVars
  ELSE steered' = Append(steered, m) /\ target' = IF m \in Targeted THEN m ELSE 0

Receive ==
  /\ channel # <<>>
  /\ channel' = Tail(channel)
  /\ taken' = Append(taken, Head(channel))

\* select: a steering message while the request is in flight or just complete;
\* the request is cancelled.
TakeSteering ==
  /\ pc = "wait"
  /\ listening
  /\ Receive
  /\ got' = Head(channel)
  /\ pc' = "drain"
  /\ UNCHANGED <<listening, inputVars, callerVars, callVars, toolVars, outcome>>

\* Mutant: the loop goes on without <-responseCh.
AnsweredAlways == TRUE

\* <-responseCh
Answered == result # NoResult

DropResponse ==
  /\ pc = "drain"
  /\ Answered
  /\ Incorporate(got)
  /\ got' = 0
  /\ pc' = "request"
  /\ UNCHANGED <<channel, listening, taken, callerVars, callVars, toolVars, outcome>>

\* select: the channel was closed; from now on only the response is waited for.
SteeringClosed ==
  /\ pc = "wait"
  /\ listening /\ channel = <<>> /\ ~open
  /\ listening' = FALSE
  /\ pc' = "waitClosed"
  /\ UNCHANGED <<channel, got, taken, callerVars, callVars, inputVars, toolVars, outcome>>

\* select: ctx.Done().
ContextDone ==
  /\ pc = "wait"
  /\ ctx # "live"
  /\ pc' = "abandon"
  /\ UNCHANGED <<callerVars, callVars, inputVars, steeringVars, toolVars, outcome>>

\* Mutant: an error makes the loop ask again.
EndByErrorAgain(timeout) == pc' = "request" /\ UNCHANGED outcome

\* A timeout leads to recoverTimeoutSummary, any other error is returned.
EndByError(timeout) ==
  IF timeout THEN pc' = "recover" /\ UNCHANGED outcome
             ELSE pc' = "done" /\ outcome' = "error"

Abandon ==
  /\ pc = "abandon"
  /\ Answered
  /\ EndByError(ctx = "expired")
  /\ UNCHANGED <<callerVars, callVars, inputVars, steeringVars, toolVars>>

\* select: the response, which is an error.
TakeError ==
  /\ pc \in {"wait", "waitClosed"}
  /\ result \in Failures
  /\ EndByError(result.kind = "deadline" \/ ctx = "expired")
  /\ UNCHANGED <<callerVars, callVars, inputVars, steeringVars, toolVars>>

\* What Run does with a response that no steering message overtakes.
UseResponse ==
  \/ result.final /\ pc' = "done" /\ outcome' = "final" /\ UNCHANGED left
  \/ ~result.final /\ result.calls = 0 /\ pc' = "done" /\ outcome' = "nothing" /\ UNCHANGED left
  \/ ~result.final /\ result.calls > 0 /\ pc' = "tools" /\ left' = result.calls /\ UNCHANGED outcome

\* Mutant: the message that waits is received, the response is used anyway.
OvertakeAndUse == Receive /\ Incorporate(Head(channel)) /\ UseResponse

\* A message that waits in the channel sends the loop round again.
Overtake ==
  /\ Receive
  /\ Incorporate(Head(channel))
  /\ pc' = "request"
  /\ UNCHANGED <<left, outcome>>

\* select: the response; then pendingSteering.
TakeResponse ==
  /\ pc \in {"wait", "waitClosed"}
  /\ result \in Responses
  /\ \/ listening /\ Overtake
     \/ ~(listening /\ channel # <<>>) /\ UseResponse /\ UNCHANGED <<inputVars, channel, taken>>
  /\ UNCHANGED <<listening, got, callerVars, callVars, toolCalls>>

\* toolCalls >= r.cfg.MaxToolCalls
LimitReached == toolCalls >= MaxToolCalls

Tool ==
  /\ pc = "tools"
  /\ \/ LimitReached /\ pc' = "done" /\ outcome' = "limit" /\ UNCHANGED toolVars
     \/ /\ ~LimitReached
        /\ toolCalls' = toolCalls + 1
        /\ left' = left - 1
        /\ pc' = IF left > 1 THEN "tools" ELSE "request"
        /\ UNCHANGED outcome
  /\ UNCHANGED <<callerVars, callVars, inputVars, steeringVars>>

\* recoverTimeoutSummary: one request without tools and without commentary.
Recover ==
  /\ pc = "recover"
  /\ pc' = "done"
  /\ outcome' = "timeout"
  /\ UNCHANGED <<callerVars, callVars, inputVars, steeringVars, toolVars>>

Run ==
  \/ Request \/ TakeSteering \/ DropResponse \/ SteeringClosed \/ ContextDone \/ Abandon
  \/ TakeError \/ TakeResponse \/ Tool \/ Recover

Caller == Send \/ Close \/ (\E how \in {"expired", "cancelled"} : EndContext(how))

Next == Caller \/ Stream \/ Complete \/ Fail \/ Interrupted \/ Run

Spec == Init /\ [][Next]_vars

\* The loop runs, a call whose context is done returns, and the context has a
\* timeout (context.WithTimeout in both callers).  The model owes nothing.
Fairness ==
  /\ WF_vars(Run)
  /\ WF_vars(Interrupted)
  /\ WF_vars(\E how \in {"expired", "cancelled"} : EndContext(how))

FairSpec == Spec /\ Fairness
-----------------------------------------------------------------------------
Turn == INSTANCE AgentTurn WITH published <- Len(published), over <- (pc = "done")

(***************************************************************************)
(* The runner implements the turn its callers see: steering is received in *)
(* order and one by one, and nothing is received or published once Run has *)
(* returned, although responses are produced in a goroutine of their own.  *)
(***************************************************************************)
TurnSpec == Turn!Spec

(***************************************************************************)
(* An answer comes from a request that contained every steering message    *)
(* taken so far: a response that was ready when a message arrived is never *)
(* returned (the check of pendingSteering before the final text).          *)
(***************************************************************************)
AnswerKnowsSteering ==
  outcome \in {"final", "nothing"} => asked = steered /\ got = 0

(***************************************************************************)
(* No steering message is lost, doubled or reordered on its way from the   *)
(* channel into the input, whichever branch of the select takes it.        *)
(***************************************************************************)
SteeringKept ==
  /\ taken \o channel = [m \in 1 .. sent |-> m]
  /\ {steered[i] : i \in 1 .. Len(steered)}
       = {taken[i] : i \in 1 .. Len(taken)} \ (Blank \union {got})
  /\ \A i, j \in 1 .. Len(steered) : i < j => steered[i] < steered[j]

(***************************************************************************)
(* At most one request is in flight, and none when Run has returned: every *)
(* way out of the select waits for responseCh.                             *)
(***************************************************************************)
OneRequest == flying <= (IF pc \in {"wait", "waitClosed", "drain", "abandon"} THEN 1 ELSE 0)

(***************************************************************************)
(* A commentary that is posted as the reply to a steering message comes    *)
(* from a response that knew the message and none after it, and it is the  *)
(* only one (commentaryTarget changes only between two requests;           *)
(* firstCommentaryTarget).                                                 *)
(***************************************************************************)
RepliesFit ==
  \A i \in 1 .. Len(published) : published[i].to # 0 =>
    /\ published[i].last = published[i].to
    /\ \A j \in 1 .. Len(published) : published[j].to = published[i].to => i = j

(***************************************************************************)
(* Every steering message reaches the input, in order, and a commentary    *)
(* answers only the message its request knew last.                         *)
(***************************************************************************)
SteeringServed == SteeringKept /\ RepliesFit

(***************************************************************************)
(* Run returns, whatever the model does: the context's deadline ends every *)
(* request, steering and tool calls are finite.                            *)
(***************************************************************************)
RunEnds == <>(pc = "done")

-----------------------------------------------------------------------------
(***************************************************************************)
(* The inductive invariants: IInv is behind AnswerKnowsSteering, OneRequest *)
(* and TurnSpec; with the messages on their way to the input it is behind  *)
(* SteeringServed.                                                         *)
(***************************************************************************)
Awaiting == pc \in {"wait", "waitClosed", "drain", "abandon"}

IInv ==
  /\ TypeOK
  /\ flying = IF Awaiting /\ result = NoResult THEN 1 ELSE 0
  /\ Awaiting => asked = steered
  /\ got # 0 <=> pc = "drain"
  /\ outcome # "none" <=> pc = "done"
  /\ outcome \in {"final", "nothing"} => asked = steered
  /\ pc = "tools" => left > 0

\* The message that was taken but not used yet is the last one taken; the
\* target of the next commentary is the last message of the input, and no
\* commentary has answered it.
Targets ==
  /\ got # 0 => got = Len(taken)
  /\ target # 0 => steered # <<>> /\ target = steered[Len(steered)]
  /\ \A i \in 1 .. Len(published) : published[i].to # 0 =>
       /\ published[i].to # target
       /\ published[i].to \in {steered[j] : j \in 1 .. Len(steered)}

SteeringInv == IInv /\ SteeringServed /\ Targets
=============================================================================
