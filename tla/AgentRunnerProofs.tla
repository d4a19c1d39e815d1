-------------------------- MODULE AgentRunnerProofs --------------------------
(***************************************************************************)
(* Proofs about AgentRunner for every number of steering messages, tool    *)
(* calls and commentary items.                                             *)
(***************************************************************************)
EXTENDS AgentRunner, TLAPS

(***************************************************************************)
(* A response is neither "no result" nor a failure.                        *)
(***************************************************************************)
LEMMA Kinds ==
  /\ NoResult \notin Failures \union Responses
  /\ Failures \intersect Responses = {}
  /\ \A r \in Responses : r.final \in BOOLEAN /\ r.calls \in 0 .. MaxCalls
<1>1. \A r \in Failures : r.kind \in {"backend", "deadline", "cancelled"}
  BY DEF Failures
<1>2. \A r \in Responses : r.kind = "response" /\ r.final \in BOOLEAN /\ r.calls \in 0 .. MaxCalls
  BY DEF Responses
<1>3. NoResult.kind = "none"
  BY DEF NoResult
<1> QED
  BY <1>1, <1>2, <1>3

(***************************************************************************)
(* What Incorporate does to the input keeps its type.                      *)
(***************************************************************************)
LEMMA IncorporateType ==
  ASSUME TypeOK, NEW m \in Messages, Incorporate(m)
  PROVE  steered' \in Seq(Messages) /\ target' \in Messages \union {0}
<1>1. steered \in Seq(Messages) /\ target \in Messages \union {0}
  BY DEF TypeOK
<1>2. CASE m \in Blank
  BY <1>1, <1>2 DEF Incorporate, inputVars
<1>3. CASE m \notin Blank
  <2>1. steered' = Append(steered, m) /\ target' \in {m, 0}
    BY <1>3 DEF Incorporate
  <2> QED
    BY <1>1, <2>1
<1> QED
  BY <1>2, <1>3

(***************************************************************************)
(* Receive takes the first message of the channel.                         *)
(***************************************************************************)
LEMMA ReceiveType ==
  ASSUME TypeOK, Receive
  PROVE  /\ channel' \in Seq(Messages) /\ taken' \in Seq(Messages)
         /\ Head(channel) \in Messages
BY DEF Receive, TypeOK

\* The invariant holds when Run begins.
LEMMA InvInit == Init => IInv
<1> SUFFICES ASSUME Init PROVE IInv
  OBVIOUS
<1>1. TypeOK
  BY RunnerAssumption DEF Init, TypeOK
<1> QED
  BY <1>1 DEF Init, IInv, Awaiting

(***************************************************************************)
(* Every step of Run, of the goroutine and of the caller keeps IInv.       *)
(***************************************************************************)
LEMMA InvStep == IInv /\ [Next]_vars => IInv'
<1> SUFFICES ASSUME IInv, [Next]_vars PROVE IInv'
  OBVIOUS
<1> USE RunnerAssumption, Kinds
<1>t. TypeOK
  BY DEF IInv
<1>1. CASE UNCHANGED vars
  BY <1>1 DEF IInv, TypeOK, Awaiting, vars, callerVars, callVars, inputVars, steeringVars, toolVars
<1>2. CASE Caller
  <2>1. CASE Send
    <3>1. sent + 1 \in Messages
      BY <2>1 DEF Send, IInv, TypeOK, Messages
    <3> QED
      BY <2>1, <3>1 DEF Send, IInv, TypeOK, Awaiting, callVars, inputVars, toolVars
  <2>2. CASE Close
    BY <2>2 DEF Close, IInv, TypeOK, Awaiting, callVars, inputVars, toolVars, steeringVars
  <2>3. ASSUME NEW how \in {"expired", "cancelled"}, EndContext(how) PROVE IInv'
    BY <2>3 DEF EndContext, IInv, TypeOK, Awaiting, callVars, inputVars, toolVars, steeringVars
  <2> QED
    BY <1>2, <2>1, <2>2, <2>3 DEF Caller
<1>3. CASE Stream
  <2>1. [to |-> target, last |-> IF asked = <<>> THEN 0 ELSE asked[Len(asked)]] \in Comments
    <3>1. asked # <<>> => asked[Len(asked)] \in Messages
      BY DEF IInv, TypeOK
    <3> QED
      BY <3>1 DEF IInv, TypeOK, Comments
  <2>2. published' \in Seq(Comments)
    BY <1>3, <2>1 DEF Stream, IInv, TypeOK
  <2> QED
    BY <1>3, <2>2 DEF Stream, IInv, TypeOK, Awaiting, callerVars, toolVars, steeringVars
<1>4. ASSUME NEW r \in Failures \union Responses, Finish(r) PROVE IInv'
  BY <1>4 DEF Finish, IInv, TypeOK, Awaiting, callerVars, inputVars, toolVars, steeringVars
<1>5. CASE Run
  <2>1. CASE Request
    BY <2>1 DEF Request, IInv, TypeOK, Awaiting, callerVars, inputVars, toolVars, steeringVars
  <2>2. CASE TakeSteering
    <3>1. Head(channel) \in Messages /\ Head(channel) # 0
      BY <2>2, <1>t, ReceiveType DEF TakeSteering, Messages
    <3>2. TypeOK'
      BY <2>2, <1>t, ReceiveType DEF TakeSteering, TypeOK, callerVars, callVars, inputVars, toolVars
    <3> QED
      BY <2>2, <3>1, <3>2 DEF TakeSteering, IInv, Awaiting, callVars, inputVars, toolVars
  <2>3. CASE DropResponse
    <3>1. got \in Messages
      BY <2>3 DEF DropResponse, IInv, TypeOK
    <3>2. TypeOK'
      BY <2>3, <3>1, <1>t, IncorporateType DEF DropResponse, TypeOK, callerVars, callVars, toolVars
    <3> QED
      BY <2>3, <3>2 DEF DropResponse, Answered, IInv, Awaiting, callVars, toolVars
  <2>4. CASE SteeringClosed
    BY <2>4 DEF SteeringClosed, IInv, TypeOK, Awaiting, callerVars, callVars, inputVars, toolVars
  <2>5. CASE ContextDone
    BY <2>5 DEF ContextDone, IInv, TypeOK, Awaiting, callerVars, callVars, inputVars, toolVars, steeringVars
  <2>6. CASE Abandon
    BY <2>6 DEF Abandon, EndByError, Answered, IInv, TypeOK, Awaiting, callerVars, callVars, inputVars, toolVars, steeringVars
  <2>7. CASE TakeError
    BY <2>7 DEF TakeError, EndByError, IInv, TypeOK, Awaiting, callerVars, callVars, inputVars, toolVars, steeringVars
  <2>8. CASE TakeResponse
    <3>1. CASE listening /\ Overtake
      <4>1. TypeOK'
        BY <2>8, <3>1, <1>t, ReceiveType, IncorporateType DEF TakeResponse, Overtake, TypeOK, callerVars, callVars
      <4> QED
        BY <2>8, <3>1, <4>1 DEF TakeResponse, Overtake, IInv, Awaiting, callVars
    <3>2. CASE UseResponse /\ UNCHANGED <<inputVars, channel, taken>>
      <4>1. result.calls \in 0 .. MaxCalls /\ result \in Responses /\ result # NoResult
        BY <2>8 DEF TakeResponse
      <4>2. TypeOK'
        BY <2>8, <3>2, <4>1, <1>t DEF TakeResponse, UseResponse, TypeOK, callerVars, callVars, inputVars
      <4> QED
        BY <2>8, <3>2, <4>1, <4>2 DEF TakeResponse, UseResponse, IInv, TypeOK, Awaiting, callVars, inputVars
    <3> QED
      BY <2>8, <3>1, <3>2 DEF TakeResponse
  <2>9. CASE Tool
    BY <2>9 DEF Tool, LimitReached, IInv, TypeOK, Awaiting, callerVars, callVars, inputVars, toolVars, steeringVars
  <2>10. CASE Recover
    BY <2>10 DEF Recover, IInv, TypeOK, Awaiting, callerVars, callVars, inputVars, toolVars, steeringVars
  <2> QED
    BY <1>5, <2>1, <2>2, <2>3, <2>4, <2>5, <2>6, <2>7, <2>8, <2>9, <2>10 DEF Run
<1>6. Complete \/ Fail \/ Interrupted => \E r \in Failures \union Responses : Finish(r)
  BY DEF Complete, Fail, Interrupted, Failures
<1> QED
  BY <1>1, <1>2, <1>3, <1>4, <1>5, <1>6 DEF Next

(***************************************************************************)
(* The invariant holds in every reachable state.                           *)
(***************************************************************************)
THEOREM InvariantHolds == Spec => []IInv
BY InvInit, InvStep, PTL DEF Spec

(***************************************************************************)
(* Every variable keeps its type; in particular the tool calls never pass  *)
(* the limit of the run, over all its requests (LimitReached).             *)
(***************************************************************************)
THEOREM TypeCorrect == Spec => []TypeOK
<1>1. IInv => TypeOK
  BY DEF IInv
<1> QED
  BY <1>1, InvariantHolds, PTL

(***************************************************************************)
(* An answer comes from a request that knew all steering taken so far      *)
(* (pendingSteering before the final text).                                *)
(***************************************************************************)
THEOREM AnswersKnowSteering == Spec => []AnswerKnowsSteering
<1>1. IInv => AnswerKnowsSteering
  BY DEF IInv, AnswerKnowsSteering
<1> QED
  BY <1>1, InvariantHolds, PTL

(***************************************************************************)
(* At most one goroutine is inside CreateResponse, none when Run has       *)
(* returned (every branch of the select receives from responseCh).         *)
(***************************************************************************)
THEOREM NeverTwoRequests == Spec => []OneRequest
<1>1. IInv => OneRequest
  BY DEF IInv, OneRequest, Awaiting
<1> QED
  BY <1>1, InvariantHolds, PTL

(***************************************************************************)
(* The runner implements AgentTurn: what it receives from the channel and  *)
(* publishes, it does before it returns (Runner.Run).                      *)
(***************************************************************************)
THEOREM ImplementsTurn == Spec => TurnSpec
<1>1. Init => Turn!Init
  BY DEF Init, Turn!Init
<1>2. IInv /\ [Next]_vars => [Turn!Next]_(Turn!turnVars)
  <2> SUFFICES ASSUME IInv, [Next]_vars
               PROVE  Turn!Next \/ UNCHANGED <<channel, taken, Len(published), pc = "done">>
    BY DEF Turn!turnVars
  <2> USE RunnerAssumption, Kinds
  <2>1. CASE UNCHANGED vars
    BY <2>1 DEF vars, callVars, steeringVars
  <2>2. CASE Send
    <3>1. sent + 1 \in Messages
      BY <2>2 DEF Send, IInv, TypeOK, Messages
    <3> QED
      BY <2>2, <3>1 DEF Send, callVars, Turn!Next, Turn!Send
  <2>3. CASE Close \/ \E how \in {"expired", "cancelled"} : EndContext(how)
    BY <2>3 DEF Close, EndContext, callVars, steeringVars
  <2>4. CASE Stream
    <3>1. pc # "done"
      BY <2>4 DEF Stream, IInv, Awaiting
    <3>2. Len(published') = Len(published) + 1
      BY <2>4 DEF Stream, IInv, TypeOK
    <3> QED
      BY <2>4, <3>1, <3>2 DEF Stream, steeringVars, Turn!Next, Turn!Publish
  <2>5. ASSUME NEW r, Finish(r) PROVE UNCHANGED <<channel, taken, published, pc>>
    BY <2>5 DEF Finish, steeringVars
  <2>6. CASE TakeSteering
    BY <2>6 DEF TakeSteering, Receive, callVars, Turn!Next, Turn!Take
  <2>7. CASE TakeResponse
    <3>1. CASE Overtake
      BY <2>7, <3>1 DEF TakeResponse, Overtake, Receive, callVars, Turn!Next, Turn!Take
    <3>2. CASE UseResponse /\ UNCHANGED <<inputVars, channel, taken>>
      BY <2>7, <3>2 DEF TakeResponse, UseResponse, callVars, Turn!Next, Turn!Return
    <3> QED
      BY <2>7, <3>1, <3>2 DEF TakeResponse
  <2>8. CASE Request \/ DropResponse \/ SteeringClosed \/ ContextDone
    BY <2>8 DEF Request, DropResponse, SteeringClosed, ContextDone, callVars, steeringVars
  <2>9. CASE Abandon \/ TakeError
    BY <2>9 DEF Abandon, TakeError, EndByError, callVars, steeringVars, Turn!Next, Turn!Return
  <2>10. CASE Tool \/ Recover
    BY <2>10 DEF Tool, Recover, callVars, steeringVars, Turn!Next, Turn!Return
  <2> QED
    BY <2>1, <2>2, <2>3, <2>4, <2>5, <2>6, <2>7, <2>8, <2>9, <2>10
       DEF Next, Caller, Run, Complete, Fail, Interrupted
<1> QED
  BY <1>1, <1>2, InvariantHolds, PTL DEF Spec, TurnSpec, Turn!Spec

-----------------------------------------------------------------------------
(* Steering on its way into the input, and the commentary that answers it *)

\* Messages are taken in the order in which they were sent.
LEMMA Numbered ==
  ASSUME TypeOK, SteeringKept
  PROVE  /\ \A i \in 1 .. Len(taken) : taken[i] = i
         /\ channel # <<>> => Head(channel) = Len(taken) + 1
<1>1. taken \in Seq(Messages) /\ channel \in Seq(Messages) /\ sent \in Nat
  BY DEF TypeOK
<1>2. taken \o channel = [m \in 1 .. sent |-> m]
  BY DEF SteeringKept
<1>3. Len(taken) + Len(channel) = sent
  BY <1>1, <1>2
<1>4. \A i \in 1 .. Len(taken) : (taken \o channel)[i] = taken[i] /\ i \in 1 .. sent
  BY <1>1, <1>3
<1>5. \A i \in 1 .. Len(taken) : taken[i] = i
  BY <1>2, <1>4
<1>6. ASSUME channel # <<>> PROVE Head(channel) = Len(taken) + 1
  <2>1. (taken \o channel)[Len(taken) + 1] = Head(channel) /\ Len(taken) + 1 \in 1 .. sent
    BY <1>1, <1>3, <1>6
  <2> QED
    BY <1>2, <2>1
<1> QED
  BY <1>5, <1>6

\* A message above all of the input is added to it, unless it is blank, and
\* takes over the commentary.
LEMMA IncorporateInput ==
  ASSUME TypeOK, SteeringKept, NEW m \in Messages, Incorporate(m),
         \A i \in 1 .. Len(steered) : steered[i] < m
  PROVE  /\ {steered'[i] : i \in 1 .. Len(steered')}
              = {steered[i] : i \in 1 .. Len(steered)} \union ({m} \ Blank)
         /\ \A i, j \in 1 .. Len(steered') : i < j => steered'[i] < steered'[j]
         /\ \/ UNCHANGED <<steered, target>>
            \/ steered' # <<>> /\ target' \in {0, m} /\ m = steered'[Len(steered')]
<1>1. steered \in Seq(Messages)
  BY DEF TypeOK
<1>2. \A i, j \in 1 .. Len(steered) : i < j => steered[i] < steered[j]
  BY DEF SteeringKept
<1>3. CASE m \in Blank
  BY <1>2, <1>3 DEF Incorporate, inputVars
<1>4. CASE m \notin Blank
  <2>1. steered' = Append(steered, m) /\ target' \in {0, m}
    BY <1>4 DEF Incorporate
  <2>2. /\ Len(steered') = Len(steered) + 1 /\ Len(steered) \in Nat /\ steered'[Len(steered')] = m
        /\ \A i \in 1 .. Len(steered) : steered'[i] = steered[i]
    BY <1>1, <2>1
  <2>3. \A i, j \in 1 .. Len(steered') : i < j => steered'[i] < steered'[j]
    BY <1>2, <2>2
  <2>4. \A i \in 1 .. Len(steered') : i \in 1 .. Len(steered) \/ i = Len(steered')
    BY <2>2
  <2>5. \A i \in 1 .. Len(steered) : i \in 1 .. Len(steered')
    BY <2>2
  <2>6. Len(steered') \in 1 .. Len(steered') /\ steered' # <<>>
    BY <1>1, <2>1, <2>2
  <2>7. {steered'[i] : i \in 1 .. Len(steered')}
          = {steered[i] : i \in 1 .. Len(steered)} \union {m}
    BY <2>2, <2>4, <2>5, <2>6
  <2> QED
    BY <1>4, <2>1, <2>2, <2>3, <2>6, <2>7
<1> QED
  BY <1>3, <1>4

\* A message that is received goes to the end of those taken.
LEMMA ReceiveKeeps ==
  ASSUME TypeOK, SteeringKept, Receive, UNCHANGED sent
  PROVE  /\ taken' \o channel' = [m \in 1 .. sent' |-> m]
         /\ Head(channel) = Len(taken) + 1 /\ Len(taken') = Len(taken) + 1
         /\ {taken'[i] : i \in 1 .. Len(taken')}
              = {taken[i] : i \in 1 .. Len(taken)} \union {Head(channel)}
<1>1. taken \in Seq(Messages) /\ channel \in Seq(Messages) /\ channel # <<>>
  BY DEF TypeOK, Receive
<1>2. taken' = Append(taken, Head(channel)) /\ channel' = Tail(channel)
  BY DEF Receive
<1>3. taken' \o channel' = taken \o channel
  BY <1>1, <1>2
<1>4. /\ Len(taken') = Len(taken) + 1 /\ Len(taken) \in Nat /\ taken'[Len(taken')] = Head(channel)
      /\ \A i \in 1 .. Len(taken) : taken'[i] = taken[i]
  BY <1>1, <1>2
<1>5. \A i \in 1 .. Len(taken') : i \in 1 .. Len(taken) \/ i = Len(taken')
  BY <1>4
<1>6. \A i \in 1 .. Len(taken) : i \in 1 .. Len(taken')
  BY <1>4
<1>7. Len(taken') \in 1 .. Len(taken')
  BY <1>4
<1>8. {taken'[i] : i \in 1 .. Len(taken')}
        = {taken[i] : i \in 1 .. Len(taken)} \union {Head(channel)}
  BY <1>4, <1>5, <1>6, <1>7
<1> QED
  BY <1>1, <1>3, <1>4, <1>8, Numbered DEF SteeringKept

\* Whatever is in the input was taken and is below a message that is taken next
\* or that waits to be used.
LEMMA InputBelow ==
  ASSUME TypeOK, SteeringKept, Targets
  PROVE  /\ \A i \in 1 .. Len(steered) : steered[i] \in 1 .. Len(taken) /\ steered[i] # got
         /\ got # 0 => \A i \in 1 .. Len(steered) : steered[i] < got
         /\ channel # <<>> => \A i \in 1 .. Len(steered) : steered[i] < Head(channel)
<1>1. taken \in Seq(Messages) /\ steered \in Seq(Messages) /\ got \in Messages \union {0}
  BY DEF TypeOK
<1>2. {steered[i] : i \in 1 .. Len(steered)}
        = {taken[i] : i \in 1 .. Len(taken)} \ (Blank \union {got})
  BY DEF SteeringKept
<1>3. ASSUME NEW i \in 1 .. Len(steered) PROVE steered[i] \in 1 .. Len(taken) /\ steered[i] # got
  <2>1. steered[i] \in {steered[j] : j \in 1 .. Len(steered)}
    OBVIOUS
  <2>2. PICK j \in 1 .. Len(taken) : steered[i] = taken[j]
    BY <1>2, <2>1
  <2>3. steered[i] # got
    BY <1>2, <2>1
  <2> QED
    BY <2>2, <2>3, Numbered
<1>4. Len(taken) \in Nat
  BY <1>1
<1>5. got # 0 => got = Len(taken)
  BY DEF Targets
<1>6. channel # <<>> => Head(channel) = Len(taken) + 1
  BY Numbered
<1> QED
  BY <1>3, <1>4, <1>5, <1>6

\* A message used keeps the targets: nothing published answers it yet.
LEMMA IncorporateTargets ==
  ASSUME SteeringInv, NEW m \in Messages, Incorporate(m), got' = 0, UNCHANGED published,
         \A i \in 1 .. Len(steered) : steered[i] < m
  PROVE  Targets'
<1>1. TypeOK /\ SteeringKept /\ Targets
  BY DEF SteeringInv, IInv, SteeringServed
<1>2. /\ {steered'[i] : i \in 1 .. Len(steered')}
           = {steered[i] : i \in 1 .. Len(steered)} \union ({m} \ Blank)
      /\ \/ UNCHANGED <<steered, target>>
         \/ steered' # <<>> /\ target' \in {0, m} /\ m = steered'[Len(steered')]
  BY <1>1, IncorporateInput
<1>3. target' # 0 => steered' # <<>> /\ target' = steered'[Len(steered')]
  BY <1>1, <1>2 DEF Targets
<1>4. ASSUME NEW i \in 1 .. Len(published), published[i].to # 0
      PROVE  /\ published[i].to # target'
             /\ published[i].to \in {steered'[j] : j \in 1 .. Len(steered')}
  <2>1. /\ published[i].to # target
        /\ published[i].to \in {steered[j] : j \in 1 .. Len(steered)}
    BY <1>1, <1>4 DEF Targets
  <2>2. PICK j \in 1 .. Len(steered) : published[i].to = steered[j]
    BY <2>1
  <2>3. steered[j] < m /\ steered[j] \in Messages
    BY <1>1 DEF TypeOK
  <2>4. published[i].to # m
    BY <2>2, <2>3 DEF Messages
  <2> QED
    BY <1>2, <1>4, <2>1, <2>4
<1> QED
  BY <1>3, <1>4 DEF Targets

\* A response in flight publishes for the last message its request knew.
LEMMA StreamServes ==
  ASSUME SteeringInv, Stream
  PROVE  RepliesFit' /\ Targets'
<1> DEFINE item == [to |-> target, last |-> IF asked = <<>> THEN 0 ELSE asked[Len(asked)]]
<1>1. TypeOK /\ RepliesFit /\ Targets
  BY DEF SteeringInv, IInv, SteeringServed
<1>2. asked = steered
  BY DEF SteeringInv, IInv, Stream
<1>3. published' = Append(published, item) /\ target' = 0 /\ UNCHANGED <<steered, taken, got>>
  BY DEF Stream, steeringVars
<1>4. published \in Seq(Comments)
  BY <1>1 DEF TypeOK
<1>5. item.to = target /\ (target # 0 => item.last = target)
  BY <1>1, <1>2 DEF Targets
<1> HIDE DEF item
<1>6. /\ Len(published') = Len(published) + 1 /\ Len(published) \in Nat
      /\ published'[Len(published')] = item
      /\ \A i \in 1 .. Len(published) : published'[i] = published[i]
  BY <1>3, <1>4
<1>7. \A i \in 1 .. Len(published') : i \in 1 .. Len(published) \/ i = Len(published')
  BY <1>6
<1>8. \A i \in 1 .. Len(published) : published[i].to # 0 => published[i].to # target
  BY <1>1 DEF Targets
<1>9. RepliesFit'
  <2>1. ASSUME NEW i \in 1 .. Len(published'), published'[i].to # 0
        PROVE  published'[i].last = published'[i].to
    BY <1>1, <1>5, <1>6, <1>7, <2>1 DEF RepliesFit
  <2>2. ASSUME NEW i \in 1 .. Len(published'), published'[i].to # 0,
               NEW j \in 1 .. Len(published'), published'[j].to = published'[i].to
        PROVE  i = j
    BY <1>1, <1>5, <1>6, <1>7, <1>8, <2>2 DEF RepliesFit
  <2> QED
    BY <2>1, <2>2 DEF RepliesFit
<1>10. target # 0 => target \in {steered[j] : j \in 1 .. Len(steered)}
  <2>1. target # 0 => steered # <<>> /\ target = steered[Len(steered)]
    BY <1>1 DEF Targets
  <2>2. steered \in Seq(Messages)
    BY <1>1 DEF TypeOK
  <2> QED
    BY <2>1, <2>2
<1>11. \A i \in 1 .. Len(published) : published[i].to # 0 =>
         published[i].to \in {steered[j] : j \in 1 .. Len(steered)}
  BY <1>1 DEF Targets
<1>12. got # 0 => got = Len(taken)
  BY <1>1 DEF Targets
<1>13. Targets'
  BY <1>3, <1>5, <1>6, <1>7, <1>10, <1>11, <1>12 DEF Targets
<1> QED
  BY <1>9, <1>13

(***************************************************************************)
(* Every step keeps the steering on its way and the targets of commentary. *)
(***************************************************************************)
LEMMA SteeringStep == SteeringInv /\ [Next]_vars => SteeringInv'
<1> SUFFICES ASSUME SteeringInv, [Next]_vars PROVE SteeringKept' /\ RepliesFit' /\ Targets'
  BY InvStep DEF SteeringInv, SteeringServed
<1> USE RunnerAssumption
<1>t. IInv /\ TypeOK /\ SteeringKept /\ RepliesFit /\ Targets
  BY DEF SteeringInv, IInv, SteeringServed
<1>0. CASE UNCHANGED <<sent, channel, taken, got, steered, target, published>>
  <2>0. /\ sent' = sent /\ channel' = channel /\ taken' = taken /\ got' = got
        /\ steered' = steered
    BY <1>0
  <2>1. SteeringKept'
    <3>1. taken' \o channel' = [m \in 1..sent' |-> m]
      BY <2>0, <1>t DEF SteeringKept
    <3>2. {steered'[i] : i \in 1..Len(steered')}
            = {taken'[i] : i \in 1..Len(taken')} \ (Blank \union {got'})
      BY <2>0, <1>t DEF SteeringKept
    <3>3. \A i, j \in 1..Len(steered') : i < j => steered'[i] < steered'[j]
      BY <2>0, <1>t DEF SteeringKept
    <3> QED
      BY <3>1, <3>2, <3>3 DEF SteeringKept
  <2>2. RepliesFit'
    BY <1>0, <1>t DEF RepliesFit
  <2>3. Targets'
    BY <1>0, <1>t DEF Targets
  <2> QED
    BY <2>1, <2>2, <2>3
<1>1. CASE Send
  <2>1. channel \in Seq(Messages) /\ taken \in Seq(Messages) /\ sent \in Nat /\ sent + 1 \in Messages
    BY <1>1, <1>t DEF Send, TypeOK, Messages
  <2>2. channel' = Append(channel, sent + 1) /\ sent' = sent + 1
        /\ UNCHANGED <<taken, got, steered, target, published>>
    BY <1>1 DEF Send, callVars, inputVars
  <2>3. taken \o channel' = Append(taken \o channel, sent + 1)
    BY <2>1, <2>2
  <2>4. Append([m \in 1 .. sent |-> m], sent + 1) = [m \in 1 .. sent + 1 |-> m]
    BY <2>1
  <2>5. taken' \o channel' = [m \in 1 .. sent' |-> m]
    BY <1>t, <2>2, <2>3, <2>4 DEF SteeringKept
  <2>6. SteeringKept'
    <3>1. steered' = steered /\ taken' = taken /\ got' = got
      BY <2>2
    <3>2. /\ {steered[i] : i \in 1 .. Len(steered)}
               = {taken[i] : i \in 1 .. Len(taken)} \ (Blank \union {got})
          /\ \A i, j \in 1 .. Len(steered) : i < j => steered[i] < steered[j]
      BY <1>t DEF SteeringKept
    <3>3. /\ {steered'[i] : i \in 1 .. Len(steered')}
               = {taken'[i] : i \in 1 .. Len(taken')} \ (Blank \union {got'})
          /\ \A i, j \in 1 .. Len(steered') : i < j => steered'[i] < steered'[j]
      BY <3>1, <3>2
    <3> QED
      BY <2>5, <3>3 DEF SteeringKept
  <2>7. RepliesFit'
    BY <1>t, <2>2 DEF RepliesFit
  <2>8. Targets'
    BY <1>t, <2>2 DEF Targets
  <2> QED
    BY <2>6, <2>7, <2>8
<1>2. CASE Stream
  <2>1. SteeringKept'
    BY <1>2, <1>t DEF Stream, SteeringKept, callerVars, steeringVars
  <2> QED
    BY <1>2, <2>1, StreamServes
<1>3. CASE TakeSteering
  <2>1. Receive /\ got' = Head(channel) /\ UNCHANGED <<sent, steered, target, published>>
    BY <1>3 DEF TakeSteering, inputVars, callerVars, callVars
  <2>2. got = 0
    BY <1>3, <1>t DEF TakeSteering, IInv
  <2>3. /\ taken' \o channel' = [m \in 1 .. sent' |-> m]
        /\ Head(channel) = Len(taken) + 1 /\ Len(taken') = Len(taken) + 1
        /\ {taken'[i] : i \in 1 .. Len(taken')}
             = {taken[i] : i \in 1 .. Len(taken)} \union {Head(channel)}
    BY <1>t, <2>1, ReceiveKeeps
  <2>4. {taken[i] : i \in 1 .. Len(taken)} \subseteq 1 .. Len(taken)
        /\ 0 \notin {taken[i] : i \in 1 .. Len(taken)} /\ Len(taken) + 1 \notin 1 .. Len(taken)
    <3>1. Len(taken) \in Nat
      BY <1>t DEF TypeOK
    <3> QED
      BY <1>t, <3>1, Numbered
  <2>5. {steered[i] : i \in 1 .. Len(steered)}
          = {taken[i] : i \in 1 .. Len(taken)} \ (Blank \union {got})
    BY <1>t DEF SteeringKept
  <2>6. {steered[i] : i \in 1 .. Len(steered)}
          = {taken'[i] : i \in 1 .. Len(taken')} \ (Blank \union {got'})
    <3>1. got' \notin {taken[i] : i \in 1 .. Len(taken)} /\ got \notin {taken[i] : i \in 1 .. Len(taken)}
      BY <2>1, <2>2, <2>3, <2>4
    <3>2. {taken'[i] : i \in 1 .. Len(taken')} = {taken[i] : i \in 1 .. Len(taken)} \union {got'}
      BY <2>1, <2>3
    <3> QED
      BY <2>5, <3>1, <3>2
  <2>7. SteeringKept'
    BY <1>t, <2>1, <2>3, <2>6 DEF SteeringKept
  <2> QED
    BY <1>t, <2>1, <2>3, <2>7 DEF RepliesFit, Targets
<1>4. CASE DropResponse
  <2>1. /\ got # 0 /\ got \in Messages /\ Incorporate(got) /\ got' = 0
        /\ UNCHANGED <<sent, channel, taken, published>>
    BY <1>4, <1>t DEF DropResponse, IInv, TypeOK, callerVars, callVars
  <2>2. \A i \in 1 .. Len(steered) : steered[i] < got
    BY <1>t, <2>1, InputBelow
  <2>3. /\ {steered'[i] : i \in 1 .. Len(steered')}
             = {steered[i] : i \in 1 .. Len(steered)} \union ({got} \ Blank)
        /\ \A i, j \in 1 .. Len(steered') : i < j => steered'[i] < steered'[j]
    BY <1>t, <2>1, <2>2, IncorporateInput
  <2>4. got \in {taken[i] : i \in 1 .. Len(taken)} /\ 0 \notin {taken[i] : i \in 1 .. Len(taken)}
    <3>1. got = Len(taken) /\ Len(taken) \in Nat
      BY <1>t, <2>1 DEF Targets, TypeOK
    <3>2. got \in 1 .. Len(taken) /\ taken[got] = got
      BY <1>t, <2>1, <3>1, Numbered
    <3>3. \A i \in 1 .. Len(taken) : taken[i] # 0
      BY <1>t, Numbered
    <3> QED
      BY <3>2, <3>3
  <2>5. {steered[i] : i \in 1 .. Len(steered)}
          = {taken[i] : i \in 1 .. Len(taken)} \ (Blank \union {got})
    BY <1>t DEF SteeringKept
  <2>6. {steered'[i] : i \in 1 .. Len(steered')}
          = {taken[i] : i \in 1 .. Len(taken)} \ (Blank \union {0})
    BY <2>3, <2>4, <2>5
  <2>7. SteeringKept'
    BY <1>t, <2>1, <2>3, <2>6 DEF SteeringKept
  <2>8. Targets'
    BY <2>1, <2>2, IncorporateTargets
  <2> QED
    BY <1>t, <2>1, <2>7, <2>8 DEF RepliesFit
<1>5. CASE TakeResponse
  <2>1. CASE Overtake
    <3>1. got = 0 /\ got' = 0 /\ UNCHANGED <<sent, published>>
      BY <1>5, <1>t DEF TakeResponse, IInv, callerVars, callVars
    <3>2. Receive /\ Incorporate(Head(channel)) /\ Head(channel) \in Messages /\ channel # <<>>
      BY <1>t, <2>1, ReceiveType DEF Overtake, Receive
    <3>3. \A i \in 1 .. Len(steered) : steered[i] < Head(channel)
      BY <1>t, <3>2, InputBelow
    <3>4. /\ taken' \o channel' = [m \in 1 .. sent' |-> m]
          /\ {taken'[i] : i \in 1 .. Len(taken')}
               = {taken[i] : i \in 1 .. Len(taken)} \union {Head(channel)}
      BY <1>t, <3>1, <3>2, ReceiveKeeps
    <3>5. /\ {steered'[i] : i \in 1 .. Len(steered')}
               = {steered[i] : i \in 1 .. Len(steered)} \union ({Head(channel)} \ Blank)
          /\ \A i, j \in 1 .. Len(steered') : i < j => steered'[i] < steered'[j]
      BY <1>t, <3>2, <3>3, IncorporateInput
    <3>6. {steered[i] : i \in 1 .. Len(steered)}
            = {taken[i] : i \in 1 .. Len(taken)} \ (Blank \union {0})
      BY <1>t, <3>1 DEF SteeringKept
    <3>7. {steered'[i] : i \in 1 .. Len(steered')}
            = {taken'[i] : i \in 1 .. Len(taken')} \ (Blank \union {0})
      <4>1. Head(channel) # 0
        BY <3>2 DEF Messages
      <4> QED
        BY <3>4, <3>5, <3>6, <4>1
    <3>8. SteeringKept'
      BY <3>1, <3>4, <3>5, <3>7 DEF SteeringKept
    <3>9. Targets'
      BY <3>1, <3>2, <3>3, IncorporateTargets
    <3> QED
      BY <1>t, <3>1, <3>8, <3>9 DEF RepliesFit
  <2>2. CASE UNCHANGED <<inputVars, channel, taken>>
    BY <1>0, <1>5, <2>2 DEF TakeResponse, inputVars, callerVars, callVars
  <2> QED
    BY <1>5, <2>1, <2>2 DEF TakeResponse
<1>6. CASE UNCHANGED vars
  BY <1>0, <1>6 DEF vars, callerVars, callVars, inputVars, steeringVars
<1>7. ASSUME Close \/ (\E how \in {"expired", "cancelled"} : EndContext(how))
      PROVE  UNCHANGED <<sent, channel, taken, got, steered, target, published>>
  BY <1>7 DEF Close, EndContext, callVars, inputVars, steeringVars
<1>8. ASSUME Complete \/ Fail \/ Interrupted
      PROVE  UNCHANGED <<sent, channel, taken, got, steered, target, published>>
  BY <1>8 DEF Complete, Fail, Interrupted, Finish, callerVars, inputVars, steeringVars
<1>9. ASSUME Request \/ SteeringClosed \/ ContextDone \/ Abandon \/ TakeError \/ Tool \/ Recover
      PROVE  UNCHANGED <<sent, channel, taken, got, steered, target, published>>
  BY <1>9 DEF Request, SteeringClosed, ContextDone, Abandon, TakeError, Tool, Recover,
              callerVars, callVars, inputVars, steeringVars
<1> QED
  BY <1>0, <1>1, <1>2, <1>3, <1>4, <1>5, <1>6, <1>7, <1>8, <1>9 DEF Next, Caller, Run

(***************************************************************************)
(* Every steering message taken from the channel reaches the input, in     *)
(* order and once, and a commentary posted as the reply to a message comes *)
(* from a response that knew this message last and is the only one         *)
(* (Runner.Run, firstCommentaryTarget).                                    *)
(***************************************************************************)
THEOREM SteeringReaches == Spec => []SteeringServed
<1>1. Init => SteeringInv
  <2> SUFFICES ASSUME Init PROVE SteeringKept /\ RepliesFit /\ Targets
    BY InvInit DEF SteeringInv, SteeringServed
  <2>1. <<>> \o <<>> = [m \in 1 .. 0 |-> m]
    OBVIOUS
  <2>2. Len(steered) = 0 /\ Len(taken) = 0 /\ Len(published) = 0 /\ 1 .. 0 = {}
    BY DEF Init
  <2> QED
    BY <2>1, <2>2 DEF Init, SteeringKept, RepliesFit, Targets
<1>2. SteeringInv => SteeringServed
  BY DEF SteeringInv
<1> QED
  BY <1>1, <1>2, SteeringStep, PTL DEF Spec
=============================================================================
