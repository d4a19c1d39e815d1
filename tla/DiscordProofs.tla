---------------------------- MODULE DiscordProofs ----------------------------
(***************************************************************************)
(* Proofs about the two state machines of discord-commands.  DiscordTasks, *)
(* for any number of deliveries, duplicates among them, and any capacity   *)
(* of the steering channels: the invariant IInv is inductive, part by      *)
(* part.  VoiceSession with its CodexBridge, for any speakers, capacities  *)
(* and numbers of joins and utterances: the invariant VoiceInv is          *)
(* inductive.                                                              *)
(***************************************************************************)
EXTENDS DiscordTasks, VoiceSession, FiniteSetTheorems, SequenceTheorems, TLAPS

(* Discord tasks *)

\* The messages of a sequence.
LEMMA RangeFacts ==
  ASSUME NEW S, NEW s \in Seq(S)
  PROVE  Range(s) = {s[i] : i \in 1..Len(s)} /\ Range(s) \subseteq S
BY DEF Range

\* A run that takes the head of its channel was given the same messages.
LEMMA TakeGiven ==
  ASSUME NEW S, NEW q \in Seq(S), NEW t \in Seq(S), q # <<>>, IsInjective(q \o t)
  PROVE  /\ Range(Tail(q) \o Append(t, Head(q))) = Range(q \o t)
         /\ IsInjective(Tail(q) \o Append(t, Head(q)))
<1> DEFINE a == q \o t
           b == Tail(q) \o Append(t, Head(q))
           n == Len(q) + Len(t)
<1>1. a \in Seq(S) /\ b \in Seq(S) /\ Len(a) = n /\ Len(b) = n /\ n \in Nat \ {0}
  OBVIOUS
<1>2. \A i \in 1..n : b[i] = IF i < n THEN a[i + 1] ELSE a[1]
  OBVIOUS
<1>3. \A i, j \in 1..n : a[i] = a[j] => i = j
  BY <1>1 DEF IsInjective
<1> HIDE DEF a, b, n
<1>4. \A i, j \in 1..n : b[i] = b[j] => i = j
  BY <1>1, <1>2, <1>3
<1>5. \A i \in 1..n : (\E j \in 1..n : a[j] = b[i]) /\ (\E j \in 1..n : b[j] = a[i])
  <2> SUFFICES ASSUME NEW i \in 1..n
               PROVE  (\E j \in 1..n : a[j] = b[i]) /\ (\E j \in 1..n : b[j] = a[i])
    OBVIOUS
  <2>1. \E j \in 1..n : a[j] = b[i]
    BY <1>1, <1>2
  <2>2. CASE i = 1
    <3>1. b[n] = a[i] /\ n \in 1..n
      BY <1>1, <1>2, <2>2
    <3> QED
      BY <2>1, <3>1
  <2>3. CASE i # 1
    <3>1. i - 1 \in 1..n /\ b[i - 1] = a[i]
      BY <1>1, <1>2, <2>3
    <3> QED
      BY <2>1, <3>1
  <2> QED
    BY <2>2, <2>3
<1>6. Range(a) = {a[i] : i \in 1..n} /\ Range(b) = {b[i] : i \in 1..n}
  BY <1>1, RangeFacts
<1>7. Range(a) = Range(b)
  <2>1. \A x \in Range(a) : x \in Range(b)
    BY <1>5, <1>6
  <2>2. \A x \in Range(b) : x \in Range(a)
    BY <1>5, <1>6
  <2> QED
    BY <2>1, <2>2
<1>8. DOMAIN b = 1..n
  BY <1>1
<1>9. IsInjective(b)
  BY <1>4, <1>8 DEF IsInjective
<1> QED
  BY <1>7, <1>9 DEF a, b

\* A new message in the channel is one more message given.
LEMMA SendGiven ==
  ASSUME NEW S, NEW q \in Seq(S), NEW t \in Seq(S), NEW m \in S,
         m \notin Range(q \o t), IsInjective(q \o t)
  PROVE  /\ Range(Append(q, m) \o t) = Range(q \o t) \union {m}
         /\ IsInjective(Append(q, m) \o t)
<1> DEFINE a == q \o t
           b == Append(q, m) \o t
           k == Len(q)
           n == Len(q) + Len(t)
<1>1. /\ a \in Seq(S) /\ b \in Seq(S) /\ Len(a) = n /\ Len(b) = n + 1
      /\ n \in Nat /\ k \in Nat /\ k <= n
  OBVIOUS
<1>2. \A i \in 1..n + 1 :
        b[i] = IF i <= k THEN a[i] ELSE IF i = k + 1 THEN m ELSE a[i - 1]
  OBVIOUS
<1>3. \A i, j \in 1..n : a[i] = a[j] => i = j
  BY <1>1 DEF IsInjective
<1>4. Range(a) = {a[i] : i \in 1..n} /\ Range(b) = {b[i] : i \in 1..n + 1}
  BY <1>1, RangeFacts
<1>5. \A i \in 1..n : a[i] # m
  BY <1>4
<1> HIDE DEF a, b, k, n
<1>6. \A i, j \in 1..n + 1 : b[i] = b[j] => i = j
  <2> SUFFICES ASSUME NEW i \in 1..n + 1, NEW j \in 1..n + 1, b[i] = b[j]
               PROVE  i = j
    OBVIOUS
  <2>1. i # k + 1 => (IF i <= k THEN i ELSE i - 1) \in 1..n
    BY <1>1
  <2>2. j # k + 1 => (IF j <= k THEN j ELSE j - 1) \in 1..n
    BY <1>1
  <2>3. CASE i = k + 1
    BY <1>1, <1>2, <1>5, <2>2, <2>3
  <2>4. CASE j = k + 1
    BY <1>1, <1>2, <1>5, <2>1, <2>4
  <2>5. CASE i # k + 1 /\ j # k + 1
    <3>1. (IF i <= k THEN i ELSE i - 1) = (IF j <= k THEN j ELSE j - 1)
      BY <1>1, <1>2, <1>3, <2>1, <2>2, <2>5
    <3> QED
      BY <1>1, <2>5, <3>1
  <2> QED
    BY <2>3, <2>4, <2>5
<1>7. ASSUME NEW i \in 1..n + 1 PROVE b[i] \in Range(a) \union {m}
  <2>1. CASE i <= k
    BY <1>1, <1>2, <1>4, <2>1
  <2>2. CASE i = k + 1
    BY <1>1, <1>2, <2>2
  <2>3. CASE i > k + 1
    <3>1. i - 1 \in 1..n /\ b[i] = a[i - 1]
      BY <1>1, <1>2, <2>3
    <3> QED
      BY <1>4, <3>1
  <2> QED
    BY <1>1, <2>1, <2>2, <2>3
<1>8. ASSUME NEW i \in 1..n PROVE a[i] \in Range(b)
  <2>1. CASE i <= k
    <3>1. i \in 1..n + 1 /\ b[i] = a[i]
      BY <1>1, <1>2, <2>1
    <3> QED
      BY <1>4, <3>1
  <2>2. CASE i > k
    <3>1. i + 1 \in 1..n + 1 /\ b[i + 1] = a[i]
      BY <1>1, <1>2, <2>2
    <3> QED
      BY <1>4, <3>1
  <2> QED
    BY <1>1, <2>1, <2>2
<1>9. m \in Range(b)
  <2>1. k + 1 \in 1..n + 1 /\ b[k + 1] = m
    BY <1>1, <1>2
  <2> QED
    BY <1>4, <2>1
<1>10. Range(b) = Range(a) \union {m}
  BY <1>4, <1>7, <1>8, <1>9
<1>11. DOMAIN b = 1..n + 1
  BY <1>1
<1>12. IsInjective(b)
  BY <1>6, <1>11 DEF IsInjective
<1> QED
  BY <1>10, <1>12 DEF a, b

\* Where a handler goes: it is the only one that moves.
LEMMA GotoFacts ==
  ASSUME TypeOK, NEW d \in Deliveries, NEW state, Goto(d, state)
  PROVE  /\ pc'[d] = state /\ \A e \in Deliveries \ {d} : pc'[e] = pc[e]
         /\ state \in States => pc' \in [Deliveries -> States]
BY DEF TypeOK, Goto

-----------------------------------------------------------------------------
(* The parts of the invariant *)

LEMMA TypeInit == Init => TypeOK
<1> SUFFICES ASSUME Init PROVE TypeOK
  OBVIOUS
<1>1. pc \in [Deliveries -> States] /\ activeTask \in Deliveries \union {None}
  BY DEF Init, States
<1>2. /\ queue \in [Deliveries -> Seq(Deliveries)] /\ taken \in [Deliveries -> Seq(Deliveries)]
      /\ \A d \in Deliveries : Len(queue[d]) <= SteeringCap
  BY DiscordAssumption DEF Init
<1>3. posted \in [Deliveries -> 0..MaxComments]
  BY DiscordAssumption DEF Init
<1>4. /\ shown \in [Deliveries -> Nat] /\ tracked \in [Deliveries -> Nat]
      /\ left \in [Deliveries -> Nat] /\ replied \subseteq Deliveries
  BY DEF Init
<1>5. /\ {recorded, refused} \subseteq SUBSET {Message[d] : d \in Deliveries}
      /\ {observed, missed, turnedAway} \subseteq SUBSET Deliveries
  BY DEF Init
<1> QED
  BY <1>1, <1>2, <1>3, <1>4, <1>5 DEF TypeOK

\* The rows of the history and the fates of the messages.
FateTypeOK ==
  /\ {recorded, refused} \subseteq SUBSET {Message[d] : d \in Deliveries}
  /\ {observed, missed, turnedAway} \subseteq SUBSET Deliveries

LEMMA FateType == TypeOK /\ [Next]_vars => FateTypeOK'
<1> SUFFICES ASSUME TypeOK, [Next]_vars PROVE FateTypeOK'
  OBVIOUS
<1> USE DEF rowVars, fateVars, FateTypeOK, Record
<1>t. FateTypeOK
  BY DEF TypeOK
<1>r. \A d \in Deliveries : Range(queue[d]) \subseteq Deliveries /\ Range(taken[d]) \subseteq Deliveries
  BY RangeFacts DEF TypeOK
<1>1. ASSUME NEW d \in Deliveries, EnqueueFirst(d) \/ EnqueueAgain(d) PROVE FateTypeOK'
  BY <1>1, <1>t DEF EnqueueFirst, EnqueueAgain, EnqueueSteering
<1>2. ASSUME NEW d \in Deliveries, Observe(d) PROVE FateTypeOK'
  BY <1>2, <1>t DEF Observe
<1>3. ASSUME NEW d \in Deliveries, Abandon(d) PROVE FateTypeOK'
  BY <1>3, <1>t DEF Abandon, NoteTurnedAway
<1>4. ASSUME NEW d \in Deliveries, Finish(d) PROVE FateTypeOK'
  BY <1>4, <1>t DEF Finish
<1>5. ASSUME NEW d \in Deliveries, Reply(d) PROVE FateTypeOK'
  BY <1>5, <1>t, <1>r DEF Reply
<1>6. ASSUME NEW d \in Deliveries, Unregister(d) PROVE FateTypeOK'
  BY <1>6, <1>t, <1>r DEF Unregister
<1>7. \/ UNCHANGED vars
      \/ \E d \in Deliveries : Receive(d) \/ Register(d) \/ Take(d) \/ Publish(d) \/ DeleteAll(d)
      => UNCHANGED <<rowVars, fateVars>>
  BY DEF vars, Receive, Register, Take, Publish, DeleteAll
<1>8. UNCHANGED <<rowVars, fateVars>> => FateTypeOK'
  BY <1>t
<1> QED
  BY <1>1, <1>2, <1>3, <1>4, <1>5, <1>6, <1>7, <1>8 DEF Next, Handle

LEMMA EnqueueType ==
  ASSUME TypeOK, NEW d \in Deliveries, EnqueueSteering(d)
  PROVE  /\ queue' \in [Deliveries -> Seq(Deliveries)]
         /\ \A e \in Deliveries : Len(queue'[e]) <= SteeringCap
         /\ pc' \in [Deliveries -> States]
<1>1. activeTask \in Deliveries
  BY DEF TypeOK, EnqueueSteering, Steers
<1>2. queue \in [Deliveries -> Seq(Deliveries)] /\ \A e \in Deliveries : Len(queue[e]) <= SteeringCap
  BY DEF TypeOK
<1>r. pc' \in [Deliveries -> States]
  BY GotoFacts DEF EnqueueSteering, States, TypeOK
<1>3. CASE Len(queue[activeTask]) < SteeringCap
  <2>1. queue' = [queue EXCEPT ![activeTask] = Append(@, d)]
    BY <1>3 DEF EnqueueSteering
  <2>2. queue' \in [Deliveries -> Seq(Deliveries)]
    BY <1>1, <1>2, <2>1
  <2>3. \A e \in Deliveries : Len(queue'[e]) <= SteeringCap
    BY <1>1, <1>2, <1>3, <2>1, DiscordAssumption
  <2> QED
    BY <1>r, <2>2, <2>3
<1>4. CASE ~(Len(queue[activeTask]) < SteeringCap)
  BY <1>r, <1>2, <1>4 DEF EnqueueSteering
<1> QED
  BY <1>3, <1>4

LEMMA TypeStep == TypeOK /\ Tallied /\ [Next]_vars => TypeOK'
<1> SUFFICES ASSUME TypeOK, Tallied, [Next]_vars PROVE TypeOK'
  OBVIOUS
<1> USE DEF taskVars, postVars
<1>f. FateTypeOK'
  BY FateType
<1>1. ASSUME NEW d \in Deliveries, EnqueueFirst(d) \/ EnqueueAgain(d) PROVE TypeOK'
  BY <1>f, <1>1, EnqueueType DEF TypeOK, FateTypeOK, EnqueueFirst, EnqueueAgain
<1>2. ASSUME NEW d \in Deliveries, Receive(d) PROVE TypeOK'
  BY <1>f, <1>2, GotoFacts DEF TypeOK, FateTypeOK, Receive, States
<1>3. ASSUME NEW d \in Deliveries, Observe(d) PROVE TypeOK'
  <2>1. pc' \in [Deliveries -> States]
    BY <1>3, GotoFacts DEF Observe, States
  <2> QED
    BY <1>f, <1>3, <2>1 DEF TypeOK, FateTypeOK, Observe
<1>10. ASSUME NEW d \in Deliveries, Abandon(d) PROVE TypeOK'
  BY <1>f, <1>10, GotoFacts DEF TypeOK, FateTypeOK, Abandon, States
<1>11. ASSUME NEW d \in Deliveries, Register(d) PROVE TypeOK'
  BY <1>f, <1>11, GotoFacts DEF TypeOK, FateTypeOK, Register, States, Owning
<1>12. ASSUME NEW d \in Deliveries, Unregister(d) PROVE TypeOK'
  BY <1>f, <1>12, GotoFacts DEF TypeOK, FateTypeOK, Unregister, States
<1>4. ASSUME NEW d \in Deliveries, Take(d) PROVE TypeOK'
  <2>1. queue[d] \in Seq(Deliveries) /\ taken[d] \in Seq(Deliveries) /\ queue[d] # <<>>
    BY <1>4 DEF TypeOK, Take
  <2>2. /\ Head(queue[d]) \in Deliveries /\ Tail(queue[d]) \in Seq(Deliveries)
        /\ Len(Tail(queue[d])) <= Len(queue[d]) /\ Append(taken[d], Head(queue[d])) \in Seq(Deliveries)
    BY <2>1
  <2>3. /\ queue' = [queue EXCEPT ![d] = Tail(queue[d])]
        /\ taken' = [taken EXCEPT ![d] = Append(taken[d], Head(queue[d]))]
    BY <1>4 DEF Take
  <2>4. queue' \in [Deliveries -> Seq(Deliveries)] /\ taken' \in [Deliveries -> Seq(Deliveries)]
    BY <2>2, <2>3 DEF TypeOK
  <2>5. \A e \in Deliveries : Len(queue'[e]) <= SteeringCap
    <3>1. Len(queue[d]) <= SteeringCap
      BY DEF TypeOK
    <3>2. Len(Tail(queue[d])) <= SteeringCap
      BY <2>1, <3>1, DiscordAssumption
    <3> QED
      BY <2>3, <3>2 DEF TypeOK
  <2> QED
    BY <1>f, <1>4, <2>4, <2>5 DEF TypeOK, FateTypeOK, Take
<1>5. ASSUME NEW d \in Deliveries, Publish(d) PROVE TypeOK'
  <2>1. posted' \in [Deliveries -> 0..MaxComments]
    <3>1. posted[d] \in 0..MaxComments /\ posted[d] < MaxComments /\ MaxComments \in Nat
      BY <1>5, DiscordAssumption DEF TypeOK, Publish
    <3>2. posted[d] + 1 \in 0..MaxComments
      BY <3>1
    <3>3. posted' = [posted EXCEPT ![d] = posted[d] + 1]
      BY <1>5 DEF Publish
    <3> QED
      BY <3>2, <3>3 DEF TypeOK
  <2>2. /\ shown \in [Deliveries -> Nat] /\ tracked \in [Deliveries -> Nat]
        /\ left \in [Deliveries -> Nat]
    BY DEF TypeOK
  <2>3. /\ shown' = shown \/ shown' = [shown EXCEPT ![d] = shown[d] + 1]
        /\ tracked' = tracked \/ tracked' = [tracked EXCEPT ![d] = tracked[d] + 1]
        /\ left' = left \/ left' = [left EXCEPT ![d] = left[d] + 1]
    BY <1>5 DEF Publish
  <2>4. /\ shown' \in [Deliveries -> Nat] /\ tracked' \in [Deliveries -> Nat]
        /\ left' \in [Deliveries -> Nat]
    BY <2>2, <2>3
  <2> QED
    BY <1>f, <1>5, <2>1, <2>4 DEF TypeOK, FateTypeOK, Publish
<1>6. ASSUME NEW d \in Deliveries, Finish(d) PROVE TypeOK'
  <2>1. pc' \in [Deliveries -> States]
    BY <1>6, GotoFacts DEF Finish, States, Owning
  <2> QED
    BY <1>f, <1>6, <2>1 DEF TypeOK, FateTypeOK, Finish
<1>7. ASSUME NEW d \in Deliveries, Reply(d) PROVE TypeOK'
  BY <1>f, <1>7, GotoFacts DEF TypeOK, FateTypeOK, Reply, States, Owning
<1>8. ASSUME NEW d \in Deliveries, DeleteAll(d) PROVE TypeOK'
  <2>1. PICK failed \in 0..tracked[d] :
          /\ shown' = [shown EXCEPT ![d] = shown[d] - tracked[d] + failed]
          /\ left' = [left EXCEPT ![d] = left[d] + failed]
    BY <1>8 DEF DeleteAll
  <2>2. shown[d] = tracked[d] + left[d] /\ tracked[d] \in Nat /\ left[d] \in Nat
    BY DEF TypeOK, Tallied
  <2>3. shown[d] - tracked[d] + failed \in Nat /\ left[d] + failed \in Nat
    BY <2>2
  <2>4. shown' \in [Deliveries -> Nat] /\ left' \in [Deliveries -> Nat]
    BY <2>1, <2>3 DEF TypeOK
  <2> QED
    BY <1>f, <1>8, <2>4, GotoFacts DEF TypeOK, FateTypeOK, DeleteAll, States, Owning
<1>9. CASE UNCHANGED vars
  BY <1>9 DEF TypeOK, vars, rowVars, fateVars
<1> QED
  BY <1>1, <1>2, <1>3, <1>4, <1>5, <1>6, <1>7, <1>8, <1>9, <1>10, <1>11, <1>12 DEF Next, Handle

LEMMA OneTaskStep == TypeOK /\ OneTask /\ [Next]_vars => OneTask'
<1> SUFFICES ASSUME TypeOK, OneTask, [Next]_vars PROVE OneTask'
  OBVIOUS
<1> USE DEF OneTask
<1>1. ASSUME NEW d \in Deliveries, Register(d) PROVE OneTask'
  <2>1. CASE activeTask = None
    <3>1. \A e \in Deliveries : pc[e] \notin Owning
      BY <2>1, DiscordAssumption
    <3>2. activeTask' = d /\ Goto(d, "running")
      BY <1>1, <2>1 DEF Register
    <3> QED
      BY <3>1, <3>2, GotoFacts
  <2>2. CASE activeTask # None
    <3>1. activeTask' = activeTask /\ Goto(d, "again")
      BY <1>1, <2>2 DEF Register
    <3> QED
      BY <3>1, GotoFacts DEF Owning
  <2> QED
    BY <2>1, <2>2
<1>2. ASSUME NEW d \in Deliveries, Unregister(d) PROVE OneTask'
  <2>1. activeTask = d /\ activeTask' = None /\ Goto(d, "ended")
    BY <1>2 DEF Unregister, Owning
  <2> QED
    BY <2>1, GotoFacts DEF Owning
<1>3. ASSUME NEW d \in Deliveries,
             Finish(d) \/ Reply(d) \/ DeleteAll(d)
      PROVE  OneTask'
  <2>1. activeTask' = activeTask /\ activeTask = d
    BY <1>3 DEF Finish, Reply, DeleteAll, Owning
  <2>2. \E state : Goto(d, state)
    BY <1>3 DEF Finish, Reply, DeleteAll
  <2> QED
    BY <2>1, <2>2, GotoFacts
<1>4. ASSUME NEW d \in Deliveries,
             \/ Receive(d) \/ EnqueueFirst(d) \/ Observe(d) \/ EnqueueAgain(d) \/ Abandon(d)
      PROVE  OneTask'
  <2>1. activeTask' = activeTask
    BY <1>4 DEF Receive, EnqueueFirst, Observe, EnqueueAgain, Abandon
  <2>2. \E state \in {"checking", "registering", "ended"} : Goto(d, state)
    BY <1>4 DEF Receive, EnqueueFirst, Observe, EnqueueAgain, Abandon, EnqueueSteering
  <2> QED
    BY <2>1, <2>2, GotoFacts DEF Owning
<1>5. (\E d \in Deliveries : Take(d) \/ Publish(d)) \/ UNCHANGED vars => UNCHANGED <<pc, activeTask>>
  BY DEF Take, Publish, vars
<1> QED
  BY <1>1, <1>2, <1>3, <1>4, <1>5 DEF Next, Handle

\* What a step gives to the runs: a handler that ends sends its message to the
\* registered task, or a run moves a message from its channel to what it took.
LEMMA GivenStep ==
  ASSUME TypeOK, [Next]_vars
  PROVE  \/ UNCHANGED <<queue, taken>>
         \/ \E d \in Deliveries :
              /\ pc[d] \in {"checking", "again"} /\ Goto(d, "ended")
              /\ activeTask \in Deliveries /\ Message[activeTask] # Message[d]
              /\ queue' = [queue EXCEPT ![activeTask] = Append(queue[activeTask], d)]
              /\ taken' = taken
         \/ \E d \in Deliveries :
              /\ queue[d] # <<>> /\ pc' = pc
              /\ queue' = [queue EXCEPT ![d] = Tail(queue[d])]
              /\ taken' = [taken EXCEPT ![d] = Append(taken[d], Head(queue[d]))]
<1> USE DEF taskVars
<1>1. ASSUME NEW d \in Deliveries, EnqueueFirst(d) \/ EnqueueAgain(d)
      PROVE  \/ UNCHANGED <<queue, taken>>
             \/ /\ pc[d] \in {"checking", "again"} /\ Goto(d, "ended")
                /\ activeTask \in Deliveries /\ Message[activeTask] # Message[d]
                /\ queue' = [queue EXCEPT ![activeTask] = Append(queue[activeTask], d)]
                /\ taken' = taken
  BY <1>1 DEF EnqueueFirst, EnqueueAgain, EnqueueSteering, Steers, TypeOK
<1>2. ASSUME NEW d \in Deliveries, Take(d)
      PROVE  /\ queue[d] # <<>> /\ pc' = pc
             /\ queue' = [queue EXCEPT ![d] = Tail(queue[d])]
             /\ taken' = [taken EXCEPT ![d] = Append(taken[d], Head(queue[d]))]
  BY <1>2 DEF Take
<1>3. \/ UNCHANGED vars
      \/ \E d \in Deliveries :
           \/ Receive(d) \/ Observe(d) \/ Register(d) \/ Abandon(d) \/ Publish(d) \/ Finish(d)
           \/ Reply(d) \/ DeleteAll(d) \/ Unregister(d)
      => UNCHANGED <<queue, taken>>
  BY DEF vars, Receive, Observe, Register, Abandon, Publish, Finish, Reply, DeleteAll, Unregister
<1> QED
  BY <1>1, <1>2, <1>3 DEF Next, Handle

\* A handler that has returned stays so.
LEMMA EndedStep ==
  ASSUME TypeOK, [Next]_vars, NEW d \in Deliveries, pc[d] = "ended"
  PROVE  pc'[d] = "ended"
<1>1. ASSUME NEW e \in Deliveries, Receive(e) \/ Handle(e) PROVE pc'[d] = "ended"
  <2>1. pc[e] # "ended" /\ \E state : Goto(e, state)
    BY <1>1 DEF Receive, Handle, EnqueueFirst, Observe, Register, EnqueueAgain, Abandon, Finish,
       Reply, DeleteAll, Unregister, EnqueueSteering
  <2> QED
    BY <2>1, GotoFacts
<1>2. (\E e \in Deliveries : Take(e) \/ Publish(e)) \/ UNCHANGED vars => pc' = pc
  BY DEF Take, Publish, vars
<1> QED
  BY <1>1, <1>2 DEF Next

LEMMA SteersOnceStep ==
  ASSUME TypeOK, Entered, SteersOnce, Tallied, [Next]_vars
  PROVE  Entered' /\ SteersOnce'
<1> USE DEF Given
<1>t. /\ \A d \in Deliveries : queue[d] \in Seq(Deliveries) /\ taken[d] \in Seq(Deliveries)
      /\ queue \in [Deliveries -> Seq(Deliveries)] /\ taken \in [Deliveries -> Seq(Deliveries)]
  BY DEF TypeOK
<1>s. \A d \in Deliveries :
        /\ IsInjective(Given(d)) /\ Range(Given(d)) \subseteq Deliveries
        /\ \A m \in Range(Given(d)) :
             /\ pc[m] = "ended" /\ Message[m] # Message[d] /\ m \notin replied
             /\ \A e \in Deliveries \ {d} : m \notin Range(Given(e))
  <2>1. \A d \in Deliveries : Given(d) \in Seq(Deliveries)
    BY <1>t
  <2>2. \A d \in Deliveries : Range(Given(d)) \subseteq Deliveries
    BY <2>1, RangeFacts
  <2> QED
    BY <2>2 DEF Entered, SteersOnce
<1>e. \A d \in Deliveries : pc[d] = "ended" => pc'[d] = "ended"
  BY EndedStep
\* Only a handler that replies is replied to.
<1>p. \A m \in Deliveries : m \notin replied /\ pc[m] # "replying" => m \notin replied'
  <2>1. \A d \in Deliveries : Reply(d) => pc[d] = "replying" /\ replied' \subseteq replied \union {d}
    BY DEF Reply
  <2>2. (\E d \in Deliveries : Reply(d)) \/ replied' = replied
    BY DEF vars, Next, Handle, Receive, EnqueueFirst, EnqueueAgain, Observe, Register, Abandon,
       Take, Publish, Finish, DeleteAll, Unregister
  <2> QED
    BY <2>1, <2>2
<1>1. CASE UNCHANGED <<queue, taken>>
  <2>1. Entered'
    BY <1>1, <1>e, <1>s DEF Entered
  <2>2. SteersOnce'
    BY <1>1, <1>p, <1>s DEF SteersOnce
  <2> QED
    BY <2>1, <2>2
\* The runs but a are given what they were, a at most one message m more.
<1>2. ASSUME NEW a \in Deliveries, NEW M \in SUBSET Deliveries,
             \A m \in M : /\ pc[m] # "ended" /\ pc'[m] = "ended"
                          /\ Message[m] # Message[a] /\ m \notin replied',
             IsInjective(queue'[a] \o taken'[a]),
             Range(queue'[a] \o taken'[a]) = Range(Given(a)) \union M,
             \A d \in Deliveries \ {a} : queue'[d] = queue[d] /\ taken'[d] = taken[d]
      PROVE  Entered' /\ SteersOnce'
  <2> DEFINE R(d) == Range(Given(d))
             R2(d) == Range(queue'[d] \o taken'[d])
  <2>1. R2(a) = R(a) \union M /\ \A d \in Deliveries \ {a} : R2(d) = R(d)
    BY <1>2
  <2>2. \A d \in Deliveries : R(d) \subseteq Deliveries /\ R(d) \intersect M = {}
    BY <1>2, <1>s
  <2>3. \A d \in Deliveries : \A m \in R(d) :
          /\ pc'[m] = "ended" /\ Message[m] # Message[d] /\ m \notin replied'
          /\ \A e \in Deliveries \ {d} : m \notin R(e)
    BY <1>s, <1>e, <1>p, <2>2
  <2>4. \A d \in Deliveries : IsInjective(queue'[d] \o taken'[d])
    BY <1>2, <1>s
  <2>m. \A m \in M : pc'[m] = "ended" /\ Message[m] # Message[a] /\ m \notin replied'
    BY <1>2
  <2> HIDE DEF R, R2
  <2>5. \A d \in Deliveries : \A m \in R2(d) :
          /\ pc'[m] = "ended" /\ Message[m] # Message[d] /\ m \notin replied'
          /\ \A e \in Deliveries \ {d} : m \notin R2(e)
    <3> SUFFICES ASSUME NEW d \in Deliveries, NEW m \in R2(d)
                 PROVE  /\ pc'[m] = "ended" /\ Message[m] # Message[d] /\ m \notin replied'
                        /\ \A e \in Deliveries \ {d} : m \notin R2(e)
      OBVIOUS
    <3>1. CASE m \in R(d)
      BY <2>1, <2>2, <2>3, <3>1
    <3>2. CASE m \notin R(d)
      <4>1. d = a /\ m \in M
        BY <2>1, <3>2
      <4> QED
        BY <2>1, <2>2, <2>m, <4>1
    <3> QED
      BY <3>1, <3>2
  <2> QED
    BY <2>4, <2>5 DEF Entered, SteersOnce, R2
<1>3. ASSUME NEW d \in Deliveries,
             pc[d] \in {"checking", "again"}, Goto(d, "ended"),
             activeTask \in Deliveries, Message[activeTask] # Message[d],
             queue' = [queue EXCEPT ![activeTask] = Append(queue[activeTask], d)],
             taken' = taken
      PROVE  Entered' /\ SteersOnce'
  <2>1. pc[d] # "ended" /\ pc'[d] = "ended" /\ d \notin replied'
    <3>1. d \notin replied
      BY <1>3 DEF Tallied
    <3> QED
      BY <1>3, <1>p, <3>1, GotoFacts
  <2>2. d \notin Range(Given(activeTask))
    BY <1>3, <1>s, <2>1
  <2>3. /\ queue'[activeTask] = Append(queue[activeTask], d) /\ taken'[activeTask] = taken[activeTask]
        /\ \A e \in Deliveries \ {activeTask} : queue'[e] = queue[e] /\ taken'[e] = taken[e]
    BY <1>3, <1>t
  <2>4. /\ Range(queue'[activeTask] \o taken'[activeTask]) = Range(Given(activeTask)) \union {d}
        /\ IsInjective(queue'[activeTask] \o taken'[activeTask])
    BY <1>3, <1>s, <1>t, <2>2, <2>3, SendGiven
  <2> QED
    <3>1. /\ {d} \in SUBSET Deliveries
          /\ \A m \in {d} : /\ pc[m] # "ended" /\ pc'[m] = "ended"
                            /\ Message[m] # Message[activeTask] /\ m \notin replied'
      BY <1>3, <2>1
    <3> QED
      BY <1>2, <1>3, <2>3, <2>4, <3>1
<1>4. ASSUME NEW d \in Deliveries, queue[d] # <<>>,
             queue' = [queue EXCEPT ![d] = Tail(queue[d])],
             taken' = [taken EXCEPT ![d] = Append(taken[d], Head(queue[d]))]
      PROVE  Entered' /\ SteersOnce'
  <2>1. /\ queue'[d] = Tail(queue[d]) /\ taken'[d] = Append(taken[d], Head(queue[d]))
        /\ \A e \in Deliveries \ {d} : queue'[e] = queue[e] /\ taken'[e] = taken[e]
    BY <1>4, <1>t
  <2>2. /\ Range(queue'[d] \o taken'[d]) = Range(Given(d)) \union {}
        /\ IsInjective(queue'[d] \o taken'[d])
    BY <1>4, <1>s, <1>t, <2>1, TakeGiven
  <2> QED
    <3>1. /\ {} \in SUBSET Deliveries
          /\ \A m \in {} : /\ pc[m] # "ended" /\ pc'[m] = "ended"
                           /\ Message[m] # Message[d] /\ m \notin replied'
      OBVIOUS
    <3> QED
      BY <1>2, <2>1, <2>2, <3>1
<1> QED
  BY <1>1, <1>3, <1>4, GivenStep

LEMMA TalliedStep == TypeOK /\ Tallied /\ [Next]_vars => Tallied'
<1> SUFFICES ASSUME TypeOK, Tallied, [Next]_vars PROVE Tallied'
  OBVIOUS
<1> USE DEF postVars
<1>t. /\ shown \in [Deliveries -> Nat] /\ tracked \in [Deliveries -> Nat]
      /\ left \in [Deliveries -> Nat]
  BY DEF TypeOK
<1>1. ASSUME NEW d \in Deliveries, Publish(d) PROVE Tallied'
  <2>1. d \notin replied /\ UNCHANGED <<pc, replied>>
    BY <1>1 DEF Publish, Tallied
  <2>2. \/ UNCHANGED <<shown, tracked, left>>
        \/ /\ shown' = [shown EXCEPT ![d] = shown[d] + 1]
           /\ tracked' = [tracked EXCEPT ![d] = tracked[d] + 1] /\ left' = left
        \/ /\ shown' = [shown EXCEPT ![d] = shown[d] + 1]
           /\ left' = [left EXCEPT ![d] = left[d] + 1] /\ tracked' = tracked
    BY <1>1 DEF Publish
  <2>3. \A e \in Deliveries : shown'[e] = tracked'[e] + left'[e]
    BY <1>t, <2>2 DEF Tallied
  <2>4. \A e \in Deliveries \ {d} : tracked'[e] = tracked[e]
    BY <1>t, <2>2
  <2> QED
    BY <2>1, <2>3, <2>4 DEF Tallied
<1>2. ASSUME NEW d \in Deliveries, Reply(d) PROVE Tallied'
  <2>1. d \notin replied /\ UNCHANGED <<shown, tracked, left>>
    BY <1>2 DEF Reply, Tallied
  <2>2. \/ replied' = replied \union {d} /\ Goto(d, "cleaning")
        \/ replied' = replied /\ Goto(d, "leaving")
    BY <1>2 DEF Reply
  <2> QED
    BY <2>1, <2>2, GotoFacts DEF Tallied
<1>3. ASSUME NEW d \in Deliveries, DeleteAll(d) PROVE Tallied'
  <2>1. PICK failed \in 0..tracked[d] :
          /\ shown' = [shown EXCEPT ![d] = shown[d] - tracked[d] + failed]
          /\ left' = [left EXCEPT ![d] = left[d] + failed]
    BY <1>3 DEF DeleteAll
  <2>2. tracked' = [tracked EXCEPT ![d] = 0] /\ replied' = replied /\ Goto(d, "leaving")
    BY <1>3 DEF DeleteAll
  <2>3. shown[d] = tracked[d] + left[d] /\ tracked[d] \in Nat /\ left[d] \in Nat
    BY <1>t DEF Tallied
  <2>4. shown[d] - tracked[d] + failed = left[d] + failed
    BY <2>3
  <2>5. tracked'[d] = 0 /\ left'[d] = left[d] + failed /\ shown'[d] = left[d] + failed
    BY <1>t, <2>1, <2>2, <2>4
  <2>6. shown'[d] = tracked'[d] + left'[d]
    BY <2>3, <2>5
  <2>7. \A e \in Deliveries \ {d} :
          shown'[e] = shown[e] /\ tracked'[e] = tracked[e] /\ left'[e] = left[e]
    BY <1>t, <2>1, <2>2
  <2>8. pc[d] = "cleaning" /\ pc'[d] = "leaving" /\ \A e \in Deliveries \ {d} : pc'[e] = pc[e]
    BY <1>3, <2>2, GotoFacts DEF DeleteAll
  <2> QED
    BY <2>2, <2>5, <2>6, <2>7, <2>8 DEF Tallied
<1>4. ASSUME NEW d \in Deliveries,
             \/ Receive(d) \/ EnqueueFirst(d) \/ Observe(d) \/ Register(d) \/ EnqueueAgain(d)
             \/ Abandon(d) \/ Finish(d)
      PROVE  Tallied'
  <2>1. UNCHANGED <<shown, tracked, left, replied>> /\ pc[d] \notin {"cleaning", "leaving", "ended"}
    BY <1>4 DEF Receive, EnqueueFirst, Observe, Register, EnqueueAgain, Abandon, Finish
  <2>2. d \notin replied /\ \E state : Goto(d, state)
    BY <1>4, <2>1 DEF Receive, EnqueueFirst, Observe, Register, EnqueueAgain, Abandon, Finish,
       EnqueueSteering, Tallied
  <2> QED
    BY <2>1, <2>2, GotoFacts DEF Tallied
<1>5. ASSUME NEW d \in Deliveries, Unregister(d) PROVE Tallied'
  <2>1. UNCHANGED <<shown, tracked, left, replied>> /\ pc[d] = "leaving" /\ Goto(d, "ended")
    BY <1>5 DEF Unregister
  <2> QED
    BY <2>1, GotoFacts DEF Tallied
<1>6. (\E d \in Deliveries : Take(d)) \/ UNCHANGED vars
      => UNCHANGED <<shown, tracked, left, replied, pc>>
  BY DEF Take, vars
<1>7. UNCHANGED <<shown, tracked, left, replied, pc>> => Tallied'
  BY DEF Tallied
<1> QED
  BY <1>1, <1>2, <1>3, <1>4, <1>5, <1>6, <1>7 DEF Next, Handle

\* What a concatenation holds.
LEMMA ConcatRange ==
  ASSUME NEW S, NEW q \in Seq(S), NEW t \in Seq(S)
  PROVE  Range(q \o t) = Range(q) \union Range(t)
<1>1. q \o t \in Seq(S)
  OBVIOUS
<1>2. /\ Range(q) = {q[i] : i \in 1..Len(q)}
      /\ Range(t) = {t[i] : i \in 1..Len(t)}
      /\ Range(q \o t) = {(q \o t)[i] : i \in 1..Len(q \o t)}
  BY <1>1, RangeFacts
<1>3. Len(q) \in Nat /\ Len(t) \in Nat /\ Len(q \o t) = Len(q) + Len(t)
  OBVIOUS
<1>4. ASSUME NEW i \in 1..Len(q) PROVE i \in 1..Len(q \o t) /\ (q \o t)[i] = q[i]
  BY <1>3
<1>5. ASSUME NEW i \in 1..Len(t)
      PROVE  i + Len(q) \in 1..Len(q \o t) /\ (q \o t)[i + Len(q)] = t[i]
  BY <1>3
<1>6. ASSUME NEW i \in 1..Len(q \o t), i \notin 1..Len(q)
      PROVE  i - Len(q) \in 1..Len(t) /\ (q \o t)[i] = t[i - Len(q)]
  BY <1>3, <1>6
<1>7. Range(q) \subseteq Range(q \o t)
  BY <1>2, <1>4
<1>8. Range(t) \subseteq Range(q \o t)
  BY <1>2, <1>5
<1>9. Range(q \o t) \subseteq Range(q) \union Range(t)
  BY <1>2, <1>4, <1>6
<1> QED
  BY <1>7, <1>8, <1>9

\* What was given is in the channel or was read.
LEMMA GivenParts ==
  ASSUME TypeOK, NEW d \in Deliveries
  PROVE  Range(Given(d)) = Range(queue[d]) \union Range(taken[d])
<1>1. queue[d] \in Seq(Deliveries) /\ taken[d] \in Seq(Deliveries)
  BY DEF TypeOK
<1> QED
  BY <1>1, ConcatRange DEF Given

\* Who was replied to, and what a reply knows, stays so; so do the other fates
\* and what was offered to the history.
LEMMA SettledGrow ==
  ASSUME TypeOK, Tallied, [Next]_vars
  PROVE  /\ replied \subseteq replied' /\ Answered \subseteq Answered'
         /\ observed \subseteq observed' /\ missed \subseteq missed' /\ turnedAway \subseteq turnedAway'
         /\ recorded \union refused \subseteq (recorded \union refused)'
<1> USE DEF taskVars, rowVars, fateVars, Record, NoteTurnedAway
<1>1. \/ UNCHANGED vars
      \/ \E d \in Deliveries : \/ Receive(d) \/ Register(d) \/ Take(d) \/ Publish(d) \/ DeleteAll(d)
      => UNCHANGED <<replied, rowVars, fateVars>>
  BY DEF vars, Receive, Register, Take, Publish, DeleteAll
<1>2. (\E d \in Deliveries : \/ EnqueueFirst(d) \/ EnqueueAgain(d) \/ Observe(d) \/ Abandon(d)
                             \/ Finish(d) \/ Unregister(d))
      => /\ replied' = replied /\ observed \subseteq observed' /\ missed \subseteq missed'
         /\ turnedAway \subseteq turnedAway'
         /\ recorded \union refused \subseteq (recorded \union refused)'
  BY DEF EnqueueFirst, EnqueueAgain, EnqueueSteering, Observe, Abandon, Finish, Unregister
<1>3. (\E d \in Deliveries : Reply(d))
      => /\ replied \subseteq replied' /\ missed \subseteq missed'
         /\ UNCHANGED <<rowVars, observed, turnedAway>>
  BY DEF Reply
<1>4. /\ replied \subseteq replied' /\ observed \subseteq observed' /\ missed \subseteq missed'
      /\ turnedAway \subseteq turnedAway'
      /\ recorded \union refused \subseteq (recorded \union refused)'
  BY <1>1, <1>2, <1>3 DEF Next, Handle
<1>5. ASSUME NEW e \in replied PROVE taken'[e] = taken[e]
  <2>1. pc[e] # "running" /\ e \in Deliveries
    BY <1>5 DEF Tallied, TypeOK
  <2>2. ASSUME NEW d \in Deliveries, Take(d) PROVE taken'[e] = taken[e]
    BY <2>1, <2>2 DEF Take, TypeOK
  <2>3. (\E d \in Deliveries : Take(d)) \/ taken' = taken
    BY DEF vars, Next, Handle, Receive, EnqueueFirst, EnqueueAgain, Observe, Register, Abandon,
       Publish, Finish, Reply, DeleteAll, Unregister
  <2> QED
    BY <2>2, <2>3
<1>6. Answered \subseteq Answered'
  BY <1>4, <1>5 DEF Answered
<1> QED
  BY <1>4, <1>6

\* What the active task was given stays with it, or is settled when it goes.
LEMMA WithTaskStep ==
  ASSUME TypeOK, OneTask, Entered, SteersOnce, Settling, Tallied, [Next]_vars,
         activeTask # None, NEW m \in Range(Given(activeTask))
  PROVE  \/ m \in Answered' \union missed'
         \/ activeTask' # None /\ m \in Range(Given(activeTask))'
<1> USE DEF taskVars
<1>t. activeTask \in Deliveries
  BY DEF TypeOK
<1>1. ASSUME NEW d \in Deliveries, Unregister(d) PROVE m \in Answered' \union missed'
  <2>1. d = activeTask /\ pc[d] = "leaving" /\ replied' = replied /\ taken' = taken
    BY <1>1 DEF OneTask, Owning, Unregister
  <2>2. missed' = missed \union Range(queue[d])
    BY <1>1 DEF Unregister
  <2>3. m \in Range(queue[d]) \/ m \in Range(taken[d])
    BY <2>1, GivenParts
  <2>4. Range(<<>>) = {}
    BY DEF Range
  <2>5. m \in Range(taken[d]) => d \in replied \/ m \in missed
    BY <2>1, <2>4 DEF Settling
  <2>6. d \in replied' /\ m \in Range(taken'[d]) => m \in Answered'
    BY DEF Answered
  <2> QED
    BY <2>1, <2>2, <2>3, <2>5, <2>6
<1>2. ASSUME ~(\E d \in Deliveries : Unregister(d))
      PROVE  activeTask' = activeTask
  BY <1>2 DEF vars, Next, Handle, Receive, EnqueueFirst, EnqueueAgain, Observe, Register, Abandon,
       Take, Publish, Finish, Reply, DeleteAll
<1>3. Range(Given(activeTask)) \subseteq Range(queue'[activeTask] \o taken'[activeTask])
  <2>t. queue[activeTask] \in Seq(Deliveries) /\ taken[activeTask] \in Seq(Deliveries)
    BY <1>t DEF TypeOK
  <2>i. IsInjective(queue[activeTask] \o taken[activeTask])
    BY <1>t DEF SteersOnce, Given
  <2>1. CASE UNCHANGED <<queue, taken>>
    BY <2>1 DEF Given
  <2>2. ASSUME NEW d \in Deliveries,
               pc[d] \in {"checking", "again"},
               queue' = [queue EXCEPT ![activeTask] = Append(queue[activeTask], d)],
               taken' = taken
        PROVE  <1>3!:
    <3>1. d \notin Range(queue[activeTask] \o taken[activeTask])
      BY <1>t, <2>2 DEF Entered, Given
    <3>2. Range(Append(queue[activeTask], d) \o taken[activeTask])
            = Range(queue[activeTask] \o taken[activeTask]) \union {d}
      BY <2>t, <2>i, <3>1, SendGiven
    <3>3. queue'[activeTask] = Append(queue[activeTask], d) /\ taken'[activeTask] = taken[activeTask]
      BY <1>t, <2>2 DEF TypeOK
    <3> QED
      BY <3>2, <3>3 DEF Given
  <2>3. ASSUME NEW d \in Deliveries, queue[d] # <<>>,
               queue' = [queue EXCEPT ![d] = Tail(queue[d])],
               taken' = [taken EXCEPT ![d] = Append(taken[d], Head(queue[d]))]
        PROVE  <1>3!:
    <3>1. CASE d = activeTask
      <4>1. /\ queue'[activeTask] = Tail(queue[activeTask])
            /\ taken'[activeTask] = Append(taken[activeTask], Head(queue[activeTask]))
        BY <1>t, <2>3, <3>1 DEF TypeOK
      <4>2. Range(Tail(queue[activeTask]) \o Append(taken[activeTask], Head(queue[activeTask])))
              = Range(queue[activeTask] \o taken[activeTask])
        BY <2>t, <2>i, <2>3, <3>1, TakeGiven
      <4> QED
        BY <4>1, <4>2 DEF Given
    <3>2. CASE d # activeTask
      <4>1. queue'[activeTask] = queue[activeTask] /\ taken'[activeTask] = taken[activeTask]
        BY <1>t, <2>3, <3>2 DEF TypeOK
      <4> QED
        BY <4>1 DEF Given
    <3> QED
      BY <3>1, <3>2
  <2> QED
    BY <2>1, <2>2, <2>3, GivenStep
<1> QED
  BY <1>1, <1>2, <1>3 DEF Given

\* A handler that returns leaves its message settled, or with the active task.
LEMMA ReturnedStep ==
  ASSUME TypeOK, OneTask, Entered, SteersOnce, Settling, Tallied, [Next]_vars,
         NEW d \in Deliveries, pc[d] # "ended", pc'[d] = "ended", Message[d] \notin Blank
  PROVE  /\ \/ d \in Answered' \union observed' \union missed' \union turnedAway'
            \/ activeTask' # None /\ d \in Range(Given(activeTask))'
         /\ d \notin turnedAway' => Message[d] \in recorded' \union refused'
<1> USE DEF taskVars, rowVars, fateVars
<1>1. CASE EnqueueFirst(d) \/ EnqueueAgain(d)
  <2>1. activeTask \in Deliveries /\ activeTask' = activeTask
    BY <1>1 DEF EnqueueFirst, EnqueueAgain, EnqueueSteering, Steers, TypeOK
  <2>2. Message[d] \in recorded' \union refused'
    BY <1>1 DEF EnqueueFirst, EnqueueAgain, EnqueueSteering, Record
  <2>3. \/ d \in missed'
        \/ queue' = [queue EXCEPT ![activeTask] = Append(queue[activeTask], d)] /\ taken' = taken
    BY <1>1 DEF EnqueueFirst, EnqueueAgain, EnqueueSteering
  <2>4. ASSUME queue' = [queue EXCEPT ![activeTask] = Append(queue[activeTask], d)], taken' = taken
        PROVE  d \in Range(queue'[activeTask] \o taken'[activeTask])
    <3>1. queue[activeTask] \in Seq(Deliveries) /\ taken[activeTask] \in Seq(Deliveries)
      BY <2>1 DEF TypeOK
    <3>2. IsInjective(queue[activeTask] \o taken[activeTask])
      BY <2>1 DEF SteersOnce, Given
    <3>3. d \notin Range(queue[activeTask] \o taken[activeTask])
      BY <2>1 DEF Entered, Given
    <3>4. Range(Append(queue[activeTask], d) \o taken[activeTask])
            = Range(queue[activeTask] \o taken[activeTask]) \union {d}
      BY <3>1, <3>2, <3>3, SendGiven
    <3>5. queue'[activeTask] = Append(queue[activeTask], d) /\ taken'[activeTask] = taken[activeTask]
      BY <2>1, <2>4 DEF TypeOK
    <3> QED
      BY <3>4, <3>5
  <2>5. activeTask # None
    BY <2>1, DiscordAssumption
  <2> QED
    BY <2>1, <2>2, <2>3, <2>4, <2>5 DEF Given
<1>2. CASE Observe(d)
  <2>1. Message[d] \notin Mentions
    BY <1>2, GotoFacts DEF Observe
  <2> QED
    BY <1>2, <2>1 DEF Observe, Record
<1>3. CASE Abandon(d)
  BY <1>3 DEF Abandon, NoteTurnedAway
<1>4. CASE Unregister(d)
  <2>1. pc[d] = "leaving"
    BY <1>4 DEF Unregister
  <2>2. Message[d] \in recorded \union refused /\ d \in replied \union missed
    BY <2>1 DEF Settling, Owning
  <2> QED
    BY <2>2, SettledGrow DEF Answered
<1>5. EnqueueFirst(d) \/ EnqueueAgain(d) \/ Observe(d) \/ Abandon(d) \/ Unregister(d)
  <2>1. ASSUME NEW e \in Deliveries, e # d, Receive(e) \/ Handle(e) PROVE FALSE
    <3>1. \E state : Goto(e, state)
      BY <2>1 DEF Receive, Handle, EnqueueFirst, Observe, Register, EnqueueAgain, Abandon, Finish,
         Reply, DeleteAll, Unregister, EnqueueSteering
    <3> QED
      BY <2>1, <3>1, GotoFacts
  <2>2. ASSUME (\E e \in Deliveries : Take(e) \/ Publish(e)) \/ UNCHANGED vars PROVE FALSE
    BY <2>2 DEF Take, Publish, vars
  <2>3. ASSUME Receive(d) \/ Register(d) \/ Finish(d) \/ Reply(d) \/ DeleteAll(d) PROVE FALSE
    <3>1. \E state \in States \ {"ended"} : Goto(d, state)
      BY <2>3 DEF Receive, Register, Finish, Reply, DeleteAll, States, Owning
    <3> QED
      BY <3>1, GotoFacts
  <2> QED
    BY <2>1, <2>2, <2>3 DEF Next, Handle
<1> QED
  BY <1>1, <1>2, <1>3, <1>4, <1>5

LEMMA SettledStep ==
  TypeOK /\ OneTask /\ Entered /\ SteersOnce /\ MessagesSettled /\ Settling /\ Tallied /\ [Next]_vars
    => MessagesSettled'
<1> SUFFICES ASSUME TypeOK, OneTask, Entered, SteersOnce, MessagesSettled, Settling, Tallied,
                    [Next]_vars, NEW d \in Deliveries, pc'[d] = "ended", Message[d] \notin Blank
             PROVE  /\ \/ d \in Answered' \union observed' \union missed' \union turnedAway'
                       \/ activeTask' # None /\ d \in Range(Given(activeTask))'
                    /\ d \notin turnedAway' => Message[d] \in recorded' \union refused'
  BY DEF MessagesSettled
<1>1. CASE pc[d] # "ended"
  BY <1>1, ReturnedStep
<1>2. CASE pc[d] = "ended"
  <2>1. /\ \/ d \in Answered \union observed \union missed \union turnedAway
           \/ activeTask # None /\ d \in Range(Given(activeTask))
        /\ d \notin turnedAway => Message[d] \in recorded \union refused
    BY <1>2 DEF MessagesSettled
  <2>2. activeTask # None /\ d \in Range(Given(activeTask))
        => \/ d \in Answered' \union missed'
           \/ activeTask' # None /\ d \in Range(Given(activeTask))'
    BY WithTaskStep
  <2> QED
    BY <2>1, <2>2, SettledGrow
<1> QED
  BY <1>1, <1>2

LEMMA SettlingStep == TypeOK /\ OneTask /\ Settling /\ Tallied /\ [Next]_vars => Settling'
<1> SUFFICES ASSUME TypeOK, OneTask, Settling, Tallied, [Next]_vars PROVE Settling'
  OBVIOUS
<1> USE DEF taskVars, rowVars, fateVars, Settling
<1>g. /\ replied \subseteq replied' /\ missed \subseteq missed'
      /\ recorded \union refused \subseteq (recorded \union refused)'
  BY SettledGrow
<1>1. ASSUME NEW e \in Deliveries, Take(e) PROVE Settling'
  <2>1. /\ pc' = pc /\ pc[e] = "running" /\ Message[e] \notin Blank
        /\ \A d \in Deliveries \ {e} : taken'[d] = taken[d]
    BY <1>1 DEF Take, TypeOK
  <2> QED
    BY <1>g, <2>1 DEF Owning
<1>2. ASSUME NEW e \in Deliveries, Finish(e) PROVE Settling'
  <2>1. Message[e] \in recorded' \union refused' /\ taken' = taken
    BY <1>2 DEF Finish, Record
  <2>2. /\ pc'[e] = IF Message[e] \in Blank THEN "leaving" ELSE "replying"
        /\ \A d \in Deliveries \ {e} : pc'[d] = pc[d]
    BY <1>2, GotoFacts DEF Finish
  <2> QED
    BY <1>g, <2>1, <2>2
<1>3. ASSUME NEW e \in Deliveries, Reply(e) PROVE Settling'
  <2>1. taken' = taken /\ pc[e] = "replying" /\ UNCHANGED rowVars
    BY <1>3 DEF Reply
  <2>2. \/ pc'[e] = "cleaning" /\ e \in replied'
        \/ pc'[e] = "leaving" /\ {e} \union Range(taken[e]) \subseteq missed'
    BY <1>3, GotoFacts DEF Reply
  <2>3. \A d \in Deliveries \ {e} : pc'[d] = pc[d]
    BY <1>3, GotoFacts DEF Reply
  <2> QED
    BY <1>g, <2>1, <2>2, <2>3 DEF Owning
<1>4. ASSUME NEW e \in Deliveries, DeleteAll(e) PROVE Settling'
  <2>1. /\ taken' = taken /\ pc[e] = "cleaning" /\ pc'[e] = "leaving" /\ UNCHANGED <<rowVars, replied>>
        /\ \A d \in Deliveries \ {e} : pc'[d] = pc[d]
    BY <1>4, GotoFacts DEF DeleteAll
  <2> QED
    BY <1>g, <2>1 DEF Owning
<1>5. ASSUME NEW e \in Deliveries,
             \/ Receive(e) \/ EnqueueFirst(e) \/ Observe(e) \/ Register(e) \/ EnqueueAgain(e)
             \/ Abandon(e) \/ Unregister(e)
      PROVE  Settling'
  <2>1. taken' = taken /\ \E state \in {"checking", "registering", "running", "again", "ended"} : Goto(e, state)
    BY <1>5 DEF Receive, EnqueueFirst, Observe, Register, EnqueueAgain, Abandon, EnqueueSteering,
       Unregister
  <2>2. /\ pc'[e] \in {"checking", "registering", "running", "again", "ended"}
        /\ \A d \in Deliveries \ {e} : pc'[d] = pc[d]
    BY <2>1, GotoFacts
  <2> QED
    BY <1>g, <2>1, <2>2 DEF Owning
<1>6. (\E e \in Deliveries : Publish(e)) \/ UNCHANGED vars => UNCHANGED <<pc, taken>>
  BY DEF Publish, vars
<1>7. UNCHANGED <<pc, taken>> => Settling'
  BY <1>g
<1> QED
  BY <1>1, <1>2, <1>3, <1>4, <1>5, <1>6, <1>7 DEF Next, Handle

-----------------------------------------------------------------------------
(* The theorems *)

LEMMA IInvInit == Init => IInv
<1> SUFFICES ASSUME Init PROVE IInv
  OBVIOUS
<1>1. TypeOK
  BY TypeInit
<1>2. OneTask /\ MessagesSettled /\ Settling
  BY DEF Init, OneTask, Owning, MessagesSettled, Settling
<1>3. \A d \in Deliveries : queue[d] \o taken[d] = <<>>
  BY DEF Init
<1>4. Range(<<>>) = {} /\ IsInjective(<<>>)
  BY DEF Range, IsInjective
<1>5. Entered /\ SteersOnce
  BY <1>3, <1>4 DEF Entered, SteersOnce, Given
<1>6. Tallied
  BY DEF Init, Tallied
<1> QED
  BY <1>1, <1>2, <1>5, <1>6 DEF IInv

LEMMA IInvStep == IInv /\ [Next]_vars => IInv'
BY TypeStep, OneTaskStep, SteersOnceStep, TalliedStep, SettledStep, SettlingStep DEF IInv

(***************************************************************************)
(* What the handlers of one user, the registered task and its publisher    *)
(* hold together, in every reachable state: IInv is inductive.             *)
(***************************************************************************)
THEOREM InvariantHolds == Spec => []IInv
BY IInvInit, IInvStep, PTL DEF Spec

(***************************************************************************)
(* At most one task of a user in a channel runs, the registered one, for   *)
(* any number of handlers that race for it (registerDiscordTask).          *)
(***************************************************************************)
THEOREM OneTaskRuns == Spec => []OneTask
<1>1. IInv => OneTask
  BY DEF IInv
<1> QED
  BY <1>1, InvariantHolds, PTL

(***************************************************************************)
(* Each delivery of a message is given to at most one run, once, gets no   *)
(* reply then, and no run is given the message it works on, however often  *)
(* the gateway delivers it (enqueueDiscordSteering): it is sent by a       *)
(* handler that returns with it.                                           *)
(***************************************************************************)
THEOREM DeliveriesSteerOnce == Spec => []SteersOnce
<1>1. IInv => SteersOnce
  BY DEF IInv
<1> QED
  BY <1>1, InvariantHolds, PTL

(***************************************************************************)
(* When a handler has returned, its message is with the active task, known *)
(* to a reply, an ordinary one that found no task, or was lost at one of   *)
(* the places that MessagesSettled lists, of which one leaves no row in    *)
(* the history (onMessageCreate).                                          *)
(***************************************************************************)
THEOREM MessagesAreSettled == Spec => []MessagesSettled
<1>1. IInv => MessagesSettled
  BY DEF IInv
<1> QED
  BY <1>1, InvariantHolds, PTL

(***************************************************************************)
(* When an answered task has ended, only commentary that an API error left *)
(* behind is still shown (DeleteAll): what is shown is what the publisher  *)
(* tracks and what was left, at any time.                                  *)
(***************************************************************************)
THEOREM CommentaryDeleted == Spec => []CommentaryGone
<1>1. ASSUME IInv PROVE CommentaryGone
  <2> SUFFICES ASSUME NEW d \in Deliveries, pc[d] = "ended", d \in replied
               PROVE  shown[d] = left[d]
    BY DEF CommentaryGone
  <2>1. shown[d] = tracked[d] + left[d] /\ tracked[d] = 0
    BY <1>1 DEF IInv, Tallied
  <2>2. left[d] \in Nat
    BY <1>1 DEF IInv, TypeOK
  <2> QED
    BY <2>1, <2>2
<1> QED
  BY <1>1, InvariantHolds, PTL

-----------------------------------------------------------------------------
(* Voice sessions: the manager, the session's life and the backend *)

\* The first event is one of the events.
LEMMA HeadFirst ==
  ASSUME HearingTypeOK, events # <<>>
  PROVE  Head(events) \in Range(events) /\ Range(Tail(events)) \subseteq Range(events)
<1>1. events \in Seq({Started, Audio, Failed} \union {Transcript(words) : words \in Stretches})
  BY DEF HearingTypeOK
<1> DEFINE S == {Started, Audio, Failed} \union {Transcript(words) : words \in Stretches}
<1> HIDE DEF S
<1>2. events \in Seq(S) /\ Tail(events) \in Seq(S)
  BY <1>1 DEF S
<1>3. 1 \in 1..Len(events) /\ Head(events) = events[1]
  BY <1>2
<1>4. \A i \in 1..Len(Tail(events)) : i + 1 \in 1..Len(events) /\ Tail(events)[i] = events[i + 1]
  BY <1>2
<1>5. /\ Range(events) = {events[i] : i \in 1..Len(events)}
      /\ Range(Tail(events)) = {Tail(events)[i] : i \in 1..Len(Tail(events))}
  BY <1>2, RangeFacts
<1>6. Head(events) \in Range(events)
  BY <1>3, <1>5
<1>7. Range(Tail(events)) \subseteq Range(events)
  BY <1>4, <1>5
<1> QED
  BY <1>6, <1>7

\* The bridge emits at most one event.
LEMMA EmittedOne ==
  ASSUME HearingTypeOK, NEW event
  PROVE  \/ Emitted(event) = events
         \/ Len(events) < EventCap /\ Emitted(event) = Append(events, event)
<1>1. Len(events) \in Nat /\ EventCap \in Nat
  BY EventAssumption DEF HearingTypeOK
<1> QED
  BY <1>1 DEF Emitted

\* What a step does to what is said and heard.
LEMMA HearingSteps ==
  ASSUME [VoiceNext]_voiceVars
  PROVE  \/ Closed \/ Activate
         \/ \E u \in Users : Packet(u) \/ Flush(u)
         \/ TakeUtterance \/ TakeTranscript \/ TranscriptTimeout \/ TakeEvent \/ Transcribe
         \/ Cancel /\ UNCHANGED <<waiting, said, overlaps>>
         \/ UNCHANGED <<speechVars, listenVars>>
<1> USE DEF sessionVars, speechVars, listenVars
<1>1. CASE BeginJoin \/ Leave \/ \E s \in ended : Terminal(s)
  BY <1>1 DEF BeginJoin, Leave, Terminal, CloseSession, cancelVars
<1>2. CASE HangUp \/ StartBridge \/ BridgeStarts \/ StartGivenUp \/ OpenGateway \/ GatewayFails
           \/ ConnectFails \/ JoinFailed \/ BridgeCloses
  BY <1>2 DEF HangUp, StartBridge, BridgeStarts, StartGivenUp, Starting, OpenGateway, GatewayFails,
       ConnectFails, JoinFailed, BridgeCloses
<1>3. CASE ConnectionLost \/ AudioEnds \/ UtterancesEnd \/ TurnsEnd \/ EventsEnd \/ PlayFrame
  BY <1>3 DEF ConnectionLost, AudioEnds, UtterancesEnd, TurnsEnd, EventsEnd, Ends, PlayFrame
<1>4. CASE Offer \/ Drain \/ Send \/ TakeTurn \/ AgentReturns \/ SpeechEnds \/ Spoken \/ BackendActs
  BY <1>4 DEF Offer, Drain, Send, TakeTurn, AgentReturns, SpeechEnds, Spoken, SpeechReturns,
       BackendActs
<1>5. CASE UNCHANGED voiceVars
  BY <1>5 DEF voiceVars
<1> QED
  BY <1>1, <1>2, <1>3, <1>4, <1>5 DEF VoiceNext, Manage, Run, Listen, Answer, Hear

\* What a step does to the event channel: it is emptied, its head is read, or
\* one event is emitted.
LEMMA EventSteps ==
  ASSUME HearingTypeOK, [VoiceNext]_voiceVars
  PROVE  \/ events' = events
         \/ events' = <<>>
         \/ events # <<>> /\ events' = Tail(events)
         \/ /\ Len(events) < EventCap
            /\ \E event \in {Started, Audio, Failed} :
                 events' = Append(events, event) /\ (event = Started => ready' = Halves)
         \/ /\ Transcribe /\ Len(events) < EventCap
            /\ events' = Append(events, Transcript(Head(track)))
<1> USE DEF sessionVars, bridgeVars
<1>1. CASE BeginJoin \/ Leave \/ \E s \in ended : Terminal(s)
  BY <1>1 DEF BeginJoin, Leave, Terminal, CloseSession
<1>2. CASE HangUp \/ OpenGateway \/ GatewayFails \/ Activate \/ ConnectFails \/ JoinFailed
  BY <1>2 DEF HangUp, OpenGateway, GatewayFails, Activate, ConnectFails, JoinFailed
<1>3. CASE Closed \/ StartBridge
  BY <1>3 DEF Closed, StartBridge, Launch
<1>4. CASE BridgeStarts \/ StartGivenUp
  BY <1>4 DEF BridgeStarts, StartNext, Prepared, StepDone, AwaitReady, StartGivenUp, StartFails
<1>5. CASE BridgeCloses
  BY <1>5 DEF BridgeCloses, CloseNext, StopDone, Exited
<1>6. CASE ConnectionLost \/ AudioEnds \/ UtterancesEnd \/ TurnsEnd \/ EventsEnd \/ PlayFrame
  BY <1>6 DEF ConnectionLost, AudioEnds, UtterancesEnd, TurnsEnd, EventsEnd, Ends, PlayFrame
<1>7. CASE Offer \/ Drain \/ Send \/ TakeTurn \/ AgentReturns \/ SpeechEnds \/ Spoken
  BY <1>7 DEF Offer, Drain, Send, TakeTurn, AgentReturns, SpeechEnds, Spoken, SpeechReturns
<1>8. CASE \E u \in Users : Packet(u) \/ Flush(u)
  BY <1>8 DEF Packet, Flush
<1>9. CASE TakeUtterance \/ TakeTranscript \/ TranscriptTimeout
  BY <1>9 DEF TakeUtterance, TakeTranscript, TranscriptTimeout
<1>10. CASE TakeEvent
  BY <1>10 DEF TakeEvent
<1>11. CASE BackendActs
  <2>1. ASSUME NEW half \in Halves, BecomesReady(half)
        PROVE  \/ events' = events
               \/ Len(events) < EventCap /\ events' = Append(events, Started) /\ ready' = Halves
    BY <2>1, EmittedOne DEF BecomesReady
  <2>2. ASSUME RemoteAudio \/ BackendFails
        PROVE  \/ events' = events
               \/ Len(events) < EventCap /\ \E event \in {Audio, Failed} : events' = Append(events, event)
    BY <2>2, EmittedOne DEF RemoteAudio, BackendFails
  <2>3. Audio # Started /\ Failed # Started
    BY DEF Audio, Started, Failed
  <2>4. AppServerDies => events' = events
    BY DEF AppServerDies
  <2> QED
    BY <1>11, <2>1, <2>2, <2>3, <2>4 DEF BackendActs, BackendNext
<1>12. CASE Transcribe
  BY <1>12, EmittedOne DEF Transcribe
<1>13. CASE UNCHANGED voiceVars
  BY <1>13 DEF voiceVars
<1> QED
  BY <1>1, <1>2, <1>3, <1>4, <1>5, <1>6, <1>7, <1>8, <1>9, <1>10, <1>11, <1>12, <1>13
     DEF VoiceNext, Manage, Run, Listen, Answer, Hear

\* The steps of start, and the states of the bridge.
LEMMA AfterSteps ==
  /\ DOMAIN After = {"initialize", "login", "thread", "offer", "realtime"}
  /\ \A step \in DOMAIN After : After[step] \in (DOMAIN After \ {"initialize"}) \union {"connecting"}
BY DEF After

Bridges == {"prepare", "open", "connecting"} \union DOMAIN After \union Closing

\* Closing begins in one of the states of Close.
LEMMA BeginCloseCloses ==
  ASSUME BeginClose
  PROVE  /\ bridge' \in Closing
         /\ bridge' = "absent" => bridge = "prepare"
<1>1. bridge' = CASE bridge \in WithThread -> "stop"
                  [] bridge = "prepare" -> "absent"
                  [] OTHER -> "exit"
  BY DEF BeginClose
<1>2. "prepare" \notin WithThread
  BY DEF WithThread
<1> QED
  BY <1>1, <1>2 DEF Closing

\* The start of the bridge goes on, has its backend, or closes again.
LEMMA StartMoves ==
  ASSUME BridgeTypeOK, HearingTypeOK, BackendInv, at = "starting", StartNext \/ StartFails
  PROVE  /\ bridge' \in {"prepare", "connecting", "open"} \union DOMAIN After \union Closing
         /\ bridge' = "open" => ready' = Halves
         /\ bridge' \in {"absent", "prepare"} => ~alive'
         /\ alive' \in BOOLEAN /\ ready' = ready
<1> USE AfterSteps
<1>1. CASE Prepared
  BY <1>1 DEF Prepared
<1>2. CASE StepDone
  BY <1>2 DEF StepDone, BridgeTypeOK
<1>3. CASE AwaitReady
  <2>1. Head(events) \in Range(events)
    BY <1>3, HeadFirst DEF AwaitReady
  <2>2. \/ bridge' = "open" /\ Head(events) = Started
        \/ BeginClose
        \/ bridge' = bridge
    BY <1>3 DEF AwaitReady
  <2>3. alive' = alive /\ ready' = ready /\ bridge = "connecting"
    BY <1>3 DEF AwaitReady
  <2> QED
    BY <2>1, <2>2, <2>3, BeginCloseCloses DEF BridgeTypeOK, BackendInv, Closing
<1>4. CASE StartFails
  BY <1>4, BeginCloseCloses DEF StartFails, BridgeTypeOK, BackendInv, Closing
<1> QED
  BY <1>1, <1>2, <1>3, <1>4 DEF StartNext

\* The manager, the life of a session and the state of the backend.
Control ==
  /\ ManagerTypeOK /\ ManagerInv /\ ClientInv /\ LifeInv
  /\ bridge \in Bridges /\ alive \in BOOLEAN /\ ready \subseteq Halves
  /\ BackendInv

\* The announcement of the conversation is in the channel only when both halves
\* are ready.
LEMMA AnnouncedStep ==
  ASSUME HearingTypeOK, Control, [VoiceNext]_voiceVars,
         ready \subseteq ready' \/ events' = <<>>, ready' \subseteq Halves,
         Started \in Range(events')
  PROVE  ready' = Halves
<1>0. events' # <<>>
  BY DEF Range
<1>1. events \in Seq({Started, Audio, Failed} \union {Transcript(words) : words \in Stretches})
  BY DEF HearingTypeOK
<1>2. Started \in Range(events) => ready = Halves
  BY DEF Control, BackendInv
<1>3. CASE events' = events
  BY <1>0, <1>2, <1>3
<1>5. CASE events # <<>> /\ events' = Tail(events)
  <2>1. Range(events') \subseteq Range(events)
    BY <1>5, HeadFirst
  <2> QED
    BY <1>0, <1>2, <2>1
<1>6. ASSUME NEW event, events' = Append(events, event), Started \in Range(events')
      PROVE  Started \in Range(events) \/ event = Started
  <2>1. events' \in Seq(Range(events'))
    BY <1>1, <1>6 DEF Range
  <2>2. PICK i \in 1..Len(events') : events'[i] = Started
    BY <1>6 DEF Range
  <2>3. i \in 1..Len(events) \/ i = Len(events) + 1
    BY <1>1, <1>6, <2>2
  <2>4. CASE i \in 1..Len(events)
    <3>1. events'[i] = events[i]
      BY <1>1, <1>6, <2>4
    <3> QED
      BY <1>1, <2>2, <2>4, <3>1 DEF Range
  <2>5. CASE i = Len(events) + 1
    <3>1. events'[i] = event
      BY <1>1, <1>6, <2>5
    <3> QED
      BY <2>2, <3>1
  <2> QED
    BY <2>3, <2>4, <2>5
<1>7. ASSUME NEW words PROVE Transcript(words) # Started
  BY DEF Transcript, Started
<1> QED
  BY <1>0, <1>2, <1>3, <1>5, <1>6, <1>7, EventSteps

\* What a step does to the manager, the session's life and the backend, but for
\* the commands.
LEMMA QuietSteps ==
  ASSUME [VoiceNext]_voiceVars
  PROVE  \/ BeginJoin \/ Leave \/ Manage \/ TakeEvent \/ BackendActs \/ ConnectionLost
         \/ AudioEnds \/ UtterancesEnd \/ TurnsEnd \/ EventsEnd
         \/ UNCHANGED <<opVars, lifeVars, bridge, alive, ready>>
<1> USE DEF sessionVars, bridgeVars
<1>1. CASE Offer \/ Drain \/ Send \/ TakeTurn \/ AgentReturns \/ SpeechEnds \/ Spoken \/ PlayFrame
  BY <1>1 DEF Offer, Drain, Send, TakeTurn, AgentReturns, SpeechEnds, Spoken, SpeechReturns, PlayFrame
<1>2. CASE \E u \in Users : Packet(u) \/ Flush(u)
  BY <1>2 DEF Packet, Flush
<1>3. CASE TakeUtterance \/ TakeTranscript \/ TranscriptTimeout \/ Transcribe
  BY <1>3 DEF TakeUtterance, TakeTranscript, TranscriptTimeout, Transcribe
<1>4. CASE UNCHANGED voiceVars
  BY <1>4 DEF voiceVars
<1> QED
  BY <1>1, <1>2, <1>3, <1>4 DEF VoiceNext, Run, Listen, Answer, Hear

\* The invariant, with the announcement left to AnnouncedStep.
Rest ==
  /\ ManagerTypeOK /\ ManagerInv /\ ClientInv /\ LifeInv
  /\ bridge \in Bridges /\ alive \in BOOLEAN /\ ready \subseteq Halves
  /\ bridge \in {"absent", "prepare"} => ~alive
  /\ at = "none" => bridge = IF active = 0 THEN "absent" ELSE "open"
  /\ at \in {"closing", "failing"} => bridge \in Closing
  /\ at \in {"hangup", "joining"} => bridge = "absent"
  /\ at = "starting" => bridge \in {"prepare", "connecting"} \union DOMAIN After
  /\ at \in {"gateway", "connecting"} => bridge = "open"
  /\ bridge = "open" => ready = Halves

LEMMA CommandRest ==
  ASSUME Control, BeginJoin \/ Leave \/ \E s \in ended : Terminal(s)
  PROVE  Rest' /\ ready' = ready
<1> USE VoiceAssumption, AfterSteps
    DEF Control, Rest, ManagerTypeOK, ManagerInv, ClientInv, LifeInv, BackendInv, Places, lifeVars, bridgeVars
<1>0. /\ op = "free" /\ at = "none"
      /\ UNCHANGED <<ready, alive, running, session>>
  BY DEF BeginJoin, Leave, Terminal, CloseSession
<1>n. /\ joins \in Nat /\ MaxJoins \in Nat /\ active \in 0..MaxJoins /\ session \in 0..MaxJoins
      /\ joins < MaxJoins => joins + 1 \in 0..MaxJoins
      /\ session < joins + 1 /\ session <= joins + 1 /\ ended \subseteq 1..MaxJoins
      /\ FALSE \in BOOLEAN
  OBVIOUS
<1>1. CASE CloseSession /\ active # 0
  <2>1. bridge = "open" /\ bridge' \in Closing /\ bridge' # "absent" /\ bridge' # "prepare"
    BY <1>0, <1>1, BeginCloseCloses DEF CloseSession, Closing
  <2>2. at' = "closing" /\ live' = FALSE /\ active' = 0 /\ op' # "free"
    BY <1>1 DEF BeginJoin, Leave, Terminal, CloseSession, Cancel
  <2>3. /\ op' \in {"join", "leave", "terminal"} /\ (op' = "join" => session < joins' /\ dave' = FALSE)
        /\ joins' \in 0..MaxJoins /\ session <= joins' /\ vc' \in BOOLEAN /\ dave' \in BOOLEAN
        /\ ended' \subseteq 1..MaxJoins
    <3>1. CASE BeginJoin
      <4>1. /\ joins < MaxJoins /\ op' = "join" /\ joins' = joins + 1
            /\ vc' = FALSE /\ dave' = FALSE /\ ended' = ended
        BY <3>1 DEF BeginJoin
      <4> QED
        BY ONLY <1>0, <1>n, <4>1
    <3>2. CASE Leave
      BY <1>n, <3>2 DEF Leave
    <3>3. CASE \E s \in ended : Terminal(s)
      <4>1. PICK s \in ended : Terminal(s)
        BY <3>3
      <4>2. op' = "terminal"
        BY <2>2, <4>1 DEF Terminal
      <4> QED
        BY <1>n, <4>1, <4>2 DEF Terminal
    <3> QED
      BY <3>1, <3>2, <3>3
  <2>4. bridge' \in Bridges
    BY <2>1 DEF Bridges
  <2> QED
    <3>1. ManagerTypeOK'
      <4>1. op' \in {"free", "join", "leave", "terminal"} /\ at' \in Places
        BY <2>2, <2>3
      <4>2. {joins', active', session'} \subseteq 0..MaxJoins
        BY <1>0, <1>n, <2>2, <2>3
      <4>3. live' \in BOOLEAN /\ running' \subseteq Goroutines
        BY <1>0, <2>2
      <4> QED
        BY <2>3, <4>1, <4>2, <4>3
    <3>2. ManagerInv' /\ ClientInv'
      BY <1>0, <1>n, <2>2, <2>3
    <3>3. LifeInv'
      BY <1>0, <2>2
    <3>4. alive' \in BOOLEAN /\ ready' \subseteq Halves
      BY <1>0
    <3> QED
      BY <1>0, <2>1, <2>2, <2>4, <3>1, <3>2, <3>3, <3>4
<1>2. CASE BeginJoin /\ active = 0
  <2>1. /\ op' = "join" /\ at' = "joining" /\ joins' = joins + 1 /\ active' = 0
        /\ vc' = FALSE /\ dave' = FALSE /\ UNCHANGED <<ended, live, running, session, bridge>>
    BY <1>2 DEF BeginJoin, cancelVars
  <2>2. session < joins' /\ joins' \in 0..MaxJoins
    BY <1>n, <1>2, <2>1 DEF BeginJoin
  <2>3. bridge = "absent"
    BY <1>0, <1>2
  <2>4. ManagerTypeOK'
    <3>1. op' \in {"free", "join", "leave", "terminal"} /\ at' \in Places
      BY <2>1
    <3>2. {joins', active', session'} \subseteq 0..MaxJoins
      BY <1>n, <2>1, <2>2
    <3>3. live' \in BOOLEAN /\ running' \subseteq Goroutines /\ ended' \subseteq 1..MaxJoins
      BY <2>1
    <3> QED
      BY <2>1, <3>1, <3>2, <3>3
  <2>5. ManagerInv' /\ ClientInv' /\ LifeInv'
    BY <1>0, <1>n, <1>2, <2>1, <2>2
  <2>6. bridge' \in Bridges /\ ready' = ready /\ alive' = alive
    BY <1>0, <2>1
  <2> QED
    BY <1>0, <2>1, <2>3, <2>4, <2>5, <2>6
<1>3. CASE (\E s \in ended : Terminal(s)) /\ active = 0
  <2>1. PICK s \in ended : Terminal(s)
    BY <1>3
  <2>2. s # active
    BY <1>3
  <2> QED
    BY <1>0, <2>1, <2>2 DEF Terminal, cancelVars
<1>4. CASE ~CloseSession /\ active # 0
  <2>1. PICK s \in ended : Terminal(s) /\ s # active
    BY <1>4 DEF BeginJoin, Leave, Terminal
  <2> QED
    BY <1>0, <2>1 DEF Terminal, cancelVars
<1>5. Leave => active # 0
  BY DEF Leave
<1> QED
  BY <1>1, <1>2, <1>3, <1>4, <1>5

LEMMA ManageRest ==
  ASSUME BridgeTypeOK, HearingTypeOK, Control,
         \/ HangUp \/ Closed \/ StartBridge \/ BridgeStarts \/ StartGivenUp
         \/ OpenGateway \/ GatewayFails \/ Activate \/ ConnectFails \/ JoinFailed \/ BridgeCloses
  PROVE  Rest' /\ (ready' = ready \/ events' = <<>>)
<1> USE VoiceAssumption, AfterSteps
    DEF Control, Rest, ManagerTypeOK, ManagerInv, ClientInv, LifeInv, BackendInv, Places,
        sessionVars, opVars, lifeVars, bridgeVars, Bridges
<1>n. /\ joins \in Nat /\ MaxJoins \in Nat /\ active \in 0..MaxJoins /\ session \in 0..MaxJoins
      /\ joins \in 0..MaxJoins
  OBVIOUS
<1>1. CASE HangUp
  <2>1. /\ at = "closing" /\ bridge = "absent" /\ vc' = FALSE /\ at' = "hangup"
        /\ UNCHANGED <<op, joins, active, ended, dave, live, running, session, bridge, alive, ready>>
    BY <1>1 DEF HangUp
  <2> QED
    BY <2>1
<1>2. CASE Closed
  <2>1. /\ at = "hangup" /\ running = {} /\ events' = <<>>
        /\ \/ op = "join" /\ at' = "joining" /\ op' = op
           \/ op # "join" /\ at' = "none" /\ op' = "free"
    BY <1>2 DEF Closed
  <2>2. /\ dave' = FALSE
        /\ UNCHANGED <<joins, active, ended, live, vc, running, session, bridge, alive, ready>>
    BY <1>2 DEF Closed
  <2> QED
    BY <2>1, <2>2
<1>3. CASE StartBridge
  <2>1. /\ at = "joining" /\ at' = "starting" /\ bridge' = "prepare" /\ ready' = {} /\ events' = <<>>
        /\ UNCHANGED <<op, joins, active, ended, dave, live, vc, running, session, alive>>
    BY <1>3 DEF StartBridge, Launch
  <2> QED
    BY <2>1
<1>4. CASE BridgeStarts \/ StartGivenUp
  <2>1. /\ at = "starting" /\ UNCHANGED <<op, joins, active, ended, dave, live, vc, running, session>>
        /\ at' = CASE bridge' = "open" -> "gateway"
                   [] bridge' \in Closing -> "failing"
                   [] OTHER -> at
    BY <1>4 DEF BridgeStarts, StartGivenUp, Starting
  <2>2. /\ bridge' \in {"prepare", "connecting", "open"} \union DOMAIN After \union Closing
        /\ bridge' = "open" => ready' = Halves
        /\ bridge' \in {"absent", "prepare"} => ~alive'
        /\ alive' \in BOOLEAN /\ ready' = ready
    BY <1>4, <2>1, StartMoves DEF BridgeStarts, StartGivenUp
  <2>3. "open" \notin Closing /\ \A b \in {"prepare", "connecting"} \union DOMAIN After : b # "open"
    BY DEF Closing
  <2>4. at' = "starting" => bridge' \in {"prepare", "connecting"} \union DOMAIN After
    BY <2>1, <2>2
  <2>5. /\ at' = "gateway" => bridge' = "open"
        /\ at' = "failing" => bridge' \in Closing
        /\ at' \in {"starting", "gateway", "failing"}
    BY <2>1, <2>2, <2>3
  <2> QED
    BY <2>1, <2>2, <2>4, <2>5
<1>5. CASE Activate
  <2>1. /\ at = "connecting" /\ active' = joins /\ session' = joins
        /\ live' = TRUE /\ vc' = TRUE /\ running' = Goroutines /\ op' = "free" /\ at' = "none"
        /\ UNCHANGED <<joins, ended, dave, bridge, alive, ready>>
    BY <1>5 DEF Activate
  <2>2. joins # 0 /\ dave = TRUE
    BY <2>1
  <2> QED
    BY <2>1, <2>2
<1>6. CASE ConnectFails
  <2>1. /\ at = "connecting" /\ BeginClose /\ at' = "failing"
        /\ UNCHANGED <<op, joins, active, ended, dave, live, vc, running, session, alive, ready>>
    BY <1>6 DEF ConnectFails
  <2>2. bridge' \in Closing /\ bridge' # "absent" /\ bridge' # "prepare" /\ bridge' # "open"
    BY <2>1, BeginCloseCloses DEF Closing
  <2> QED
    BY <2>1, <2>2
<1>7. CASE JoinFailed
  <2>1. /\ at = "failing" /\ bridge = "absent" /\ op' = "free" /\ at' = "none"
        /\ UNCHANGED <<joins, active, ended, dave, live, vc, running, session, bridge, alive, ready>>
    BY <1>7 DEF JoinFailed
  <2> QED
    BY <2>1
<1>8. CASE BridgeCloses
  <2>1. /\ \/ bridge = "stop" /\ bridge' = "exit" /\ alive' = alive
           \/ bridge = "exit" /\ bridge' = "absent" /\ alive' = FALSE
        /\ UNCHANGED <<op, at, joins, active, ended, dave, live, vc, running, session, ready>>
    BY <1>8 DEF BridgeCloses, CloseNext, StopDone, Exited
  <2>2. at \in {"closing", "failing"}
    BY <2>1
  <2> QED
    BY <2>1, <2>2 DEF Closing
<1>9. CASE OpenGateway
  <2>1. /\ at = "gateway" /\ at' = "connecting" /\ dave' = TRUE
        /\ UNCHANGED <<op, joins, active, ended, live, vc, running, session, bridge, alive, ready>>
    BY <1>9 DEF OpenGateway
  <2> QED
    BY <2>1
<1>10. CASE GatewayFails
  <2>1. /\ at \in {"gateway", "connecting"} /\ BeginClose /\ at' = "failing" /\ dave' = FALSE
        /\ UNCHANGED <<op, joins, active, ended, live, vc, running, session, alive, ready>>
    BY <1>10 DEF GatewayFails
  <2>2. bridge' \in Closing /\ bridge' # "absent" /\ bridge' # "prepare" /\ bridge' # "open"
    BY <2>1, BeginCloseCloses DEF Closing
  <2> QED
    BY <2>1, <2>2
<1> QED
  BY <1>1, <1>2, <1>3, <1>4, <1>5, <1>6, <1>7, <1>8, <1>9, <1>10

\* Goroutines and the backend.
LEMMA OtherRest ==
  ASSUME HearingTypeOK, Control,
         \/ TakeEvent \/ BackendActs \/ ConnectionLost
         \/ AudioEnds \/ UtterancesEnd \/ TurnsEnd \/ EventsEnd
         \/ UNCHANGED <<opVars, lifeVars, bridge, alive, ready>>
  PROVE  Rest' /\ ready \subseteq ready'
<1> USE VoiceAssumption, AfterSteps
    DEF Control, Rest, ManagerTypeOK, ManagerInv, ClientInv, LifeInv, BackendInv, Places,
        sessionVars, opVars, lifeVars, bridgeVars, Bridges
<1>n. session \in 0..MaxJoins /\ (session # 0 => session \in 1..MaxJoins)
  OBVIOUS
<1>1. CASE TakeEvent
  <2>1. /\ "events" \in running /\ events # <<>>
        /\ UNCHANGED <<op, at, joins, active, dave, vc, session, bridge, alive, ready>>
    BY <1>1 DEF TakeEvent
  <2>2. \/ UNCHANGED <<live, ended, running>>
        \/ live' = FALSE /\ ended' = ended \union {session} /\ running' = running \ {"events"}
    BY <1>1 DEF TakeEvent, HearTranscript, PlayAudio, Terminate, Cancel, cancelVars
  <2>3. session \in 1..MaxJoins
    BY <1>n, <2>1
  <2> QED
    BY <2>1, <2>2, <2>3
<1>2. CASE BackendActs
  <2>1. /\ UNCHANGED <<op, at, joins, active, ended, dave, live, vc, running, session>>
        /\ bridge' = bridge /\ (alive' = alive \/ alive' = FALSE)
    BY <1>2 DEF BackendActs, BackendNext, BecomesReady, RemoteAudio, BackendFails, AppServerDies
  <2>2. \/ ready' = ready
        \/ \E half \in Halves : bridge \in Requested /\ half \notin ready /\ ready' = ready \union {half}
    BY <1>2 DEF BackendActs, BackendNext, BecomesReady, RemoteAudio, BackendFails, AppServerDies
  <2>3. ready' \subseteq Halves
    BY <2>2
  <2>4. ready \subseteq ready' /\ (ready = Halves => ready' = Halves)
    BY <2>2
  <2>5. alive' \in BOOLEAN /\ (bridge' \in {"absent", "prepare"} => ~alive')
    <3>1. CASE alive' = alive
      <4>1. alive \in BOOLEAN /\ (bridge \in {"absent", "prepare"} => ~alive)
        OBVIOUS
      <4>2. bridge' = bridge
        BY <2>1
      <4> QED
        BY <3>1, <4>1, <4>2
    <3>2. CASE alive' = FALSE
      BY <3>2
    <3> QED
      BY <2>1, <3>1, <3>2
  <2>6. ManagerTypeOK'
    BY <2>1
  <2>7. ManagerInv' /\ ClientInv' /\ LifeInv'
    BY <2>1
  <2> QED
    BY <2>1, <2>3, <2>4, <2>5, <2>6, <2>7
<1>3. CASE ConnectionLost
  BY <1>3 DEF ConnectionLost
<1>4. CASE AudioEnds \/ UtterancesEnd \/ TurnsEnd \/ EventsEnd
  <2>1. /\ UNCHANGED <<op, at, joins, active, ended, dave, live, vc, session, bridge, alive, ready>>
        /\ running' \subseteq running
    BY <1>4 DEF AudioEnds, UtterancesEnd, TurnsEnd, EventsEnd, Ends
  <2> QED
    BY <2>1
<1>5. CASE UNCHANGED <<opVars, lifeVars, bridge, alive, ready>>
  BY <1>5
<1> QED
  BY <1>1, <1>2, <1>3, <1>4, <1>5

LEMMA ControlStep ==
  ASSUME BridgeTypeOK, HearingTypeOK, Control, [VoiceNext]_voiceVars
  PROVE  Control'
<1>1. Rest' /\ (ready \subseteq ready' \/ events' = <<>>)
  <2>1. CASE BeginJoin \/ Leave \/ \E s \in ended : Terminal(s)
    BY <2>1, CommandRest
  <2>2. CASE \/ HangUp \/ Closed \/ StartBridge \/ BridgeStarts \/ StartGivenUp
             \/ OpenGateway \/ GatewayFails \/ Activate \/ ConnectFails \/ JoinFailed \/ BridgeCloses
    BY <2>2, ManageRest
  <2>3. CASE \/ TakeEvent \/ BackendActs \/ ConnectionLost
             \/ AudioEnds \/ UtterancesEnd \/ TurnsEnd \/ EventsEnd
             \/ UNCHANGED <<opVars, lifeVars, bridge, alive, ready>>
    BY <2>3, OtherRest
  <2> QED
    BY <2>1, <2>2, <2>3, QuietSteps DEF Manage
<1>2. ready' \subseteq Halves
  BY <1>1 DEF Rest
<1>3. Started \in Range(events') => ready' = Halves
  BY <1>1, <1>2, AnnouncedStep
<1> QED
  BY <1>1, <1>3 DEF Rest, Control, BackendInv

\* The invariant holds initially.
LEMMA ControlInit == VoiceInit => Control
<1> SUFFICES ASSUME VoiceInit PROVE Control
  OBVIOUS
<1>1. Started \notin Range(events)
  BY DEF VoiceInit, BridgeInit, Range
<1>2. ManagerTypeOK
  <2>1. /\ op = "free" /\ at = "none" /\ joins = 0 /\ active = 0 /\ session = 0 /\ ended = {}
        /\ dave = FALSE /\ live = FALSE /\ vc = FALSE /\ running = {}
    BY DEF VoiceInit
  <2>2. 0 \in 0..MaxJoins
    BY VoiceAssumption
  <2> QED
    BY <2>1, <2>2 DEF ManagerTypeOK, Places
<1>5. ManagerInv /\ ClientInv /\ LifeInv
  BY DEF VoiceInit, ManagerInv, ClientInv, LifeInv
<1>3. bridge = "absent" /\ alive = FALSE /\ ready = {} /\ at = "none" /\ active = 0
  BY DEF VoiceInit, BridgeInit
<1>4. BackendInv
  BY <1>1, <1>3 DEF BackendInv
<1> QED
  BY <1>2, <1>3, <1>4, <1>5 DEF Control, Bridges, Closing

\* Whatever failed, and in whatever order sessions began and ended.
LEMMA ControlLeaksNothing == Control => NothingLeaks
  BY DEF Control, ManagerInv, ClientInv, LifeInv, BackendInv, NothingLeaks

-----------------------------------------------------------------------------
(* What is said and heard, and the turns *)

\* A queue keeps its type when its head is taken or an entry is added.
LEMMA QueueType ==
  ASSUME NEW S, NEW T, S \subseteq T, NEW s \in Seq(S)
  PROVE  /\ s \in Seq(T) /\ Len(s) \in Nat
         /\ s # <<>> => Head(s) \in S /\ Tail(s) \in Seq(T) /\ Len(Tail(s)) = Len(s) - 1
         /\ \A x \in T : Append(s, x) \in Seq(T) /\ Len(Append(s, x)) = Len(s) + 1
<1>1. s \in Seq(T)
  BY SeqMonotonic
<1>2. s # <<>> => Head(s) \in S
  OBVIOUS
<1> QED
  BY <1>1, <1>2

\* Stretches of audio with the first n utterances, and events about them.
StretchesOf(n) == (SUBSET (1..n)) \ {{}}
EventsOf(n) == {Started, Audio, Failed} \union {Transcript(words) : words \in StretchesOf(n)}

LEMMA StretchTypes == Stretches = StretchesOf(said) /\ Stretches' = StretchesOf(said')
BY DEF Stretches, StretchesOf

LEMMA StretchesGrow ==
  ASSUME NEW n \in Nat, NEW m \in {n, n + 1}
  PROVE  /\ 1..n \subseteq 1..m /\ StretchesOf(n) \subseteq StretchesOf(m)
         /\ EventsOf(n) \subseteq EventsOf(m)
<1>1. 1..n \subseteq 1..m
  OBVIOUS
<1>2. StretchesOf(n) \subseteq StretchesOf(m)
  BY <1>1 DEF StretchesOf
<1> QED
  BY <1>1, <1>2 DEF EventsOf

\* A transcript determines its words.
LEMMA TranscriptWords ==
  /\ \A v, w : Transcript(v) = Transcript(w) => v = w
  /\ \A w : Transcript(w).type = "transcript" /\ Transcript(w).of = w
  /\ \A w : Transcript(w) \notin {Started, Audio, Failed}
  /\ \A event \in {Started, Audio, Failed} : event.type # "transcript"
<1>1. \A w : Transcript(w).type = "transcript" /\ Transcript(w).of = w
  BY DEF Transcript
<1>2. \A event \in {Started, Audio, Failed} : event.type # "transcript"
  BY DEF Started, Audio, Failed
<1> QED
  BY <1>1, <1>2

\* The event channel keeps its type and its capacity.
LEMMA EventTypeStep ==
  ASSUME HearingTypeOK, Len(events) <= EventCap, [VoiceNext]_voiceVars, said' \in {said, said + 1}
  PROVE  events' \in Seq(EventsOf(said')) /\ Len(events') <= EventCap
<1>1. said \in Nat /\ EventCap \in Nat /\ EventCap # 0
  BY EventAssumption DEF HearingTypeOK
<1>2. events \in Seq(EventsOf(said)) /\ EventsOf(said) \subseteq EventsOf(said')
  BY <1>1, StretchTypes, StretchesGrow DEF HearingTypeOK, EventsOf
<1>3. {Started, Audio, Failed} \subseteq EventsOf(said')
  BY DEF EventsOf
<1>4. Transcribe => Transcript(Head(track)) \in EventsOf(said')
  <2> SUFFICES ASSUME Transcribe PROVE Transcript(Head(track)) \in EventsOf(said')
    OBVIOUS
  <2>1. track # <<>> /\ track \in Seq(StretchesOf(said))
    BY StretchTypes DEF Transcribe, HearingTypeOK
  <2>2. Head(track) \in StretchesOf(said)
    BY <2>1, QueueType
  <2>3. Transcript(Head(track)) \in EventsOf(said)
    BY <2>2 DEF EventsOf
  <2> QED
    BY <1>2, <2>3
<1>5. /\ events \in Seq(EventsOf(said')) /\ Len(events) \in Nat
      /\ events # <<>> => Tail(events) \in Seq(EventsOf(said')) /\ Len(Tail(events)) = Len(events) - 1
      /\ \A x \in EventsOf(said') :
           Append(events, x) \in Seq(EventsOf(said')) /\ Len(Append(events, x)) = Len(events) + 1
  BY <1>2, QueueType
<1>6. <<>> \in Seq(EventsOf(said')) /\ Len(<<>>) = 0
  OBVIOUS
<1>7. CASE events' = events
  BY <1>1, <1>5, <1>7
<1>8. CASE events' = <<>>
  BY <1>1, <1>6, <1>8
<1>9. CASE events # <<>> /\ events' = Tail(events)
  BY <1>1, <1>5, <1>9
<1>10. ASSUME NEW x \in EventsOf(said'), Len(events) < EventCap, events' = Append(events, x)
       PROVE  events' \in Seq(EventsOf(said')) /\ Len(events') <= EventCap
  BY <1>1, <1>5, <1>10
<1> QED
  BY <1>3, <1>4, <1>7, <1>8, <1>9, <1>10, EventSteps

\* A stretch with one more utterance is a stretch.
LEMMA AddedStretch ==
  ASSUME NEW m \in Nat, NEW n \in 1..m
  PROVE  {n} \in StretchesOf(m) /\ \A w \in StretchesOf(m) : w \union {n} \in StretchesOf(m)
<1>1. ASSUME NEW w PROVE w \in StretchesOf(m) <=> w \in SUBSET (1..m) /\ w # {}
  <2>1. w \in {{}} <=> w = {}
    OBVIOUS
  <2> QED
    BY <2>1 DEF StretchesOf
<1>2. n \in {n} /\ {n} \subseteq 1..m
  OBVIOUS
<1>3. ASSUME NEW w \in StretchesOf(m) PROVE w \union {n} \in StretchesOf(m)
  <2>1. w \union {n} \subseteq 1..m /\ n \in w \union {n}
    BY <1>1
  <2> QED
    BY <1>1, <2>1
<1> QED
  BY <1>1, <1>2, <1>3

\* The stretch that ends the track grows, or a new one begins.
LEMMA TrackStep ==
  ASSUME NEW m \in Nat, track \in Seq(StretchesOf(m)), Len(track) <= MaxStretches,
         NEW n \in 1..m, AppendOpus(n)
  PROVE  track' \in Seq(StretchesOf(m)) /\ Len(track') <= MaxStretches
<1>1. Len(track) \in Nat /\ MaxStretches \in Nat
  BY VoiceAssumption
<1>2. {n} \in StretchesOf(m) /\ \A w \in StretchesOf(m) : w \union {n} \in StretchesOf(m)
  BY AddedStretch
<1>3. CASE Len(track) < MaxStretches /\ track' = Append(track, {n})
  BY <1>1, <1>2, <1>3, QueueType
<1>4. CASE track # <<>> /\ track' = [track EXCEPT ![Len(track)] = @ \union {n}]
  <2>1. Len(track) \in 1..Len(track) /\ track[Len(track)] \in StretchesOf(m)
    BY <1>1, <1>4
  <2>2. track[Len(track)] \union {n} \in StretchesOf(m)
    BY <1>2, <2>1
  <2>3. track' \in Seq(StretchesOf(m)) /\ Len(track') = Len(track)
    BY <1>4, <2>1, <2>2
  <2> QED
    BY <2>3
<1> QED
  BY <1>3, <1>4 DEF AppendOpus

\* What is said and heard keeps its type.
LEMMA HearingTypeStep ==
  ASSUME HearingTypeOK, Len(events) <= EventCap, [VoiceNext]_voiceVars
  PROVE  HearingTypeOK' /\ Len(events') <= EventCap
<1> USE VoiceAssumption
<1> DEFINE Said ==
      /\ said' \in {said, said + 1} /\ said' \in 0..MaxUtterances
      /\ utter' \in [Allowed -> 0..said'] /\ overlaps' \subseteq 1..said'
      /\ \A u, v \in Allowed : utter'[u] # 0 /\ utter'[u] = utter'[v] => u = v
    Waits == /\ utterances' \in Seq(1..said') /\ Len(utterances') <= QueueCap
             /\ waiting' \in 1..said' \union {Nothing}
    Heard == /\ track' \in Seq(StretchesOf(said')) /\ transcripts' \in Seq(StretchesOf(said'))
              /\ Len(track') <= MaxStretches /\ Len(transcripts') <= QueueCap
    Others == Said /\ Waits /\ Heard
<1>t. /\ said \in Nat /\ said \in 0..MaxUtterances /\ MaxUtterances \in Nat
      /\ utter \in [Allowed -> 0..said] /\ overlaps \subseteq 1..said
      /\ \A u, v \in Allowed : utter[u] # 0 /\ utter[u] = utter[v] => u = v
      /\ utterances \in Seq(1..said) /\ waiting \in 1..said \union {Nothing}
      /\ transcripts \in Seq(StretchesOf(said)) /\ track \in Seq(StretchesOf(said))
      /\ Len(utterances) <= QueueCap /\ Len(transcripts) <= QueueCap /\ Len(track) <= MaxStretches
      /\ QueueCap \in Nat /\ QueueCap # 0 /\ MaxStretches \in Nat
  BY StretchTypes DEF HearingTypeOK
<1>q. /\ <<>> \in Seq(1..said) /\ <<>> \in Seq(StretchesOf(said)) /\ Len(<<>>) = 0
      /\ Silent \in [Allowed -> 0..said] /\ \A u \in Allowed : Silent[u] = 0
  BY <1>t DEF Silent
<1>k. UNCHANGED speechVars => Said /\ track' = track
  BY <1>t DEF speechVars
<1>1. ASSUME \/ Closed \/ Activate
             \/ Cancel /\ UNCHANGED <<waiting, said, overlaps>>
      PROVE  Others
  <2>1. /\ utter' = Silent /\ track' = <<>> /\ said' = said /\ overlaps' = overlaps
        /\ utterances' = <<>> /\ waiting' \in {waiting, Nothing} /\ transcripts' = <<>>
    BY <1>1 DEF Closed, Activate, FreshSession, Cancel
  <2> QED
    BY <1>t, <1>q, <2>1
<1>2. ASSUME NEW u \in Users, Packet(u) PROVE Others
  <2>1. u \in Allowed /\ UNCHANGED <<utterances, waiting, transcripts>>
    BY <1>2 DEF Packet, listenVars
  <2>2. CASE utter[u] # 0
    <3>1. AppendOpus(utter[u]) /\ UNCHANGED <<said, utter, overlaps>> /\ utter[u] \in 1..said
      BY <1>t, <1>2, <2>1, <2>2 DEF Packet
    <3>2. track' \in Seq(StretchesOf(said)) /\ Len(track') <= MaxStretches
      BY <1>t, <3>1, TrackStep
    <3> QED
      BY <1>t, <2>1, <3>1, <3>2
  <2>3. CASE utter[u] = 0
    <3>1. /\ said < MaxUtterances /\ said' = said + 1 /\ utter' = [utter EXCEPT ![u] = said']
          /\ overlaps' = (IF talking = {} THEN overlaps ELSE overlaps \union talking')
          /\ AppendOpus(said')
      BY <1>2, <2>3 DEF Packet
    <3>2. /\ said' \in Nat /\ said' \in 1..said' /\ said' \in {said, said + 1}
          /\ said' \in 0..MaxUtterances /\ 0..said \subseteq 0..said'
          /\ said' # 0 /\ \A v \in Allowed : utter[v] # said'
      BY <1>t, <3>1
    <3>3. 1..said \subseteq 1..said' /\ StretchesOf(said) \subseteq StretchesOf(said')
      BY <1>t, <3>2, StretchesGrow
    <3>4. /\ utter' \in [Allowed -> 0..said']
          /\ \A v \in Allowed : utter'[v] = IF v = u THEN said' ELSE utter[v]
      BY <1>t, <2>1, <3>1, <3>2
    <3>5. \A v, w \in Allowed : utter'[v] # 0 /\ utter'[v] = utter'[w] => v = w
      BY <1>t, <3>2, <3>4
    <3>6. talking' \subseteq 1..said'
      <4>1. \A n \in Range(utter') : n \in 0..said'
        BY <3>4 DEF Range
      <4>2. \A n \in 0..said' : n # 0 => n \in 1..said'
        BY <3>2
      <4> QED
        BY <4>1, <4>2 DEF talking
    <3>7. /\ track \in Seq(StretchesOf(said')) /\ transcripts \in Seq(StretchesOf(said'))
          /\ utterances \in Seq(1..said')
      BY <1>t, <3>3, QueueType
    <3>8. track' \in Seq(StretchesOf(said')) /\ Len(track') <= MaxStretches
      BY <1>t, <3>1, <3>2, <3>7, TrackStep
    <3>9. overlaps' \subseteq 1..said'
      BY <1>t, <3>1, <3>3, <3>6
    <3>10. Said
      BY <3>2, <3>4, <3>5, <3>9
    <3>11. Waits
      BY <1>t, <2>1, <3>3, <3>7
    <3>12. Heard
      BY <1>t, <2>1, <3>7, <3>8
    <3> QED
      BY <3>10, <3>11, <3>12
  <2> QED
    BY <2>2, <2>3
<1>3. ASSUME NEW u \in Users, Flush(u) PROVE Others
  <2>1. /\ u \in Allowed /\ utter[u] # 0 /\ utter' = [utter EXCEPT ![u] = 0]
        /\ \/ Len(utterances) < QueueCap /\ utterances' = Append(utterances, utter[u])
           \/ utterances' = utterances
        /\ UNCHANGED <<waiting, transcripts, said, track, overlaps>>
    BY <1>3 DEF Flush
  <2>2. utter[u] \in 1..said
    BY <1>t, <2>1
  <2>3. utterances' \in Seq(1..said) /\ Len(utterances') <= QueueCap
    <3>1. /\ Append(utterances, utter[u]) \in Seq(1..said) /\ Len(utterances) \in Nat
          /\ Len(Append(utterances, utter[u])) = Len(utterances) + 1
      BY <1>t, <2>2, QueueType
    <3>2. CASE utterances' = utterances
      BY <1>t, <3>2
    <3>3. CASE Len(utterances) < QueueCap /\ utterances' = Append(utterances, utter[u])
      <4>1. Len(utterances') <= QueueCap
        BY <1>t, <3>1, <3>3
      <4> QED
        BY <3>1, <3>3, <4>1
    <3> QED
      BY <2>1, <3>2, <3>3
  <2>4. /\ utter' \in [Allowed -> 0..said]
        /\ \A v \in Allowed : utter'[v] = IF v = u THEN 0 ELSE utter[v]
    BY <1>t, <2>1
  <2>5. \A v, w \in Allowed : utter'[v] # 0 /\ utter'[v] = utter'[w] => v = w
    BY <1>t, <2>4
  <2> QED
    BY <1>t, <2>1, <2>3, <2>4, <2>5
<1>4. ASSUME TakeUtterance PROVE Others
  <2>1. /\ utterances # <<>> /\ waiting' = Head(utterances) /\ utterances' = Tail(utterances)
        /\ UNCHANGED <<speechVars, said, transcripts>>
    BY <1>4 DEF TakeUtterance, speechVars
  <2>2. /\ Head(utterances) \in 1..said /\ Tail(utterances) \in Seq(1..said)
        /\ Len(Tail(utterances)) <= QueueCap
    BY <1>t, <2>1, QueueType
  <2> QED
    BY <1>t, <1>k, <2>1, <2>2
<1>5. ASSUME TakeTranscript PROVE Others
  <2>1. /\ transcripts # <<>> /\ waiting' = Nothing /\ transcripts' = Tail(transcripts)
        /\ UNCHANGED <<speechVars, said, utterances>>
    BY <1>5 DEF TakeTranscript, speechVars
  <2>2. Tail(transcripts) \in Seq(StretchesOf(said)) /\ Len(Tail(transcripts)) <= QueueCap
    BY <1>t, <2>1, QueueType
  <2> QED
    BY <1>t, <1>k, <2>1, <2>2
<1>6. ASSUME TranscriptTimeout PROVE Others
  <2>1. waiting' = Nothing /\ UNCHANGED <<speechVars, said, utterances, transcripts>>
    BY <1>6 DEF TranscriptTimeout, speechVars
  <2> QED
    BY <1>t, <1>k, <2>1
<1>7. ASSUME TakeEvent PROVE Others
  <2>1. events # <<>> /\ UNCHANGED <<said, overlaps, waiting>>
    BY <1>7 DEF TakeEvent
  <2>2. \/ Cancel
        \/ /\ UNCHANGED <<utter, track, utterances>>
           /\ \/ transcripts' = transcripts
              \/ /\ Head(events).type = "transcript" /\ Len(transcripts) < QueueCap
                 /\ transcripts' = Append(transcripts, Head(events).of)
    BY <1>7 DEF TakeEvent, HearTranscript, PlayAudio, Terminate, cancelVars
  <2>3. Head(events) \in EventsOf(said)
    <3>1. events \in Seq(EventsOf(said))
      BY StretchTypes DEF HearingTypeOK, EventsOf
    <3> QED
      BY <2>1, <3>1, QueueType
  <2>4. Head(events).type = "transcript" => Head(events).of \in StretchesOf(said)
    BY <2>3, TranscriptWords DEF EventsOf
  <2>5. CASE UNCHANGED <<utter, track, utterances>>
    <3>1. transcripts' = transcripts => Others
      BY <1>t, <2>1, <2>5
    <3>2. CASE /\ Head(events).of \in StretchesOf(said) /\ Len(transcripts) < QueueCap
               /\ transcripts' = Append(transcripts, Head(events).of)
      <4>1. transcripts' \in Seq(StretchesOf(said)) /\ Len(transcripts') <= QueueCap
        BY <1>t, <3>2, QueueType
      <4> QED
        BY <1>t, <2>1, <2>5, <4>1
    <3>3. CASE Cancel
      BY <1>1, <2>1, <3>3
    <3> QED
      BY <2>2, <2>4, <3>1, <3>2, <3>3
  <2>6. CASE Cancel
    BY <1>1, <2>1, <2>6
  <2> QED
    BY <2>2, <2>5, <2>6
<1>8. ASSUME Transcribe PROVE Others
  <2>1. /\ track # <<>> /\ track' = Tail(track)
        /\ UNCHANGED <<utter, said, overlaps, utterances, waiting, transcripts>>
    BY <1>8 DEF Transcribe, listenVars
  <2>2. Tail(track) \in Seq(StretchesOf(said)) /\ Len(Tail(track)) <= MaxStretches
    BY <1>t, <2>1, QueueType
  <2> QED
    BY <1>t, <2>1, <2>2
<1>9. ASSUME UNCHANGED <<speechVars, listenVars>> PROVE Others
  BY <1>t, <1>k, <1>9 DEF listenVars, speechVars
<1>10. Others
  BY <1>1, <1>2, <1>3, <1>4, <1>5, <1>6, <1>7, <1>8, <1>9, HearingSteps
<1>11. events' \in Seq(EventsOf(said')) /\ Len(events') <= EventCap
  BY <1>10, EventTypeStep
<1> QED
  BY <1>10, <1>11, StretchTypes DEF HearingTypeOK, EventsOf

\* What a step does to the turns.
LEMMA TurnSteps ==
  ASSUME [VoiceNext]_voiceVars
  PROVE  \/ Closed \/ Activate
         \/ TakeUtterance \/ TakeTranscript \/ Offer \/ Drain \/ Send \/ TakeTurn
         \/ Cancel /\ UNCHANGED <<pushing, waiting>>
         \/ UNCHANGED <<pushing, turns, newest>> /\ waiting' \in {waiting, Nothing}
<1> USE DEF sessionVars, turnVars, listenVars
<1>1. CASE BeginJoin \/ Leave \/ \E s \in ended : Terminal(s)
  BY <1>1 DEF BeginJoin, Leave, Terminal, CloseSession, cancelVars
<1>2. CASE HangUp \/ StartBridge \/ BridgeStarts \/ StartGivenUp \/ OpenGateway \/ GatewayFails
           \/ ConnectFails \/ JoinFailed \/ BridgeCloses
  BY <1>2 DEF HangUp, StartBridge, BridgeStarts, StartGivenUp, Starting, OpenGateway, GatewayFails,
       ConnectFails, JoinFailed, BridgeCloses
<1>3. CASE ConnectionLost \/ AudioEnds \/ UtterancesEnd \/ TurnsEnd \/ EventsEnd \/ PlayFrame
  BY <1>3 DEF ConnectionLost, AudioEnds, UtterancesEnd, TurnsEnd, EventsEnd, Ends, PlayFrame
<1>4. CASE AgentReturns \/ SpeechEnds \/ Spoken \/ BackendActs \/ Transcribe \/ TranscriptTimeout
  BY <1>4 DEF AgentReturns, SpeechEnds, Spoken, SpeechReturns, BackendActs, Transcribe,
       TranscriptTimeout
<1>5. CASE TakeEvent \/ \E u \in Users : Packet(u) \/ Flush(u)
  BY <1>5 DEF TakeEvent, HearTranscript, PlayAudio, Terminate, cancelVars, Packet, Flush
<1>6. CASE UNCHANGED voiceVars
  BY <1>6 DEF voiceVars
<1> QED
  BY <1>1, <1>2, <1>3, <1>4, <1>5, <1>6 DEF VoiceNext, Manage, Run, Listen, Answer, Hear

\* Turns keep their type.
LEMMA PlayStep ==
  ASSUME TurnTypeOK, [VoiceNext]_voiceVars
  PROVE  turn' \in {"asking", "speaking", Nothing} /\ frames' \in 0..FrameCap
<1> USE DEF sessionVars, turnVars
<1>t. turn \in {"asking", "speaking", Nothing} /\ frames \in 0..FrameCap /\ FrameCap \in Nat
  BY VoiceAssumption DEF TurnTypeOK
<1>1. CASE BeginJoin \/ Leave \/ \E s \in ended : Terminal(s)
  BY <1>t, <1>1 DEF BeginJoin, Leave, Terminal, CloseSession, Cancel, cancelVars
<1>2. CASE HangUp \/ StartBridge \/ BridgeStarts \/ StartGivenUp \/ OpenGateway \/ GatewayFails
           \/ ConnectFails \/ JoinFailed \/ BridgeCloses
  BY <1>t, <1>2 DEF HangUp, StartBridge, BridgeStarts, StartGivenUp, Starting, OpenGateway,
       GatewayFails, ConnectFails, JoinFailed, BridgeCloses
<1>3. CASE ConnectionLost \/ AudioEnds \/ UtterancesEnd \/ TurnsEnd \/ EventsEnd
  BY <1>t, <1>3 DEF ConnectionLost, AudioEnds, UtterancesEnd, TurnsEnd, EventsEnd, Ends
<1>4. CASE Offer \/ Drain \/ Send \/ TakeTurn \/ BackendActs \/ Transcribe
  BY <1>t, <1>4 DEF Offer, Drain, Send, TakeTurn, BackendActs, Transcribe
<1>5. CASE TakeUtterance \/ TakeTranscript \/ TranscriptTimeout
  BY <1>t, <1>5 DEF TakeUtterance, TakeTranscript, TranscriptTimeout
<1>6. CASE \E u \in Users : Packet(u) \/ Flush(u)
  BY <1>t, <1>6 DEF Packet, Flush
<1>7. CASE AgentReturns \/ SpeechEnds \/ Spoken
  BY <1>t, <1>7 DEF AgentReturns, SpeechEnds, Spoken, SpeechReturns
<1>8. CASE TakeEvent
  <2>1. turn' = turn
    BY <1>8 DEF TakeEvent
  <2>2. \/ frames' \in {frames, 0}
        \/ frames < FrameCap /\ frames' = frames + 1
    BY <1>8 DEF TakeEvent, HearTranscript, PlayAudio, Terminate, Cancel, cancelVars
  <2> QED
    BY <1>t, <2>1, <2>2
<1>9. CASE PlayFrame
  BY <1>t, <1>9 DEF PlayFrame
<1>10. CASE Closed \/ Activate
  BY <1>t, <1>10 DEF Closed, Activate, FreshSession
<1>11. CASE UNCHANGED voiceVars
  BY <1>t, <1>11 DEF voiceVars
<1> QED
  BY <1>1, <1>2, <1>3, <1>4, <1>5, <1>6, <1>7, <1>8, <1>9, <1>10, <1>11
     DEF VoiceNext, Manage, Run, Listen, Answer, Hear

\* The newest turn is queued or on its way into the queue.
LEMMA VoiceTurnStep ==
  ASSUME HearingTypeOK, TurnTypeOK, PushInv, NewestKept, [VoiceNext]_voiceVars
  PROVE  TurnTypeOK' /\ PushInv' /\ NewestKept'
<1> USE NothingAssumption
<1> DEFINE Typed == /\ pushing' \in Pushes \union {Nothing}
                    /\ turns' \in Seq(1..MaxUtterances) /\ Len(turns') <= 1
                    /\ newest' \in 1..MaxUtterances \union {Nothing}
<1>t. /\ pushing \in Pushes \union {Nothing}
      /\ turns \in Seq(1..MaxUtterances) /\ Len(turns) <= 1
      /\ newest \in 1..MaxUtterances \union {Nothing}
      /\ 1..said \subseteq 1..MaxUtterances
  BY VoiceAssumption DEF HearingTypeOK, TurnTypeOK
<1>r. Range(turns) \subseteq {turns[1]}
  <2>1. Range(turns) = {turns[i] : i \in 1..Len(turns)}
    BY <1>t, RangeFacts
  <2>2. \A i \in 1..Len(turns) : i = 1
    BY <1>t
  <2> QED
    BY <2>1, <2>2
<1>s. /\ Range(<<>>) = {}
      /\ \A w : Range(<<w>>) = {w}
  BY DEF Range
<1>p. ASSUME pushing # Nothing
      PROVE  /\ waiting = Nothing /\ newest \in {Nothing, pushing.by}
             /\ pushing.by \in 1..MaxUtterances /\ <<pushing.by>> \in Seq(1..MaxUtterances)
             /\ pushing \in Pushes
  BY <1>t, <1>p DEF PushInv, Pushes
<1>1. ASSUME Closed \/ Activate PROVE Typed /\ PushInv' /\ NewestKept'
  <2>1. pushing' = Nothing /\ turns' = <<>> /\ newest' = Nothing /\ waiting' = Nothing
    BY <1>1 DEF Closed, Activate, FreshSession
  <2> QED
    BY <2>1 DEF PushInv, NewestKept, Pushing
<1>2. ASSUME TakeUtterance PROVE Typed /\ PushInv' /\ NewestKept'
  <2>1. pushing = Nothing /\ UNCHANGED <<pushing, turns, newest>>
    BY <1>2 DEF TakeUtterance, turnVars
  <2> QED
    BY <1>t, <2>1 DEF PushInv, NewestKept, Pushing
<1>3. ASSUME TakeTranscript PROVE Typed /\ PushInv' /\ NewestKept'
  <2>1. /\ waiting # Nothing /\ transcripts # <<>> /\ waiting' = Nothing
        /\ pushing' = [by |-> waiting, step |-> "offer"]
        /\ newest' = waiting /\ turns' = turns
    BY <1>3 DEF TakeTranscript
  <2>2. waiting \in 1..MaxUtterances
    BY <1>t, <2>1 DEF HearingTypeOK
  <2>3. pushing' \in Pushes /\ pushing' # Nothing /\ pushing'.by = newest' /\ pushing'.step # "send"
    BY <2>1, <2>2 DEF Pushes
  <2> QED
    BY <1>t, <2>1, <2>2, <2>3 DEF PushInv, NewestKept, Pushing
<1>4. ASSUME Offer PROVE Typed /\ PushInv' /\ NewestKept'
  <2>1. pushing # Nothing /\ pushing.step = "offer" /\ UNCHANGED <<newest, waiting>>
    BY <1>4 DEF Offer, Pushing, listenVars
  <2>2. CASE turns = <<>>
    <3>1. pushing' = Nothing /\ turns' = <<pushing.by>>
      BY <1>4, <2>2 DEF Offer, Pushed
    <3> QED
      BY <1>t, <1>p, <1>s, <2>1, <3>1 DEF PushInv, NewestKept, Pushing
  <2>3. CASE turns # <<>>
    <3>1. pushing' = [pushing EXCEPT !.step = "drain"] /\ turns' = turns
      BY <1>4, <2>3 DEF Offer
    <3>2. pushing' \in Pushes /\ pushing'.by = pushing.by /\ pushing'.step = "drain"
      BY <1>p, <2>1, <3>1 DEF Pushes
    <3> QED
      BY <1>t, <1>p, <2>1, <3>1, <3>2 DEF PushInv, NewestKept, Pushing
  <2> QED
    BY <2>2, <2>3
<1>5. ASSUME Drain PROVE Typed /\ PushInv' /\ NewestKept'
  <2>1. /\ pushing # Nothing /\ UNCHANGED <<newest, waiting>>
        /\ turns' = <<>> /\ pushing' = [pushing EXCEPT !.step = "send"]
    BY <1>5 DEF Drain, Pushing, listenVars
  <2>2. pushing' \in Pushes /\ pushing'.by = pushing.by
    BY <1>p, <2>1 DEF Pushes
  <2> QED
    BY <1>t, <1>p, <2>1, <2>2 DEF PushInv, NewestKept, Pushing
<1>6. ASSUME Send PROVE Typed /\ PushInv' /\ NewestKept'
  <2>1. pushing # Nothing /\ pushing.step = "send" /\ UNCHANGED <<newest, waiting>>
    BY <1>6 DEF Send, Pushing, listenVars
  <2>2. turns = <<>>
    BY <2>1 DEF PushInv, Pushing
  <2>3. pushing' = Nothing /\ turns' = <<pushing.by>>
    BY <1>6, <2>2 DEF Send, Pushed
  <2> QED
    BY <1>t, <1>p, <1>s, <2>1, <2>3 DEF PushInv, NewestKept, Pushing
<1>7. ASSUME TakeTurn PROVE Typed /\ PushInv' /\ NewestKept'
  <2>1. /\ turns # <<>> /\ turns' = <<>> /\ UNCHANGED <<pushing, waiting>>
        /\ newest' = IF newest = turns[1] THEN Nothing ELSE newest
    BY <1>7 DEF TakeTurn, listenVars
  <2>2. newest \in Range(turns) => newest = turns[1]
    BY <1>r
  <2> QED
    BY <1>t, <2>1, <2>2 DEF PushInv, NewestKept, Pushing
<1>8. ASSUME UNCHANGED <<pushing, turns, newest>>, waiting' \in {waiting, Nothing}
      PROVE  Typed /\ PushInv' /\ NewestKept'
  BY <1>t, <1>8 DEF PushInv, NewestKept, Pushing
<1>9. ASSUME Cancel /\ UNCHANGED <<pushing, waiting>> PROVE Typed /\ PushInv' /\ NewestKept'
  <2>1. turns' = <<>> /\ newest' = Nothing /\ UNCHANGED <<pushing, waiting>>
    BY <1>9 DEF Cancel
  <2> QED
    BY <1>t, <2>1 DEF PushInv, NewestKept, Pushing
<1>10. Typed /\ PushInv' /\ NewestKept'
  BY <1>1, <1>2, <1>3, <1>4, <1>5, <1>6, <1>7, <1>8, <1>9, TurnSteps
<1> QED
  BY <1>10, PlayStep DEF TurnTypeOK

-----------------------------------------------------------------------------
(* The order of utterances and transcripts *)

\* Utterances q and stretches s are in order but for the utterances in O.
SpokenBut(q, O) == \A i, j \in 1..Len(q) : i < j => Below({q[i]} \ O, {q[j]})
HeardBut(s, O) == \A i, j \in 1..Len(s) : i < j => UpTo(s[i], s[j] \ O)

\* The entries of a queue when its head is taken,
LEMMA TailEntries ==
  ASSUME NEW S, NEW s \in Seq(S), s # <<>>
  PROVE  /\ Len(Tail(s)) = Len(s) - 1 /\ Len(s) \in Nat /\ 1 \in 1..Len(s) /\ Head(s) = s[1]
         /\ \A i \in 1..Len(Tail(s)) : i + 1 \in 1..Len(s) /\ Tail(s)[i] = s[i + 1] /\ 1 < i + 1
         /\ Range(s) = {s[i] : i \in 1..Len(s)}
         /\ Range(Tail(s)) = {Tail(s)[i] : i \in 1..Len(Tail(s))}
         /\ Head(s) \in Range(s) /\ Range(Tail(s)) \subseteq Range(s)
         /\ \A x \in Range(s) : x = Head(s) \/ x \in Range(Tail(s))
<1>1. /\ Tail(s) \in Seq(S) /\ Len(Tail(s)) = Len(s) - 1 /\ Len(s) \in Nat /\ 1 \in 1..Len(s)
      /\ Head(s) = s[1]
  BY QueueType
<1>2. \A i \in 1..Len(Tail(s)) : i + 1 \in 1..Len(s) /\ Tail(s)[i] = s[i + 1] /\ 1 < i + 1
  BY <1>1
<1>3. /\ Range(s) = {s[i] : i \in 1..Len(s)}
      /\ Range(Tail(s)) = {Tail(s)[i] : i \in 1..Len(Tail(s))}
  BY <1>1, RangeFacts
<1>4. Head(s) \in Range(s) /\ Range(Tail(s)) \subseteq Range(s)
  BY <1>1, <1>2, <1>3
<1>5. ASSUME NEW x \in Range(s), x # Head(s) PROVE x \in Range(Tail(s))
  <2>1. PICK i \in 1..Len(s) : s[i] = x
    BY <1>3
  <2>2. i - 1 \in 1..Len(Tail(s)) /\ Tail(s)[i - 1] = x
    BY <1>1, <1>5, <2>1
  <2> QED
    BY <1>3, <2>2
<1> QED
  BY <1>1, <1>2, <1>3, <1>4, <1>5

\* and when an entry is added.
LEMMA AppendEntries ==
  ASSUME NEW S, NEW s \in Seq(S), NEW x \in S
  PROVE  /\ Append(s, x) \in Seq(S) /\ Len(Append(s, x)) = Len(s) + 1 /\ Len(s) \in Nat
         /\ \A i \in 1..Len(s) : Append(s, x)[i] = s[i]
         /\ Append(s, x)[Len(s) + 1] = x
         /\ \A i \in 1..Len(Append(s, x)) : i \in 1..Len(s) \/ i = Len(s) + 1
         /\ Range(s) = {s[i] : i \in 1..Len(s)}
         /\ Range(Append(s, x)) = Range(s) \union {x}
<1>1. Append(s, x) \in Seq(S) /\ Len(Append(s, x)) = Len(s) + 1 /\ Len(s) \in Nat
  BY QueueType
<1>2. /\ \A i \in 1..Len(s) : i \in 1..Len(s) + 1 /\ Append(s, x)[i] = s[i]
      /\ Append(s, x)[Len(s) + 1] = x /\ Len(s) + 1 \in 1..Len(s) + 1
      /\ \A i \in 1..Len(s) + 1 : i \in 1..Len(s) \/ i = Len(s) + 1
  BY <1>1
<1>3. /\ Range(s) = {s[i] : i \in 1..Len(s)}
      /\ Range(Append(s, x)) = {Append(s, x)[i] : i \in 1..Len(Append(s, x))}
  BY <1>1, RangeFacts
<1>4. Range(Append(s, x)) = Range(s) \union {x}
  BY <1>1, <1>2, <1>3
<1> QED
  BY <1>1, <1>2, <1>3, <1>4

\* The order of utterances.
LEMMA SpokenTail ==
  ASSUME NEW S, NEW q \in Seq(S), q # <<>>, NEW O, SpokenBut(q, O)
  PROVE  SpokenBut(Tail(q), O) /\ Below({Head(q)} \ O, Range(Tail(q)))
<1>1. SpokenBut(Tail(q), O)
  BY TailEntries DEF SpokenBut
<1>2. ASSUME NEW n \in Range(Tail(q)) PROVE Below({Head(q)} \ O, {n})
  <2>1. PICK i \in 1..Len(Tail(q)) : Tail(q)[i] = n
    BY <1>2, TailEntries
  <2>2. 1 \in 1..Len(q) /\ i + 1 \in 1..Len(q) /\ 1 < i + 1 /\ Head(q) = q[1] /\ n = q[i + 1]
    BY <2>1, TailEntries
  <2> QED
    BY <2>2 DEF SpokenBut
<1> QED
  BY <1>1, <1>2 DEF Below

LEMMA SpokenAppend ==
  ASSUME NEW S, NEW q \in Seq(S), NEW n \in S, NEW O, SpokenBut(q, O), Below(Range(q) \ O, {n})
  PROVE  SpokenBut(Append(q, n), O)
<1> SUFFICES ASSUME NEW i \in 1..Len(Append(q, n)), NEW j \in 1..Len(Append(q, n)), i < j
             PROVE  Below({Append(q, n)[i]} \ O, {Append(q, n)[j]})
  BY DEF SpokenBut
<1>1. i \in 1..Len(q) /\ Append(q, n)[i] = q[i] /\ q[i] \in Range(q)
  BY AppendEntries
<1>2. CASE j \in 1..Len(q)
  BY <1>1, <1>2, AppendEntries DEF SpokenBut
<1>3. CASE j = Len(q) + 1
  <2>1. Append(q, n)[j] = n
    BY <1>3, AppendEntries
  <2> QED
    BY <1>1, <2>1 DEF Below
<1> QED
  BY <1>2, <1>3, AppendEntries

\* The order of stretches and transcripts.
LEMMA HeardTail ==
  ASSUME NEW S, NEW s \in Seq(S), s # <<>>, NEW O, HeardBut(s, O)
  PROVE  /\ HeardBut(Tail(s), O) /\ UNION Range(Tail(s)) \subseteq UNION Range(s)
         /\ Head(s) \subseteq UNION Range(s) /\ UpTo(Head(s), (UNION Range(Tail(s))) \ O)
<1>1. HeardBut(Tail(s), O)
  <2> SUFFICES ASSUME NEW i \in 1..Len(Tail(s)), NEW j \in 1..Len(Tail(s)), i < j
               PROVE  UpTo(Tail(s)[i], Tail(s)[j] \ O)
    BY DEF HeardBut
  <2>1. /\ i + 1 \in 1..Len(s) /\ j + 1 \in 1..Len(s) /\ i + 1 < j + 1
        /\ Tail(s)[i] = s[i + 1] /\ Tail(s)[j] = s[j + 1]
    BY TailEntries
  <2> QED
    BY <2>1 DEF HeardBut
<1>2. UNION Range(Tail(s)) \subseteq UNION Range(s) /\ Head(s) \subseteq UNION Range(s)
  BY TailEntries
<1>3. ASSUME NEW w \in Range(Tail(s)) PROVE UpTo(Head(s), w \ O)
  <2>1. PICK i \in 1..Len(Tail(s)) : Tail(s)[i] = w
    BY <1>3, TailEntries
  <2>2. 1 \in 1..Len(s) /\ i + 1 \in 1..Len(s) /\ 1 < i + 1 /\ Head(s) = s[1] /\ w = s[i + 1]
    BY <2>1, TailEntries
  <2> QED
    BY <2>2 DEF HeardBut
<1>4. UpTo(Head(s), (UNION Range(Tail(s))) \ O)
  BY <1>3 DEF UpTo
<1> QED
  BY <1>1, <1>2, <1>4

LEMMA HeardAppend ==
  ASSUME NEW S, NEW s \in Seq(S), NEW w \in S, NEW O, HeardBut(s, O),
         UpTo(UNION Range(s), w \ O)
  PROVE  /\ HeardBut(Append(s, w), O)
         /\ UNION Range(Append(s, w)) = (UNION Range(s)) \union w
<1>1. UNION Range(Append(s, w)) = (UNION Range(s)) \union w
  BY AppendEntries
<1>2. ASSUME NEW i \in 1..Len(Append(s, w)), NEW j \in 1..Len(Append(s, w)), i < j
      PROVE  UpTo(Append(s, w)[i], Append(s, w)[j] \ O)
  <2>0. i \in 1..Len(s)
    <3>1. Len(Append(s, w)) = Len(s) + 1 /\ Len(s) \in Nat
      BY AppendEntries
    <3> QED
      BY <1>2, <3>1
  <2>1. i \in 1..Len(s) /\ Append(s, w)[i] = s[i] /\ s[i] \in Range(s)
    BY <2>0, AppendEntries
  <2>2. CASE j \in 1..Len(s)
    <3>1. Append(s, w)[j] = s[j]
      BY <2>2, AppendEntries
    <3> QED
      BY <1>2, <2>1, <2>2, <3>1 DEF HeardBut
  <2>3. CASE j = Len(s) + 1
    <3>1. Append(s, w)[j] = w
      BY <2>3, AppendEntries
    <3> QED
      BY <2>1, <3>1 DEF UpTo
  <2> QED
    BY <2>2, <2>3, AppendEntries
<1> QED
  BY <1>1, <1>2 DEF HeardBut

\* What is in the stretches t is what is in the stretches s, and n.
Grown(s, t, n) == UNION Range(t) = (UNION Range(s)) \union {n}

\* The last stretch grows.
LEMMA HeardExtend ==
  ASSUME NEW S, NEW s \in Seq(S), s # <<>>, NEW n, \A w \in S : w \union {n} \in S,
         NEW O, HeardBut(s, O), UpTo(UNION Range(s), {n} \ O)
  PROVE  LET t == [s EXCEPT ![Len(s)] = @ \union {n}]
         IN  HeardBut(t, O) /\ Grown(s, t, n)
<1> DEFINE t == [s EXCEPT ![Len(s)] = @ \union {n}]
<1>1. Len(s) \in Nat /\ Len(s) \in 1..Len(s) /\ DOMAIN s = 1..Len(s)
  OBVIOUS
<1>2. /\ Len(t) = Len(s) /\ DOMAIN t = 1..Len(s)
      /\ \A i \in 1..Len(s) : t[i] = IF i = Len(s) THEN s[i] \union {n} ELSE s[i]
  <2>1. s[Len(s)] \in S /\ s[Len(s)] \union {n} \in S
    BY <1>1
  <2>2. t \in Seq(S) /\ Len(t) = Len(s)
    BY <1>1, <2>1
  <2> QED
    BY <1>1, <2>2
<1> HIDE DEF t
<1>3. Range(s) = {s[i] : i \in 1..Len(s)} /\ Range(t) = {t[i] : i \in 1..Len(s)}
  <2>1. Range(s) = {s[i] : i \in 1..Len(s)}
    BY RangeFacts
  <2>2. Range(t) = {t[i] : i \in DOMAIN t}
    BY DEF Range
  <2> QED
    BY <1>2, <2>1, <2>2
<1>4. UNION Range(t) = (UNION Range(s)) \union {n}
  <2>1. ASSUME NEW m \in UNION Range(t) PROVE m \in (UNION Range(s)) \union {n}
    <3>1. PICK i \in 1..Len(s) : m \in t[i]
      BY <1>3, <2>1
    <3>2. m \in s[i] \union {n} /\ s[i] \in Range(s)
      BY <1>2, <1>3, <3>1
    <3> QED
      BY <3>2
  <2>2. ASSUME NEW m \in UNION Range(s) PROVE m \in UNION Range(t)
    <3>1. PICK i \in 1..Len(s) : m \in s[i]
      BY <1>3, <2>2
    <3>2. m \in t[i]
      BY <1>2, <3>1
    <3> QED
      BY <1>3, <3>2
  <2>3. n \in UNION Range(t)
    <3>1. n \in t[Len(s)]
      BY <1>1, <1>2
    <3> QED
      BY <1>1, <1>3, <3>1
  <2> QED
    BY <2>1, <2>2, <2>3
<1>5. ASSUME NEW i \in 1..Len(s), NEW j \in 1..Len(s), i < j PROVE UpTo(t[i], t[j] \ O)
  <2>1. i # Len(s) /\ t[i] = s[i] /\ s[i] \in Range(s)
    <3>1. i # Len(s)
      <4>1. \A k, l, m \in Nat : k < l /\ l <= m => k # m
        OBVIOUS
      <4>2. i \in Nat /\ j \in Nat /\ j <= Len(s)
        BY ONLY <1>1, <1>5
      <4> QED
        BY ONLY <1>1, <1>5, <4>1, <4>2
    <3> QED
      BY <1>2, <1>3, <3>1
  <2>2. UpTo(s[i], s[j] \ O)
    BY <1>5 DEF HeardBut
  <2>3. UpTo(s[i], {n} \ O)
    BY <2>1 DEF UpTo
  <2>4. t[j] \subseteq s[j] \union {n}
    BY <1>2
  <2> QED
    BY <2>1, <2>2, <2>3, <2>4 DEF UpTo
<1>6. HeardBut(t, O) /\ Grown(s, t, n)
  BY <1>2, <1>4, <1>5 DEF HeardBut, Grown
<1> QED
  BY <1>6 DEF t

\* The same of the transcripts in an event channel whose events are about the
\* first n utterances.
SentIn(s, n) == UNION {words \in StretchesOf(n) : Transcript(words) \in Range(s)}
EventsBut(s, n, O) ==
  \A i, j \in 1..Len(s) : \A first, next \in StretchesOf(n) :
    i < j /\ s[i] = Transcript(first) /\ s[j] = Transcript(next) => UpTo(first, next \ O)

LEMMA EventsLater ==
  ASSUME NEW n \in Nat, NEW m \in {n, n + 1}, NEW s \in Seq(EventsOf(n)), NEW O, EventsBut(s, n, O)
  PROVE  EventsBut(s, m, O) /\ SentIn(s, m) = SentIn(s, n)
<1>1. Range(s) = {s[i] : i \in 1..Len(s)} /\ Range(s) \subseteq EventsOf(n)
  BY RangeFacts
<1>2. \A words : Transcript(words) \in Range(s) => words \in StretchesOf(n)
  BY <1>1, TranscriptWords DEF EventsOf
<1>3. StretchesOf(n) \subseteq StretchesOf(m)
  BY StretchesGrow
<1>4. SentIn(s, m) = SentIn(s, n)
  BY <1>2, <1>3 DEF SentIn
<1>5. EventsBut(s, m, O)
  BY <1>1, <1>2 DEF EventsBut
<1> QED
  BY <1>4, <1>5

LEMMA EventsTail ==
  ASSUME NEW n \in Nat, NEW s \in Seq(EventsOf(n)), s # <<>>, NEW O, EventsBut(s, n, O)
  PROVE  /\ EventsBut(Tail(s), n, O) /\ SentIn(Tail(s), n) \subseteq SentIn(s, n)
         /\ \A words \in StretchesOf(n) :
              Head(s) = Transcript(words)
                => words \subseteq SentIn(s, n) /\ UpTo(words, SentIn(Tail(s), n) \ O)
<1>1. EventsBut(Tail(s), n, O)
  BY TailEntries DEF EventsBut
<1>2. SentIn(Tail(s), n) \subseteq SentIn(s, n)
  BY TailEntries DEF SentIn
<1>3. ASSUME NEW words \in StretchesOf(n), Head(s) = Transcript(words)
      PROVE  words \subseteq SentIn(s, n) /\ UpTo(words, SentIn(Tail(s), n) \ O)
  <2>1. Transcript(words) \in Range(s)
    BY <1>3, TailEntries
  <2>2. words \subseteq SentIn(s, n)
    BY <2>1 DEF SentIn
  <2>3. ASSUME NEW next \in StretchesOf(n), Transcript(next) \in Range(Tail(s))
        PROVE  UpTo(words, next \ O)
    <3>1. PICK i \in 1..Len(Tail(s)) : Tail(s)[i] = Transcript(next)
      BY <2>3, TailEntries
    <3>2. /\ 1 \in 1..Len(s) /\ i + 1 \in 1..Len(s) /\ 1 < i + 1
          /\ s[1] = Transcript(words) /\ s[i + 1] = Transcript(next)
      BY <1>3, <3>1, TailEntries
    <3> QED
      BY <3>2 DEF EventsBut
  <2>4. UpTo(words, SentIn(Tail(s), n) \ O)
    BY <2>3 DEF UpTo, SentIn
  <2> QED
    BY <2>2, <2>4
<1> QED
  BY <1>1, <1>2, <1>3

LEMMA EventsAppend ==
  ASSUME NEW n \in Nat, NEW s \in Seq(EventsOf(n)), NEW event \in EventsOf(n), NEW O,
         EventsBut(s, n, O),
         \A words \in StretchesOf(n) : event = Transcript(words) => UpTo(SentIn(s, n), words \ O)
  PROVE  /\ EventsBut(Append(s, event), n, O)
         /\ \A m \in SentIn(Append(s, event), n) :
              m \in SentIn(s, n) \/ \E words \in StretchesOf(n) : event = Transcript(words) /\ m \in words
<1> DEFINE t == Append(s, event)
<1>e. /\ Len(t) = Len(s) + 1 /\ Len(s) \in Nat
      /\ \A i \in 1..Len(s) : t[i] = s[i]
      /\ t[Len(s) + 1] = event
      /\ \A i \in 1..Len(t) : i \in 1..Len(s) \/ i = Len(s) + 1
      /\ Range(s) = {s[i] : i \in 1..Len(s)}
      /\ Range(t) = Range(s) \union {event}
  BY AppendEntries
<1> HIDE DEF t
<1>1. ASSUME NEW i \in 1..Len(t), NEW j \in 1..Len(t),
             NEW first \in StretchesOf(n), NEW next \in StretchesOf(n),
             i < j, t[i] = Transcript(first), t[j] = Transcript(next)
      PROVE  UpTo(first, next \ O)
  <2>1. i \in 1..Len(s) /\ s[i] = Transcript(first)
    BY <1>e, <1>1
  <2>2. CASE j \in 1..Len(s)
    BY <1>e, <1>1, <2>1, <2>2 DEF EventsBut
  <2>3. CASE j = Len(s) + 1
    <3>1. event = Transcript(next) /\ Transcript(first) \in Range(s)
      BY <1>e, <1>1, <2>1, <2>3
    <3>2. first \subseteq SentIn(s, n)
      BY <3>1 DEF SentIn
    <3>3. UpTo(SentIn(s, n), next \ O)
      BY <3>1
    <3> QED
      BY <3>2, <3>3 DEF UpTo
  <2> QED
    BY <1>e, <2>2, <2>3
<1>2. ASSUME NEW m \in SentIn(t, n)
      PROVE  m \in SentIn(s, n) \/ \E words \in StretchesOf(n) : event = Transcript(words) /\ m \in words
  BY <1>e, <1>2 DEF SentIn
<1> QED
  BY <1>1, <1>2 DEF EventsBut, t

\* Whatever is queued, buffered or heard was said.
LEMMA SaidSoFar ==
  ASSUME HearingTypeOK
  PROVE  /\ said \in Nat /\ Range(utterances) \subseteq 1..said /\ talking \subseteq 1..said
         /\ {waiting} \ {Nothing} \subseteq 1..said /\ overlaps \subseteq 1..said
         /\ UNION Range(transcripts) \subseteq 1..said /\ UNION Range(track) \subseteq 1..said
         /\ Sent \subseteq 1..said
<1>1. said \in Nat
  BY VoiceAssumption DEF HearingTypeOK
<1>2. /\ Range(utterances) \subseteq 1..said /\ {waiting} \ {Nothing} \subseteq 1..said
      /\ overlaps \subseteq 1..said
  BY RangeFacts DEF HearingTypeOK
<1>3. talking \subseteq 1..said
  <2>1. \A n \in Range(utter) : n \in 0..said
    BY DEF HearingTypeOK, Range
  <2>2. \A n \in 0..said : n # 0 => n \in 1..said
    BY <1>1
  <2> QED
    BY <2>1, <2>2 DEF talking
<1>4. \A w \in Stretches : w \subseteq 1..said
  BY DEF Stretches
<1>5. Range(transcripts) \subseteq Stretches /\ Range(track) \subseteq Stretches
  BY RangeFacts DEF HearingTypeOK
<1>6. Sent \subseteq 1..said
  BY <1>4 DEF Sent
<1> QED
  BY <1>1, <1>2, <1>3, <1>4, <1>5, <1>6

\* What is buffered after a packet, after a flush and after a cancel.
LEMMA PacketTalking ==
  ASSUME HearingTypeOK, NEW u \in Users, Packet(u), utter[u] = 0
  PROVE  talking' = talking \union {said'}
<1>1. /\ u \in Allowed /\ utter \in [Allowed -> 0..said] /\ said \in Nat
      /\ utter' = [utter EXCEPT ![u] = said'] /\ said' = said + 1
  BY VoiceAssumption DEF Packet, HearingTypeOK
<1>2. DOMAIN utter = Allowed /\ DOMAIN utter' = Allowed /\ said' # 0
  BY <1>1
<1>3. \A v \in Allowed : utter'[v] = IF v = u THEN said' ELSE utter[v]
  BY <1>1
<1>4. /\ Range(utter) = {utter[v] : v \in Allowed}
      /\ Range(utter') = {utter'[v] : v \in Allowed}
  BY <1>2 DEF Range
<1>5. ASSUME NEW n \in talking' PROVE n \in talking \union {said'}
  <2>1. PICK v \in Allowed : utter'[v] = n /\ n # 0
    BY <1>4, <1>5 DEF talking
  <2> QED
    BY <1>3, <1>4, <2>1 DEF talking
<1>6. ASSUME NEW n \in talking PROVE n \in talking'
  <2>1. PICK v \in Allowed : utter[v] = n /\ n # 0
    BY <1>4, <1>6 DEF talking
  <2>2. v # u /\ utter'[v] = n
    BY <1>3, <2>1
  <2> QED
    BY <1>4, <2>1, <2>2 DEF talking
<1>7. said' \in talking'
  <2>1. utter'[u] = said'
    BY <1>1, <1>3
  <2> QED
    BY <1>1, <1>2, <1>4, <2>1 DEF talking
<1> QED
  BY <1>5, <1>6, <1>7

LEMMA FlushTalking ==
  ASSUME HearingTypeOK, NEW u \in Users, Flush(u)
  PROVE  talking' \subseteq talking /\ utter[u] \in talking /\ utter[u] \notin talking'
<1>1. /\ u \in Allowed /\ utter \in [Allowed -> 0..said] /\ utter[u] # 0
      /\ utter' = [utter EXCEPT ![u] = 0]
      /\ \A v, w \in Allowed : utter[v] # 0 /\ utter[v] = utter[w] => v = w
  BY DEF Flush, HearingTypeOK
<1>2. DOMAIN utter = Allowed /\ DOMAIN utter' = Allowed
  BY <1>1
<1>3. \A v \in Allowed : utter'[v] = IF v = u THEN 0 ELSE utter[v]
  BY <1>1
<1>4. /\ Range(utter) = {utter[v] : v \in Allowed}
      /\ Range(utter') = {utter'[v] : v \in Allowed}
  BY <1>2 DEF Range
<1>5. ASSUME NEW n \in talking' PROVE n \in talking /\ n # utter[u]
  <2>1. PICK v \in Allowed : utter'[v] = n /\ n # 0
    BY <1>4, <1>5 DEF talking
  <2>2. v # u /\ utter[v] = n
    BY <1>3, <2>1
  <2>3. n \in talking
    BY <1>4, <2>1, <2>2 DEF talking
  <2>4. n # utter[u]
    BY <1>1, <2>1, <2>2
  <2> QED
    BY <2>3, <2>4
<1>6. utter[u] \in talking
  BY <1>1, <1>4 DEF talking
<1> QED
  BY <1>5, <1>6

LEMMA SilentTalking == utter' = Silent => talking' = {}
<1>1. Range(Silent) \subseteq {0}
  BY DEF Range, Silent
<1> QED
  BY <1>1 DEF talking

\* The order of the utterances, by what it is about.
Speaking(q, w, t, O, n) ==
  /\ SpokenBut(q, O)
  /\ Below({w} \ (O \union {Nothing}), Range(q) \union t)
  /\ Below(Range(q) \ O, t)
  /\ \A m \in t \ O : m = n /\ t = {m}

LEMMA SpeakingReads ==
  /\ SpokenInOrder <=> Speaking(utterances, waiting, talking, overlaps, said)
  /\ SpokenInOrder' <=> Speaking(utterances', waiting', talking', overlaps', said')
<1>1. SpokenInOrder <=> Speaking(utterances, waiting, talking, overlaps, said)
  BY DEF SpokenInOrder, Speaking, SpokenBut
<1>2. SpokenInOrder' <=> Speaking(utterances', waiting', talking', overlaps', said')
  BY DEF SpokenInOrder, Speaking, SpokenBut, Below
<1> QED
  BY <1>1, <1>2

LEMMA EmptyOrder ==
  /\ Range(<<>>) = {} /\ UNION Range(<<>>) = {}
  /\ \A O : SpokenBut(<<>>, O) /\ HeardBut(<<>>, O)
  /\ \A n, O : EventsBut(<<>>, n, O) /\ SentIn(<<>>, n) = {}
<1>1. Range(<<>>) = {}
  BY DEF Range
<1> QED
  BY <1>1 DEF SpokenBut, HeardBut, EventsBut, SentIn

LEMMA SpokenStep ==
  ASSUME HearingTypeOK, SpokenInOrder, [VoiceNext]_voiceVars
  PROVE  SpokenInOrder'
<1>s. Speaking(utterances, waiting, talking, overlaps, said)
  BY SpeakingReads
<1>t. /\ said \in Nat /\ Range(utterances) \subseteq 1..said /\ talking \subseteq 1..said
      /\ {waiting} \ {Nothing} \subseteq 1..said /\ overlaps \subseteq 1..said
      /\ utterances \in Seq(1..said)
  BY SaidSoFar DEF HearingTypeOK
<1> SUFFICES Speaking(utterances', waiting', talking', overlaps', said')
  BY SpeakingReads
<1>1. ASSUME utter' = Silent, utterances' = <<>>
      PROVE  Speaking(utterances', waiting', talking', overlaps', said')
  BY <1>1, EmptyOrder, SilentTalking DEF Speaking, Below
<1>2. ASSUME UNCHANGED <<utterances, utter, overlaps, said>>, waiting' \in {waiting, Nothing}
      PROVE  Speaking(utterances', waiting', talking', overlaps', said')
  <2>1. talking' = talking
    BY <1>2 DEF talking
  <2> QED
    BY <1>s, <1>2, <2>1 DEF Speaking, Below
<1>3. ASSUME NEW u \in Users, Packet(u), utter[u] = 0
      PROVE  Speaking(utterances', waiting', talking', overlaps', said')
  <2>1. /\ said' = said + 1 /\ utterances' = utterances /\ waiting' = waiting
        /\ overlaps' = (IF talking = {} THEN overlaps ELSE overlaps \union talking')
    BY <1>3 DEF Packet, listenVars
  <2>2. talking' = talking \union {said'} /\ overlaps \subseteq overlaps'
    BY <1>3, <2>1, PacketTalking
  <2>3. \A m \in 1..said : m < said'
    BY <1>t, <2>1
  <2>4. SpokenBut(utterances, overlaps')
    BY <1>s, <2>2 DEF Speaking, SpokenBut, Below
  <2>5. Below({waiting} \ (overlaps' \union {Nothing}), Range(utterances) \union talking')
    <3>1. Below({waiting} \ (overlaps' \union {Nothing}), Range(utterances) \union talking)
      BY <1>s, <2>2 DEF Speaking, Below
    <3>2. Below({waiting} \ (overlaps' \union {Nothing}), {said'})
      BY <1>t, <2>3 DEF Below
    <3> QED
      BY <2>2, <3>1, <3>2 DEF Below
  <2>6. Below(Range(utterances) \ overlaps', talking')
    <3>1. Below(Range(utterances) \ overlaps', talking)
      BY <1>s, <2>2 DEF Speaking, Below
    <3>2. Below(Range(utterances) \ overlaps', {said'})
      BY <1>t, <2>3 DEF Below
    <3> QED
      BY <2>2, <3>1, <3>2 DEF Below
  <2>7. \A m \in talking' \ overlaps' : m = said' /\ talking' = {m}
    BY <2>1, <2>2
  <2> QED
    BY <2>1, <2>4, <2>5, <2>6, <2>7 DEF Speaking
<1>4. ASSUME NEW u \in Users, Flush(u)
      PROVE  Speaking(utterances', waiting', talking', overlaps', said')
  <2>1. /\ waiting' = waiting /\ overlaps' = overlaps /\ said' = said
        /\ utterances' = utterances \/ utterances' = Append(utterances, utter[u])
    BY <1>4 DEF Flush
  <2>2. talking' \subseteq talking /\ utter[u] \in talking /\ utter[u] \notin talking'
    BY <1>4, FlushTalking
  <2>3. \A m \in talking \ overlaps : m = said /\ talking = {m}
    BY <1>s DEF Speaking
  <2>4. \A m \in talking' \ overlaps' : m = said' /\ talking' = {m}
    BY <2>1, <2>2, <2>3
  <2>5. CASE utterances' = utterances
    BY <1>s, <2>1, <2>2, <2>4, <2>5 DEF Speaking, Below
  <2>6. CASE utterances' = Append(utterances, utter[u])
    <3>1. utter[u] \in 1..said /\ Below(Range(utterances) \ overlaps, {utter[u]})
      BY <1>s, <1>t, <2>2 DEF Speaking, Below
    <3>2. SpokenBut(utterances', overlaps') /\ Range(utterances') = Range(utterances) \union {utter[u]}
      <4>1. SpokenBut(utterances, overlaps)
        BY <1>s DEF Speaking
      <4>2. SpokenBut(Append(utterances, utter[u]), overlaps)
        BY <1>t, <3>1, <4>1, SpokenAppend
      <4>3. Range(Append(utterances, utter[u])) = Range(utterances) \union {utter[u]}
        BY <1>t, <3>1, AppendEntries
      <4> QED
        BY <2>1, <2>6, <4>2, <4>3
    <3>3. Below({waiting} \ (overlaps \union {Nothing}), Range(utterances') \union talking')
      BY <1>s, <2>2, <3>2 DEF Speaking, Below
    <3>4. Below(Range(utterances') \ overlaps, talking')
      <4>1. Below(Range(utterances) \ overlaps, talking')
        BY <1>s, <2>2 DEF Speaking, Below
      <4>2. Below({utter[u]} \ overlaps, talking')
        BY <2>2, <2>3 DEF Below
      <4> QED
        BY <3>2, <4>1, <4>2 DEF Below
    <3> QED
      BY <2>1, <2>4, <3>2, <3>3, <3>4 DEF Speaking
  <2> QED
    BY <2>1, <2>5, <2>6
<1>5. CASE TakeUtterance
  <2>1. /\ utterances # <<>> /\ waiting' = Head(utterances) /\ utterances' = Tail(utterances)
        /\ UNCHANGED <<said, utter, overlaps>>
    BY <1>5 DEF TakeUtterance, speechVars
  <2>2. talking' = talking
    BY <2>1 DEF talking
  <2>3. /\ SpokenBut(Tail(utterances), overlaps)
        /\ Below({Head(utterances)} \ overlaps, Range(Tail(utterances)))
    BY <1>s, <1>t, <2>1, SpokenTail DEF Speaking
  <2>4. Head(utterances) \in Range(utterances) /\ Range(Tail(utterances)) \subseteq Range(utterances)
    BY <1>t, <2>1, TailEntries
  <2> QED
    BY <1>s, <2>1, <2>2, <2>3, <2>4 DEF Speaking, Below
<1>6. ASSUME NEW u \in Users, Packet(u), utter[u] # 0
      PROVE  UNCHANGED <<utterances, utter, overlaps, said, waiting>>
  BY <1>6 DEF Packet, listenVars
<1>7. ASSUME Closed \/ Activate \/ Cancel PROVE utter' = Silent /\ utterances' = <<>>
  BY <1>7 DEF Closed, Activate, FreshSession, Cancel
<1>8. ASSUME TakeTranscript \/ TranscriptTimeout
      PROVE  UNCHANGED <<utterances, utter, overlaps, said>> /\ waiting' = Nothing
  BY <1>8 DEF TakeTranscript, TranscriptTimeout, speechVars
<1>9. ASSUME TakeEvent, ~Cancel PROVE UNCHANGED <<utterances, utter, overlaps, said, waiting>>
  BY <1>9 DEF TakeEvent, HearTranscript, PlayAudio, Terminate, cancelVars
<1>10. ASSUME Transcribe PROVE UNCHANGED <<utterances, utter, overlaps, said, waiting>>
  BY <1>10 DEF Transcribe, listenVars
<1>11. ASSUME UNCHANGED <<speechVars, listenVars>>
       PROVE  UNCHANGED <<utterances, utter, overlaps, said, waiting>>
  BY <1>11 DEF speechVars, listenVars
<1> QED
  BY <1>1, <1>2, <1>3, <1>4, <1>5, <1>6, <1>7, <1>8, <1>9, <1>10, <1>11, HearingSteps

\* The order of what is heard, by what it is about.
Hearing(tr, ev, tk, O, n) ==
  /\ HeardBut(tr, O) /\ EventsBut(ev, n, O) /\ HeardBut(tk, O)
  /\ UpTo(UNION Range(tr), (SentIn(ev, n) \union UNION Range(tk)) \ O)
  /\ UpTo(SentIn(ev, n), (UNION Range(tk)) \ O)

LEMMA HearingReads ==
  /\ Sent = SentIn(events, said)
  /\ HeardInOrder <=> Hearing(transcripts, events, track, overlaps, said)
  /\ HeardInOrder' <=> Hearing(transcripts', events', track', overlaps', said')
<1>1. Sent = SentIn(events, said) /\ Sent' = SentIn(events', said')
  BY StretchTypes DEF Sent, SentIn
<1>2. EventsInOrder <=> EventsBut(events, said, overlaps)
  BY StretchTypes DEF EventsInOrder, EventsBut
<1>3. EventsInOrder' <=> EventsBut(events', said', overlaps')
  BY StretchTypes DEF EventsInOrder, EventsBut, UpTo
<1>4. /\ InOrder(transcripts) <=> HeardBut(transcripts, overlaps)
      /\ InOrder(track) <=> HeardBut(track, overlaps)
  BY DEF InOrder, HeardBut
<1>5. /\ InOrder(transcripts)' <=> HeardBut(transcripts', overlaps')
      /\ InOrder(track)' <=> HeardBut(track', overlaps')
  BY DEF InOrder, HeardBut, UpTo
<1>6. HeardInOrder <=> Hearing(transcripts, events, track, overlaps, said)
  BY <1>1, <1>2, <1>4 DEF HeardInOrder, Hearing
<1>7. HeardInOrder' <=> Hearing(transcripts', events', track', overlaps', said')
  <2>1. UpTo(UNION Range(transcripts), (Sent \union UNION Range(track)) \ overlaps)'
          <=> UpTo(UNION Range(transcripts'), (SentIn(events', said') \union UNION Range(track')) \ overlaps')
    BY <1>1
  <2>2. UpTo(Sent, (UNION Range(track)) \ overlaps)'
          <=> UpTo(SentIn(events', said'), (UNION Range(track')) \ overlaps')
    BY <1>1
  <2> QED
    BY <1>3, <1>5, <2>1, <2>2 DEF HeardInOrder, Hearing
<1> QED
  BY <1>1, <1>6, <1>7

\* The events keep their order, and nothing but a transcript of the first
\* stretch adds to the transcripts on their way.
LEMMA EventsStep ==
  ASSUME HearingTypeOK, HeardInOrder, [VoiceNext]_voiceVars
  PROVE  /\ EventsBut(events', said, overlaps)
         /\ \/ SentIn(events', said) \subseteq SentIn(events, said)
            \/ Transcribe /\ SentIn(events', said) \subseteq SentIn(events, said) \union Head(track)
<1>t. /\ said \in Nat /\ events \in Seq(EventsOf(said)) /\ track \in Seq(StretchesOf(said))
      /\ Hearing(transcripts, events, track, overlaps, said)
      /\ EventsBut(events, said, overlaps)
  BY VoiceAssumption, StretchTypes, HearingReads DEF HearingTypeOK, EventsOf, Hearing
<1>1. CASE events' = events
  BY <1>t, <1>1
<1>2. CASE events' = <<>>
  BY <1>2, EmptyOrder
<1>3. CASE events # <<>> /\ events' = Tail(events)
  BY <1>t, <1>3, EventsTail
<1>4. ASSUME NEW event \in {Started, Audio, Failed}, events' = Append(events, event)
      PROVE  EventsBut(events', said, overlaps) /\ SentIn(events', said) \subseteq SentIn(events, said)
  <2>1. event \in EventsOf(said) /\ \A words : event # Transcript(words)
    BY TranscriptWords DEF EventsOf
  <2>2. /\ EventsBut(Append(events, event), said, overlaps)
        /\ \A m \in SentIn(Append(events, event), said) : m \in SentIn(events, said)
    BY <1>t, <2>1, EventsAppend
  <2> QED
    BY <1>4, <2>2
<1>5. ASSUME Transcribe, events' = Append(events, Transcript(Head(track)))
      PROVE  /\ EventsBut(events', said, overlaps)
             /\ SentIn(events', said) \subseteq SentIn(events, said) \union Head(track)
  <2>1. track # <<>>
    BY <1>5 DEF Transcribe
  <2>2. Head(track) \in StretchesOf(said) /\ Head(track) \subseteq UNION Range(track)
    BY <1>t, <2>1, TailEntries, QueueType
  <2>3. UpTo(SentIn(events, said), Head(track) \ overlaps)
    BY <1>t, <2>2 DEF Hearing, UpTo
  <2>4. /\ Transcript(Head(track)) \in EventsOf(said)
        /\ \A words \in StretchesOf(said) :
             Transcript(Head(track)) = Transcript(words) => words = Head(track)
    BY <2>2, TranscriptWords DEF EventsOf
  <2>5. \A words \in StretchesOf(said) :
          Transcript(Head(track)) = Transcript(words) => UpTo(SentIn(events, said), words \ overlaps)
    BY <2>3, <2>4
  <2>6. /\ EventsBut(events', said, overlaps)
        /\ \A m \in SentIn(events', said) :
             \/ m \in SentIn(events, said)
             \/ \E words \in StretchesOf(said) : Transcript(Head(track)) = Transcript(words) /\ m \in words
    BY <1>t, <1>5, <2>4, <2>5, EventsAppend
  <2> QED
    BY <2>4, <2>6
<1> QED
  BY <1>1, <1>2, <1>3, <1>4, <1>5, EventSteps

\* The packet of an utterance comes after what was heard before, or other
\* speakers were heard during the utterance.
LEMMA AppendOpusStep ==
  ASSUME NEW m \in Nat, NEW n \in 1..m, NEW O, n \notin O => n = m, AppendOpus(n),
         track \in Seq(StretchesOf(m)), HeardBut(track, O), UNION Range(track) \subseteq 1..m
  PROVE  HeardBut(track', O) /\ UNION Range(track') = (UNION Range(track)) \union {n}
<1>1. UpTo(UNION Range(track), {n} \ O)
  BY DEF UpTo
<1>2. /\ {n} \in StretchesOf(m)
      /\ \A w \in StretchesOf(m) : w \union {n} \in StretchesOf(m)
  BY AddedStretch
<1>3. CASE track' = Append(track, {n})
  <2>1. UpTo(UNION Range(track), {n} \ O) /\ {n} \in StretchesOf(m)
    BY <1>1, <1>2
  <2> QED
    BY <1>3, <2>1, HeardAppend
<1>4. CASE track # <<>> /\ track' = [track EXCEPT ![Len(track)] = @ \union {n}]
  <2>1. \A w \in StretchesOf(m) : w \union {n} \in StretchesOf(m)
    BY <1>2
  <2>2. HeardBut(track', O) /\ Grown(track, track', n)
    BY <1>1, <1>4, <2>1, HeardExtend
  <2> QED
    BY <2>2 DEF Grown
<1> QED
  BY <1>3, <1>4 DEF AppendOpus

LEMMA HeardStep ==
  ASSUME HearingTypeOK, HeardInOrder, SpokenInOrder', [VoiceNext]_voiceVars
  PROVE  HeardInOrder'
<1>h. Hearing(transcripts, events, track, overlaps, said) /\ Sent = SentIn(events, said)
  BY HearingReads
<1>t. /\ said \in Nat /\ overlaps \subseteq 1..said /\ SentIn(events, said) \subseteq 1..said
      /\ UNION Range(transcripts) \subseteq 1..said /\ UNION Range(track) \subseteq 1..said
      /\ transcripts \in Seq(StretchesOf(said)) /\ track \in Seq(StretchesOf(said))
      /\ events \in Seq(EventsOf(said))
  BY <1>h, SaidSoFar, StretchTypes DEF HearingTypeOK, EventsOf
<1>e. /\ EventsBut(events', said, overlaps)
      /\ \/ SentIn(events', said) \subseteq SentIn(events, said)
         \/ Transcribe /\ SentIn(events', said) \subseteq SentIn(events, said) \union Head(track)
  BY EventsStep
<1> SUFFICES Hearing(transcripts', events', track', overlaps', said')
  BY HearingReads
<1>1. ASSUME transcripts' = <<>>, track' = <<>>, UNCHANGED <<said, overlaps>>
      PROVE  Hearing(transcripts', events', track', overlaps', said')
  BY <1>e, <1>1, EmptyOrder DEF Hearing, UpTo
<1>2. ASSUME UNCHANGED <<transcripts, track, said, overlaps>>
      PROVE  Hearing(transcripts', events', track', overlaps', said')
  <2>1. ~Transcribe
    <3> SUFFICES ASSUME Transcribe PROVE FALSE
      OBVIOUS
    <3>1. track # <<>> /\ track = Tail(track)
      BY <1>2 DEF Transcribe
    <3>2. Len(Tail(track)) = Len(track) - 1 /\ Len(track) \in Nat
      BY <1>t, <3>1, TailEntries
    <3> QED
      BY <3>1, <3>2
  <2>2. SentIn(events', said) \subseteq SentIn(events, said)
    BY <1>e, <2>1
  <2> QED
    BY <1>h, <1>e, <1>2, <2>2 DEF Hearing, UpTo
<1>3. ASSUME NEW u \in Users, Packet(u)
      PROVE  Hearing(transcripts', events', track', overlaps', said')
  <2>1. transcripts' = transcripts /\ events' = events
    BY <1>3 DEF Packet, listenVars, bridgeVars
  <2>2. said' \in {said, said + 1} /\ said' \in Nat /\ overlaps \subseteq overlaps'
    BY <1>t, <1>3 DEF Packet
  <2>3. PICK n \in talking' : AppendOpus(n) /\ n \in 1..said'
    <3>1. CASE utter[u] = 0
      <4>1. AppendOpus(said') /\ said' = said + 1
        BY <1>3, <3>1 DEF Packet
      <4> QED
        BY <1>t, <1>3, <3>1, <4>1, PacketTalking
    <3>2. CASE utter[u] # 0
      <4>1. AppendOpus(utter[u]) /\ UNCHANGED <<utter, said>> /\ u \in Allowed /\ DOMAIN utter = Allowed
        BY <1>3, <3>2 DEF Packet, HearingTypeOK
      <4>2. utter[u] \in talking /\ talking' = talking
        BY <3>2, <4>1 DEF talking, Range
      <4> QED
        BY <4>1, <4>2, SaidSoFar
    <3> QED
      BY <3>1, <3>2
  <2>4. n \notin overlaps' => n = said'
    BY SpeakingReads DEF Speaking
  <2>5. 1..said \subseteq 1..said' /\ StretchesOf(said) \subseteq StretchesOf(said')
    BY <1>t, <2>2, StretchesGrow
  <2>6. HeardBut(transcripts, overlaps') /\ HeardBut(track, overlaps') /\ EventsBut(events, said, overlaps')
    BY <1>h, <2>2 DEF Hearing, HeardBut, EventsBut, UpTo
  <2>7. HeardBut(track', overlaps') /\ UNION Range(track') = (UNION Range(track)) \union {n}
    <3>1. track \in Seq(StretchesOf(said')) /\ UNION Range(track) \subseteq 1..said'
      BY <1>t, <2>5, QueueType
    <3> QED
      BY <2>2, <2>3, <2>4, <2>6, <3>1, AppendOpusStep
  <2>8. EventsBut(events, said', overlaps') /\ SentIn(events, said') = SentIn(events, said)
    BY <1>t, <2>2, <2>6, EventsLater
  <2>9. \A X \in SUBSET (1..said) : UpTo(X, {n} \ overlaps')
    BY <1>t, <2>2, <2>4 DEF UpTo
  <2>10. /\ UpTo(UNION Range(transcripts), (SentIn(events, said) \union UNION Range(track')) \ overlaps')
         /\ UpTo(SentIn(events, said), (UNION Range(track')) \ overlaps')
    <3>1. /\ UpTo(UNION Range(transcripts), {n} \ overlaps')
          /\ UpTo(SentIn(events, said), {n} \ overlaps')
      BY <1>t, <2>9
    <3> QED
      BY <1>h, <2>2, <2>7, <3>1 DEF Hearing, UpTo
  <2> QED
    BY <2>1, <2>6, <2>7, <2>8, <2>10 DEF Hearing
<1>4. CASE TakeTranscript
  <2>1. /\ transcripts # <<>> /\ transcripts' = Tail(transcripts)
        /\ UNCHANGED <<events, track, said, overlaps>>
    BY <1>4 DEF TakeTranscript, bridgeVars, speechVars
  <2>2. /\ HeardBut(Tail(transcripts), overlaps)
        /\ UNION Range(Tail(transcripts)) \subseteq UNION Range(transcripts)
    BY <1>h, <1>t, <2>1, HeardTail DEF Hearing
  <2> QED
    BY <1>h, <2>1, <2>2 DEF Hearing, UpTo
<1>5. ASSUME TakeEvent, ~Cancel PROVE Hearing(transcripts', events', track', overlaps', said')
  <2>1. events # <<>> /\ events' = Tail(events) /\ UNCHANGED <<track, said, overlaps>>
    BY <1>5 DEF TakeEvent, HearTranscript, PlayAudio, Terminate, cancelVars
  <2>2. \/ transcripts' = transcripts
        \/ /\ Head(events).type = "transcript"
           /\ transcripts' = Append(transcripts, Head(events).of)
    BY <1>5 DEF TakeEvent, HearTranscript, PlayAudio, Terminate, cancelVars
  <2>3. CASE /\ Head(events).type = "transcript"
             /\ transcripts' = Append(transcripts, Head(events).of)
    <3>1. PICK words \in StretchesOf(said) : Head(events) = Transcript(words)
      <4>1. Head(events) \in EventsOf(said)
        BY <1>t, <2>1, QueueType
      <4> QED
        BY <2>3, <4>1, TranscriptWords DEF EventsOf
    <3>2. transcripts' = Append(transcripts, words)
      BY <2>3, <3>1, TranscriptWords
    <3>3. /\ SentIn(Tail(events), said) \subseteq SentIn(events, said)
          /\ words \subseteq SentIn(events, said) /\ UpTo(words, SentIn(Tail(events), said) \ overlaps)
      BY <1>h, <1>t, <2>1, <3>1, EventsTail DEF Hearing
    <3>4. UpTo(UNION Range(transcripts), words \ overlaps)
      BY <1>h, <3>3 DEF Hearing, UpTo
    <3>5. /\ HeardBut(Append(transcripts, words), overlaps)
          /\ UNION Range(Append(transcripts, words)) = (UNION Range(transcripts)) \union words
      <4>1. HeardBut(transcripts, overlaps) /\ transcripts \in Seq(StretchesOf(said))
        BY <1>h, <1>t DEF Hearing
      <4>2. HeardBut(Append(transcripts, words), overlaps)
        BY <3>4, <4>1, HeardAppend
      <4>3. UNION Range(Append(transcripts, words)) = (UNION Range(transcripts)) \union words
        BY <4>1, AppendEntries
      <4> QED
        BY <4>2, <4>3
    <3>6. /\ UpTo((UNION Range(transcripts)) \union words,
                  (SentIn(Tail(events), said) \union UNION Range(track)) \ overlaps)
          /\ UpTo(SentIn(Tail(events), said), (UNION Range(track)) \ overlaps)
      BY <1>h, <3>3 DEF Hearing, UpTo
    <3> QED
      BY <1>h, <1>e, <2>1, <3>2, <3>5, <3>6 DEF Hearing
  <2> QED
    BY <1>2, <2>1, <2>2, <2>3
<1>6. CASE Transcribe
  <2>1. /\ track # <<>> /\ track' = Tail(track)
        /\ UNCHANGED <<transcripts, said, overlaps>>
    BY <1>6 DEF Transcribe, listenVars
  <2>2. /\ HeardBut(Tail(track), overlaps)
        /\ UNION Range(Tail(track)) \subseteq UNION Range(track)
        /\ Head(track) \subseteq UNION Range(track)
        /\ UpTo(Head(track), (UNION Range(Tail(track))) \ overlaps)
    BY <1>h, <1>t, <2>1, HeardTail DEF Hearing
  <2>3. SentIn(events', said) \subseteq SentIn(events, said) \union Head(track)
    BY <1>e
  <2>4. /\ UpTo(UNION Range(transcripts), (SentIn(events', said) \union UNION Range(Tail(track))) \ overlaps)
        /\ UpTo(SentIn(events', said), (UNION Range(Tail(track))) \ overlaps)
    BY <1>h, <2>2, <2>3 DEF Hearing, UpTo
  <2> QED
    BY <1>h, <1>e, <2>1, <2>2, <2>4 DEF Hearing
<1>7. ASSUME \/ Closed \/ Activate
             \/ Cancel /\ UNCHANGED <<waiting, said, overlaps>>
      PROVE  transcripts' = <<>> /\ track' = <<>> /\ UNCHANGED <<said, overlaps>>
  BY <1>7 DEF Closed, Activate, FreshSession, Cancel
<1>8. ASSUME TakeEvent PROVE UNCHANGED <<said, overlaps>>
  BY <1>8 DEF TakeEvent
<1>9. ASSUME Cancel PROVE transcripts' = <<>> /\ track' = <<>>
  BY <1>9 DEF Cancel
<1>10. ASSUME NEW u \in Users, Flush(u) PROVE UNCHANGED <<transcripts, track, said, overlaps>>
  BY <1>10 DEF Flush
<1>11. ASSUME TakeUtterance \/ TranscriptTimeout PROVE UNCHANGED <<transcripts, track, said, overlaps>>
  BY <1>11 DEF TakeUtterance, TranscriptTimeout, speechVars
<1>12. ASSUME UNCHANGED <<speechVars, listenVars>>
       PROVE  UNCHANGED <<transcripts, track, said, overlaps>>
  BY <1>12 DEF speechVars, listenVars
<1>13. ASSUME TakeEvent PROVE Hearing(transcripts', events', track', overlaps', said')
  BY <1>1, <1>5, <1>8, <1>9, <1>13
<1>14. ASSUME \/ Closed \/ Activate
              \/ Cancel /\ UNCHANGED <<waiting, said, overlaps>>
       PROVE  Hearing(transcripts', events', track', overlaps', said')
  BY <1>1, <1>7, <1>14
<1>15. ASSUME \/ \E u \in Users : Flush(u)
              \/ TakeUtterance \/ TranscriptTimeout \/ UNCHANGED <<speechVars, listenVars>>
       PROVE  Hearing(transcripts', events', track', overlaps', said')
  BY <1>2, <1>10, <1>11, <1>12, <1>15
<1> QED
  BY <1>3, <1>4, <1>6, <1>13, <1>14, <1>15, HearingSteps

\* A turn has none of the words of its utterance only when utterances and
\* transcripts are out of step or others spoke during the utterance: without
\* strays, what is heard first belongs to an utterance that is not flushed yet
\* or waits, and the one that waits is the first of them.
LEMMA RightSpeakerStep ==
  ASSUME HearingTypeOK, SpokenInOrder, HeardInOrder, [VoiceNext]_voiceVars,
         pushing = Nothing, pushing' # Nothing, waiting \notin Head(transcripts)
  PROVE  Strays # {} \/ waiting \in overlaps
<1> SUFFICES ASSUME Strays = {}, waiting \notin overlaps PROVE FALSE
  OBVIOUS
<1>1. TakeTranscript
  <2>1. Closed \/ Activate => pushing' = Nothing
    BY DEF Closed, Activate, FreshSession
  <2>2. TakeUtterance \/ TakeTurn => pushing' = pushing
    BY DEF TakeUtterance, TakeTurn, turnVars
  <2>3. ~(Offer \/ Drain \/ Send)
    BY DEF Offer, Drain, Send, Pushing
  <2> QED
    BY <2>1, <2>2, <2>3, TurnSteps
<1>2. waiting # Nothing /\ transcripts # <<>>
  BY <1>1 DEF TakeTranscript
<1>3. /\ said \in Nat /\ waiting \in 1..said
      /\ Range(utterances) \subseteq 1..said /\ talking \subseteq 1..said
      /\ UNION Range(transcripts) \subseteq 1..said
      /\ transcripts \in Seq(StretchesOf(said))
      /\ Hearing(transcripts, events, track, overlaps, said) /\ Sent = SentIn(events, said)
      /\ Speaking(utterances, waiting, talking, overlaps, said)
  BY <1>2, SaidSoFar, StretchTypes, HearingReads, SpeakingReads DEF HearingTypeOK
<1>4. /\ Head(transcripts) \in StretchesOf(said) /\ Head(transcripts) \subseteq UNION Range(transcripts)
      /\ UpTo(Head(transcripts), (UNION Range(Tail(transcripts))) \ overlaps)
      /\ \A x \in Range(transcripts) : x = Head(transcripts) \/ x \in Range(Tail(transcripts))
  BY <1>2, <1>3, QueueType, HeardTail, TailEntries DEF Hearing
<1>5. PICK w : w \in Head(transcripts)
  BY <1>4 DEF StretchesOf
<1>6. Coming = Range(utterances) \union talking \union {waiting}
  BY <1>2 DEF Strays
<1>7. w \in Coming /\ waiting \in Coming /\ w # waiting /\ w \in 1..said
  BY <1>3, <1>4, <1>5, <1>6 DEF Coming
<1>8. w <= waiting
  <2>1. waiting \in (UNION Range(Tail(transcripts))) \union Sent \union UNION Range(track)
    <3>1. ASSUME NEW x \in Range(transcripts), waiting \in x PROVE x \in Range(Tail(transcripts))
      <4>1. x # Head(transcripts)
        BY <3>1
      <4> QED
        BY <1>4, <4>1
    <3> QED
      BY <1>7, <3>1 DEF Coming
  <2>2. CASE waiting \in UNION Range(Tail(transcripts))
    BY <1>4, <1>5, <2>2 DEF UpTo
  <2>3. CASE waiting \in Sent \union UNION Range(track)
    BY <1>3, <1>4, <1>5, <2>3 DEF Hearing, UpTo
  <2> QED
    BY <2>1, <2>2, <2>3
<1>9. waiting < w
  BY <1>2, <1>3, <1>6, <1>7 DEF Speaking, Below
<1> QED
  BY <1>3, <1>7, <1>8, <1>9

-----------------------------------------------------------------------------
(* The invariant of the voice sessions and its theorems *)

LEMMA VoiceInitially == VoiceInit => VoiceInv
<1> SUFFICES ASSUME VoiceInit PROVE VoiceInv
  OBVIOUS
<1> USE VoiceAssumption, EventAssumption
<1>1. Control
  BY ControlInit
<1>2. /\ bridge = "absent" /\ alive = FALSE /\ ready = {} /\ events = <<>>
      /\ said = 0 /\ utter = Silent /\ track = <<>> /\ overlaps = {}
      /\ utterances = <<>> /\ waiting = Nothing /\ transcripts = <<>>
      /\ pushing = Nothing /\ turns = <<>> /\ turn = Nothing /\ newest = Nothing /\ frames = 0
  BY DEF VoiceInit, BridgeInit
<1>3. BridgeTypeOK
  <2>1. EventCap \in Nat /\ Len(<<>>) = 0
    BY EventAssumption
  <2>2. Len(events) <= EventCap
    BY <1>2, <2>1
  <2> QED
    BY <1>2, <2>2 DEF BridgeTypeOK, Closing
<1>4. HearingTypeOK
  <2>1. utter \in [Allowed -> 0..said] /\ \A u \in Allowed : utter[u] = 0
    BY <1>2 DEF Silent
  <2>2. {track, transcripts} \subseteq Seq(Stretches) /\ Len(<<>>) = 0
    BY <1>2
  <2> QED
    BY <1>2, <2>1, <2>2 DEF HearingTypeOK
<1>5. TurnTypeOK
  BY <1>2 DEF TurnTypeOK
<1>6. PushInv /\ NewestKept
  BY <1>2 DEF PushInv, NewestKept, Pushing
<1>7. SpokenInOrder
  <2>1. talking = {}
    BY <1>2 DEF talking, Silent, Range
  <2>2. Range(utterances) = {} /\ Len(utterances) = 0
    BY <1>2, EmptyOrder
  <2> QED
    BY <1>2, <2>1, <2>2 DEF SpokenInOrder, Below
<1>8. HeardInOrder
  <2>1. Hearing(<<>>, <<>>, <<>>, overlaps, said)
    BY EmptyOrder DEF Hearing, UpTo
  <2> QED
    BY <1>2, <2>1, HearingReads
<1> QED
  BY <1>1, <1>3, <1>4, <1>5, <1>6, <1>7, <1>8 DEF VoiceInv, VoiceTypeOK, Control, OrderInv

LEMMA VoiceInvStep ==
  ASSUME VoiceInv, [VoiceNext]_voiceVars
  PROVE  VoiceInv'
<1>1. BridgeTypeOK /\ ManagerTypeOK /\ HearingTypeOK /\ TurnTypeOK
  BY DEF VoiceInv, VoiceTypeOK
<1>2. Control
  BY <1>1 DEF VoiceInv, Control, BridgeTypeOK, Bridges
<1>3. Control'
  BY <1>1, <1>2, ControlStep
<1>4. HearingTypeOK' /\ Len(events') <= EventCap
  BY <1>1, HearingTypeStep DEF BridgeTypeOK
<1>5. BridgeTypeOK'
  BY <1>3, <1>4 DEF Control, Bridges, BridgeTypeOK
<1>6. TurnTypeOK' /\ PushInv' /\ NewestKept'
  BY <1>1, VoiceTurnStep DEF VoiceInv
<1>7. SpokenInOrder'
  BY <1>1, SpokenStep DEF VoiceInv, OrderInv
<1>8. HeardInOrder'
  BY <1>1, <1>7, HeardStep DEF VoiceInv, OrderInv
<1> QED
  BY <1>3, <1>4, <1>5, <1>6, <1>7, <1>8 DEF VoiceInv, VoiceTypeOK, Control, OrderInv

(***************************************************************************)
(* What the manager, the goroutines of its session and the backend hold    *)
(* together, in every reachable state: VoiceInv is inductive.              *)
(***************************************************************************)
THEOREM VoiceInvariant == VoiceSpec => []VoiceInv
<1>1. VoiceInit => VoiceInv
  BY VoiceInitially
<1>2. VoiceInv /\ [VoiceNext]_voiceVars => VoiceInv'
  BY VoiceInvStep
<1> QED
  BY <1>1, <1>2, PTL DEF VoiceSpec

(***************************************************************************)
(* Every variable keeps its type: every channel its capacity, every queue  *)
(* holds utterances that were spoken, and what is heard is of such.        *)
(***************************************************************************)
THEOREM VoiceTypeCorrect == VoiceSpec => []VoiceTypeOK
<1>1. VoiceInv => VoiceTypeOK
  BY DEF VoiceInv
<1> QED
  BY <1>1, VoiceInvariant, PTL

(***************************************************************************)
(* When no operation holds opMu, a session has its backend and its client  *)
(* of the DAVE gateway, or neither a process, a connection nor a goroutine *)
(* is left, whatever failed and however joins, leaves and ends crossed     *)
(* (Join, Leave, onSessionTerminal, Close).  A client is left only by a    *)
(* join that failed, until the next one begins.                            *)
(***************************************************************************)
THEOREM NothingIsLeaked == VoiceSpec => []NothingLeaks
<1>1. VoiceInv => NothingLeaks
  BY ControlLeaksNothing DEF VoiceInv, Control, VoiceTypeOK, BridgeTypeOK, Bridges
<1> QED
  BY <1>1, VoiceInvariant, PTL

(***************************************************************************)
(* The newest turn is never the one that enqueueLatestVoiceTurn drops,     *)
(* wherever its selects meet the turn goroutine.                           *)
(***************************************************************************)
THEOREM NewestTurnIsKept == VoiceSpec => []NewestKept
<1>1. VoiceInv => NewestKept
  BY DEF VoiceInv
<1> QED
  BY <1>1, VoiceInvariant, PTL

(***************************************************************************)
(* A turn has none of the words of its speaker's utterance only when       *)
(* others spoke during that utterance or utterances and transcripts are    *)
(* out of step (processUtterances), however the packets of the speakers    *)
(* mix on the one audio track and wherever the backend cuts it.            *)
(***************************************************************************)
THEOREM SpeakersAreRight == VoiceSpec => RightSpeaker
<1>1. VoiceInv /\ [VoiceNext]_voiceVars
        => (pushing = Nothing /\ pushing' # Nothing /\ waiting \notin Head(transcripts)
              => Strays # {} \/ waiting \in overlaps)
  BY RightSpeakerStep DEF VoiceInv, VoiceTypeOK, OrderInv
<1> QED
  BY <1>1, VoiceInvariant, PTL DEF VoiceSpec, RightSpeaker
==============================================================================
