---------------------------- MODULE BridgeProofs ----------------------------
(***************************************************************************)
(* Proofs about Bridge: types for every value of the constants, and, for   *)
(* one reader whose window is no larger than DedupeMax, that no line is    *)
(* handed over again unless a restart lost its mark, and that the bridge   *)
(* implements ChatFeed.                                                    *)
(***************************************************************************)
EXTENDS Bridge, TLAPS

USE DEF Known

(***************************************************************************)
(* Cutting the list of marks keeps it a list of lines.                     *)
(***************************************************************************)
LEMMA PruneType ==
  ASSUME NEW o \in Seq(Lines), NEW e \in Lines
  PROVE  PruneOrder(Append(o, e)) \in Seq(Lines)
<1>1. Append(o, e) \in Seq(Lines) /\ Len(Append(o, e)) > 0
  OBVIOUS
<1>2. Append(o, e) # <<>>
  BY <1>1
<1> QED
  BY <1>1, <1>2 DEF PruneOrder

(***************************************************************************)
(* Every step keeps the types.                                             *)
(***************************************************************************)
LEMMA TypeStep == TypeOK /\ [Next]_vars => TypeOK'
<1> SUFFICES ASSUME TypeOK, [Next]_vars
             PROVE  TypeOK'
  OBVIOUS
<1> USE BridgeAssumption DEF TypeOK
<1>1. CASE Emit
  BY <1>1 DEF Emit
<1>2. ASSUME NEW c \in Clients, Fetch(c)
      PROVE  TypeOK'
  <2>1. FirstInWindow \in Nat \ {0}
    BY DEF FirstInWindow
  <2> QED
    BY <1>2, <2>1 DEF Fetch
<1>3. ASSUME NEW c \in Clients, SkipLine(c)
      PROVE  TypeOK'
  BY <1>3 DEF SkipLine
<1>4. ASSUME NEW c \in Clients, TakeLine(c)
      PROVE  TypeOK'
  <2>1. next[c] \in Lines
    BY <1>4 DEF TakeLine, Lines
  <2>2. order' \in Seq(Lines)
    BY <1>4, <2>1, PruneType DEF TakeLine
  <2>3. seen' \subseteq Lines
    BY <1>4, <2>1 DEF TakeLine, PruneSeen
  <2>4. diskSeen' \subseteq Lines /\ diskOrder' \in Seq(Lines)
    BY <1>4, <2>2, <2>3 DEF TakeLine, SaveState
  <2>5. events' \in [Clients -> SUBSET Lines] /\ handed' \in [Lines -> Nat]
    BY <1>4, <2>1 DEF TakeLine
  <2>6. next' \in [Clients -> Nat \ {0}]
    BY <1>4 DEF TakeLine
  <2>7. UNCHANGED <<emitted, scanning, last, forgot, restarts>>
    BY <1>4 DEF TakeLine
  <2> QED
    BY <2>2, <2>3, <2>4, <2>5, <2>6, <2>7
<1>5. ASSUME NEW c \in Clients, Respond(c)
      PROVE  TypeOK'
  BY <1>5 DEF Respond
<1>6. CASE Restart
  BY <1>6 DEF Restart
<1>7. CASE UNCHANGED vars
  BY <1>7 DEF vars
<1> QED
  BY <1>1, <1>2, <1>3, <1>4, <1>5, <1>6, <1>7 DEF Next

(***************************************************************************)
(* Every variable of the bridge keeps its type (BridgeState, its file and  *)
(* the request loop of getMCConsole).                                      *)
(***************************************************************************)
THEOREM TypeCorrect == Spec => []TypeOK
<1>1. Init => TypeOK
  BY BridgeAssumption DEF Init, TypeOK
<1> QED
  BY <1>1, TypeStep, PTL DEF Spec
-----------------------------------------------------------------------------
(***************************************************************************)
(* A line that no GET will look at stays so.                               *)
(***************************************************************************)
LEMMA DeadStays ==
  ASSUME TypeOK, [Next]_vars, NEW e \in Lines, Dead(e)
  PROVE  Dead(e)'
<1> USE BridgeAssumption DEF TypeOK, Dead, Lines
<1>1. CASE Emit
  BY <1>1 DEF Emit
<1>2. ASSUME NEW c \in Clients, Fetch(c)
      PROVE  Dead(e)'
  <2>1. e < FirstInWindow
    BY DEF FirstInWindow
  <2> QED
    BY <1>2, <2>1 DEF Fetch
<1>3. ASSUME NEW c \in Clients, SkipLine(c)
      PROVE  Dead(e)'
  BY <1>3 DEF SkipLine
<1>4. ASSUME NEW c \in Clients, TakeLine(c)
      PROVE  Dead(e)'
  BY <1>4 DEF TakeLine
<1>5. ASSUME NEW c \in Clients, Respond(c)
      PROVE  Dead(e)'
  BY <1>5 DEF Respond
<1>6. CASE Restart
  BY <1>6 DEF Restart
<1>7. CASE UNCHANGED vars
  BY <1>7 DEF vars
<1> QED
  BY <1>1, <1>2, <1>3, <1>4, <1>5, <1>6, <1>7 DEF Next

(***************************************************************************)
(* The console only grows.                                                 *)
(***************************************************************************)
LEMMA EmittedGrows ==
  ASSUME TypeOK, [Next]_vars
  PROVE  emitted \in Nat /\ emitted' \in Nat /\ emitted <= emitted'
<1>1. emitted \in Nat /\ emitted' \in Nat
  BY TypeStep, BridgeAssumption DEF TypeOK
<1>2. emitted' = emitted \/ emitted' = emitted + 1
  BY DEF Next, Emit, Fetch, SkipLine, TakeLine, Respond, Restart, vars
<1> QED
  BY <1>1, <1>2

(***************************************************************************)
(* What pruneLocked makes of a list of ascending marks with a new one at   *)
(* its end: it stays ascending, fits into DedupeMax, loses the same marks  *)
(* as the map, and each of those lies at least DedupeMax lines back.       *)
(***************************************************************************)
LEMMA PruneMarks ==
  ASSUME NEW o \in Seq(Nat), NEW k \in Nat, Spread(o),
         \A i \in 1 .. Len(o) : o[i] < k
  PROVE  /\ Spread(PruneOrder(Append(o, k)))
         /\ PruneSeen(Elements(o) \union {k}, Append(o, k))
              = Elements(PruneOrder(Append(o, k)))
         /\ k \in Elements(PruneOrder(Append(o, k)))
         /\ Elements(PruneOrder(Append(o, k))) \subseteq Elements(o) \union {k}
         /\ \A e \in (Elements(o) \union {k}) \ Elements(PruneOrder(Append(o, k))) :
              e \in Nat /\ e + DedupeMax <= k
<1> DEFINE longer == Append(o, k)
           n == Len(o)
<1>1. n \in Nat /\ n <= DedupeMax /\ DedupeMax \in Nat \ {0}
  BY BridgeAssumption DEF Spread
<1>2. \A i \in 1 .. n : o[i] \in Nat
  OBVIOUS
<1>3. /\ longer \in Seq(Nat) /\ Len(longer) = n + 1
      /\ \A i \in 1 .. n : longer[i] = o[i]
      /\ longer[n + 1] = k
  OBVIOUS
<1>4. \A i \in 1 .. n + 1 : longer[i] \in Nat
  BY <1>3, <1>1
<1>5. \A i, j \in 1 .. n + 1 : i <= j => longer[i] + (j - i) <= longer[j]
  <2>1. \A i, j \in 1 .. n : i <= j => o[i] + (j - i) <= o[j]
    BY DEF Spread
  <2>2. \A i \in 1 .. n : o[i] + (n + 1 - i) <= k
    <3> TAKE i \in 1 .. n
    <3>1. n \in 1 .. n /\ i <= n
      BY <1>1
    <3>2. o[i] + (n - i) <= o[n] /\ o[n] < k
      BY <2>1, <3>1
    <3> QED
      BY <3>1, <3>2, <1>1, <1>2
  <2> TAKE i, j \in 1 .. n + 1
  <2>3. CASE j = n + 1 /\ i = n + 1
    BY <2>3, <1>3
  <2>4. CASE j = n + 1 /\ i # n + 1
    BY <2>4, <1>3, <2>2, <1>1
  <2>5. CASE j # n + 1
    BY <2>5, <1>3, <2>1, <1>1
  <2> QED
    BY <2>3, <2>4, <2>5
<1>6. Elements(longer) = Elements(o) \union {k}
  BY <1>3, <1>1 DEF Elements
<1>7. CASE n + 1 <= DedupeMax
  <2>1. PruneOrder(longer) = longer
        /\ PruneSeen(Elements(o) \union {k}, longer) = Elements(o) \union {k}
    BY <1>7, <1>3, <1>1 DEF PruneOrder, PruneSeen
  <2> QED
    BY <2>1, <1>3, <1>5, <1>6, <1>7 DEF Spread
<1>8. CASE n + 1 > DedupeMax
  <2> DEFINE p == Tail(longer)
  <2>1. n = DedupeMax /\ n > 0
    BY <1>8, <1>1
  <2>2. PruneOrder(longer) = p
        /\ PruneSeen(Elements(o) \union {k}, longer) = (Elements(o) \union {k}) \ {longer[1]}
    BY <1>8, <1>3, <1>1 DEF PruneOrder, PruneSeen
  <2>3. Len(p) = n /\ \A i \in 1 .. n : p[i] = longer[i + 1]
    BY <1>3, <2>1
  <2> HIDE DEF p, n, longer
  <2>4. \A i \in 1 .. n : i + 1 \in 1 .. n + 1 /\ longer[i + 1] # longer[1]
    <3> TAKE i \in 1 .. n
    <3>1. 1 \in 1 .. n + 1 /\ i + 1 \in 1 .. n + 1 /\ i \in Nat /\ i > 0
      BY <1>1
    <3>2. longer[1] + i <= longer[i + 1] /\ longer[1] \in Nat /\ longer[i + 1] \in Nat
      BY <3>1, <1>4, <1>5
    <3> QED
      BY <3>1, <3>2
  <2>5. \A i \in 1 .. n + 1 : i # 1 => i - 1 \in 1 .. n /\ longer[i] = longer[(i - 1) + 1]
    BY <1>1
  <2>6. Elements(p) = (Elements(o) \union {k}) \ {longer[1]}
    <3>1. Elements(p) = {longer[i + 1] : i \in 1 .. n}
      BY <2>3 DEF Elements
    <3>2. Elements(longer) = {longer[i] : i \in 1 .. n + 1}
      BY <1>3 DEF Elements
    <3>3. {longer[i + 1] : i \in 1 .. n} = {longer[i] : i \in 1 .. n + 1} \ {longer[1]}
      BY <2>4, <2>5
    <3> QED
      BY <3>1, <3>2, <3>3, <1>6
  <2>7. longer[1] \in Nat /\ longer[1] + DedupeMax <= k
    <3>1. 1 \in 1 .. n + 1 /\ n + 1 \in 1 .. n + 1
      BY <1>1
    <3>2. longer[1] + ((n + 1) - 1) <= longer[n + 1] /\ longer[1] \in Nat
      BY <3>1, <1>1, <1>4, <1>5
    <3> QED
      BY <3>2, <1>1, <1>3, <2>1
  <2>8. k \in Elements(p)
    <3>1. n \in 1 .. n /\ p[n] = k
      BY <2>1, <2>3, <1>1, <1>3
    <3> QED
      BY <3>1, <2>3 DEF Elements
  <2>9. Spread(p)
    <3>1. \A i, j \in 1 .. n : i <= j => p[i] + (j - i) <= p[j]
      <4> SUFFICES ASSUME NEW i \in 1 .. n, NEW j \in 1 .. n, i <= j
                   PROVE  p[i] + (j - i) <= p[j]
        OBVIOUS
      <4>1. /\ i + 1 \in 1 .. n + 1 /\ j + 1 \in 1 .. n + 1
            /\ i + 1 <= j + 1 /\ (j + 1) - (i + 1) = j - i
        BY <1>1
      <4>2. longer[i + 1] + ((j + 1) - (i + 1)) <= longer[j + 1]
        BY <4>1, <1>5
      <4>3. p[i] = longer[i + 1] /\ p[j] = longer[j + 1]
        BY <2>3
      <4> QED
        BY <4>1, <4>2, <4>3
    <3> QED
      BY <3>1, <2>1, <2>3, <1>1 DEF Spread
  <2> QED
    BY <2>2, <2>6, <2>7, <2>8, <2>9 DEF longer
<1> QED
  BY <1>7, <1>8, <1>1
(***************************************************************************)
(* The lists of marks hold numbers, and the lists' lines are their marks.  *)
(***************************************************************************)
LEMMA MarkTypes ==
  ASSUME IInv
  PROVE  /\ Lines \subseteq Nat /\ Chat \subseteq Lines
         /\ order \in Seq(Nat) /\ diskOrder \in Seq(Nat)
         /\ seen \subseteq Lines /\ diskSeen \subseteq Lines
         /\ Window \in Nat \ {0} /\ DedupeMax \in Nat \ {0}
         /\ emitted \in Nat
         /\ next \in [Clients -> Nat] /\ last \in [Clients -> Nat]
<1>1. TypeOK /\ Lines \subseteq Nat
  BY BridgeAssumption DEF IInv, Lines
<1>2. order \in Seq(Nat) /\ diskOrder \in Seq(Nat)
  <2>1. order \in Seq(Lines) /\ diskOrder \in Seq(Lines)
    BY <1>1 DEF TypeOK
  <2>2. ASSUME NEW o \in Seq(Lines)
        PROVE  o \in Seq(Nat)
    <3>1. Len(o) \in Nat /\ o = [i \in 1 .. Len(o) |-> o[i]] /\ \A i \in 1 .. Len(o) : o[i] \in Nat
      BY <1>1
    <3> QED
      BY <3>1
  <2> QED
    BY <2>1, <2>2
<1>3. emitted \in Nat /\ next \in [Clients -> Nat] /\ last \in [Clients -> Nat]
  BY <1>1, BridgeAssumption DEF TypeOK
<1> QED
  BY <1>1, <1>2, <1>3, BridgeAssumption DEF TypeOK

(***************************************************************************)
(* Marks that a step keeps stay good: the lines they miss are out of       *)
(* reach, and stay so.                                                     *)
(***************************************************************************)
LEMMA MarksStay ==
  ASSUME IInv, [Next]_vars, NEW marks \in SUBSET Lines, GoodMarks(marks)
  PROVE  /\ \A m \in marks : m <= emitted' /\ m \in Chat
         /\ \A m \in marks, e \in Chat \ marks : e < m => Dead(e)'
<1>1. emitted <= emitted' /\ emitted \in Nat /\ emitted' \in Nat
  BY EmittedGrows DEF IInv
<1>2. \A m \in marks : m <= emitted' /\ m \in Chat
  BY <1>1, MarkTypes DEF GoodMarks
<1>3. ASSUME NEW m \in marks, NEW e \in Chat \ marks, e < m
      PROVE  Dead(e)'
  BY <1>3, DeadStays, MarkTypes DEF GoodMarks, IInv
<1> QED
  BY <1>2, <1>3

(***************************************************************************)
(* The new mark that seenBefore makes belongs to the end of the list, and  *)
(* what pruneLocked drops is out of every GET's reach.                     *)
(***************************************************************************)
LEMMA TakeMark ==
  ASSUME IInv, OneReader, WindowFits, NEW c \in Clients, TakeLine(c)
  PROVE  /\ (seen = Elements(order))' /\ Spread(order)' /\ GoodMarks(seen)'
         /\ seen' \subseteq seen \union {next[c]} /\ next[c] \in seen'
         /\ \A e \in seen \ seen' : Dead(e)'
<1> DEFINE k == next[c]
<1>1. TypeOK /\ TypeOK' /\ [Next]_vars
  BY TypeStep DEF IInv, Next
<1>2. k \in Chat /\ k \notin seen /\ c \in scanning /\ k <= last[c] /\ GoodRequest(c)
  BY DEF TakeLine, IInv
<1>3. k \in Nat /\ last[c] \in Nat /\ last[c] <= emitted /\ k <= emitted
  BY <1>2, MarkTypes DEF GoodRequest
<1>4. \A m \in seen : m < k
  <2> SUFFICES ASSUME NEW m \in seen, ~(m < k)
               PROVE  FALSE
    OBVIOUS
  <2>1. k < m
    BY <1>2, <1>3, MarkTypes
  <2>2. Dead(k)
    BY <2>1, <1>2 DEF IInv, GoodMarks
  <2> QED
    BY <2>2, <1>2, <1>3 DEF Dead
<1>5. \A e \in Lines : e < k /\ e + Window <= emitted => Dead(e)'
  <2>1. emitted' = emitted /\ scanning' = scanning /\ next' = [next EXCEPT ![c] = k + 1]
    BY DEF TakeLine
  <2>2. next'[c] = k + 1 /\ \A d \in scanning : d = c
    BY <2>1, <1>1, MarkTypes DEF TypeOK, OneReader
  <2> QED
    BY <2>1, <2>2, <1>3, MarkTypes DEF Dead
<1>6. \A e \in Chat \ seen : e < k => Dead(e)'
  <2> SUFFICES ASSUME NEW e \in Chat \ seen, e < k
               PROVE  Dead(e)'
    OBVIOUS
  <2>1. CASE Dead(e)
    BY <2>1, <1>1, DeadStays, MarkTypes
  <2>2. CASE ~Dead(e)
    <3>1. ~(last[c] < e + Window)
      BY <2>2, <1>2 DEF GoodRequest
    <3>2. e + Window <= emitted
      BY <3>1, <1>3, MarkTypes
    <3> QED
      BY <3>2, <1>5, MarkTypes
  <2> QED
    BY <2>1, <2>2
<1>7. /\ seen = Elements(order)
      /\ order' = PruneOrder(Append(order, k))
      /\ seen' = PruneSeen(Elements(order) \union {k}, Append(order, k))
  BY DEF TakeLine, IInv
<1>8. /\ Spread(order')
      /\ seen' = Elements(order')
      /\ k \in seen' /\ seen' \subseteq seen \union {k}
      /\ \A e \in (seen \union {k}) \ seen' : e \in Nat /\ e + DedupeMax <= k
  <2>1. \A i \in 1 .. Len(order) : order[i] < k
    BY <1>4, <1>7 DEF Elements
  <2>2. Spread(order) /\ order \in Seq(Nat)
    BY MarkTypes DEF IInv
  <2>3. k \in Nat
    BY <1>3
  <2>4. /\ Spread(PruneOrder(Append(order, k)))
        /\ PruneSeen(Elements(order) \union {k}, Append(order, k))
             = Elements(PruneOrder(Append(order, k)))
        /\ k \in Elements(PruneOrder(Append(order, k)))
        /\ Elements(PruneOrder(Append(order, k))) \subseteq Elements(order) \union {k}
        /\ \A e \in (Elements(order) \union {k}) \ Elements(PruneOrder(Append(order, k))) :
             e \in Nat /\ e + DedupeMax <= k
    <3> HIDE DEF k
    <3> QED
      BY <2>1, <2>2, <2>3, PruneMarks
  <2> QED
    BY <2>4, <1>7
<1>9. \A e \in seen \ seen' : Dead(e)'
  <2> TAKE e \in seen \ seen'
  <2>1. e \in Lines /\ e \in Nat /\ e < k /\ e + DedupeMax <= k
    BY <1>4, <1>8, MarkTypes
  <2>2. e + Window <= emitted
    BY <2>1, <1>3, MarkTypes DEF WindowFits
  <2> QED
    BY <2>1, <2>2, <1>5
<1>10. GoodMarks(seen)'
  <2>1. \A m \in seen' : m <= emitted' /\ m \in Chat
    <3>1. emitted' = emitted
      BY DEF TakeLine
    <3> QED
      BY <3>1, <1>2, <1>3, <1>8 DEF IInv, GoodMarks
  <2>2. ASSUME NEW m \in seen', NEW e \in Chat \ seen', e < m
        PROVE  Dead(e)'
    <3>1. m \in Nat /\ e \in Nat /\ m <= k
      BY <1>3, <1>4, <1>8, MarkTypes
    <3>2. CASE e \in seen
      BY <3>2, <2>2, <1>9
    <3>3. CASE e \notin seen
      BY <3>1, <3>3, <2>2, <1>3, <1>6
    <3> QED
      BY <3>2, <3>3
  <2> QED
    BY <2>1, <2>2 DEF GoodMarks
<1> QED
  BY <1>8, <1>9, <1>10 DEF Spread, Elements
(***************************************************************************)
(* IInv holds at the start and is preserved by every step.                 *)
(***************************************************************************)
LEMMA IInvInit == Init => IInv
<1> SUFFICES ASSUME Init
             PROVE  IInv
  OBVIOUS
<1>1. TypeOK
  BY BridgeAssumption DEF Init, TypeOK
<1>2. Spread(<<>>) /\ Elements(<<>>) = {}
  BY BridgeAssumption DEF Spread, Elements
<1> QED
  BY <1>1, <1>2 DEF Init, IInv, GoodMarks, GoodCount

\* Every step keeps it, with one reader and a window within DedupeMax.
LEMMA IInvStep ==
  ASSUME OneReader, WindowFits, IInv, [Next]_vars
  PROVE  IInv'
<1>1. TypeOK' /\ TypeOK
  BY TypeStep DEF IInv
<1>2. ASSUME UNCHANGED <<seen, order, diskSeen, diskOrder>>
      PROVE  /\ (seen = Elements(order))' /\ Spread(order)' /\ GoodMarks(seen)'
             /\ (diskSeen = Elements(diskOrder))' /\ Spread(diskOrder)' /\ GoodMarks(diskSeen)'
  <2>1. GoodMarks(seen)'
    BY <1>2, MarksStay, MarkTypes DEF IInv, GoodMarks
  <2>2. GoodMarks(diskSeen)'
    BY <1>2, MarksStay, MarkTypes DEF IInv, GoodMarks
  <2> QED
    BY <1>2, <2>1, <2>2 DEF IInv, Elements, Spread
<1>3. ASSUME UNCHANGED <<seen, diskSeen, handed, forgot>>
      PROVE  \A e \in Lines : GoodCount(e)'
  BY <1>3, <1>1, DeadStays DEF IInv, GoodCount
<1>4. CASE Emit
  <2>1. \A c \in scanning' : GoodRequest(c)'
    <3> SUFFICES ASSUME NEW c \in scanning
                 PROVE  GoodRequest(c)'
      BY <1>4 DEF Emit
    <3>1. GoodRequest(c) /\ c \in Clients
      BY <1>1 DEF IInv, TypeOK
    <3>2. emitted' = emitted + 1 /\ UNCHANGED <<next, last, seen>>
      BY <1>4 DEF Emit
    <3>3. \A e \in Chat : Dead(e) => Dead(e)'
      BY <1>1, DeadStays, MarkTypes
    <3> QED
      BY <3>1, <3>2, <3>3, MarkTypes DEF GoodRequest
  <2> QED
    BY <1>1, <1>2, <1>3, <1>4, <2>1 DEF Emit, IInv
<1>5. ASSUME NEW c \in Clients, Fetch(c)
      PROVE  IInv'
  <2>1. \A d \in scanning' : d = c
    BY <1>5, <1>1 DEF Fetch, OneReader, TypeOK
  <2>2. next'[c] = FirstInWindow /\ last'[c] = emitted /\ emitted' = emitted
    BY <1>5, <1>1 DEF Fetch, TypeOK
  <2>3. GoodRequest(c)'
    <3>1. FirstInWindow \in Nat /\ FirstInWindow <= emitted + 1 /\ emitted < FirstInWindow + Window
      BY MarkTypes DEF FirstInWindow
    <3>2. \A e \in Nat : e < FirstInWindow /\ e > 0 => e + Window <= emitted
      BY MarkTypes DEF FirstInWindow
    <3>3. \A e \in Chat : e \in Nat /\ e > 0
      BY MarkTypes DEF Lines
    <3> QED
      BY <2>2, <3>1, <3>2, <3>3, MarkTypes DEF GoodRequest
  <2> QED
    BY <1>1, <1>2, <1>3, <1>5, <2>1, <2>3 DEF Fetch, IInv
<1>6. ASSUME NEW c \in Clients, SkipLine(c)
      PROVE  IInv'
  <2>1. \A d \in scanning' : d = c
    BY <1>6, <1>1 DEF SkipLine, OneReader, TypeOK
  <2>2. next'[c] = next[c] + 1 /\ UNCHANGED <<last, emitted, seen>>
    BY <1>6, <1>1 DEF SkipLine, TypeOK
  <2>3. GoodRequest(c)'
    <3>1. GoodRequest(c) /\ next[c] <= last[c] /\ (next[c] \notin Chat \/ next[c] \in seen)
      BY <1>6 DEF SkipLine, IInv
    <3>2. \A e \in Chat : Dead(e) => Dead(e)'
      BY <1>1, DeadStays, MarkTypes
    <3>3. \A e \in Chat : e < next[c] + 1 => e < next[c] \/ e = next[c]
      BY MarkTypes
    <3> QED
      BY <2>2, <3>1, <3>2, <3>3, MarkTypes DEF GoodRequest
  <2> QED
    BY <1>1, <1>2, <1>3, <1>6, <2>1, <2>3 DEF SkipLine, IInv
<1>7. ASSUME NEW c \in Clients, TakeLine(c)
      PROVE  IInv'
  <2> DEFINE k == next[c]
  <2>1. /\ (seen = Elements(order))' /\ Spread(order)' /\ GoodMarks(seen)'
        /\ seen' \subseteq seen \union {k} /\ k \in seen'
        /\ \A e \in seen \ seen' : Dead(e)'
    BY <1>7, TakeMark
  <2>2. k \in Lines /\ k \notin seen /\ k <= last[c] /\ c \in scanning
    BY <1>7, MarkTypes DEF TakeLine
  <2>3. next'[c] = k + 1 /\ UNCHANGED <<last, emitted, forgot, scanning>>
        /\ handed' = [handed EXCEPT ![k] = @ + 1]
    BY <1>7, <1>1 DEF TakeLine, TypeOK
  <2>4. \A e \in Lines : Dead(e) => Dead(e)'
    BY <1>1, DeadStays
  <2>5. ~Dead(k)
    BY <2>2, MarkTypes DEF Dead
  <2>6. k \notin diskSeen /\ handed[k] = forgot[k]
    <3>1. GoodCount(k)
      BY <2>2 DEF IInv
    <3>2. handed[k] \in Nat /\ forgot[k] \in Nat
      BY <1>1, <2>2 DEF TypeOK
    <3> QED
      BY <2>2, <2>5, <3>1, <3>2 DEF GoodCount
  <2>7. \/ diskSeen' = seen' /\ diskOrder' = order'
        \/ UNCHANGED <<diskSeen, diskOrder>>
    BY <1>7 DEF TakeLine, SaveState
  <2>8. (diskSeen = Elements(diskOrder))' /\ Spread(diskOrder)' /\ GoodMarks(diskSeen)'
    <3>1. CASE diskSeen' = seen' /\ diskOrder' = order'
      BY <3>1, <2>1 DEF Elements, Spread, GoodMarks
    <3>2. CASE UNCHANGED <<diskSeen, diskOrder>>
      <4>1. GoodMarks(diskSeen)'
        BY <3>2, MarksStay, MarkTypes DEF IInv, GoodMarks
      <4> QED
        BY <3>2, <4>1 DEF IInv, Elements, Spread
    <3> QED
      BY <2>7, <3>1, <3>2
  <2>9. \A d \in scanning' : GoodRequest(d)'
    <3>1. \A d \in scanning' : d = c
      BY <2>3, <1>1 DEF OneReader, TypeOK
    <3>2. GoodRequest(c)
      BY <2>2 DEF IInv
    <3>3. \A e \in Chat : e < k + 1 => e < k \/ e = k
      BY MarkTypes
    <3>4. \A e \in Chat : e \in seen => e \in seen' \/ Dead(e)'
      BY <2>1
    <3>5. GoodRequest(c)'
      BY <2>1, <2>2, <2>3, <2>4, <3>2, <3>3, <3>4, MarkTypes DEF GoodRequest
    <3> QED
      BY <3>1, <3>5
  <2>10. ASSUME NEW e \in Lines
         PROVE  GoodCount(e)'
    <3>1. GoodCount(e) /\ handed[e] \in Nat /\ forgot[e] \in Nat
      BY <1>1 DEF IInv, TypeOK
    <3>2. CASE e = k
      BY <3>1, <3>2, <2>1, <2>3, <2>6, <1>1 DEF GoodCount, TypeOK
    <3>3. CASE e # k
      <4>1. handed'[e] = handed[e] /\ forgot'[e] = forgot[e]
        BY <3>3, <2>3, <1>1 DEF TypeOK
      <4>2. e \in seen' \union diskSeen' => e \in seen \union diskSeen
        BY <3>3, <2>1, <2>7
      <4> QED
        BY <3>1, <4>1, <4>2, <2>1, <2>4 DEF GoodCount
    <3> QED
      BY <3>2, <3>3
  <2> QED
    BY <1>1, <2>1, <2>8, <2>9, <2>10 DEF IInv
<1>8. ASSUME NEW c \in Clients, Respond(c)
      PROVE  IInv'
  <2>1. scanning' = {}
    BY <1>8, <1>1 DEF Respond, OneReader, TypeOK
  <2> QED
    BY <1>1, <1>2, <1>3, <1>8, <2>1 DEF Respond, IInv
<1>9. CASE Restart
  <2>1. /\ seen' = diskSeen /\ order' = diskOrder /\ scanning' = {}
        /\ UNCHANGED <<diskSeen, diskOrder, handed, emitted>>
        /\ forgot' = [e \in Lines |-> IF e \in seen \ diskSeen THEN forgot[e] + 1 ELSE forgot[e]]
    BY <1>9 DEF Restart
  <2>2. (diskSeen = Elements(diskOrder))' /\ Spread(diskOrder)' /\ GoodMarks(diskSeen)'
    <3>1. GoodMarks(diskSeen)'
      BY <2>1, MarksStay, MarkTypes DEF IInv, GoodMarks
    <3> QED
      BY <2>1, <3>1 DEF IInv, Elements, Spread
  <2>3. (seen = Elements(order))' /\ Spread(order)' /\ GoodMarks(seen)'
    BY <2>1, <2>2 DEF Elements, Spread, GoodMarks
  <2>4. ASSUME NEW e \in Lines
        PROVE  GoodCount(e)'
    <3>1. GoodCount(e) /\ handed[e] \in Nat /\ forgot[e] \in Nat /\ (Dead(e) => Dead(e)')
      BY <1>1, DeadStays DEF IInv, TypeOK
    <3> QED
      BY <2>1, <3>1 DEF GoodCount
  <2> QED
    BY <1>1, <2>1, <2>2, <2>3, <2>4 DEF IInv
<1>10. CASE UNCHANGED vars
  <2>1. \A c \in scanning : GoodRequest(c)'
    <3>1. \A e \in Chat : Dead(e) => Dead(e)'
      BY <1>1, DeadStays, MarkTypes
    <3> QED
      BY <1>10, <3>1 DEF IInv, vars, GoodRequest
  <2> QED
    BY <1>1, <1>2, <1>3, <1>10, <2>1 DEF vars, IInv
<1> QED
  BY <1>4, <1>5, <1>6, <1>7, <1>8, <1>9, <1>10 DEF Next

(***************************************************************************)
(* With one reader and a window that fits into DedupeMax, a chat line is   *)
(* handed over at most once per mark: neither pruneLocked nor a restart    *)
(* from the saved file repeats a line whose mark was not lost.             *)
(***************************************************************************)
THEOREM NoLineTwice ==
  ASSUME OneReader, WindowFits
  PROVE  Spec => []AtMostOncePerMark
<1>1. IInv => AtMostOncePerMark
  BY DEF IInv, GoodCount, AtMostOncePerMark
<1>2. IInv /\ [Next]_vars => IInv'
  BY IInvStep
<1> QED
  BY <1>1, <1>2, IInvInit, PTL DEF Spec

(***************************************************************************)
(* With one reader and a window that fits into DedupeMax, the bridge       *)
(* implements ChatFeed: seenBefore hands a line over, a restart forgets    *)
(* marks, and everything else is a stutter.                                *)
(***************************************************************************)
THEOREM ImplementsFeed ==
  ASSUME OneReader, WindowFits
  PROVE  Spec => FeedSpec
<1> USE DEF Feed!Lines, Feed!Available, Feed!Marked, Feed!feedVars
<1>1. Init => Feed!Init
  BY DEF Init, Feed!Init, Lines
<1>2. IInv /\ [Next]_vars => [Feed!Next]_(Feed!feedVars)
  <2> SUFFICES ASSUME IInv, [Next]_vars
               PROVE  Feed!Next \/ UNCHANGED <<emitted, handed, forgot>>
    OBVIOUS
  <2>1. CASE Emit
    BY <2>1 DEF Emit, Feed!Emit, Feed!Next
  <2>2. ASSUME NEW c \in Clients, TakeLine(c)
        PROVE  Feed!Next
    <3> DEFINE k == next[c]
    <3>1. k \in Lines /\ k \notin seen /\ k <= last[c] /\ c \in scanning
      BY <2>2, MarkTypes DEF TakeLine
    <3>2. ~Dead(k) /\ GoodCount(k) /\ GoodRequest(c)
      BY <3>1, MarkTypes DEF Dead, IInv
    <3>3. k \in 1 .. emitted /\ ~(handed[k] > forgot[k])
      BY <3>1, <3>2, MarkTypes DEF GoodCount, GoodRequest, Lines, IInv, TypeOK
    <3>4. handed' = [e \in Lines |-> IF e \in {k} THEN handed[e] + 1 ELSE handed[e]]
      BY <2>2 DEF TakeLine, IInv, TypeOK
    <3>5. Feed!HandOver({k})
      BY <2>2, <3>3, <3>4 DEF TakeLine, Feed!HandOver, Lines
    <3> QED
      BY <3>1, <3>5 DEF Feed!Next, Lines
  <2>3. CASE Restart
    <3>1. \A e \in seen \ diskSeen : e \in Lines /\ handed[e] > forgot[e]
      BY MarkTypes DEF IInv, GoodCount, TypeOK
    <3>2. Feed!Forget(seen \ diskSeen)
      BY <2>3, <3>1 DEF Restart, Feed!Forget, Lines
    <3> QED
      BY <3>1, <3>2 DEF Feed!Next, Lines
  <2> QED
    BY <2>1, <2>2, <2>3 DEF Next, Fetch, SkipLine, Respond, vars
<1>3. IInv /\ [Next]_vars => IInv'
  BY IInvStep
<1> QED
  BY <1>1, <1>2, <1>3, IInvInit, PTL DEF Spec, FeedSpec, Feed!Spec
=============================================================================
