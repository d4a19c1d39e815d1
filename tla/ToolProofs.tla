----------------------------- MODULE ToolProofs -----------------------------
(***************************************************************************)
(* Proofs about what the tools of the agent answer from: the workspace     *)
(* files that the query programs read (Workspace), for any quests, party,  *)
(* items, holders and requests, and the shared memory (MemoryStore), for   *)
(* any number of agents, slots and values.                                 *)
(*                                                                         *)
(* Workspace.  QuestsInv is inductive: every quest index was made of       *)
(* progress files, and those that were decoded lay between those there     *)
(* were when its scan began and those there are.  ItemsInv is: every item  *)
(* file says of its own stacks what indexFromData says.  What the planner  *)
(* makes of them rests on lemmas about sums over finite sets and about the *)
(* order of a plan.                                                        *)
(*                                                                         *)
(* MemoryStore.  The lock makes read, compute and replace one transaction, *)
(* and the three operations on the file are those of Memory, done at once. *)
(***************************************************************************)
EXTENDS Workspace, MemoryStore, FiniteSetTheorems, WellFoundedInduction, TLAPS

-----------------------------------------------------------------------------
(* Sums and finite sets *)

\* A set of naturals has a least element.
LEMMA Least ==
  ASSUME NEW S, S \subseteq Nat, S # {}
  PROVE  \E m \in S : \A k \in S : m <= k
PROOF
  <1> DEFINE Less == OpToRel(<, Nat)
  <1>1. IsWellFoundedOn(Less, Nat)
    BY NatLessThanWellFounded
  <1>2. PICK m \in S : \A k \in S : <<k, m>> \notin Less
    <2> HIDE DEF Less
    <2> QED
      BY <1>1, WFMin
  <1>3. ASSUME NEW k \in S PROVE m <= k
    <2>1. k < m => <<k, m>> \in Less
      BY DEF OpToRel
    <2> HIDE DEF Less
    <2>2. ~(k < m)
      BY <1>2, <2>1
    <2> QED
      BY <2>2
  <1> QED
    BY <1>3

\* Induction over the naturals, for a set: the least number outside the set
\* would have a predecessor inside.
LEMMA Induction ==
  ASSUME NEW S, 0 \in S, \A n \in Nat : n \in S => n + 1 \in S
  PROVE  \A n \in Nat : n \in S
PROOF
  <1> SUFFICES ASSUME Nat \ S # {} PROVE FALSE
    OBVIOUS
  <1>1. PICK m \in Nat \ S : \A k \in Nat \ S : m <= k
    BY Least
  <1>2. m # 0 /\ m - 1 \in Nat /\ m - 1 \notin S
    BY <1>1
  <1> QED
    BY <1>1, <1>2

\* The element a fold over a set begins with.
First(s) == CHOOSE x \in s : TRUE

\* iter is the fold of a sum over the subsets of S.
Sums(iter, f, S) ==
  \A s \in SUBSET S : iter[s] = IF s = {} THEN 0 ELSE f[First(s)] + iter[s \ {First(s)}]

\* The fold of a sum is well defined.
LEMMA SumLoop ==
  ASSUME NEW f, NEW S, IsFiniteSet(S)
  PROVE  \E iter : /\ SumFunctionOnSet(f, S) = iter[S]
                   /\ Sums(iter, f, S)
PROOF
  <1> DEFINE Step(g, s) == IF s = {} THEN 0 ELSE f[First(s)] + g[s \ {First(s)}]
             Small(n) == {s \in SUBSET S : Cardinality(s) <= n}
             Defined(n) == \E g : g = [s \in Small(n) |-> Step(g, s)]
             iter == CHOOSE g : g = [s \in SUBSET S |-> Step(g, s)]
  <1>1. SumFunctionOnSet(f, S) = iter[S]
    BY DEF SumFunctionOnSet, FoldFunctionOnSet, MapThenFoldSet, First
  <1>2. \A s \in SUBSET S : IsFiniteSet(s) /\ Cardinality(s) \in Nat
    BY FS_Subset, FS_CardinalityType
  <1>3. Defined(0)
    <2> DEFINE g == [s \in Small(0) |-> 0]
    <2>1. \A s \in Small(0) : s = {}
      BY <1>2, FS_EmptySet
    <2>2. g = [s \in Small(0) |-> Step(g, s)]
      BY <2>1
    <2> QED
      BY <2>2
  <1>4. ASSUME NEW n \in Nat, Defined(n) PROVE Defined(n + 1)
    <2>1. PICK g : g = [s \in Small(n) |-> Step(g, s)]
      BY <1>4
    <2> DEFINE h == [s \in Small(n + 1) |-> IF s \in Small(n) THEN g[s] ELSE Step(g, s)]
    <2>2. ASSUME NEW s \in Small(n + 1), s # {}
          PROVE  s \ {First(s)} \in Small(n)
      <3>1. First(s) \in s
        BY <2>2 DEF First
      <3>2. Cardinality(s \ {First(s)}) = Cardinality(s) - 1
        BY <1>2, <3>1, FS_RemoveElement
      <3> QED
        BY <1>2, <3>2
    <2>3. \A s \in Small(n) : s \in Small(n + 1)
      BY <1>2
    <2>4. ASSUME NEW s \in Small(n + 1) PROVE h[s] = Step(h, s)
      <3>1. h[s] = Step(g, s)
        <4> HIDE DEF Step
        <4> QED
          BY <2>1
      <3>2. s # {} => h[s \ {First(s)}] = g[s \ {First(s)}]
        <4> HIDE DEF Small
        <4> QED
          BY <2>2, <2>3
      <3> QED
        BY <3>1, <3>2
    <2>5. h = [s \in Small(n + 1) |-> Step(h, s)]
      <3> HIDE DEF Small, Step
      <3> QED
        BY <2>4
    <2> QED
      BY <2>5
  <1>5. Defined(Cardinality(S))
    <2> DEFINE N == {n \in Nat : Defined(n)}
    <2> HIDE DEF Defined
    <2>1. 0 \in N /\ \A n \in Nat : n \in N => n + 1 \in N
      BY <1>3, <1>4
    <2>2. \A n \in Nat : n \in N
      <3> HIDE DEF N
      <3> QED
        BY <2>1, Induction
    <2> QED
      BY <1>2, <2>2
  <1>6. Small(Cardinality(S)) = SUBSET S
    BY <1>2, FS_Subset
  <1>7. iter = [s \in SUBSET S |-> Step(iter, s)]
    BY <1>5, <1>6
  <1> HIDE DEF iter
  <1>8. \A s \in SUBSET S : iter[s] = Step(iter, s)
    <2> HIDE DEF Step
    <2> QED
      BY <1>7
  <1> QED
    BY <1>1, <1>8 DEF Sums

\* A set of subsets that holds a set when it holds all those with one element
\* less holds all subsets.
LEMMA SetInduction ==
  ASSUME NEW S, IsFiniteSet(S), NEW P,
         \A s \in SUBSET S : (\A x \in s : s \ {x} \in P) => s \in P
  PROVE  \A s \in SUBSET S : s \in P
PROOF
  <1> DEFINE N == {n \in Nat : \A s \in SUBSET S : Cardinality(s) = n => s \in P}
  <1>1. \A s \in SUBSET S : IsFiniteSet(s) /\ Cardinality(s) \in Nat
    BY FS_Subset, FS_CardinalityType
  <1>2. 0 \in N
    BY <1>1, FS_EmptySet
  <1>3. ASSUME NEW n \in Nat, n \in N PROVE n + 1 \in N
    <2> SUFFICES ASSUME NEW s \in SUBSET S, Cardinality(s) = n + 1 PROVE s \in P
      BY DEF N
    <2>1. ASSUME NEW x \in s PROVE s \ {x} \in P
      <3>1. s \ {x} \in SUBSET S /\ Cardinality(s \ {x}) = Cardinality(s) - 1
        BY <1>1, <2>1, FS_RemoveElement
      <3>2. Cardinality(s \ {x}) = n
        BY <3>1
      <3> QED
        BY <1>3, <3>1, <3>2
    <2> QED
      BY <2>1
  <1>4. \A n \in Nat : n \in N
    <2> HIDE DEF N
    <2> QED
      BY <1>2, <1>3, Induction
  <1> QED
    BY <1>1, <1>4

\* A sum is that of the first element, and the sum of the others.
LEMMA SumFirst ==
  ASSUME NEW f, NEW S, IsFiniteSet(S), S # {}
  PROVE  SumFunctionOnSet(f, S) = f[First(S)] + SumFunctionOnSet(f, S \ {First(S)})
PROOF
  <1> DEFINE T == S \ {First(S)}
  <1>1. PICK all : SumFunctionOnSet(f, S) = all[S] /\ Sums(all, f, S)
    BY SumLoop
  <1>2. IsFiniteSet(T)
    BY FS_Subset
  <1>3. PICK rest : SumFunctionOnSet(f, T) = rest[T] /\ Sums(rest, f, T)
    <2> HIDE DEF T
    <2> QED
      BY <1>2, SumLoop
  <1> DEFINE P == {s \in SUBSET T : all[s] = rest[s]}
  <1>4. ASSUME NEW s \in SUBSET T, \A x \in s : s \ {x} \in P PROVE s \in P
    <2>1. s # {} => First(s) \in s
      BY DEF First
    <2>2. s \in SUBSET S
      OBVIOUS
    <2> HIDE DEF T
    <2> QED
      BY <1>1, <1>3, <1>4, <2>1, <2>2 DEF Sums
  <1>5. \A s \in SUBSET T : s \in P
    <2> HIDE DEF T, P
    <2> QED
      BY <1>2, <1>4, SetInduction
  <1>6. T \in P
    BY <1>5
  <1>7. all[S] = f[First(S)] + all[T]
    BY <1>1 DEF Sums
  <1> QED
    BY <1>1, <1>3, <1>6, <1>7

\* The empty sum.
LEMMA SumEmpty ==
  ASSUME NEW f
  PROVE  SumFunctionOnSet(f, {}) = 0
PROOF
  <1>1. IsFiniteSet({})
    BY FS_EmptySet
  <1> QED
    BY <1>1, SumLoop DEF Sums

\* A sum of integers is an integer.
LEMMA SumInt ==
  ASSUME NEW f, NEW S, IsFiniteSet(S), \A x \in S : f[x] \in Int
  PROVE  SumFunctionOnSet(f, S) \in Int
PROOF
  <1> DEFINE P == {s \in SUBSET S : SumFunctionOnSet(f, s) \in Int}
  <1>1. ASSUME NEW s \in SUBSET S, \A x \in s : s \ {x} \in P PROVE s \in P
    <2>1. CASE s = {}
      BY <2>1, SumEmpty
    <2>2. CASE s # {}
      <3>1. First(s) \in s
        BY <2>2 DEF First
      <3>2. SumFunctionOnSet(f, s) = f[First(s)] + SumFunctionOnSet(f, s \ {First(s)})
        BY <2>2, SumFirst, FS_Subset
      <3> QED
        BY <1>1, <3>1, <3>2
    <2> QED
      BY <2>1, <2>2
  <1>2. \A s \in SUBSET S : s \in P
    <2> HIDE DEF P
    <2> QED
      BY <1>1, SetInduction
  <1> QED
    BY <1>2

\* Any element can be taken out of a sum.
LEMMA SumRemove ==
  ASSUME NEW f, NEW S, IsFiniteSet(S), \A x \in S : f[x] \in Int
  PROVE  \A y \in S : SumFunctionOnSet(f, S) = f[y] + SumFunctionOnSet(f, S \ {y})
PROOF
  <1> DEFINE Sum(s) == SumFunctionOnSet(f, s)
             P == {s \in SUBSET S : \A y \in s : Sum(s) = f[y] + Sum(s \ {y})}
  <1>1. ASSUME NEW s \in SUBSET S PROVE Sum(s) \in Int /\ IsFiniteSet(s)
    BY SumInt, FS_Subset
  <1>2. ASSUME NEW s \in SUBSET S, \A x \in s : s \ {x} \in P, NEW y \in s
        PROVE  Sum(s) = f[y] + Sum(s \ {y})
    <2> DEFINE x == First(s)
    <2>1. x \in s
      BY DEF First
    <2>2. Sum(s) = f[x] + Sum(s \ {x})
      BY <1>1, SumFirst
    <2>3. CASE x # y
      <3> DEFINE rest == (s \ {x}) \ {y}
      <3>1. Sum(s \ {x}) = f[y] + Sum(rest)
        BY <1>2, <2>1, <2>3
      <3>2. (s \ {y}) \ {x} = rest
        OBVIOUS
      <3>3. Sum(s \ {y}) = f[x] + Sum(rest)
        <4>1. Sum(s \ {y}) = f[x] + Sum((s \ {y}) \ {x})
          BY <1>2, <2>1, <2>3
        <4> QED
          BY <3>2, <4>1
      <3>4. Sum(rest) \in Int /\ f[x] \in Int /\ f[y] \in Int
        BY <1>1, <2>1
      <3> HIDE DEF x, Sum, rest
      <3> QED
        BY <2>2, <3>1, <3>3, <3>4
    <2> QED
      BY <2>2, <2>3
  <1>3. \A s \in SUBSET S : s \in P
    <2>1. \A s \in SUBSET S : (\A x \in s : s \ {x} \in P) => s \in P
      BY <1>2
    <2> HIDE DEF P
    <2> QED
      BY <2>1, SetInduction
  <1> QED
    BY <1>3

\* A sum grows by what is added.
LEMMA SumAdd ==
  ASSUME NEW f, NEW S, IsFiniteSet(S), NEW y, y \notin S,
         \A x \in S \union {y} : f[x] \in Int
  PROVE  SumFunctionOnSet(f, S \union {y}) = f[y] + SumFunctionOnSet(f, S)
PROOF
  <1>1. IsFiniteSet(S \union {y})
    BY FS_AddElement
  <1>2. (S \union {y}) \ {y} = S
    OBVIOUS
  <1> QED
    BY <1>1, <1>2, SumRemove

\* Functions that agree on a set have the same sum over it.
LEMMA SumSame ==
  ASSUME NEW f, NEW g, NEW S, IsFiniteSet(S), \A x \in S : f[x] = g[x]
  PROVE  SumFunctionOnSet(f, S) = SumFunctionOnSet(g, S)
PROOF
  <1> DEFINE P == {s \in SUBSET S : SumFunctionOnSet(f, s) = SumFunctionOnSet(g, s)}
  <1>1. ASSUME NEW s \in SUBSET S, \A x \in s : s \ {x} \in P PROVE s \in P
    <2>1. CASE s = {}
      BY <2>1, SumEmpty
    <2>2. CASE s # {}
      <3>1. First(s) \in s /\ IsFiniteSet(s)
        BY <2>2, FS_Subset DEF First
      <3>2. /\ SumFunctionOnSet(f, s) = f[First(s)] + SumFunctionOnSet(f, s \ {First(s)})
            /\ SumFunctionOnSet(g, s) = g[First(s)] + SumFunctionOnSet(g, s \ {First(s)})
        BY <2>2, <3>1, SumFirst
      <3> QED
        BY <1>1, <3>1, <3>2
    <2> QED
      BY <2>1, <2>2
  <1>2. \A s \in SUBSET S : s \in P
    <2> HIDE DEF P
    <2> QED
      BY <1>1, SetInduction
  <1> QED
    BY <1>2

\* The greater function has the greater sum.
LEMMA SumMonotone ==
  ASSUME NEW f, NEW g, NEW S, IsFiniteSet(S),
         \A x \in S : f[x] \in Int /\ g[x] \in Int /\ f[x] <= g[x]
  PROVE  SumFunctionOnSet(f, S) <= SumFunctionOnSet(g, S)
PROOF
  <1> DEFINE P == {s \in SUBSET S : SumFunctionOnSet(f, s) <= SumFunctionOnSet(g, s)}
  <1>1. ASSUME NEW s \in SUBSET S, \A x \in s : s \ {x} \in P PROVE s \in P
    <2>1. CASE s = {}
      BY <2>1, SumEmpty
    <2>2. CASE s # {}
      <3> DEFINE t == s \ {First(s)}
      <3>1. First(s) \in s /\ IsFiniteSet(s)
        BY <2>2, FS_Subset DEF First
      <3>2. /\ SumFunctionOnSet(f, s) = f[First(s)] + SumFunctionOnSet(f, t)
            /\ SumFunctionOnSet(g, s) = g[First(s)] + SumFunctionOnSet(g, t)
        BY <2>2, <3>1, SumFirst
      <3>3. SumFunctionOnSet(f, t) \in Int /\ SumFunctionOnSet(g, t) \in Int
        <4>1. IsFiniteSet(t) /\ \A x \in t : f[x] \in Int /\ g[x] \in Int
          BY <3>1, FS_Subset
        <4> HIDE DEF t
        <4> QED
          BY <4>1, SumInt
      <3>4. SumFunctionOnSet(f, t) <= SumFunctionOnSet(g, t)
        BY <1>1, <3>1
      <3>5. f[First(s)] \in Int /\ g[First(s)] \in Int /\ f[First(s)] <= g[First(s)]
        BY <3>1
      <3> HIDE DEF t
      <3>6. SumFunctionOnSet(f, s) <= SumFunctionOnSet(g, s)
        BY <3>2, <3>3, <3>4, <3>5
      <3> QED
        BY <3>6
    <2> QED
      BY <2>1, <2>2
  <1>2. \A s \in SUBSET S : s \in P
    <2> HIDE DEF P
    <2> QED
      BY <1>1, SetInduction
  <1> QED
    BY <1>2

\* A sum is that of its parts.
LEMMA SumUnion ==
  ASSUME NEW f, NEW S, NEW T, IsFiniteSet(S), IsFiniteSet(T), S \intersect T = {},
         \A x \in S \union T : f[x] \in Int
  PROVE  SumFunctionOnSet(f, S \union T) = SumFunctionOnSet(f, S) + SumFunctionOnSet(f, T)
PROOF
  <1> DEFINE Sum(s) == SumFunctionOnSet(f, s)
             P == {t \in SUBSET T : Sum(S \union t) = Sum(S) + Sum(t)}
  <1>1. Sum(S) \in Int
    BY SumInt
  <1>2. ASSUME NEW t \in SUBSET T, \A x \in t : t \ {x} \in P PROVE t \in P
    <2>1. CASE t = {}
      <3>1. S \union t = S
        BY <2>1
      <3> QED
        BY <1>1, <2>1, <3>1, SumEmpty
    <2>2. CASE t # {}
      <3>1. PICK y : y \in t
        BY <2>2
      <3> DEFINE u == t \ {y}
      <3>2. IsFiniteSet(t) /\ IsFiniteSet(S \union t) /\ IsFiniteSet(u)
        BY FS_Subset, FS_Union
      <3>3. (S \union t) \ {y} = S \union u
        BY <3>1
      <3>4. Sum(S \union t) = f[y] + Sum(S \union u)
        <4>1. y \in S \union t /\ \A x \in S \union t : f[x] \in Int
          BY <3>1
        <4> QED
          BY <3>2, <3>3, <4>1, SumRemove
      <3>5. Sum(t) = f[y] + Sum(u)
        BY <3>1, <3>2, SumRemove
      <3>6. Sum(S \union u) = Sum(S) + Sum(u)
        BY <1>2, <3>1
      <3>7. Sum(u) \in Int /\ f[y] \in Int
        BY <3>1, <3>2, SumInt
      <3> HIDE DEF Sum, u
      <3>8. Sum(S \union t) = Sum(S) + Sum(t)
        BY <1>1, <3>4, <3>5, <3>6, <3>7
      <3> QED
        BY <3>8
    <2> QED
      BY <2>1, <2>2
  <1>3. \A t \in SUBSET T : t \in P
    <2> HIDE DEF P
    <2> QED
      BY <1>2, SetInduction
  <1> QED
    BY <1>3

\* A sum of naturals is one.
LEMMA SumNat ==
  ASSUME NEW f, NEW S, IsFiniteSet(S), \A x \in S : f[x] \in Nat
  PROVE  SumFunctionOnSet(f, S) \in Nat
PROOF
  <1> DEFINE P == {s \in SUBSET S : SumFunctionOnSet(f, s) \in Nat}
  <1>1. ASSUME NEW s \in SUBSET S, \A x \in s : s \ {x} \in P PROVE s \in P
    <2>1. CASE s = {}
      BY <2>1, SumEmpty
    <2>2. CASE s # {}
      <3>1. First(s) \in s
        BY <2>2 DEF First
      <3>2. SumFunctionOnSet(f, s) = f[First(s)] + SumFunctionOnSet(f, s \ {First(s)})
        BY <2>2, SumFirst, FS_Subset
      <3> QED
        BY <1>1, <3>1, <3>2
    <2> QED
      BY <2>1, <2>2
  <1>2. \A s \in SUBSET S : s \in P
    <2> HIDE DEF P
    <2> QED
      BY <1>1, SetInduction
  <1> QED
    BY <1>2

\* A part of a sum of naturals is no greater.
LEMMA SumSubset ==
  ASSUME NEW f, NEW S, IsFiniteSet(S), \A x \in S : f[x] \in Nat, NEW T \in SUBSET S
  PROVE  SumFunctionOnSet(f, T) <= SumFunctionOnSet(f, S)
PROOF
  <1> DEFINE U == S \ T
  <1>1. IsFiniteSet(T) /\ IsFiniteSet(U)
    BY FS_Subset
  <1>2. T \union U = S /\ T \intersect U = {}
    OBVIOUS
  <1>3. \A x \in T \union U : f[x] \in Int
    BY <1>2
  <1>4. (\A x \in T : f[x] \in Nat) /\ (\A x \in U : f[x] \in Nat)
    OBVIOUS
  <1> HIDE DEF U
  <1>5. SumFunctionOnSet(f, T \union U) = SumFunctionOnSet(f, T) + SumFunctionOnSet(f, U)
    BY <1>1, <1>2, <1>3, SumUnion
  <1>6. SumFunctionOnSet(f, T) \in Nat /\ SumFunctionOnSet(f, U) \in Nat
    BY <1>1, <1>4, SumNat
  <1>7. SumFunctionOnSet(f, S) = SumFunctionOnSet(f, T \union U)
    BY <1>2
  <1>8. SumFunctionOnSet(f, S) = SumFunctionOnSet(f, T) + SumFunctionOnSet(f, U)
    BY <1>5, <1>7
  <1> QED
    BY <1>6, <1>8

\* The sum of one element.
LEMMA SumOne ==
  ASSUME NEW f, NEW x, f[x] \in Int
  PROVE  SumFunctionOnSet(f, {x}) = f[x]
PROOF
  <1>1. IsFiniteSet({}) /\ SumFunctionOnSet(f, {}) = 0 /\ {} \union {x} = {x}
    BY FS_EmptySet, SumEmpty
  <1>2. SumFunctionOnSet(f, {} \union {x}) = f[x] + SumFunctionOnSet(f, {})
    BY <1>1, SumAdd
  <1> QED
    BY <1>1, <1>2

\* A sum of naturals is no less than each of them.
LEMMA SumAtLeast ==
  ASSUME NEW f, NEW S, IsFiniteSet(S), \A x \in S : f[x] \in Nat, NEW y \in S
  PROVE  f[y] <= SumFunctionOnSet(f, S)
PROOF
  <1>1. f[y] \in Int /\ {y} \in SUBSET S
    OBVIOUS
  <1>2. SumFunctionOnSet(f, {y}) = f[y]
    BY <1>1, SumOne
  <1>3. SumFunctionOnSet(f, {y}) <= SumFunctionOnSet(f, S)
    BY <1>1, SumSubset
  <1> QED
    BY <1>2, <1>3

\* The elements of one part, and of several.
PartOf(S, part, k) == {x \in S : part[x] = k}
PartsOf(S, part, K) == {x \in S : part[x] \in K}

\* A sum is that of the sums of its parts.
LEMMA SumParts ==
  ASSUME NEW f, NEW S, IsFiniteSet(S), \A x \in S : f[x] \in Int,
         NEW part, NEW K, IsFiniteSet(K),
         NEW g, \A k \in K : g[k] = SumFunctionOnSet(f, PartOf(S, part, k))
  PROVE  SumFunctionOnSet(g, K) = SumFunctionOnSet(f, PartsOf(S, part, K))
PROOF
  <1> USE DEF PartOf, PartsOf
  <1> DEFINE In(L) == PartsOf(S, part, L)
             Of(k) == PartOf(S, part, k)
             P == {L \in SUBSET K : SumFunctionOnSet(g, L) = SumFunctionOnSet(f, In(L))}
  <1>1. \A L : IsFiniteSet(In(L)) /\ \A x \in In(L) : f[x] \in Int
    BY FS_Subset
  <1>2. \A k : IsFiniteSet(Of(k)) /\ \A x \in Of(k) : f[x] \in Int
    BY FS_Subset
  <1>3. \A k \in K : g[k] \in Int /\ g[k] = SumFunctionOnSet(f, Of(k))
    <2>1. \A k \in K : g[k] = SumFunctionOnSet(f, Of(k))
      OBVIOUS
    <2> HIDE DEF Of
    <2> QED
      BY <1>2, <2>1, SumInt
  <1>4. ASSUME NEW L \in SUBSET K, \A k \in L : L \ {k} \in P PROVE L \in P
    <2>1. CASE L = {}
      <3>1. In(L) = {}
        BY <2>1
      <3> QED
        BY <2>1, <3>1, SumEmpty
    <2>2. CASE L # {}
      <3>1. PICK k : k \in L
        BY <2>2
      <3> DEFINE M == L \ {k}
      <3>2. In(L) = In(M) \union Of(k) /\ In(M) \intersect Of(k) = {}
        BY <3>1
      <3>3. SumFunctionOnSet(g, M) = SumFunctionOnSet(f, In(M))
        BY <1>4, <3>1
      <3>4. IsFiniteSet(L) /\ \A l \in L : g[l] \in Int
        BY <1>3, FS_Subset
      <3>5. SumFunctionOnSet(g, L) = g[k] + SumFunctionOnSet(g, M)
        BY <3>1, <3>4, SumRemove
      <3> HIDE DEF M, In, Of, P
      <3>6. SumFunctionOnSet(f, In(M) \union Of(k)) = SumFunctionOnSet(f, In(M)) + SumFunctionOnSet(f, Of(k))
        BY <1>1, <1>2, <3>2, SumUnion
      <3>7. SumFunctionOnSet(f, In(M)) \in Int
        BY <1>1, SumInt
      <3>8. g[k] \in Int /\ g[k] = SumFunctionOnSet(f, Of(k))
        BY <1>3, <3>1
      <3>9. SumFunctionOnSet(g, L) = SumFunctionOnSet(f, In(L))
        BY <3>2, <3>3, <3>5, <3>6, <3>7, <3>8
      <3> QED
        BY <3>9 DEF P
    <2> QED
      BY <2>1, <2>2
  <1>5. \A L \in SUBSET K : L \in P
    <2> HIDE DEF P
    <2> QED
      BY <1>4, SetInduction
  <1> HIDE DEF PartOf, PartsOf
  <1>6. K \in P
    BY <1>5
  <1> QED
    BY <1>6

\* The values of a finite function are finitely many.
LEMMA FiniteRange ==
  ASSUME NEW f, IsFiniteSet(DOMAIN f)
  PROVE  IsFiniteSet({f[x] : x \in DOMAIN f})
PROOF
  <1> DEFINE Image(s) == {f[x] : x \in s}
             P == {s \in SUBSET DOMAIN f : IsFiniteSet(Image(s))}
  <1>1. ASSUME NEW s \in SUBSET DOMAIN f, \A x \in s : s \ {x} \in P PROVE s \in P
    <2>1. CASE s = {}
      <3>1. Image(s) = {}
        BY <2>1
      <3> QED
        BY <3>1, FS_EmptySet
    <2>2. CASE s # {}
      <3>1. PICK x : x \in s
        BY <2>2
      <3>2. Image(s) = Image(s \ {x}) \union {f[x]}
        BY <3>1
      <3>3. IsFiniteSet(Image(s \ {x}))
        BY <1>1, <3>1
      <3>4. IsFiniteSet(Image(s \ {x}) \union {f[x]})
        <4> HIDE DEF Image
        <4> QED
          BY <3>3, FS_AddElement
      <3> QED
        BY <3>2, <3>4
    <2> QED
      BY <2>1, <2>2
  <1>2. \A s \in SUBSET DOMAIN f : s \in P
    <2> HIDE DEF P
    <2> QED
      BY <1>1, SetInduction
  <1> QED
    BY <1>2

\* Stacks that can be counted.
StacksOk(S) == IsFiniteSet(S) /\ S \subseteq Stack

\* The counts of the stacks.
Counts(S) == [s \in S |-> s.count]

\* The total of a part of the stacks, over the counts of them all.
LEMMA TotalOfPart ==
  ASSUME NEW S, StacksOk(S), NEW T \in SUBSET S
  PROVE  /\ StacksOk(T)
         /\ Total(T) = SumFunctionOnSet(Counts(S), T)
         /\ Total(T) \in Nat
         /\ \A x \in S : Counts(S)[x] \in Nat
PROOF
  <1>1. StacksOk(T)
    BY FS_Subset DEF StacksOk
  <1>2. \A s \in S : s.count \in Nat
    BY DEF StacksOk, Stack
  <1>3. Total(T) = SumFunctionOnSet(Counts(T), T)
    BY DEF Total, SumFunction, Counts
  <1>4. \A s \in T : Counts(S)[s] = Counts(T)[s]
    BY DEF Counts
  <1>5. \A s \in S : Counts(S)[s] \in Nat
    BY <1>2 DEF Counts
  <1>6. SumFunctionOnSet(Counts(S), T) = SumFunctionOnSet(Counts(T), T)
    BY <1>1, <1>4, SumSame DEF StacksOk
  <1>7. SumFunctionOnSet(Counts(S), T) \in Nat
    <2>1. \A s \in T : Counts(S)[s] \in Nat
      BY <1>5
    <2> QED
      BY <1>1, <2>1, SumNat DEF StacksOk
  <1> QED
    BY <1>1, <1>3, <1>5, <1>6, <1>7

\* What the chosen holders of an item have of it.
LEMMA HitsSum ==
  ASSUME NEW S, StacksOk(S), NEW k, NEW D, D \subseteq DOMAIN HitsOf(S, k)
  PROVE  SumFunction(Restrict(HitsOf(S, k), D)) = Total({s \in S : s.key = k /\ s.holder \in D})
PROOF
  <1> DEFINE of == {s \in S : s.key = k}
             part == [s \in of |-> s.holder]
             g == Restrict(HitsOf(S, k), D)
             f == Counts(S)
             held == PartsOf(of, part, D)
  <1>1. of \in SUBSET S /\ held \in SUBSET S /\ IsFiniteSet(of)
    BY FS_Subset DEF StacksOk, PartsOf
  <1>2. IsFiniteSet(D)
    <2>1. IsFiniteSet({part[s] : s \in DOMAIN part})
      BY <1>1, FiniteRange
    <2>2. {part[s] : s \in DOMAIN part} = {s.holder : s \in of}
      OBVIOUS
    <2>3. DOMAIN HitsOf(S, k) = {s.holder : s \in of}
      BY DEF HitsOf
    <2> QED
      BY <2>1, <2>2, <2>3, FS_Subset
  <1>3. ASSUME NEW h \in D PROVE g[h] = SumFunctionOnSet(f, PartOf(of, part, h))
    <2>1. g[h] = Total({s \in of : s.holder = h})
      BY DEF HitsOf, Restrict
    <2>2. {s \in of : s.holder = h} = PartOf(of, part, h)
      BY DEF PartOf
    <2>3. {s \in of : s.holder = h} \in SUBSET S
      OBVIOUS
    <2>4. Total({s \in of : s.holder = h}) = SumFunctionOnSet(f, {s \in of : s.holder = h})
      BY <2>3, TotalOfPart
    <2> QED
      BY <2>1, <2>2, <2>4
  <1>4. \A s \in of : f[s] \in Int
    BY <1>1, TotalOfPart
  <1>5. SumFunction(g) = SumFunctionOnSet(g, D)
    BY DEF SumFunction, Restrict
  <1>6. Total(held) = Total({s \in S : s.key = k /\ s.holder \in D})
    <2>1. held = {s \in S : s.key = k /\ s.holder \in D}
      BY DEF PartsOf
    <2> HIDE DEF held
    <2> QED
      BY <2>1
  <1>7. SumFunctionOnSet(g, D) = SumFunctionOnSet(f, held)
    <2> HIDE DEF g, f, part, of
    <2>1. IsFiniteSet(of)
      BY <1>1
    <2> QED
      BY <1>2, <1>3, <1>4, <2>1, SumParts
  <1>8. Total(held) = SumFunctionOnSet(f, held)
    <2> HIDE DEF held
    <2> QED
      BY <1>1, TotalOfPart DEF f
  <1> HIDE DEF held, f
  <1> QED
    BY <1>5, <1>6, <1>7, <1>8

\* The holders of one of the kinds.
LEMMA OfKindSum ==
  ASSUME NEW S, StacksOk(S), NEW k, NEW kinds
  PROVE  OfKind(HitsOf(S, k), kinds) = Total({s \in S : s.key = k /\ Kind[s.holder] \in kinds})
PROOF
  <1> DEFINE D == {h \in DOMAIN HitsOf(S, k) : Kind[h] \in kinds}
  <1>1. DOMAIN HitsOf(S, k) = {s.holder : s \in {t \in S : t.key = k}}
    BY DEF HitsOf
  <1>2. {s \in S : s.key = k /\ s.holder \in D} = {s \in S : s.key = k /\ Kind[s.holder] \in kinds}
    BY <1>1
  <1>3. OfKind(HitsOf(S, k), kinds) = SumFunction(Restrict(HitsOf(S, k), D))
    BY DEF OfKind
  <1>4. SumFunction(Restrict(HitsOf(S, k), D)) = Total({s \in S : s.key = k /\ s.holder \in D})
    <2>1. D \subseteq DOMAIN HitsOf(S, k)
      OBVIOUS
    <2> HIDE DEF D
    <2> QED
      BY <2>1, HitsSum
  <1> HIDE DEF D
  <1> QED
    BY <1>2, <1>3, <1>4

\* The holders of one kind in a dimension.
LEMMA InDimensionSum ==
  ASSUME NEW S, StacksOk(S), NEW k, NEW kind, NEW dim
  PROVE  OfKind(InDimension(HitsOf(S, k), dim), {kind}) = Held(S, k, kind, dim)
PROOF
  <1> DEFINE hits == HitsOf(S, k)
             E == {h \in DOMAIN hits : dim # Nothing => Dim[h] = dim}
             D == {h \in E : Kind[h] \in {kind}}
             held == {s \in S : s.key = k /\ Kind[s.holder] = kind /\ dim \in {Nothing, Dim[s.holder]}}
  <1>1. DOMAIN hits = {s.holder : s \in {t \in S : t.key = k}}
    BY DEF HitsOf
  <1>2. Total({s \in S : s.key = k /\ s.holder \in D}) = Total(held)
    <2>1. {s \in S : s.key = k /\ s.holder \in D} = held
      BY <1>1
    <2> HIDE DEF held, D
    <2> QED
      BY <2>1
  <1>3. Restrict(Restrict(hits, E), D) = Restrict(hits, D)
    <2> HIDE DEF hits
    <2> QED
      BY DEF Restrict
  <1>4. OfKind(InDimension(hits, dim), {kind}) = SumFunction(Restrict(Restrict(hits, E), D))
    <2>1. DOMAIN Restrict(hits, E) = E
      BY DEF Restrict
    <2> HIDE DEF hits
    <2> QED
      BY <2>1 DEF OfKind, InDimension
  <1>5. SumFunction(Restrict(hits, D)) = Total({s \in S : s.key = k /\ s.holder \in D})
    <2>1. D \subseteq DOMAIN HitsOf(S, k)
      OBVIOUS
    <2> HIDE DEF D
    <2> QED
      BY <2>1, HitsSum
  <1>6. Held(S, k, kind, dim) = Total(held)
    BY DEF Held
  <1> HIDE DEF D, E, held
  <1> QED
    BY <1>2, <1>3, <1>4, <1>5, <1>6

-----------------------------------------------------------------------------
(* The item files *)

\* An item index lists for each item the holders of its stacks.
IndexOk(index) ==
  /\ StacksOk(index.stacks)
  /\ \A k \in Keys : index.hits[k] = HitsOf(index.stacks, k)
  /\ index.blocks \subseteq Blocks

\* The totals are those of the stacks they stand for.
TotalsOk(made) ==
  /\ StacksOk(made.from)
  /\ \A k \in Keys :
       /\ made.totals[k] = OfKind(HitsOf(made.from, k), Kinds)
       /\ \A kind \in Kinds : made.scopes[k][kind] = OfKind(HitsOf(made.from, k), {kind})

\* The stacks of a network can be counted.
CraftingOk(made) ==
  \A recipe \in Recipes : StacksOk(made.networks[recipe.network])

\* Inductive: every item file says of its own stacks what indexFromData says.
ItemsInv ==
  /\ StacksOk(stacks)
  /\ DOMAIN records = Kinds
  /\ \A kind \in Kinds : StacksOk(records[kind].stacks)
  /\ IndexOk(itemIndex)
  /\ stage \in {"totals", "crafting", "status"} => IndexOk(fresh)
  /\ totals # Nothing => TotalsOk(totals)
  /\ crafting # Nothing => CraftingOk(crafting)

\* No stacks at all can be counted.
LEMMA StacksEmpty == StacksOk({})
PROOF
  BY FS_EmptySet DEF StacksOk

\* Some of the stacks can be counted when all of them can.
LEMMA StacksSubset ==
  ASSUME NEW S, StacksOk(S), NEW T, T \subseteq S
  PROVE  StacksOk(T)
PROOF
  BY FS_Subset DEF StacksOk

\* indexFromData makes such an index.
LEMMA IndexMade ==
  ASSUME NEW r, \A kind \in Kinds : StacksOk(r[kind].stacks),
         NEW blocks, blocks \subseteq Blocks
  PROVE  IndexOk(IndexFromData(r, blocks))
PROOF
  <1> DEFINE S == UNION {r[kind].stacks : kind \in Kinds}
  <1>1. S = (r["players"].stacks \union r["containers"].stacks) \union r["me"].stacks
    BY DEF Kinds
  <1>2. StacksOk(r["players"].stacks) /\ StacksOk(r["containers"].stacks) /\ StacksOk(r["me"].stacks)
    BY DEF Kinds
  <1>3. IsFiniteSet(S)
    <2>1. IsFiniteSet(r["players"].stacks \union r["containers"].stacks)
      BY <1>2, FS_Union DEF StacksOk
    <2>2. IsFiniteSet((r["players"].stacks \union r["containers"].stacks) \union r["me"].stacks)
      BY <1>2, <2>1, FS_Union DEF StacksOk
    <2> HIDE DEF S
    <2> QED
      BY <1>1, <2>2
  <1>4. S \subseteq Stack
    BY <1>2, <1>1 DEF StacksOk
  <1>5. StacksOk(S)
    <2> HIDE DEF S
    <2> QED
      BY <1>3, <1>4 DEF StacksOk
  <1> DEFINE index == IndexFromData(r, blocks)
  <1>6. index.stacks = S /\ index.blocks = blocks
    BY DEF IndexFromData
  <1>7. \A k \in Keys : index.hits[k] = HitsOf(S, k)
    BY DEF IndexFromData
  <1> HIDE DEF S, index
  <1>8. IndexOk(index)
    BY <1>5, <1>6, <1>7 DEF IndexOk
  <1> QED
    BY <1>8 DEF index

\* plannerInventorySnapshot makes such totals.
LEMMA TotalsMade ==
  ASSUME NEW index, IndexOk(index)
  PROVE  TotalsOk(InventorySnapshot(index))
PROOF
  BY DEF IndexOk, TotalsOk, InventorySnapshot

\* meCraftingSnapshot makes such a file.
LEMMA CraftingMade ==
  ASSUME NEW index, IndexOk(index)
  PROVE  CraftingOk(CraftingSnapshot(index))
PROOF
  <1> SUFFICES ASSUME NEW recipe \in Recipes
               PROVE  StacksOk(CraftingSnapshot(index).networks[recipe.network])
    BY DEF CraftingOk
  <1>1. CraftingSnapshot(index).networks[recipe.network] = {s \in index.stacks : s.holder = recipe.network}
    BY DEF CraftingSnapshot
  <1> QED
    BY <1>1, StacksSubset DEF IndexOk

\* ItemsInv holds initially.
LEMMA ItemsInit == WorkspaceInit => ItemsInv
PROOF
  <1> SUFFICES ASSUME WorkspaceInit PROVE ItemsInv
    OBVIOUS
  <1>1. StacksOk(stacks)
    BY WorkspaceAssumption DEF WorkspaceInit, StacksOk
  <1>2. DOMAIN records = Kinds /\ \A kind \in Kinds : StacksOk(records[kind].stacks)
    BY StacksEmpty DEF WorkspaceInit, NoRecords
  <1>3. IndexOk(itemIndex)
    <2>1. \A kind \in Kinds : StacksOk(NoRecords[kind].stacks)
      BY StacksEmpty DEF NoRecords
    <2> QED
      BY <2>1, IndexMade DEF WorkspaceInit, EmptyIndex
  <1> QED
    BY <1>1, <1>2, <1>3 DEF WorkspaceInit, ItemsInv

\* No step breaks ItemsInv.
LEMMA ItemsStep == ItemsInv /\ [WorkspaceNext]_vars => ItemsInv'
PROOF
  <1> SUFFICES ASSUME ItemsInv, [WorkspaceNext]_vars PROVE ItemsInv'
    OBVIOUS
  <1> USE DEF ItemsInv
  <1>1. CASE Game
    <2> USE DEF sync, files
    <2>1. CASE \E s \in stacks, h \in Holders : Move(s, h)
      <3>1. PICK s \in stacks, h \in Holders : Move(s, h)
        BY <2>1
      <3> DEFINE moved == [s EXCEPT !.holder = h]
      <3>2. moved \in Stack
        BY DEF StacksOk, Stack
      <3>3. stacks' = (stacks \ {s}) \union {moved}
        BY <3>1 DEF Move
      <3>4. IsFiniteSet(stacks \ {s}) /\ stacks \ {s} \subseteq Stack
        BY FS_RemoveElement DEF StacksOk
      <3> HIDE DEF moved
      <3>5. IsFiniteSet((stacks \ {s}) \union {moved})
        BY <3>4, FS_AddElement
      <3>6. StacksOk(stacks')
        BY <3>2, <3>3, <3>4, <3>5 DEF StacksOk
      <3>7. UNCHANGED <<sync, files>>
        BY <1>1 DEF Game
      <3> QED
        BY <3>6, <3>7
    <2>2. CASE ~(\E s \in stacks, h \in Holders : Move(s, h))
      <3>1. UNCHANGED <<stacks, sync, files>>
        BY <1>1, <2>2 DEF Game, DoTask, Complete, Claim, HoursPass
      <3> QED
        BY <3>1
    <2> QED
      BY <2>1, <2>2
  <1>2. CASE Sync
    <2>1. UNCHANGED stacks
      BY <1>2 DEF Sync, game
    <2>2. CASE BeginCycle
      <3>1. \A kind \in Kinds : StacksOk({s \in itemIndex.stacks : Kind[s.holder] = kind})
        BY StacksSubset DEF IndexOk
      <3> QED
        BY <2>1, <2>2, <3>1 DEF BeginCycle, files
    <2>3. ASSUME NEW kind \in Kinds, NEW next \in {"me", "quests", "itemIndex"}, ScanItems(kind, next)
          PROVE  ItemsInv'
      <3>1. ASSUME NEW holders, records' = Scanned(kind, holders)
            PROVE  DOMAIN records' = Kinds /\ \A k \in Kinds : StacksOk(records'[k].stacks)
        <4> DEFINE scanned == {s \in stacks : Kind[s.holder] = kind /\ s.holder \in holders}
        <4>1. StacksOk(scanned)
          BY StacksSubset
        <4>2. records' = [records EXCEPT ![kind] = [at |-> hour, stacks |-> scanned]]
          BY <3>1 DEF Scanned
        <4> HIDE DEF scanned
        <4> QED
          BY <4>1, <4>2
      <3>2. (\E holders : records' = Scanned(kind, holders)) \/ records' = records
        BY <2>3 DEF ScanItems
      <3>3. DOMAIN records' = Kinds /\ \A k \in Kinds : StacksOk(records'[k].stacks)
        BY <3>1, <3>2
      <3> QED
        BY <2>1, <2>3, <3>3 DEF ScanItems, files
    <2>4. CASE BeginQuests \/ SkipQuests \/ (\E m \in Members : ReadProgress(m)) \/ EndQuests
               \/ WriteQuestIndex \/ WritePlannerIndex
      BY <2>1, <2>4 DEF BeginQuests, SkipQuests, ReadProgress, EndQuests, WriteQuestIndex,
                        WritePlannerIndex, files
    <2>5. CASE WriteItemIndex
      <3>1. IndexOk(fresh')
        BY <2>5, IndexMade DEF WriteItemIndex
      <3>2. \A kind \in Kinds : StacksOk(NoRecords[kind].stacks)
        BY StacksEmpty DEF NoRecords
      <3>3. IndexOk(itemIndex')
        BY <2>5, <3>1 DEF WriteItemIndex
      <3>4. DOMAIN records' = Kinds /\ \A kind \in Kinds : StacksOk(records'[kind].stacks)
        BY <2>5, <3>2 DEF WriteItemIndex, NoRecords
      <3>5. UNCHANGED <<totals, crafting>>
        BY <2>5 DEF WriteItemIndex
      <3> QED
        BY <2>1, <3>1, <3>3, <3>4, <3>5
    <2>6. CASE WriteTotals
      <3>1. totals' # Nothing => TotalsOk(totals')
        BY <2>6, TotalsMade DEF WriteTotals
      <3>2. UNCHANGED <<records, fresh, itemIndex, crafting>> /\ stage = "totals"
        BY <2>6 DEF WriteTotals
      <3> QED
        BY <2>1, <3>1, <3>2
    <2>7. CASE WriteCrafting
      <3>1. crafting' # Nothing => CraftingOk(crafting')
        BY <2>7, CraftingMade DEF WriteCrafting
      <3>2. UNCHANGED <<records, fresh, itemIndex, totals>> /\ stage = "crafting"
        BY <2>7 DEF WriteCrafting
      <3> QED
        BY <2>1, <3>1, <3>2
    <2>8. CASE WriteStatus
      BY <2>1, <2>8 DEF WriteStatus
    <2>9. CASE SyncCrash
      <3>1. DOMAIN records' = Kinds /\ \A kind \in Kinds : StacksOk(records'[kind].stacks)
        BY <2>9, StacksEmpty DEF SyncCrash, NoRecords
      <3> QED
        BY <2>1, <2>9, <3>1 DEF SyncCrash, files
    <2> QED
      BY <1>2, <2>2, <2>3, <2>4, <2>5, <2>6, <2>7, <2>8, <2>9 DEF Sync, Kinds
  <1>3. CASE UNCHANGED vars
    BY <1>3 DEF vars, game, sync, files
  <1> QED
    BY <1>1, <1>2, <1>3 DEF WorkspaceNext

\* The count of an item in the holders of a kind.
LEMMA KindHeld ==
  ASSUME NEW S, StacksOk(S), NEW k, NEW kind
  PROVE  OfKind(HitsOf(S, k), {kind}) = Held(S, k, kind, Nothing)
PROOF
  <1> DEFINE held == {s \in S : s.key = k /\ Kind[s.holder] \in {kind}}
  <1>1. held = {s \in S : s.key = k /\ Kind[s.holder] = kind /\ Nothing \in {Nothing, Dim[s.holder]}}
    OBVIOUS
  <1>2. OfKind(HitsOf(S, k), {kind}) = Total(held)
    BY OfKindSum
  <1> HIDE DEF held
  <1>3. Total(held) = Total({s \in S : s.key = k /\ Kind[s.holder] = kind /\ Nothing \in {Nothing, Dim[s.holder]}})
    BY <1>1
  <1> QED
    BY <1>2, <1>3 DEF Held

\* A text that is the name of an item is answered with that item.
LEMMA KeysResolved ==
  ASSUME NEW text \in DOMAIN Exact, NEW count, NEW k \in ResolveQuery(text, count)
  PROVE  k \in Keys /\ Exact[text] \in {{}, {k}}
PROOF
  <1>1. Exact[text] \subseteq Keys /\ IsFiniteSet(Exact[text])
    BY ItemAssumption, PlannerAssumption, FS_Subset
  <1>2. BestMatch(text, count) \subseteq Keys /\ Similar(text) \subseteq Keys
    BY DEF BestMatch, Similar
  <1>3. CASE Exact[text] # {}
    <2>1. Cardinality(Exact[text]) = 1 /\ k \in Exact[text]
      BY <1>3 DEF ResolveQuery, NamedExactly
    <2>2. PICK x : Exact[text] = {x}
      BY <1>1, <2>1, FS_Singleton
    <2> QED
      BY <1>1, <2>1, <2>2
  <1>4. CASE Exact[text] = {}
    <2>1. k \in Similar(text) \/ k \in BestMatch(text, count)
      BY <1>4 DEF ResolveQuery, NamedExactly
    <2> QED
      BY <1>2, <1>4, <2>1
  <1> QED
    BY <1>3, <1>4

\* What count-item says is so.
LEMMA CountsTrue == ItemsInv => CountTrue
PROOF
  <1> SUFFICES ASSUME ItemsInv, totals # Nothing, NEW text \in DOMAIN Exact,
                      NEW k \in ResolveQuery(text, totals.totals)
               PROVE  /\ Exact[text] \in {{}, {k}}
                      /\ \A kind \in Kinds : totals.scopes[k][kind] = Held(totals.from, k, kind, Nothing)
    BY DEF CountTrue
  <1>1. k \in Keys /\ Exact[text] \in {{}, {k}}
    BY KeysResolved
  <1>2. TotalsOk(totals)
    BY DEF ItemsInv
  <1>3. ASSUME NEW kind \in Kinds
        PROVE  totals.scopes[k][kind] = Held(totals.from, k, kind, Nothing)
    <2>1. StacksOk(totals.from) /\ totals.scopes[k][kind] = OfKind(HitsOf(totals.from, k), {kind})
      BY <1>1, <1>2 DEF TotalsOk
    <2> QED
      BY <2>1, KindHeld
  <1> QED
    BY <1>1, <1>3

\* A set of naturals, if it is not empty, holds its minimum.
LEMMA MinIn ==
  ASSUME NEW S, S \subseteq Nat, S # {}
  PROVE  Min(S) \in S
PROOF
  BY Least DEF Min

\* What resolveExactItemMeta finds is an item.
LEMMA ExactKey ==
  ASSUME NEW registry, NEW damage, ResolveExact(registry, damage) # Nothing
  PROVE  ResolveExact(registry, damage) \in Keys
PROOF
  <1> DEFINE current == Named("registry", registry, damage)
             legacy == Named("bare", registry, damage)
  <1>1. current \subseteq Nat /\ legacy \subseteq Nat /\ current \subseteq Keys /\ legacy \subseteq Keys
    BY ItemAssumption DEF Named
  <1>2. CASE current # {}
    BY <1>1, <1>2, MinIn DEF ResolveExact
  <1>3. CASE current = {}
    <2>1. Cardinality(legacy) = 1 /\ ResolveExact(registry, damage) = Min(legacy)
      BY <1>3 DEF ResolveExact
    <2>2. legacy # {}
      BY <2>1, FS_EmptySet
    <2> QED
      BY <1>1, <2>1, <2>2, MinIn
  <1> QED
    BY <1>2, <1>3

\* The contents of a holder agree with the list of an item's holders.
LEMMA ChestAgrees ==
  ASSUME NEW index, IndexOk(index), NEW h, NEW k \in Keys
  PROVE  Total({s \in ChestItems(index, h) : s.key = k}) =
           IF h \in DOMAIN index.hits[k] THEN index.hits[k][h] ELSE 0
PROOF
  <1> DEFINE S == index.stacks
             held == {s \in {t \in S : t.key = k} : s.holder = h}
  <1>1. index.hits[k] = HitsOf(S, k) /\ DOMAIN HitsOf(S, k) = {s.holder : s \in {t \in S : t.key = k}}
    BY DEF IndexOk, HitsOf
  <1>2. {s \in ChestItems(index, h) : s.key = k} = held
    BY DEF ChestItems
  <1>3. CASE h \in DOMAIN HitsOf(S, k)
    <2>1. HitsOf(S, k)[h] = Total(held)
      BY <1>1, <1>3 DEF HitsOf
    <2> HIDE DEF held
    <2>2. Total({s \in ChestItems(index, h) : s.key = k}) = Total(held)
      BY <1>2
    <2> QED
      BY <1>1, <1>3, <2>1, <2>2
  <1>4. CASE h \notin DOMAIN HitsOf(S, k)
    <2>1. held = {}
      BY <1>1, <1>4
    <2>2. Total({s \in ChestItems(index, h) : s.key = k}) = Total({})
      BY <1>2, <2>1
    <2>3. Total({}) = 0
      BY SumEmpty DEF Total, SumFunction
    <2> QED
      BY <1>1, <1>4, <2>2, <2>3
  <1> QED
    BY <1>3, <1>4

\* What one holder has of an item is no less than any of its stacks there.
LEMMA HolderHas ==
  ASSUME NEW S, StacksOk(S), NEW s \in S
  PROVE  /\ s.holder \in DOMAIN HitsOf(S, s.key)
         /\ HitsOf(S, s.key)[s.holder] >= s.count
PROOF
  <1> DEFINE held == {o \in {t \in S : t.key = s.key} : o.holder = s.holder}
  <1>1. s.holder \in DOMAIN HitsOf(S, s.key) /\ HitsOf(S, s.key)[s.holder] = Total(held)
    BY DEF HitsOf
  <1>2. held \in SUBSET S /\ s \in held
    OBVIOUS
  <1> HIDE DEF held
  <1>3. /\ IsFiniteSet(held) /\ Total(held) = SumFunctionOnSet(Counts(S), held)
        /\ \A x \in S : Counts(S)[x] \in Nat
    BY <1>2, TotalOfPart DEF StacksOk
  <1>4. Counts(S)[s] = s.count
    BY DEF Counts
  <1>5. Counts(S)[s] <= SumFunctionOnSet(Counts(S), held)
    <2>1. \A x \in held : Counts(S)[x] \in Nat
      BY <1>2, <1>3
    <2> QED
      BY <1>2, <1>3, <2>1, SumAtLeast
  <1>6. Total(held) >= s.count
    <2>1. Total(held) \in Nat /\ s.count \in Nat
      BY <1>2, <1>3, <1>4, TotalOfPart
    <2> QED
      BY <1>3, <1>4, <1>5, <2>1
  <1> QED
    BY <1>1, <1>6

\* find lists every stack of an item in its scope and dimension.
LEMMA FindFinds ==
  ASSUME NEW index, IndexOk(index), NEW s \in index.stacks, NEW keys, s.key \in keys,
         NEW scope, Kind[s.holder] \in ScopeSet(scope), NEW dim, dim \in {Nothing, Dim[s.holder]}
  PROVE  \E hit \in Find(index, keys, scope, dim) :
           hit.holder = s.holder /\ hit.key = s.key /\ hit.count >= s.count
PROOF
  <1> DEFINE k == s.key
             h == s.holder
             found == InDimension(index.hits[k], dim)
             hit == [key |-> k, holder |-> h, count |-> found[h]]
  <1>1. k \in Keys /\ StacksOk(index.stacks) /\ index.hits[k] = HitsOf(index.stacks, k)
    BY DEF IndexOk, StacksOk, Stack
  <1>2. h \in DOMAIN index.hits[k] /\ index.hits[k][h] >= s.count
    BY <1>1, HolderHas
  <1>3. h \in DOMAIN found /\ found[h] = index.hits[k][h]
    BY <1>2 DEF InDimension, Restrict
  <1>4. hit \in Find(index, keys, scope, dim)
    <2>1. h \in {g \in DOMAIN found : Kind[g] \in ScopeSet(scope)}
      BY <1>3
    <2>2. Find(index, keys, scope, dim) =
            UNION {{[key |-> l, holder |-> g, count |-> InDimension(index.hits[l], dim)[g]] :
              g \in {f \in DOMAIN InDimension(index.hits[l], dim) : Kind[f] \in ScopeSet(scope)}} : l \in keys}
      BY DEF Find
    <2> QED
      BY <2>1, <2>2
  <1> QED
    BY <1>2, <1>3, <1>4

\* totals and find.
LEMMA LookupTrue ==
  ASSUME NEW index, IndexOk(index), NEW registry, NEW damage, NEW scope, NEW dim
  PROVE  LET k == ResolveExact(registry, damage)
             found == Find(index, FindKeys(registry, damage), scope, dim)
         IN  /\ k # Nothing => \A kind \in Kinds :
                  TotalsOf(index, k, scope, dim)[kind] =
                    IF kind \in ScopeSet(scope) THEN Held(index.stacks, k, kind, dim) ELSE 0
             /\ \A s \in index.stacks :
                  /\ Catalog[s.key].registry = registry /\ damage \in {Nothing, Catalog[s.key].damage}
                  /\ dim \in {Nothing, Dim[s.holder]} /\ Kind[s.holder] \in ScopeSet(scope)
                  => \E hit \in found : hit.holder = s.holder /\ hit.key = s.key /\ hit.count >= s.count
PROOF
  <1> DEFINE k == ResolveExact(registry, damage)
  <1>1. ASSUME k # Nothing, NEW kind \in Kinds
        PROVE  TotalsOf(index, k, scope, dim)[kind] =
                 IF kind \in ScopeSet(scope) THEN Held(index.stacks, k, kind, dim) ELSE 0
    <2>1. k \in Keys
      BY <1>1, ExactKey
    <2> HIDE DEF k
    <2>2. index.hits[k] = HitsOf(index.stacks, k) /\ StacksOk(index.stacks)
      BY <2>1 DEF IndexOk
    <2>3. OfKind(InDimension(index.hits[k], dim), {kind}) = Held(index.stacks, k, kind, dim)
      BY <2>2, InDimensionSum
    <2> QED
      BY <1>1, <2>3 DEF TotalsOf
  <1>2. ASSUME NEW s \in index.stacks,
               Catalog[s.key].registry = registry, damage \in {Nothing, Catalog[s.key].damage},
               dim \in {Nothing, Dim[s.holder]}, Kind[s.holder] \in ScopeSet(scope)
        PROVE  \E hit \in Find(index, FindKeys(registry, damage), scope, dim) :
                 hit.holder = s.holder /\ hit.key = s.key /\ hit.count >= s.count
    <2> DEFINE keys == {l \in Keys : Catalog[l].registry = registry
                                     /\ (damage # Nothing => Catalog[l].damage = damage)}
    <2>1. s.key \in keys
      BY <1>2 DEF IndexOk, StacksOk, Stack
    <2>2. damage # Nothing => keys = {s.key}
      BY <2>1, ItemAssumption
    <2>3. keys \subseteq Nat /\ keys # {}
      BY <2>1, ItemAssumption
    <2>4. damage # Nothing => Min(keys) = s.key
      <3> HIDE DEF keys
      <3> QED
        BY <2>2, <2>3, MinIn
    <2>5. s.key \in FindKeys(registry, damage)
      <3>1. FindKeys(registry, damage) = IF damage # Nothing /\ keys # {} THEN {Min(keys)} ELSE keys
        BY DEF FindKeys
      <3> HIDE DEF keys
      <3> QED
        BY <2>1, <2>4, <3>1
    <2> QED
      BY <1>2, <2>5, FindFinds
  <1> QED
    BY <1>1, <1>2

\* What totals, find and chest say is so.
LEMMA LookupsAreTrue == ItemsInv => LookupsTrue
PROOF
  <1> SUFFICES ASSUME ItemsInv PROVE LookupsTrue
    OBVIOUS
  <1>1. IndexOk(itemIndex)
    BY DEF ItemsInv
  <1>2. \A h \in Holders, k \in Keys :
          Total({s \in ChestItems(itemIndex, h) : s.key = k}) =
            IF h \in DOMAIN itemIndex.hits[k] THEN itemIndex.hits[k][h] ELSE 0
    BY <1>1, ChestAgrees
  <1> QED
    BY <1>1, <1>2, LookupTrue DEF LookupsTrue

\* What find-block says is so.
LEMMA BlocksAreTrue == ItemsInv => BlocksTrue
PROOF
  <1> SUFFICES ASSUME ItemsInv, NEW l \in BlockRequests
               PROVE  FindBlock(itemIndex, l.name, l.meta, l.dim) =
                        {b \in itemIndex.blocks : /\ b.name = l.name
                                /\ l.meta \in {Nothing, b.meta} /\ l.dim \in {Nothing, b.dim}}
    BY DEF BlocksTrue
  <1>1. itemIndex.blocks \subseteq Blocks
    BY DEF ItemsInv, IndexOk
  <1>2. \A b, c \in itemIndex.blocks : b.key = c.key => b.meta = c.meta
    BY <1>1, WorkspaceAssumption
  <1> QED
    BY <1>2 DEF FindBlock, BlockKeys

\* What me-crafting says is not missing had been there.
LEMMA CraftingIsTrue == ItemsInv => CraftingTrue
PROOF
  <1> SUFFICES ASSUME ItemsInv, crafting # Nothing, totals # Nothing,
                      NEW recipe \in Recipes, NEW input \in recipe.inputs,
                      Assess(crafting, totals, recipe, input).missingShared = 0
               PROVE  input.count <= Total({s \in crafting.networks[recipe.network] : s.key = input.key})
                                       + Held(totals.from, input.key, "containers", Nothing)
    BY DEF CraftingTrue
  <1> DEFINE net == crafting.networks[recipe.network]
             me == Total({s \in net : s.key = input.key})
             box == Held(totals.from, input.key, "containers", Nothing)
  <1>1. StacksOk(net) /\ TotalsOk(totals)
    BY DEF ItemsInv, CraftingOk
  <1>2. input.key \in Keys /\ input.count \in Nat
    BY ItemAssumption
  <1>3. totals.scopes[input.key]["containers"] = box
    <2>1. /\ StacksOk(totals.from)
          /\ totals.scopes[input.key]["containers"] = OfKind(HitsOf(totals.from, input.key), {"containers"})
      BY <1>1, <1>2 DEF TotalsOk, Kinds
    <2> QED
      BY <2>1, KindHeld
  <1>4. me \in Nat
    BY <1>1, TotalOfPart
  <1>5. box \in Nat
    BY <1>1, TotalOfPart DEF Held, TotalsOk
  <1>6. Assess(crafting, totals, recipe, input).missingShared =
          IF input.count > totals.scopes[input.key]["containers"] + me
          THEN input.count - (totals.scopes[input.key]["containers"] + me) ELSE 0
    BY DEF Assess
  <1> HIDE DEF me, box
  <1>7. input.count <= me + box
    BY <1>2, <1>3, <1>4, <1>5, <1>6
  <1> QED
    BY <1>7 DEF me, box

-----------------------------------------------------------------------------
(* The order of a plan *)

\* What tells two candidates apart.
Comparable(all) ==
  /\ IsFiniteSet(all)
  /\ \A c \in all : c.score \in Int /\ c.id \in Int /\ c.source \in {"questbook", "task_log"}
  /\ \A c, d \in all : c.source = d.source /\ c.id = d.id => c = d

\* Those that come before c in a plan.
Earlier(all, c) == {d \in all : Before(d, c)}

\* The order of a plan is total and strict.
LEMMA BeforeIsOrder ==
  ASSUME NEW all, Comparable(all)
  PROVE  /\ \A c \in all : ~Before(c, c)
         /\ \A c, d \in all : c # d => Before(c, d) \/ Before(d, c)
         /\ \A c, d, e \in all : Before(c, d) /\ Before(d, e) => Before(c, e)
PROOF
  <1>1. \A c \in all : ~Before(c, c)
    BY DEF Comparable, Before
  <1>2. \A c, d \in all : c # d => Before(c, d) \/ Before(d, c)
    BY DEF Comparable, Before
  <1>3. \A c, d, e \in all : Before(c, d) /\ Before(d, e) => Before(c, e)
    BY DEF Comparable, Before
  <1> QED
    BY <1>1, <1>2, <1>3

\* The number of those before a candidate is its place.
LEMMA PlacesTaken ==
  ASSUME NEW all, Comparable(all)
  PROVE  /\ \A c \in all : Cardinality(Earlier(all, c)) \in 0..Cardinality(all) - 1
         /\ \A c, d \in all : Cardinality(Earlier(all, c)) = Cardinality(Earlier(all, d)) => c = d
         /\ \A i \in 0..Cardinality(all) - 1 : \E c \in all : Cardinality(Earlier(all, c)) = i
PROOF
  <1> DEFINE place(c) == Cardinality(Earlier(all, c))
             n == Cardinality(all)
  <1>1. n \in Nat /\ IsFiniteSet(all)
    BY FS_CardinalityType DEF Comparable
  <1>2. ASSUME NEW c \in all PROVE IsFiniteSet(Earlier(all, c)) /\ place(c) \in Nat /\ place(c) < n
    <2>1. Earlier(all, c) \in SUBSET all /\ c \notin Earlier(all, c)
      BY BeforeIsOrder DEF Earlier
    <2>2. IsFiniteSet(Earlier(all, c)) /\ place(c) <= n /\ (n = place(c) => all = Earlier(all, c))
      BY <1>1, <2>1, FS_Subset
    <2>3. place(c) \in Nat
      BY <2>2, FS_CardinalityType
    <2>4. n # place(c)
      BY <2>1, <2>2
    <2> HIDE DEF place, n
    <2> QED
      BY <1>1, <2>2, <2>3, <2>4
  <1>3. ASSUME NEW c \in all, NEW d \in all, Before(d, c) PROVE place(d) < place(c)
    <2>1. Earlier(all, d) \union {d} \in SUBSET Earlier(all, c)
      BY <1>3, BeforeIsOrder DEF Earlier
    <2>2. d \notin Earlier(all, d)
      BY BeforeIsOrder DEF Earlier
    <2>3. Cardinality(Earlier(all, d) \union {d}) = place(d) + 1
      BY <1>2, <2>2, FS_AddElement
    <2>4. Cardinality(Earlier(all, d) \union {d}) <= place(c)
      BY <1>2, <2>1, FS_Subset
    <2>5. place(c) \in Nat /\ place(d) \in Nat
      BY <1>2
    <2> HIDE DEF place
    <2> QED
      BY <2>3, <2>4, <2>5
  <1>4. ASSUME NEW c \in all, NEW d \in all, place(c) = place(d) PROVE c = d
    <2>1. place(c) \in Nat /\ place(d) \in Nat
      BY <1>2
    <2>2. ~Before(c, d) /\ ~Before(d, c)
      <3>1. Before(c, d) => place(c) < place(d)
        BY <1>3
      <3>2. Before(d, c) => place(d) < place(c)
        BY <1>3
      <3> HIDE DEF place
      <3> QED
        BY <1>4, <2>1, <3>1, <3>2
    <2> QED
      BY <2>2, BeforeIsOrder
  <1> DEFINE f == [c \in all |-> place(c)]
             Places == 0..n - 1
  <1>5. f \in Injection(all, Places)
    <2>1. \A c \in all : place(c) \in Places
      <3> HIDE DEF place, n
      <3> QED
        BY <1>1, <1>2
    <2>2. f \in [all -> Places]
      BY <2>1
    <2>3. \A c, d \in all : f[c] = f[d] => c = d
      BY <1>4
    <2> HIDE DEF f
    <2> QED
      BY <2>2, <2>3 DEF Injection, IsInjective
  <1>6. IsFiniteSet(Places) /\ Cardinality(Places) = n
    <2> HIDE DEF n
    <2> QED
      BY <1>1, FS_Interval
  <1>7. f \in Surjection(all, Places)
    <2> HIDE DEF f, Places
    <2> QED
      BY <1>5, <1>6, FS_Injection
  <1>8. \A i \in Places : \E c \in all : f[c] = i
    <2> HIDE DEF f, Places
    <2> QED
      BY <1>7 DEF Surjection
  <1>9. \A c \in all : place(c) \in 0..n - 1
    <2> HIDE DEF place, n
    <2> QED
      BY <1>1, <1>2
  <1>10. \A i \in 0..n - 1 : \E c \in all : place(c) = i
    BY <1>8
  <1>11. \A c, d \in all : place(c) = place(d) => c = d
    BY <1>4
  <1> QED
    BY <1>9, <1>10, <1>11

\* The first of the candidates, as far as the limit goes.
FirstOnes(all, limit) ==
  [i \in 1..Lesser(limit, Cardinality(all)) |->
     CHOOSE c \in all : Cardinality({d \in all : Before(d, c)}) = i - 1]

\* A plan consists of candidates: of all of them, or of as many as it may have.
LEMMA FirstOnesOf ==
  ASSUME NEW all, Comparable(all), NEW limit \in Nat
  PROVE  LET first == Range(FirstOnes(all, limit))
         IN  first \subseteq all /\ (first = all \/ Cardinality(first) = limit)
PROOF
  <1> DEFINE n == Cardinality(all)
             p == FirstOnes(all, limit)
             place(c) == Cardinality(Earlier(all, c))
  <1>1. n \in Nat
    BY FS_CardinalityType DEF Comparable
  <1>2. DOMAIN p = 1..Lesser(limit, n)
    BY DEF FirstOnes
  <1>3. ASSUME NEW i \in 1..Lesser(limit, n) PROVE p[i] \in all /\ place(p[i]) = i - 1
    <2>1. i - 1 \in 0..n - 1
      <3> HIDE DEF n
      <3> QED
        BY <1>1 DEF Lesser
    <2>2. \E c \in all : Cardinality(Earlier(all, c)) = i - 1
      BY <2>1, PlacesTaken
    <2>3. p[i] = CHOOSE c \in all : Cardinality(Earlier(all, c)) = i - 1
      BY DEF FirstOnes, Earlier
    <2> HIDE DEF p
    <2> QED
      BY <2>2, <2>3
  <1>4. \A x \in Range(p) : \E i \in 1..Lesser(limit, n) : x = p[i]
    <2> HIDE DEF p, n
    <2> QED
      BY <1>2 DEF Range
  <1>5. \A i \in 1..Lesser(limit, n) : p[i] \in Range(p)
    <2> HIDE DEF p, n
    <2> QED
      BY <1>2 DEF Range
  <1>6. Range(p) \subseteq all
    <2> HIDE DEF p
    <2> QED
      BY <1>3, <1>4
  <1>7. CASE n <= limit
    <2>1. ASSUME NEW c \in all PROVE c \in Range(p)
      <3> DEFINE i == place(c) + 1
      <3>1. place(c) \in 0..n - 1
        BY PlacesTaken
      <3>2. i \in 1..Lesser(limit, n) /\ i - 1 = place(c)
        <4> HIDE DEF n, place
        <4> QED
          BY <1>1, <1>7, <3>1 DEF Lesser
      <3>3. p[i] \in all /\ place(p[i]) = place(c)
        <4> HIDE DEF p, i
        <4> QED
          BY <1>3, <3>2
      <3>4. p[i] = c
        <4> HIDE DEF p
        <4> QED
          BY <3>3, PlacesTaken
      <3> HIDE DEF p, i
      <3> QED
        BY <1>5, <3>2, <3>4
    <2> QED
      BY <1>6, <2>1
  <1>8. CASE limit < n
    <2>1. Lesser(limit, n) = limit
      <3> HIDE DEF n
      <3> QED
        BY <1>1, <1>8 DEF Lesser
    <2> DEFINE q == [i \in 1..limit |-> p[i]]
    <2>2. q \in [1..limit -> Range(p)]
      <3> HIDE DEF p
      <3> QED
        BY <1>5, <2>1
    <2>3. \A i, j \in 1..limit : q[i] = q[j] => i = j
      <3> HIDE DEF p, place
      <3>1. \A i \in 1..limit : place(q[i]) = i - 1
        BY <1>3, <2>1
      <3> HIDE DEF q
      <3>2. ASSUME NEW i \in 1..limit, NEW j \in 1..limit, q[i] = q[j] PROVE i = j
        <4>1. i - 1 = j - 1
          BY <3>1, <3>2
        <4> QED
          BY <4>1
      <3> QED
        BY <3>2
    <2>4. \A x \in Range(p) : \E i \in 1..limit : q[i] = x
      <3> HIDE DEF p
      <3> QED
        BY <1>4, <2>1
    <2> HIDE DEF p
    <2>5. q \in Bijection(1..limit, Range(p))
      <3> HIDE DEF q
      <3> QED
        BY <2>2, <2>3, <2>4 DEF Bijection, Injection, Surjection, IsInjective
    <2>6. IsFiniteSet(1..limit) /\ Cardinality(1..limit) = limit
      BY FS_Interval
    <2>7. Cardinality(Range(p)) = limit
      <3>1. ExistsBijection(1..limit, Range(p))
        BY <2>5 DEF ExistsBijection
      <3> QED
        BY <2>6, <3>1, FS_Bijection
    <2> QED
      BY <1>6, <2>7 DEF p
  <1>9. n <= limit \/ limit < n
    BY <1>1
  <1> QED
    BY <1>7, <1>8, <1>9

-----------------------------------------------------------------------------
(* Scores are numbers *)

\* What the scores need of an index that the planner has loaded.
IndexShape(index) ==
  \A q \in Quests :
    /\ index.quests[q].unlocks \subseteq Quests
    /\ DOMAIN index.quests[q].doneBy = Tasks[q]

\* The walk over the unlocks ends among the quests.
LEMMA DownstreamInt ==
  ASSUME NEW index, IndexShape(index), NEW q \in Quests
  PROVE  Downstream(index, q) \in Int
PROOF
  <1> DEFINE N == Cardinality(Quests)
             Further(s) == s \union UNION {index.quests[r].unlocks : r \in s \intersect Quests}
             Step(f, n) == IF n = 0 THEN {q} ELSE Further(f[n - 1])
             Defined(n) == \E f : f = [k \in 0..n |-> Step(f, k)]
             reached == CHOOSE f : f = [k \in 0..N |-> Step(f, k)]
  <1>1. N \in Nat /\ IsFiniteSet(Quests)
    BY QuestAssumption, FS_CardinalityType
  <1>2. Downstream(index, q) = Cardinality(reached[N]) - 1
    BY DEF Downstream
  <1>3. Defined(0)
    <2> DEFINE f == [k \in 0..0 |-> {q}]
    <2>1. f = [k \in 0..0 |-> Step(f, k)]
      OBVIOUS
    <2> QED
      BY <2>1
  <1>4. ASSUME NEW n \in Nat, Defined(n) PROVE Defined(n + 1)
    <2> HIDE DEF Further
    <2>1. PICK f : f = [k \in 0..n |-> Step(f, k)]
      BY <1>4
    <2> DEFINE g == [k \in 0..n + 1 |-> IF k = n + 1 THEN Step(f, n + 1) ELSE f[k]]
    <2>2. ASSUME NEW k \in 0..n + 1 PROVE g[k] = Step(g, k)
      <3>1. CASE k = n + 1
        <4>1. g[k] = Step(f, n + 1) /\ g[n] = f[n] /\ k - 1 = n
          BY <3>1
        <4> QED
          BY <3>1, <4>1
      <3>2. CASE k \in 0..n
        <4>1. g[k] = f[k] /\ f[k] = Step(f, k)
          BY <2>1, <3>2
        <4>2. k # 0 => k - 1 \in 0..n /\ g[k - 1] = f[k - 1]
          BY <3>2
        <4> QED
          BY <4>1, <4>2
      <3> QED
        BY <3>1, <3>2
    <2>3. g = [k \in 0..n + 1 |-> Step(g, k)]
      BY <2>2
    <2> QED
      BY <2>3
  <1>5. Defined(N)
    <2> DEFINE S == {n \in Nat : Defined(n)}
    <2> HIDE DEF Defined
    <2>1. 0 \in S /\ \A n \in Nat : n \in S => n + 1 \in S
      BY <1>3, <1>4
    <2>2. \A n \in Nat : n \in S
      <3> HIDE DEF S
      <3> QED
        BY <2>1, Induction
    <2> QED
      BY <1>1, <2>2
  <1>6. reached = [k \in 0..N |-> Step(reached, k)]
    <2> HIDE DEF Further, N
    <2> QED
      BY <1>5
  <1> HIDE DEF reached
  <1>7. \A k \in 0..N : reached[k] = Step(reached, k)
    <2> HIDE DEF Further, N
    <2> QED
      BY <1>6
  <1>8. \A s : s \subseteq Quests => Further(s) \subseteq Quests
    BY DEF IndexShape
  <1> HIDE DEF Further, N
  <1> DEFINE S == {n \in Nat : n <= N => reached[n] \subseteq Quests}
  <1>9. 0 \in S
    <2>1. reached[0] = {q}
      BY <1>1, <1>7
    <2> QED
      BY <2>1
  <1>10. ASSUME NEW n \in Nat, n \in S PROVE n + 1 \in S
    <2> SUFFICES ASSUME n + 1 <= N PROVE reached[n + 1] \subseteq Quests
      OBVIOUS
    <2>1. n + 1 \in 0..N /\ n + 1 # 0 /\ (n + 1) - 1 = n /\ n <= N
      BY <1>1
    <2>2. reached[n + 1] = Further(reached[n])
      BY <1>7, <2>1
    <2> QED
      BY <1>8, <1>10, <2>1, <2>2
  <1>11. \A n \in Nat : n \in S
    <2> HIDE DEF S
    <2> QED
      BY <1>9, <1>10, Induction
  <1>12. reached[N] \subseteq Quests
    BY <1>1, <1>11
  <1>13. Cardinality(reached[N]) \in Nat
    BY <1>1, <1>12, FS_Subset, FS_CardinalityType
  <1> QED
    BY <1>2, <1>13

-----------------------------------------------------------------------------
(* Materials *)

\* The tasks of a quest that the player has still to do.
OpenTasks(q, quest, user) == {t \in Tasks[q] : ~TaskDoneFor(quest, t, user)}

\* The items of a task that are counted under an identity.
Wanted(t, identity) == {item \in Needs[t] : Identity[item] = identity}

\* What task t asks for.
AskedFor(t, identity) == SumFunction([item \in Wanted(t, identity) |-> AtLeastOne(item.count)])

\* A task needs finitely many items, so many of each.
LEMMA TaskNeeds ==
  ASSUME NEW q \in Quests, NEW t \in Tasks[q]
  PROVE  /\ IsFiniteSet(Needs[t]) /\ Needs[t] \subseteq QuestItems
         /\ \A item \in Needs[t] : item.count \in Nat
PROOF
  <1>1. t \in DOMAIN Needs
    BY PlannerAssumption
  <1>2. IsFiniteSet(Needs[t])
    BY <1>1, PlannerAssumption
  <1>3. Needs[t] \subseteq QuestItems
    BY <1>1 DEF QuestItems
  <1> QED
    BY <1>2, <1>3, PlannerAssumption

\* A task that needs an item asks for at least one.
LEMMA AskedForNat ==
  ASSUME NEW q \in Quests, NEW t \in Tasks[q], NEW identity
  PROVE  /\ AskedFor(t, identity) \in Nat
         /\ Wanted(t, identity) # {} => AskedFor(t, identity) >= 1
PROOF
  <1> DEFINE wanted == Wanted(t, identity)
             f == [item \in wanted |-> AtLeastOne(item.count)]
  <1>1. IsFiniteSet(wanted)
    BY TaskNeeds, FS_Subset DEF Wanted
  <1>2. \A item \in wanted : f[item] \in Nat /\ f[item] >= 1
    BY TaskNeeds DEF Wanted, AtLeastOne
  <1>3. AskedFor(t, identity) = SumFunctionOnSet(f, wanted)
    BY DEF AskedFor, SumFunction
  <1>4. SumFunctionOnSet(f, wanted) \in Nat
    <2> HIDE DEF f, wanted
    <2> QED
      BY <1>1, <1>2, SumNat
  <1>5. ASSUME wanted # {} PROVE SumFunctionOnSet(f, wanted) >= 1
    <2>1. PICK item : item \in wanted
      BY <1>5
    <2> HIDE DEF f, wanted
    <2>2. f[item] <= SumFunctionOnSet(f, wanted)
      BY <1>1, <1>2, <2>1, SumAtLeast
    <2> QED
      BY <1>2, <1>4, <2>1, <2>2
  <1> QED
    BY <1>3, <1>4, <1>5

\* What is required of an item is at least one, and at least what is needed.
LEMMA RequiredNat ==
  ASSUME NEW q \in Quests, NEW quest, NEW user, NEW identity
  PROVE  LET open == OpenTasks(q, quest, user)
         IN  /\ Required(q, quest, user, identity) = SumFunctionOnSet([t \in open |-> AskedFor(t, identity)], open)
             /\ Required(q, quest, user, identity) \in Nat
             /\ (\E t \in open : Wanted(t, identity) # {}) => Required(q, quest, user, identity) >= 1
PROOF
  <1> DEFINE open == OpenTasks(q, quest, user)
             f == [t \in open |-> AskedFor(t, identity)]
  <1>1. Required(q, quest, user, identity) = SumFunctionOnSet(f, open)
    BY DEF Required, OpenTasks, AskedFor, Wanted, SumFunction
  <1>2. IsFiniteSet(open) /\ open \subseteq Tasks[q]
    BY QuestAssumption, FS_Subset DEF OpenTasks
  <1>3. \A t \in open : f[t] \in Nat /\ (Wanted(t, identity) # {} => f[t] >= 1)
    BY <1>2, AskedForNat
  <1> HIDE DEF f, open
  <1>4. SumFunctionOnSet(f, open) \in Nat
    BY <1>2, <1>3, SumNat
  <1>5. ASSUME NEW t \in open, Wanted(t, identity) # {} PROVE SumFunctionOnSet(f, open) >= 1
    <2>1. f[t] \in Int /\ f[t] >= 1
      BY <1>3, <1>5
    <2>2. f[t] <= SumFunctionOnSet(f, open)
      BY <1>2, <1>3, SumAtLeast
    <2> QED
      BY <1>4, <2>1, <2>2
  <1> QED
    BY <1>1, <1>4, <1>5 DEF f, open

\* The items the open tasks need.
ItemsOf(q, quest, user) == UNION {Needs[t] : t \in OpenTasks(q, quest, user)}

\* The assessment of one item.
MaterialOf(q, quest, user, count, item) ==
  [identity  |-> Identity[item], keys |-> KeysOf[item],
   required  |-> Required(q, quest, user, Identity[item]),
   available |-> SumFunction([k \in KeysOf[item] |-> count[k]]),
   resolved  |-> KeysOf[item] # {}]

\* The open tasks of a quest need finitely many items.
LEMMA ItemsFinite ==
  ASSUME NEW q \in Quests, NEW quest, NEW user
  PROVE  /\ IsFiniteSet(ItemsOf(q, quest, user))
         /\ ItemsOf(q, quest, user) \subseteq QuestItems
PROOF
  <1> DEFINE open == OpenTasks(q, quest, user)
             f == [t \in open |-> Needs[t]]
  <1>1. IsFiniteSet(open) /\ open \subseteq Tasks[q]
    BY QuestAssumption, FS_Subset DEF OpenTasks
  <1>2. IsFiniteSet({f[t] : t \in DOMAIN f})
    <2>1. DOMAIN f = open
      OBVIOUS
    <2> HIDE DEF f, open
    <2> QED
      BY <1>1, <2>1, FiniteRange
  <1>3. {f[t] : t \in DOMAIN f} = {Needs[t] : t \in open}
    OBVIOUS
  <1>4. \A s \in {Needs[t] : t \in open} : IsFiniteSet(s) /\ s \subseteq QuestItems
    BY <1>1, TaskNeeds
  <1> HIDE DEF f, open
  <1>5. IsFiniteSet(UNION {Needs[t] : t \in open})
    BY <1>2, <1>3, <1>4, FS_UNION
  <1>6. UNION {Needs[t] : t \in open} \subseteq QuestItems
    BY <1>4
  <1> QED
    BY <1>5, <1>6 DEF ItemsOf, open

\* An item of a quest stands for known keys.
LEMMA KeysOfItem ==
  ASSUME NEW item \in QuestItems
  PROVE  KeysOf[item] \subseteq Keys /\ IsFiniteSet(KeysOf[item])
PROOF
  <1>1. KeysOf[item] \subseteq Keys
    BY PlannerAssumption DEF KeysOf, Named
  <1> QED
    BY <1>1, PlannerAssumption, FS_Subset

\* The assessments are finitely many, and each asks for something.
LEMMA MaterialsShape ==
  ASSUME NEW q \in Quests, NEW quest, NEW user, NEW count, \A k \in Keys : count[k] \in Nat
  PROVE  LET materials == Materials(q, quest, user, count)
         IN  /\ materials = {MaterialOf(q, quest, user, count, item) : item \in ItemsOf(q, quest, user)}
             /\ IsFiniteSet(materials)
             /\ \A m \in materials : m.required \in Nat /\ m.required >= 1 /\ m.available \in Nat
PROOF
  <1> DEFINE materials == Materials(q, quest, user, count)
             items == ItemsOf(q, quest, user)
             of(item) == MaterialOf(q, quest, user, count, item)
             f == [item \in items |-> of(item)]
  <1>1. materials = {of(item) : item \in items}
    BY DEF Materials, MaterialOf, ItemsOf, OpenTasks
  <1>2. IsFiniteSet({f[item] : item \in DOMAIN f})
    <2>1. DOMAIN f = items /\ IsFiniteSet(items)
      BY ItemsFinite
    <2> HIDE DEF f, items
    <2> QED
      BY <2>1, FiniteRange
  <1>3. {f[item] : item \in DOMAIN f} = {of(item) : item \in items}
    <2> HIDE DEF items, of
    <2> QED
      OBVIOUS
  <1>4. IsFiniteSet(materials)
    <2> HIDE DEF f, of, items, materials
    <2> QED
      BY <1>1, <1>2, <1>3
  <1>5. ASSUME NEW item \in items
        PROVE  of(item).required \in Nat /\ of(item).required >= 1 /\ of(item).available \in Nat
    <2>1. PICK t \in OpenTasks(q, quest, user) : item \in Needs[t]
      BY DEF ItemsOf
    <2>2. item \in Wanted(t, Identity[item])
      BY <2>1 DEF Wanted
    <2>3. of(item).required = Required(q, quest, user, Identity[item])
      BY DEF MaterialOf
    <2>4. Required(q, quest, user, Identity[item]) \in Nat /\ Required(q, quest, user, Identity[item]) >= 1
      BY <2>1, <2>2, RequiredNat
    <2> DEFINE held == [k \in KeysOf[item] |-> count[k]]
    <2>5. of(item).available = SumFunctionOnSet(held, KeysOf[item])
      BY DEF MaterialOf, SumFunction
    <2>6. IsFiniteSet(KeysOf[item]) /\ \A k \in KeysOf[item] : held[k] \in Nat
      BY KeysOfItem, ItemsFinite
    <2>7. SumFunctionOnSet(held, KeysOf[item]) \in Nat
      <3> HIDE DEF held
      <3> QED
        BY <2>6, SumNat
    <2> HIDE DEF of, held
    <2> QED
      BY <2>3, <2>4, <2>5, <2>7
  <1>6. \A m \in materials : m.required \in Nat /\ m.required >= 1 /\ m.available \in Nat
    <2> HIDE DEF of, items, materials
    <2> QED
      BY <1>1, <1>5
  <1> QED
    BY <1>1, <1>4, <1>6

\* The rounded quotient is a number.
LEMMA PortionInt ==
  ASSUME NEW n \in Int, NEW part \in Int, NEW whole \in Nat, whole >= 1
  PROVE  Portion(n, part, whole) \in Int
PROOF
  <1> DEFINE a == 2 * n * part + whole
             b == 2 * whole
  <1>1. a \in Int /\ b \in Int /\ b > 0
    OBVIOUS
  <1>2. Portion(n, part, whole) = a \div b
    BY DEF Portion
  <1> HIDE DEF a, b
  <1> QED
    BY <1>1, <1>2

\* Points are a number.
LEMMA PointsInt ==
  ASSUME NEW condition, NEW points \in Int
  PROVE  Points(condition, points) \in Int
PROOF
  BY DEF Points

\* The lesser of two numbers is a number.
LEMMA LesserInt ==
  ASSUME NEW a \in Int, NEW b \in Int
  PROVE  Lesser(a, b) \in Int
PROOF
  BY DEF Lesser

\* The score of the materials is a number.
LEMMA MaterialScoreInt ==
  ASSUME NEW materials, IsFiniteSet(materials),
         \A m \in materials : m.required \in Nat /\ m.required >= 1 /\ m.available \in Nat
  PROVE  MaterialScore(materials) \in Int
PROOF
  <1> DEFINE f == [m \in materials |-> m.required]
             resolved == {m \in materials : m.resolved}
             g == [m \in resolved |-> Lesser(m.required, m.available)]
             short == {m \in materials : Short(m)}
             required == SumFunction(f)
             covered == SumFunction(g)
  <1>1. IsFiniteSet(resolved) /\ IsFiniteSet(short)
    BY FS_Subset
  <1>2. required = SumFunctionOnSet(f, materials) /\ covered = SumFunctionOnSet(g, resolved)
    BY DEF SumFunction
  <1>3. \A m \in materials : f[m] \in Nat /\ f[m] >= 1
    OBVIOUS
  <1>4. ASSUME NEW m \in resolved PROVE g[m] \in Int
    <2>1. m.required \in Int /\ m.available \in Int
      OBVIOUS
    <2>2. Lesser(m.required, m.available) \in Int
      BY <2>1, LesserInt
    <2> QED
      BY <2>2
  <1>5. covered \in Int
    <2> HIDE DEF g, resolved, covered
    <2> QED
      BY <1>1, <1>2, <1>4, SumInt
  <1>6. required \in Nat
    <2> HIDE DEF f, required
    <2> QED
      BY <1>2, <1>3, SumNat
  <1>7. ASSUME NEW m \in materials PROVE required >= 1
    <2> HIDE DEF f, required
    <2>1. f[m] <= SumFunctionOnSet(f, materials)
      BY <1>3, SumAtLeast
    <2> QED
      BY <1>2, <1>3, <1>6, <2>1
  <1>8. Cardinality(materials) \in Nat /\ Cardinality(short) \in Nat
    BY <1>1, FS_CardinalityType
  <1>9. MaterialScore(materials) =
          IF materials = {} THEN 0
          ELSE Portion(120, covered, required) + Points(short = {}, 40)
                 - Lesser(64, 8 * Cardinality(materials)) - Lesser(60, 12 * Cardinality(short))
    BY DEF MaterialScore
  <1> HIDE DEF required, covered, short
  <1>10. CASE materials # {}
    <2>1. Portion(120, covered, required) \in Int
      BY <1>5, <1>6, <1>7, <1>10, PortionInt
    <2>2. Points(short = {}, 40) \in Int
      BY PointsInt
    <2>3. 8 * Cardinality(materials) \in Int /\ 12 * Cardinality(short) \in Int
      BY <1>8
    <2>4. Lesser(64, 8 * Cardinality(materials)) \in Int
      BY <2>3 DEF Lesser
    <2>5. Lesser(60, 12 * Cardinality(short)) \in Int
      BY <2>3 DEF Lesser
    <2> QED
      BY <1>9, <1>10, <2>1, <2>2, <2>4, <2>5
  <1> QED
    BY <1>9, <1>10

\* The score of what a quest unlocks is a number.
LEMMA UnlockScoreInt ==
  ASSUME NEW index, IndexShape(index), NEW q \in Quests
  PROVE  UnlockScore(index, q) \in Int
PROOF
  <1> DEFINE direct == Cardinality(index.quests[q].unlocks)
             later == Downstream(index, q)
  <1>1. direct \in Int
    BY QuestAssumption, FS_Subset, FS_CardinalityType DEF IndexShape
  <1>2. later \in Int
    BY DownstreamInt
  <1>3. UnlockScore(index, q) = IF index.quests[q].completed THEN 0
          ELSE Lesser(90, 15 * direct) + Points(later > direct, Lesser(60, 4 * (later - direct)))
    BY DEF UnlockScore
  <1> HIDE DEF direct, later
  <1>4. Lesser(90, 15 * direct) \in Int /\ Lesser(60, 4 * (later - direct)) \in Int
    BY <1>1, <1>2, LesserInt
  <1>5. Points(later > direct, Lesser(60, 4 * (later - direct))) \in Int
    BY <1>4, PointsInt
  <1> QED
    BY <1>3, <1>4, <1>5

\* The part of the tasks that is done.
LEMMA DoneScoreInt ==
  ASSUME NEW index, IndexShape(index), NEW q \in Quests
  PROVE  (IF index.quests[q].completed \/ DoneCount(index.quests[q]) = 0 THEN 0
          ELSE Portion(100, DoneCount(index.quests[q]), Cardinality(Tasks[q]))) \in Int
PROOF
  <1> DEFINE quest == index.quests[q]
             done == {t \in DOMAIN quest.doneBy : quest.doneBy[t] # {}}
  <1>1. IsFiniteSet(Tasks[q]) /\ done \in SUBSET Tasks[q]
    BY QuestAssumption DEF IndexShape
  <1>2. DoneCount(quest) = Cardinality(done)
    BY DEF DoneCount
  <1> HIDE DEF quest, done
  <1>3. Cardinality(done) \in Nat /\ Cardinality(Tasks[q]) \in Nat /\ Cardinality(done) <= Cardinality(Tasks[q])
    BY <1>1, FS_Subset, FS_CardinalityType
  <1>4. DoneCount(quest) # 0 => Portion(100, DoneCount(quest), Cardinality(Tasks[q])) \in Int
    <2> SUFFICES ASSUME DoneCount(quest) # 0
                 PROVE  Portion(100, DoneCount(quest), Cardinality(Tasks[q])) \in Int
      OBVIOUS
    <2>1. Cardinality(Tasks[q]) >= 1 /\ DoneCount(quest) \in Int
      BY <1>2, <1>3
    <2> QED
      BY <1>3, <2>1, PortionInt
  <1> QED
    BY <1>4 DEF quest

\* The score of a quest is a number.
LEMMA QuestScoreInt ==
  ASSUME NEW index, IndexShape(index), NEW q \in Quests, NEW stock, NEW time, NEW state, NEW request,
         NEW materials, IsFiniteSet(materials),
         \A m \in materials : m.required \in Nat /\ m.required >= 1 /\ m.available \in Nat
  PROVE  QuestScore(index, stock, time, q, state, materials, request) \in Int
PROOF
  <1> DEFINE base == CASE state = "completed_unclaimed" -> 1000
                       [] state \in {"completed_claimed", "completed_claim_unknown"} -> 0
                       [] state = "in_progress" -> 500
                       [] OTHER -> 300
             tier == Points(TierLine[Line[q]], 100)
             active == Points(ActiveTier(index) = Line[q], 120)
             asked == Points(request.tier # Nothing /\ Line[q] \in request.tier, 200)
             done == IF index.quests[q].completed \/ DoneCount(index.quests[q]) = 0 THEN 0
                     ELSE Portion(100, DoneCount(index.quests[q]), Cardinality(Tasks[q]))
             stuff == IF state = "completed_unclaimed" THEN 0 ELSE MaterialScore(materials)
             unlock == UnlockScore(index, q)
             old == Points(QuestsStale(index, time), 100)
             stale == Points(materials # {} /\ InventoryStale(stock, time), 80)
  <1>1. base \in Int
    OBVIOUS
  <1>2. tier \in Int /\ active \in Int /\ asked \in Int /\ old \in Int /\ stale \in Int
    BY PointsInt
  <1>3. done \in Int
    BY DoneScoreInt
  <1>4. stuff \in Int
    BY MaterialScoreInt
  <1>5. unlock \in Int
    BY UnlockScoreInt
  <1>6. QuestScore(index, stock, time, q, state, materials, request) =
          base + tier + active + asked + done + stuff + unlock - old - stale
    BY DEF QuestScore
  <1> HIDE DEF base, tier, active, asked, done, stuff, unlock, old, stale
  <1> QED
    BY <1>1, <1>2, <1>3, <1>4, <1>5, <1>6

-----------------------------------------------------------------------------
(* The candidates *)

\* The quests among the candidates.
QuestOnes(index, stock, time, request) ==
  {EvaluateQuest(index, stock, time, q, request) : q \in {r \in Quests : Eligible(index, r, request)}}

\* The tasks among the candidates.
TaskOnes(request) ==
  {EvaluateTask(task, request.user) : task \in {u \in Board : Open(u, request.user)}}

\* The candidates from the quest book are the eligible quests, evaluated.
LEMMA QuestOnesShape ==
  ASSUME NEW index, IndexShape(index), NEW stock, \A k \in Keys : stock.totals[k] \in Nat,
         NEW time, NEW request
  PROVE  LET ones == QuestOnes(index, stock, time, request)
         IN  /\ IsFiniteSet(ones)
             /\ \A c \in ones : /\ c.source = "questbook" /\ c.id \in Quests /\ c.score \in Int
                                /\ c = EvaluateQuest(index, stock, time, c.id, request)
                                /\ Eligible(index, c.id, request)
PROOF
  <1> DEFINE eligible == {r \in Quests : Eligible(index, r, request)}
             of(q) == EvaluateQuest(index, stock, time, q, request)
             f == [q \in eligible |-> of(q)]
             ones == QuestOnes(index, stock, time, request)
  <1>1. IsFiniteSet(eligible)
    BY QuestAssumption, FS_Subset
  <1>2. ones = {f[q] : q \in DOMAIN f}
    <2>1. ones = {of(q) : q \in eligible}
      BY DEF QuestOnes
    <2>2. {of(q) : q \in eligible} = {f[q] : q \in DOMAIN f}
      <3> HIDE DEF of, eligible
      <3> QED
        OBVIOUS
    <2> HIDE DEF ones, of, f
    <2> QED
      BY <2>1, <2>2
  <1>3. IsFiniteSet(ones)
    <2>1. DOMAIN f = eligible
      OBVIOUS
    <2>2. IsFiniteSet({f[q] : q \in DOMAIN f})
      <3> HIDE DEF f, eligible
      <3> QED
        BY <1>1, <2>1, FiniteRange
    <2> HIDE DEF ones, f
    <2> QED
      BY <1>2, <2>2
  <1>4. ASSUME NEW q \in Quests
        PROVE  of(q).source = "questbook" /\ of(q).id = q /\ of(q).score \in Int
    <2> DEFINE quest == index.quests[q]
               state == IF quest.completed THEN "completed_unclaimed" ELSE EffectiveState(index, q)
               materials == Materials(q, quest, request.user, stock.totals)
    <2>1. of(q).score = QuestScore(index, stock, time, q, state, materials, request)
      BY DEF EvaluateQuest
    <2>2. QuestScore(index, stock, time, q, state, materials, request) \in Int
      <3>1. /\ IsFiniteSet(materials)
            /\ \A m \in materials : m.required \in Nat /\ m.required >= 1 /\ m.available \in Nat
        BY MaterialsShape
      <3> HIDE DEF materials, state
      <3> QED
        BY <3>1, QuestScoreInt
    <2>3. of(q).source = "questbook" /\ of(q).id = q
      BY DEF EvaluateQuest
    <2> HIDE DEF of, state, materials
    <2> QED
      BY <2>1, <2>2, <2>3
  <1>5. ASSUME NEW c \in ones
        PROVE  \E q \in eligible : c = of(q)
    BY DEF QuestOnes
  <1>6. ASSUME NEW c \in ones
        PROVE  /\ c.source = "questbook" /\ c.id \in Quests /\ c.score \in Int
               /\ c = EvaluateQuest(index, stock, time, c.id, request)
               /\ Eligible(index, c.id, request)
    <2>1. PICK q \in eligible : c = of(q)
      BY <1>5
    <2>2. c.id = q /\ c.source = "questbook" /\ c.score \in Int
      <3> HIDE DEF of
      <3> QED
        BY <1>4, <2>1
    <2> QED
      BY <2>1, <2>2
  <1> QED
    BY <1>3, <1>6

\* The candidates from the task board have the ids of their rows.
LEMMA TaskOnesShape ==
  ASSUME NEW request
  PROVE  LET ones == TaskOnes(request)
         IN  /\ IsFiniteSet(ones)
             /\ \A c \in ones : c.source = "task_log" /\ c.id \in Int /\ c.score \in Int
             /\ \A c, d \in ones : c.id = d.id => c = d
PROOF
  <1> DEFINE rows == {u \in Board : Open(u, request.user)}
             of(task) == EvaluateTask(task, request.user)
             f == [task \in rows |-> of(task)]
             ones == TaskOnes(request)
  <1>1. IsFiniteSet(rows)
    BY PlannerAssumption, FS_Subset
  <1>2. ones = {f[task] : task \in DOMAIN f}
    <2>1. ones = {of(task) : task \in rows}
      BY DEF TaskOnes
    <2>2. {of(task) : task \in rows} = {f[task] : task \in DOMAIN f}
      <3> HIDE DEF of, rows
      <3> QED
        OBVIOUS
    <2> HIDE DEF ones, of, f
    <2> QED
      BY <2>1, <2>2
  <1>3. IsFiniteSet(ones)
    <2>1. DOMAIN f = rows
      OBVIOUS
    <2>2. IsFiniteSet({f[task] : task \in DOMAIN f})
      <3> HIDE DEF f, rows
      <3> QED
        BY <1>1, <2>1, FiniteRange
    <2> HIDE DEF ones, f
    <2> QED
      BY <1>2, <2>2
  <1>4. ASSUME NEW task \in rows
        PROVE  of(task).source = "task_log" /\ of(task).id = task.id /\ of(task).score \in Int
    <2> DEFINE base == IF task.status = "doing" THEN 480 ELSE 180
               more == CASE task.priority = "high" -> 80 [] task.priority = "med" -> 35 [] OTHER -> 0
               own == Points(request.user # NoPlayer /\ task.owner = request.user, 30)
    <2>1. base \in Int /\ more \in Int /\ own \in Int
      BY PointsInt
    <2>2. of(task).score = base + more + own
      BY DEF EvaluateTask
    <2>3. of(task).source = "task_log" /\ of(task).id = task.id
      BY DEF EvaluateTask
    <2> HIDE DEF of, base, more, own
    <2> QED
      BY <2>1, <2>2, <2>3
  <1>5. ASSUME NEW c \in ones PROVE \E task \in rows : c = of(task)
    BY DEF TaskOnes
  <1>6. \A task, other \in rows : task.id \in Int /\ (task.id = other.id => task = other)
    BY PlannerAssumption
  <1> HIDE DEF of, rows, ones
  <1>7. \A c \in ones : c.source = "task_log" /\ c.id \in Int /\ c.score \in Int
    BY <1>4, <1>5, <1>6
  <1>8. ASSUME NEW c \in ones, NEW d \in ones, c.id = d.id PROVE c = d
    BY <1>4, <1>5, <1>6, <1>8
  <1> QED
    BY <1>3, <1>7, <1>8 DEF ones

\* The candidates have an order.
LEMMA CandidatesComparable ==
  ASSUME NEW index, IndexShape(index), NEW stock, \A k \in Keys : stock.totals[k] \in Nat,
         NEW time, NEW request
  PROVE  Comparable(Candidates(index, stock, time, request))
PROOF
  <1> DEFINE quests == QuestOnes(index, stock, time, request)
             tasks == IF request.tier # Nothing THEN {} ELSE TaskOnes(request)
             all == Candidates(index, stock, time, request)
  <1>1. all = quests \union tasks
    BY DEF Candidates, QuestOnes, TaskOnes
  <1>2. IsFiniteSet(quests)
    BY QuestOnesShape
  <1>3. \A c \in quests : /\ c.source = "questbook" /\ c.id \in Int /\ c.score \in Int
                          /\ c = EvaluateQuest(index, stock, time, c.id, request)
    <2>1. \A c \in quests : /\ c.source = "questbook" /\ c.id \in Quests /\ c.score \in Int
                            /\ c = EvaluateQuest(index, stock, time, c.id, request)
      BY QuestOnesShape
    <2>2. Quests \subseteq Int
      BY QuestAssumption
    <2> HIDE DEF quests
    <2> QED
      BY <2>1, <2>2
  <1>4. IsFiniteSet(tasks)
    BY TaskOnesShape, FS_EmptySet
  <1>5. /\ \A c \in tasks : c.source = "task_log" /\ c.id \in Int /\ c.score \in Int
        /\ \A c, d \in tasks : c.id = d.id => c = d
    BY TaskOnesShape
  <1> HIDE DEF quests, tasks, all
  <1>6. IsFiniteSet(all)
    BY <1>1, <1>2, <1>4, FS_Union
  <1>7. \A c \in all : c.score \in Int /\ c.id \in Int /\ c.source \in {"questbook", "task_log"}
    BY <1>1, <1>3, <1>5
  <1>8. ASSUME NEW c \in all, NEW d \in all, c.source = d.source, c.id = d.id PROVE c = d
    <2>1. CASE c \in quests
      <3>1. d \in quests
        BY <1>1, <1>3, <1>5, <1>8, <2>1
      <3> QED
        BY <1>3, <1>8, <2>1, <3>1
    <2>2. CASE c \in tasks
      <3>1. d \in tasks
        BY <1>1, <1>3, <1>5, <1>8, <2>2
      <3> QED
        BY <1>5, <1>8, <2>2, <3>1
    <2> QED
      BY <1>1, <2>1, <2>2
  <1> QED
    BY <1>6, <1>7, <1>8 DEF Comparable, all

-----------------------------------------------------------------------------
(* Progress files *)

\* A progress file says of every quest what the game may have noted.
FileOk(told) == told \in [Quests -> Progress]

\* Nothing that the old file says is taken back in the new one: the completions
\* keep their places in the list.
Within(old, new) ==
  \A q \in Quests :
    /\ \A i \in DOMAIN old[q].by : i \in DOMAIN new[q].by /\ new[q].by[i] = old[q].by[i]
    /\ old[q].claimed \subseteq new[q].claimed

\* The files a scan has read: those it decoded are between those there were when
\* it began and those there are; of the others it has nothing.
ReadOk(got, before, intact) ==
  /\ intact \subseteq Members
  /\ \A m \in Members :
       /\ FileOk(before[m])
       /\ m \in intact => /\ got[m] # NoFile /\ FileOk(got[m])
                          /\ Within(before[m], got[m]) /\ Within(got[m], progress[m])
       /\ m \notin intact => got[m] \in {NoFile, Blank}

\* A quest index that a scan has made of the files and names it has read.
MadeByScan(made) ==
  /\ DOMAIN made = {"index", "seen", "decoded", "named"}
  /\ \E got, at : /\ ReadOk(got, made.seen, made.decoded)
                  /\ made.index = Scan(pre, got, made.named, at)

\* The compact form of such an index.
MadeCompact(made) == \E got, at :
  /\ ReadOk(got, made.seen, made.decoded)
  /\ made.index = Snapshot(Scan(pre, got, made.named, at))

\* Inductive: every quest index was made of files that lay between those there
\* were when its scan began and those there are now.
QuestsInv ==
  /\ progress \in [Members -> [Quests -> Progress]]
  /\ stage = "progress" => /\ DOMAIN read = Members /\ ReadOk(read, seen, decoded)
                           /\ \A m \in Members : Within(seen[m], progress[m])
                           /\ decoded \intersect unread = {}
  /\ stage \in {"questIndex", "plannerIndex"} => MadeByScan(fresh)
  /\ questIndex # Nothing => MadeByScan(questIndex)
  /\ plannerIndex # Nothing => MadeCompact(plannerIndex)

\* A file says what it says.
LEMMA WithinItself ==
  ASSUME NEW told
  PROVE  Within(told, told)
PROOF
  BY DEF Within

\* QuestsInv holds initially.
LEMMA QuestsInit == WorkspaceInit => QuestsInv
PROOF
  <1> SUFFICES ASSUME WorkspaceInit PROVE QuestsInv
    OBVIOUS
  <1>1. PICK start \in Starts : pre = start[1] /\ progress = start[2]
    BY DEF WorkspaceInit
  <1>2. progress \in [Members -> [Quests -> Progress]]
    BY <1>1, WorkspaceAssumption
  <1>3. stage = "idle" /\ questIndex = Nothing /\ plannerIndex = Nothing
    BY DEF WorkspaceInit
  <1> QED
    BY <1>2, <1>3 DEF QuestsInv

-----------------------------------------------------------------------------
(* The game goes on *)

\* A player added at the end leaves the others their places.
LEMMA AppendOne ==
  ASSUME NEW list \in Seq(Members), NEW user \in Members
  PROVE  LET longer == Append(list, user)
         IN  /\ longer \in Seq(Members)
             /\ \A i \in DOMAIN list : i \in DOMAIN longer /\ longer[i] = list[i]
PROOF
  OBVIOUS

\* A change to one entry of a player's file.
LEMMA OneEntry ==
  ASSUME QuestsInv, NEW m \in Members, NEW q \in Quests, NEW entry \in Progress,
         \A i \in DOMAIN progress[m][q].by :
           i \in DOMAIN entry.by /\ entry.by[i] = progress[m][q].by[i],
         progress[m][q].claimed \subseteq entry.claimed,
         progress' = [progress EXCEPT ![m][q] = entry]
  PROVE  /\ progress' \in [Members -> [Quests -> Progress]]
         /\ \A o \in Members : Within(progress[o], progress'[o])
PROOF
  <1>1. progress \in [Members -> [Quests -> Progress]]
    BY DEF QuestsInv
  <1>2. progress' \in [Members -> [Quests -> Progress]]
    BY <1>1
  <1>3. \A o \in Members, r \in Quests :
          progress'[o][r] = IF o = m /\ r = q THEN entry ELSE progress[o][r]
    BY <1>1
  <1>4. ASSUME NEW o \in Members PROVE Within(progress[o], progress'[o])
    <2>1. ASSUME NEW r \in Quests
          PROVE  /\ \A i \in DOMAIN progress[o][r].by :
                      i \in DOMAIN progress'[o][r].by /\ progress'[o][r].by[i] = progress[o][r].by[i]
                 /\ progress[o][r].claimed \subseteq progress'[o][r].claimed
      <3>1. CASE o = m /\ r = q
        BY <1>3, <3>1
      <3>2. CASE ~(o = m /\ r = q)
        <4>1. progress'[o][r] = progress[o][r]
          BY <1>3, <3>2
        <4> QED
          BY <4>1
      <3> QED
        BY <3>1, <3>2
    <2> QED
      BY <2>1 DEF Within
  <1> QED
    BY <1>2, <1>4

\* What the players do takes nothing back.
LEMMA GameGrows ==
  ASSUME QuestsInv, Game
  PROVE  /\ progress' \in [Members -> [Quests -> Progress]]
         /\ \A m \in Members : Within(progress[m], progress'[m])
         /\ pre' = pre
PROOF
  <1>1. progress \in [Members -> [Quests -> Progress]]
    BY DEF QuestsInv
  <1>2. pre' = pre
    BY DEF Game, DoTask, Complete, Claim, Move, HoursPass
  <1>3. ASSUME NEW m \in Members, NEW q \in Quests
        PROVE  /\ progress[m][q] \in Progress
               /\ progress[m][q].by \in Seq(Members) /\ progress[m][q].claimed \subseteq Members
               /\ progress[m][q].tasks \subseteq DOMAIN Needs
    BY <1>1 DEF Progress
  <1>4. ASSUME NEW m \in Members, NEW q \in Quests, NEW t \in Tasks[q], DoTask(m, q, t)
        PROVE  /\ progress' \in [Members -> [Quests -> Progress]]
               /\ \A o \in Members : Within(progress[o], progress'[o])
    <2> DEFINE entry == [progress[m][q] EXCEPT !.tasks = @ \union {t}]
    <2>1. t \in DOMAIN Needs
      BY PlannerAssumption
    <2>2. entry \in Progress /\ entry.by = progress[m][q].by /\ entry.claimed = progress[m][q].claimed
      BY <1>3, <2>1 DEF Progress
    <2>3. progress' = [progress EXCEPT ![m][q] = entry]
      BY <1>1, <1>4 DEF DoTask
    <2> HIDE DEF entry
    <2> QED
      BY <2>2, <2>3, OneEntry
  <1>5. ASSUME NEW m \in Members, NEW q \in Quests, NEW user \in Members, Complete(m, q, user)
        PROVE  /\ progress' \in [Members -> [Quests -> Progress]]
               /\ \A o \in Members : Within(progress[o], progress'[o])
    <2> DEFINE longer == Append(progress[m][q].by, user)
               entry == [progress[m][q] EXCEPT !.by = longer]
    <2>1. /\ longer \in Seq(Members)
          /\ \A i \in DOMAIN progress[m][q].by :
               i \in DOMAIN longer /\ longer[i] = progress[m][q].by[i]
      BY <1>3, AppendOne
    <2>2. progress' = [progress EXCEPT ![m][q] = entry]
      BY <1>1, <1>5 DEF Complete
    <2> HIDE DEF longer
    <2>3. entry \in Progress /\ entry.by = longer /\ entry.claimed = progress[m][q].claimed
      BY <1>3, <2>1 DEF Progress
    <2> HIDE DEF entry
    <2> QED
      BY <2>1, <2>2, <2>3, OneEntry
  <1>6. ASSUME NEW m \in Members, NEW q \in Quests, Claim(m, q)
        PROVE  /\ progress' \in [Members -> [Quests -> Progress]]
               /\ \A o \in Members : Within(progress[o], progress'[o])
    <2> DEFINE entry == [progress[m][q] EXCEPT !.claimed = @ \union {m}]
    <2>1. /\ entry \in Progress /\ entry.by = progress[m][q].by
          /\ progress[m][q].claimed \subseteq entry.claimed
      BY <1>3 DEF Progress
    <2>2. progress' = [progress EXCEPT ![m][q] = entry]
      BY <1>1, <1>6 DEF Claim
    <2> HIDE DEF entry
    <2> QED
      BY <2>1, <2>2, OneEntry
  <1>7. ASSUME progress' = progress
        PROVE  /\ progress' \in [Members -> [Quests -> Progress]]
               /\ \A o \in Members : Within(progress[o], progress'[o])
    BY <1>1, <1>7, WithinItself
  <1>8. \/ \E m \in Members, q \in Quests :
             \/ \E t \in Tasks[q] : DoTask(m, q, t)
             \/ \E user \in Members : Complete(m, q, user)
             \/ Claim(m, q)
        \/ progress' = progress
    BY DEF Game, Move, HoursPass
  <1> QED
    BY <1>2, <1>4, <1>5, <1>6, <1>7, <1>8

-----------------------------------------------------------------------------
(* The scan and its files *)

\* A file that was read stays behind the one there is.
LEMMA ReadOkLater ==
  ASSUME \A m \in Members : Within(progress[m], progress'[m]),
         NEW got, NEW before, NEW intact, ReadOk(got, before, intact)
  PROVE  ReadOk(got, before, intact)'
PROOF
  BY DEF ReadOk, Within

\* So a quest index stays one of such files, and so does its compact form.
LEMMA MadeLater ==
  ASSUME \A m \in Members : Within(progress[m], progress'[m]), pre' = pre, NEW made
  PROVE  /\ MadeByScan(made) => MadeByScan(made)'
         /\ MadeCompact(made) => MadeCompact(made)'
PROOF
  <1>1. \A got : ReadOk(got, made.seen, made.decoded) => ReadOk(got, made.seen, made.decoded)'
    BY ReadOkLater
  <1> QED
    BY <1>1 DEF MadeByScan, MadeCompact

\* The parts of the invariant that a step leaves alone, be it of the game or of
\* the sync loop.
LEMMA QuestsKept ==
  ASSUME QuestsInv, \A m \in Members : Within(progress[m], progress'[m]), pre' = pre
  PROVE  /\ questIndex' = questIndex => (questIndex' # Nothing => MadeByScan(questIndex)')
         /\ plannerIndex' = plannerIndex => (plannerIndex' # Nothing => MadeCompact(plannerIndex)')
         /\ fresh' = fresh /\ stage \in {"questIndex", "plannerIndex"} => MadeByScan(fresh)'
PROOF
  <1>1. ASSUME questIndex' = questIndex, questIndex' # Nothing PROVE MadeByScan(questIndex)'
    <2>1. MadeByScan(questIndex)
      BY <1>1 DEF QuestsInv
    <2>2. PICK made : made = questIndex
      OBVIOUS
    <2>3. MadeByScan(made)'
      BY <2>1, <2>2, MadeLater
    <2> QED
      BY <1>1, <2>2, <2>3 DEF MadeByScan
  <1>2. ASSUME plannerIndex' = plannerIndex, plannerIndex' # Nothing PROVE MadeCompact(plannerIndex)'
    <2>1. MadeCompact(plannerIndex)
      BY <1>2 DEF QuestsInv
    <2>2. PICK made : made = plannerIndex
      OBVIOUS
    <2>3. MadeCompact(made)'
      BY <2>1, <2>2, MadeLater
    <2> QED
      BY <1>2, <2>2, <2>3 DEF MadeCompact
  <1>3. ASSUME fresh' = fresh, stage \in {"questIndex", "plannerIndex"} PROVE MadeByScan(fresh)'
    <2>1. MadeByScan(fresh)
      BY <1>3 DEF QuestsInv
    <2>2. PICK made : made = fresh
      OBVIOUS
    <2>3. MadeByScan(made)'
      BY <2>1, <2>2, MadeLater
    <2> QED
      BY <1>3, <2>2, <2>3 DEF MadeByScan
  <1> QED
    BY <1>1, <1>2, <1>3

\* Nothing in the game breaks QuestsInv.
LEMMA GameQuests == QuestsInv /\ Game => QuestsInv'
PROOF
  <1> SUFFICES ASSUME QuestsInv, Game PROVE QuestsInv'
    OBVIOUS
  <1>1. /\ progress' \in [Members -> [Quests -> Progress]]
        /\ \A m \in Members : Within(progress[m], progress'[m])
        /\ pre' = pre
    BY GameGrows
  <1>2. UNCHANGED <<stage, unread, read, fresh, seen, decoded, questIndex, plannerIndex>>
    BY DEF Game, sync, scan, files
  <1>3. ASSUME stage' = "progress"
        PROVE  /\ DOMAIN read' = Members /\ ReadOk(read, seen, decoded)'
               /\ \A m \in Members : Within(seen[m], progress[m])'
               /\ decoded' \intersect unread' = {}
    <2>1. /\ DOMAIN read = Members /\ ReadOk(read, seen, decoded)
          /\ \A m \in Members : Within(seen[m], progress[m])
          /\ decoded \intersect unread = {}
      BY <1>2, <1>3 DEF QuestsInv
    <2>2. ReadOk(read, seen, decoded)'
      BY <1>1, <1>2, <2>1 DEF ReadOk, Within
    <2>3. \A m \in Members : Within(seen[m], progress[m])'
      BY <1>1, <1>2, <2>1 DEF Within
    <2> QED
      BY <1>2, <2>1, <2>2, <2>3
  <1>4. /\ stage' \in {"questIndex", "plannerIndex"} => MadeByScan(fresh)'
        /\ questIndex' # Nothing => MadeByScan(questIndex)'
        /\ plannerIndex' # Nothing => MadeCompact(plannerIndex)'
    BY <1>1, <1>2, QuestsKept
  <1> QED
    BY <1>1, <1>3, <1>4 DEF QuestsInv

\* No step of the sync loop breaks QuestsInv: one case for each action.
LEMMA SyncQuests == QuestsInv /\ Sync => QuestsInv'
PROOF
  <1> SUFFICES ASSUME QuestsInv, Sync PROVE QuestsInv'
    OBVIOUS
  <1>1. UNCHANGED <<pre, progress>>
    BY DEF Sync, game
  <1>2. /\ progress' \in [Members -> [Quests -> Progress]]
        /\ \A m \in Members : Within(progress[m], progress'[m])
    BY <1>1, WithinItself DEF QuestsInv
  <1>3. /\ questIndex' = questIndex => (questIndex' # Nothing => MadeByScan(questIndex)')
        /\ plannerIndex' = plannerIndex => (plannerIndex' # Nothing => MadeCompact(plannerIndex)')
        /\ fresh' = fresh /\ stage \in {"questIndex", "plannerIndex"} => MadeByScan(fresh)'
    BY <1>1, <1>2, QuestsKept
  <1> DEFINE Rest == UNCHANGED <<questIndex, plannerIndex>>
                     /\ stage' \notin {"progress", "questIndex", "plannerIndex"}
  <1>4. ASSUME Rest PROVE QuestsInv'
    BY <1>2, <1>3, <1>4 DEF QuestsInv
  <1>5. CASE \/ BeginCycle
             \/ ScanItems("players", "me") \/ ScanItems("me", "quests")
             \/ ScanItems("containers", "itemIndex")
             \/ SkipQuests \/ SyncCrash
    BY <1>4, <1>5 DEF BeginCycle, ScanItems, SkipQuests, SyncCrash, files
  <1>6. CASE WriteItemIndex \/ WriteTotals \/ WriteCrafting \/ WriteStatus
    BY <1>4, <1>6 DEF WriteItemIndex, WriteTotals, WriteCrafting, WriteStatus
  <1>7. CASE BeginQuests
    <2>1. /\ stage' = "progress" /\ read' = Unread /\ seen' = progress /\ decoded' = {}
          /\ UNCHANGED <<questIndex, plannerIndex>>
      BY <1>7 DEF BeginQuests, files
    <2>2. DOMAIN read' = Members /\ ReadOk(read, seen, decoded)' /\ decoded' \intersect unread' = {}
      BY <2>1 DEF ReadOk, Unread, QuestsInv, FileOk
    <2>3. \A m \in Members : Within(seen[m], progress[m])'
      BY <1>1, <2>1 DEF Within
    <2> QED
      BY <1>2, <1>3, <2>1, <2>2, <2>3 DEF QuestsInv
  <1>8. ASSUME NEW m \in Members, ReadProgress(m) PROVE QuestsInv'
    <2>1. /\ stage = "progress" /\ UNCHANGED <<stage, seen, questIndex, plannerIndex>>
          /\ m \in unread /\ unread' = unread \ {m}
          /\ \/ read' = [read EXCEPT ![m] = progress[m]] /\ decoded' = decoded \union {m}
             \/ read' = read /\ decoded' = decoded
             \/ read' = [read EXCEPT ![m] = Blank] /\ decoded' = decoded
      BY <1>8 DEF ReadProgress, files
    <2>2. /\ DOMAIN read = Members /\ ReadOk(read, seen, decoded)
          /\ progress \in [Members -> [Quests -> Progress]]
          /\ \A o \in Members : Within(seen[o], progress[o])
          /\ decoded \intersect unread = {}
      BY <2>1 DEF QuestsInv
    <2>3. DOMAIN read' = Members /\ decoded' \intersect unread' = {}
      BY <2>1, <2>2
    <2>4. ReadOk(read, seen, decoded)'
      <3>1. CASE read' = [read EXCEPT ![m] = progress[m]] /\ decoded' = decoded \union {m}
        <4>1. progress[m] # NoFile
          BY <2>2, WorkspaceAssumption
        <4>2. \A o \in Members : Within(progress[o], progress[o])
          BY WithinItself
        <4> QED
          BY <1>1, <2>1, <2>2, <3>1, <4>1, <4>2 DEF ReadOk, FileOk
      <3>2. CASE read' = read /\ decoded' = decoded
        BY <1>1, <2>1, <2>2, <3>2 DEF ReadOk
      <3>3. CASE read' = [read EXCEPT ![m] = Blank] /\ decoded' = decoded
        BY <1>1, <2>1, <2>2, <3>3 DEF ReadOk
      <3> QED
        BY <2>1, <3>1, <3>2, <3>3
    <2>5. \A o \in Members : Within(seen[o], progress[o])'
      BY <1>1, <2>1, <2>2
    <2> QED
      BY <1>2, <1>3, <2>1, <2>3, <2>4, <2>5 DEF QuestsInv
  <1>9. CASE EndQuests
    <2>1. /\ stage = "progress" /\ stage' = "questIndex" /\ UNCHANGED <<questIndex, plannerIndex>>
          /\ fresh' = [index |-> Scan(pre, read, named, hour), seen |-> seen,
                       decoded |-> decoded, named |-> named]
      BY <1>9 DEF EndQuests, files
    <2>2. ReadOk(read, seen, decoded)
      BY <2>1 DEF QuestsInv
    <2>3. PICK made : made = fresh'
      OBVIOUS
    <2>4. MadeByScan(made)
      BY <2>1, <2>2, <2>3 DEF MadeByScan
    <2>5. MadeByScan(made)'
      BY <1>1, <1>2, <2>4, MadeLater
    <2>6. MadeByScan(fresh)'
      BY <2>3, <2>5 DEF MadeByScan
    <2> QED
      BY <1>2, <1>3, <2>1, <2>6 DEF QuestsInv
  <1>10. CASE WriteQuestIndex
    <2>1. /\ stage = "questIndex" /\ stage' = "plannerIndex" /\ UNCHANGED <<fresh, plannerIndex>>
          /\ questIndex' = fresh \/ questIndex' = questIndex
      BY <1>10 DEF WriteQuestIndex
    <2>2. MadeByScan(fresh)'
      BY <1>3, <2>1
    <2>3. questIndex' = fresh => MadeByScan(questIndex)'
      BY <2>1, <2>2 DEF MadeByScan
    <2> QED
      BY <1>2, <1>3, <2>1, <2>2, <2>3 DEF QuestsInv
  <1>11. CASE WritePlannerIndex
    <2>1. /\ stage = "plannerIndex" /\ stage' = "containers" /\ UNCHANGED questIndex
          /\ plannerIndex' = [fresh EXCEPT !.index = Snapshot(@)] \/ plannerIndex' = plannerIndex
      BY <1>11 DEF WritePlannerIndex
    <2>2. ASSUME plannerIndex' = [fresh EXCEPT !.index = Snapshot(@)] PROVE MadeCompact(plannerIndex)'
      <3>1. MadeByScan(fresh)
        BY <2>1 DEF QuestsInv
      <3>2. PICK made : made = plannerIndex'
        OBVIOUS
      <3>3. /\ made.seen = fresh.seen /\ made.decoded = fresh.decoded /\ made.named = fresh.named
            /\ made.index = Snapshot(fresh.index)
        BY <2>2, <3>1, <3>2 DEF MadeByScan
      <3>4. MadeCompact(made)
        BY <3>1, <3>3 DEF MadeByScan, MadeCompact
      <3>5. MadeCompact(made)'
        BY <1>1, <1>2, <3>4, MadeLater
      <3> QED
        BY <3>2, <3>5 DEF MadeCompact
    <2> QED
      BY <1>2, <1>3, <2>1, <2>2 DEF QuestsInv
  <1> QED
    BY <1>5, <1>6, <1>7, <1>8, <1>9, <1>10, <1>11 DEF Sync

\* No step breaks QuestsInv.
LEMMA QuestsStep == QuestsInv /\ [WorkspaceNext]_vars => QuestsInv'
PROOF
  <1> SUFFICES ASSUME QuestsInv, [WorkspaceNext]_vars PROVE QuestsInv'
    OBVIOUS
  <1>1. CASE Game
    BY <1>1, GameQuests
  <1>2. CASE Sync
    BY <1>2, SyncQuests
  <1>3. CASE UNCHANGED vars
    <2>1. UNCHANGED <<pre, progress, stage, unread, read, fresh, seen, decoded, questIndex, plannerIndex>>
      BY <1>3 DEF vars, game, sync, scan, files
    <2>2. \A m \in Members : Within(progress[m], progress'[m])
      BY <2>1, WithinItself
    <2>3. /\ stage' \in {"questIndex", "plannerIndex"} => MadeByScan(fresh)'
          /\ questIndex' # Nothing => MadeByScan(questIndex)'
          /\ plannerIndex' # Nothing => MadeCompact(plannerIndex)'
      BY <2>1, <2>2, QuestsKept
    <2>4. stage' = "progress" => /\ DOMAIN read' = Members /\ ReadOk(read, seen, decoded)'
                                 /\ \A m \in Members : Within(seen[m], progress[m])'
                                 /\ decoded' \intersect unread' = {}
      BY <2>1 DEF QuestsInv, ReadOk
    <2>5. progress' \in [Members -> [Quests -> Progress]]
      BY <2>1 DEF QuestsInv
    <2> QED
      BY <2>3, <2>4, <2>5 DEF QuestsInv
  <1> QED
    BY <1>1, <1>2, <1>3 DEF WorkspaceNext

-----------------------------------------------------------------------------
(* What an index says *)

\* The index of the quest file is that of a scan, or its compact form.
IndexOf(index, got, with) ==
  \E at : index = Scan(pre, got, with, at) \/ index = Snapshot(Scan(pre, got, with, at))

\* The members whose progress file says that a quest is completed, or has a
\* claimed completion in the place that has the number of the quest.
Listed(got, q) == {m \in Matched(got) : got[m][q].by # <<>> \/ q \in Misread(got[m])}

\* The members whose progress file says that they may claim the reward.
MayClaim(got, q) == {m \in Matched(got) : m \in Range(got[m][q].by) \ got[m][q].claimed}

\* Who has completed a quest, and who may claim, by the files alone.
LEMMA CompletedInFiles ==
  ASSUME NEW got, NEW q \in Quests
  PROVE  CompletedBy(got, q) = Listed(got, q) /\ ClaimStatus(got, q, FALSE) = MayClaim(got, q)
PROOF
  <1>1. ASSUME NEW m \in Matched(got)
        PROVE  /\ ProgressRow(got[m], m, q).completed <=> got[m][q].by # <<>> \/ q \in Misread(got[m])
               /\ ProgressRow(got[m], m, q).known <=> m \in Range(got[m][q].by)
               /\ ProgressRow(got[m], m, q).claimed = FALSE <=> m \notin got[m][q].claimed
    <2>1. ProgressRow(got[m], m, q).completed = (got[m][q].by # <<>> \/ q \in Misread(got[m]))
      BY DEF ProgressRow
    <2>2. ProgressRow(got[m], m, q).known = (m \in Range(got[m][q].by))
      BY DEF ProgressRow
    <2>3. ProgressRow(got[m], m, q).claimed = (m \in got[m][q].claimed)
      BY DEF ProgressRow
    <2>4. ProgressRow(got[m], m, q).completed <=> got[m][q].by # <<>> \/ q \in Misread(got[m])
      BY <2>1, Zenon
    <2>5. ProgressRow(got[m], m, q).known <=> m \in Range(got[m][q].by)
      BY <2>2, Zenon
    <2>6. ProgressRow(got[m], m, q).claimed = FALSE <=> m \notin got[m][q].claimed
      <3> DEFINE value == m \in got[m][q].claimed
      <3>1. value \in BOOLEAN
        OBVIOUS
      <3>2. ProgressRow(got[m], m, q).claimed = value
        BY <2>3
      <3>3. (value = FALSE) <=> ~value
        BY <3>1
      <3> HIDE DEF value
      <3>4. ProgressRow(got[m], m, q).claimed = FALSE <=> ~value
        BY <3>2, <3>3, Zenon
      <3> QED
        BY <3>4 DEF value
    <2> QED
      BY <2>4, <2>5, <2>6
  <1>2. CompletedBy(got, q) = Listed(got, q)
    BY <1>1 DEF CompletedBy, Listed
  <1>3. ASSUME NEW m \in Matched(got), m \in Range(got[m][q].by) PROVE got[m][q].by # <<>>
    BY <1>3 DEF Range
  <1>4. ClaimStatus(got, q, FALSE) = MayClaim(got, q)
    BY <1>1, <1>2, <1>3 DEF ClaimStatus, Listed, MayClaim
  <1> QED
    BY <1>2, <1>4

\* What the planner reads of a quest is what the scan found of it, in the full
\* index as in the compact one.
LEMMA IndexSays ==
  ASSUME NEW index, NEW got, NEW with, IndexOf(index, got, with), NEW q \in Quests
  PROVE  LET loaded == Loaded(index).quests[q]
         IN  /\ loaded.completed = (CompletedBy(got, q) # {})
             /\ loaded.claimableBy = NamesIn(with, ClaimStatus(got, q, FALSE))
             /\ ClaimantIds(loaded) \subseteq {Uuid[m] : m \in ClaimStatus(got, q, FALSE)}
             /\ loaded.pre = pre[q]
             /\ loaded.unlocks \subseteq Quests
             /\ loaded.doneBy = index.quests[q].doneBy
             /\ DOMAIN loaded.doneBy = Tasks[q]
PROOF
  <1> DEFINE full(at) == Scan(pre, got, with, at)
             record == QuestRecord(pre, got, with, q)
             ids == {Uuid[m] : m \in ClaimStatus(got, q, FALSE)}
             says(quest) == /\ quest.completed = (CompletedBy(got, q) # {})
                            /\ quest.claimableBy = NamesIn(with, ClaimStatus(got, q, FALSE))
                            /\ ClaimantIds(quest) \subseteq ids
                            /\ quest.pre = pre[q]
                            /\ quest.unlocks \subseteq Quests
                            /\ DOMAIN quest.doneBy = Tasks[q]
  <1>1. ASSUME NEW at
        PROVE  /\ DOMAIN full(at) = {"version", "at", "matched", "open", "closed", "quests"}
               /\ full(at).quests[q] = record
    BY DEF Scan
  <1>2. says(record)
    BY DEF QuestRecord, Unlocks, ClaimantIds
  <1>3. PICK at : index = full(at) \/ index = Snapshot(full(at))
    BY DEF IndexOf
  <1> DEFINE fields == {"completed", "claimableBy", "pre", "unlocks", "state", "doneBy"}
  <1>4. /\ DOMAIN index = {"version", "at", "matched", "open", "closed", "quests"}
        /\ index.quests[q] = record \/ index.quests[q] = Restrict(record, fields)
    <2>1. CASE index = full(at)
      <3> HIDE DEF full
      <3> QED
        BY <1>1, <2>1
    <2>2. CASE index = Snapshot(full(at))
      <3> DEFINE quests == [r \in Quests |-> Restrict(full(at).quests[r], fields)]
      <3>1. index = [full(at) EXCEPT !.version = 1, !.quests = quests]
        BY <2>2 DEF Snapshot
      <3>2. quests[q] = Restrict(record, fields)
        BY <1>1
      <3> HIDE DEF full, quests, fields, record
      <3> QED
        BY <1>1, <3>1, <3>2
    <2> QED
      BY <1>3, <2>1, <2>2
  <1>5. says(index.quests[q]) /\ {"completed", "claimableBy", "pre", "unlocks", "doneBy"} \subseteq DOMAIN index.quests[q]
    <2>1. {"completed", "claimableBy", "pre", "unlocks", "doneBy"} \subseteq DOMAIN record
      BY DEF QuestRecord
    <2>2. CASE index.quests[q] = record
      BY <1>2, <2>1, <2>2
    <2>3. CASE index.quests[q] = Restrict(record, fields)
      <3>1. says(record)
        BY <1>2
      <3> HIDE DEF record, ids
      <3>2. Restrict(record, fields) = [x \in fields |-> record[x]]
        BY DEF Restrict
      <3>3. index.quests[q] = [x \in fields |-> record[x]]
        BY <2>3, <3>2
      <3>4. ClaimantIds(index.quests[q]) = {}
        BY <3>3 DEF ClaimantIds
      <3> QED
        BY <3>1, <3>3, <3>4
    <2> QED
      BY <1>4, <2>2, <2>3
  <1> DEFINE more(r) == {s \in Quests : r \in index.quests[s].pre}
             quests == [r \in Quests |-> [index.quests[r] EXCEPT !.unlocks = @ \union more(r)]]
             loaded == Loaded(index).quests[q]
  <1>6. Loaded(index) = [index EXCEPT !.quests = quests]
    BY DEF Loaded
  <1>7. loaded = quests[q]
    <2> HIDE DEF quests
    <2> QED
      BY <1>4, <1>6
  <1>8. loaded = [index.quests[q] EXCEPT !.unlocks = @ \union more(q)]
    <2> HIDE DEF more, loaded
    <2> QED
      BY <1>7
  <1>9. more(q) \subseteq Quests
    OBVIOUS
  <1> HIDE DEF more, loaded, quests, ids
  <1>10. /\ loaded.completed = index.quests[q].completed
         /\ loaded.claimableBy = index.quests[q].claimableBy
         /\ ClaimantIds(loaded) = ClaimantIds(index.quests[q])
         /\ loaded.pre = index.quests[q].pre
         /\ loaded.doneBy = index.quests[q].doneBy
         /\ loaded.unlocks \subseteq Quests
    BY <1>5, <1>8, <1>9 DEF ClaimantIds
  <1> QED
    BY <1>5, <1>10 DEF loaded, ids

-----------------------------------------------------------------------------
(* What the planner answers *)

\* The stacks that the counts the planner has loaded stand for.
From == IF totals # Nothing THEN totals.from ELSE itemIndex.stacks

\* A count the planner has loaded is that of the stacks of the item.
LEMMA CountOfKey ==
  ASSUME ItemsInv, NEW k \in Keys
  PROVE  /\ StacksOk(From)
         /\ InventoryCount(k) = Total({s \in From : s.key = k})
         /\ InventoryCount(k) \in Nat
PROOF
  <1>1. StacksOk(From) /\ InventoryCount(k) = OfKind(HitsOf(From, k), Kinds)
    <2>1. CASE totals # Nothing
      BY <2>1 DEF ItemsInv, TotalsOk, From, InventoryCount
    <2>2. CASE ~(totals # Nothing)
      BY <2>2 DEF ItemsInv, IndexOk, From, InventoryCount
    <2> QED
      BY <2>1, <2>2
  <1> DEFINE held == {s \in From : s.key = k /\ Kind[s.holder] \in Kinds}
             of == {s \in From : s.key = k}
  <1>2. InventoryCount(k) = Total(held)
    BY <1>1, OfKindSum
  <1>3. held = of
    BY <1>1, ItemAssumption DEF StacksOk, Stack
  <1>4. Total(of) \in Nat
    BY <1>1, TotalOfPart
  <1>5. Total(held) = Total(of)
    <2> HIDE DEF held, of
    <2> QED
      BY <1>3
  <1> QED
    BY <1>1, <1>2, <1>4, <1>5

\* The counts the planner has loaded are numbers.
LEMMA StockCounts ==
  ASSUME ItemsInv, NEW k \in Keys
  PROVE  StockLoaded.totals[k] = InventoryCount(k) /\ StockLoaded.totals[k] \in Nat
PROOF
  BY CountOfKey DEF StockLoaded

\* The quest file the planner has loaded, in terms of the files of a scan.
LEMMA QuestFileSays ==
  ASSUME QuestsInv, QuestFile # Nothing
  PROVE  \E got :
           /\ ReadOk(got, QuestFile.seen, QuestFile.decoded)
           /\ \A q \in Quests :
                LET quest == Loaded(QuestFile.index).quests[q]
                IN  /\ quest.completed <=> Listed(got, q) # {}
                    /\ quest.claimableBy = NamesIn(QuestFile.named, MayClaim(got, q))
                    /\ ClaimantIds(quest) \subseteq {Uuid[m] : m \in MayClaim(got, q)}
                    /\ quest.pre = pre[q]
                    /\ quest.unlocks \subseteq Quests
                    /\ quest.doneBy = QuestFile.index.quests[q].doneBy
                    /\ DOMAIN quest.doneBy = Tasks[q]
PROOF
  <1>1. MadeByScan(QuestFile) \/ MadeCompact(QuestFile)
    BY DEF QuestsInv, QuestFile
  <1>2. PICK got : /\ ReadOk(got, QuestFile.seen, QuestFile.decoded)
                   /\ IndexOf(QuestFile.index, got, QuestFile.named)
    BY <1>1 DEF MadeByScan, MadeCompact, IndexOf
  <1>3. ASSUME NEW q \in Quests
        PROVE  LET quest == Loaded(QuestFile.index).quests[q]
               IN  /\ quest.completed <=> Listed(got, q) # {}
                   /\ quest.claimableBy = NamesIn(QuestFile.named, MayClaim(got, q))
                   /\ ClaimantIds(quest) \subseteq {Uuid[m] : m \in MayClaim(got, q)}
                   /\ quest.pre = pre[q]
                   /\ quest.unlocks \subseteq Quests
                   /\ quest.doneBy = QuestFile.index.quests[q].doneBy
                   /\ DOMAIN quest.doneBy = Tasks[q]
    <2> DEFINE quest == Loaded(QuestFile.index).quests[q]
    <2>1. /\ quest.completed = (CompletedBy(got, q) # {})
          /\ quest.claimableBy = NamesIn(QuestFile.named, ClaimStatus(got, q, FALSE))
          /\ ClaimantIds(quest) \subseteq {Uuid[m] : m \in ClaimStatus(got, q, FALSE)}
          /\ quest.pre = pre[q]
          /\ quest.unlocks \subseteq Quests
          /\ quest.doneBy = QuestFile.index.quests[q].doneBy
          /\ DOMAIN quest.doneBy = Tasks[q]
      BY <1>2, IndexSays, Zenon
    <2>2. CompletedBy(got, q) = Listed(got, q) /\ ClaimStatus(got, q, FALSE) = MayClaim(got, q)
      BY CompletedInFiles
    <2> HIDE DEF quest
    <2>3. quest.completed <=> Listed(got, q) # {}
      BY <2>1, <2>2, Zenon
    <2>4. /\ quest.claimableBy = NamesIn(QuestFile.named, MayClaim(got, q))
          /\ ClaimantIds(quest) \subseteq {Uuid[m] : m \in MayClaim(got, q)}
      BY <2>1, <2>2
    <2> QED
      BY <2>1, <2>3, <2>4 DEF quest
  <1> QED
    BY <1>2, <1>3

\* The index the planner has loaded.
LoadedIndex == Loaded(QuestFile.index)

\* The loaded index has the quests and tasks of the database.
LEMMA LoadedShape ==
  ASSUME QuestsInv, QuestFile # Nothing
  PROVE  IndexShape(LoadedIndex)
PROOF
  <1>1. \A q \in Quests : /\ LoadedIndex.quests[q].unlocks \subseteq Quests
                          /\ DOMAIN LoadedIndex.quests[q].doneBy = Tasks[q]
    BY QuestFileSays DEF LoadedIndex
  <1> QED
    BY <1>1 DEF IndexShape

\* The answer holds candidates: all of them, or as many as a plan may have.
LEMMA AnswerHolds ==
  ASSUME ItemsInv, QuestsInv, QuestFile # Nothing, NEW request
  PROVE  LET all == Candidates(LoadedIndex, StockLoaded, hour, request)
         IN  /\ Answer(request) \subseteq all
             /\ Answer(request) = all \/ Full(Answer(request))
PROOF
  <1> DEFINE all == Candidates(LoadedIndex, StockLoaded, hour, request)
  <1>1. Comparable(all)
    BY LoadedShape, StockCounts, CandidatesComparable
  <1>2. Plan(LoadedIndex, StockLoaded, hour, request, Limit) = FirstOnes(all, Limit)
    BY DEF Plan, FirstOnes
  <1>3. Answer(request) = Range(FirstOnes(all, Limit))
    BY <1>2 DEF Answer, LoadedIndex
  <1>4. Limit \in Nat
    BY WorkspaceAssumption
  <1> HIDE DEF all
  <1>5. /\ Range(FirstOnes(all, Limit)) \subseteq all
        /\ Range(FirstOnes(all, Limit)) = all \/ Cardinality(Range(FirstOnes(all, Limit))) = Limit
    BY <1>1, <1>4, FirstOnesOf
  <1>6. Answer(request) \subseteq all /\ (Answer(request) = all \/ Full(Answer(request)))
    BY <1>3, <1>5 DEF Full
  <1> QED
    BY <1>6 DEF all

\* A quest of the answer is an eligible quest of the index.
LEMMA AnsweredQuest ==
  ASSUME ItemsInv, QuestsInv, QuestFile # Nothing, NEW request,
         NEW c \in Answer(request), c.source = "questbook"
  PROVE  /\ c.id \in Quests /\ Eligible(LoadedIndex, c.id, request)
         /\ c = EvaluateQuest(LoadedIndex, StockLoaded, hour, c.id, request)
         /\ c.state = "completed_unclaimed" <=> LoadedIndex.quests[c.id].completed
PROOF
  <1> DEFINE quests == QuestOnes(LoadedIndex, StockLoaded, hour, request)
             tasks == IF request.tier # Nothing THEN {} ELSE TaskOnes(request)
  <1>1. c \in Candidates(LoadedIndex, StockLoaded, hour, request)
    BY AnswerHolds
  <1>2. c \in quests \/ c \in tasks
    BY <1>1 DEF Candidates, QuestOnes, TaskOnes
  <1>3. c \notin tasks
    BY TaskOnesShape
  <1>4. c \in quests
    BY <1>2, <1>3
  <1>5. /\ c.id \in Quests /\ Eligible(LoadedIndex, c.id, request)
        /\ c = EvaluateQuest(LoadedIndex, StockLoaded, hour, c.id, request)
    <2> HIDE DEF tasks
    <2> QED
      BY <1>4, LoadedShape, StockCounts, QuestOnesShape
  <1>6. EffectiveState(LoadedIndex, c.id) = "completed_unclaimed" => LoadedIndex.quests[c.id].completed
    BY DEF EffectiveState
  <1>7. c.state = IF LoadedIndex.quests[c.id].completed THEN "completed_unclaimed"
                  ELSE EffectiveState(LoadedIndex, c.id)
    <2>1. \A q : EvaluateQuest(LoadedIndex, StockLoaded, hour, q, request).state =
                   IF LoadedIndex.quests[q].completed THEN "completed_unclaimed"
                   ELSE EffectiveState(LoadedIndex, q)
      BY DEF EvaluateQuest
    <2> HIDE DEF quests, tasks
    <2> QED
      BY <1>5, <2>1
  <1> HIDE DEF quests, tasks
  <1> QED
    BY <1>5, <1>6, <1>7

\* An eligible quest is in the answer, unless that is full.
LEMMA EligibleAnswered ==
  ASSUME ItemsInv, QuestsInv, QuestFile # Nothing, NEW request,
         NEW q \in Quests, Eligible(LoadedIndex, q, request), ~Full(Answer(request))
  PROVE  \E c \in Answer(request) :
           /\ c.source = "questbook" /\ c.id = q
           /\ c.state = "completed_unclaimed" <=> LoadedIndex.quests[q].completed
PROOF
  <1> DEFINE c == EvaluateQuest(LoadedIndex, StockLoaded, hour, q, request)
  <1>1. c \in QuestOnes(LoadedIndex, StockLoaded, hour, request)
    BY DEF QuestOnes
  <1>2. c \in Candidates(LoadedIndex, StockLoaded, hour, request)
    BY <1>1 DEF Candidates, QuestOnes
  <1>3. c \in Answer(request)
    BY <1>2, AnswerHolds
  <1>4. c.source = "questbook" /\ c.id = q
    BY DEF EvaluateQuest
  <1> HIDE DEF c
  <1>5. c.state = "completed_unclaimed" <=> LoadedIndex.quests[q].completed
    BY <1>3, <1>4, AnsweredQuest
  <1> QED
    BY <1>3, <1>4, <1>5

\* Of the files a scan has, those that say anything have been decoded.
LEMMA SaysDecoded ==
  ASSUME NEW got, NEW before, NEW intact, ReadOk(got, before, intact),
         NEW q \in Quests, NEW m \in Matched(got)
  PROVE  got[m][q].by # <<>> \/ q \in Misread(got[m]) => m \in intact
PROOF
  <1> SUFFICES ASSUME m \notin intact PROVE got[m][q].by = <<>> /\ q \notin Misread(got[m])
    OBVIOUS
  <1>1. got[m] = Blank
    BY DEF ReadOk, Matched
  <1>2. \A r \in Quests : Blank[r].by = <<>>
    BY DEF Blank, NoProgress
  <1>3. q \notin Misread(Blank)
    BY <1>2 DEF Misread
  <1> QED
    BY <1>1, <1>2, <1>3

\* What is listed, and what is misread, stays so.
LEMMA ListedLater ==
  ASSUME NEW old, NEW new, FileOk(old), FileOk(new), Within(old, new), NEW q \in Quests
  PROVE  /\ old[q].by # <<>> => new[q].by # <<>>
         /\ q \in Misread(old) => q \in Misread(new)
         /\ Range(old[q].by) \subseteq Range(new[q].by)
PROOF
  <1>1. \A r \in Quests : old[r].by \in Seq(Members) /\ new[r].by \in Seq(Members)
    BY DEF FileOk, Progress
  <1>2. ASSUME old[q].by # <<>> PROVE new[q].by # <<>>
    <2>1. 1 \in DOMAIN old[q].by
      BY <1>1, <1>2
    <2>2. 1 \in DOMAIN new[q].by
      BY <2>1 DEF Within
    <2> QED
      BY <2>2
  <1>3. ASSUME q \in Misread(old) PROVE q \in Misread(new)
    <2>1. PICK r \in Quests : \E i \in DOMAIN old[r].by : old[r].by[i] \in old[r].claimed /\ q = i - 1
      BY <1>3 DEF Misread
    <2>2. PICK i \in DOMAIN old[r].by : old[r].by[i] \in old[r].claimed /\ q = i - 1
      BY <2>1
    <2>3. i \in DOMAIN new[r].by /\ new[r].by[i] \in new[r].claimed
      BY <2>2 DEF Within
    <2> QED
      BY <2>2, <2>3 DEF Misread
  <1>4. Range(old[q].by) \subseteq Range(new[q].by)
    BY DEF Within, Range
  <1> QED
    BY <1>2, <1>3, <1>4

\* What a scan has read as completed is completed in the game, or is misread.
LEMMA DoneNow ==
  ASSUME QuestsInv, NEW got, NEW before, NEW intact, ReadOk(got, before, intact),
         NEW q \in Quests, Listed(got, q) # {}
  PROVE  Done(progress, q) \/ Mistaken(q)
PROOF
  <1>1. PICK m \in Matched(got) : got[m][q].by # <<>> \/ q \in Misread(got[m])
    BY DEF Listed
  <1>2. m \in intact /\ m \in Members
    BY <1>1, SaysDecoded DEF Matched
  <1>3. FileOk(got[m]) /\ FileOk(progress[m]) /\ Within(got[m], progress[m])
    BY <1>2 DEF QuestsInv, ReadOk, FileOk
  <1>4. progress[m][q].by # <<>> \/ q \in Misread(progress[m])
    BY <1>1, <1>3, ListedLater
  <1> QED
    BY <1>2, <1>4 DEF Done, Mistaken

\* What was done before the scan in a file that was decoded has been read.
LEMMA DoneThen ==
  ASSUME NEW got, NEW before, NEW intact, ReadOk(got, before, intact),
         NEW q \in Quests, NEW m \in intact, before[m][q].by # <<>>
  PROVE  Listed(got, q) # {}
PROOF
  <1>1. m \in Members /\ got[m] # NoFile /\ FileOk(before[m]) /\ FileOk(got[m]) /\ Within(before[m], got[m])
    BY DEF ReadOk
  <1>2. got[m][q].by # <<>>
    BY <1>1, ListedLater
  <1> QED
    BY <1>1, <1>2 DEF Listed, Matched

\* The plan, of one request.
PlanFits(request) ==
  LET answer == Answer(request)
      open == {c.id : c \in OpenOnes(answer)}
  IN  /\ \A q \in open : \A p \in pre[q] : p \in Quests /\ (Done(progress, p) \/ Mistaken(p))
      /\ QuestFile # Nothing => \A q \in Quests :
           /\ q \in open => ~FoundDone(q)
           /\ /\ ~Done(progress, q) /\ ~Mistaken(q)
              /\ \A p \in pre[q] : p \in Quests /\ FoundDone(p)
              /\ request.tier = Nothing \/ Line[q] \in request.tier
              => q \in open \/ Full(answer)

\* The plan for a request is exact.
LEMMA PlanOfRequest ==
  ASSUME ItemsInv, QuestsInv, QuestFile # Nothing, NEW request
  PROVE  PlanFits(request)
PROOF
  <1> DEFINE answer == Answer(request)
             open == {c.id : c \in OpenOnes(answer)}
             quest(q) == LoadedIndex.quests[q]
  <1>1. PICK got :
          /\ ReadOk(got, QuestFile.seen, QuestFile.decoded)
          /\ \A q \in Quests : /\ quest(q).completed <=> Listed(got, q) # {}
                               /\ quest(q).pre = pre[q]
    BY QuestFileSays DEF LoadedIndex
  <1>2. ASSUME NEW q \in open
        PROVE  q \in Quests /\ ~quest(q).completed /\ Eligible(LoadedIndex, q, request)
    <2>1. PICK c \in answer : c.source = "questbook" /\ c.state # "completed_unclaimed" /\ q = c.id
      BY DEF OpenOnes
    <2>2. /\ c.id \in Quests /\ Eligible(LoadedIndex, c.id, request)
          /\ c.state = "completed_unclaimed" <=> LoadedIndex.quests[c.id].completed
      BY <2>1, AnsweredQuest
    <2> QED
      BY <2>1, <2>2
  <1>3. ASSUME NEW q \in open, NEW p \in pre[q]
        PROVE  p \in Quests /\ (Done(progress, p) \/ Mistaken(p))
    <2>1. q \in Quests /\ ~quest(q).completed /\ Eligible(LoadedIndex, q, request)
      BY <1>2
    <2>2. Blocked(LoadedIndex, q) = {}
      BY <2>1 DEF Eligible
    <2>3. p \in Quests /\ quest(p).completed
      BY <1>1, <1>3, <2>1, <2>2 DEF Blocked
    <2> QED
      BY <1>1, <2>3, DoneNow
  <1>4. ASSUME NEW q \in Quests, FoundDone(q) PROVE quest(q).completed
    <2>1. PICK m \in QuestFile.decoded : QuestFile.seen[m][q].by # <<>>
      BY <1>4 DEF FoundDone
    <2>2. Listed(got, q) # {}
      BY <1>1, <2>1, DoneThen
    <2> QED
      BY <1>1, <2>2
  <1>5. ASSUME NEW q \in Quests, q \in open PROVE ~FoundDone(q)
    BY <1>2, <1>4, <1>5
  <1>6. ASSUME NEW q \in Quests, ~Done(progress, q), ~Mistaken(q),
               \A p \in pre[q] : p \in Quests /\ FoundDone(p),
               request.tier = Nothing \/ Line[q] \in request.tier, ~Full(answer)
        PROVE  q \in open
    <2>1. ~quest(q).completed
      BY <1>1, <1>6, DoneNow
    <2>2. Blocked(LoadedIndex, q) = {}
      BY <1>1, <1>4, <1>6 DEF Blocked
    <2>3. Eligible(LoadedIndex, q, request)
      BY <1>6, <2>1, <2>2 DEF Eligible
    <2>4. PICK c \in answer : /\ c.source = "questbook" /\ c.id = q
                              /\ c.state = "completed_unclaimed" <=> quest(q).completed
      BY <1>6, <2>3, EligibleAnswered
    <2> QED
      BY <2>1, <2>4 DEF OpenOnes
  <1> QED
    BY <1>3, <1>5, <1>6 DEF PlanFits

\* The rewards, of one request.
RewardsFit(request) ==
  LET answer == Answer(request)
      rewards == {c.id : c \in Rewards(answer)}
  IN  /\ \A q \in rewards : \E m \in Meant(request.user) :
           m \in Range(progress[m][q].by) \ QuestFile.seen[m][q].claimed
      /\ request.claims /\ request.tier = Nothing /\ QuestFile # Nothing =>
           \A m \in Asking(request.user), q \in Quests :
             m \in Range(QuestFile.seen[m][q].by) \ progress[m][q].claimed =>
               q \in rewards \/ Full(answer)

\* The rewards for a request are exact.
LEMMA RewardsOfRequest ==
  ASSUME ItemsInv, QuestsInv, QuestFile # Nothing, NEW request
  PROVE  RewardsFit(request)
PROOF
  <1> DEFINE answer == Answer(request)
             rewards == {c.id : c \in Rewards(answer)}
             user == request.user
             seenOf == QuestFile.seen
             quest(q) == LoadedIndex.quests[q]
  <1>1. PICK got :
          /\ ReadOk(got, seenOf, QuestFile.decoded)
          /\ \A q \in Quests : /\ quest(q).completed <=> Listed(got, q) # {}
                               /\ quest(q).claimableBy = NamesIn(QuestFile.named, MayClaim(got, q))
                               /\ ClaimantIds(quest(q)) \subseteq {Uuid[m] : m \in MayClaim(got, q)}
    BY QuestFileSays DEF LoadedIndex
  <1>2. ASSUME NEW m \in QuestFile.decoded, NEW q \in Quests
        PROVE  /\ m \in Members /\ m \in Matched(got)
               /\ Range(seenOf[m][q].by) \subseteq Range(got[m][q].by)
               /\ Range(got[m][q].by) \subseteq Range(progress[m][q].by)
               /\ seenOf[m][q].claimed \subseteq got[m][q].claimed
               /\ got[m][q].claimed \subseteq progress[m][q].claimed
    <2>1. /\ m \in Members /\ got[m] # NoFile /\ FileOk(got[m]) /\ FileOk(seenOf[m])
          /\ Within(seenOf[m], got[m]) /\ Within(got[m], progress[m])
      BY <1>1 DEF ReadOk
    <2>2. FileOk(progress[m])
      BY <2>1 DEF QuestsInv, FileOk
    <2>3. /\ Range(seenOf[m][q].by) \subseteq Range(got[m][q].by)
          /\ Range(got[m][q].by) \subseteq Range(progress[m][q].by)
      BY <2>1, <2>2, ListedLater
    <2> QED
      BY <2>1, <2>3 DEF Within, Matched
  <1>3. ASSUME NEW q \in rewards
        PROVE  \E m \in Meant(user) : m \in Range(progress[m][q].by) \ seenOf[m][q].claimed
    <2>1. PICK c \in answer : c.source = "questbook" /\ c.state = "completed_unclaimed" /\ q = c.id
      BY DEF Rewards
    <2>2. q \in Quests /\ Eligible(LoadedIndex, q, request) /\ quest(q).completed
      BY <2>1, AnsweredQuest
    <2>3. user \in quest(q).claimableBy \union ClaimantIds(quest(q))
      BY <2>2 DEF Eligible, Claimable
    <2>4. PICK m \in MayClaim(got, q) : user \in {NameIn(QuestFile.named, m), Uuid[m]}
      BY <1>1, <2>2, <2>3 DEF NamesIn
    <2>5. m \in Matched(got) /\ m \in Range(got[m][q].by) \ got[m][q].claimed
      BY DEF MayClaim
    <2>6. got[m][q].by # <<>>
      BY <2>5 DEF Range
    <2>7. m \in QuestFile.decoded
      BY <1>1, <2>2, <2>5, <2>6, SaysDecoded
    <2>8. m \in Meant(user)
      BY <2>4, <2>7 DEF Meant
    <2> QED
      BY <1>2, <2>2, <2>5, <2>7, <2>8
  <1>4. ASSUME request.claims, request.tier = Nothing, NEW m \in Asking(user), NEW q \in Quests,
               m \in Range(seenOf[m][q].by) \ progress[m][q].claimed, ~Full(answer)
        PROVE  q \in rewards
    <2>1. m \in QuestFile.decoded /\ NameIn(QuestFile.named, m) = user
      BY DEF Asking
    <2>2. m \in Members /\ m \in MayClaim(got, q)
      BY <1>2, <1>4, <2>1 DEF MayClaim
    <2>3. user \in quest(q).claimableBy
      BY <1>1, <2>1, <2>2 DEF NamesIn
    <2>4. quest(q).completed
      <3>1. m \in Matched(got) /\ got[m][q].by # <<>>
        BY <2>2 DEF MayClaim, Range
      <3>2. Listed(got, q) # {}
        BY <3>1 DEF Listed
      <3> QED
        BY <1>1, <3>2
    <2>5. user # NoPlayer
      BY <2>1, <2>2, PlannerAssumption DEF NameIn
    <2>6. Eligible(LoadedIndex, q, request)
      BY <1>4, <2>3, <2>4, <2>5 DEF Eligible, Claimable
    <2>7. PICK c \in answer : /\ c.source = "questbook" /\ c.id = q
                              /\ c.state = "completed_unclaimed" <=> quest(q).completed
      BY <1>4, <2>6, EligibleAnswered
    <2> QED
      BY <2>4, <2>7 DEF Rewards
  <1> QED
    BY <1>3, <1>4 DEF RewardsFit

\* Plans and rewards are exact in every state the invariants allow.
LEMMA QuestsExact ==
  ASSUME ItemsInv, QuestsInv
  PROVE  PlanExact /\ ClaimsExact
PROOF
  <1>1. ASSUME NEW request PROVE PlanFits(request) /\ RewardsFit(request)
    <2>1. CASE QuestFile # Nothing
      BY <2>1, PlanOfRequest, RewardsOfRequest
    <2>2. CASE QuestFile = Nothing
      <3>1. OpenOnes(Answer(request)) = {} /\ Rewards(Answer(request)) = {}
        BY <2>2 DEF OpenOnes, Rewards, Answer
      <3> QED
        BY <2>2, <3>1 DEF PlanFits, RewardsFit
    <2> QED
      BY <2>1, <2>2
  <1> QED
    BY <1>1 DEF PlanExact, ClaimsExact, PlanFits, RewardsFit

-----------------------------------------------------------------------------
(* Materials *)

\* What is available of an item is what was held of its keys.
LEMMA AvailableHeld ==
  ASSUME ItemsInv, NEW item \in QuestItems
  PROVE  SumFunction([k \in KeysOf[item] |-> StockLoaded.totals[k]]) =
           Total({s \in From : s.key \in KeysOf[item]})
PROOF
  <1> DEFINE K == KeysOf[item]
             g == [k \in K |-> StockLoaded.totals[k]]
             f == Counts(From)
             part == [s \in From |-> s.key]
             held == {s \in From : s.key \in K}
             of(k) == {s \in From : s.key = k}
  <1>1. K \subseteq Keys /\ IsFiniteSet(K)
    BY KeysOfItem
  <1>2. StacksOk(From) \/ K = {}
    BY <1>1, CountOfKey
  <1>3. CASE K = {}
    <2>1. held = {} /\ SumFunction(g) = SumFunctionOnSet(g, {})
      BY <1>3 DEF SumFunction
    <2>2. SumFunction(g) = 0
      BY <2>1, SumEmpty
    <2>3. Total({}) = 0
      <3>1. Total({}) = SumFunctionOnSet([s \in {} |-> s.count], {})
        BY DEF Total, SumFunction
      <3> QED
        BY <3>1, SumEmpty
    <2>4. Total(held) = Total({})
      <3> HIDE DEF held
      <3> QED
        BY <2>1
    <2> QED
      BY <2>2, <2>3, <2>4
  <1>4. CASE StacksOk(From)
    <2>1. IsFiniteSet(From) /\ \A s \in From : f[s] \in Int
      BY <1>4, TotalOfPart DEF StacksOk
    <2>2. ASSUME NEW k \in K PROVE g[k] = SumFunctionOnSet(f, PartOf(From, part, k))
      <3>1. g[k] = Total(of(k))
        BY <1>1, StockCounts, CountOfKey
      <3>2. of(k) = PartOf(From, part, k)
        BY DEF PartOf
      <3>3. Total(of(k)) = SumFunctionOnSet(f, of(k))
        BY <1>4, TotalOfPart
      <3>4. SumFunctionOnSet(f, of(k)) = SumFunctionOnSet(f, PartOf(From, part, k))
        <4> HIDE DEF of, f, part
        <4> QED
          BY <3>2
      <3> HIDE DEF of, f, part, g
      <3> QED
        BY <3>1, <3>3, <3>4
    <2>3. SumFunctionOnSet(g, K) = SumFunctionOnSet(f, PartsOf(From, part, K))
      <3> HIDE DEF g, f, part, K
      <3> QED
        BY <1>1, <2>1, <2>2, SumParts
    <2>4. held = PartsOf(From, part, K)
      BY DEF PartsOf
    <2>5. Total(held) = SumFunctionOnSet(f, held)
      BY <1>4, TotalOfPart
    <2>6. SumFunctionOnSet(f, held) = SumFunctionOnSet(f, PartsOf(From, part, K))
      <3> HIDE DEF held, f, part
      <3> QED
        BY <2>4
    <2>7. SumFunction(g) = SumFunctionOnSet(g, K)
      BY DEF SumFunction
    <2> HIDE DEF held, g, f, part, K
    <2>8. SumFunction(g) = Total(held)
      BY <2>3, <2>5, <2>6, <2>7
    <2> QED
      BY <2>8 DEF held, g, K
  <1> HIDE DEF held, g, f, part, K
  <1> QED
    BY <1>2, <1>3, <1>4

\* The planner never asks for less than is needed.
LEMMA NeededAtMost ==
  ASSUME NEW q \in Quests, NEW quest, NEW user, NEW identity
  PROVE  /\ Needed(OpenTasks(q, quest, user), identity) \in Int
         /\ Needed(OpenTasks(q, quest, user), identity) <= Required(q, quest, user, identity)
PROOF
  <1> DEFINE open == OpenTasks(q, quest, user)
             of(t) == SumFunction([item \in Wanted(t, identity) |-> item.count])
             f == [t \in open |-> of(t)]
             g == [t \in open |-> AskedFor(t, identity)]
  <1>1. Needed(open, identity) = SumFunctionOnSet(f, open)
    BY DEF Needed, Wanted, SumFunction
  <1>2. Required(q, quest, user, identity) = SumFunctionOnSet(g, open)
    BY RequiredNat
  <1>3. IsFiniteSet(open) /\ open \subseteq Tasks[q]
    BY QuestAssumption, FS_Subset DEF OpenTasks
  <1>4. ASSUME NEW t \in open PROVE f[t] \in Int /\ g[t] \in Int /\ f[t] <= g[t]
    <2> DEFINE wanted == Wanted(t, identity)
               a == [item \in wanted |-> item.count]
               b == [item \in wanted |-> AtLeastOne(item.count)]
    <2>1. t \in Tasks[q]
      BY <1>3
    <2>2. IsFiniteSet(wanted) /\ \A item \in wanted : item.count \in Nat
      BY <2>1, TaskNeeds, FS_Subset DEF Wanted
    <2>3. \A item \in wanted : a[item] \in Int /\ b[item] \in Int /\ a[item] <= b[item]
      BY <2>2 DEF AtLeastOne
    <2>4. of(t) = SumFunctionOnSet(a, wanted) /\ AskedFor(t, identity) = SumFunctionOnSet(b, wanted)
      BY DEF SumFunction, AskedFor
    <2>5. /\ SumFunctionOnSet(a, wanted) \in Int /\ SumFunctionOnSet(b, wanted) \in Int
          /\ SumFunctionOnSet(a, wanted) <= SumFunctionOnSet(b, wanted)
      <3> HIDE DEF a, b, wanted
      <3> QED
        BY <2>2, <2>3, SumInt, SumMonotone
    <2>6. f[t] = of(t) /\ g[t] = AskedFor(t, identity)
      OBVIOUS
    <2> HIDE DEF f, g, of, a, b, wanted
    <2> QED
      BY <2>4, <2>5, <2>6
  <1>5. SumFunctionOnSet(f, open) \in Int /\ SumFunctionOnSet(f, open) <= SumFunctionOnSet(g, open)
    <2> HIDE DEF f, g, open
    <2> QED
      BY <1>3, <1>4, SumInt, SumMonotone
  <1> HIDE DEF f, g
  <1> QED
    BY <1>1, <1>2, <1>5

\* What one quest needs is there, when none of its materials is short.
LEMMA ReadyOfQuest ==
  ASSUME ItemsInv, QuestsInv, NEW request, NEW c \in OpenOnes(Answer(request)),
         \A m \in c.materials : ~Short(m)
  PROVE  LET open == {t \in Tasks[c.id] :
                        ~TaskDoneFor(QuestFile.index.quests[c.id], t, request.user)}
         IN  \A item \in UNION {Needs[t] : t \in open} :
               Needed(open, Identity[item]) <= Total({s \in From : s.key \in KeysOf[item]})
PROOF
  <1> DEFINE quest == LoadedIndex.quests[c.id]
             user == request.user
             count == StockLoaded.totals
             open == {t \in Tasks[c.id] :
                        ~TaskDoneFor(QuestFile.index.quests[c.id], t, request.user)}
  <1>1. c \in Answer(request) /\ c.source = "questbook" /\ QuestFile # Nothing
    BY DEF OpenOnes, Answer
  <1>2. /\ c.id \in Quests /\ c = EvaluateQuest(LoadedIndex, StockLoaded, hour, c.id, request)
        /\ quest.doneBy = QuestFile.index.quests[c.id].doneBy
    BY <1>1, AnsweredQuest, QuestFileSays DEF LoadedIndex
  <1>3. c.materials = Materials(c.id, quest, user, count)
    <2>1. \A q : EvaluateQuest(LoadedIndex, StockLoaded, hour, q, request).materials =
                   Materials(q, LoadedIndex.quests[q], user, count)
      BY DEF EvaluateQuest
    <2> QED
      BY <1>2, <2>1
  <1>4. open = OpenTasks(c.id, quest, user)
    BY <1>2 DEF OpenTasks, TaskDoneFor
  <1>5. ASSUME NEW item \in UNION {Needs[t] : t \in open}
        PROVE  Needed(open, Identity[item]) <= Total({s \in From : s.key \in KeysOf[item]})
    <2> DEFINE m == MaterialOf(c.id, quest, user, count, item)
               held == Total({s \in From : s.key \in KeysOf[item]})
               required == Required(c.id, quest, user, Identity[item])
    <2>1. item \in ItemsOf(c.id, quest, user)
      BY <1>4 DEF ItemsOf
    <2>2. item \in QuestItems
      BY <1>2, <2>1, ItemsFinite
    <2>3. \A k \in Keys : count[k] \in Nat
      BY StockCounts
    <2>4. m \in c.materials /\ m.required \in Nat /\ m.available \in Nat
      <3>1. /\ Materials(c.id, quest, user, count) =
                 {MaterialOf(c.id, quest, user, count, i) : i \in ItemsOf(c.id, quest, user)}
            /\ \A n \in Materials(c.id, quest, user, count) :
                 n.required \in Nat /\ n.required >= 1 /\ n.available \in Nat
        <4> HIDE DEF quest, user, count
        <4> QED
          BY <1>2, <2>3, MaterialsShape
      <3>2. m \in c.materials
        <4> HIDE DEF quest, user, count
        <4> QED
          BY <1>3, <2>1, <3>1
      <3> HIDE DEF m, quest, user, count
      <3> QED
        BY <1>3, <3>1, <3>2
    <2>5. m.required = required /\ m.available = SumFunction([k \in KeysOf[item] |-> count[k]])
      BY DEF MaterialOf
    <2>6. m.available = held
      BY <2>2, <2>5, AvailableHeld
    <2>7. m.required <= m.available
      <3> HIDE DEF m
      <3> QED
        BY <2>4 DEF Short
    <2>8. /\ Needed(OpenTasks(c.id, quest, user), Identity[item]) \in Int
          /\ Needed(OpenTasks(c.id, quest, user), Identity[item]) <= required
      BY <1>2, NeededAtMost
    <2>9. Needed(open, Identity[item]) = Needed(OpenTasks(c.id, quest, user), Identity[item])
      <3> HIDE DEF open, quest, user
      <3> QED
        BY <1>4
    <2> HIDE DEF m, held, required, open, quest, user
    <2>10. Needed(open, Identity[item]) <= held
      BY <2>4, <2>5, <2>6, <2>7, <2>8, <2>9
    <2> QED
      BY <2>10 DEF held
  <1> QED
    BY <1>5

\* No plan calls a quest ready that is not.
LEMMA ReadyIsReady ==
  ASSUME ItemsInv, QuestsInv
  PROVE  ReadyMaterials
PROOF
  BY ReadyOfQuest DEF ReadyMaterials, From

-----------------------------------------------------------------------------
(* The theorems *)

\* The invariants of the item files and of the quest files.
WorkspaceInv == ItemsInv /\ QuestsInv

\* They hold in every state.
LEMMA WorkspaceInvHolds == WorkspaceSpec => []WorkspaceInv
PROOF
  <1>1. WorkspaceInit => WorkspaceInv
    BY ItemsInit, QuestsInit DEF WorkspaceInv
  <1>2. WorkspaceInv /\ [WorkspaceNext]_vars => WorkspaceInv'
    BY ItemsStep, QuestsStep DEF WorkspaceInv
  <1> QED
    BY <1>1, <1>2, PTL DEF WorkspaceSpec

\* A plan recommends as open only quests whose prerequisites are completed or are
\* misread, no quest that a decoded file showed as completed when the scan began,
\* and, as far as the limit goes, every open one whose prerequisites such files
\* showed as completed.
THEOREM PlansAreExact == WorkspaceSpec => []PlanExact
PROOF
  <1>1. WorkspaceInv => PlanExact
    BY QuestsExact DEF WorkspaceInv
  <1> QED
    BY <1>1, WorkspaceInvHolds, PTL

\* A reward is offered only to a player who has completed the quest and had not
\* claimed it before the scan; every such reward of a player whose file was decoded
\* is, as far as the limit goes, to whoever asks by what the index calls them.
THEOREM ClaimsAreExact == WorkspaceSpec => []ClaimsExact
PROOF
  <1>1. WorkspaceInv => ClaimsExact
    BY QuestsExact DEF WorkspaceInv
  <1> QED
    BY <1>1, WorkspaceInvHolds, PTL

\* A quest is not called ready while its open tasks together need more of an
\* item than was counted of it.
THEOREM ReadyMeansReady == WorkspaceSpec => []ReadyMaterials
PROOF
  <1>1. WorkspaceInv => ReadyMaterials
    BY ReadyIsReady DEF WorkspaceInv
  <1> QED
    BY <1>1, WorkspaceInvHolds, PTL

\* What the commands of inventory-query say is so of the stacks and blocks that
\* were scanned.
THEOREM AnswersAreTrue == WorkspaceSpec => []AnswersTrue
PROOF
  <1>1. ItemsInv => AnswersTrue
    BY CountsTrue, LookupsAreTrue, BlocksAreTrue, CraftingIsTrue DEF AnswersTrue
  <1> QED
    BY <1>1, WorkspaceInvHolds, PTL DEF WorkspaceInv

-----------------------------------------------------------------------------
(* The shared memory: transactions *)

States == {"idle", "waiting", "locked", "loaded", "done", "failed"}

\* The part of the type that the argument needs: the documents themselves
\* may be anything.
Shape ==
  /\ holder \in Procs \union {Nobody}
  /\ pc \in [Procs -> States]
  /\ DOMAIN doc = Procs /\ doc = [p \in Procs |-> doc[p]]

\* Inductive: while one caller holds the lock no other one replaces the file,
\* so what the holder has loaded stays current.
TransactionInv == Shape /\ LockHeld /\ LoadedIsCurrent

USE NobodyIsNoProc DEF Shape, LockHeld, LoadedIsCurrent, TransactionInv, States, Goto

\* The invariant holds initially.
LEMMA TransactionInit == Init => TransactionInv
PROOF
  BY DEF Init, LockInit

\* No step breaks the invariant.
LEMMA TransactionStep == TransactionInv /\ [Next]_storeVars => TransactionInv'
PROOF
  <1> SUFFICES ASSUME TransactionInv, [Next]_storeVars PROVE TransactionInv'
    OBVIOUS
  <1>1. CASE Tick
    BY <1>1 DEF Tick
  <1>2. ASSUME NEW p \in Procs, NEW o \in Ops, Call(p, o) PROVE TransactionInv'
    BY <1>2 DEF Call
  <1>3. ASSUME NEW p \in Procs, TakeLock(p) PROVE TransactionInv'
    BY <1>3 DEF TakeLock, Acquire
  <1>4. ASSUME NEW p \in Procs, Load(p) PROVE TransactionInv'
    BY <1>4 DEF Load
  <1>5. ASSUME NEW p \in Procs, Save(p) PROVE TransactionInv'
    \* The holder leaves "loaded"; nobody else is there.
    <2>1. pc' \in [Procs -> States] /\ pc'[p] \in {"done", "failed"}
      BY <1>5 DEF Save, SaveRemembered, SaveForgotten, ForgetUnknown, SaveUnexpired
    <2>2. \A q \in Procs \ {p} : pc'[q] = pc[q] /\ pc[q] # "loaded"
      BY <1>5 DEF Save, SaveRemembered, SaveForgotten, ForgetUnknown, SaveUnexpired
    <2> QED
      BY <1>5, <2>1, <2>2 DEF Save
  <1>6. ASSUME NEW p \in Procs, Fail(p) PROVE TransactionInv'
    BY <1>6 DEF Fail
  <1>7. ASSUME NEW p \in Procs, Return(p) PROVE TransactionInv'
    BY <1>7 DEF Return, Release, Forgets
  <1>8. ASSUME NEW p \in Procs, Crash(p) PROVE TransactionInv'
    BY <1>8 DEF Crash, Vanish, Forgets
  <1>9. CASE UNCHANGED storeVars
    BY <1>9 DEF storeVars
  <1> QED
    BY <1>1, <1>2, <1>3, <1>4, <1>5, <1>6, <1>7, <1>8, <1>9 DEF Next

\* No agent ever saves a document computed from a file that another agent has
\* replaced since: no memory is lost to a concurrent update.
THEOREM NoLostUpdate == Spec => []LoadedIsCurrent
PROOF
  <1>1. TransactionInv => LoadedIsCurrent
    OBVIOUS
  <1> QED
    BY <1>1, TransactionInit, TransactionStep, PTL DEF Spec

\* Only the holder of the lock is inside a transaction.
THEOREM MutualExclusion == Spec => []LockHeld
PROOF
  <1>1. TransactionInv => LockHeld
    OBVIOUS
  <1> QED
    BY <1>1, TransactionInit, TransactionStep, PTL DEF Spec

-----------------------------------------------------------------------------
(* What the operations make of a document *)

\* The items of a document, with any number in their ids.
Stored == [id : (0..MaxClock) \X Nat, slot : Slots, value : Values, until : 1..2 * Forever]

\* No two items of a document have the same slot.
OneEach(items) == \A i, j \in DOMAIN items : items[i].slot = items[j].slot => i = j

\* The entries of a document.
View(items) == {EntryOf(items[i]) : i \in DOMAIN items}

\* The loop of filterUnexpired is well defined: its result after n items is
\* made from the result after n - 1.
LEMMA UnexpiredLoop ==
  ASSUME NEW items \in Seq(Stored), NEW t \in Nat
  PROVE  \E kept :
           /\ Unexpired(items, t) = kept[Len(items)]
           /\ kept[0] = <<>>
           /\ \A n \in 1..Len(items) :
                kept[n] = IF items[n].until > t THEN Append(kept[n - 1], items[n]) ELSE kept[n - 1]
PROOF
  <1> DEFINE L == Len(items)
             Step(f, n) == IF n = 0 THEN <<>>
                           ELSE IF items[n].until > t THEN Append(f[n - 1], items[n]) ELSE f[n - 1]
             Defined(n) == \E f : f = [k \in 0..n |-> Step(f, k)]
             kept == CHOOSE f : f = [k \in 0..L |-> Step(f, k)]
  <1>1. L \in Nat
    OBVIOUS
  <1>2. Unexpired(items, t) = kept[L]
    BY DEF Unexpired
  <1>3. Defined(0)
    <2> DEFINE f == [k \in 0..0 |-> <<>>]
    <2>1. f = [k \in 0..0 |-> Step(f, k)]
      OBVIOUS
    <2> QED
      BY <2>1
  <1>4. ASSUME NEW n \in Nat, Defined(n) PROVE Defined(n + 1)
    <2>1. PICK f : f = [k \in 0..n |-> Step(f, k)]
      BY <1>4
    <2> DEFINE g == [k \in 0..n + 1 |-> IF k = n + 1 THEN Step(f, n + 1) ELSE f[k]]
    <2>2. ASSUME NEW k \in 0..n + 1 PROVE g[k] = Step(g, k)
      <3>1. CASE k = n + 1
        <4>1. g[k] = Step(f, n + 1) /\ g[n] = f[n] /\ k - 1 = n
          BY <3>1
        <4> QED
          BY <3>1, <4>1
      <3>2. CASE k \in 0..n
        <4>1. g[k] = f[k] /\ f[k] = Step(f, k)
          BY <2>1, <3>2
        <4>2. k # 0 => k - 1 \in 0..n /\ g[k - 1] = f[k - 1]
          BY <3>2
        <4> QED
          BY <4>1, <4>2
      <3> QED
        BY <3>1, <3>2
    <2>3. g = [k \in 0..n + 1 |-> Step(g, k)]
      BY <2>2
    <2> QED
      BY <2>3
  <1>5. Defined(L)
    <2> DEFINE S == {n \in Nat : Defined(n)}
    <2> HIDE DEF Defined
    <2>1. 0 \in S /\ \A n \in Nat : n \in S => n + 1 \in S
      BY <1>3, <1>4
    <2>2. \A n \in Nat : n \in S
      <3> HIDE DEF S
      <3> QED
        BY <2>1, Induction
    <2> QED
      BY <1>1, <2>2
  <1>6. kept = [k \in 0..L |-> Step(kept, k)]
    BY <1>5
  <1> HIDE DEF kept
  <1>7. \A k \in 0..L : kept[k] = Step(kept, k)
    BY <1>6
  <1>8. kept[0] = <<>>
    BY <1>1, <1>7
  <1>9. \A n \in 1..L : kept[n] = IF items[n].until > t THEN Append(kept[n - 1], items[n]) ELSE kept[n - 1]
    BY <1>1, <1>7
  <1> QED
    BY <1>2, <1>8, <1>9

\* Dropping the expired items keeps the others, once each.
LEMMA UnexpiredView ==
  ASSUME NEW items \in Seq(Stored), OneEach(items), NEW t \in Nat
  PROVE  /\ Unexpired(items, t) \in Seq(Stored) /\ OneEach(Unexpired(items, t))
         /\ View(Unexpired(items, t)) = {e \in View(items) : e.until > t}
PROOF
  <1>1. PICK kept :
          /\ Unexpired(items, t) = kept[Len(items)]
          /\ kept[0] = <<>>
          /\ \A n \in 1..Len(items) :
               kept[n] = IF items[n].until > t THEN Append(kept[n - 1], items[n]) ELSE kept[n - 1]
    BY UnexpiredLoop
  <1> DEFINE Good(n) ==
        /\ kept[n] \in Seq(Stored)
        /\ \A k \in 1..Len(kept[n]) : \E i \in 1..n : kept[n][k] = items[i] /\ items[i].until > t
        /\ \A i \in 1..n : items[i].until > t => \E k \in 1..Len(kept[n]) : kept[n][k] = items[i]
        /\ \A k, l \in 1..Len(kept[n]) : kept[n][k].slot = kept[n][l].slot => k = l
  <1>2. Good(0)
    BY <1>1
  <1>3. ASSUME NEW n \in Nat, n + 1 \in 1..Len(items), Good(n) PROVE Good(n + 1)
    <2>1. items[n + 1] \in Stored
      BY <1>3
    <2>2. CASE ~(items[n + 1].until > t)
      <3>1. kept[n + 1] = kept[n]
        <4>1. (n + 1) - 1 = n
          OBVIOUS
        <4> QED
          BY <1>1, <1>3, <2>2, <4>1
      <3>2. ASSUME NEW i \in 1..n + 1, items[i].until > t
            PROVE  \E k \in 1..Len(kept[n]) : kept[n][k] = items[i]
        <4>1. i \in 1..n
          BY <2>2, <3>2
        <4> QED
          BY <1>3, <3>2, <4>1
      <3>3. ASSUME NEW k \in 1..Len(kept[n])
            PROVE  \E i \in 1..n + 1 : kept[n][k] = items[i] /\ items[i].until > t
        <4>1. PICK i \in 1..n : kept[n][k] = items[i] /\ items[i].until > t
          BY <1>3
        <4>2. i \in 1..n + 1
          OBVIOUS
        <4> QED
          BY <4>1, <4>2
      <3> QED
        BY <1>3, <3>1, <3>2, <3>3
    <2>3. CASE items[n + 1].until > t
      <3>1. kept[n + 1] = Append(kept[n], items[n + 1])
        <4>1. (n + 1) - 1 = n
          OBVIOUS
        <4> QED
          BY <1>1, <1>3, <2>3, <4>1
      <3> DEFINE a == kept[n]
                 b == kept[n + 1]
      <3>2. /\ b \in Seq(Stored) /\ Len(b) = Len(a) + 1 /\ Len(a) \in Nat
            /\ b[Len(b)] = items[n + 1] /\ \A k \in 1..Len(a) : b[k] = a[k]
        BY <1>3, <2>1, <3>1
      <3>3. /\ \A i \in 1..n + 1 : i \in 1..n \/ i = n + 1
            /\ \A i \in 1..n : i \in 1..n + 1 /\ i # n + 1
            /\ n + 1 \in 1..n + 1
        BY <1>3
      <3>4. /\ \A k \in 1..Len(b) : k \in 1..Len(a) \/ k = Len(b)
            /\ \A k \in 1..Len(a) : k \in 1..Len(b)
            /\ Len(b) \in 1..Len(b)
        BY <3>2
      <3>5. /\ \A k \in 1..Len(a) : \E i \in 1..n : a[k] = items[i] /\ items[i].until > t
            /\ \A i \in 1..n : items[i].until > t => \E k \in 1..Len(a) : a[k] = items[i]
            /\ \A k, l \in 1..Len(a) : a[k].slot = a[l].slot => k = l
        BY <1>3
      <3> HIDE DEF a, b
      <3>6. ASSUME NEW k \in 1..Len(b)
            PROVE  \E i \in 1..n + 1 : b[k] = items[i] /\ items[i].until > t
        <4>1. CASE k = Len(b)
          BY <2>3, <3>2, <3>3, <4>1
        <4>2. CASE k \in 1..Len(a)
          <5>1. PICK i \in 1..n : a[k] = items[i] /\ items[i].until > t
            BY <3>5, <4>2
          <5> QED
            BY <3>2, <3>3, <4>2, <5>1
        <4> QED
          BY <3>4, <4>1, <4>2
      <3>7. ASSUME NEW i \in 1..n + 1, items[i].until > t
            PROVE  \E k \in 1..Len(b) : b[k] = items[i]
        <4>1. CASE i = n + 1
          BY <3>2, <3>4, <4>1
        <4>2. CASE i \in 1..n
          <5>1. PICK k \in 1..Len(a) : a[k] = items[i]
            BY <3>5, <3>7, <4>2
          <5> QED
            BY <3>2, <3>4, <5>1
        <4> QED
          BY <3>3, <4>1, <4>2
      <3>8. ASSUME NEW k \in 1..Len(a) PROVE a[k].slot # items[n + 1].slot
        <4>1. PICK i \in 1..n : a[k] = items[i]
          BY <3>5
        <4>2. i \in DOMAIN items /\ n + 1 \in DOMAIN items /\ i # n + 1
          BY <1>3, <3>3
        <4> QED
          BY <4>1, <4>2 DEF OneEach
      <3>9. \A k, l \in 1..Len(b) : b[k].slot = b[l].slot => k = l
        BY <3>2, <3>4, <3>5, <3>8
      <3> QED
        BY <3>2, <3>6, <3>7, <3>9 DEF b
    <2> QED
      BY <2>2, <2>3
  <1>4. Good(Len(items))
    <2> DEFINE S == {n \in Nat : n \in 0..Len(items) => Good(n)}
    <2> HIDE DEF Good
    <2>1. 0 \in S /\ \A n \in Nat : n \in S => n + 1 \in S
      BY <1>2, <1>3
    <2>2. \A n \in Nat : n \in S
      <3> HIDE DEF S
      <3> QED
        BY <2>1, Induction
    <2>3. Len(items) \in Nat
      OBVIOUS
    <2> QED
      BY <2>2, <2>3
  <1> DEFINE out == Unexpired(items, t)
  <1>5. /\ out \in Seq(Stored)
        /\ \A k \in 1..Len(out) : \E i \in 1..Len(items) : out[k] = items[i] /\ items[i].until > t
        /\ \A i \in 1..Len(items) : items[i].until > t => \E k \in 1..Len(out) : out[k] = items[i]
        /\ \A k, l \in 1..Len(out) : out[k].slot = out[l].slot => k = l
    BY <1>1, <1>4
  <1> HIDE DEF out
  <1>6. DOMAIN out = 1..Len(out) /\ DOMAIN items = 1..Len(items)
    BY <1>5
  <1>7. \A i \in DOMAIN items : EntryOf(items[i]).until = items[i].until
    BY DEF EntryOf
  <1>8. View(out) \subseteq {e \in View(items) : e.until > t}
    BY <1>5, <1>6, <1>7 DEF View
  <1>9. {e \in View(items) : e.until > t} \subseteq View(out)
    <2> SUFFICES ASSUME NEW i \in DOMAIN items, EntryOf(items[i]).until > t
                 PROVE  EntryOf(items[i]) \in View(out)
      BY DEF View
    <2>1. PICK k \in DOMAIN out : out[k] = items[i]
      BY <1>5, <1>6, <1>7
    <2> QED
      BY <2>1 DEF View
  <1> QED
    BY <1>5, <1>6, <1>8, <1>9 DEF OneEach, out

\* Remember replaces the one item of the slot, or adds an item.
LEMMA RememberedView ==
  ASSUME NEW items \in Seq(Stored), OneEach(items), NEW t \in 0..MaxClock,
         NEW o \in [kind : {"remember"}, slot : Slots, value : Values, ttl : Ttls]
  PROVE  LET entry == [slot |-> o.slot, value |-> o.value, until |-> Until(o, t)]
         IN  /\ Remembered(items, o, t) \in Seq(Stored) /\ OneEach(Remembered(items, o, t))
             /\ View(Remembered(items, o, t)) = {e \in View(items) : e.slot # o.slot} \union {entry}
             /\ entry.until \in 0..2 * Forever
PROOF
  <1> DEFINE entry == [slot |-> o.slot, value |-> o.value, until |-> Until(o, t)]
             same == {i \in DOMAIN items : SameSlot(items[i], o, t)}
             out == Remembered(items, o, t)
  <1>1. Until(o, t) \in 1..2 * Forever
    <2>1. o.ttl \in Ttls
      OBVIOUS
    <2>2. o.ttl \in 0..MaxClock + 1 /\ MaxClock \in Nat
      BY <2>1, MemoryAssumption
    <2> QED
      BY <2>2 DEF Until, Forever
  <1>2. ASSUME NEW id \in (0..MaxClock) \X Nat
        PROVE  /\ Entry(o, t, id) \in Stored /\ Entry(o, t, id).slot = o.slot
               /\ EntryOf(Entry(o, t, id)) = entry
    BY <1>1 DEF Entry, EntryOf, Stored
  <1>3. DOMAIN items = 1..Len(items) /\ Len(items) \in Nat
    OBVIOUS
  <1>4. \E i \in 1..Len(out) :
          /\ out \in Seq(Stored)
          /\ out[i].slot = o.slot /\ EntryOf(out[i]) = entry
          /\ \A k \in 1..Len(out) : k # i =>
               k \in 1..Len(items) /\ out[k] = items[k] /\ items[k].slot # o.slot
          /\ \A k \in 1..Len(items) : items[k].slot # o.slot =>
               k \in 1..Len(out) /\ out[k] = items[k]
    <2>1. CASE same = {}
      <3>1. NextId(items, t) \in (0..MaxClock) \X Nat
        BY <1>3 DEF NextId
      <3>2. out = Append(items, Entry(o, t, NextId(items, t)))
        BY <2>1 DEF Remembered
      <3>3. \A k \in 1..Len(items) : items[k].slot # o.slot
        BY <1>3, <2>1 DEF SameSlot
      <3>4. /\ out \in Seq(Stored) /\ Len(out) = Len(items) + 1
            /\ out[Len(out)] = Entry(o, t, NextId(items, t))
            /\ \A k \in 1..Len(items) : out[k] = items[k]
        BY <1>2, <3>1, <3>2
      <3> HIDE DEF out
      <3>5. /\ Len(out) \in 1..Len(out)
            /\ \A k \in 1..Len(items) : k \in 1..Len(out)
            /\ \A k \in 1..Len(out) : k # Len(out) => k \in 1..Len(items)
        BY <1>3, <3>4
      <3>6. out[Len(out)].slot = o.slot /\ EntryOf(out[Len(out)]) = entry
        BY <1>2, <3>1, <3>4
      <3> QED
        BY <3>3, <3>4, <3>5, <3>6
    <2>2. CASE same # {}
      <3> DEFINE i == CHOOSE j \in same : \A k \in same : j <= k
                 e == Entry(o, t, items[i].id)
      <3>1. \A j, k \in same : j = k
        BY DEF SameSlot, OneEach
      <3>2. \E j \in same : \A k \in same : j <= k
        <4>1. PICK j \in same : TRUE
          BY <2>2
        <4>2. \A k \in same : k = j /\ j \in Nat
          BY <1>3, <3>1, <4>1
        <4> QED
          BY <4>1, <4>2
      <3>3. i \in same
        BY <3>2
      <3>4. out = [items EXCEPT ![i] = e]
        BY <2>2 DEF Remembered
      <3> HIDE DEF i
      <3>5. i \in 1..Len(items) /\ items[i] \in Stored /\ items[i].slot = o.slot
        BY <1>3, <3>3 DEF SameSlot
      <3>6. items[i].id \in (0..MaxClock) \X Nat
        BY <3>5 DEF Stored
      <3>7. e \in Stored /\ e.slot = o.slot /\ EntryOf(e) = entry
        BY <1>2, <3>6
      <3> HIDE DEF e, out
      <3>8. /\ out \in Seq(Stored) /\ Len(out) = Len(items) /\ out[i] = e
            /\ \A k \in 1..Len(items) : k # i => out[k] = items[k]
        BY <3>4, <3>5, <3>7
      <3>9. \A k \in 1..Len(items) : k # i => items[k].slot # o.slot
        BY <1>3, <3>1, <3>3 DEF SameSlot
      <3>10. \A k \in 1..Len(items) : items[k].slot # o.slot => k # i
        BY <3>5
      <3> QED
        BY <3>5, <3>7, <3>8, <3>9, <3>10
    <2> QED
      BY <2>1, <2>2
  <1> HIDE DEF out, entry
  <1>5. PICK i \in 1..Len(out) :
          /\ out \in Seq(Stored)
          /\ out[i].slot = o.slot /\ EntryOf(out[i]) = entry
          /\ \A k \in 1..Len(out) : k # i =>
               k \in 1..Len(items) /\ out[k] = items[k] /\ items[k].slot # o.slot
          /\ \A k \in 1..Len(items) : items[k].slot # o.slot =>
               k \in 1..Len(out) /\ out[k] = items[k]
    BY <1>4
  <1>6. DOMAIN out = 1..Len(out)
    BY <1>5
  <1>7. OneEach(out)
    <2> SUFFICES ASSUME NEW k \in 1..Len(out), NEW l \in 1..Len(out), out[k].slot = out[l].slot
                 PROVE  k = l
      BY <1>6 DEF OneEach
    <2>1. CASE k = i \/ l = i
      BY <1>5, <2>1
    <2>2. CASE k # i /\ l # i
      BY <1>3, <1>5, <2>2 DEF OneEach
    <2> QED
      BY <2>1, <2>2
  <1>8. \A item : EntryOf(item).slot = item.slot
    BY DEF EntryOf
  <1>9. View(out) \subseteq {e \in View(items) : e.slot # o.slot} \union {entry}
    <2> SUFFICES ASSUME NEW k \in 1..Len(out), k # i
                 PROVE  EntryOf(out[k]) \in {e \in View(items) : e.slot # o.slot}
      BY <1>5, <1>6 DEF View
    <2>1. k \in 1..Len(items) /\ out[k] = items[k] /\ items[k].slot # o.slot
      BY <1>5
    <2> QED
      BY <1>3, <1>8, <2>1 DEF View
  <1>10. {e \in View(items) : e.slot # o.slot} \union {entry} \subseteq View(out)
    <2>1. entry \in View(out)
      BY <1>5, <1>6 DEF View
    <2>2. ASSUME NEW k \in 1..Len(items), EntryOf(items[k]).slot # o.slot
          PROVE  EntryOf(items[k]) \in View(out)
      <3>1. k \in 1..Len(out) /\ out[k] = items[k]
        BY <1>5, <1>8, <2>2
      <3> QED
        BY <1>6, <3>1 DEF View
    <2> QED
      BY <1>3, <2>1, <2>2 DEF View
  <1>11. View(out) = {e \in View(items) : e.slot # o.slot} \union {entry}
    BY <1>9, <1>10
  <1>12. entry.until \in 0..2 * Forever
    BY <1>1 DEF entry, Forever
  <1> QED
    BY <1>5, <1>7, <1>11, <1>12 DEF out, entry

\* Forget removes one entry: the other items have other slots.
LEMMA ForgottenView ==
  ASSUME NEW items \in Seq(Stored), OneEach(items), NEW id, WithId(items, id) # {}
  PROVE  /\ Forgotten(items, id) \in Seq(Stored) /\ OneEach(Forgotten(items, id))
         /\ \E e \in View(items) : View(Forgotten(items, id)) = View(items) \ {e}
PROOF
  <1> DEFINE with == WithId(items, id)
             i == CHOOSE j \in with : \A k \in with : j <= k
             out == Forgotten(items, id)
  <1>1. DOMAIN items = 1..Len(items) /\ Len(items) \in Nat /\ with \subseteq 1..Len(items)
    BY DEF WithId
  <1>2. \E j \in with : \A k \in with : j <= k
    <2> HIDE DEF with
    <2>1. with # {}
      BY DEF with
    <2>2. with \subseteq Nat
      BY <1>1
    <2> QED
      BY <2>1, <2>2, Least
  <1>3. i \in 1..Len(items)
    BY <1>1, <1>2
  <1>4. out = SubSeq(items, 1, i - 1) \o SubSeq(items, i + 1, Len(items))
    BY DEF Forgotten, RemoveAt
  <1> HIDE DEF i, out
  <1>5. /\ out \in Seq(Stored) /\ Len(out) = Len(items) - 1
        /\ \A k \in 1..Len(out) : out[k] = items[IF k < i THEN k ELSE k + 1]
    <2> DEFINE a == SubSeq(items, 1, i - 1)
               b == SubSeq(items, i + 1, Len(items))
    <2>1. /\ a \in Seq(Stored) /\ Len(a) = i - 1
          /\ \A k \in 1..i - 1 : a[k] = items[k]
      BY <1>1, <1>3
    <2>2. /\ b \in Seq(Stored) /\ Len(b) = Len(items) - i
          /\ \A k \in 1..Len(items) - i : b[k] = items[k + i]
      BY <1>1, <1>3
    <2> HIDE DEF a, b
    <2>3. out = a \o b
      BY <1>4 DEF a, b
    <2>4. /\ out \in Seq(Stored) /\ Len(out) = Len(items) - 1
          /\ \A k \in 1..Len(out) : out[k] = IF k <= Len(a) THEN a[k] ELSE b[k - Len(a)]
      <3>1. out \in Seq(Stored) /\ Len(out) = Len(a) + Len(b)
        BY <2>1, <2>2, <2>3
      <3>2. Len(out) = Len(items) - 1
        BY <1>1, <1>3, <2>1, <2>2, <3>1
      <3>3. ASSUME NEW k \in 1..Len(a) + Len(b)
            PROVE  (a \o b)[k] = IF k <= Len(a) THEN a[k] ELSE b[k - Len(a)]
        <4>1. a \in Seq(Stored) /\ b \in Seq(Stored)
          BY <2>1, <2>2
        <4>2. Len(a) \in Nat /\ Len(b) \in Nat
          BY <4>1
        <4>3. CASE k <= Len(a)
          BY <4>1, <4>2, <4>3
        <4>4. CASE ~(k <= Len(a))
          BY <4>1, <4>2, <4>4
        <4> QED
          BY <4>3, <4>4
      <3> QED
        BY <2>3, <3>1, <3>2, <3>3
    <2>5. ASSUME NEW k \in 1..Len(out)
          PROVE  out[k] = items[IF k < i THEN k ELSE k + 1]
      <3>1. CASE k < i
        BY <1>1, <1>3, <2>1, <2>4, <3>1
      <3>2. CASE ~(k < i)
        <4>1. k - Len(a) \in 1..Len(items) - i /\ (k - Len(a)) + i = k + 1 /\ ~(k <= Len(a))
          BY <1>1, <1>3, <2>1, <2>4, <3>2
        <4> QED
          BY <2>2, <2>4, <3>2, <4>1
      <3> QED
        BY <3>1, <3>2
    <2> QED
      BY <2>4, <2>5
  <1>6. DOMAIN out = 1..Len(out)
    BY <1>5
  <1>7. \A k \in 1..Len(out) : k \in 1..Len(items) /\ k + 1 \in 1..Len(items)
    BY <1>1, <1>5
  <1>8. OneEach(out)
    <2> SUFFICES ASSUME NEW k \in 1..Len(out), NEW l \in 1..Len(out), out[k].slot = out[l].slot
                 PROVE  k = l
      BY <1>6 DEF OneEach
    <2> DEFINE kk == IF k < i THEN k ELSE k + 1
               ll == IF l < i THEN l ELSE l + 1
    <2>1. kk \in DOMAIN items /\ ll \in DOMAIN items /\ out[k] = items[kk] /\ out[l] = items[ll]
      BY <1>1, <1>5, <1>7
    <2>2. kk = ll
      <3> HIDE DEF kk, ll
      <3> QED
        BY <2>1 DEF OneEach
    <2> QED
      BY <1>3, <2>2
  <1>9. View(out) = View(items) \ {EntryOf(items[i])}
    <2>1. ASSUME NEW k \in 1..Len(out)
          PROVE  EntryOf(out[k]) \in View(items) \ {EntryOf(items[i])}
      <3> DEFINE kk == IF k < i THEN k ELSE k + 1
      <3>1. kk \in DOMAIN items /\ out[k] = items[kk] /\ kk # i
        BY <1>1, <1>3, <1>5, <1>7
      <3> HIDE DEF kk
      <3>2. items[kk].slot # items[i].slot
        BY <1>1, <1>3, <3>1 DEF OneEach
      <3>3. EntryOf(items[kk]) # EntryOf(items[i])
        <4>1. EntryOf(items[kk]).slot = items[kk].slot /\ EntryOf(items[i]).slot = items[i].slot
          BY DEF EntryOf
        <4> QED
          BY <3>2, <4>1
      <3> QED
        BY <3>1, <3>3 DEF View
    <2>2. ASSUME NEW k \in 1..Len(items), k # i PROVE EntryOf(items[k]) \in View(out)
      <3> DEFINE kk == IF k < i THEN k ELSE k - 1
      <3>1. kk \in 1..Len(out) /\ out[kk] = items[k]
        BY <1>1, <1>3, <1>5, <2>2
      <3> HIDE DEF kk
      <3> QED
        BY <1>6, <3>1 DEF View
    <2>3. View(out) \subseteq View(items) \ {EntryOf(items[i])}
      BY <1>6, <2>1 DEF View
    <2>4. View(items) \ {EntryOf(items[i])} \subseteq View(out)
      BY <1>1, <2>2 DEF View
    <2> QED
      BY <2>3, <2>4
  <1>10. EntryOf(items[i]) \in View(items)
    BY <1>1, <1>3 DEF View
  <1> QED
    BY <1>5, <1>8, <1>9, <1>10 DEF out

-----------------------------------------------------------------------------
(* The store implements Memory *)

\* The documents are well formed, the operations are those of the tools, and
\* no caller has read a time that is still to come.
StoreInv ==
  /\ TransactionInv
  /\ file \in Seq(Stored) /\ OneEach(file)
  /\ clock \in 0..MaxClock
  /\ op \in [Procs -> Ops]
  /\ now \in [Procs -> 0..MaxClock] /\ \A p \in Procs : now[p] <= clock

\* What a save does to the document, to its items and to its entries.
LEMMA SaveView ==
  ASSUME StoreInv, NEW p \in Procs, Save(p)
  PROVE  /\ file' \in Seq(Stored) /\ OneEach(file') /\ UNCHANGED clock
         /\ \/ UNCHANGED file
            \/ \E slot \in Slots, value \in Values, until \in 0..2 * Forever :
                 View(file') = {e \in View(file) : e.slot # slot}
                                 \union {[slot |-> slot, value |-> value, until |-> until]}
            \/ \E e \in View(file) : View(file') = View(file) \ {e}
            \/ \E t \in 0..clock : View(file') = {e \in View(file) : e.until > t}
PROOF
  <1>1. doc[p] = file /\ file \in Seq(Stored) /\ OneEach(file) /\ UNCHANGED clock
    BY DEF StoreInv, Save
  <1>2. op[p] \in Ops /\ now[p] \in 0..MaxClock /\ now[p] <= clock /\ clock \in 0..MaxClock
    BY DEF StoreInv
  <1>3. now[p] \in 0..clock /\ now[p] \in Nat
    BY <1>2, MemoryAssumption
  <1>4. CASE SaveRemembered(p)
    <2> DEFINE o == op[p]
               until == Until(o, now[p])
    <2>1. file' = Remembered(file, o, now[p])
      BY <1>1, <1>4 DEF SaveRemembered
    <2>2. o \in [kind : {"remember"}, slot : Slots, value : Values, ttl : Ttls]
      BY <1>2, <1>4 DEF SaveRemembered, Ops
    <2>3. o.slot \in Slots /\ o.value \in Values
      BY <2>2
    <2> HIDE DEF o
    <2>4. /\ file' \in Seq(Stored) /\ OneEach(file')
          /\ View(file') = {e \in View(file) : e.slot # o.slot}
                             \union {[slot |-> o.slot, value |-> o.value, until |-> until]}
          /\ until \in 0..2 * Forever
      BY <1>1, <1>2, <2>1, <2>2, RememberedView
    <2> QED
      BY <1>1, <2>3, <2>4
  <1>5. CASE SaveForgotten(p)
    <2>1. file' = Forgotten(file, op[p].id) /\ WithId(file, op[p].id) # {}
      BY <1>1, <1>5 DEF SaveForgotten
    <2>2. /\ file' \in Seq(Stored) /\ OneEach(file')
          /\ \E e \in View(file) : View(file') = View(file) \ {e}
      BY <1>1, <2>1, ForgottenView
    <2> QED
      BY <1>1, <2>2
  <1>6. CASE ForgetUnknown(p)
    BY <1>1, <1>6 DEF ForgetUnknown
  <1>7. CASE SaveUnexpired(p)
    <2>1. file' = Unexpired(file, now[p])
      BY <1>1, <1>7 DEF SaveUnexpired
    <2>2. /\ file' \in Seq(Stored) /\ OneEach(file')
          /\ View(file') = {e \in View(file) : e.until > now[p]}
      BY <1>1, <1>3, <2>1, UnexpiredView
    <2> QED
      BY <1>1, <1>3, <2>2
  <1> QED
    BY <1>4, <1>5, <1>6, <1>7 DEF Save

\* The invariant holds initially.
LEMMA StoreInit == Init => StoreInv
PROOF
  <1> SUFFICES ASSUME Init PROVE StoreInv
    OBVIOUS
  <1>1. TransactionInv
    BY TransactionInit
  <1>2. file = <<>> /\ clock = 0
    BY DEF Init
  <1>3. file \in Seq(Stored) /\ OneEach(file)
    BY <1>2 DEF OneEach
  <1>4. op \in [Procs -> Ops] /\ now \in [Procs -> 0..MaxClock] /\ \A p \in Procs : now[p] <= clock
    <2>1. List \in Ops
      BY DEF Ops, List
    <2> QED
      BY <2>1, MemoryAssumption DEF Init
  <1> QED
    BY <1>1, <1>2, <1>3, <1>4, MemoryAssumption DEF StoreInv

\* Every step keeps the invariant.
LEMMA StoreStep == StoreInv /\ [Next]_storeVars => StoreInv'
PROOF
  <1> SUFFICES ASSUME StoreInv, [Next]_storeVars
               PROVE  /\ file' \in Seq(Stored) /\ OneEach(file')
                      /\ clock' \in 0..MaxClock
                      /\ op' \in [Procs -> Ops]
                      /\ now' \in [Procs -> 0..MaxClock] /\ \A p \in Procs : now'[p] <= clock'
    BY TransactionStep DEF StoreInv
  <1> USE MemoryAssumption
  <1>1. CASE Tick
    BY <1>1 DEF Tick, StoreInv
  <1>2. ASSUME NEW p \in Procs, NEW o \in Ops, Call(p, o) PROVE StoreInv'
    BY <1>2, TransactionStep DEF Call, StoreInv, Next
  <1>3. ASSUME NEW p \in Procs, TakeLock(p) \/ Fail(p) PROVE UNCHANGED <<file, clock, op, now>>
    BY <1>3 DEF TakeLock, Fail
  <1>4. ASSUME NEW p \in Procs, Load(p)
        PROVE  /\ UNCHANGED <<file, clock, op>>
               /\ now' \in [Procs -> 0..MaxClock] /\ \A q \in Procs : now'[q] <= clock'
    BY <1>4 DEF Load, StoreInv
  <1>5. ASSUME NEW p \in Procs, Save(p)
        PROVE  file' \in Seq(Stored) /\ OneEach(file') /\ UNCHANGED <<clock, op, now>>
    BY <1>5, SaveView DEF Save
  <1>6. ASSUME NEW p \in Procs, Return(p) \/ Crash(p)
        PROVE  /\ UNCHANGED <<file, clock>>
               /\ op' \in [Procs -> Ops]
               /\ now' \in [Procs -> 0..MaxClock] /\ \A q \in Procs : now'[q] <= clock'
    <2>1. List \in Ops
      BY DEF Ops, List
    <2>2. /\ op' = [op EXCEPT ![p] = List] /\ now' = [now EXCEPT ![p] = 0]
          /\ UNCHANGED <<file, clock>>
      BY <1>6 DEF Return, Crash, Forgets
    <2>3. /\ op \in [Procs -> Ops] /\ now \in [Procs -> 0..MaxClock] /\ clock \in 0..MaxClock
          /\ \A q \in Procs : now[q] <= clock
      BY DEF StoreInv
    <2>4. op' \in [Procs -> Ops] /\ now' \in [Procs -> 0..MaxClock]
      BY <2>1, <2>2, <2>3
    <2>5. ASSUME NEW q \in Procs PROVE now'[q] <= clock'
      BY <2>2, <2>3
    <2> QED
      BY <2>2, <2>4, <2>5
  <1>7. CASE UNCHANGED storeVars
    BY <1>7 DEF storeVars, StoreInv
  <1> QED
    BY <1>1, <1>2, <1>3, <1>4, <1>5, <1>6, <1>7 DEF Next, StoreInv

\* The memory tools of all agents together act like single steps on one set of
\* entries: whatever the interleaving, the crashes and the failures, an entry
\* is lost only when it is replaced, forgotten or expired.
THEOREM ImplementsMemory == Spec => MemorySpec
PROOF
  <1>1. Init => Abstract!Init
    BY DEF Init, Abstract!Init
  <1>2. StoreInv /\ [Next]_storeVars => [Abstract!Next]_(Abstract!memoryVars)
    <2> SUFFICES ASSUME StoreInv, [Next]_storeVars
                 PROVE  Abstract!Next \/ UNCHANGED <<View(file), clock>>
      BY DEF Abstract!memoryVars, View
    <2>1. CASE Tick
      BY <2>1 DEF Tick, Abstract!Next, Abstract!Tick
    <2>2. ASSUME NEW p \in Procs, Save(p) PROVE Abstract!Next \/ UNCHANGED <<View(file), clock>>
      <3>1. UNCHANGED clock
        BY <2>2, SaveView
      <3>2. ASSUME NEW slot \in Slots, NEW value \in Values, NEW until \in 0..2 * Forever,
                   View(file') = {e \in View(file) : e.slot # slot}
                                   \union {[slot |-> slot, value |-> value, until |-> until]}
            PROVE  Abstract!Next
        BY <3>1, <3>2 DEF Abstract!Next, Abstract!Remember, Abstract!Forever, Forever, View
      <3>3. ASSUME NEW e \in View(file), View(file') = View(file) \ {e} PROVE Abstract!Next
        BY <3>1, <3>3 DEF Abstract!Next, Abstract!Forget, View
      <3>4. ASSUME NEW t \in 0..clock, View(file') = {e \in View(file) : e.until > t}
            PROVE  Abstract!Next
        BY <3>1, <3>4 DEF Abstract!Next, Abstract!Expire, View
      <3>5. UNCHANGED file => UNCHANGED View(file)
        BY DEF View
      <3> QED
        BY <2>2, <3>1, <3>2, <3>3, <3>4, <3>5, SaveView
    <2>3. CASE UNCHANGED <<file, clock>>
      BY <2>3 DEF View
    <2> QED
      BY <2>1, <2>2, <2>3 DEF Next, storeVars, Call, TakeLock, Load, Fail, Return, Crash
  <1> QED
    BY <1>1, <1>2, StoreInit, StoreStep, PTL DEF Spec, MemorySpec, Abstract!Spec
=============================================================================
