---------------------------- MODULE MemoryStore -----------------------------
(***************************************************************************)
(* internal/greggpttools/memory.go: the JSON file in which the agents of   *)
(* mc-relay and the Discord bot keep what they remember.  Every operation  *)
(* reads the whole file, computes the new document and replaces the file,  *)
(* under a file lock.                                                      *)
(*                                                                         *)
(* Abstractions.  Scope, channel, user and key are one slot; tags, source, *)
(* the times of creation and update and the selectors of List are left     *)
(* out.  An id is the second in which it was made and a number.  The file  *)
(* is replaced by rename(2), so a crash leaves the old or the new one.     *)
(***************************************************************************)
EXTENDS FileLock, Sequences, SequencesExt

CONSTANTS
  Slots,     \* what identifies an entry
  Values,    \* what is remembered
  Ttls,      \* the seconds an entry may live; 0 is for ever
  MaxClock   \* bound on the clock

ASSUME MemoryAssumption == MaxClock \in Nat /\ Ttls \subseteq 0..MaxClock + 1

VARIABLES
  file,    \* the items of the document on disk
  clock,   \* time in seconds
  pc,      \* what each caller does
  op,      \* its operation
  doc,     \* the document it has read
  now      \* when it read it

storeVars == <<holder, file, clock, pc, op, doc, now>>

Forever == MaxClock + 1

Ids == (0..MaxClock) \X (1..Cardinality(Slots) + 1)

Items == [id : Ids, slot : Slots, value : Values, until : 1..2 * Forever]

Ops ==
  [kind : {"remember"}, slot : Slots, value : Values, ttl : Ttls]
    \union [kind : {"forget"}, id : Ids]
    \union [kind : {"list"}]

List == [kind |-> "list"]

TypeOK ==
  /\ LockTypeOK
  /\ file \in Seq(Items)
  /\ clock \in 0..MaxClock
  /\ pc \in [Procs -> {"idle", "waiting", "locked", "loaded", "done", "failed"}]
  /\ op \in [Procs -> Ops]
  /\ doc \in [Procs -> Seq(Items)]
  /\ now \in [Procs -> 0..MaxClock]

Init ==
  /\ LockInit
  /\ file = <<>>
  /\ clock = 0
  /\ pc = [p \in Procs |-> "idle"]
  /\ op = [p \in Procs |-> List]
  /\ doc = [p \in Procs |-> <<>>]
  /\ now = [p \in Procs |-> 0]

Goto(p, state) == pc' = [pc EXCEPT ![p] = state]

Tick ==
  /\ clock < MaxClock
  /\ clock' = clock + 1
  /\ UNCHANGED <<holder, file, pc, op, doc, now>>

-----------------------------------------------------------------------------
(* What the operations make of the document *)

\* memorySameSlot; an expired item still occupies its slot.
SameSlot(item, o, t) == item.slot = o.slot

\* nextMemoryID: the second and the length of the document.
NextId(items, t) == <<t, Len(items) + 1>>

Until(o, t) == IF o.ttl = 0 THEN 2 * Forever ELSE t + o.ttl

Entry(o, t, id) == [id |-> id, slot |-> o.slot, value |-> o.value, until |-> Until(o, t)]

\* The item of the slot is replaced and keeps its id, or one is appended.
Remembered(items, o, t) ==
  LET same == {i \in DOMAIN items : SameSlot(items[i], o, t)}
  IN  IF same = {} THEN Append(items, Entry(o, t, NextId(items, t)))
      ELSE LET i == CHOOSE j \in same : \A k \in same : j <= k
           IN  [items EXCEPT ![i] = Entry(o, t, items[i].id)]

WithId(items, id) == {i \in DOMAIN items : items[i].id = id}

\* Only the first item with the id is deleted.
Forgotten(items, id) ==
  RemoveAt(items, CHOOSE i \in WithId(items, id) : \A j \in WithId(items, id) : i <= j)

\* filterUnexpired, one item after the other.
Unexpired(items, t) ==
  LET kept[n \in 0..Len(items)] ==
        IF n = 0 THEN <<>>
        ELSE IF items[n].until > t THEN Append(kept[n - 1], items[n]) ELSE kept[n - 1]
  IN  kept[Len(items)]

-----------------------------------------------------------------------------
(* The operations *)

Call(p, o) ==
  /\ pc[p] = "idle"
  /\ op' = [op EXCEPT ![p] = o]
  /\ Goto(p, "waiting")
  /\ UNCHANGED <<holder, file, clock, doc, now>>

\* Mutant: the lock is taken per process only (MemoryStore.mu).
TakeNoLock(p) ==
  /\ pc[p] = "waiting"
  /\ Goto(p, "locked")
  /\ UNCHANGED <<holder, file, clock, op, doc, now>>

TakeLock(p) ==
  /\ pc[p] = "waiting"
  /\ Acquire(p)
  /\ Goto(p, "locked")
  /\ UNCHANGED <<file, clock, op, doc, now>>

Load(p) ==
  /\ pc[p] = "locked"
  /\ doc' = [doc EXCEPT ![p] = file]
  /\ now' = [now EXCEPT ![p] = clock]
  /\ Goto(p, "loaded")
  /\ UNCHANGED <<holder, file, clock, op>>

SaveRemembered(p) ==
  /\ op[p].kind = "remember"
  /\ file' = Remembered(doc[p], op[p], now[p])
  /\ Goto(p, "done")

SaveForgotten(p) ==
  /\ op[p].kind = "forget" /\ WithId(doc[p], op[p].id) # {}
  /\ file' = Forgotten(doc[p], op[p].id)
  /\ Goto(p, "done")

ForgetUnknown(p) ==
  /\ op[p].kind = "forget" /\ WithId(doc[p], op[p].id) = {}
  /\ Goto(p, "failed")
  /\ UNCHANGED file

\* List saves only when it dropped an expired item.
SaveUnexpired(p) ==
  /\ op[p].kind = "list"
  /\ file' = Unexpired(doc[p], now[p])
  /\ Goto(p, "done")

Save(p) ==
  /\ pc[p] = "loaded"
  /\ SaveRemembered(p) \/ SaveForgotten(p) \/ ForgetUnknown(p) \/ SaveUnexpired(p)
  /\ UNCHANGED <<holder, clock, op, doc, now>>

\* The arguments are refused, the file cannot be read, parsed or replaced.
Fail(p) ==
  /\ pc[p] \in {"locked", "loaded"}
  /\ Goto(p, "failed")
  /\ UNCHANGED <<holder, file, clock, op, doc, now>>

Forgets(p) ==
  /\ op' = [op EXCEPT ![p] = List]
  /\ doc' = [doc EXCEPT ![p] = <<>>]
  /\ now' = [now EXCEPT ![p] = 0]

Return(p) ==
  /\ pc[p] \in {"done", "failed"}
  /\ Release(p)
  /\ Forgets(p)
  /\ Goto(p, "idle")
  /\ UNCHANGED <<file, clock>>

Crash(p) ==
  /\ pc[p] # "idle"
  /\ Vanish(p)
  /\ Forgets(p)
  /\ Goto(p, "idle")
  /\ UNCHANGED <<file, clock>>

Next ==
  \/ Tick
  \/ \E p \in Procs :
       \/ \E o \in Ops : Call(p, o)
       \/ TakeLock(p) \/ Load(p) \/ Save(p) \/ Fail(p) \/ Return(p) \/ Crash(p)

Spec == Init /\ [][Next]_storeVars

-----------------------------------------------------------------------------
(* Properties *)

\* Only the holder of the lock is between Acquire and Release.
LockHeld ==
  \A p \in Procs : pc[p] \in {"locked", "loaded", "done", "failed"} <=> holder = p

\* What a caller is about to save was computed from what the file holds: no
\* update of another process is lost.
LoadedIsCurrent == \A p \in Procs : pc[p] = "loaded" => doc[p] = file

EntryOf(item) == [slot |-> item.slot, value |-> item.value, until |-> item.until]

Abstract == INSTANCE Memory WITH entries <- {EntryOf(file[i]) : i \in DOMAIN file}

\* The operations of all processes together act like single steps on one set
\* of entries.
MemorySpec == Abstract!Spec
=============================================================================
