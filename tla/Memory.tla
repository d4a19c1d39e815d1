------------------------------- MODULE Memory -------------------------------
(***************************************************************************)
(* What the memory tools promise the agents that share the store: one      *)
(* entry per slot (scope, channel, user and key), replaced by a later      *)
(* Remember, kept until it is forgotten or has expired, whatever other     *)
(* agents do at the same time.  MemoryStore implements it.                 *)
(***************************************************************************)
EXTENDS Naturals

CONSTANTS
  Slots,     \* what identifies an entry
  Values,    \* what is remembered
  MaxClock   \* bound on the clock

VARIABLES
  entries,   \* the entries, without the order and the ids of the file
  clock      \* time in seconds

memoryVars == <<entries, clock>>

Forever == MaxClock + 1

Entries == [slot : Slots, value : Values, until : Nat]

TypeOK == entries \subseteq Entries /\ clock \in 0..MaxClock

Init == entries = {} /\ clock = 0

Tick == clock < MaxClock /\ clock' = clock + 1 /\ UNCHANGED entries

Remember(entry) ==
  /\ entries' = {e \in entries : e.slot # entry.slot} \union {entry}
  /\ UNCHANGED clock

Forget(entry) == entries' = entries \ {entry} /\ UNCHANGED clock

\* An agent that read the time at the instant now drops what had expired.
Expire(now) ==
  /\ entries' = {e \in entries : e.until > now}
  /\ UNCHANGED clock

Next ==
  \/ Tick
  \/ \E slot \in Slots, value \in Values, until \in 0..2 * Forever :
       Remember([slot |-> slot, value |-> value, until |-> until])
  \/ \E entry \in entries : Forget(entry)
  \/ \E now \in 0..clock : Expire(now)

Spec == Init /\ [][Next]_memoryVars
=============================================================================
