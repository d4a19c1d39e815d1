----------------------------- MODULE QuestIndex -----------------------------
(***************************************************************************)
(* inventory-sync/quests.go, scanQuests: the quest index, built from the   *)
(* quest database and the progress files of the members of one party, and  *)
(* main.go, plannerQuestSnapshot: the compact form of it that the planner  *)
(* reads.                                                                  *)
(*                                                                         *)
(* Abstractions.  The JSON forms, texts and the selection of the party by  *)
(* its name are left out: Members is the selected party.  A progress file  *)
(* says of a quest whose completions it lists, in their order, which of    *)
(* them have claimed the reward, and which tasks have been done.  The name *)
(* cache has all members or cannot be read.                                *)
(***************************************************************************)
EXTENDS Naturals, FiniteSets, Sequences, Functions

CONSTANTS
  Quests,    \* the ids of the quest database
  Members,   \* the members of the party
  Tasks,     \* Tasks[q]: the tasks of quest q
  Line,      \* Line[q]: the quest line of quest q
  TierLine,  \* TierLine[l]: line l is a tier line
  NoFile,    \* in the place of a progress file that could not be fetched
  Uuid       \* Uuid[m]: what member m is called without a name

ASSUME QuestAssumption ==
  /\ Quests \subseteq Nat /\ IsFiniteSet(Quests) /\ IsFiniteSet(Members)
  /\ DOMAIN Tasks = Quests /\ DOMAIN Line = Quests
  /\ \A q \in Quests : IsFiniteSet(Tasks[q])
  /\ TierLine \in [Range(Line) -> BOOLEAN]

NoProgress == [by |-> <<>>, claimed |-> {}, tasks |-> {}]

\* A progress file that cannot be decoded becomes an empty record.
Blank == [q \in Quests |-> NoProgress]

-----------------------------------------------------------------------------
(* Parsing a progress file *)

\* collectCompletedQuestIDs descends into the list of completions and takes
\* the key of a claimed one, its position, for a quest id.
Misread(file) ==
  UNION {{i - 1 : i \in {j \in DOMAIN file[q].by : file[q].by[j] \in file[q].claimed}} :
           q \in Quests}

\* collectQuestProgressRows, questClaimStatus: any completion in the file
\* completes the quest; the claim is that of the file's owner, if listed.
ProgressRow(file, owner, q) ==
  [completed |-> file[q].by # <<>> \/ q \in Misread(file),
   known     |-> owner \in Range(file[q].by),
   claimed   |-> owner \in file[q].claimed,
   tasks     |-> file[q].tasks]

-----------------------------------------------------------------------------
(* Building the index *)

Matched(read) == {m \in Members : read[m] # NoFile}

\* Mutant: the rows of the file's owner decide alone whether it is complete.
OwnCompletedBy(read, q) ==
  {m \in Matched(read) : ProgressRow(read[m], m, q).known}

\* The union of the members' completions, of the files that were fetched.
CompletedBy(read, q) ==
  {m \in Matched(read) : ProgressRow(read[m], m, q).completed}

ClaimStatus(read, q, claimed) ==
  {m \in CompletedBy(read, q) :
     /\ ProgressRow(read[m], m, q).known
     /\ ProgressRow(read[m], m, q).claimed = claimed}

TaskDoneBy(read, q, t) == {m \in Matched(read) : t \in ProgressRow(read[m], m, q).tasks}

DoneTasks(read, q) == {t \in Tasks[q] : TaskDoneBy(read, q, t) # {}}

BlockedBy(pre, read, q) ==
  {p \in pre[q] : p \in Quests => CompletedBy(read, p) = {}}

Unlocks(pre, q) == {r \in Quests : q \in pre[r]}

QuestState(pre, read, q) ==
  LET by == CompletedBy(read, q)
      known == {m \in by : ProgressRow(read[m], m, q).known}
  IN  CASE by # {} /\ ClaimStatus(read, q, FALSE) # {} -> "completed_unclaimed"
        [] by # {} /\ ClaimStatus(read, q, FALSE) = {} ->
             IF known = by THEN "completed_claimed" ELSE "completed_claim_unknown"
        [] by = {} /\ BlockedBy(pre, read, q) # {} -> "locked"
        [] OTHER -> IF DoneTasks(read, q) # {} THEN "in_progress" ELSE "ready"

\* The open and the completed quests of a line.
LineCount(read, l, completed) ==
  Cardinality({q \in Quests : Line[q] = l /\ (CompletedBy(read, q) # {}) = completed})

\* Members appear under their names in the cache, or else under their ids.
NameIn(named, m) == IF m \in named THEN m ELSE Uuid[m]
NamesIn(named, S) == {NameIn(named, m) : m \in S}

\* Of the progress of the players (player_progress), which has both names and
\* ids, the record keeps the ids of those who may claim.
QuestRecord(pre, read, named, q) ==
  [completed   |-> CompletedBy(read, q) # {},
   completedBy |-> NamesIn(named, CompletedBy(read, q)),
   claimedBy   |-> NamesIn(named, ClaimStatus(read, q, TRUE)),
   claimableBy |-> NamesIn(named, ClaimStatus(read, q, FALSE)),
   claimantIds |-> {Uuid[m] : m \in ClaimStatus(read, q, FALSE)},
   pre         |-> pre[q],
   unlocks     |-> Unlocks(pre, q),
   blockedBy   |-> BlockedBy(pre, read, q),
   state       |-> QuestState(pre, read, q),
   doneBy      |-> [t \in Tasks[q] |-> NamesIn(named, TaskDoneBy(read, q, t))]]

\* scanQuests, with the files and the names it has read.
Scan(pre, read, named, now) ==
  [version |-> 2, at |-> now, matched |-> Cardinality(Matched(read)),
   open    |-> [l \in Range(Line) |-> LineCount(read, l, FALSE)],
   closed  |-> [l \in Range(Line) |-> LineCount(read, l, TRUE)],
   quests  |-> [q \in Quests |-> QuestRecord(pre, read, named, q)]]

\* Mutant: the compact form leaves out who may claim.
SnapshotWithoutClaims(index) ==
  [index EXCEPT !.version = 1,
     !.quests = [q \in Quests |-> [Restrict(index.quests[q],
        {"completed", "claimableBy", "pre", "unlocks", "state", "doneBy"}) EXCEPT !.claimableBy = {}]]]

\* plannerQuestSnapshot
Snapshot(index) ==
  [index EXCEPT !.version = 1,
     !.quests = [q \in Quests |-> Restrict(index.quests[q],
        {"completed", "claimableBy", "pre", "unlocks", "state", "doneBy"})]]
=============================================================================
