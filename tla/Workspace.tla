------------------------------ MODULE Workspace ------------------------------
(***************************************************************************)
(* The files between inventory-sync and the two query programs: the sync   *)
(* loop reads the progress of the players and the items of the game one    *)
(* file at a time and writes its indexes one file at a time, while the     *)
(* game goes on; gtnh_quest_query and gtnh_inventory_query answer from     *)
(* what files there are.                                                   *)
(*                                                                         *)
(* Abstractions.  What is due in a cycle is InventorySync's: the quests    *)
(* may be left out of any cycle here.                                      *)
(* Positions, containers and blocks do not change.  The queries change     *)
(* nothing: Answer and the operators of ItemQueries are their answers from *)
(* the files there are at any moment.  Files of two cycles, which a query  *)
(* can read when one ends meanwhile, also lie there within a cycle and     *)
(* after a failed write.                                                   *)
(***************************************************************************)
EXTENDS ItemQueries

CONSTANTS
  Blocks,          \* the blocks of the block index
  Starts,          \* the prerequisites of the quest database, and the progress made before
  Stocks,          \* the stacks there may be before
  PlanRequests,    \* what the planner is asked: [user, claims, tier]
  Limit,           \* the --limit of a plan
  Lookups,         \* what totals and find are asked: [registry, damage, scope, dim]
  BlockRequests,   \* what find-block is asked: [name, meta, dim]
  Hours,           \* the hours a tick of the clock may take
  MaxDeeds,        \* bound: what the players do, and the times hours pass
  MaxFaults        \* bound: files that cannot be read or written

Progress == [by : Seq(Members), claimed : SUBSET Members, tasks : SUBSET DOMAIN Needs]

Stack == [holder : Holders, slot : Nat, key : Keys, count : Nat]

\* A plan has a limit from 1 to 20.  The key of a block is its id and meta.
ASSUME WorkspaceAssumption ==
  /\ Limit \in 1..20
  /\ NoFile \notin [Quests -> Progress]
  /\ \A start \in Starts : start[2] \in [Members -> [Quests -> Progress]]
  /\ \A stock \in Stocks : IsFiniteSet(stock) /\ stock \subseteq Stack
  /\ \A b, c \in Blocks : b.key = c.key => b.meta = c.meta

VARIABLES
  pre,        \* the prerequisites of the quest database
  progress,   \* the progress file of every member, in the game
  stacks,     \* the item stacks, in the game
  hour,       \* the clock, in hours
  stage,      \* what the sync loop does next
  unread,     \* the progress files its scan has not come to
  read,       \* the progress files it has read
  named,      \* the members whose names it knows
  records,    \* the stacks it knows, by kind, with the time of their scan
  fresh,      \* the index it is writing
  seen,       \* (history) the progress files when the scan began
  decoded,    \* (history) the members whose files it has fetched and decoded
  questIndex, plannerIndex, itemIndex, totals, crafting, flagged,   \* the files
  deeds, faults

game  == <<pre, progress, stacks, hour, deeds>>
scan  == <<unread, read, named, seen, decoded>>
sync  == <<stage, scan, records, fresh>>
files == <<questIndex, plannerIndex, itemIndex, totals, crafting, flagged>>
vars  == <<game, sync, files, faults>>

Unread == [m \in Members |-> NoFile]
NoRecords == [kind \in Kinds |-> [at |-> 0, stacks |-> {}]]

Fault == faults < MaxFaults /\ faults' = faults + 1

-----------------------------------------------------------------------------
(* The game *)

Deed == deeds < MaxDeeds /\ deeds' = deeds + 1

Done(history, q) == \E m \in Members : history[m][q].by # <<>>

\* The game gives progress in unlocked quests only.
Unlocked(q) == \A p \in pre[q] : p \in Quests /\ Done(progress, p)

DoTask(m, q, t) ==
  /\ Deed
  /\ Unlocked(q) /\ t \notin progress[m][q].tasks
  /\ progress' = [progress EXCEPT ![m][q].tasks = @ \union {t}]
  /\ UNCHANGED <<pre, stacks, hour>>

\* The game notes in m's file that user has completed the quest.
Complete(m, q, user) ==
  /\ Deed
  /\ Unlocked(q) /\ user \notin Range(progress[m][q].by)
  /\ progress' = [progress EXCEPT ![m][q].by = Append(@, user)]
  /\ UNCHANGED <<pre, stacks, hour>>

Claim(m, q) ==
  /\ Deed
  /\ m \in Range(progress[m][q].by) \ progress[m][q].claimed
  /\ progress' = [progress EXCEPT ![m][q].claimed = @ \union {m}]
  /\ UNCHANGED <<pre, stacks, hour>>

Move(s, h) ==
  /\ Deed
  /\ \A o \in stacks : o.holder = h => o.slot # s.slot
  /\ stacks' = (stacks \ {s}) \union {[s EXCEPT !.holder = h]}
  /\ UNCHANGED <<pre, progress, hour>>

\* Bound: a cycle of the sync loop takes less than an hour.
HoursPass(hours) ==
  /\ stage = "idle" /\ Deed
  /\ hour' = hour + hours
  /\ UNCHANGED <<pre, progress, stacks>>

Game ==
  /\ \/ \E m \in Members, q \in Quests :
          \/ \E t \in Tasks[q] : DoTask(m, q, t)
          \/ \E user \in Members : Complete(m, q, user)
          \/ Claim(m, q)
     \/ \E s \in stacks, h \in Holders : Move(s, h)
     \/ \E hours \in Hours : HoursPass(hours)
  /\ UNCHANGED <<sync, files, faults>>

-----------------------------------------------------------------------------
(* The sync loop *)

\* A cycle starts from the records of the index file.
BeginCycle ==
  /\ stage = "idle"
  /\ stage' = "players"
  /\ records' = [kind \in Kinds |->
       [at     |-> itemIndex.at[kind],
        stacks |-> {s \in itemIndex.stacks : Kind[s.holder] = kind}]]
  /\ UNCHANGED <<scan, fresh, files, faults>>

Scanned(kind, holders) ==
  [records EXCEPT ![kind] =
     [at |-> hour, stacks |-> {s \in stacks : Kind[s.holder] = kind /\ s.holder \in holders}]]

\* scanPlayers, scanME and the scans of the containers: all the items of one
\* kind, or none when they cannot be read.  scanPlayers passes over the file of
\* a player.
ScanItems(kind, next) ==
  /\ stage = kind
  /\ \/ records' = Scanned(kind, Holders) /\ UNCHANGED faults
     \/ Fault /\ UNCHANGED records
     \/ /\ Fault /\ kind = "players"
        /\ \E h \in Holders : Kind[h] = kind /\ records' = Scanned(kind, Holders \ {h})
  /\ stage' = next
  /\ UNCHANGED <<scan, fresh, files>>

\* The quest database has been read; the name cache and the parties, or the
\* list of the progress files, may fail.
BeginQuests ==
  /\ stage = "quests"
  /\ stage' = "progress"
  /\ unread' \in {Members, {}} /\ named' \in {Members, {}}
  /\ IF unread' = Members /\ named' = Members THEN UNCHANGED faults ELSE Fault
  /\ read' = Unread /\ seen' = progress /\ decoded' = {}
  /\ UNCHANGED <<records, fresh, files>>

SkipQuests ==
  /\ stage = "quests"
  /\ stage' = "containers"
  /\ UNCHANGED <<scan, records, fresh, files, faults>>

\* A progress file that cannot be fetched is passed over; one that cannot be
\* decoded is one without progress.
ReadProgress(m) ==
  /\ stage = "progress" /\ m \in unread
  /\ unread' = unread \ {m}
  /\ \/ /\ read' = [read EXCEPT ![m] = progress[m]] /\ decoded' = decoded \union {m}
        /\ UNCHANGED faults
     \/ Fault /\ UNCHANGED <<read, decoded>>
     \/ Fault /\ read' = [read EXCEPT ![m] = Blank] /\ UNCHANGED decoded
  /\ UNCHANGED <<stage, named, seen, records, fresh, files>>

EndQuests ==
  /\ stage = "progress" /\ unread = {}
  /\ fresh' = [index |-> Scan(pre, read, named, hour), seen |-> seen, decoded |-> decoded,
               named |-> named]
  /\ stage' = "questIndex"
  /\ read' = Unread /\ seen' = Unread /\ named' = {} /\ decoded' = {}
  /\ UNCHANGED <<unread, records, files, faults>>

\* atomicWriteJSON, of the last scan; a failed write leaves the old file.
WriteQuestIndex ==
  /\ stage = "questIndex"
  /\ \/ questIndex' = fresh /\ UNCHANGED faults
     \/ Fault /\ UNCHANGED questIndex
  /\ stage' = "plannerIndex"
  /\ UNCHANGED <<scan, records, fresh, plannerIndex, itemIndex, totals, crafting, flagged>>

WritePlannerIndex ==
  /\ stage = "plannerIndex"
  /\ \/ plannerIndex' = [fresh EXCEPT !.index = Snapshot(@)] /\ UNCHANGED faults
     \/ Fault /\ UNCHANGED plannerIndex
  /\ stage' = "containers" /\ fresh' = Nothing
  /\ UNCHANGED <<scan, records, questIndex, itemIndex, totals, crafting, flagged>>

WriteItemIndex ==
  /\ stage = "itemIndex"
  /\ fresh' = IndexFromData(records, Blocks)
  /\ \/ itemIndex' = fresh' /\ UNCHANGED faults
     \/ Fault /\ UNCHANGED itemIndex
  /\ stage' = "totals" /\ records' = NoRecords
  /\ UNCHANGED <<scan, questIndex, plannerIndex, totals, crafting, flagged>>

WriteTotals ==
  /\ stage = "totals"
  /\ \/ totals' = InventorySnapshot(fresh) /\ UNCHANGED faults
     \/ Fault /\ UNCHANGED totals
  /\ stage' = "crafting"
  /\ UNCHANGED <<scan, records, fresh, questIndex, plannerIndex, itemIndex, crafting, flagged>>

WriteCrafting ==
  /\ stage = "crafting"
  /\ \/ crafting' = CraftingSnapshot(fresh) /\ UNCHANGED faults
     \/ Fault /\ UNCHANGED crafting
  /\ stage' = "status"
  /\ UNCHANGED <<scan, records, fresh, questIndex, plannerIndex, itemIndex, totals, flagged>>

\* The status file: players and networks are stale within the hour, the
\* containers after a day.
WriteStatus ==
  /\ stage = "status"
  /\ \/ /\ flagged' = \E kind \in Kinds : \/ fresh.at[kind] = 0
                                          \/ hour - fresh.at[kind] > (IF kind = "containers" THEN 24 ELSE 0)
        /\ UNCHANGED faults
     \/ Fault /\ UNCHANGED flagged
  /\ stage' = "idle"
  /\ fresh' = Nothing
  /\ UNCHANGED <<scan, records, questIndex, plannerIndex, itemIndex, totals, crafting>>

\* The process ends and is started again.
SyncCrash ==
  /\ stage # "idle"
  /\ Fault
  /\ stage' = "idle" /\ unread' = {} /\ read' = Unread /\ records' = NoRecords
  /\ fresh' = Nothing /\ seen' = Unread /\ named' = {} /\ decoded' = {}
  /\ UNCHANGED files

Sync ==
  /\ \/ BeginCycle
     \/ ScanItems("players", "me")
     \/ ScanItems("me", "quests")
     \/ BeginQuests \/ SkipQuests \/ (\E m \in Members : ReadProgress(m)) \/ EndQuests
     \/ WriteQuestIndex \/ WritePlannerIndex
     \/ ScanItems("containers", "itemIndex")
     \/ WriteItemIndex \/ WriteTotals \/ WriteCrafting \/ WriteStatus
     \/ SyncCrash
  /\ UNCHANGED game

-----------------------------------------------------------------------------
(* gtnh_quest_query: what it answers now *)

\* LoadWorkspace: the compact index, or else the full one.
QuestFile == IF plannerIndex # Nothing THEN plannerIndex ELSE questIndex

\* inventoryCount
InventoryCount(k) ==
  IF totals # Nothing THEN totals.totals[k] ELSE OfKind(itemIndex.hits[k], Kinds)

\* The totals, or else the item index; then the status file.
StockLoaded ==
  [totals  |-> [k \in Keys |-> InventoryCount(k)],
   at      |-> IF totals # Nothing THEN totals.at ELSE itemIndex.at,
   flagged |-> flagged]

Answer(request) ==
  IF QuestFile = Nothing THEN {}
  ELSE Range(Plan(Loaded(QuestFile.index), StockLoaded, hour, request, Limit))

-----------------------------------------------------------------------------
EmptyIndex == IndexFromData(NoRecords, {})

WorkspaceInit ==
  /\ (\E start \in Starts : pre = start[1] /\ progress = start[2]) /\ stacks \in Stocks
  /\ hour = 1 /\ deeds = 0 /\ faults = 0
  /\ stage = "idle" /\ unread = {} /\ read = Unread /\ fresh = Nothing /\ seen = Unread
  /\ named = {} /\ decoded = {}
  /\ records = NoRecords
  /\ questIndex = Nothing /\ plannerIndex = Nothing
  /\ itemIndex = EmptyIndex /\ totals = Nothing /\ crafting = Nothing /\ flagged = FALSE

WorkspaceNext == Game \/ Sync

WorkspaceSpec == WorkspaceInit /\ [][WorkspaceNext]_vars

-----------------------------------------------------------------------------
(* Properties *)

OpenOnes(answer) ==
  {c \in answer : c.source = "questbook" /\ c.state # "completed_unclaimed"}
Rewards(answer) ==
  {c \in answer : c.source = "questbook" /\ c.state = "completed_unclaimed"}

\* The scan found the quest completed in a file it decoded.
FoundDone(q) == \E m \in QuestFile.decoded : QuestFile.seen[m][q].by # <<>>

\* The parser takes a position in somebody's list of completions for the quest.
Mistaken(q) == \E m \in Members : q \in Misread(progress[m])

\* The members whose files were decoded and who are called user in the index.
Asking(user) == {m \in QuestFile.decoded : NameIn(QuestFile.named, m) = user}

\* Those whom user names in any way; the full index knows the ids of all.
Meant(user) == {m \in QuestFile.decoded : user \in {NameIn(QuestFile.named, m), Uuid[m]}}

Full(answer) == Cardinality(answer) = Limit

\* A plan recommends as open only quests whose prerequisites have all been
\* completed in the game, or have the number of a position that the parser takes
\* for a quest; none that a decoded file showed as completed when the scan began;
\* and, when there is room, it leaves out none that is open and whose
\* prerequisites such files showed as completed.  Files that could not be
\* fetched or decoded, which the index does not tell apart from files of players
\* without progress, are why the last two are about the decoded ones.
PlanExact ==
  \A request \in PlanRequests :
    LET answer == Answer(request)
        open == {c.id : c \in OpenOnes(answer)}
    IN  /\ \A q \in open : \A p \in pre[q] : p \in Quests /\ (Done(progress, p) \/ Mistaken(p))
        /\ QuestFile # Nothing => \A q \in Quests :
             /\ q \in open => ~FoundDone(q)
             /\ /\ ~Done(progress, q) /\ ~Mistaken(q)
                /\ \A p \in pre[q] : p \in Quests /\ FoundDone(p)
                /\ request.tier = Nothing \/ Line[q] \in request.tier
                => q \in open \/ Full(answer)

\* A reward is offered to a player who has completed the quest and had not
\* claimed it before the scan, and, when there is room, to every such player
\* who asks for rewards, whose file was decoded and who is called in the index
\* what the request says: by name, or by id when the name cache failed.
ClaimsExact ==
  \A request \in PlanRequests :
    LET answer == Answer(request)
        rewards == {c.id : c \in Rewards(answer)}
    IN  /\ \A q \in rewards : \E m \in Meant(request.user) :
             m \in Range(progress[m][q].by) \ QuestFile.seen[m][q].claimed
        /\ request.claims /\ request.tier = Nothing /\ QuestFile # Nothing =>
             \A m \in Asking(request.user), q \in Quests :
               m \in Range(QuestFile.seen[m][q].by) \ progress[m][q].claimed =>
                 q \in rewards \/ Full(answer)

\* What the open tasks of a quest need of the items counted under identity.
Needed(open, identity) ==
  SumFunction([t \in open |->
    SumFunction([item \in {i \in Needs[t] : Identity[i] = identity} |-> item.count])])

\* A quest whose materials are all said to be there needs no more of any item,
\* over all of its open tasks, than the players, containers and networks held.
\* (An item that a quest names in two ways is two items to the planner.)
ReadyMaterials ==
  \A request \in PlanRequests : \A c \in OpenOnes(Answer(request)) :
    c.materials # {} /\ (\A m \in c.materials : ~Short(m)) =>
      LET open == {t \in Tasks[c.id] :
                     ~TaskDoneFor(QuestFile.index.quests[c.id], t, request.user)}
          from == IF totals # Nothing THEN totals.from ELSE itemIndex.stacks
      IN  \A item \in UNION {Needs[t] : t \in open} :
            Needed(open, Identity[item]) <= Total({s \in from : s.key \in KeysOf[item]})

Held(from, k, kind, dim) ==
  Total({s \in from : s.key = k /\ Kind[s.holder] = kind /\ dim \in {Nothing, Dim[s.holder]}})

\* count-item: the scoped counts are those of the stacks scanned, and a text
\* that is the name of items is never answered with another, nor with one of
\* several.
CountTrue ==
  totals # Nothing => \A text \in DOMAIN Exact : \A k \in ResolveQuery(text, totals.totals) :
    /\ Exact[text] \in {{}, {k}}
    /\ \A kind \in Kinds : totals.scopes[k][kind] = Held(totals.from, k, kind, Nothing)

\* totals, find and chest: the counts are those of the stacks in the index, and
\* the contents of a holder agree with the list of an item's holders.
LookupsTrue ==
  /\ \A h \in Holders, k \in Keys :
       LET hits == itemIndex.hits[k]
       IN  Total({s \in ChestItems(itemIndex, h) : s.key = k}) =
             IF h \in DOMAIN hits THEN hits[h] ELSE 0
  /\ \A l \in Lookups :
       LET k == ResolveExact(l.registry, l.damage)
           found == Find(itemIndex, FindKeys(l.registry, l.damage), l.scope, l.dim)
       IN  /\ k # Nothing => \A kind \in Kinds :
                TotalsOf(itemIndex, k, l.scope, l.dim)[kind] =
                  IF kind \in ScopeSet(l.scope) THEN Held(itemIndex.stacks, k, kind, l.dim) ELSE 0
           /\ \A s \in itemIndex.stacks :
                /\ Catalog[s.key].registry = l.registry /\ l.damage \in {Nothing, Catalog[s.key].damage}
                /\ l.dim \in {Nothing, Dim[s.holder]} /\ Kind[s.holder] \in ScopeSet(l.scope)
                => \E hit \in found : hit.holder = s.holder /\ hit.key = s.key /\ hit.count >= s.count

\* find-block: the blocks of that name, though they share a key with others.
BlocksTrue ==
  \A l \in BlockRequests :
    FindBlock(itemIndex, l.name, l.meta, l.dim) =
      {b \in itemIndex.blocks : /\ b.name = l.name
                                /\ l.meta \in {Nothing, b.meta} /\ l.dim \in {Nothing, b.dim}}

\* me-crafting: what is not said to be missing had been there.
CraftingTrue ==
  crafting # Nothing /\ totals # Nothing =>
    \A recipe \in Recipes : \A input \in recipe.inputs :
      Assess(crafting, totals, recipe, input).missingShared = 0 =>
        input.count <= Total({s \in crafting.networks[recipe.network] : s.key = input.key})
                         + Held(totals.from, input.key, "containers", Nothing)

AnswersTrue == CountTrue /\ LookupsTrue /\ BlocksTrue /\ CraftingTrue

\* planner_test.go:70 and the skill's text: with fresh quests and items and
\* every requirement resolved, the confidence is high.
ConfidentWhenFresh ==
  \A request \in PlanRequests : \A c \in OpenOnes(Answer(request)) :
    /\ c.materials # {} /\ \A m \in c.materials : m.resolved
    /\ ~c.stale /\ ~InventoryStale(StockLoaded, hour)
    => c.confidence = "high"
=============================================================================
