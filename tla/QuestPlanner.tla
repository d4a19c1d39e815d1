---------------------------- MODULE QuestPlanner ----------------------------
(***************************************************************************)
(* internal/questplanner: which quests and tasks a player should do next,  *)
(* from the quest index, the item totals and the task board.  All of it is *)
(* computed from the files the planner has loaded.                         *)
(*                                                                         *)
(* Abstractions.  Wording is left out; of the freshness only the staleness *)
(* is kept.  A message is the quest lines whose name contains the tier it  *)
(* asks for, if it does, and whether it asks for claims.  Times are        *)
(* counted in ticks of an hour.                                            *)
(***************************************************************************)
EXTENDS QuestIndex, Integers, FiniteSetsExt

CONSTANTS
  Catalog,    \* Catalog[k]: registry name, display name and damage of item k
  Needs,      \* Needs[t]: the items task t requires
  TierOrder,  \* TierOrder[l]: the order of quest line l
  Board,      \* the rows of the task board
  NoPlayer,   \* a request without a player, a task without an owner
  Nothing     \* an absent id, name, tier or file

Keys == DOMAIN Catalog

-----------------------------------------------------------------------------
(* Items *)

\* filterDamage, of the items that have the name in the field.
Named(field, name, damage) ==
  {k \in Keys : Catalog[k][field] = name /\ Catalog[k].damage = damage}

QuestItems == UNION {Needs[t] : t \in DOMAIN Needs}

\* An item that a quest names by its key is in the item list, which comes from
\* the same game (of an unknown one the code counts none).  The ids of the task
\* board are one above the greatest (gtnh_tasks.sh).
ASSUME PlannerAssumption ==
  /\ IsFiniteSet(Keys) /\ Nothing \notin Keys
  /\ UNION {Tasks[q] : q \in Quests} \subseteq DOMAIN Needs
  /\ \A t \in DOMAIN Needs : IsFiniteSet(Needs[t])
  /\ \A item \in QuestItems : item.count \in Nat /\ item.key \in Keys \union {Nothing}
  /\ IsFiniteSet(Board) /\ \A task \in Board : task.id \in Nat
  /\ \A task, other \in Board : task.id = other.id => task = other
  /\ NoPlayer \notin Members \union {Uuid[m] : m \in Members}

\* resolveQuestItem: a display name only when it names one item.
KeysOf == [item \in QuestItems |->
  CASE item.key # Nothing -> {item.key}
    [] item.key = Nothing /\ item.registry # Nothing -> Named("registry", item.registry, item.damage)
    [] OTHER ->
         LET keys == Named("display", item.display, item.damage)
         IN  IF Cardinality(keys) = 1 THEN keys ELSE {}]

\* What an item is counted under.  A registry name stays one.
Identity == [item \in QuestItems |->
  CASE item.key # Nothing -> <<item.key>>
    [] item.key = Nothing /\ item.registry # Nothing -> <<item.registry, item.damage>>
    [] OTHER -> IF KeysOf[item] # {} THEN <<CHOOSE k \in KeysOf[item] : TRUE>>
                ELSE <<"display", item.display, item.damage>>]

\* taskCompletedFor
TaskDoneFor(quest, t, user) ==
  IF user = NoPlayer THEN quest.doneBy[t] # {} ELSE user \in quest.doneBy[t]

AtLeastOne(n) == IF n < 1 THEN 1 ELSE n

\* Mutant: two tasks that need the same item are counted as one.
LargestNeed(q, quest, user, identity) ==
  LET open == {t \in Tasks[q] : ~TaskDoneFor(quest, t, user)}
      wanted(t) == {item \in Needs[t] : Identity[item] = identity}
  IN  Max({AtLeastOne(item.count) : item \in UNION {wanted(t) : t \in open}})

Required(q, quest, user, identity) ==
  LET open == {t \in Tasks[q] : ~TaskDoneFor(quest, t, user)}
      wanted(t) == {item \in Needs[t] : Identity[item] = identity}
  IN  SumFunction([t \in open |->
        SumFunction([item \in wanted(t) |-> AtLeastOne(item.count)])])

\* assessMaterials
Materials(q, quest, user, totals) ==
  LET items == UNION {Needs[t] : t \in {u \in Tasks[q] : ~TaskDoneFor(quest, u, user)}}
  IN  {[identity  |-> Identity[item], keys |-> KeysOf[item],
        required  |-> Required(q, quest, user, Identity[item]),
        available |-> SumFunction([k \in KeysOf[item] |-> totals[k]]),
        resolved  |-> KeysOf[item] # {}] : item \in items}

Short(material) == ~material.resolved \/ material.available < material.required

-----------------------------------------------------------------------------
(* Quests *)

\* normalizeQuestIndex adds the unlocks the prerequisites imply.
Loaded(file) ==
  [file EXCEPT !.quests = [q \in Quests |-> [file.quests[q] EXCEPT
     !.unlocks = @ \union {r \in Quests : q \in file.quests[r].pre}]]]

Blocked(index, q) ==
  {p \in index.quests[q].pre : p \in Quests => ~index.quests[p].completed}

DoneCount(quest) == Cardinality({t \in DOMAIN quest.doneBy : quest.doneBy[t] # {}})

\* effectiveState
EffectiveState(index, q) ==
  LET quest == index.quests[q]
  IN  CASE quest.completed ->
             IF quest.state \in {"completed_unclaimed", "completed_claim_unknown"} THEN quest.state
             ELSE "completed_claimed"
        [] ~quest.completed /\ Blocked(index, q) # {} -> "locked"
        [] OTHER -> IF quest.state = "in_progress" \/ DoneCount(quest) > 0
                    THEN "in_progress" ELSE "ready"

\* The progress of the players is only in the full index.
ClaimantIds(quest) == IF "claimantIds" \in DOMAIN quest THEN quest.claimantIds ELSE {}

\* questClaimableFor
Claimable(quest, user) == user # NoPlayer /\ user \in quest.claimableBy \union ClaimantIds(quest)

\* downstreamCount: a walk over the unlocks that visits no quest twice.
Downstream(index, q) ==
  LET Reached[n \in 0..Cardinality(Quests)] ==
        IF n = 0 THEN {q}
        ELSE LET before == Reached[n - 1]
             IN  before \union UNION {index.quests[r].unlocks : r \in before \intersect Quests}
  IN  Cardinality(Reached[Cardinality(Quests)]) - 1

\* activeTierLine: the last tier line that is begun and not finished.
ActiveTier(index) ==
  LET begun == {l \in Range(Line) : TierLine[l] /\ index.closed[l] > 0 /\ index.open[l] > 0}
  IN  IF begun = {} THEN Nothing
      ELSE CHOOSE l \in begun : \A other \in begun : TierOrder[l] >= TierOrder[other]

\* questEligibleForPlan, with the conditions evaluateQuest repeats.
Eligible(index, q, request) ==
  LET quest == index.quests[q]
  IN  /\ IF quest.completed THEN Claimable(quest, request.user) /\ request.claims
         ELSE Blocked(index, q) = {}
      /\ request.tier # Nothing => Line[q] \in request.tier

-----------------------------------------------------------------------------
(* Staleness: two hours *)

TooOld(at, now) == at = 0 \/ now - at > 2

QuestsStale(index, now) == TooOld(index.at, now)

\* inventoryDataStale; flagged: some source was stale when the status file was
\* written.
InventoryStale(stock, now) ==
  stock.flagged \/ \E kind \in DOMAIN stock.at : TooOld(stock.at[kind], now)

-----------------------------------------------------------------------------
(* Scores *)

Lesser(a, b) == IF a < b THEN a ELSE b
\* math.Round(n * part / whole)
Portion(n, part, whole) == (2 * n * part + whole) \div (2 * whole)

Points(condition, points) == IF condition THEN points ELSE 0

MaterialScore(materials) ==
  LET required == SumFunction([m \in materials |-> m.required])
      covered == SumFunction([m \in {n \in materials : n.resolved} |->
                                Lesser(m.required, m.available)])
      short == {m \in materials : Short(m)}
  IN  IF materials = {} THEN 0
      ELSE Portion(120, covered, required) + Points(short = {}, 40)
             - Lesser(64, 8 * Cardinality(materials)) - Lesser(60, 12 * Cardinality(short))

\* Collecting a reward unlocks nothing.
UnlockScore(index, q) ==
  LET now == Cardinality(index.quests[q].unlocks)
      later == Downstream(index, q)
  IN  IF index.quests[q].completed THEN 0
      ELSE Lesser(90, 15 * now) + Points(later > now, Lesser(60, 4 * (later - now)))

QuestScore(index, stock, now, q, state, materials, request) ==
  LET quest == index.quests[q]
  IN  (CASE state = "completed_unclaimed" -> 1000
         [] state \in {"completed_claimed", "completed_claim_unknown"} -> 0
         [] state = "in_progress" -> 500
         [] OTHER -> 300)
      + Points(TierLine[Line[q]], 100)
      + Points(ActiveTier(index) = Line[q], 120)
      + Points(request.tier # Nothing /\ Line[q] \in request.tier, 200)
      + (IF quest.completed \/ DoneCount(quest) = 0 THEN 0
         ELSE Portion(100, DoneCount(quest), Cardinality(Tasks[q])))
      + (IF state = "completed_unclaimed" THEN 0 ELSE MaterialScore(materials))
      + UnlockScore(index, q)
      - Points(QuestsStale(index, now), 100)
      - Points(materials # {} /\ InventoryStale(stock, now), 80)

\* questConfidence
Confidence(index, stock, now, materials) ==
  CASE index.version < 2 \/ QuestsStale(index, now) -> "low"
    [] index.version >= 2 /\ ~QuestsStale(index, now) /\ materials = {} -> "medium"
    [] OTHER -> IF InventoryStale(stock, now) \/ \E m \in materials : ~m.resolved
                THEN "low" ELSE "high"

\* evaluateQuest, of an eligible quest.
EvaluateQuest(index, stock, now, q, request) ==
  LET quest == index.quests[q]
      state == IF quest.completed THEN "completed_unclaimed" ELSE EffectiveState(index, q)
      materials == Materials(q, quest, request.user, stock.totals)
  IN  [source     |-> "questbook", id |-> q, state |-> state,
       score      |-> QuestScore(index, stock, now, q, state, materials, request),
       stale      |-> QuestsStale(index, now),
       materials  |-> materials,
       downstream |-> IF quest.completed THEN 0 ELSE Downstream(index, q),
       confidence |-> Confidence(index, stock, now, materials)]

-----------------------------------------------------------------------------
(* Tasks and plans *)

Open(task, user) ==
  /\ task.status \notin {"done", "paused"}
  /\ user # NoPlayer /\ task.owner # NoPlayer => task.owner = user

\* evaluateTask, of an open task.
EvaluateTask(task, user) ==
  [source     |-> "task_log", id |-> task.id, state |-> task.status,
   score      |-> (IF task.status = "doing" THEN 480 ELSE 180)
                    + (CASE task.priority = "high" -> 80 [] task.priority = "med" -> 35
                         [] OTHER -> 0)
                    + Points(user # NoPlayer /\ task.owner = user, 30),
   stale      |-> FALSE, materials |-> {}, downstream |-> 0, confidence |-> "medium"]

Candidates(index, stock, now, request) ==
  {EvaluateQuest(index, stock, now, q, request) : q \in {r \in Quests : Eligible(index, r, request)}}
    \union (IF request.tier # Nothing THEN {}
            ELSE {EvaluateTask(task, request.user) : task \in {u \in Board : Open(u, request.user)}})

\* By score, then quests before tasks, then by id.
Before(a, b) ==
  \/ a.score > b.score
  \/ a.score = b.score /\ a.source # b.source /\ a.source = "questbook"
  \/ a.score = b.score /\ a.source = b.source /\ a.id < b.id

\* Plan, with its limit.
Plan(index, stock, now, request, limit) ==
  LET all == Candidates(index, stock, now, request)
  IN  [i \in 1..Lesser(limit, Cardinality(all)) |->
         CHOOSE c \in all : Cardinality({d \in all : Before(d, c)}) = i - 1]
=============================================================================
