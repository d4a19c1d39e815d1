----------------------------- MODULE ItemQueries -----------------------------
(***************************************************************************)
(* How items are counted and found: inventory-sync's indexFromData,        *)
(* plannerInventorySnapshot and meCraftingSnapshot, and the commands of    *)
(* inventory-query that read those files.                                  *)
(*                                                                         *)
(* A stack is [holder, slot, key, count]; Kind and Dim say of a holder     *)
(* what it is and in which dimension it stands.  A block is [holder, key,  *)
(* meta, name, dim].                                                       *)
(*                                                                         *)
(* Abstractions.  The texts a query is compared with are left out: Exact   *)
(* and Score say how an item compares.  Printing is left out, and with it  *)
(* order and limit of the printed hits.                                    *)
(***************************************************************************)
EXTENDS QuestPlanner

CONSTANTS
  Kind,     \* Kind[h]: holder h is one of "players", "containers", "me"
  Dim,      \* Dim[h]: the dimension of holder h
  Exact,    \* Exact[text]: the items one of whose names is that text
  Score,    \* Score[text][k]: how far item k is from the text; 0: an alias of it
  Rank,     \* Rank[k]: item k by display name, then by registry
  Recipes   \* the crafting patterns of the networks: [network, inputs]

Holders == DOMAIN Kind
Kinds == {"players", "containers", "me"}

\* Keys are numbered in the order of the item list; a key is the id of a
\* registry name with a damage.  resolveQuery subtracts
\* 10 from the score of an item that is present, and no two scores but those
\* of an alias and of a compact match are closer.
ASSUME ItemAssumption ==
  /\ Keys \subseteq Nat
  /\ \A k, l \in Keys : Catalog[k].registry = Catalog[l].registry
                         /\ Catalog[k].damage = Catalog[l].damage => k = l
  /\ Kind \in [Holders -> Kinds] /\ DOMAIN Dim = Holders
  /\ DOMAIN Exact = DOMAIN Score /\ Rank \in [Keys -> Nat]
  /\ \A text \in DOMAIN Exact : Exact[text] \subseteq Keys
  /\ \A recipe \in Recipes : \A input \in recipe.inputs : input.key \in Keys /\ input.count \in Nat
  /\ \A text \in DOMAIN Score : Score[text] \in [Keys -> {0, 2, Nothing} \union {n \in Nat : n >= 50}]

Total(stacks) == SumFunction([s \in stacks |-> s.count])

-----------------------------------------------------------------------------
(* The files *)

\* Mutant: a second stack of an item in the same holder is not added.
FirstStackOnly(stacks, k) ==
  LET of == {s \in stacks : s.key = k}
  IN  [h \in {s.holder : s \in of} |->
         (CHOOSE s \in of : s.holder = h /\ \A o \in of : o.holder = h => s.slot <= o.slot).count]

\* indexFromData: the holders of an item, with what each of them has.
HitsOf(stacks, k) ==
  LET of == {s \in stacks : s.key = k}
  IN  [h \in {s.holder : s \in of} |-> Total({s \in of : s.holder = h})]

\* The records of each kind of holder, with the time of their scan.
IndexFromData(records, blocks) ==
  LET stacks == UNION {records[kind].stacks : kind \in Kinds}
  IN  [at |-> [kind \in Kinds |-> records[kind].at], stacks |-> stacks, blocks |-> blocks,
       hits |-> [k \in Keys |-> HitsOf(stacks, k)]]

OfKind(hits, kinds) == SumFunction(Restrict(hits, {h \in DOMAIN hits : Kind[h] \in kinds}))

\* plannerInventorySnapshot.  (from: the stacks it stands for; not in the file.)
InventorySnapshot(index) ==
  [at |-> index.at, from |-> index.stacks,
   scopes |-> [k \in Keys |-> [kind \in Kinds |-> OfKind(index.hits[k], {kind})]],
   totals |-> [k \in Keys |-> OfKind(index.hits[k], Kinds)]]

\* meCraftingSnapshot: the networks that have patterns, with their stacks.
CraftingSnapshot(index) ==
  [at |-> index.at, networks |-> [n \in {r.network : r \in Recipes} |->
                                    {s \in index.stacks : s.holder = n}]]

-----------------------------------------------------------------------------
(* Finding the item that is meant *)

\* resolveExactItemMeta: the registry name, or else the only item whose name
\* it is when the prefix item. or tile. is added.
ResolveExact(registry, damage) ==
  LET named == Named("registry", registry, damage)
      legacy == Named("bare", registry, damage)
  IN  CASE named # {} -> Min(named)
        [] named = {} /\ Cardinality(legacy) = 1 -> Min(legacy)
        [] OTHER -> Nothing

\* resolveFindKeys: with a damage only the first key, without one all of them.
FindKeys(registry, damage) ==
  LET keys == {k \in Keys : Catalog[k].registry = registry
                            /\ (damage # Nothing => Catalog[k].damage = damage)}
  IN  IF damage # Nothing /\ keys # {} THEN {Min(keys)} ELSE keys

\* resolveExactQuery
NamedExactly(text) == Exact[text]

Similar(text) == {k \in Keys : Score[text][k] # Nothing}

\* resolveQuery without an exact match: the first of those that are similar.
BestMatch(text, count) ==
  LET score(k) == Score[text][k] - Points(count[k] > 0, 10)
      first(k, o) == \/ score(k) < score(o)
                     \/ score(k) = score(o) /\ Rank[k] < Rank[o]
                     \/ score(k) = score(o) /\ Rank[k] = Rank[o] /\ count[k] > count[o]
                     \/ score(k) = score(o) /\ Rank[k] = Rank[o] /\ count[k] = count[o] /\ k <= o
  IN  {k \in Similar(text) : \A o \in Similar(text) : first(k, o)}

\* The one item cmdCountItem and cmdFindItem answer for.  The results of
\* resolveExactQuery carry no aliases: two are ambiguous.
ResolveQuery(text, count) ==
  CASE NamedExactly(text) # {} -> IF Cardinality(NamedExactly(text)) = 1 THEN NamedExactly(text) ELSE {}
    [] NamedExactly(text) = {} /\ Cardinality(Similar(text)) = 1 -> Similar(text)
    [] OTHER -> {k \in BestMatch(text, count) : Score[text][k] = 0}

-----------------------------------------------------------------------------
(* The commands *)

\* scopeSet
ScopeSet(scope) ==
  CASE scope = "all" -> Kinds
    [] scope = "both" -> {"players", "containers"}
    [] scope = "chests" -> {"containers"}
    [] OTHER -> {scope}

\* filterItemHitsByDimension
InDimension(hits, dim) ==
  Restrict(hits, {h \in DOMAIN hits : dim # Nothing => Dim[h] = dim})

\* cmdTotals, of one item.
TotalsOf(index, k, scope, dim) ==
  [kind \in Kinds |-> IF kind \in ScopeSet(scope)
                      THEN OfKind(InDimension(index.hits[k], dim), {kind}) ELSE 0]

\* mergeHits and printFind: who holds how much of which of the items.
Find(index, keys, scope, dim) ==
  UNION {LET found == InDimension(index.hits[k], dim)
         IN  {[key |-> k, holder |-> h, count |-> found[h]] :
                h \in {g \in DOMAIN found : Kind[g] \in ScopeSet(scope)}} : k \in keys}

\* cmdChest: the stacks of one container.
ChestItems(index, h) == {s \in index.stacks : s.holder = h}

\* resolveBlockKeys: a key may stand for blocks of several names.
BlockKeys(blocks, name, meta) ==
  {b.key : b \in {c \in blocks : c.name = name /\ (meta # Nothing => c.meta = meta)}}

\* cmdFindBlock
FindBlock(index, name, meta, dim) ==
  LET keys == BlockKeys(index.blocks, name, meta)
      merged == {b \in index.blocks : b.key \in keys}
  IN  {b \in merged : b.name = name /\ (dim # Nothing => b.dim = dim)}

\* meCraftingAssessment, of one input of a pattern; totals may be missing.
Assess(crafting, totals, recipe, input) ==
  LET me == Total({s \in crafting.networks[recipe.network] : s.key = input.key})
      scope(kind) == IF totals = Nothing THEN 0 ELSE totals.scopes[input.key][kind]
      shared == scope("containers") + me
      lacks(n) == IF input.count > n THEN input.count - n ELSE 0
  IN  [me |-> me, shared |-> shared, total |-> scope("players") + shared,
       missing |-> lacks(me), missingShared |-> lacks(shared)]
=============================================================================
