----------------------------- MODULE MCWorkspace -----------------------------
(***************************************************************************)
(* A party of two, three quests (two of a tier line), three items of which *)
(* two share a name, a player's inventory, a chest and a network.          *)
(***************************************************************************)
EXTENDS Workspace, TLC

Party == {"ann", "bob"}
Ids == [ann |-> "ann's id", bob |-> "bob's id"]
QuestIds == {1, 2, 3}
QuestTasks == 2 :> {"craft"} @@ 3 :> {"bring", "smelt"} @@ 1 :> {}
QuestLines == 2 :> "ev" @@ 3 :> "ev" @@ 1 :> "bees"
TierLines == [ev |-> TRUE, bees |-> FALSE]
LineOrder == [ev |-> 4, bees |-> 9]

\* A quest that waits for two; a chain through quest 1; and one quest that waits
\* for a missing one, with two that wait for each other.
Branch == 2 :> {} @@ 3 :> {2} @@ 1 :> {2, 3}
Chain == 2 :> {} @@ 1 :> {2} @@ 3 :> {1}
Stuck == 2 :> {9} @@ 3 :> {1} @@ 1 :> {3}

\* Quest 2 is open, or completed for both of them in ann's progress file and
\* for ann alone in bob's.  When ann claims it, her place in the list is taken
\* for quest 1.
With2(by) == [m \in Party |-> [q \in QuestIds |->
                IF q = 2 THEN [NoProgress EXCEPT !.by = by[m]] ELSE NoProgress]]
Fresh == With2([m \in Party |-> <<>>])
Completed2 == With2([ann |-> <<"bob", "ann">>, bob |-> <<"ann">>])
AllStarts == {<<Branch, Fresh>>, <<Branch, Completed2>>, <<Chain, Completed2>>, <<Stuck, Fresh>>}

Items ==
  1 :> [registry |-> "gt:ingot", bare |-> Nothing, display |-> "Ingot", damage |-> 0] @@
  2 :> [registry |-> "gt:item.dust", bare |-> "gt:dust", display |-> "Dust", damage |-> 0] @@
  3 :> [registry |-> "gt:tile.dust", bare |-> "gt:dust", display |-> "Dust", damage |-> 0]

Numbered(k, n) == [key |-> k, registry |-> Nothing, display |-> Nothing, damage |-> 0, count |-> n]
TaskNeeds ==
  [craft |-> {[Numbered(Nothing, 1) EXCEPT !.display = "Dust"]},
   bring |-> {Numbered(1, 1), [Numbered(Nothing, 0) EXCEPT !.registry = "gt:item.dust"]},
   smelt |-> {Numbered(1, 1)}]

HolderKinds == [bag |-> "players", chest |-> "containers", net |-> "me"]
HolderDims == [bag |-> 0, chest |-> 0, net |-> 7]
Put(h, s, k, n) == [holder |-> h, slot |-> s, key |-> k, count |-> n]
AllStocks == {{Put("bag", 1, 1, 1), Put("chest", 2, 1, 1), Put("net", 3, 2, 1)}}

ExactTexts == [ingot |-> {1}, dust |-> {2, 3}, gold |-> {}]
TextScores ==
  [ingot |-> 1 :> 0 @@ 2 :> Nothing @@ 3 :> Nothing,
   dust  |-> 1 :> Nothing @@ 2 :> 0 @@ 3 :> 0,
   gold  |-> 1 :> 60 @@ 2 :> 0 @@ 3 :> 55]
Ranks == 1 :> 1 @@ 2 :> 2 @@ 3 :> 2

TheRecipes == {[network |-> "net", inputs |-> {[key |-> 1, count |-> 2], [key |-> 2, count |-> 1]}]}
TheBlocks == {[holder |-> "b1", key |-> 5, meta |-> 1, name |-> "Macerator", dim |-> 0],
              [holder |-> "b2", key |-> 5, meta |-> 1, name |-> "Furnace", dim |-> 0]}

Requests == {[user |-> "ann", claims |-> TRUE, tier |-> Nothing],
             [user |-> "ann's id", claims |-> TRUE, tier |-> Nothing],
             [user |-> NoPlayer, claims |-> FALSE, tier |-> {"ev"}]}
LookupRequests == {[registry |-> "gt:ingot", damage |-> 0, scope |-> "both", dim |-> 0],
                   [registry |-> "gt:dust", damage |-> 0, scope |-> "all", dim |-> Nothing]}
BlockLookups == {[name |-> "Furnace", meta |-> Nothing, dim |-> Nothing]}
Tasks1 == {[id |-> 1, status |-> "doing", priority |-> "high", owner |-> "ann"]}
=============================================================================
