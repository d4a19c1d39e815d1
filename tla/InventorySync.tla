---------------------------- MODULE InventorySync ----------------------------
(***************************************************************************)
(* inventory-sync/main.go, main: a loop that scans the game server's files *)
(* source by source when a source is due or a refresh file asks for it,    *)
(* merges what it finds into the inventory index of the last cycle, and    *)
(* writes index, status and its own runtime state, each into a file.  The  *)
(* agent's tools write the refresh file at any time.                       *)
(*                                                                         *)
(* Abstractions.  Time is counted in ticks.  A source's data are the time  *)
(* they were taken and, for containers and blocks, the positions found.    *)
(* The files for the query programs are Workspace's.  A crash and the      *)
(* restart are one step.  The exporter of the game server never goes back  *)
(* in time.                                                                *)
(***************************************************************************)
EXTENDS InventoryMerge

CONSTANTS
  Interval,       \* Interval[s]: ticks between two scans of source s
  StaleAfter,     \* age at which an export is refused
  HasAreas,       \* INVENTORY_CHEST_AREAS is set
  BlocksEnabled,  \* INVENTORY_BLOCK_BOUNDS or _ALLOWLIST is set
  Scopes,         \* the scopes of refresh requests
  MaxTime,        \* bound on the clock
  MaxRequests,    \* bound on the refresh requests
  MaxFaults,      \* bound on the failed scans, failed writes and crashes
  None            \* no refresh file

Sources == {"players", "me", "quests", "blocks", "exports", "chests"}
\* Sources whose attempts count, not only their successes.
Fetched == {"me", "exports", "chests"}
\* The times an index holds.
Stamps == (Sources \ {"quests"}) \union {"areas"}

ASSUME InventoryAssumption ==
  /\ Interval \in [Sources -> Nat \ {0}]
  /\ StaleAfter \in Nat /\ MaxTime \in Nat \ {0} /\ MaxRequests \in Nat /\ MaxFaults \in Nat
  /\ Scopes \subseteq Sources \union {"all"}
  /\ HasAreas \in BOOLEAN /\ BlocksEnabled \in BOOLEAN

VARIABLES
  now,       \* the clock
  todo,      \* the stages the cycle has left; empty: the loop sleeps
  started,   \* the time the cycle began
  asked,     \* the request the cycle began with
  mem,       \* the runtime state in memory: scans and attempts
  work,      \* the index under construction: stamps, containers, blocks
  refused,   \* the index could not be written
  disk,      \* the runtime state file
  index,     \* the index file
  status,    \* the status file: stamps, and whether it reports `refused'
  refresh,   \* the refresh file: number and scope of a request
  requests,  \* the number of requests so far
  behind,    \* history: requests written while a cycle served another one
  lost,      \* history: requests removed by a cycle that had not read them
  scanned,   \* history: the time the last chest scan began, 0 if that was not saved
  faults     \* the number of faults so far

cycleVars == <<todo, started, asked, work, refused>>
fileVars == <<disk, index, status>>
requestVars == <<refresh, requests, behind, lost>>
vars == <<now, cycleVars, mem, fileVars, requestVars, scanned, faults>>

Times == 0..MaxTime
NoStamps == [s \in Stamps |-> 0]
Empty == <<>>   \* no records: the function with an empty domain

RuntimeStates == [scan : [Sources -> Times], attempt : [Fetched -> Times]]
Indexes == [at : [Stamps -> Times], chests : Lists(Times), blocks : Lists(Times)]
EmptyIndex == [at |-> NoStamps, chests |-> Empty, blocks |-> Empty]

\* The stages of a cycle, in their order.  The regions are read in a stage of
\* their own, after the attempt is saved.
Rank == [players |-> 1, me |-> 2, quests |-> 3, blocks |-> 4, exports |-> 5, areas |-> 6,
         chests |-> 7, scanning |-> 8, index |-> 9, status |-> 10, save |-> 11, clear |-> 12]
Stages == DOMAIN Rank

\* The stages of a cycle for these sources.
Schedule(sources) ==
  sources \union {"index", "status", "save", "clear"}
    \union (IF "exports" \in sources /\ HasAreas THEN {"areas"} ELSE {})
    \union (IF "chests" \in sources THEN {"scanning"} ELSE {})

Idle == todo = {}
At(stage) == stage \in todo /\ \A other \in todo : Rank[stage] <= Rank[other]

\* The stage is done.
Leave(stage) == At(stage) /\ todo' = todo \ {stage}

Init ==
  /\ now = 1 /\ todo = {} /\ started = 0 /\ asked = None
  /\ mem = [scan |-> [s \in Sources |-> 0], attempt |-> [s \in Fetched |-> 0]]
  /\ work = EmptyIndex /\ refused = FALSE
  /\ disk = mem /\ index = EmptyIndex
  /\ status = [at |-> NoStamps, refused |-> FALSE]
  /\ refresh = None /\ requests = 0 /\ behind = {} /\ lost = {}
  /\ scanned = 0 /\ faults = 0

-----------------------------------------------------------------------------
(* The begin of a cycle *)

\* dueSince; a time of 0 is a missing one.
DueSince(last, s) == last = 0 \/ now - last >= Interval[s]

\* fetchDue counts from the last attempt, dueSince from the last success.
Due(s) ==
  /\ s = "blocks" => BlocksEnabled
  /\ IF s \in Fetched /\ mem.attempt[s] # 0 THEN DueSince(mem.attempt[s], s)
     ELSE DueSince(mem.scan[s], s)

\* What a request adds.  An unknown scope is taken for "all".
Scope(request) ==
  CASE request = None -> {}
    [] request # None /\ request.scope = "all" ->
         IF BlocksEnabled THEN Sources ELSE Sources \ {"blocks"}
    [] OTHER -> {request.scope}

\* Mutant: the refresh file is only looked at when something is due anyway.
BeginWhenDue ==
  /\ Idle
  /\ {s \in Sources : Due(s)} # {}
  /\ todo' = Schedule({s \in Sources : Due(s)} \union Scope(refresh))
  /\ asked' = refresh
  /\ started' = now /\ work' = index /\ refused' = FALSE
  /\ UNCHANGED <<now, mem, fileVars, requestVars, scanned, faults>>

\* Nothing due: the loop sleeps, which is a stuttering step.
BeginCycle ==
  /\ Idle
  /\ LET due == {s \in Sources : Due(s)} \union Scope(refresh)
     IN  due # {} /\ todo' = Schedule(due)
  /\ asked' = refresh
  /\ started' = now /\ work' = index /\ refused' = FALSE
  /\ UNCHANGED <<now, mem, fileVars, requestVars, scanned, faults>>

-----------------------------------------------------------------------------
(* The scans *)

\* A stage of the cycle leaves only the runtime state and the index
\* under construction changed.
Step(s) ==
  /\ Leave(s)
  /\ UNCHANGED <<now, started, asked, refused, fileVars, requestVars, scanned>>

Fault ==
  /\ faults < MaxFaults
  /\ faults' = faults + 1

Attempted(s) == [mem EXCEPT !.attempt[s] = now]
Succeeded(state, s, time) == [state EXCEPT !.scan[s] = time]

\* scanPlayers, scanQuests
ScanPlain(s) ==
  /\ s \in {"players", "quests"}
  /\ Step(s)
  /\ \/ Fault /\ UNCHANGED <<mem, work>>
     \/ /\ mem' = Succeeded(mem, s, now) /\ UNCHANGED faults
        /\ work' = IF s = "players" THEN [work EXCEPT !.at[s] = now] ELSE work

\* An export generated at this time is accepted.  0: it has no valid time.
Fresh(time) == time # 0 /\ (time >= started \/ started - time <= StaleAfter)

\* scanME fails, finds a stale export, or takes it.
ScanME ==
  /\ Step("me")
  /\ \/ Fault /\ mem' = Attempted("me") /\ UNCHANGED work
     \/ \E time \in work.at["me"]..now :
          /\ Fresh(time) /\ UNCHANGED faults
          /\ mem' = Succeeded(Attempted("me"), "me", time)
          /\ work' = [work EXCEPT !.at["me"] = time]

\* A complete scan replaces all blocks, the exported ones too.
ScanBlocks ==
  /\ Step("blocks")
  /\ \/ (Fault \/ (~BlocksEnabled /\ UNCHANGED faults)) /\ UNCHANGED <<mem, work>>
     \/ /\ BlocksEnabled /\ UNCHANGED faults
        /\ mem' = Succeeded(mem, "blocks", now)
        /\ \E found \in SUBSET Positions :
             work' = [work EXCEPT !.at["blocks"] = now,
                        !.blocks = [p \in found |-> [source |-> "region", at |-> now]]]

\* scanBlockInventories: machines and their blocks.
ScanExports ==
  /\ Step("exports")
  /\ \/ Fault /\ mem' = Attempted("exports") /\ UNCHANGED work
     \/ \E time \in work.at["exports"]..now, found \in SUBSET Positions :
          /\ Fresh(time) /\ UNCHANGED faults
          /\ mem' = Succeeded(Attempted("exports"), "exports", time)
          /\ work' = [at |-> [work.at EXCEPT !["exports"] = time],
                      chests |-> Merged(work.chests, found, "block_export", time),
                      blocks |-> Merged(work.blocks, found, "block_export", time)]

\* scanChestAreas goes with the exports.
ScanAreas ==
  /\ Step("areas")
  /\ UNCHANGED mem
  /\ \/ Fault /\ UNCHANGED work
     \/ \E found \in SUBSET Positions :
          /\ UNCHANGED faults
          /\ work' = [work EXCEPT !.at["areas"] = now,
                        !.chests = Merged(work.chests, found, "area", now)]

\* Mutant: the attempt is saved with everything else, at the end.
BeginChestsUnsaved ==
  /\ Leave("chests")
  /\ mem' = Attempted("chests")
  /\ scanned' = now
  /\ UNCHANGED <<now, started, asked, work, refused, fileVars, requestVars, faults>>

\* The attempt, and what the cycle has noted so far, is saved before the scan
\* of all regions, which takes minutes.
BeginChests ==
  /\ Leave("chests")
  /\ mem' = Attempted("chests")
  /\ \/ disk' = mem' /\ scanned' = now /\ UNCHANGED faults
     \/ Fault /\ scanned' = 0 /\ UNCHANGED disk
  /\ UNCHANGED <<now, started, asked, work, refused, index, status, requestVars>>

ScanChests ==
  /\ Step("scanning")
  /\ \/ Fault /\ UNCHANGED <<mem, work>>
     \/ /\ mem' = Succeeded(mem, "chests", now) /\ UNCHANGED faults
        /\ \E found \in SUBSET Positions :
             work' = [work EXCEPT !.at["chests"] = now,
                        !.chests = Merged(work.chests, found, "region", now)]

-----------------------------------------------------------------------------
(* The end of a cycle *)

\* Mutant: a failed write is logged but not reported.
WriteIndexSilently ==
  /\ Leave("index")
  /\ \/ index' = work /\ UNCHANGED faults
     \/ Fault /\ UNCHANGED index
  /\ UNCHANGED <<now, started, asked, mem, work, refused, disk, status, requestVars,
                 scanned>>

WriteIndex ==
  /\ Leave("index")
  /\ \/ index' = work /\ UNCHANGED <<refused, faults>>
     \/ Fault /\ refused' = TRUE /\ UNCHANGED index
  /\ UNCHANGED <<now, started, asked, mem, work, disk, status, requestVars, scanned>>

\* The status shows the times of the index that was built, written or not.
WriteStatus ==
  /\ Leave("status")
  /\ \/ status' = [at |-> work.at, refused |-> refused] /\ UNCHANGED faults
     \/ Fault /\ UNCHANGED status
  /\ UNCHANGED <<now, started, asked, mem, work, refused, disk, index, requestVars,
                 scanned>>

Save ==
  /\ Leave("save")
  /\ \/ disk' = mem /\ UNCHANGED faults
     \/ Fault /\ UNCHANGED disk
  /\ UNCHANGED <<now, started, asked, mem, work, refused, index, status, requestVars,
                 scanned>>

\* Mutant: the refresh file is removed by every cycle.
Removes == TRUE

\* clearRefreshRequest: only a cycle that began with a request removes the
\* file, whatever it holds by then.
HasRefresh == asked # None

Clear ==
  /\ Leave("clear")
  /\ \/ /\ HasRefresh /\ UNCHANGED faults
        /\ refresh' = None
        /\ lost' = IF refresh \in {None, asked} THEN lost ELSE lost \union {refresh.number}
     \/ /\ IF HasRefresh THEN Fault ELSE UNCHANGED faults
        /\ UNCHANGED <<refresh, lost>>
  /\ started' = 0 /\ asked' = None /\ work' = EmptyIndex /\ refused' = FALSE
  /\ UNCHANGED <<now, mem, fileVars, requests, behind, scanned>>

-----------------------------------------------------------------------------
(* The surroundings *)

\* The clock advances while the loop sleeps or reads the regions; the other
\* steps of a cycle are short.
Tick ==
  /\ Idle \/ At("scanning")
  /\ now < MaxTime
  /\ now' = now + 1
  /\ UNCHANGED <<cycleVars, mem, fileVars, requestVars, scanned, faults>>

\* A tool writes the refresh file, over what is there.
Request(scope) ==
  /\ requests < MaxRequests
  /\ requests' = requests + 1
  /\ refresh' = [number |-> requests', scope |-> scope]
  /\ behind' = IF asked # None THEN behind \union {requests'} ELSE behind
  /\ UNCHANGED <<now, cycleVars, mem, fileVars, lost, scanned, faults>>

\* The process ends anywhere and starts again from its files.
Crash ==
  /\ ~Idle /\ Fault
  /\ todo' = {} /\ started' = 0 /\ asked' = None
  /\ work' = EmptyIndex /\ refused' = FALSE
  /\ mem' = disk
  /\ UNCHANGED <<now, fileVars, requestVars, scanned>>

Cycle ==
  \/ BeginCycle
  \/ \E s \in Sources : ScanPlain(s)
  \/ ScanME \/ ScanBlocks \/ ScanExports \/ ScanAreas \/ BeginChests \/ ScanChests
  \/ WriteIndex \/ WriteStatus \/ Save \/ Clear

Next ==
  \/ Cycle
  \/ Tick \/ Crash
  \/ \E scope \in Scopes : Request(scope)

Spec == Init /\ [][Next]_vars

\* The loop runs on; every request to the file server has a timeout.
FairSpec == Spec /\ WF_vars(Cycle)

-----------------------------------------------------------------------------
(* Properties *)

InventoryTypeOK ==
  /\ now \in Times /\ started \in Times /\ scanned \in Times
  /\ todo \subseteq Stages /\ refused \in BOOLEAN /\ requests \in 0..MaxRequests
  /\ mem \in RuntimeStates /\ disk \in RuntimeStates
  /\ work \in Indexes /\ index \in Indexes
  /\ status \in [at : [Stamps -> Times], refused : BOOLEAN]

\* Where the stamp of a record's source is.
StampOf(record, region) ==
  CASE record.source = "region" -> region
    [] record.source = "area" -> "areas"
    [] record.source = "block_export" -> "exports"

\* Every record is one that the last scan of its source has found.
Ghostless(data) ==
  /\ \A p \in DOMAIN data.chests :
       data.chests[p].at = data.at[StampOf(data.chests[p], "chests")]
  /\ \A p \in DOMAIN data.blocks :
       data.blocks[p].at = data.at[StampOf(data.blocks[p], "blocks")]

\* Every record of the published index comes from the scan of its source that
\* the index itself names: no record outlives the next scan of its source,
\* through merges, failed scans, failed writes and crashes.
NoGhosts == Ghostless(index)

\* The status file never shows a newer scan than the index file holds, unless
\* it says that the index could not be written.
StatusHonest == status.refused \/ \A s \in Stamps : status.at[s] <= index.at[s]

\* Two scans of all regions begin an interval apart, also when the process
\* crashes in the first one, unless a request asks for the second or the
\* attempt of the first could not be saved.
ChestScansSpaced ==
  [][At("chests") /\ At("scanning")' =>
       scanned = 0 \/ now - scanned >= Interval["chests"] \/ "chests" \in Scope(asked)]_vars

\* A request is removed unread only when it was written while a cycle served
\* an earlier one.
RequestsHeard == lost \subseteq behind

\* The refresh file does not stay: a cycle begins for it at once.
RefreshTaken == refresh # None ~> refresh = None

-----------------------------------------------------------------------------
(* The inductive invariant behind them *)

\* The refresh file of a cycle is the one it began with, one that was written
\* since, or gone.
RequestInv ==
  /\ {refresh, asked} \subseteq {None} \union [number : Nat, scope : Scopes]
  /\ asked # None => refresh \in {None, asked} \/ refresh.number \in behind

\* The index is written after all scans and before the status, and what is
\* built for it is never older than what is published.
WriteInv ==
  /\ "index" \in todo \/ todo \subseteq {"status", "save", "clear"}
  /\ \A s \in Stamps : index.at[s] <= now /\ work.at[s] <= now
  /\ ~Idle => \A s \in Stamps : index.at[s] <= work.at[s]
  /\ ~Idle /\ "index" \notin todo => refused \/ index = work

\* The last saved attempt is the last scan, and a scan that is scheduled is due
\* or asked for.
AttemptInv ==
  /\ scanned # 0 => mem.attempt["chests"] = scanned /\ disk.attempt["chests"] = scanned
  /\ "chests" \in todo =>
       scanned = 0 \/ now - scanned >= Interval["chests"] \/ "chests" \in Scope(asked)

\* Chest areas have no blocks.
RecordInv ==
  /\ Ghostless(work) /\ Ghostless(index)
  /\ \A p \in DOMAIN work.blocks : work.blocks[p].source # "area"
  /\ \A p \in DOMAIN index.blocks : index.blocks[p].source # "area"

IInv ==
  /\ InventoryTypeOK
  /\ RequestInv /\ WriteInv /\ AttemptInv /\ RecordInv
  /\ StatusHonest /\ RequestsHeard
=============================================================================
