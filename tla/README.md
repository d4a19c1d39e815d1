# A verification project for GregGPT (picoclaw-gtnh)

GregGPT is an assistant for a GregTech: New Horizons server. A handful of Go
processes and shell tools talk to the game through DatHost, to players through
Discord, and to a language model. They share files on one host. This directory
holds TLA+ models of the parts that keep state, TLC configurations that check
them on small instances, and TLAPS proofs of the properties that matter most.

- `PROJECT.json` lists the components, the runs, the source lines each
  definition stands for, the hazards, the divergences found and the theorems.
- `tlc -config MCBridge_one.cfg MCBridge` checks a configuration;
  `tlapm BridgeProofs.tla` checks the proofs of a module.

## 1. The system

| Part | Source | State | Operations | Hard about it |
| --- | --- | --- | --- | --- |
| bridge | `bridge/main.go` | `BridgeState.Seen/Order`, state file | `GET /mc/console` (scan, mark, answer), `POST /mc/say`, online list, positions | a destructive feed, marks cut to `DedupeMax`, restart, failing save, an answer lost after the mark |
| mc-relay | `relay/main.go` | `State.Seen/Initialized`, state file, steering channel, commentary publisher, history rows | poll, seed, turn (agent, retry, fallback, reply parts), steering monitor | monitor and loop share the feed and the marks; steering after the last read; ambiguous `say`; crash in a turn |
| agent runner | `internal/agent` | response chain, pending tool results, steering queue, commentary target | create response, steer, call tools, recover a timeout, return | steering cancels a request in flight; limits on tool calls; time budget |
| token store | `internal/greggptauth`, `scripts/login_greggpt_oauth_on_pi.sh` | credential file, tokens in the memory of each process | load, ensure fresh, refresh, save, log in | several processes rotate one refresh token; crash between refresh and save |
| file lock | `internal/filelock` | an advisory lock | acquire, release | released on every path, and by the death of its holder |
| memory store | `internal/greggpttools/memory.go` | memory file, lock | remember, list, forget | generated ids, one item per slot, expiry, several processes |
| history store | `internal/agent/history` | SQLite rows, FTS index | append, recent, recall | repeated external ids, two sources merged |
| Discord bot, tasks | `discord-commands/main.go` | active tasks, steering channels, commentary messages | mention, steering, commentary, reply, end | handlers of one user run concurrently; steering races the end of a task |
| Discord bot, commands | `discord-commands/main.go` | none between calls | slash commands that answer from files or start a short program | read only |
| Discord voice | `discord-commands/voice*.go` | active session, voice connection, packet buffers, utterance, transcript and turn queues, player | join, leave, end by failure, speak, transcribe, answer, play | four goroutines, queues that drop, transcripts matched by order, a shutdown that must not wait for itself |
| realtime bridge | `discord-commands/codex_realtime.go` | the app-server process, pending requests, event channel, WebRTC connection | start, append audio, append speech, read, close | the process dies at any step of the start, a full event channel |
| kanban-sync | `kanban-sync/main.go` | two sync states and their files, Discord messages | sync the board, sync in-progress messages | create, edit and delete with partial failure and a state saved last |
| inventory-sync | `inventory-sync/main.go` | runtime state, index, status, refresh request, each a file | a cycle: scan players, networks, quests, blocks, machine exports, chest areas, chests; merge; write; serve a request | six sources with their own rhythms over the same positions, failures and crashes between the files, a request written while another is served |
| quest index | `inventory-sync/quests.go` | the full and the compact quest index | read the database and every progress file, derive states | files of different moments, files that cannot be read, completions of others |
| task and inventory tools | `workspace/tools/*.sh` | task list, check-ins, locks | add, move, assign, check in | several processes under `flock` |
| quest planner | `internal/questplanner`, `quest-query` | none | plan, from whatever index, totals and status files there are | files of different cycles, several names for one item, chains of prerequisites |
| inventory queries | `inventory-query` | the refresh file it writes | find, totals, count, chest, find-block, ME crafting, refresh | several items of one name, blocks that share a key |
| game mods, data, deployment | `scripts`, `tools/dh-cache-converter`, `deploy`, `data` | none here | exports inside the game, container set-up | outside the Go programs |

How they interact:

- **game → bridge → mc-relay.** The bridge reads the last lines of the server
  console over HTTP, hands every chat line over once, and forgets nothing it
  marked until a restart. Readers poll; the response is the only copy.
- **mc-relay → agent → mc-relay.** One turn at a time. While the agent works, a
  second goroutine polls the same feed and sends lines of the same player into
  the steering channel of the run. The run publishes commentary through a
  callback that says lines in the game, so it uses the bridge again.
- **Discord → bot → agent → Discord.** One goroutine per message; the map of
  active tasks under a mutex decides whether a message starts a task or steers.
- **agent ↔ token store, agent ↔ memory store.** Both services call the same
  libraries on the same files; a file lock orders them, together with the
  login script.
- **task tools → kanban-sync → Discord.** A loop reads the tasks with a command
  and repeats what differs to Discord, remembering ids and hashes.
- **Discord voice → realtime bridge → agent.** Audio goes to an app-server over
  WebRTC, transcripts and speech come back as events; a turn runs the agent.
- **inventory-sync → query tools, planner, agent tools, bot.** Files, replaced
  whole, one after the other; the readers take what there is. Requests go the
  other way, through one refresh file.

What makes each modelled part correct:

- *Bridge:* a chat line reaches a reader once, or falls out of the window; it is
  repeated only when the mark was lost with the process. Cutting the marks to
  `DedupeMax` does not repeat lines.
- *mc-relay:* a line is answered or steers, once; it steers only its player's
  own run; the backlog at the start is skipped; the chat history fits what was
  done; an actionable line is answered or dropped at a known place; turns follow
  the chat; the loop never stops polling.
- *Agent runner:* no steering message is lost in the `select`; no answer that
  ignores a steering message already taken is returned; at most one request is in flight; the run
  ends.
- *Token store:* no refresh token is presented twice; a login is never
  overwritten by an older one; the lock is always released.
- *Memory store:* operations of several processes act one after the other, one
  entry per slot, nothing lost.
- *Discord tasks:* one task per user and channel; a delivery of a message steers
  at most one run, and never the one its message started; a message is known to
  a reply or lost at a known place; commentary disappears; the task is
  unregistered.
- *Voice:* a transcript becomes a turn of the user who spoke, as long as users
  speak one after the other; the newest turn is answered; every end of a session,
  whoever starts it, leaves no process, voice connection or goroutine, and a
  failure does end it.
- *inventory-sync:* no container or block outlives the next scan of its source;
  the status names no scan that the index lacks; the scan of all regions is
  not repeated early; a refresh request is served.
- *Quests and queries:* a plan names exactly the quests the party can do, and
  the rewards the player can claim, as far as the progress files could be
  decoded; the counts are those of what was scanned.
- *kanban-sync:* no message is left in the channel that the service does not
  track, up to named failures; it settles on what the tasks say.

## 2. The plan

Order, most important behaviour first. Done so far: 1 to 10.

| # | Modules | Composition | Abstract specification |
| --- | --- | --- | --- |
| 1 | `ChatFeed`, `Bridge`, `BridgeProofs` | `Bridge` implements `ChatFeed` | `ChatFeed` |
| 2 | `Relay`, `RelayProofs` | uses `ChatFeed`'s actions for the bridge and follows `AgentTurn` | `AgentTurn` for the run |
| 3 | `AgentTurn`, `AgentRunner`, `AgentRunnerProofs` | `AgentRunner` implements `AgentTurn` | `AgentTurn` |
| 4 | `FileLock`, `AuthStore`, `AuthStoreProofs` | `AuthStore` extends `FileLock` | – |
| 5 | `Memory`, `MemoryStore`, `ToolProofs` | `MemoryStore` extends `FileLock`, implements `Memory` | `Memory` |
| 6 | `DiscordTasks`, `DiscordProofs` | the handlers of one user's messages share one task | – |
| 7 | `KanbanSync`, `KanbanSyncProofs` | tasks and the Discord API are its environment | – |
| 8 | `InventoryMerge`, `InventorySync`, `InventorySyncProofs` | the cycle uses the merge as an operator | – |
| 9 | `CodexBridge`, `VoiceSession`, `DiscordProofs` | `VoiceSession` extends the bridge and synchronises with its events | – |
| 10 | `QuestIndex`, `QuestPlanner`, `ItemQueries`, `Workspace`, `ToolProofs` | `Workspace` composes the game, the sync loop, the files and the operators of the other three | the game's own state |
| 11 | `TaskStore`, history recall, `say` splitting | `FileLock` | – |

Theorems: done, those of section 6, which are every safety property of the
passing runs, and the refinements of `ChatFeed`, `AgentTurn` (by the runner) and
`Memory`. Liveness stays with the runs.

There is one run for the safety and liveness of each part (two for mc-relay,
whose faults and liveness need different bounds), with the properties that a
test would hardly reach; type invariants are proved and not run. A divergence
between code and text gets a run of its own only where it is a finding of this
project's newest part; section 7 describes the others.

## 3. What each module models

`PROJECT.json`, `map`, names the lines behind every definition. Some
definitions stand next to a variant marked *Mutant*: a plausible bug that no
specification uses, kept to show that a property can tell it apart.

### ChatFeed, Bridge — `bridge/main.go`

`ChatFeed` says what a reader of `GET /mc/console` may rely on: `HandOver(S)`
takes lines that have no mark, `Forget` loses a mark. `Bridge` has the code:

| Code | Model |
| --- | --- |
| `BridgeState.Seen`, `.Order`, the state file | `seen`, `order`, `diskSeen`, `diskOrder` |
| `getMCConsole`: `callDatHost` returns a snapshot of the console | `Fetch(c)` fixes the window of the GET |
| its loop: `parseChatEvent`, `seenBefore` under `stateMu` | `SkipLine`, `TakeLine`, one line per step, so that GETs interleave |
| `pruneLocked`, `saveStateLocked` inside `seenBefore` | `PruneOrder`, `PruneSeen`, `SaveState`, part of `TakeLine` |
| writing the response | `Respond` |
| death and `newBridge`/`loadState` | `Restart`; marks that were not saved are counted in `forgot` |

A line is its position in the console, which stands for
`sha1(timestamp|raw)`. `POST /mc/say`, the online list and the positions keep
no state; how `say` can fail is part of `Relay`.

### Relay — `relay/main.go`

The main loop (`SeedPoll`, `Poll`, `NextEvent`, `EndBatch`), the turn
(`AgentReads`, `Publish`, `AgentFails`, `AgentReturns`, `SayPart`) and the
goroutine of `startMinecraftSteeringMonitor` (`MonitorPoll`, `MonitorEvent`,
`MarkQueued`, `MonitorStopped`) share `seen`, `stamp` and the feed. The bridge
is `ChatFeed`: `Poll` and `MonitorPoll` are `HandOver` of everything available,
`LosePoll` is a response that never arrives, `BridgeForgets` a restart of the
bridge. `State.Seen` with its times is `seen`, `stamp`; `pruneSeen` keeps
`SeenMax` marks and may drop any of equal age. The monitor's send to the
channel and its mark are two steps, since the run may read the line in
between. The agent run is any behaviour that `AgentTurn` allows, twice when the
first attempt fails. The chat history may refuse a row (`LogChat`, `LogReply`):
`recordMinecraftChat` only logs the error. `answered`, `dropped`, `taken` and
`unlogged` are history variables: what became of each line. `Crash` goes back to
what the state file has.

### AgentTurn, AgentRunner — `internal/agent/runner.go`, `client.go`

`Runner.Run` with its request goroutine. `Request` starts the goroutine;
`Stream`, `Complete`, `Fail` and `Interrupted` are its steps; the `select` over
response, steering and context is the disjunction of `TakeResponse`,
`TakeError`, `TakeSteering`, `SteeringClosed` and `ContextDone`, any of which
may be ready at once, and each way out waits for the goroutine
(`DropResponse`, `Abandon`). `Tool` executes one call and counts it against
`MaxToolCalls`; `Recover` is the summary after a deadline. Of the input only
the steering messages and the number of tool outputs are kept. `AgentTurn` is
what the callers see of it: messages taken in order, commentary, a return.

### FileLock, AuthStore — `internal/filelock`, `internal/greggptauth/store.go`, the login script

`FileLock` is `Acquire`, `Release` and the release by the kernel. `AuthStore`
has the steps of `EnsureFresh` (`TakeLock`, `Load`, `Refresh`, `Save`,
`Return`) and of the login script (`Login`, `TakeLock`, `Install`, `Return`),
each interruptible by `Fail` (a cancelled context, an error) and `Crash`. The
server of the tokens rotates: `Rotate(t)` spends `t` and issues the next. A
request whose sender gave up may be served later (`ServeDelayed`). Tokens are
numbered as they are issued; that a refresh is due is a flag of the file.

### Memory, MemoryStore — `internal/greggpttools/memory.go`

`MemoryStore` has `Remember`, `List` with its clean-up and `Forget` as
transactions on a file: `Call`, `TakeLock`, `Load`, one of the saves, `Return`,
with `Fail` and `Crash` between them. Order, ids and expiry of the items are
kept, since the code replaces by slot and numbers by length. `Memory` is the
same three operations as single steps on a set of entries.

### DiscordTasks — `discord-commands/main.go`, `onMessageCreate`

One handler per delivery of a message; discordgo runs each in a goroutine of
its own. `EnqueueFirst`, `Observe`, `Register`, `EnqueueAgain` and `Abandon`
are the way to steering or to a task, each a section under the service's mutex;
`Take` and `Publish` are what the run does here; `Finish`, `Reply`, `DeleteAll`
and `Unregister` its end. `Record` is the history's row of a message, which it
may refuse. `observed`, `missed` and `turnedAway` are history variables: where a
message went that no reply knows. All deliveries are of one user in one channel:
other keys of `Service.active` share nothing but the mutex, and `activeTask` is
the entry of this one.

### KanbanSync — `kanban-sync/main.go`

One poll after the other: `ReadBoard`, `SkipBoard`, `CreateBoard`, `EditBoard`
for `syncBoardOnce`; `MoveOut`, `ReadTasks`, `Create`, `Edit`, `Sweep` and
`Finish` for `syncInProgressOnce`. Every request is a step and may fail, be
carried out although it is reported as failed, or be carried out twice by the
retries of `doDiscordJSON`. `board`, `progress` are the states in memory,
`boardFile`, `progressFile` the files; `Restart` also may move to another
channel. `ChangeTask` and `DeleteByHand` are the players and moderators.
`astray` names the messages that the code is known to lose; section 7 lists the
ways. A hash is the payload it is computed from; pins and the guild id, which
nothing depends on, are left out; the channels of both outputs are configured
together.

### CodexBridge, VoiceSession — `discord-commands/codex_realtime.go`, `voice.go`, `voice_audio.go`

`CodexBridge` is the bridge to the app-server: its start, one request after
the other, until both halves (app-server and peer connection) are ready; its
events, in a channel of `EventCap` that drops what does not fit; its process,
which may die at any time; and its close.
`VoiceSession` has the manager and one session:

| Code | Model |
| --- | --- |
| `Join`, `Leave`, `onSessionTerminal` under `opMu` | `BeginJoin`, `Leave`, `Terminal`: `op`, `at` say who holds `opMu` and where it is; `active`, `ended` number the sessions |
| `startCodexRealtimeVoiceBridge` within `Join` | `StartBridge`, `BridgeStarts` (`Prepared`, `StepDone`, `AwaitReady`), `StartGivenUp` |
| `daveClient`, `resetDaveClient` | `dave`: the client of Discord's gateway is open; `OpenGateway`, `GatewayFails` |
| `connectDaveVoice` and the ways out of `Join` | `Activate`, `ConnectFails`, which leaves the client open, `JoinFailed` |
| `discordVoiceSession.Close` | `CloseSession`, `BridgeCloses`, `HangUp`, `Closed`, which waits for the goroutines |
| `bufferOpusPacket`, `AppendOpus` | `Packet`: a packet of a speaker's utterance goes to the end of the one audio track, `track` |
| `flushUtterance` | `Flush`: the utterance is queued, or dropped when `utteranceCh` is full |
| `processUtterances` | `TakeUtterance`, `TakeTranscript`, `TranscriptTimeout`, then `Offer`, `Drain`, `Send`: the older turn gives way |
| the turn goroutine | `TakeTurn`, `AgentReturns`, `Spoken`, `SpeechEnds` |
| the event goroutine | `TakeEvent`: transcripts, the player, the end |

The packets of all speakers go to one track as they arrive. The backend cuts it
into stretches wherever it likes, within an utterance or across several, and
makes of each one transcript or none, in order (`Transcribe`); a transcript may
come late or never. A transcript is known by the utterances of which it has
words. Old sessions and a new one never overlap outside `opMu`, so one copy of
the session's variables is enough.

### InventoryMerge, InventorySync — `inventory-sync/main.go`

`InventoryMerge` is `mergeChestRecords` and `mergeBlockRecords`: a scan
replaces the records of its source, and of two records of one position the one
with the higher priority stays. `InventorySync` is `main`: `BeginCycle` finds
what is due (`dueSince`, `fetchDue`) or asked for (`loadRefreshRequest`) and
fixes the stages of the cycle, `todo`, which are left in the order of `Rank`;
each stage is an action, with failure as an alternative:
`ScanPlain` (players, quests), `ScanME`, `ScanBlocks`, `ScanExports`,
`ScanAreas`, `BeginChests` (which saves the attempt) and `ScanChests`, then
`WriteIndex`, `WriteStatus`, `Save`, `Clear`. `mem` is the runtime state in
memory, `disk` its file, `work` the index under construction. `Request` is
`cmdRefresh` of inventory-query. A record is where it was found, by which
source and when.

### QuestIndex, QuestPlanner, ItemQueries, Workspace — `inventory-sync/quests.go`, `internal/questplanner`, `inventory-query`

The first three are operators. `Scan` derives the index from the progress files
that could be fetched (`ProgressRow`, `CompletedBy`, `ClaimStatus`, `BlockedBy`,
`QuestState`), with the names of the members or, where those could not be read,
their UUIDs (`NameIn`); `Snapshot` is the compact file. `Plan` is the planner with its
eligibility, materials, scores, staleness and confidence. `IndexFromData`,
`InventorySnapshot`, `CraftingSnapshot` are the item files, and `ResolveQuery`,
`Find`, `TotalsOf`, `ChestItems`, `FindBlock`, `Assess` the commands that
read them. Texts are replaced by what comparing them yields (`Exact`, `Score`).
What they assume: `QuestAssumption`, a finite party and quest book;
`PlannerAssumption`, finite lists of items, requirements and tasks, ids of board
tasks that are not repeated, and quest items that are in the item list.

`Workspace` puts them into a system. The game goes on (`DoTask`, `Complete`,
`Claim`, `Move`, `HoursPass`); the sync loop reads the items kind by kind, where
a single player may be passed over, and the progress member by member
(`ReadProgress`), where a file that cannot be decoded becomes one without
progress (`Blank`), and writes five files one by one, each of which may fail; it
may end anywhere (`SyncCrash`). The queries change
nothing: `Answer` and the operators of `ItemQueries` are what they would say in
the state at hand, so the invariants are about every moment at which somebody
asks. A plan has at most `Limit` entries, 1 to 20 as in the code: it leaves
nothing out unless it is `Full`. What is due is `InventorySync`'s matter; here the quests may be left out
of any cycle.

## 4. The runs

| Run | Shows | Distinct states |
| --- | --- | --- |
| `bridge` | Marks cut to `DedupeMax` and restarts repeat no line whose mark survived; `Bridge` implements `ChatFeed`; under fair polling a chat line is handed over or leaves the window | 10⁴ |
| `relay_faults` | With marks lost in the bridge, by `pruneSeen` and in a crash: a line is handled twice only when both programs lost its mark; the backlog of the start is never handled; steering is of the turn's own player; what was handled is in the chat history unless that refused it, and rows and marks fit | 4.8·10⁶ |
| `relay_live` | Without crashes, but with failing agents, says, saves and lost responses: every triggered line handed over is known to a reply that was said, is of the backlog, or was dropped at one of six named places; turns in order; commentary capped over both attempts; the loop gets back to polling | 4.6·10⁵ |
| `agent_safe` | Every order of response, steering, closed channel and end of context: no message lost, no answer that ignores a message already taken, one reply per commentary target, the turn implemented, and `Run` returns | 1.1·10⁵ |
| `auth_safe` | Two services and a login: a token is refused only if a refresh with it was cut off; the file stays usable up to that; a login survives; the lock comes free | 1.8·10⁵ |
| `memory_safe` | Two agents with failures and crashes: no lost update, `MemoryStore` implements `Memory` (and with it: one item per slot) | 1.2·10⁶ |
| `discord_tasks` | Handlers racing for one task, two messages delivered twice: one task, a delivery steers once and never the run of its own message, every message is with the task, known to a reply or lost at one of five named places, commentary goes, the task ends | 4.4·10⁵ |
| `kanban_safe` | A change, a deletion, a restart or move, and two faults anywhere: nothing is forgotten but what `astray` names, and the service settles | 1.3·10⁶ |
| `voice` | Two joins with leave, failing starts, a dying app-server, a lost connection, full queues, speakers at once: a turn has none of its utterance's words only when others spoke during it or while an utterance has no transcript or a transcript no utterance; the newest turn is kept; an idle manager has either a whole session or nothing but the gateway client of a failed join; operations end; a failure ends the session | 3.2·10⁵ |
| `inventory` | Six sources over one position, a fault or crash anywhere, two requests: no record outlives its source's next scan, the status is honest, chest scans are spaced, requests are served | 6.3·10⁵ |
| `workspace` | A deed of a player and a fault anywhere in the cycles: plans name no locked quest and, of the progress files that were decoded, exactly the open quests and claimable rewards; ready materials were there, all counts are those of what was scanned | 1.2·10⁵ |

One run finds a test of the repository contradicted by the code:

| Run | Property | What happens |
| --- | --- | --- |
| `quests_confidence` | `ConfidentWhenFresh`, `planner_test.go:70` | The compact quest index, which the planner prefers, is written with version 1, and the confidence is "low" for every version below 2. With the deployed files it is never "high", however fresh; the test and the skill that reads it (`workspace/skills/gtnh-next-action/SKILL.md:40`) count on it. |

### Bounds, and why they are enough

- `bridge`: five console lines, the third no chat; window and `DedupeMax` 2,
  two restarts. More lines than the window, more chat lines than marks, and a
  mark dropped before, in and after a restart all happen. One reader, as
  deployed.
- `relay_faults`: three lines of two players, one the monitor may queue; one
  lost mark in the bridge, one crash, two marks kept by `pruneSeen`; a channel
  of one; one row that the history refuses. Handling a line twice takes a loss in
  each program, which the bounds allow. `relay_live` has four lines (a turn, another player's turn, an
  ordinary line that can steer, a later turn), two texts, one
  commentary, two parts, no lost marks, and saves that fail.
- `agent_safe`: three steering messages, one of them blank, two tool calls,
  one commentary per response: a message before, during and after a response, a
  limit reached within a response and between two.
- `auth_safe`: three tokens are the first login, one refresh or new login, and
  one more; two services can meet on each.
- `memory_safe`: two slots and two agents, values that differ, entries that
  expire at once, later or never, one tick of the clock.
- `discord_tasks`: a mention and an ordinary message, each delivered twice, and a
  mention without text; a queue of one, so that it is full; one comment; rows of
  the ordinary message that the history refuses. Both deliveries of the message
  can steer one run or two, and the second mention can find the first one's
  task, be turned away or start another.
- `kanban_safe`: two tasks, one change, two faults, one restart, two channels;
  the outputs are enabled one at a time, since they share nothing but the loop.
  One fault hides a request, the second hits the recovery from it.
- `voice`: capacity one for every queue, so that each runs full; two joins, so
  that an old session can end while a new one begins; two utterances, so that a
  late transcript meets the next one; two speakers the bot listens to, who speak
  one after the other or at once, and one it does not; a track of one stretch,
  which takes words of both, while a second stretch waits as an event or as a
  transcript.
- `inventory`: the sources meet at positions, one at a time, so one is enough;
  one fault or crash, which may hit any stage, two requests (the second while
  the first is served), a clock long enough for two intervals of every source.
- `workspace`: two members, three quests (a branch; a chain; a missing and a
  circular prerequisite), of which one is completed for both or open at the
  start, and one has the number of a position in that list of completions;
  requests by name, by UUID and by nobody; three items of which two share a name, one holder of each
  kind; one deed, or three hours after which everything is stale, and one fault,
  at any point between the steps of the first cycle and of those that follow. A
  deed is what makes two files differ, and a fault what makes one of them stay;
  staleness changes the score and the confidence of an answer only.

Deadlock is checked where a program never stops (`auth_safe`, `memory_safe`,
the relay, bridge and kanban runs, whose loops always can poll again); not for
a single run of the agent, a finite number of Discord messages or joins, or a
clock that ends.

## 5. Fairness

Weak fairness is assumed only of what the code runs by itself:

- `Bridge`: a client that polls again (the ticker of mc-relay) and the
  handler of a GET, which runs to its end. Nothing is owed by the game or by
  restarts.
- `Relay`: the main loop on its ticker; `AgentReturns`, since `askAgent` has a
  context with a timeout (`AgentTimeout`); the monitor's loop over a response
  it has; `say`, which has an HTTP timeout. The monitor's poll, the players and
  what the agent reads are not fair.
- `AgentRunner`: the goroutine of `Run`; `Interrupted`, since a request ends
  when its context does; and the end of the context, which every caller sets.
  The model owes no answer: `RunEnds` holds when it never sends one.
- `AuthStore`: every caller goes on, since HTTP requests and the wait for the
  lock have timeouts. Crashes, logins and delayed requests are not fair.
- `DiscordTasks`: a handler runs on; that the agent's run returns is `RunEnds`
  of `AgentRunner`.
- `VoiceSession`: the manager's operations (`Manage`) and the giving up of a
  start (`StartGivenUp`), whose steps have timeouts; the session's goroutines
  (`Run`); the player's sender (`PlayFrame`) while the connection is there.
  Speakers, the backend and its failures are not fair: a transcript is owed by
  nobody, its timeout is.
- `InventorySync`: the loop (`Cycle`), whose requests have timeouts. The clock
  and the tools that write requests are not fair.
- `KanbanSync`: the loop with its ticker and HTTP timeouts. Faults are bounded,
  so they cease, and so do changes: `Settles` is about the time after.

## 6. What is proved

TLAPS checks every theorem for all values of the constants that the named
assumption of the module admits (types of the constants; nothing about the
code). The runs check the same properties on the instances above, but for the
type invariants, `OneRequest` and `LockHeld`, which are only proved.

| Module | Theorem | Property | From |
| --- | --- | --- | --- |
| `BridgeProofs` | `TypeCorrect` | `TypeOK` | – |
| | `NoLineTwice` | `AtMostOncePerMark` | one reader, `Window <= DedupeMax` |
| | `ImplementsFeed` | `FeedSpec` | the same |
| `RelayProofs` | `TypeCorrect` | `TypeOK` | – |
| | `LineHandledOnce` | `HandledOnce` | – |
| | `SteeringIsOwn` | `OwnSteering` | – |
| | `HistoryIsFit` | `HistoryFits` | – |
| | `TriggersSettled` | `TriggeredAnswered` | – |
| | `PlayersServed` | `TurnsServed` | `say` is acknowledged (`AckLost = FALSE`) |
| | `TurnsOrdered` | `TurnsInOrder` | – |
| `AgentRunnerProofs` | `TypeCorrect` | `TypeOK` | – |
| | `AnswersKnowSteering` | `AnswerKnowsSteering` | – |
| | `NeverTwoRequests` | `OneRequest` | – |
| | `SteeringReaches` | `SteeringServed` | – |
| | `ImplementsTurn` | `TurnSpec` | – |
| `AuthStoreProofs` | `TypeCorrect` | `TypeOK` | – |
| | `MutualExclusion` | `LockHeld` | – |
| | `TokensSpentOnce` | `RefusedOnlyIfLost` | – |
| | `FileStaysUsable` | `FileUsable` | – |
| | `LoginsSurvive` | `LoginSurvives` | – |
| `ToolProofs` | `PlansAreExact` | `PlanExact` | – |
| | `ClaimsAreExact` | `ClaimsExact` | – |
| | `ReadyMeansReady` | `ReadyMaterials` | – |
| | `AnswersAreTrue` | `AnswersTrue` | – |
| | `NoLostUpdate` | `LoadedIsCurrent` | – |
| | `MutualExclusion` | `LockHeld` | – |
| | `ImplementsMemory` | `MemorySpec` | – |
| `DiscordProofs` | `OneTaskRuns` | `OneTask` | – |
| | `DeliveriesSteerOnce` | `SteersOnce` | – |
| | `MessagesAreSettled` | `MessagesSettled` | – |
| | `CommentaryDeleted` | `CommentaryGone` | – |
| | `VoiceTypeCorrect` | `VoiceTypeOK` | – |
| | `NothingIsLeaked` | `NothingLeaks` | – |
| | `NewestTurnIsKept` | `NewestKept` | – |
| | `SpeakersAreRight` | `RightSpeaker` | – |
| `KanbanSyncProofs` | `NothingIsForgotten` | `NothingForgotten` | – |
| `InventorySyncProofs` | `RecordsAreCurrent` | `NoGhosts` | – |
| | `StatusIsHonest` | `StatusHonest` | – |
| | `RequestsAreHeard` | `RequestsHeard` | – |
| | `ChestScansApart` | `ChestScansSpaced` | – |

**Bridge.** mc-relay asks for 500 lines, and `DedupeMax` is 4000 unless
configured otherwise, so both assumptions describe the deployment. That a mark
which is dropped can no longer be needed takes three facts, the parts of
`IInv`. The list of marks names lines in rising order (`Spread`), so that a
full list spans at least `DedupeMax` lines and its head has left the window.
Below a mark, every chat line without one is `Dead` (`GoodMarks`): no GET,
running or to come, sees it. And a GET that is under way has left no gap behind
it (`GoodRequest`). The saved list satisfies the same, so a restart, which
adopts it, keeps the invariant. `GoodCount` turns this into the count of
hand-overs. With several readers the theorem fails: a slow GET that holds an
old snapshot is handed a line again once newer GETs have cut its mark.
`ImplementsFeed` follows step by step: `TakeLine` maps to `HandOver({e})`,
`Restart` to the `Forget` of the marks that were not saved,
everything else to a stutter.

**Relay.** The bridge's marks are counted: a line is handed over at most once
more than its mark was lost (`Delivered`), and every hand-over is spent on at
most one of: a turn, a steering line, a place in the batch of the loop or of
the monitor (`Counted`). mc-relay's own marks are the other half: what was
handled or seeded is marked, or its mark is known to be lost, or it is the line
the monitor has sent and not yet marked (`Noted`). The two together give
`HandledOnce`: the second handling needs a second hand-over, so the bridge lost
the mark, and finds no mark, so mc-relay lost its own. `Control` says what is
left over between two turns, which is nothing: an empty channel and no monitor.
With it `Steered` shows that all of the channel was written by the player of
the turn, and `SteeringIsOwn` follows even if the mark of the turn's line goes
in that very turn. `Ordered` says that a line waiting in a batch is before all
lines that had a turn; `Accounted` that a triggered line with a mark is answered,
dropped, seeded or among the lines of the turn, and one without may wait in a
response. Between two polls nothing waits, so the first three are left:
`TriggersSettled`. `HistoryFits` is inductive with `Noted` and `Steered`: the line
the monitor has sent was steered and is not of the backlog, and the turn's line
went to the history before its reply. `PlayersServed` adds `Published`, which
needs `AckLost = FALSE`: a `say` that fails after the line was shown repeats it
(section 7).

**Runner.** `IInv` ties the place of `Run` to the request in flight: while it
waits, `flying` and `result` exclude one another, and the request contains
exactly the steering that was taken. The answer is used only from that place
with an empty channel. `SteeringInv` adds where a message is between the
channel and the input: the one held in hand is the last that was taken, all
others but the blank ones are in the input, in order, and the target of the
next commentary is the last of them, which no commentary has answered.

**Credentials.** `AuthInv`: the holder of the lock has seen what the file has
(`HolderSawFile`); the file's token is spent only between the server's answer
and the save (`SpentOnlyInside`), and what was answered is usable
(`AnswerUsable`); a login waiting for the lock owns a token nobody else has
(`UploadUsable`). A delayed request may spend a token at any time, but then the
token counts as lost.

**Memory.** `TransactionInv`: only the holder is inside, and what it has
loaded is the file. With it a save acts on the current file, and `SaveView`
shows what each of the three does to the set of entries: one slot replaced, one
entry taken out, or the expired ones dropped. `filterUnexpired` is a loop, and
what it computes is proved by induction over its steps (`Induction`, from the
well-foundedness of the naturals, with a set in place of the predicate).
`StoreInv` keeps one item per slot, and no caller has read a time that is still
to come, so that what was dropped has expired. Every save maps to a step of
`Memory`, everything else to a stutter. Ids are not part of it: section 7 says
how they repeat.

**Discord tasks.** A handler that owns a run is the registered one (`OneTask`
is inductive with the types). A delivery that was queued to a run has been
handled (`Entered`), so it is queued once, and `Steers` keeps a run from its own
message. The publisher knows all that is shown but what was left behind, and
when the task leaves it knows nothing more (`Tallied`). `MessagesSettled` is
inductive with `Settling`: what a task has read is known to its reply or has
been counted as missed by the time it leaves, and its own row has been offered to
the history from its return on, so that the last step, which counts what is
still in the channel, leaves nothing unsettled.

**Voice.** `VoiceInv` has three parts besides the types. `Control` (the types of
the manager, `ManagerInv`, `LifeInv`, `BackendInv`, `ClientInv`) says for each place of the manager what is
left of the session and where its backend is: no connection and no goroutine
outlives `Close`, a join goes on only without a backend, and between two
operations the backend is open or absent. A client of the gateway belongs to the
session, to the operation under way, or to a join that failed. That it is ready when it is open needs
the started event, which is in the channel only after both halves were
(`AnnouncedStep`). `PushInv` says that a turn on its way is the newest and
that the drained channel stays empty until it is sent: the turn goroutine only
takes. `OrderInv` is about the utterances during which nobody else spoke. In
what waits for a transcript such an utterance is before every one that began
later (`SpokenInOrder`). In what was heard, from the track through the event
channel to `transcriptCh`, whatever comes before its words began no later than
it did, since stretches only grow at the end of the track (`HeardInOrder`). So
when the same utterances are expected and to come, the next transcript has words
of the utterance that waits, which is `RightSpeaker`.

**Kanban.** `TrackInv`: the states in memory and in the files point at messages
about the right task or nothing (`PointsRight`), and every message in sight is
tracked or astray. Each action is reduced to one of two shapes: it changes no
record (`QuietStep`) or the record of one task (`TrackStep`).

**Inventory.** `RecordInv`: every record of the data under construction and of
the published index carries the time of the last scan of its source that the
same data names, and chest areas bring no blocks. A merge keeps that
(`MergeFits`), since it first drops the records of the source it merges, and the
priority only chooses between records that are both current. `WriteInv` orders
the files: nothing published is newer than what is under construction, the
index comes before the status, and after its stage it is written or reported
as refused; a crash anywhere leaves the status behind the index. `AttemptInv`
says that the last attempt at the chests is in memory and on disk, so that what
the cycle finds due is due, also after a restart. `RequestInv` names the three
things the refresh file may be at the end of a cycle.

**Quests.** `QuestsInv` says of every index, whether under construction or in a
file, full or compact, that it was made of progress files as `EndQuests` makes
it, with some names, and that each of these files was decoded and lay, member by
member, between what the game had when the scan began (`seen`) and what it has
now (`Within`), or was missing or blank (`ReadOk`, by `decoded`). It is inductive
because progress only grows: completions and claims are added and never taken
back, and the list of completions keeps its order, so that a position whose
completion was claimed when the file was read is one still, and a quest of that
number `Mistaken` still. A blank file says of no quest that it is completed
(`SaysDecoded`), so what an index says of completions it has from decoded files.
The prerequisites do not change, so what the scan saw unlocked is unlocked
still. The compact file has fewer fields of every quest; but for the ids of
those who may claim, what a plan reads is the same in both, so what a plan says
is shown for both at once (`QuestFileSays`).

A plan is the candidates in the order of `Before`. That it is a list of
candidates at all needs that order to be total, that is, that scores are
integers (which takes the sums and `Downstream` to be numbers) and that
candidates of one source differ in their ids. Then every candidate has a place,
counted by those before it (`PlacesTaken`), no two have the same, and the plan
is either all candidates or exactly `Limit` of them (`FirstOnesOf`). `PlanExact`
and `ClaimsExact` then say which quests are candidates.

**Items.** `ItemsInv` says that every item file agrees with the stacks that it
was made of, by holder, by kind and by item, as `IndexFromData`,
`InventorySnapshot` and `CraftingSnapshot` define it. The files need not be of
one cycle: the properties name the stacks of the file that is read (`from`).
What remains is arithmetic of sums. `SumFunction` is a fold over a set, whose
definition chooses an order; the lemmas show that a sum does not depend on it:
one element more adds its value, the parts of a partition add up, a smaller
function or subset has a smaller sum. They go by induction over a finite set,
which is had from the well-foundedness of the naturals with a set of cardinals
in place of the predicate. `ReadyMaterials` follows: the requirement of a
material is at least what all open tasks that name it need, and what is counted
of its keys is the total of the stacks with such keys.

Not proved, and checked by TLC only: liveness (`EveryLineHandedOrMissed`,
`BatchEnds`, `RunEnds`, `LockComesFree`, `TaskEnds`, `Settles`, `OpsEnd`,
`FailureEndsSession`, `RefreshTaken`), which needs fairness and `ENABLED`. Three
definitions are written so that proofs can use them: `Unexpired` is a loop like
the code's, and `SteeringKept` compares sets and order and `Sent` is a set, since
the prover knows nothing of `SelectSeq`.

## 7. Limits of the code found on the way

Where one of these is in a model, the properties name it as an exception, count
it as handled, or are stated so that it remains visible.

Those that a text of the repository denies:

- `README.md:398`: while a turn of one player runs, mc-relay's monitor takes the
  lines of every player from the bridge and skips those of others; a question of
  a second player is gone.
- `memory_test.go:212`: an id is the second and the length of the document plus
  one. Remember, remember, forget the first, remember, within a second, gives
  one id twice, and `memory_forget` removes the first that matches.
- `README.md:119`: a mention that is refused registration because a task runs,
  and then finds none to steer since it just ended, is dropped without a trace.
- `README.md:192`: until a poll of kanban-sync ends without an error the state
  names no channel, and every task is posted anew: a first poll that fails half
  way leaves duplicates.
- `README.md:229`: party completion is to be the union of the members' progress
  files. One that cannot be downloaded is skipped without a warning. One that
  cannot be decoded becomes an empty record and still counts as matched. Either
  way a plan recommends quests that this member has completed, or calls those
  locked that they unlocked, and nothing in the index tells.
- `README.md:281`: when the machine exporter fails, the region scan is to serve
  as fallback; but the exporter's old records have the higher priority and
  shadow it.
- The comment at `inventory-sync/main.go:3016`: exporter data are to be published
  before the scan of all chests; the index is written after it.

The others:

- A steering line that is queued after the run's last read is marked as seen
  and read by nobody (mc-relay, Discord). The 33rd line of the turn's player in
  the channel is dropped, a line that was read by an attempt that then fails is
  unknown to the retry, and so is an answer whose first `say` fails: nothing
  asks again.
- A line whose row the chat history refuses (a lock held for two seconds, a
  file that cannot be opened) is answered and never recalled: the error is
  logged only.
- Two steering messages before a response: the first acknowledgement replies to
  the second only.
- Commentary is repeated in the game when `say` fails after the line was shown.
- A refresh that is cancelled, as steering does to a request that is still
  getting credentials, can leave a spent refresh token in the shared file; only
  a new login helps.
- A bridge response that does not arrive loses its lines for every reader.
- The Discord bot leaves commentary in the channel when the reply cannot be
  sent.
- The Discord bot keeps no ids of messages but that of a task's first one. A
  steering message that the gateway delivers twice steers twice, and a mention
  that comes again after its task has ended starts another task.
- kanban-sync: what a poll created that failed later stays unsaved until a poll
  changes something; a repeated `POST` shows twice; an edit that is carried out
  but reported as failed, followed by a change back, leaves an outdated
  message; a failed deletion in the old channel leaves the message, and so does
  the board when it moves; a message deleted by hand is not posted again until
  its content changes.
- Voice: the order of transcripts is all that ties them to speakers, so a
  transcript that is late, missing or dropped shifts those that follow until the
  strays are used up. All speakers share one track: when they speak at once, or
  the backend hears two utterances as one, a turn has the words of both or of
  another. A full event channel drops a failure like anything else.
- Voice: when no attempt to get into the channel succeeds, the client of
  Discord's gateway that the join opened stays open. `/voice leave` finds no
  session and does not close it; the next join or the end of the service does.
- Voice: an app-server that dies emits no event: the branch for a closed channel
  is never taken, since nobody closes it. The session stays active and deaf until
  somebody leaves or joins. A connection lost by Discord leaves it active too,
  and a full player then blocks the event goroutine.
- Voice: a join closes the old session before the new one has been started, so a
  failing join ends what worked.
- inventory-sync: a request written while another one is served is removed
  unread at the end of the cycle. A complete block scan discards the exported
  blocks until the next export is merged. A crash in the chest scan or a failed
  write of the index loses the other sources' data of the cycle while the
  runtime state says that they were scanned. When the attempt cannot be saved
  and the process then ends, the scan of all regions starts again at once.
- `writeOutputs` of inventory-sync is never called.
- Quests: a failed write of either index is not repeated before the next quests
  interval. `quest_status.json` never reports an error. A quest whose id is the
  position of a claimed completion in another quest's list counts as completed
  (`Mistaken`), and unlocks what waits for it. When the name cache cannot be read,
  the index has the UUIDs of the members, and who asks by name is offered no
  reward and done no task. The compact index has no player progress, so who asks
  by UUID otherwise cannot claim.
- Planner: the items are stale two hours after the last chest scan, whose
  interval is six hours unless configured otherwise. An item that one quest
  names in two ways, by key and by registry name, is counted twice against one
  stock. A tier is asked for by any part of the name of a quest line, which
  `PlanRequests` have as the set of the lines that match.
- Queries: a text that is the exact name of two items is always refused as
  ambiguous. `me-crafting` joins two files which
  are of different cycles after a failed write.

## 8. What is not modelled

- *Lines without a timestamp, and the year rollover of the console clock*:
  a line is named by its position, which is exact for lines with a timestamp.
- *Discord slash commands*: they keep nothing between calls; history lookups
  answer from the database.
- *The history store*: one SQLite transaction for every operation.
- *The task scripts* (`gtnh_tasks` and its kin): planned as `TaskStore`; for
  kanban-sync they are the environment.
- *Decoding*: NBT, regions, exports and the JSON of the quest book. The models
  begin with what was decoded. What cannot be decoded is a failed scan of its
  source, but for the file of one player, which is passed over, and for a
  progress file, which is one without progress.
- *Some ways to read a state file*: a refresh request is written in one step in
  the model, while `cmdRefresh` (`inventory-query/main.go:1758`) writes it in
  place, and one that cannot be read is left where it is
  (`inventory-sync/main.go:725`). The time of an export never goes back in the
  model, while the code falls back among several paths, whose exports may be
  older (`inventory-sync/main.go:2544`). A state file of the bridge that cannot be
  parsed leaves it without marks (`bridge/main.go:190`); the model has the file
  written by the bridge, by a rename, which can be parsed.
- *inventory-query's printing, distances and search scores*, and the planner's
  wording.
- *bridge*: online list, positions and `say` keep no state; they are I/O.
- *Recipe and ore tools, item aliases, mod reference*: read-only lookups.
- *Game mods, cache converter, deployment, data*: outside the Go programs.
- *Text*: prompts, formatting, sanitising and JSON shapes are left out
  everywhere, as no property is about them.
