---------------------------- MODULE VoiceSession ----------------------------
(***************************************************************************)
(* discord-commands/voice.go: live voice.  A manager runs /voice join,     *)
(* /voice leave and the end of a session one at a time under opMu.  A      *)
(* session has four goroutines: Discord's audio becomes utterances, an     *)
(* utterance waits for its transcript and becomes a turn, the latest turn  *)
(* is answered by the agent and spoken, and the events of the backend      *)
(* (CodexBridge) bring transcripts, audio and the end.                     *)
(*                                                                         *)
(* Abstractions.  The manager closes one session before it starts the      *)
(* next, so one copy of a session's variables is enough: `active' and      *)
(* `ended' tell the sessions apart by number.  What is buffered or queued  *)
(* when a session's context is cancelled is left out from then on: a       *)
(* goroutine that still takes some of it before it sees the cancel does    *)
(* nothing with it.  So is a timer that Close did not stop.  The packets   *)
(* of all speakers go to one audio track as they arrive; the backend cuts  *)
(* the track into stretches wherever it likes and makes of each one        *)
(* transcript or none, in order.  A command that changes nothing (voice    *)
(* disabled, no such channel, nothing to leave) is a stuttering step;      *)
(* Close of the service is a last Leave, which drops also the client that  *)
(* a failed join left.                                                     *)
(***************************************************************************)
EXTENDS CodexBridge, FiniteSets, Functions

CONSTANTS
  Users,          \* speakers in the voice channel
  Allowed,        \* those the bot listens to
  QueueCap,       \* capacity of utteranceCh and transcriptCh (16)
  FrameCap,       \* capacity of the player (100)
  MaxUtterances,  \* bound on the utterances of all sessions
  MaxStretches,   \* bound on the stretches of audio not yet transcribed
  MaxJoins,       \* bound on the number of joins
  Nothing         \* a goroutine has nothing in hand

ASSUME VoiceAssumption ==
  /\ Allowed \subseteq Users
  /\ {QueueCap, FrameCap, MaxUtterances, MaxStretches, MaxJoins} \subseteq Nat \ {0}

VARIABLES
  op,           \* what holds opMu
  at,           \* where it is
  joins,        \* joins begun so far; the number of the last one
  active,       \* the active session, by the number of its join; 0 is none
  ended,        \* sessions whose onTerminal waits for opMu
  dave,         \* the client of the DAVE gateway is open
  live,         \* the session's context is not cancelled
  vc,           \* the voice connection is open
  running,      \* goroutines that have not returned
  said,         \* the number of utterances so far
  utter,        \* the utterance that is buffered for each user, or 0
  track,        \* stretches of audio that the backend has still to transcribe
  utterances,   \* utteranceCh
  waiting,      \* the utterance that waits for its transcript
  pushing,      \* the turn that is being queued, and how far that is
  transcripts,  \* transcriptCh
  turns,        \* turnCh
  turn,         \* the turn that the agent answers or the backend speaks
  frames,       \* frames in the player
  session,      \* the number of the join that started the session
  overlaps,     \* history: utterances during which another one was buffered
  newest        \* history: the newest turn that was not taken yet

opVars == <<op, at, joins, active, ended, dave>>
lifeVars == <<live, vc, running, session>>
listenVars == <<utterances, waiting, transcripts>>
turnVars == <<pushing, turns, turn, newest>>
speechVars == <<said, utter, track, overlaps>>
sessionVars == <<lifeVars, listenVars, turnVars, frames, speechVars>>
voiceVars == <<opVars, sessionVars, bridgeVars>>

Goroutines == {"audio", "utterances", "turns", "events"}

\* Utterances, which carry their speakers, are numbered as they begin.  Those
\* of speakers who have not been flushed yet:
talking == Range(utter) \ {0}
Silent == [u \in Allowed |-> 0]

\* A stretch of audio, and a transcript of it, by the utterances heard in it.
Stretches == (SUBSET (1..said)) \ {{}}

\* A turn, which is known by the utterance it is attributed to, on its way into
\* turnCh, and the select it has reached.
Pushes == [by : 1..MaxUtterances, step : {"offer", "drain", "send"}]

ASSUME NothingAssumption == Nothing \notin Pushes /\ Nothing \notin 1..MaxUtterances

Places == {"none", "closing", "hangup", "joining", "starting", "gateway", "connecting",
           "failing"}

\* The types of the manager and of its session's life, of what is said and
\* heard, and of the turns.
ManagerTypeOK ==
  /\ op \in {"free", "join", "leave", "terminal"} /\ at \in Places
  /\ {joins, active, session} \subseteq 0..MaxJoins /\ ended \subseteq 1..MaxJoins
  /\ live \in BOOLEAN /\ vc \in BOOLEAN /\ dave \in BOOLEAN
  /\ running \subseteq Goroutines

HearingTypeOK ==
  /\ said \in 0..MaxUtterances
  /\ utter \in [Allowed -> 0..said] /\ overlaps \subseteq 1..said
  /\ \A u, v \in Allowed : utter[u] # 0 /\ utter[u] = utter[v] => u = v
  /\ utterances \in Seq(1..said) /\ Len(utterances) <= QueueCap
  /\ waiting \in 1..said \union {Nothing}
  /\ {track, transcripts} \subseteq Seq(Stretches)
  /\ Len(track) <= MaxStretches /\ Len(transcripts) <= QueueCap
  /\ events \in Seq({Started, Audio, Failed} \union {Transcript(words) : words \in Stretches})

TurnTypeOK ==
  /\ pushing \in Pushes \union {Nothing}
  /\ turns \in Seq(1..MaxUtterances) /\ Len(turns) <= 1
  /\ newest \in 1..MaxUtterances \union {Nothing}
  /\ turn \in {"asking", "speaking", Nothing}
  /\ frames \in 0..FrameCap

VoiceTypeOK == BridgeTypeOK /\ ManagerTypeOK /\ HearingTypeOK /\ TurnTypeOK

\* The variables of a session that has begun.
FreshSession ==
  /\ utter' = Silent /\ track' = <<>> /\ UNCHANGED <<said, overlaps>>
  /\ utterances' = <<>> /\ waiting' = Nothing /\ transcripts' = <<>>
  /\ pushing' = Nothing /\ turns' = <<>> /\ turn' = Nothing /\ newest' = Nothing
  /\ frames' = 0

VoiceInit ==
  /\ BridgeInit
  /\ op = "free" /\ at = "none" /\ joins = 0 /\ active = 0 /\ ended = {}
  /\ dave = FALSE
  /\ live = FALSE /\ vc = FALSE /\ running = {} /\ session = 0
  /\ said = 0 /\ utter = Silent /\ track = <<>> /\ overlaps = {}
  /\ utterances = <<>> /\ waiting = Nothing /\ transcripts = <<>>
  /\ pushing = Nothing /\ turns = <<>> /\ turn = Nothing /\ newest = Nothing
  /\ frames = 0

-----------------------------------------------------------------------------
(* The manager *)

\* The context is cancelled; what was said and not answered yet is dropped.
Cancel ==
  /\ live' = FALSE
  /\ utter' = Silent /\ track' = <<>>
  /\ utterances' = <<>> /\ transcripts' = <<>> /\ turns' = <<>> /\ newest' = Nothing
  /\ frames' = 0

cancelVars == <<live, utter, track, utterances, transcripts, turns, newest, frames>>

\* The first part of a session's Close: the context is cancelled, and the bridge
\* begins to close.
CloseSession ==
  /\ Cancel
  /\ BeginClose /\ events' = <<>>
  /\ at' = "closing"
  /\ UNCHANGED <<alive, ready>>

\* Join drops the DAVE client, which hangs up the old session's connection,
\* and closes that session before it starts another.
BeginJoin ==
  /\ op = "free" /\ joins < MaxJoins
  /\ op' = "join" /\ joins' = joins + 1 /\ active' = 0
  /\ vc' = FALSE /\ dave' = FALSE
  /\ IF active # 0 THEN CloseSession
     ELSE at' = "joining" /\ UNCHANGED <<cancelVars, bridgeVars>>
  /\ UNCHANGED <<ended, running, session, waiting, pushing, turn, said, overlaps>>

\* Without a session Leave returns at once.
Leave ==
  /\ op = "free" /\ active # 0
  /\ op' = "leave" /\ active' = 0
  /\ CloseSession
  /\ UNCHANGED <<joins, ended, dave, vc, running, session, waiting, pushing, turn, said,
                 overlaps>>

\* onSessionTerminal does nothing for a session that is not active any more.
Terminal(s) ==
  /\ op = "free" /\ s \in ended
  /\ ended' = ended \ {s}
  /\ IF active = s THEN op' = "terminal" /\ active' = 0 /\ CloseSession
     ELSE UNCHANGED <<op, at, active, cancelVars, bridgeVars>>
  /\ UNCHANGED <<joins, dave, vc, running, session, waiting, pushing, turn, said, overlaps>>

\* Mutant: Close waits for the goroutines before it closes the connection.
HangUpAfterWait ==
  /\ at = "closing" /\ bridge = "absent" /\ running = {}
  /\ vc' = FALSE /\ at' = "hangup"
  /\ UNCHANGED <<op, joins, active, ended, dave, live, running, session,
                 listenVars, turnVars, frames, speechVars, bridgeVars>>

\* The bridge is closed; Close closes the connection and waits.
HangUp ==
  /\ at = "closing" /\ bridge = "absent"
  /\ vc' = FALSE /\ at' = "hangup"
  /\ UNCHANGED <<op, joins, active, ended, dave, live, running, session,
                 listenVars, turnVars, frames, speechVars, bridgeVars>>

\* All goroutines have returned and the session is dropped: Leave and Terminal
\* drop the DAVE client and are done, Join, which has dropped it, goes on.
Closed ==
  /\ at = "hangup" /\ running = {}
  /\ IF op = "join" THEN at' = "joining" /\ UNCHANGED op
     ELSE at' = "none" /\ op' = "free"
  /\ dave' = FALSE
  /\ FreshSession
  /\ UNCHANGED <<joins, active, ended, lifeVars, bridge, alive, ready>>
  /\ events' = <<>>

StartBridge ==
  /\ at = "joining"
  /\ Launch
  /\ at' = "starting"
  /\ UNCHANGED <<op, joins, active, ended, dave, sessionVars>>

Starting ==
  /\ at = "starting"
  /\ at' = CASE bridge' = "open" -> "gateway"
             [] bridge' \in Closing -> "failing"
             [] OTHER -> at
  /\ UNCHANGED <<op, joins, active, ended, dave, sessionVars>>

BridgeStarts == StartNext /\ Starting
\* The start as a whole has a timeout.
StartGivenUp == StartFails /\ Starting

\* daveClient opens a client,
OpenGateway ==
  /\ at = "gateway"
  /\ dave' = TRUE /\ at' = "connecting"
  /\ UNCHANGED <<op, joins, active, ended, sessionVars, bridgeVars>>

\* or cannot open it: at first, or again after the first attempt to connect,
\* for which the client is dropped.
GatewayFails ==
  /\ at \in {"gateway", "connecting"}
  /\ dave' = FALSE
  /\ BeginClose
  /\ at' = "failing"
  /\ UNCHANGED <<op, joins, active, ended, sessionVars, alive, ready, events>>

\* connectDaveVoice has joined the channel, at the second attempt at the
\* latest; the session becomes active and its goroutines start.
Activate ==
  /\ at = "connecting"
  /\ active' = joins /\ session' = joins
  /\ live' = TRUE /\ vc' = TRUE /\ running' = Goroutines
  /\ FreshSession
  /\ op' = "free" /\ at' = "none"
  /\ UNCHANGED <<joins, ended, dave, bridgeVars>>

\* Mutant: the error path leaves the bridge to itself.
ConnectFailsOpen ==
  /\ at = "connecting"
  /\ op' = "free" /\ at' = "none"
  /\ UNCHANGED <<joins, active, ended, dave, sessionVars, bridgeVars>>

\* No attempt has succeeded.  Join closes the bridge, and nobody the client.
ConnectFails ==
  /\ at = "connecting"
  /\ BeginClose
  /\ at' = "failing"
  /\ UNCHANGED <<op, joins, active, ended, dave, sessionVars, alive, ready, events>>

\* The bridge of a failed join is closed.
JoinFailed ==
  /\ at = "failing" /\ bridge = "absent"
  /\ op' = "free" /\ at' = "none"
  /\ UNCHANGED <<joins, active, ended, dave, sessionVars, bridgeVars>>

BridgeCloses == CloseNext /\ UNCHANGED <<opVars, sessionVars>>

-----------------------------------------------------------------------------
(* processDiscordAudio and the silence timers *)

\* AppendOpus: the packet ends the last stretch of the track, or the backend
\* hears a pause before it and a new stretch begins.
AppendOpus(n) ==
  \/ Len(track) < MaxStretches /\ track' = Append(track, {n})
  \/ track # <<>> /\ track' = [track EXCEPT ![Len(track)] = @ \union {n}]

\* bufferOpusPacket for a user the bot listens to: the first packet begins an
\* utterance, and later ones come between those of the others.  Audio is read
\* until the connection is closed.
Packet(u) ==
  /\ "audio" \in running /\ vc /\ live
  /\ u \in Allowed
  /\ IF utter[u] # 0 THEN AppendOpus(utter[u]) /\ UNCHANGED <<said, utter, overlaps>>
     ELSE /\ said < MaxUtterances
          /\ said' = said + 1 /\ utter' = [utter EXCEPT ![u] = said']
          /\ overlaps' = IF talking = {} THEN overlaps ELSE overlaps \union talking'
          /\ AppendOpus(said')
  /\ UNCHANGED <<opVars, lifeVars, listenVars, turnVars, frames, bridgeVars>>

\* flushUtterance after a silence or at the longest utterance, whose speaker
\* may go on with the next.  When the queue is full the utterance is dropped.
Flush(u) ==
  /\ u \in Allowed /\ utter[u] # 0
  /\ utter' = [utter EXCEPT ![u] = 0]
  /\ \/ Len(utterances) < QueueCap /\ utterances' = Append(utterances, utter[u])
     \/ Len(utterances) = QueueCap /\ UNCHANGED utterances
  /\ UNCHANGED <<opVars, lifeVars, waiting, transcripts, turnVars, frames, said,
                 track, overlaps, bridgeVars>>

\* Discord closes the connection by itself.
ConnectionLost ==
  /\ op = "free" /\ vc
  /\ vc' = FALSE
  /\ UNCHANGED <<opVars, live, running, session, listenVars, turnVars, frames,
                 speechVars, bridgeVars>>

Ends(goroutine) ==
  /\ goroutine \in running
  /\ running' = running \ {goroutine}
  /\ UNCHANGED <<opVars, live, vc, session, listenVars, turnVars, frames,
                 speechVars, bridgeVars>>

\* The read fails on a closed connection.
AudioEnds == ~vc /\ Ends("audio")

-----------------------------------------------------------------------------
(* processUtterances *)

TakeUtterance ==
  /\ "utterances" \in running /\ waiting = Nothing /\ pushing = Nothing
  /\ utterances # <<>>
  /\ waiting' = Head(utterances) /\ utterances' = Tail(utterances)
  /\ UNCHANGED <<opVars, lifeVars, transcripts, turnVars, frames, speechVars, bridgeVars>>

\* Whatever transcript comes first is taken for the utterance's.
TakeTranscript ==
  /\ "utterances" \in running /\ waiting # Nothing /\ transcripts # <<>>
  /\ pushing' = [by |-> waiting, step |-> "offer"]
  /\ newest' = waiting
  /\ waiting' = Nothing /\ transcripts' = Tail(transcripts)
  /\ UNCHANGED <<opVars, lifeVars, utterances, turns, turn, frames, speechVars, bridgeVars>>

\* Mutant: an utterance without a transcript goes to the end of the queue and
\* the next one waits.
TranscriptRetried ==
  /\ "utterances" \in running /\ waiting # Nothing /\ transcripts = <<>>
  /\ LET queue == Append(utterances, waiting)
     IN  waiting' = Head(queue) /\ utterances' = Tail(queue)
  /\ UNCHANGED <<opVars, lifeVars, transcripts, turnVars, frames, speechVars, bridgeVars>>

\* The transcript takes too long.  It may still come.
TranscriptTimeout ==
  /\ "utterances" \in running /\ waiting # Nothing /\ transcripts = <<>>
  /\ waiting' = Nothing
  /\ UNCHANGED <<opVars, lifeVars, utterances, transcripts, turnVars, frames,
                 speechVars, bridgeVars>>

Pushing(step) == pushing # Nothing /\ pushing.step = step

Pushed ==
  /\ pushing' = Nothing
  /\ turns' = IF turns = <<>> THEN <<pushing.by>> ELSE turns

\* Mutant: a turn that finds the channel full is dropped.
OfferOrDrop ==
  /\ Pushing("offer")
  /\ Pushed
  /\ UNCHANGED <<opVars, lifeVars, listenVars, turn, newest, frames, speechVars, bridgeVars>>

\* enqueueLatestVoiceTurn: the first select finds room,
Offer ==
  /\ Pushing("offer")
  /\ IF turns = <<>> THEN Pushed
     ELSE pushing' = [pushing EXCEPT !.step = "drain"] /\ UNCHANGED turns
  /\ UNCHANGED <<opVars, lifeVars, listenVars, turn, newest, frames, speechVars, bridgeVars>>

\* the second throws away the turn that still waits,
Drain ==
  /\ Pushing("drain")
  /\ turns' = <<>>
  /\ pushing' = [pushing EXCEPT !.step = "send"]
  /\ UNCHANGED <<opVars, lifeVars, listenVars, turn, newest, frames, speechVars, bridgeVars>>

\* the third sends.
Send ==
  /\ Pushing("send")
  /\ Pushed
  /\ UNCHANGED <<opVars, lifeVars, listenVars, turn, newest, frames, speechVars, bridgeVars>>

UtterancesEnd == ~live /\ pushing = Nothing /\ Ends("utterances")

-----------------------------------------------------------------------------
(* processVoiceTurns *)

TakeTurn ==
  /\ "turns" \in running /\ turn = Nothing /\ turns # <<>>
  /\ turn' = "asking" /\ turns' = <<>>
  /\ newest' = IF newest = turns[1] THEN Nothing ELSE newest
  /\ UNCHANGED <<opVars, lifeVars, listenVars, pushing, frames, speechVars, bridgeVars>>

\* The agent returns within its timeout: an answer, or nothing to say.
AgentReturns ==
  /\ turn = "asking"
  /\ turn' \in {"speaking", Nothing}
  /\ UNCHANGED <<opVars, lifeVars, listenVars, pushing, turns, newest, frames,
                 speechVars, bridgeVars>>

SpeechReturns ==
  /\ turn = "speaking"
  /\ turn' = Nothing
  /\ UNCHANGED <<opVars, lifeVars, listenVars, pushing, turns, newest, frames,
                 speechVars, bridgeVars>>

\* AppendSpeech is answered,
Spoken == alive /\ SpeechReturns
\* or given up with the session or the app-server.
SpeechEnds == (~alive \/ ~live) /\ SpeechReturns

TurnsEnd == ~live /\ turn = Nothing /\ Ends("turns")

-----------------------------------------------------------------------------
(* processRealtimeEvents and the player *)

HearTranscript(words) ==
  /\ IF Len(transcripts) < QueueCap
     THEN transcripts' = Append(transcripts, words)
     ELSE UNCHANGED transcripts
  /\ UNCHANGED <<live, utter, track, utterances, turns, newest, frames>>

\* Write waits for room in the player until the session ends; the frame that
\* waits stays at the head of the events.
PlayAudio ==
  /\ IF live THEN frames < FrameCap /\ frames' = frames + 1
     ELSE UNCHANGED frames
  /\ UNCHANGED <<live, utter, track, utterances, transcripts, turns, newest>>

\* Mutant: the end of the backend is noted and nothing else.
TerminateQuietly ==
  /\ Cancel
  /\ running' = running \ {"events"}
  /\ UNCHANGED ended

\* terminate cancels the session; onTerminal runs in a goroutine of its own.
Terminate ==
  /\ Cancel
  /\ ended' = ended \union {session}
  /\ running' = running \ {"events"}

TakeEvent ==
  /\ "events" \in running /\ events # <<>>
  /\ LET event == Head(events)
     IN  \/ event = Failed /\ Terminate
         \/ /\ CASE event.type = "transcript" /\ live -> HearTranscript(event.of)
                 [] event = Audio -> PlayAudio
                 [] OTHER -> event # Failed /\ UNCHANGED cancelVars
            /\ UNCHANGED <<ended, running>>
  /\ events' = Tail(events)
  /\ UNCHANGED <<op, at, joins, active, dave, vc, session, waiting, pushing, turn, said,
                 overlaps, bridge, alive, ready>>

\* ProvideOpusFrame: Discord's sender takes a frame every 20 ms.
PlayFrame ==
  /\ vc /\ live /\ frames > 0
  /\ frames' = frames - 1
  /\ UNCHANGED <<opVars, lifeVars, listenVars, turnVars, speechVars, bridgeVars>>

EventsEnd == ~live /\ Ends("events")

-----------------------------------------------------------------------------
(* The backend *)

BackendActs == BackendNext /\ UNCHANGED <<opVars, sessionVars>>

\* The next stretch of audio is transcribed, or nothing is recognised.
Transcribe ==
  /\ track # <<>> /\ bridge \in Requested /\ alive
  /\ track' = Tail(track)
  /\ \/ events' = Emitted(Transcript(Head(track)))
     \/ UNCHANGED events
  /\ UNCHANGED <<opVars, lifeVars, listenVars, turnVars, frames, said, utter,
                 overlaps, bridge, alive, ready>>

Manage ==
  \/ \E s \in ended : Terminal(s)
  \/ HangUp \/ Closed \/ StartBridge \/ BridgeStarts \/ StartGivenUp
  \/ OpenGateway \/ GatewayFails \/ Activate \/ ConnectFails \/ JoinFailed \/ BridgeCloses

Listen ==
  \/ TakeUtterance \/ TakeTranscript \/ TranscriptTimeout
  \/ Offer \/ Drain \/ Send \/ UtterancesEnd

Answer == TakeTurn \/ AgentReturns \/ SpeechEnds \/ TurnsEnd

Hear == TakeEvent \/ EventsEnd

Run == AudioEnds \/ Listen \/ Answer \/ Hear

VoiceNext ==
  \/ BeginJoin \/ Leave \/ Manage
  \/ \E u \in Users : Packet(u) \/ Flush(u)
  \/ ConnectionLost
  \/ Run \/ Spoken \/ PlayFrame
  \/ BackendActs \/ Transcribe

VoiceSpec == VoiceInit /\ [][VoiceNext]_voiceVars

\* The manager and the goroutines run on, and every wait of the manager, of
\* the agent and for a transcript has a timeout, the start as a whole too.
\* Discord's sender plays on while the connection is open.  Nothing is
\* assumed of the backend.
VoiceFairness ==
  /\ WF_voiceVars(Manage) /\ WF_voiceVars(StartGivenUp)
  /\ WF_voiceVars(Run)
  /\ WF_voiceVars(PlayFrame)

VoiceFairSpec == VoiceSpec /\ VoiceFairness

-----------------------------------------------------------------------------
(* Properties *)

\* What is in the transcripts on their way in the event channel, and in all
\* that are there or to come.
Sent == UNION {words \in Stretches : Transcript(words) \in Range(events)}
Coming == (UNION Range(transcripts)) \union Sent \union UNION Range(track)

\* Utterances without a transcript and transcripts without an utterance.
Strays ==
  LET expecting == talking \union Range(utterances) \union ({waiting} \ {Nothing})
  IN  (expecting \ Coming) \union (Coming \ expecting)

\* A turn is attributed to the speaker of an utterance and has the transcript
\* that comes next.  It has none of that utterance's words only when somebody
\* else spoke between its first packet and its flush, or when at that moment
\* an utterance has no transcript any more or a transcript no utterance.  So
\* losses and timeouts put the two out of step, and so do speakers who talk
\* at the same time, but utterances that are cut at the longest length, run
\* together or are transcribed in pieces do so only as long as pieces are
\* left over; when the strays are used up the two are in step again.
RightSpeaker ==
  [][pushing = Nothing /\ pushing' # Nothing /\ waiting \notin Head(transcripts)
       => Strays # {} \/ waiting \in overlaps]_voiceVars

\* The newest turn is never the one that is dropped: it is being queued or
\* waits, until the turn goroutine takes it or the session is cancelled.
NewestKept ==
  newest # Nothing =>
    \/ newest \in Range(turns)
    \/ pushing # Nothing /\ pushing.by = newest

\* When no command or end of a session is under way, an active session has its
\* backend and its client of the DAVE gateway, and without one neither a
\* process, a voice connection nor a goroutine is left, whatever failed and in
\* whatever order sessions ended and began.  A client of the gateway is left
\* by a join that did not get into the channel, as long as no other join
\* begins: Leave, which finds no session, does not drop it.
NothingLeaks ==
  op = "free" =>
    IF active # 0 THEN bridge = "open" /\ ready = Halves /\ dave
    ELSE /\ bridge = "absent" /\ ~alive /\ ~vc /\ running = {}
         /\ dave => session < joins

\* A command that holds opMu gives it back: closing a session does not wait
\* for a goroutine that waits for it.
OpsEnd == op # "free" ~> op = "free"

\* A failure that has reached the channel ends the session, also when the
\* player is full, unless Discord has stopped to take frames.
FailureEndsSession ==
  (active # 0 /\ Failed \in Range(events)) ~> (active = 0 \/ ~vc)

-----------------------------------------------------------------------------
(* The inductive invariant behind NothingLeaks, NewestKept and RightSpeaker, *)
(* by parts.                                                               *)

\* Who holds opMu and where it is.  A session is active only between two
\* commands.
ManagerInv ==
  /\ op = "free" <=> at = "none"
  /\ at \notin {"none", "closing", "hangup"} => op = "join"
  /\ op # "free" => active = 0
  /\ session <= joins
  /\ op = "join" => session < joins

\* The backend at each place of the manager.
BackendInv ==
  /\ bridge \in {"absent", "prepare"} => ~alive
  /\ Started \in Range(events) \/ bridge = "open" => ready = Halves
  /\ at = "none" => bridge = IF active = 0 THEN "absent" ELSE "open"
  /\ at \in {"closing", "failing"} => bridge \in Closing
  /\ at \in {"hangup", "joining"} => bridge = "absent"
  /\ at = "starting" => bridge \in {"prepare", "connecting"} \union DOMAIN After
  /\ at \in {"gateway", "connecting"} => bridge = "open"

\* A client of the gateway belongs to the active session, to the command that
\* is about it, or to a join that failed.
ClientInv ==
  /\ active # 0 \/ at = "connecting" => dave
  /\ dave => active # 0 \/ op \in {"leave", "terminal"} \/ session < joins

\* The connection and the goroutines end in the session's Close.
LifeInv ==
  /\ active = 0 /\ at # "closing" => ~vc
  /\ active = 0 /\ at \notin {"closing", "hangup"} => running = {}
  /\ running # {} => session # 0

\* The turn that is being queued is the newest one, and nobody else sends.
PushInv ==
  /\ pushing # Nothing => waiting = Nothing /\ newest \in {Nothing, pushing.by}
  /\ Pushing("send") => turns = <<>>

Below(S, T) == \A m \in S : \A n \in T : m < n
UpTo(S, T) == \A m \in S : \A n \in T : m <= n

\* Utterances wait in the order in which they began, if nobody else spoke
\* during the one that is ahead.
SpokenInOrder ==
  /\ \A i, j \in 1..Len(utterances) :
       i < j => Below({utterances[i]} \ overlaps, {utterances[j]})
  /\ Below({waiting} \ (overlaps \union {Nothing}), Range(utterances) \union talking)
  /\ Below(Range(utterances) \ overlaps, talking)
  /\ \A n \in talking \ overlaps : n = said /\ talking = {n}

InOrder(heard) ==
  \A i, j \in 1..Len(heard) : i < j => UpTo(heard[i], heard[j] \ overlaps)

EventsInOrder ==
  \A i, j \in 1..Len(events) : \A first, next \in Stretches :
    i < j /\ events[i] = Transcript(first) /\ events[j] = Transcript(next)
      => UpTo(first, next \ overlaps)

\* What is heard before an utterance during which nobody else spoke began
\* before it.
HeardInOrder ==
  /\ InOrder(transcripts) /\ EventsInOrder /\ InOrder(track)
  /\ UpTo(UNION Range(transcripts), (Sent \union UNION Range(track)) \ overlaps)
  /\ UpTo(Sent, (UNION Range(track)) \ overlaps)

OrderInv == SpokenInOrder /\ HeardInOrder

VoiceInv ==
  /\ VoiceTypeOK
  /\ ManagerInv /\ BackendInv /\ ClientInv /\ LifeInv /\ PushInv /\ NewestKept /\ OrderInv
=============================================================================
