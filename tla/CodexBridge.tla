----------------------------- MODULE CodexBridge -----------------------------
(***************************************************************************)
(* discord-commands/codex_realtime.go: the realtime voice backend of a     *)
(* Discord voice session.  start launches a Codex app-server and sends it  *)
(* one request after the other; the backend is ready when the app-server   *)
(* has announced the conversation and the WebRTC peer is connected, in     *)
(* either order.  The readers of its output emit events into a channel of  *)
(* bounded capacity.  Close stops the conversation, the peer and the       *)
(* process.  VoiceSession uses the bridge.                                 *)
(*                                                                         *)
(* Abstractions.  "failed" stands for the error and the closed event, which *)
(* every reader treats alike.  A user's transcript carries the utterances  *)
(* of which it has words; those of the assistant are read and ignored and  *)
(* are left out.                                                           *)
(***************************************************************************)
EXTENDS Naturals, Sequences

CONSTANT EventCap   \* capacity of the event channel (256)

ASSUME EventAssumption == EventCap \in Nat \ {0}

VARIABLES
  bridge,   \* what start or Close waits for
  alive,    \* the app-server process runs
  ready,    \* which halves of the backend are ready
  events    \* the event channel

bridgeVars == <<bridge, alive, ready, events>>

Halves == {"app", "peer"}

\* The steps of start, each with the one that follows it.
After == [initialize |-> "login", login |-> "thread", thread |-> "offer",
          offer |-> "realtime", realtime |-> "connecting"]

\* start has the id of the thread, which Close stops first.
WithThread == {"offer", "realtime", "connecting", "open"}
\* The conversation has been requested: its events may come.
Requested == {"realtime", "connecting", "open"}
Closing == {"stop", "exit", "absent"}

Started == [type |-> "started"]
Audio == [type |-> "audio"]
Failed == [type |-> "failed"]
Transcript(words) == [type |-> "transcript", of |-> words]

BridgeTypeOK ==
  /\ bridge \in {"prepare", "open", "connecting"} \union DOMAIN After \union Closing
  /\ alive \in BOOLEAN
  /\ ready \subseteq Halves
  /\ Len(events) <= EventCap

BridgeInit == bridge = "absent" /\ alive = FALSE /\ ready = {} /\ events = <<>>

\* The channel after emit(event): a full channel drops the event.
Emitted(event) ==
  IF bridge \in Closing \/ Len(events) >= EventCap THEN events
  ELSE Append(events, event)

-----------------------------------------------------------------------------
(* What the app-server and the peer do *)

\* The conversation is announced or the peer connects; the second of the two
\* emits the started event, once.
BecomesReady(half) ==
  /\ bridge \in Requested /\ (half = "app" => alive)
  /\ half \notin ready
  /\ ready' = ready \union {half}
  /\ events' = IF ready' = Halves THEN Emitted(Started) ELSE events
  /\ UNCHANGED <<bridge, alive>>

\* The remote track delivers audio.
RemoteAudio ==
  /\ bridge \in Requested /\ "peer" \in ready
  /\ events' = Emitted(Audio)
  /\ UNCHANGED <<bridge, alive, ready>>

\* The connection fails or is closed, the track cannot be read, the answer is
\* not usable, or the app-server reports an error or the end.
BackendFails ==
  /\ bridge \in Requested
  /\ events' = Emitted(Failed)
  /\ UNCHANGED <<bridge, alive, ready>>

\* The process ends by itself.  The end of its output emits no event.
AppServerDies ==
  /\ alive
  /\ alive' = FALSE
  /\ UNCHANGED <<bridge, ready, events>>

-----------------------------------------------------------------------------
(* start *)

Launch ==
  /\ bridge = "absent"
  /\ bridge' = "prepare" /\ ready' = {} /\ events' = <<>>
  /\ UNCHANGED alive

\* The first state of Close: a thread is stopped, a process waited for.
BeginClose ==
  bridge' = CASE bridge \in WithThread -> "stop"
              [] bridge = "prepare" -> "absent"
              [] OTHER -> "exit"

\* Home, credentials, peer and process are there.
Prepared ==
  /\ bridge = "prepare"
  /\ bridge' = "initialize" /\ alive' = TRUE
  /\ UNCHANGED <<ready, events>>

\* The request of this step was answered; createOffer needs no app-server.
StepDone ==
  /\ bridge \in DOMAIN After
  /\ alive \/ bridge = "offer"
  /\ bridge' = After[bridge]
  /\ UNCHANGED <<alive, ready, events>>

\* start waits for the started event and skips the others but a failure.
AwaitReady ==
  /\ bridge = "connecting" /\ events # <<>>
  /\ CASE Head(events) = Started -> bridge' = "open"
       [] Head(events) = Failed -> BeginClose
       [] OTHER -> UNCHANGED bridge
  /\ events' = Tail(events)
  /\ UNCHANGED <<alive, ready>>

\* An error, the end of the process, or the timeout of start.
StartFails ==
  /\ bridge \in DOMAIN After \union {"prepare", "connecting"}
  /\ BeginClose
  /\ UNCHANGED <<alive, ready, events>>

-----------------------------------------------------------------------------
(* Close *)

\* thread/realtime/stop was answered, failed, or took more than two seconds.
StopDone ==
  /\ bridge = "stop"
  /\ bridge' = "exit"
  /\ UNCHANGED <<alive, ready, events>>

\* The process ends when its input is closed, or is killed.
Exited ==
  /\ bridge = "exit"
  /\ bridge' = "absent" /\ alive' = FALSE
  /\ UNCHANGED <<ready, events>>

BackendNext ==
  \/ \E half \in Halves : BecomesReady(half)
  \/ RemoteAudio \/ BackendFails \/ AppServerDies

StartNext == Prepared \/ StepDone \/ AwaitReady
CloseNext == StopDone \/ Exited
=============================================================================
