----------------------------- MODULE AgentTurn ------------------------------
(***************************************************************************)
(* What the callers of agent.Runner.Run (mc-relay, the Discord bot) may    *)
(* rely on: while a run lasts it takes steering messages out of the        *)
(* channel one after the other and publishes commentary; once it has       *)
(* returned it does neither.  What is sent after that stays in the channel *)
(* and is lost with it.                                                    *)
(*                                                                         *)
(* AgentRunner implements this specification; the actions AgentReads,      *)
(* Publish and AgentReturns of Relay follow it.                            *)
(***************************************************************************)
EXTENDS Naturals, Sequences

CONSTANT Messages    \* steering messages

VARIABLES
  channel,    \* the steering channel
  taken,      \* messages the run has received, in order
  published,  \* how many commentary items it has published
  over        \* the run has returned

turnVars == <<channel, taken, published, over>>

TypeOK ==
  /\ channel \in Seq(Messages)
  /\ taken \in Seq(Messages)
  /\ published \in Nat
  /\ over \in BOOLEAN

Init ==
  /\ channel = <<>>
  /\ taken = <<>>
  /\ published = 0
  /\ over = FALSE

Send(m) ==
  /\ channel' = Append(channel, m)
  /\ UNCHANGED <<taken, published, over>>

Take ==
  /\ ~over
  /\ channel # <<>>
  /\ taken' = Append(taken, Head(channel))
  /\ channel' = Tail(channel)
  /\ UNCHANGED <<published, over>>

Publish ==
  /\ ~over
  /\ published' = published + 1
  /\ UNCHANGED <<channel, taken, over>>

Return ==
  /\ ~over
  /\ over' = TRUE
  /\ UNCHANGED <<channel, taken, published>>

Next ==
  \/ \E m \in Messages : Send(m)
  \/ Take
  \/ Publish
  \/ Return

Spec == Init /\ [][Next]_turnVars
=============================================================================
