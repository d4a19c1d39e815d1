--------------------------- MODULE MCVoiceSession ---------------------------
(***************************************************************************)
(* Two joins, two speakers the bot listens to and one it does not, two     *)
(* utterances that may overlap; every queue holds one entry, so that each  *)
(* of them runs full.                                                      *)
(***************************************************************************)
EXTENDS VoiceSession
=============================================================================
