--------------------------- MODULE MCDiscordTasks ---------------------------
(***************************************************************************)
(* Five deliveries: a mention and a message without one, each delivered    *)
(* twice, and a mention without text, which starts a task too.             *)
(***************************************************************************)
EXTENDS DiscordTasks

AllDeliveries == 1..5
AllMessages == <<1, 1, 2, 2, 3>>
=============================================================================
