---------------------------- MODULE MCAuthStore -----------------------------
(* Two services and the login script on one credential file. *)
EXTENDS AuthStore

CONSTANTS s1, s2, l1
=============================================================================
