----------------------------- MODULE AuthStore ------------------------------
(***************************************************************************)
(* internal/greggptauth: the OAuth credential file that mc-relay and the   *)
(* Discord bot share.  Refresh tokens rotate: the server hands out a new   *)
(* one with a refresh and from then on refuses the old one, so a token     *)
(* that two callers present, or a new one that is not saved, ends the      *)
(* login.  EnsureFresh therefore reads, refreshes and replaces the file    *)
(* under a file lock; scripts/login_greggpt_oauth_on_pi.sh installs a new  *)
(* login under the same lock.                                              *)
(*                                                                         *)
(* Abstractions.  Refresh tokens are numbered in the order the server      *)
(* issues them; access and ID tokens, JSON and HTTP are left out.  That    *)
(* the refresh interval has passed is the flag due of the file.  The file  *)
(* is replaced by rename(2), so a crash leaves the old or the new one.     *)
(***************************************************************************)
EXTENDS FileLock

CONSTANTS
  Services,  \* callers of EnsureFresh: a model request, a voice session
  Logins,    \* runs of the login script
  MaxToken   \* bound on the refresh tokens the server issues

ASSUME AuthAssumption ==
  /\ Procs = Services \union Logins
  /\ Services \intersect Logins = {}
  /\ MaxToken \in Nat \ {0}

Tokens == 1..MaxToken

NoToken == 0

VARIABLES
  file,      \* auth.json: its refresh token, the login it descends from,
             \* and whether the refresh interval has passed
  pc,        \* what each caller does
  loaded,    \* what it read from the file
  reply,     \* the refresh token it got from the server, or is to return
  issued,    \* tokens 1..issued exist
  valid,     \* the tokens the server accepts
  delayed,   \* tokens in requests whose sender has given up
  lost,      \* tokens spent by a refresh whose outcome was not saved
  refused    \* tokens the server refused to a caller that waited for it

authVars == <<holder, file, pc, loaded, reply, issued, valid, delayed, lost, refused>>

Files == [token : Tokens \union {NoToken}, login : Nat, due : BOOLEAN]

NoFile == [token |-> NoToken, login |-> 0, due |-> TRUE]

Missing == file.login = 0

\* "done" and "failed" are the deferred Release before the call returns.
Inside == {"locked", "refreshing", "answered", "done", "failed"}

TypeOK ==
  /\ LockTypeOK
  /\ file \in Files /\ (Missing <=> file.token = NoToken)
  /\ pc \in [Procs -> {"idle", "waiting"} \union Inside]
  /\ loaded \in [Procs -> Files]
  /\ reply \in [Procs -> Tokens \union {NoToken}]
  /\ issued \in Tokens
  /\ valid \subseteq 1..issued
  /\ delayed \subseteq 1..issued
  /\ lost \subseteq Tokens
  /\ refused \subseteq Tokens

\* The first login is on disk, or nobody has logged in yet.
Init ==
  /\ LockInit
  /\ file \in {NoFile} \union [token : {1}, login : {1}, due : BOOLEAN]
  /\ pc = [p \in Procs |-> "idle"]
  /\ loaded = [p \in Procs |-> NoFile]
  /\ reply = [p \in Procs |-> NoToken]
  /\ issued = 1
  /\ valid = {1}
  /\ delayed = {}
  /\ lost = {}
  /\ refused = {}

Goto(p, state) == pc' = [pc EXCEPT ![p] = state]

\* ShouldRefresh turns true once the refresh interval has passed.
IntervalPasses ==
  /\ file' = [token |-> file.token, login |-> file.login, due |-> TRUE]
  /\ UNCHANGED <<holder, pc, loaded, reply, issued, valid, delayed, lost, refused>>

EnsureFresh(s) ==
  /\ pc[s] = "idle"
  /\ Goto(s, "waiting")
  /\ UNCHANGED <<holder, file, loaded, reply, issued, valid, delayed, lost, refused>>

\* A device login on the workstation: the server issues a token of a new
\* session, which is uploaded; the earlier sessions stay valid.
Login(l) ==
  /\ pc[l] = "idle" /\ issued < MaxToken
  /\ issued' = issued + 1
  /\ valid' = valid \union {issued + 1}
  /\ reply' = [reply EXCEPT ![l] = issued + 1]
  /\ Goto(l, "waiting")
  /\ UNCHANGED <<holder, file, loaded, delayed, lost, refused>>

TakeLock(p) ==
  /\ pc[p] = "waiting"
  /\ Acquire(p)
  /\ Goto(p, "locked")
  /\ UNCHANGED <<file, loaded, reply, issued, valid, delayed, lost, refused>>

\* The context ends before the lock is free; flock -w 60 in the script.
GiveUp(p) ==
  /\ pc[p] = "waiting"
  /\ Goto(p, "idle")
  /\ UNCHANGED <<holder, file, loaded, reply, issued, valid, delayed, lost, refused>>

LoadMissing(s) ==
  /\ Missing
  /\ Goto(s, "failed")
  /\ UNCHANGED <<loaded, reply>>

LoadFresh(s) ==
  /\ ~Missing /\ ~file.due
  /\ loaded' = [loaded EXCEPT ![s] = file]
  /\ reply' = [reply EXCEPT ![s] = file.token]
  /\ Goto(s, "done")

LoadDue(s) ==
  /\ ~Missing /\ file.due
  /\ loaded' = [loaded EXCEPT ![s] = file]
  /\ Goto(s, "refreshing")
  /\ UNCHANGED reply

Load(s) ==
  /\ pc[s] = "locked"
  /\ LoadMissing(s) \/ LoadFresh(s) \/ LoadDue(s)
  /\ UNCHANGED <<holder, file, issued, valid, delayed, lost, refused>>

\* The server replaces the token of the request.
Rotate(t) ==
  /\ t \in valid /\ issued < MaxToken
  /\ issued' = issued + 1
  /\ valid' = (valid \ {t}) \union {issued + 1}

AnswerRotated(s) ==
  /\ Rotate(loaded[s].token)
  /\ reply' = [reply EXCEPT ![s] = issued + 1]
  /\ Goto(s, "answered")
  /\ UNCHANGED refused

\* A response without a refresh token: Refresh keeps the old one.
AnswerKept(s) ==
  /\ loaded[s].token \in valid
  /\ reply' = [reply EXCEPT ![s] = loaded[s].token]
  /\ Goto(s, "answered")
  /\ UNCHANGED <<issued, valid, refused>>

AnswerRefused(s) ==
  /\ loaded[s].token \notin valid
  /\ refused' = refused \union {loaded[s].token}
  /\ Goto(s, "failed")
  /\ UNCHANGED <<reply, issued, valid>>

Refresh(s) ==
  /\ pc[s] = "refreshing"
  /\ AnswerRotated(s) \/ AnswerKept(s) \/ AnswerRefused(s)
  /\ UNCHANGED <<holder, file, loaded, delayed, lost>>

\* Mutant: the refreshed credentials are not saved.
SaveNothing(s) ==
  /\ pc[s] = "answered"
  /\ Goto(s, "done")
  /\ UNCHANGED <<holder, file, loaded, reply, issued, valid, delayed, lost, refused>>

Save(s) ==
  /\ pc[s] = "answered"
  /\ file' = [token |-> reply[s], login |-> loaded[s].login, due |-> FALSE]
  /\ Goto(s, "done")
  /\ UNCHANGED <<holder, loaded, reply, issued, valid, delayed, lost, refused>>

\* The script replaces the file; the new session is fresh.
Install(l) ==
  /\ pc[l] = "locked"
  /\ file' = [token |-> reply[l], login |-> file.login + 1, due |-> FALSE]
  /\ Goto(l, "done")
  /\ UNCHANGED <<holder, loaded, reply, issued, valid, delayed, lost, refused>>

\* A caller that stops between sending the token and saving the answer: the
\* request may still be on its way, a rotation may be lost.
Forget(p) ==
  /\ delayed' = IF pc[p] = "refreshing" THEN delayed \union {loaded[p].token} ELSE delayed
  /\ lost' = IF pc[p] = "answered" THEN lost \union ({loaded[p].token} \ valid) ELSE lost

\* Network error, cancelled context (a steering message cancels the model
\* request and with it the refresh), undecodable answer, write error.
Fail(p) ==
  /\ pc[p] \in {"locked", "refreshing", "answered"}
  /\ Forget(p)
  /\ Goto(p, "failed")
  /\ UNCHANGED <<holder, file, loaded, reply, issued, valid, refused>>

\* Mutant: the lock is not released on the error paths.
ReturnAndKeepLock(p) ==
  /\ pc[p] \in {"done", "failed"}
  /\ IF pc[p] = "done" THEN Release(p) ELSE UNCHANGED holder
  /\ Goto(p, "idle")
  /\ UNCHANGED <<file, loaded, reply, issued, valid, delayed, lost, refused>>

Return(p) ==
  /\ pc[p] \in {"done", "failed"}
  /\ Release(p)
  /\ Goto(p, "idle")
  /\ UNCHANGED <<file, loaded, reply, issued, valid, delayed, lost, refused>>

Crash(p) ==
  /\ pc[p] # "idle"
  /\ Vanish(p)
  /\ Forget(p)
  /\ Goto(p, "idle")
  /\ UNCHANGED <<file, loaded, reply, issued, valid, refused>>

\* A request reaches the server after its sender has given up.
ServeDelayed(t) ==
  /\ t \in delayed
  /\ Rotate(t)
  /\ lost' = lost \union {t}
  /\ delayed' = delayed \ {t}
  /\ UNCHANGED <<holder, file, pc, loaded, reply, refused>>

Work(p) == Return(p) \/ Fail(p)

Next ==
  \/ IntervalPasses
  \/ \E s \in Services : EnsureFresh(s) \/ Load(s) \/ Refresh(s) \/ Save(s)
  \/ \E l \in Logins : Login(l) \/ Install(l)
  \/ \E p \in Procs : TakeLock(p) \/ GiveUp(p) \/ Fail(p) \/ Return(p) \/ Crash(p)
  \/ \E t \in Tokens : ServeDelayed(t)

Spec == Init /\ [][Next]_authVars

\* A caller does not wait for the server or the disk for ever, because every
\* context ends; what it then does under the lock is local.
Fairness == \A p \in Procs : WF_authVars(Work(p))

FairSpec == Spec /\ Fairness

-----------------------------------------------------------------------------
(* Properties *)

\* Only the holder of the lock is between Acquire and Release of EnsureFresh
\* or of the login script.
LockHeld == \A p \in Procs : pc[p] \in Inside <=> holder = p

\* The server never refuses a token to a caller, unless an earlier refresh
\* with that token was cut off before its outcome was saved: EnsureFresh of
\* two services never spends one token twice.
RefusedOnlyIfLost == refused \subseteq lost

\* Whenever the lock is free the file holds a token the server accepts,
\* unless a refresh of exactly this token was cut off (store.go, EnsureFresh).
FileUsable ==
  holder = Nobody => Missing \/ file.token \in valid \union lost

\* What EnsureFresh returns is what the other services will read: the saved
\* credentials, never an unsaved or older token.
ReturnsSaved ==
  \A s \in Services : pc[s] = "done" => reply[s] = file.token

\* A refresh that began before a login never overwrites the new login.
LoginSurvives == [][file'.login >= file.login]_authVars

\* The lock comes free again and again, on error paths and after crashes
\* too: no service is locked out of the credentials for good.
LockComesFree == []<>(holder = Nobody)

-----------------------------------------------------------------------------
(* The inductive invariant *)

\* The service that refreshes works on the contents of the file.
HolderSawFile ==
  \A p \in Procs : pc[p] \in {"refreshing", "answered"} =>
    /\ p \in Services
    /\ ~Missing
    /\ loaded[p].token = file.token /\ loaded[p].login = file.login

\* The file's token is spent and not yet replaced only between the server's
\* answer and Save; the answer is then usable.
SpentOnlyInside ==
  \/ Missing
  \/ file.token \in valid \union lost
  \/ \E s \in Services : pc[s] = "answered"

AnswerUsable ==
  \A s \in Services : pc[s] = "answered" => reply[s] \in valid \union lost

\* The token that a run of the login script is about to install is accepted,
\* and nobody else has it.
UploadUsable ==
  \A l \in Logins : pc[l] \in {"waiting", "locked"} =>
    /\ reply[l] \in valid
    /\ reply[l] \notin delayed
    /\ reply[l] # file.token
    /\ \A s \in Services : pc[s] = "answered" => reply[l] # reply[s]
    /\ \A k \in Logins \ {l} : pc[k] \in {"waiting", "locked"} => reply[l] # reply[k]

\* No token is known before the server issued it.
TokensIssued ==
  /\ file.token <= issued
  /\ \A p \in Procs : reply[p] <= issued

AuthInv ==
  /\ TypeOK /\ LockHeld /\ RefusedOnlyIfLost /\ ReturnsSaved
  /\ HolderSawFile /\ SpentOnlyInside /\ AnswerUsable /\ UploadUsable /\ TokensIssued

=============================================================================
