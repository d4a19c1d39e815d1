------------------------------ MODULE FileLock ------------------------------
(***************************************************************************)
(* internal/filelock: the advisory flock(2) that every writer of a shared  *)
(* file takes before it reads the file and drops after it replaced it.     *)
(* The kernel grants an exclusive lock to one open file at a time and      *)
(* frees it when the process that holds it dies.  The shell scripts take   *)
(* the same kind of lock with flock(1).                                    *)
(***************************************************************************)
EXTENDS Naturals, FiniteSets

CONSTANTS
  Procs,   \* the callers: goroutines of the services, runs of scripts
  Nobody   \* the lock is free

ASSUME NobodyIsNoProc == Nobody \notin Procs

VARIABLE holder

LockTypeOK == holder \in Procs \union {Nobody}

LockInit == holder = Nobody

\* Mutant: Acquire does not notice that the file is locked.
AcquireAlways(p) == holder' = p

\* Acquire retries LOCK_EX | LOCK_NB until it succeeds (or its context ends).
Acquire(p) == holder = Nobody /\ holder' = p

\* Release, and what the kernel does for a process that dies.
Release(p) == holder = p /\ holder' = Nobody

Vanish(p) == holder' = IF holder = p THEN Nobody ELSE holder
=============================================================================
