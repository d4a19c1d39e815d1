-------------------------- MODULE AuthStoreProofs ---------------------------
(***************************************************************************)
(* Proofs about AuthStore, for any number of services, logins and tokens.  *)
(* AuthInv is inductive: the holder of the lock works on the contents of   *)
(* the file, and the file's token is spent only between the server's       *)
(* answer and Save, when the holder has its successor.                     *)
(***************************************************************************)
EXTENDS AuthStore, TLAPS

USE NobodyIsNoProc, AuthAssumption DEF Tokens, NoToken, Goto, LockTypeOK, Missing

\* AuthInv holds initially.
LEMMA InvInit ==
  ASSUME Init
  PROVE  AuthInv
PROOF
  <1> USE DEF Init
  <1>1. file.token \in {NoToken, 1} /\ file \in Files /\ (Missing <=> file.token = NoToken)
    <2>1. CASE file = NoFile
      BY <2>1 DEF NoFile, Files
    <2>2. CASE file \in [token : {1}, login : {1}, due : BOOLEAN]
      BY <2>2 DEF Files
    <2> QED
      BY <2>1, <2>2
  <1>2. TypeOK
    BY <1>1 DEF TypeOK, LockInit, NoFile, Files
  <1>3. SpentOnlyInside /\ TokensIssued
    BY <1>1 DEF SpentOnlyInside, TokensIssued
  <1>4. LockHeld
    BY DEF LockHeld, LockInit, Inside
  <1> QED
    BY <1>2, <1>3, <1>4 DEF AuthInv, RefusedOnlyIfLost, ReturnsSaved, HolderSawFile,
       AnswerUsable, UploadUsable

\* No step breaks AuthInv: one step for each action, one below it for each
\* part of the invariant that the action can disturb.
LEMMA InvStep ==
  ASSUME AuthInv, [Next]_authVars
  PROVE  AuthInv'
PROOF
  <1>1. CASE IntervalPasses
    <2>1. TypeOK'
      BY <1>1 DEF AuthInv, TypeOK, IntervalPasses, Inside, Files
    <2>2. LockHeld'
      BY <1>1 DEF AuthInv, TypeOK, LockHeld, IntervalPasses, Inside
    <2>3. RefusedOnlyIfLost'
      BY <1>1 DEF AuthInv, TypeOK, RefusedOnlyIfLost, IntervalPasses, Inside
    <2>4. ReturnsSaved'
      BY <1>1 DEF AuthInv, TypeOK, LockHeld, ReturnsSaved, IntervalPasses,
         Inside
    <2>5. HolderSawFile'
      BY <1>1 DEF AuthInv, TypeOK, LockHeld, HolderSawFile, IntervalPasses,
         Inside
    <2>6. SpentOnlyInside'
      BY <1>1 DEF AuthInv, TypeOK, LockHeld, SpentOnlyInside, HolderSawFile,
         IntervalPasses, Inside
    <2>7. AnswerUsable'
      BY <1>1 DEF AuthInv, TypeOK, LockHeld, AnswerUsable, IntervalPasses,
         Inside
    <2>8. UploadUsable'
      BY <1>1 DEF AuthInv, TypeOK, UploadUsable, IntervalPasses, Inside
    <2>9. TokensIssued'
      BY <1>1 DEF AuthInv, TypeOK, TokensIssued, IntervalPasses, Inside, Files
    <2> QED
      BY <2>1, <2>2, <2>3, <2>4, <2>5, <2>6, <2>7, <2>8, <2>9 DEF AuthInv
  <1>2. ASSUME NEW s \in Services, EnsureFresh(s) PROVE AuthInv'
    <2>1. TypeOK'
      BY <1>2 DEF AuthInv, TypeOK, EnsureFresh, Inside, Files
    <2>2. LockHeld'
      BY <1>2 DEF AuthInv, TypeOK, LockHeld, EnsureFresh, Inside
    <2>3. RefusedOnlyIfLost'
      BY <1>2 DEF AuthInv, TypeOK, RefusedOnlyIfLost, EnsureFresh, Inside
    <2>4. ReturnsSaved'
      BY <1>2 DEF AuthInv, TypeOK, LockHeld, ReturnsSaved, EnsureFresh, Inside
    <2>5. HolderSawFile'
      BY <1>2 DEF AuthInv, TypeOK, LockHeld, HolderSawFile, EnsureFresh,
         Inside
    <2>6. SpentOnlyInside'
      BY <1>2 DEF AuthInv, TypeOK, LockHeld, SpentOnlyInside, HolderSawFile,
         EnsureFresh, Inside
    <2>7. AnswerUsable'
      BY <1>2 DEF AuthInv, TypeOK, LockHeld, AnswerUsable, EnsureFresh, Inside
    <2>8. UploadUsable'
      BY <1>2 DEF AuthInv, TypeOK, UploadUsable, EnsureFresh, Inside
    <2>9. TokensIssued'
      BY <1>2 DEF AuthInv, TypeOK, TokensIssued, EnsureFresh, Inside, Files
    <2> QED
      BY <2>1, <2>2, <2>3, <2>4, <2>5, <2>6, <2>7, <2>8, <2>9 DEF AuthInv
  <1>3. ASSUME NEW s \in Services, Load(s) PROVE AuthInv'
    <2>1. TypeOK'
      BY <1>3 DEF AuthInv, TypeOK, Load, LoadMissing, LoadFresh, LoadDue,
         Inside, Files
    <2>2. LockHeld'
      BY <1>3 DEF AuthInv, TypeOK, LockHeld, Load, LoadMissing, LoadFresh,
         LoadDue, Inside
    <2>3. RefusedOnlyIfLost'
      BY <1>3 DEF AuthInv, TypeOK, RefusedOnlyIfLost, Load, LoadMissing,
         LoadFresh, LoadDue, Inside
    <2>4. ReturnsSaved'
      BY <1>3 DEF AuthInv, TypeOK, LockHeld, ReturnsSaved, Load, LoadMissing,
         LoadFresh, LoadDue, Inside
    <2>5. HolderSawFile'
      BY <1>3 DEF AuthInv, TypeOK, LockHeld, HolderSawFile, Load, LoadMissing,
         LoadFresh, LoadDue, Inside
    <2>6. SpentOnlyInside'
      BY <1>3 DEF AuthInv, TypeOK, LockHeld, SpentOnlyInside, HolderSawFile,
         Load, LoadMissing, LoadFresh, LoadDue, Inside
    <2>7. AnswerUsable'
      BY <1>3 DEF AuthInv, TypeOK, LockHeld, AnswerUsable, Load, LoadMissing,
         LoadFresh, LoadDue, Inside
    <2>8. UploadUsable'
      BY <1>3 DEF AuthInv, TypeOK, UploadUsable, Load, LoadMissing, LoadFresh,
         LoadDue, Inside
    <2>9. TokensIssued'
      BY <1>3 DEF AuthInv, TypeOK, TokensIssued, Load, LoadMissing, LoadFresh,
         LoadDue, Inside, Files
    <2> QED
      BY <2>1, <2>2, <2>3, <2>4, <2>5, <2>6, <2>7, <2>8, <2>9 DEF AuthInv
  <1>4. ASSUME NEW s \in Services, Refresh(s) PROVE AuthInv'
    <2>1. TypeOK'
      <3>1. CASE AnswerRotated(s)
        <4>1. issued' = issued + 1 /\ issued < MaxToken
            /\ valid' = (valid \ {loaded[s].token}) \union {issued + 1}
          BY <1>4, <3>1 DEF Refresh, AnswerRotated, Rotate
        <4>2. issued' \in Tokens /\ valid' \subseteq 1..issued' /\ delayed' \subseteq 1..issued'
          <5>1. issued \in Nat /\ delayed' = delayed
            BY <1>4 DEF Refresh, AuthInv, TypeOK
          <5>2. issued + 1 \in Tokens /\ 1..issued \subseteq 1..(issued + 1)
                /\ issued + 1 \in 1..(issued + 1)
            BY <4>1, <5>1
          <5> QED
            BY <4>1, <5>1, <5>2 DEF AuthInv, TypeOK
        <4>3. reply' \in [Procs -> Tokens \union {NoToken}]
            /\ pc' \in [Procs -> {"idle", "waiting"} \union Inside]
          BY <1>4, <3>1, <4>1, <4>2 DEF AnswerRotated, AuthInv, TypeOK, Inside
        <4> QED
          BY <1>4, <3>1, <4>2, <4>3 DEF Refresh, AnswerRotated, AuthInv, TypeOK
      <3>2. CASE AnswerKept(s)
        <4>1. loaded[s].token \in Tokens
          <5>1. loaded[s].token \in 1..issued
            BY <3>2 DEF AnswerKept, AuthInv, TypeOK
          <5>2. issued \in Nat /\ issued <= MaxToken
            BY DEF AuthInv, TypeOK
          <5> QED
            BY <5>1, <5>2
        <4> QED
          BY <1>4, <3>2, <4>1 DEF Refresh, AnswerKept, AuthInv, TypeOK, Inside
      <3>3. CASE AnswerRefused(s)
        <4>1. loaded[s].token \in Tokens
          BY <1>4 DEF Refresh, AuthInv, TypeOK, Files, HolderSawFile
        <4> QED
          BY <1>4, <3>3, <4>1 DEF Refresh, AnswerRefused, AuthInv, TypeOK, Inside
      <3> QED
        BY <1>4, <3>1, <3>2, <3>3 DEF Refresh
    <2>2. LockHeld'
      BY <1>4 DEF AuthInv, TypeOK, LockHeld, Refresh, AnswerRotated,
         AnswerKept, AnswerRefused, Rotate, Inside
    <2>3. RefusedOnlyIfLost'
      <3>1. CASE AnswerRefused(s)
        <4>1. loaded[s].token = file.token /\ ~Missing
          BY <1>4 DEF Refresh, AuthInv, HolderSawFile
        <4>2. ~ \E q \in Services : pc[q] = "answered"
          BY <1>4 DEF Refresh, AuthInv, LockHeld, Inside
        <4>3. loaded[s].token \in lost
          BY <3>1, <4>1, <4>2 DEF AnswerRefused, AuthInv, SpentOnlyInside
        <4> QED
          BY <1>4, <3>1, <4>3 DEF Refresh, AnswerRefused, AuthInv, RefusedOnlyIfLost
      <3> QED
        BY <1>4, <3>1 DEF Refresh, AnswerRotated, AnswerKept, AuthInv, RefusedOnlyIfLost
    <2>4. ReturnsSaved'
      BY <1>4 DEF AuthInv, TypeOK, LockHeld, ReturnsSaved, Refresh,
         AnswerRotated, AnswerKept, AnswerRefused, Rotate, Inside
    <2>5. HolderSawFile'
      BY <1>4 DEF AuthInv, TypeOK, LockHeld, HolderSawFile, Refresh,
         AnswerRotated, AnswerKept, AnswerRefused, Rotate, Inside
    <2>6. SpentOnlyInside'
      BY <1>4 DEF AuthInv, TypeOK, LockHeld, SpentOnlyInside, HolderSawFile,
         Refresh, AnswerRotated, AnswerKept, AnswerRefused, Rotate, Inside
    <2>7. AnswerUsable'
      BY <1>4 DEF AuthInv, TypeOK, LockHeld, AnswerUsable, HolderSawFile,
         Refresh, AnswerRotated, AnswerKept, AnswerRefused, Rotate, Inside
    <2>8. UploadUsable'
      BY <1>4 DEF AuthInv, TypeOK, UploadUsable, TokensIssued, HolderSawFile,
         LockHeld, Refresh, AnswerRotated, AnswerKept, AnswerRefused, Rotate,
         Inside
    <2>9. TokensIssued'
      BY <1>4 DEF AuthInv, TypeOK, TokensIssued, HolderSawFile, LockHeld,
         Refresh, AnswerRotated, AnswerKept, AnswerRefused, Rotate, Inside,
         Files
    <2> QED
      BY <2>1, <2>2, <2>3, <2>4, <2>5, <2>6, <2>7, <2>8, <2>9 DEF AuthInv
  <1>5. ASSUME NEW s \in Services, Save(s) PROVE AuthInv'
    <2>1. TypeOK'
      BY <1>5 DEF AuthInv, TypeOK, HolderSawFile, AnswerUsable, Save, Inside,
         Files
    <2>2. LockHeld'
      BY <1>5 DEF AuthInv, TypeOK, LockHeld, Save, Inside
    <2>3. RefusedOnlyIfLost'
      BY <1>5 DEF AuthInv, TypeOK, RefusedOnlyIfLost, Save, Inside
    <2>4. ReturnsSaved'
      BY <1>5 DEF AuthInv, TypeOK, LockHeld, ReturnsSaved, HolderSawFile,
         Save, Inside
    <2>5. HolderSawFile'
      BY <1>5 DEF AuthInv, TypeOK, LockHeld, HolderSawFile, Save, Inside
    <2>6. SpentOnlyInside'
      BY <1>5 DEF AuthInv, TypeOK, LockHeld, SpentOnlyInside, HolderSawFile,
         AnswerUsable, Save, Inside
    <2>7. AnswerUsable'
      BY <1>5 DEF AuthInv, TypeOK, LockHeld, AnswerUsable, Save, Inside
    <2>8. UploadUsable'
      BY <1>5 DEF AuthInv, TypeOK, UploadUsable, Save, Inside
    <2>9. TokensIssued'
      BY <1>5 DEF AuthInv, TypeOK, TokensIssued, Save, Inside, Files
    <2> QED
      BY <2>1, <2>2, <2>3, <2>4, <2>5, <2>6, <2>7, <2>8, <2>9 DEF AuthInv
  <1>6. ASSUME NEW l \in Logins, Login(l) PROVE AuthInv'
    <2>1. TypeOK'
      BY <1>6 DEF AuthInv, TypeOK, Login, Inside, Files
    <2>2. LockHeld'
      BY <1>6 DEF AuthInv, TypeOK, LockHeld, Login, Inside
    <2>3. RefusedOnlyIfLost'
      BY <1>6 DEF AuthInv, TypeOK, RefusedOnlyIfLost, Login, Inside
    <2>4. ReturnsSaved'
      BY <1>6 DEF AuthInv, TypeOK, LockHeld, ReturnsSaved, Login, Inside
    <2>5. HolderSawFile'
      BY <1>6 DEF AuthInv, TypeOK, LockHeld, HolderSawFile, Login, Inside
    <2>6. SpentOnlyInside'
      BY <1>6 DEF AuthInv, TypeOK, LockHeld, SpentOnlyInside, HolderSawFile,
         Login, Inside
    <2>7. AnswerUsable'
      BY <1>6 DEF AuthInv, TypeOK, LockHeld, AnswerUsable, Login, Inside
    <2>8. UploadUsable'
      BY <1>6 DEF AuthInv, TypeOK, UploadUsable, TokensIssued, Login, Inside
    <2>9. TokensIssued'
      BY <1>6 DEF AuthInv, TypeOK, TokensIssued, Login, Inside, Files
    <2> QED
      BY <2>1, <2>2, <2>3, <2>4, <2>5, <2>6, <2>7, <2>8, <2>9 DEF AuthInv
  <1>7. ASSUME NEW l \in Logins, Install(l) PROVE AuthInv'
    <2>1. TypeOK'
      BY <1>7 DEF AuthInv, TypeOK, UploadUsable, Install, Inside, Files
    <2>2. LockHeld'
      BY <1>7 DEF AuthInv, TypeOK, LockHeld, Install, Inside
    <2>3. RefusedOnlyIfLost'
      BY <1>7 DEF AuthInv, TypeOK, RefusedOnlyIfLost, Install, Inside
    <2>4. ReturnsSaved'
      BY <1>7 DEF AuthInv, TypeOK, LockHeld, ReturnsSaved, Install, Inside
    <2>5. HolderSawFile'
      BY <1>7 DEF AuthInv, TypeOK, LockHeld, HolderSawFile, Install, Inside
    <2>6. SpentOnlyInside'
      BY <1>7 DEF AuthInv, TypeOK, LockHeld, SpentOnlyInside, HolderSawFile,
         UploadUsable, Install, Inside
    <2>7. AnswerUsable'
      BY <1>7 DEF AuthInv, TypeOK, LockHeld, AnswerUsable, Install, Inside
    <2>8. UploadUsable'
      BY <1>7 DEF AuthInv, TypeOK, UploadUsable, Install, Inside
    <2>9. TokensIssued'
      BY <1>7 DEF AuthInv, TypeOK, TokensIssued, Install, Inside, Files
    <2> QED
      BY <2>1, <2>2, <2>3, <2>4, <2>5, <2>6, <2>7, <2>8, <2>9 DEF AuthInv
  <1>8. ASSUME NEW p \in Procs, TakeLock(p) PROVE AuthInv'
    <2>1. TypeOK'
      BY <1>8 DEF AuthInv, TypeOK, TakeLock, Acquire, Inside, Files
    <2>2. LockHeld'
      BY <1>8 DEF AuthInv, TypeOK, LockHeld, TakeLock, Acquire, Inside
    <2>3. RefusedOnlyIfLost'
      BY <1>8 DEF AuthInv, TypeOK, RefusedOnlyIfLost, TakeLock, Acquire,
         Inside
    <2>4. ReturnsSaved'
      BY <1>8 DEF AuthInv, TypeOK, LockHeld, ReturnsSaved, TakeLock, Acquire,
         Inside
    <2>5. HolderSawFile'
      BY <1>8 DEF AuthInv, TypeOK, LockHeld, HolderSawFile, TakeLock, Acquire,
         Inside
    <2>6. SpentOnlyInside'
      BY <1>8 DEF AuthInv, TypeOK, LockHeld, SpentOnlyInside, HolderSawFile,
         TakeLock, Acquire, Inside
    <2>7. AnswerUsable'
      BY <1>8 DEF AuthInv, TypeOK, LockHeld, AnswerUsable, TakeLock, Acquire,
         Inside
    <2>8. UploadUsable'
      BY <1>8 DEF AuthInv, TypeOK, UploadUsable, TakeLock, Acquire, Inside
    <2>9. TokensIssued'
      BY <1>8 DEF AuthInv, TypeOK, TokensIssued, TakeLock, Acquire, Inside,
         Files
    <2> QED
      BY <2>1, <2>2, <2>3, <2>4, <2>5, <2>6, <2>7, <2>8, <2>9 DEF AuthInv
  <1>9. ASSUME NEW p \in Procs, GiveUp(p) PROVE AuthInv'
    <2>1. TypeOK'
      BY <1>9 DEF AuthInv, TypeOK, GiveUp, Inside, Files
    <2>2. LockHeld'
      BY <1>9 DEF AuthInv, TypeOK, LockHeld, GiveUp, Inside
    <2>3. RefusedOnlyIfLost'
      BY <1>9 DEF AuthInv, TypeOK, RefusedOnlyIfLost, GiveUp, Inside
    <2>4. ReturnsSaved'
      BY <1>9 DEF AuthInv, TypeOK, LockHeld, ReturnsSaved, GiveUp, Inside
    <2>5. HolderSawFile'
      BY <1>9 DEF AuthInv, TypeOK, LockHeld, HolderSawFile, GiveUp, Inside
    <2>6. SpentOnlyInside'
      BY <1>9 DEF AuthInv, TypeOK, LockHeld, SpentOnlyInside, HolderSawFile,
         GiveUp, Inside
    <2>7. AnswerUsable'
      BY <1>9 DEF AuthInv, TypeOK, LockHeld, AnswerUsable, GiveUp, Inside
    <2>8. UploadUsable'
      BY <1>9 DEF AuthInv, TypeOK, UploadUsable, GiveUp, Inside
    <2>9. TokensIssued'
      BY <1>9 DEF AuthInv, TypeOK, TokensIssued, GiveUp, Inside, Files
    <2> QED
      BY <2>1, <2>2, <2>3, <2>4, <2>5, <2>6, <2>7, <2>8, <2>9 DEF AuthInv
  <1>10. ASSUME NEW p \in Procs, Fail(p) PROVE AuthInv'
    <2>1. TypeOK'
      <3>1. pc[p] \in {"refreshing", "answered"} => loaded[p].token \in 1..issued
        BY DEF AuthInv, TypeOK, Files, HolderSawFile, TokensIssued
      <3>2. 1..issued \subseteq Tokens
        BY DEF AuthInv, TypeOK
      <3>3. delayed' \subseteq 1..issued /\ lost' \subseteq Tokens
        BY <1>10, <3>1, <3>2 DEF Fail, Forget, AuthInv, TypeOK
      <3> QED
        BY <1>10, <3>3 DEF Fail, Vanish, AuthInv, TypeOK, Inside
    <2>2. LockHeld'
      BY <1>10 DEF AuthInv, TypeOK, LockHeld, Fail, Forget, Inside
    <2>3. RefusedOnlyIfLost'
      BY <1>10 DEF AuthInv, TypeOK, RefusedOnlyIfLost, Fail, Forget, Inside
    <2>4. ReturnsSaved'
      BY <1>10 DEF AuthInv, TypeOK, LockHeld, ReturnsSaved, Fail, Forget,
         Inside
    <2>5. HolderSawFile'
      BY <1>10 DEF AuthInv, TypeOK, LockHeld, HolderSawFile, Fail, Forget,
         Inside
    <2>6. SpentOnlyInside'
      BY <1>10 DEF AuthInv, TypeOK, LockHeld, SpentOnlyInside, HolderSawFile,
         Fail, Forget, Inside
    <2>7. AnswerUsable'
      BY <1>10 DEF AuthInv, TypeOK, LockHeld, AnswerUsable, Fail, Forget,
         Inside
    <2>8. UploadUsable'
      BY <1>10 DEF AuthInv, TypeOK, UploadUsable, LockHeld, HolderSawFile,
         Fail, Forget, Inside
    <2>9. TokensIssued'
      BY <1>10 DEF AuthInv, TypeOK, TokensIssued, HolderSawFile, LockHeld,
         Fail, Forget, Inside, Files
    <2> QED
      BY <2>1, <2>2, <2>3, <2>4, <2>5, <2>6, <2>7, <2>8, <2>9 DEF AuthInv
  <1>11. ASSUME NEW p \in Procs, Return(p) PROVE AuthInv'
    <2>1. TypeOK'
      BY <1>11 DEF AuthInv, TypeOK, Return, Release, Inside, Files
    <2>2. LockHeld'
      BY <1>11 DEF AuthInv, TypeOK, LockHeld, Return, Release, Inside
    <2>3. RefusedOnlyIfLost'
      BY <1>11 DEF AuthInv, TypeOK, RefusedOnlyIfLost, Return, Release, Inside
    <2>4. ReturnsSaved'
      BY <1>11 DEF AuthInv, TypeOK, LockHeld, ReturnsSaved, Return, Release,
         Inside
    <2>5. HolderSawFile'
      BY <1>11 DEF AuthInv, TypeOK, LockHeld, HolderSawFile, Return, Release,
         Inside
    <2>6. SpentOnlyInside'
      BY <1>11 DEF AuthInv, TypeOK, LockHeld, SpentOnlyInside, HolderSawFile,
         Return, Release, Inside
    <2>7. AnswerUsable'
      BY <1>11 DEF AuthInv, TypeOK, LockHeld, AnswerUsable, Return, Release,
         Inside
    <2>8. UploadUsable'
      BY <1>11 DEF AuthInv, TypeOK, UploadUsable, Return, Release, Inside
    <2>9. TokensIssued'
      BY <1>11 DEF AuthInv, TypeOK, TokensIssued, Return, Release, Inside,
         Files
    <2> QED
      BY <2>1, <2>2, <2>3, <2>4, <2>5, <2>6, <2>7, <2>8, <2>9 DEF AuthInv
  <1>12. ASSUME NEW p \in Procs, Crash(p) PROVE AuthInv'
    <2>1. TypeOK'
      <3>1. pc[p] \in {"refreshing", "answered"} => loaded[p].token \in 1..issued
        BY DEF AuthInv, TypeOK, Files, HolderSawFile, TokensIssued
      <3>2. 1..issued \subseteq Tokens
        BY DEF AuthInv, TypeOK
      <3>3. delayed' \subseteq 1..issued /\ lost' \subseteq Tokens
        BY <1>12, <3>1, <3>2 DEF Crash, Forget, AuthInv, TypeOK
      <3> QED
        BY <1>12, <3>3 DEF Crash, Vanish, AuthInv, TypeOK, Inside
    <2>2. LockHeld'
      BY <1>12 DEF AuthInv, TypeOK, LockHeld, Crash, Vanish, Forget, Inside
    <2>3. RefusedOnlyIfLost'
      BY <1>12 DEF AuthInv, TypeOK, RefusedOnlyIfLost, Crash, Vanish, Forget,
         Inside
    <2>4. ReturnsSaved'
      BY <1>12 DEF AuthInv, TypeOK, LockHeld, ReturnsSaved, Crash, Vanish,
         Forget, Inside
    <2>5. HolderSawFile'
      BY <1>12 DEF AuthInv, TypeOK, LockHeld, HolderSawFile, Crash, Vanish,
         Forget, Inside
    <2>6. SpentOnlyInside'
      BY <1>12 DEF AuthInv, TypeOK, LockHeld, SpentOnlyInside, HolderSawFile,
         Crash, Vanish, Forget, Inside
    <2>7. AnswerUsable'
      BY <1>12 DEF AuthInv, TypeOK, LockHeld, AnswerUsable, Crash, Vanish,
         Forget, Inside
    <2>8. UploadUsable'
      BY <1>12 DEF AuthInv, TypeOK, UploadUsable, LockHeld, HolderSawFile,
         Crash, Vanish, Forget, Inside
    <2>9. TokensIssued'
      BY <1>12 DEF AuthInv, TypeOK, TokensIssued, HolderSawFile, LockHeld,
         Crash, Vanish, Forget, Inside, Files
    <2> QED
      BY <2>1, <2>2, <2>3, <2>4, <2>5, <2>6, <2>7, <2>8, <2>9 DEF AuthInv
  <1>13. ASSUME NEW t \in Tokens, ServeDelayed(t) PROVE AuthInv'
    <2>1. TypeOK'
      BY <1>13 DEF AuthInv, TypeOK, ServeDelayed, Rotate, Inside, Files
    <2>2. LockHeld'
      BY <1>13 DEF AuthInv, TypeOK, LockHeld, ServeDelayed, Rotate, Inside
    <2>3. RefusedOnlyIfLost'
      BY <1>13 DEF AuthInv, TypeOK, RefusedOnlyIfLost, ServeDelayed, Rotate,
         Inside
    <2>4. ReturnsSaved'
      BY <1>13 DEF AuthInv, TypeOK, LockHeld, ReturnsSaved, ServeDelayed,
         Rotate, Inside
    <2>5. HolderSawFile'
      BY <1>13 DEF AuthInv, TypeOK, LockHeld, HolderSawFile, ServeDelayed,
         Rotate, Inside
    <2>6. SpentOnlyInside'
      BY <1>13 DEF AuthInv, TypeOK, LockHeld, SpentOnlyInside, HolderSawFile,
         ServeDelayed, Rotate, Inside
    <2>7. AnswerUsable'
      BY <1>13 DEF AuthInv, TypeOK, LockHeld, AnswerUsable, ServeDelayed,
         Rotate, Inside
    <2>8. UploadUsable'
      BY <1>13 DEF AuthInv, TypeOK, UploadUsable, TokensIssued, ServeDelayed,
         Rotate, Inside
    <2>9. TokensIssued'
      BY <1>13 DEF AuthInv, TypeOK, TokensIssued, ServeDelayed, Rotate,
         Inside, Files
    <2> QED
      BY <2>1, <2>2, <2>3, <2>4, <2>5, <2>6, <2>7, <2>8, <2>9 DEF AuthInv
  <1>14. CASE UNCHANGED authVars
    <2>1. TypeOK'
      BY <1>14 DEF AuthInv, TypeOK, authVars, Inside, Files
    <2>2. LockHeld'
      BY <1>14 DEF AuthInv, TypeOK, LockHeld, authVars, Inside
    <2>3. RefusedOnlyIfLost'
      BY <1>14 DEF AuthInv, TypeOK, RefusedOnlyIfLost, authVars, Inside
    <2>4. ReturnsSaved'
      BY <1>14 DEF AuthInv, TypeOK, LockHeld, ReturnsSaved, authVars, Inside
    <2>5. HolderSawFile'
      BY <1>14 DEF AuthInv, TypeOK, LockHeld, HolderSawFile, authVars, Inside
    <2>6. SpentOnlyInside'
      BY <1>14 DEF AuthInv, TypeOK, LockHeld, SpentOnlyInside, HolderSawFile,
         authVars, Inside
    <2>7. AnswerUsable'
      BY <1>14 DEF AuthInv, TypeOK, LockHeld, AnswerUsable, authVars, Inside
    <2>8. UploadUsable'
      BY <1>14 DEF AuthInv, TypeOK, UploadUsable, authVars, Inside
    <2>9. TokensIssued'
      BY <1>14 DEF AuthInv, TypeOK, TokensIssued, authVars, Inside, Files
    <2> QED
      BY <2>1, <2>2, <2>3, <2>4, <2>5, <2>6, <2>7, <2>8, <2>9 DEF AuthInv
  <1> QED
    BY <1>1, <1>2, <1>3, <1>4, <1>5, <1>6, <1>7,
       <1>8, <1>9, <1>10, <1>11, <1>12, <1>13, <1>14 DEF Next

\* AuthInv is an invariant.
LEMMA InvariantHolds == Spec => []AuthInv
PROOF
  BY InvInit, InvStep, PTL DEF Spec

\* Types, for all values of the constants.
THEOREM TypeCorrect == Spec => []TypeOK
PROOF
  <1>1. AuthInv => TypeOK
    BY DEF AuthInv
  <1> QED
    BY <1>1, InvariantHolds, PTL

\* Only the holder of the lock is between Acquire and Release, also when
\* services crash and requests outlive their senders.
THEOREM MutualExclusion == Spec => []LockHeld
PROOF
  <1>1. AuthInv => LockHeld
    BY DEF AuthInv
  <1> QED
    BY <1>1, InvariantHolds, PTL

\* A caller is refused only a token whose refresh was cut off earlier.
THEOREM TokensSpentOnce == Spec => []RefusedOnlyIfLost
PROOF
  <1>1. AuthInv => RefusedOnlyIfLost
    BY DEF AuthInv
  <1> QED
    BY <1>1, InvariantHolds, PTL

\* The unlocked file holds an accepted token, or one lost in a refresh.
THEOREM FileStaysUsable == Spec => []FileUsable
PROOF
  <1>1. AuthInv => FileUsable
    BY DEF AuthInv, TypeOK, LockHeld, SpentOnlyInside, FileUsable, Inside
  <1> QED
    BY <1>1, InvariantHolds, PTL

\* A step that replaces the file under the lock keeps the newer login.
LEMMA LoginKept ==
  ASSUME AuthInv, [Next]_authVars
  PROVE  [file'.login >= file.login]_authVars
PROOF
  <1> USE DEF AuthInv, TypeOK, Files
  <1>1. file.login \in Nat
    OBVIOUS
  <1>2. ASSUME NEW s \in Services, Save(s) PROVE file'.login = file.login
    BY <1>2 DEF Save, HolderSawFile
  <1>3. ASSUME NEW l \in Logins, Install(l) PROVE file'.login = file.login + 1
    BY <1>3 DEF Install
  <1>4. CASE IntervalPasses
    BY <1>1, <1>4 DEF IntervalPasses
  <1>5. CASE file' = file
    BY <1>1, <1>5
  <1> QED
    BY <1>1, <1>2, <1>3, <1>4, <1>5
    DEF Next, authVars, EnsureFresh, Load, Refresh, Login, TakeLock, GiveUp, Fail,
        Return, Crash, ServeDelayed

\* A refresh that began before a login never overwrites the new login.
THEOREM LoginsSurvive == Spec => LoginSurvives
PROOF
  BY InvariantHolds, LoginKept, PTL DEF Spec, LoginSurvives
=============================================================================
