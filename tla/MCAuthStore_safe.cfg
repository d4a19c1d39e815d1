\* Two services and the login script; crashes, cancelled and delayed refreshes.
SPECIFICATION FairSpec
CONSTANTS
  s1 = s1
  s2 = s2
  l1 = l1
  Nobody = Nobody
  Services = {s1, s2}
  Logins = {l1}
  Procs = {s1, s2, l1}
  MaxToken = 3
INVARIANTS
  RefusedOnlyIfLost
  FileUsable
PROPERTIES
  LoginSurvives
  LockComesFree
