\* Two joins; every queue is so short that it runs full.
SPECIFICATION VoiceFairSpec
CONSTANTS
  EventCap = 1
  Users = {ann, bob, eve}
  Allowed = {ann, bob}
  QueueCap = 1
  FrameCap = 1
  MaxUtterances = 2
  MaxStretches = 1
  MaxJoins = 2
  Nothing = Nothing
INVARIANTS
  NewestKept
  NothingLeaks
PROPERTIES
  RightSpeaker
  OpsEnd
  FailureEndsSession
CHECK_DEADLOCK FALSE
