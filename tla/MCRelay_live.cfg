\* No crash loses the batch: every line is handled, every batch ends.
SPECIFICATION FairSpec
CONSTANTS
  ann = ann
  bob = bob
  MaxLines = 4
  Player <- MCPlayer
  Triggered <- MCTriggered
  TaskBoard <- MCTaskBoard
  SteeringCap = 1
  SeenMax = 4
  Texts = {t1, t2}
  t1 = t1
  t2 = t2
  MaxUpdates = 1
  MaxParts = 2
  SaveFails = TRUE
  AckLost = FALSE
  MaxUnlogged = 1
  MaxForgets = 0
  MaxCrashes = 0
INVARIANTS
  TurnsServed
PROPERTIES
  BatchEnds
  TurnsInOrder
