\* A bridge that repeats lines, a crash, a row the history refuses, marks dropped by
\* pruneSeen.
SPECIFICATION Spec
CONSTANTS
  ann = ann
  bob = bob
  MaxLines = 3
  Player <- MCPlayer3
  Triggered <- MCTriggered3
  TaskBoard <- MCTaskBoard
  SteeringCap = 1
  SeenMax = 2
  Texts = {}
  MaxUpdates = 1
  MaxParts = 1
  SaveFails = FALSE
  AckLost = TRUE
  MaxUnlogged = 1
  MaxForgets = 1
  MaxCrashes = 1
INVARIANTS
  HandledOnce
  OwnSteering
  HistoryFits
