\* One fault or crash, two requests and a clock up to three.
SPECIFICATION FairSpec
CONSTANTS
  Positions = {p}
  Interval <- Intervals
  StaleAfter = 1
  HasAreas = TRUE
  BlocksEnabled = TRUE
  Scopes = {"blocks", "chests"}
  MaxTime = 3
  MaxRequests = 2
  MaxFaults = 1
  None = None
INVARIANTS
  NoGhosts
  StatusHonest
  RequestsHeard
PROPERTIES
  ChestScansSpaced
  RefreshTaken
CHECK_DEADLOCK FALSE
