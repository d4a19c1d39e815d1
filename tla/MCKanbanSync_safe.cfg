\* Two tasks with one version each that start and finish, a moved channel or
\* a restart, and two failures of any kind at any place.
SPECIFICATION FairSpec
CONSTANTS
  Tasks = {t1, t2}
  Board = Board
  Channels = {c1, c2}
  NoChannel = NoChannel
  Deleted = Deleted
  Outputs <- MCOutputs
  MaxVersion = 2
  MaxChanges = 1
  MaxFaults = 2
  MaxRestarts = 1
  Unheard = TRUE
INVARIANTS
  NothingForgotten
PROPERTIES
  Settles
