\* As MCWorkspace_safe.cfg; stops at the first fresh plan with materials.
CONSTANTS
  Quests <- QuestIds
  Members <- Party
  Tasks <- QuestTasks
  Line <- QuestLines
  TierLine <- TierLines
  NoFile = NoFile
  Uuid <- Ids
  Catalog <- Items
  Needs <- TaskNeeds
  TierOrder <- LineOrder
  Board <- Tasks1
  NoPlayer = NoPlayer
  Nothing = Nothing
  Kind <- HolderKinds
  Dim <- HolderDims
  Exact <- ExactTexts
  Score <- TextScores
  Rank <- Ranks
  Recipes <- TheRecipes
  Blocks <- TheBlocks
  Starts <- AllStarts
  Stocks <- AllStocks
  PlanRequests <- Requests
  Limit = 5
  Lookups <- LookupRequests
  BlockRequests <- BlockLookups
  Hours = {3}
  MaxDeeds = 1
  MaxFaults = 1
SPECIFICATION WorkspaceSpec
INVARIANTS
  ConfidentWhenFresh
CHECK_DEADLOCK FALSE
