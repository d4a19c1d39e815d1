\* One deed of a player, or three hours between two cycles of the sync loop, and
\* one failure at any point of a cycle.
CONSTANTS
  Quests <- QuestIds
  Members <- Party
  Tasks <- QuestTasks
  Line <- QuestLines
  TierLine <- TierLines
  NoFile = NoFile
  Uuid <- Ids
  Catalog <- Items
  Needs <- TaskNeeds
  TierOrder <- LineOrder
  Board <- Tasks1
  NoPlayer = NoPlayer
  Nothing = Nothing
  Kind <- HolderKinds
  Dim <- HolderDims
  Exact <- ExactTexts
  Score <- TextScores
  Rank <- Ranks
  Recipes <- TheRecipes
  Blocks <- TheBlocks
  Starts <- AllStarts
  Stocks <- AllStocks
  PlanRequests <- Requests
  Limit = 5
  Lookups <- LookupRequests
  BlockRequests <- BlockLookups
  Hours = {3}
  MaxDeeds = 1
  MaxFaults = 1
SPECIFICATION WorkspaceSpec
INVARIANTS
  PlanExact
  ClaimsExact
  ReadyMaterials
  AnswersTrue
CHECK_DEADLOCK FALSE
