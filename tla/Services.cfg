SPECIFICATION Services
CONSTANTS
  Docs = {d1, d2}
  OldDocs <- FirstContents
  Replicas = {r1, r2}
  MaxCrashes = 1
  Second = 2
  Interval = 8
  Overlap = 4
  Durations = {1, 11}
  MaxSlices = 2
  Providers = {"gemini", "openrouter"}
  Attempts = 2
  Share = 60
  ExtractFaults = 2
  QueueSize = 1
  BotFaults = 2
  MaxIterations = 2
  Updates <- TwoUpdates
  Forms <- TheirForms
  TelegramLinks <- Links
  UserPermissions <- Codes
  Memes = {1, 2, 3}
  Old = {1, 2}
  Queries <- TwoQueries
  ByCreation = {"all"}
  Rankings <- TheirRankings
  PageSize = 1
  Slots = {1, 2}
  MaxPolls = 2
  WritePolls = 1
  MaxEvents = 4
CHECK_DEADLOCK FALSE
INVARIANTS
  TypesOK
  SlicesCoverVideo
  ResultsMatchSlices
  SurvivesTransientFailures
  OnlyPermitted
  RepliesTellTruth
  NoEmbeddingLost
  ShowsCurrentQuery
PROPERTIES
  EndsReleased
  UpdatesEnd
  PageSettles
