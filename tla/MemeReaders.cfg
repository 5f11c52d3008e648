SPECIFICATION FairSpec
CONSTANTS
  Memes <- FourMemes
  Owner <- OwnerOf
  Account = "a"
  Videos <- SomeVideos
  Matching <- SomeMatching
  Near <- NearText
  TextScore = 2
  First <- FirstMemes
  PageSize = 1
  MaxCreated = 3
  Sessions = {"reader", "deleter"}
  Kinds <- OneReader
  Queries <- SomeQueries
  Types = {"", "video"}
  Faults = {"query", "client", "index"}
INVARIANTS
  TypeOK
  ListedOnce
  NoneLeftOut
  SearchIsExact
  BrokenByDeletion
  RandomFinds
PROPERTIES
  EverySessionEnds
