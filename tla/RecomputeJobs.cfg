SPECIFICATION FairSpec
CONSTANTS
  Memes <- ThreeMemes
  PageSize = 2
  Workers = 2
  QueryFails = TRUE
INVARIANTS
  TypeOK
  AtMostOnce
  DoneMeansAll
PROPERTIES
  JobEnds
