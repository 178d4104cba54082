SPECIFICATION FairSpec
CONSTANTS
  NumPages = 5
  PageSize = 2
  Maps <- MCMaps
  Segments <- MCSegments
  Slack = 2
CHECK_DEADLOCK FALSE
INVARIANTS
  TypeOK
  KeyVouchesForMap
  GivesUpOnlyWhenStruckTwice
  TooSmallOnlyWhenMoved
  GrantedImageIsReserved
PROPERTIES
  ImplementsHandover
  LoaderEnds
