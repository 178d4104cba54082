SPECIFICATION Spec
CONSTANTS
  NumPages = 5
  PageSize = 2
  Maps <- MCMaps
  Segments <- MCSegments
  Slack = 2
CHECK_DEADLOCK FALSE
INVARIANT
  LoadedProgramIsOwned
