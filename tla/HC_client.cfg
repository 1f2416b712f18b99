CONSTANTS
  Parts <- MCParts
  Responses <- MCResponses
  ULLONG_MAX = 99
  RequestTimeout = 9
CHECK_DEADLOCK FALSE
SPECIFICATION FairSpec
INVARIANTS TypeOK OneCompletion BodyIsPrefix WholeWhenParsed SentOnce DoneInTime
PROPERTIES Completes
