CONSTANTS
  Shards = {"s1"}
  TokenValid = FALSE
  IsCentral = FALSE
  CanSignal = TRUE
  MaxAcks = 2
CHECK_DEADLOCK FALSE
SPECIFICATION FairSpec
INVARIANTS TypeOK AtMostOneLateTick EndsForAReason
PROPERTIES StopsAfterSignal InvalidTokenStops
