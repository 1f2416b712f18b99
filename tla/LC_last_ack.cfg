CONSTANTS
  Shards = {"s1"}
  TokenValid = TRUE
  IsCentral = FALSE
  CanSignal = TRUE
  MaxAcks = 2
CHECK_DEADLOCK FALSE
SPECIFICATION Spec
INVARIANTS FarewellIsLast
