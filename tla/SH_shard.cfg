CONSTANTS
  NumShards = 2
  RECONNECT_INTERVAL = 2
  MonitorPeriod = 2
  ConnectTimeout = 2
  ConnectRetry = 1
  HeartbeatSeconds = 1
  MsPerSecond = 1
  MaxSessions <- OneSession
  MaxEvents <- OneSession
  MaxWire <- OneWire
SPECIFICATION FairSpec
CHECK_DEADLOCK FALSE
INVARIANTS WaitsIffClosed
PROPERTIES FirstReplaced
