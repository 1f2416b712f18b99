CONSTANTS
  NumShards = 1
  RECONNECT_INTERVAL = 2
  MonitorPeriod = 2
  ConnectTimeout = 2
  ConnectRetry = 1
  HeartbeatSeconds = 1
  MsPerSecond = 2
  MaxSessions <- OneSession
  MaxEvents <- OneSession
  MaxWire <- OneWire
SPECIFICATION FairSpec
CHECK_DEADLOCK FALSE
PROPERTIES MissedAcksReconnect
