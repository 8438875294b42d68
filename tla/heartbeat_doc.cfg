SPECIFICATION FairSpec
CONSTANTS
  Senders = {}
  Operators = {o1}
  Calls = {"connect", "disconnect"}
  MaxSid = 1
  MaxRequests = 1
  MaxConns = 2
  MaxRetries = 1
  Heartbeat = TRUE
  PeerCloses = FALSE
PROPERTIES
  HeartbeatMonitors
CHECK_DEADLOCK FALSE
