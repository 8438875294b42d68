SPECIFICATION Spec
CONSTANTS
  Senders = {}
  Operators = {o1}
  Calls = {"connect", "reconnect"}
  MaxSid = 1
  MaxRequests = 0
  MaxConns = 2
  MaxRetries = 1
  Heartbeat = FALSE
  PeerCloses = FALSE
INVARIANTS
  ConnectedAfterReconnect
CHECK_DEADLOCK FALSE
