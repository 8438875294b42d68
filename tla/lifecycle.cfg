SPECIFICATION FairSpec
CONSTANTS
  Senders = {}
  Operators = {o1}
  Calls = {"disconnect", "reconnect"}
  MaxSid = 1
  MaxRequests = 1
  MaxConns = 2
  MaxRetries = 2
  Heartbeat = TRUE
  PeerCloses = TRUE
INVARIANTS ReaderAlive OwnLoopLeavesBroken OneHeartbeat
PROPERTIES CallsReturn GoroutinesEnd
CHECK_DEADLOCK FALSE
