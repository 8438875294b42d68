SPECIFICATION Spec
CONSTANTS
  Senders = {s1, s2}
  Operators = {o1}
  Calls = {"connect", "disconnect"}
  MaxSid = 2
  MaxRequests = 4
  MaxConns = 1
  MaxRetries = 1
  Heartbeat = FALSE
  PeerCloses = FALSE
SYMMETRY SenderSymmetry
INVARIANTS NoPanic ClaimedHasRoom NoLeakedChannel OwnResponse 
CHECK_DEADLOCK FALSE
