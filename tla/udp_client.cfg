CONSTANTS
  Callers = {c1, c2}
  SidMod = 2
  MaxRequests = 3
  Timeout = TRUE
  Unreliable = TRUE
  Refuses = TRUE
SPECIFICATION FairUdpSpec
CHECK_DEADLOCK FALSE
INVARIANTS CloseIsPeaceful NoUnsetCell OwnResponse ListenerHasPartner
PROPERTIES CommandsReturn ListenerEnds
