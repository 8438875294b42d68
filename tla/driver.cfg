SPECIFICATION FairSpec
CONSTANTS
    c1 = c1
    c2 = c2
    Caller = {c1, c2}
    Configs <- MCConfigs
    MaxBackoff = 5
    Ops = {"Init", "SetDeviceConfig", "Connect", "Disconnect", "Reconnect", "ReadPoints", "WritePoint"}
    MaxCalls = 4
    MaxDrops = 1
INVARIANT NoNilUse
PROPERTIES TransportKept CallsReturn
CHECK_DEADLOCK FALSE
