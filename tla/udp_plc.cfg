SPECIFICATION PlcSpec
CONSTANTS
    c1 = c1
    c2 = c2
    Client = {c1, c2}
    Calls <- MCCalls
    ByteOrder = "big"
    U16 = 16
    AreaSize = 8
    BufSize = 40
    Times <- MCTimes
    UBits = 8
    MaxDigits = 4
    MaxMade = 3
INVARIANTS MemoryIsMeant  AnswersOwnRequest BcdMeaning
CHECK_DEADLOCK FALSE
