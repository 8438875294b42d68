SPECIFICATION CmdSpec
CONSTANTS
    c1 = c1
    c2 = c2
    ByteBits = 2
    Words <- MCWords
    Conn = {c1, c2}
    Request <- MCRequest
INVARIANTS LastWriteWhole 
PROPERTY RequestsEnd
CHECK_DEADLOCK FALSE
