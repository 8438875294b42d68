SPECIFICATION Spec
CONSTANTS
    c1 = c1
    t1 = t1
    ByteBits = 2
    Words <- MCWords
    Conn = {c1}
    Test = {t1}
    Request <- MCRequest
    WordRequest <- MCWordRequest
PROPERTY ImplementsAtomicPlc
