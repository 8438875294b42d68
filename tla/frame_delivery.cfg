SPECIFICATION Spec
CONSTANTS
    Message <- MCMessage
    Noise <- MCNoise
    MaxItems = 3
    MaxRead = 40
INVARIANT NoneHeldBack
PROPERTY ImplementsDelivery
CHECK_DEADLOCK FALSE
