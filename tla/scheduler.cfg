SPECIFICATION FairSpec
CONSTANTS
    c1 = c1
    c2 = c2
    Caller = {c1, c2}
    ByteBits = 3
    Batches <- MCBatches
    WritePoints <- MCWritePoints
    FrameLengths = {6, 14}
    Intervals = {0, 1}
    AreaWords = 32
    ShortAreas <- MCShortAreas
    Ops <- MCOps
    MaxCalls = 1
INVARIANTS OwnBytes GoodUnlessFailed NoPanic StatsAccount StatsDrift SnapshotComplete
PROPERTIES BatchFitsFrame StampsSpaced CallsReturn
CHECK_DEADLOCK FALSE
