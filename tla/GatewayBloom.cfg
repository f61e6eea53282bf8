SPECIFICATION BloomSpec
CONSTANTS
    n1 = n1
    n2 = n2
    n3 = n3
    Node = {n1, n2, n3}
    NoNode = NoNode
    NCells = 5
    CellType <- Schedule5
    MaxNodes = 2
    MaxSlotframesNoRx = 1
    Bit = {0, 1, 2, 3}
    BloomBits <- Bits3
INVARIANT CurrentUnlessRaced
PROPERTY EvictedLeaveBeacons
