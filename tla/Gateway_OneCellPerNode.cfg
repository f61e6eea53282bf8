SPECIFICATION Spec
CONSTANTS
    Node = {n1, n2}
    NoNode = NoNode
    NCells = 5
    CellType <- Schedule5
    MaxNodes = 2
    MaxSlotframesNoRx = 1
INVARIANT OneCellPerNode
