SPECIFICATION Spec
CONSTANTS
    Node = {n1, n2, n3}
    NoNode = NoNode
    NCells = 6
    CellType <- Schedule6
    MaxNodes = 3
    MaxSlotframesNoRx = 1
INVARIANTS TypeOK CapacityIsFreeCells GrantHonoured AppSeesOnlyMembers ResponseNamesHeldCell
PROPERTIES NoResponseOverwritten ImplementsLease
