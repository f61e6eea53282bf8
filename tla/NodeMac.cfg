SPECIFICATION NodeSpec
CONSTANTS
    g1 = g1
    g2 = g2
    g3 = g3
    s1 = s1
    s2 = s2
    Gateway = {g1, g2, g3}
    NoGateway = NoGateway
    Schedule = {s1, s2}
    NoSchedule = NoSchedule
    ScheduleOf <- ThreeGateways
    NCells <- Lengths
    CellType <- Schedules
    MaxSlotframesNoRx = 1
    BackoffNMin = 1
    BackoffNMax = 2
INVARIANTS AppViewMatches OneSchedulingTimer ScanOnlyInFreeCells
    OwnCellUnlessDrifted
PROPERTIES JoiningEnds SilenceEnds ImplementsSession
