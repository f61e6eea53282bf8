SPECIFICATION Spec
CHECK_DEADLOCK FALSE
CONSTANTS
    Wrap = 55
    Start = 23
    Stop = 22
    Last = 4
    NoCallback = NoCallback
    Blank = Blank
    TxOffset = 3
    RxGuard = 1
    TxMax = 4
    FrameMin = 3
    FrameMax = 3
    EndGuard = 4
    RearmDelay = 1
    MaxLag = 1
INVARIANTS
    SlotsPunctual
    ReadIsWhole
    DriverKnowsRadio
    OnTime
    NothingLeftBehind
    ScanKeepsListening
