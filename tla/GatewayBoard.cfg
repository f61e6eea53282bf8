SPECIFICATION BoardSpec
CONSTANTS
    Node = {n1}
    Packet = {p1, p2}
    NewPacket = NewPacket
    NodeInfo = NodeInfo
    Info = info
    Garbled = garbled
    Nothing = nothing
    QueueSize = 2
    MaxChunks = 2
    MaxPosts = 3
CHECK_DEADLOCK FALSE
INVARIANTS LastEventForwarded LastFrameEnqueued
PROPERTIES FifoUnlessRaced CountedIsSent
