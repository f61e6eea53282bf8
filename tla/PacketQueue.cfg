SPECIFICATION QueueSpec
CONSTANTS
    Packet = {p1, p2}
    NoPacket = NoPacket
    Size = 4
INVARIANT QueueTypeOK
PROPERTIES FifoUnlessCut LockReleased
