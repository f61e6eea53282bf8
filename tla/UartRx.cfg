SPECIFICATION UartRxSpec
CONSTANTS
    BufferSize = 8
    UpdateFcs <- Crc16
    Payload <- McPayload
    NoPayload = NoPayload
    PieceSize = 5
    Noise <- McNoise
INVARIANTS SentOnceInOrder HealsAfterOneFrame
