------------------------------- MODULE UartRx -------------------------------
(***************************************************************************)
(* From the computer to the radio, on the application core of the gateway  *)
(* (03app_gateway_app/uart.c, main.c).  The computer sends a frame in      *)
(* pieces; of each the interrupts of the UART receive a trigger byte, then *)
(* the rest, and hand it to the main loop, which feeds it to the HDLC      *)
(* receiver byte by byte.                                                  *)
(*                                                                         *)
(* The computer pauses between pieces for as long as the UART backs off,   *)
(* and between frames until the last one has been dealt with ("the python  *)
(* code never sends two frames too fast in a row").  The line alters or    *)
(* loses a byte, or loses a piece; of each frame it damages one piece,      *)
(* which bounds the model.                                                 *)
(***************************************************************************)
EXTENDS Hdlc

CONSTANTS
    Payload,      \* what the computer sends to the radio
    NoPayload,
    PieceSize,    \* MR_UARTE_CHUNK_SIZE
    Noise         \* what a byte can be altered to

ASSUME UartRxAssumption ==
    /\ PieceSize \in Nat \ {0}
    /\ Noise \subseteq Byte
    /\ \A p \in Payload :
           /\ p \in Seq(Byte) /\ p # <<>>
           /\ Len(p) + 2 < BufferSize
           /\ Len(p) <= 255    \* the lengths of ipc.h are bytes, and so is the encoder's index
           /\ Fcs(p) \in UInt16

VARIABLES
    sending,    \* the payload of the frame being sent
    rest,       \* the bytes of it not sent yet
    wire,       \* the bytes of a piece sent and not received yet
    rxState,    \* rx_state: "trigger", "chunk" or "backoff"
    trigger,    \* rx_trigger_byte_saved, as a sequence of at most one byte
    chunk,      \* uart_buffer, as long as uart_buffer_length; <<>> when it is not read again
    received,   \* uart_buffer_received
    pos,        \* the main loop's index in uart_buffer, 0 outside of its loop
    hdlc,       \* _hdlc_vars
    got,        \* history: what the radio was given since the frame began
    owed,       \* history: the payloads sent before it and not given to the radio
    intact      \* history: frames in a row, this one included, not damaged (at most 2)

line == <<sending, rest, wire>>
uart == <<rxState, trigger>>
mainLoop == <<chunk, received, pos, hdlc>>
rxVars == <<line, uart, mainLoop, got, owed, intact>>

UartRxInit ==
    /\ sending = NoPayload
    /\ rest = <<>>
    /\ wire = <<>>
    /\ rxState = "trigger"
    /\ trigger = <<>>
    /\ chunk = <<>>
    /\ received = FALSE
    /\ pos = 0
    /\ hdlc = HdlcIdle
    /\ got = <<>>
    /\ owed = {}
    /\ intact = 0

Settled ==
    /\ rest = <<>> /\ wire = <<>>
    /\ rxState = "trigger"
    /\ ~received /\ pos = 0

SendFrame(p) ==
    /\ Settled
    /\ sending' = p
    /\ rest' = Encode(p)
    /\ owed' = CASE sending = NoPayload \/ got = <<sending>> -> {}
                [] sending # NoPayload /\ got = <<>> -> owed \cup {sending}
                [] OTHER -> {sending}
    /\ got' = <<>>
    /\ intact' = IF intact = 2 THEN 2 ELSE intact + 1
    /\ UNCHANGED <<wire, uart, mainLoop>>

\* What can become of a piece on the line.
Damaged(piece) ==
    {<<>>} \cup { RemoveAt(piece, i) : i \in DOMAIN piece }
           \cup { ReplaceAt(piece, i, b) : i \in DOMAIN piece, b \in Noise }

SendPiece ==
    /\ rest # <<>> /\ wire = <<>>
    /\ rxState = "trigger"
    /\ LET n == IF Len(rest) < PieceSize THEN Len(rest) ELSE PieceSize
           piece == SubSeq(rest, 1, n)
       IN  /\ rest' = SubSeq(rest, n + 1, Len(rest))
           /\ wire' \in {piece} \cup IF intact = 0 THEN {} ELSE Damaged(piece)
           /\ intact' = IF wire' = piece THEN intact ELSE 0
    /\ UNCHANGED <<sending, uart, mainLoop, got, owed>>

RxTrigger ==
    /\ rxState = "trigger"
    /\ wire # <<>>
    /\ rxState' = "chunk"
    /\ trigger' = <<Head(wire)>>
    /\ wire' = Tail(wire)
    /\ UNCHANGED <<sending, rest, mainLoop, got, owed, intact>>

\* The chunk is full, or the timer has stopped the reception.  The callback does not
\* ask whether the main loop is done with uart_buffer; if it is not, the frame is damaged.
RxChunk ==
    /\ rxState = "chunk"
    /\ wire # <<>>
    /\ chunk' = trigger \o wire
    /\ received' = TRUE
    /\ wire' = <<>>
    /\ trigger' = <<>>
    /\ rxState' = "backoff"
    /\ intact' = IF received \/ pos > 0 THEN 0 ELSE intact
    /\ UNCHANGED <<sending, rest, pos, hdlc, got, owed>>

\* Nothing has followed the trigger byte: it is dropped.
RxNothing ==
    /\ rxState = "chunk"
    /\ wire = <<>>
    /\ rxState' = "trigger"
    /\ trigger' = <<>>
    /\ intact' = 0
    /\ UNCHANGED <<line, mainLoop, got, owed>>

BackoffOver ==
    /\ rxState = "backoff"
    /\ rxState' = "trigger"
    /\ UNCHANGED <<line, trigger, mainLoop, got, owed, intact>>

StartDecoding ==
    /\ received /\ pos = 0
    /\ received' = FALSE
    /\ pos' = 1
    /\ UNCHANGED <<line, uart, chunk, hdlc, got, owed, intact>>

LeaveLoop ==
    /\ pos' = 0
    /\ chunk' = IF received THEN chunk ELSE <<>>

\* One turn of the main loop's for; it is left when a frame is ready or broken.
DecodeByte ==
    /\ pos \in 1 .. Len(chunk)
    /\ LET h == RxByte(hdlc, chunk[pos])
       IN  /\ hdlc' = IF h.state = "ready" THEN HdlcIdle ELSE h
           /\ got' = IF h.state = "ready" /\ Decoded(h) # <<>>
                     THEN Append(got, Decoded(h)) ELSE got
           /\ IF h.state \in {"ready", "error"} THEN LeaveLoop
              ELSE pos' = pos + 1 /\ UNCHANGED chunk
    /\ UNCHANGED <<line, uart, received, owed, intact>>

DecodingEnds ==
    /\ pos > Len(chunk)
    /\ LeaveLoop
    /\ UNCHANGED <<line, uart, received, hdlc, got, owed, intact>>

UartIsr == RxTrigger \/ RxChunk \/ RxNothing \/ BackoffOver
MainLoop == StartDecoding \/ DecodeByte \/ DecodingEnds
Computer == SendPiece \/ \E p \in Payload : SendFrame(p)

UartRxNext == Computer \/ UartIsr \/ MainLoop
UartRxSpec == UartRxInit /\ [][UartRxNext]_rxVars

-----------------------------------------------------------------------------
\* Whatever the line does, and even if uart_buffer is overwritten while it is being
\* decoded, the radio is given payloads as they were sent, in order and each at most once.
\* One may be late: without its last flag, the next frame's first flag ends it (hdlc.c, main.c).
SentOnceInOrder == got \in {<<>>, <<sending>>} \cup { <<p>> : p \in owed }

\* The receiver finds its way back: damage to a frame, such as a lost flag, costs at
\* most one intact frame after it; the second is given to the radio (hdlc.c, main.c).
HealsAfterOneFrame == Settled /\ intact = 2 => got = <<sending>>
=============================================================================
