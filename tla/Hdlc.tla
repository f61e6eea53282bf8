-------------------------------- MODULE Hdlc --------------------------------
(***************************************************************************)
(* The framing on the serial line between the gateway board and a computer *)
(* (03app_gateway_app/hdlc.c): a frame is a flag, the escaped bytes of the *)
(* payload and of its checksum, and a flag.                                *)
(*                                                                         *)
(* The checksum the receiver keeps in `fcs` is always that of the bytes in *)
(* its buffer, so it is computed from them.                                *)
(***************************************************************************)
EXTENDS Integers, SequencesExt

CONSTANTS
    BufferSize,        \* MR_HDLC_BUFFER_SIZE
    UpdateFcs(_, _)    \* _mr_hdlc_update_fcs, that is Crc16

Byte == 0 .. 255
UInt16 == {256 * high + low : high, low \in Byte}

\* A byte string and the complement of its checksum, low byte first, have the
\* checksum MR_HDLC_FCS_OK.
ASSUME HdlcAssumption ==
    /\ BufferSize \in Nat
    /\ \A fcs \in UInt16 :
           UpdateFcs(UpdateFcs(fcs, (65535 - fcs) % 256), (65535 - fcs) \div 256) = 61624

Flag == 126
FlagEscaped == 94
Escape == 125
EscapeEscaped == 93
FcsInit == 65535

Fcs(bytes) ==
    LET fcs[i \in 0 .. Len(bytes)] == IF i = 0 THEN FcsInit ELSE UpdateFcs(fcs[i - 1], bytes[i])
    IN  fcs[Len(bytes)]

Escaped(byte) ==
    CASE byte = Escape -> <<Escape, EscapeEscaped>>
      [] byte = Flag -> <<Escape, FlagEscaped>>
      [] OTHER -> <<byte>>

\* A payload and its checksum.
WithFcs(payload) ==
    LET fcs == 65535 - Fcs(payload)
    IN  payload \o <<fcs % 256, fcs \div 256>>

Encode(payload) ==
    LET bytes == WithFcs(payload)
    IN  <<Flag>> \o FlattenSeq([i \in DOMAIN bytes |-> Escaped(bytes[i])]) \o <<Flag>>

-----------------------------------------------------------------------------
\* The receiver.
HdlcIdle == [buffer |-> <<>>, state |-> "idle", escape |-> FALSE]
\* What the buffer then holds is not read again.
Broken == [buffer |-> <<>>, state |-> "error", escape |-> FALSE]
Receiving(buffer, escape) == [buffer |-> buffer, state |-> "receiving", escape |-> escape]
Ready(buffer) == [buffer |-> buffer, state |-> "ready", escape |-> FALSE]

\* Mutant of FcsOk: the checksum is not looked at.
FcsIgnored(buffer) == TRUE

FcsOk(buffer) == Fcs(buffer) = 61624

\* Mutant of EndsFrame: a flag right after a flag ends an empty frame.
EndsEmptyFrame(h, byte) == h.state = "receiving" /\ byte = Flag

\* A flag right after a flag does not end a frame: if the end of a frame was
\* lost, it is where the next one starts.
EndsFrame(h, byte) == h.state = "receiving" /\ byte = Flag /\ h.buffer # <<>>

BufferFull(h) == Len(h.buffer) >= BufferSize - 1

AddByte(h, byte) == Receiving(Append(h.buffer, byte), FALSE)

FlagByte(h) ==
    IF ~EndsFrame(h, Flag) THEN h
    ELSE IF FcsOk(h.buffer) THEN Ready(h.buffer) ELSE Broken

DataByte(h, byte) ==
    IF BufferFull(h) THEN Broken
    ELSE IF byte = Escape THEN Receiving(h.buffer, TRUE)
    ELSE IF ~h.escape THEN AddByte(h, byte)
    ELSE IF byte = EscapeEscaped THEN AddByte(h, Escape)
    ELSE IF byte = FlagEscaped THEN AddByte(h, Flag)
    ELSE Broken

\* mr_hdlc_rx_byte
RxByte(h, byte) ==
    CASE h.state # "receiving" /\ byte = Flag -> Receiving(<<>>, FALSE)
      [] h.state # "receiving" /\ byte # Flag -> h
      [] h.state = "receiving" /\ byte = Flag -> FlagByte(h)
      [] h.state = "receiving" /\ byte # Flag -> DataByte(h, byte)

\* mr_hdlc_decode, of a receiver that is ready.
Decoded(h) == SubSeq(h.buffer, 1, Len(h.buffer) - 2)
=============================================================================
