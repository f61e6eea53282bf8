------------------------------ MODULE MCUartRx ------------------------------
EXTENDS UartRx, Crc

McEscapedFcs == CHOOSE p \in { <<1, x>> : x \in 0 .. 255 } :
    WithFcs(p)[3] \in {Flag, Escape} \/ WithFcs(p)[4] \in {Flag, Escape}

\* A frame of one piece, one of two pieces that consists of special bytes, and one whose
\* checksum has to be escaped.
McPayload == {<<1>>, <<Flag, Escape>>, McEscapedFcs}

McNoise == {Flag, 0}
=============================================================================
