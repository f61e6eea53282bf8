-------------------------------- MODULE Crc ---------------------------------
(***************************************************************************)
(* The checksum of the serial line (03app_gateway_app/hdlc.c): CRC-16 with *)
(* the polynomial 0x8408, by a table.                                      *)
(***************************************************************************)
EXTENDS Integers, SequencesExt, Bitwise

\* Entry of the table _fcs: the remainder of a byte for the polynomial.
FcsTable ==
    LET Shift(x, i) == IF x % 2 = 1 THEN (x \div 2) ^^ 33800 ELSE x \div 2
    IN  [b \in 0 .. 255 |-> FoldLeft(Shift, b, [i \in 1 .. 8 |-> i])]

\* _mr_hdlc_update_fcs
Crc16(fcs, byte) == (fcs \div 256) ^^ FcsTable[(fcs ^^ byte) % 256]
=============================================================================
