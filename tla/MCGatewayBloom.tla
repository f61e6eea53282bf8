--------------------------- MODULE MCGatewayBloom ---------------------------
(* Small instances of GatewayBloom for TLC. *)
EXTENDS GatewayBloom

CONSTANTS n1, n2, n3

Types5 == <<"B", "U", "S", "D", "U">>
Schedule5 == [c \in 0 .. 4 |-> Types5[c + 1]]

\* n3 is a false positive of a filter that holds n1 and n2.
Bits3 == [n \in {n1, n2, n3} |-> CASE n = n1 -> {0, 1}
                                   [] n = n2 -> {2, 3}
                                   [] n = n3 -> {1, 2}]

\* Two nodes whose positions do not meet.
Bits2 == [n \in {n1, n2} |-> IF n = n1 THEN {0, 1} ELSE {2, 3}]
=============================================================================
