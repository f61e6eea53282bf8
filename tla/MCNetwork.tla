----------------------------- MODULE MCNetwork -----------------------------
(* A small instance of Network for TLC. *)
EXTENDS Network

\* A beacon, a shared uplink and its downlink, and an uplink on either side.
Types5 == <<"B", "U", "S", "D", "U">>
Schedule5 == [c \in 0 .. 4 |-> Types5[c + 1]]
=============================================================================
