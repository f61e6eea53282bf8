--------------------------- MODULE MCGatewayAssoc ---------------------------
(* Small instances of GatewayAssoc for TLC; SchedulesFit is checked as well. *)
EXTENDS GatewayAssoc, Schedules

\* One beacon, one shared uplink followed by its downlink, and uplink cells on
\* both sides, as in ScheduleTiny.
Types5 == <<"B", "U", "S", "D", "U">>
Types6 == <<"B", "U", "S", "D", "U", "U">>
Schedule5 == [c \in 0 .. 4 |-> Types5[c + 1]]
Schedule6 == [c \in 0 .. 5 |-> Types6[c + 1]]
=============================================================================
