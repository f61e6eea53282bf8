----------------------------- MODULE MCNodeMac -----------------------------
(* Small instances of NodeMac for TLC. *)
EXTENDS NodeMac

CONSTANTS g1, g2, g3, s1, s2

\* An uplink cell that, held by another node, lets a background scan go on into
\* the shared uplink after it.
Types == <<"B", "U", "S", "D", "U">>
Lengths == [s \in {s1, s2} |-> IF s = s1 THEN 5 ELSE 4]
Schedules == [s \in {s1, s2} |-> [c \in 0 .. Lengths[s] - 1 |-> Types[c + 1]]]

\* Two gateways with a schedule each, and one whose schedule the node lacks.
ThreeGateways == [g \in {g1, g2, g3} |-> CASE g = g1 -> s1
                                           [] g = g2 -> s2
                                           [] g = g3 -> NoSchedule]

\* One gateway.
OneGateway == [g \in {g1} |-> s1]
=============================================================================
