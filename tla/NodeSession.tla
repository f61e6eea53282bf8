---------------------------- MODULE NodeSession ----------------------------
(***************************************************************************)
(* What a node promises its application, with no slots, timers or frames   *)
(* in it: it is attached to no gateway, trying to join one, or a member of *)
(* one; it becomes a member only of the gateway it is trying to join, and  *)
(* moves from one gateway to another only by trying to join the new one.   *)
(* NodeMac implements this specification.                                  *)
(***************************************************************************)
CONSTANTS
    Gateway,      \* the gateways
    NoGateway     \* none of them

VARIABLES
    trying,     \* the gateway the node is trying to join
    member,     \* the gateway the node has joined
    told        \* the gateway the application believes the node has joined

sessionVars == <<trying, member, told>>

SessionInit == trying = NoGateway /\ member = NoGateway /\ told = NoGateway

Attach(g) ==
    /\ trying = NoGateway
    /\ member # g
    /\ trying' = g
    /\ member' = NoGateway
    /\ told' = NoGateway

Join ==
    /\ trying # NoGateway
    /\ trying' = NoGateway
    /\ member' = trying
    /\ told' = trying

Detach == trying' = NoGateway /\ member' = NoGateway /\ told' = NoGateway

SessionNext == Join \/ Detach \/ \E g \in Gateway : Attach(g)

SessionSafety == SessionInit /\ [][SessionNext]_sessionVars
=============================================================================
