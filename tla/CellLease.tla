----------------------------- MODULE CellLease -----------------------------
(***************************************************************************)
(* What the gateway promises about membership, with no schedule, cells or  *)
(* packets in it: a node is a member from the moment it is admitted until  *)
(* the gateway has gone more than Lease slots without hearing from it, and *)
(* then it is dropped at the next slot boundary.  GatewayAssoc implements  *)
(* this specification.                                                     *)
(***************************************************************************)
EXTENDS Integers, FiniteSets

CONSTANTS
    Node,       \* the nodes that may ask to join
    Capacity,   \* how many members there may be
    Lease       \* slots of silence a member survives

VARIABLES
    members,    \* the nodes that are currently members
    unheard     \* unheard[n]: slots since member n was last heard (0 if no member)

leaseVars == <<members, unheard>>

LeaseInit ==
    /\ members = {}
    /\ unheard = [n \in Node |-> 0]

\* A node that is not a member is let in, if there is room.
Admit(n) ==
    /\ n \notin members
    /\ Cardinality(members) < Capacity
    /\ members' = members \cup {n}
    /\ UNCHANGED unheard

\* A frame of a member renews its lease.
Hear(n) ==
    /\ n \in members
    /\ unheard' = [unheard EXCEPT ![n] = 0]
    /\ UNCHANGED members

\* A slot boundary: the members whose lease has run out, and only those, leave.
PassSlot ==
    LET kept == {n \in members : unheard[n] <= Lease}
    IN  /\ members' = kept
        /\ unheard' = [n \in Node |-> IF n \in kept THEN unheard[n] + 1 ELSE 0]

LeaseNext == PassSlot \/ \E n \in Node : Admit(n) \/ Hear(n)

LeaseSafety == LeaseInit /\ [][LeaseNext]_leaseVars
LeaseSpec == LeaseSafety /\ WF_leaseVars(PassSlot)
=============================================================================
