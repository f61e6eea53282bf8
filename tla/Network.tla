------------------------------ MODULE Network ------------------------------
(***************************************************************************)
(* One gateway and its nodes over the air: GatewayAssoc with the node side *)
(* of the same protocol.  All are in step (ScanSync, MacSlots); any frame  *)
(* may be lost by any receiver, and of two that collide the gateway may    *)
(* receive one.  Nodes lose power and start again.                         *)
(*                                                                         *)
(* Of NodeMac there is what the gateway can tell of: when a node asks,     *)
(* sends and leaves.  Backoffs and the timeouts of joining are any choice, *)
(* and which gateway a scan ends with is not modelled.  Of GatewayBloom    *)
(* there is a rebuild that slots may interrupt: a filter is the set of     *)
(* nodes it lists (so without false positives), in the middle of a rebuild *)
(* any part of the members, and after one during which a cell changed      *)
(* hands any set.                                                          *)
(***************************************************************************)
EXTENDS GatewayAssoc

VARIABLES
    listed,    \* the filter of the gateway
    building,  \* a rebuild has started
    onAir,     \* the filter in the beacon of this slot
    raced,     \* history: a cell changed hands during the last rebuild
    stale,     \* history: when this beacon was built, a rebuild was due, under way or raced
    assoc,     \* assoc_vars.state of each node, "idle" while it is not joining or joined
    own,       \* the cell a node has assigned to itself
    pending,   \* is_pending_disconnect
    quiet,     \* asn - last_received_from_gateway_asn, 0 when not joined
    sending,   \* the nodes whose frame the gateway has not received in this slot
    hearing,   \* the nodes that have not received the frame of this slot
    lost       \* history: how many frames in a row the gateway has not received of a member

filterVars == <<listed, building, onAir, raced, stale>>
nodeVars == <<assoc, own, pending, quiet>>
airVars == <<sending, hearing, lost>>
netVars == <<vars, filterVars, nodeVars, airVars>>

NetInit ==
    /\ Init
    /\ listed = {} /\ building = FALSE /\ onAir = {}
    /\ raced = FALSE /\ stale = FALSE
    /\ assoc = [n \in Node |-> "idle"]
    /\ own = [n \in Node |-> NoCell]
    /\ pending = [n \in Node |-> FALSE]
    /\ quiet = [n \in Node |-> 0]
    /\ sending = {} /\ hearing = {}
    /\ lost = [n \in Node |-> 0]

\* A frame of a member is lost when the next slot starts.
CountLost == [n \in Node |-> IF assoc[n] # "joined" THEN 0
                             ELSE IF n \in sending /\ lost[n] < MaxSlotframesNoRx THEN lost[n] + 1
                             ELSE lost[n]]

-----------------------------------------------------------------------------
(* A slot starts at the gateway and at every node that is not away. *)

\* mr_assoc_node_should_leave
Leaving == {n \in Node : assoc[n] = "joined" /\ (pending[n] \/ quiet[n] > MaxAsnOld)}

\* What else new_slot_synced makes of a node that is not joined: it stops waiting for a response, and
\* in a shared uplink it may ask to join.
Becomes(n, type) ==
    CASE n \in Leaving -> {"idle"}
      [] assoc[n] = "idle" /\ type = "S" -> {"idle", "joining"}
      [] assoc[n] = "joining" -> {"joining", "idle"}
      [] OTHER -> {assoc[n]}

StartNodes(type) ==
    /\ assoc' \in [Node -> {"idle", "joining", "joined"}]
    /\ \A n \in Node : assoc'[n] \in Becomes(n, type)
    /\ own' = [n \in Node |-> IF n \in Leaving THEN NoCell ELSE own[n]]
    /\ pending' = [n \in Node |-> pending[n] /\ n \notin Leaving]
    /\ quiet' = [n \in Node |-> IF assoc'[n] = "joined" THEN quiet[n] + 1 ELSE 0]
    /\ lost' = CountLost

\* A handler preempts the main loop.
Preempt ==
    /\ raced' = (raced \/ (building /\ assigned' # assigned))
    /\ UNCHANGED <<listed, building>>

\* What the filter may hold.
Filters == IF ~building THEN {listed} ELSE IF raced THEN SUBSET Node ELSE SUBSET Members

\* The gateway's frame, if it has one, may be received by every node that is awake.
GatewaySends ==
    /\ \/ BeaconSlot /\ StartNodes("B") /\ onAir' \in Filters
       \/ DownlinkSlot /\ StartNodes("D") /\ onAir' = {}
    /\ Preempt
    /\ stale' = (CellType[current'] = "B" /\ (dirty' \/ raced'))
    /\ sending' = {}
    /\ hearing' = IF frame' = Nothing THEN {} ELSE {n \in Node : assoc'[n] # "idle"}

\* Nodes send in the shared cells when they ask, and each slotframe in the cell of their own.
NodesSend ==
    /\ ListenSlot
    /\ StartNodes(CellType[current'])
    /\ sending' = IF CellType[current'] = "S"
                  THEN {n \in Node : assoc[n] = "idle" /\ assoc'[n] = "joining"}
                  ELSE {n \in Node : assoc'[n] = "joined" /\ own'[n] = current'}
    /\ hearing' = {}
    /\ onAir' = {} /\ stale' = FALSE
    /\ Preempt

Slot == GatewaySends \/ NodesSend

-----------------------------------------------------------------------------
\* The gateway receives one of the frames.
Receives(n) ==
    /\ n \in sending
    /\ RxJoinRequest(n) \/ RxJoinRequestFull(n) \/ RxFromJoined(n) \/ (RxIgnored /\ ~IsJoined(n))
    /\ sending' = sending \ {n}
    /\ lost' = IF CellType[current] = "U" /\ IsJoined(n) THEN [lost EXCEPT ![n] = 0] ELSE lost
    /\ Preempt
    /\ UNCHANGED <<onAir, stale, nodeVars, hearing>>

\* A node receives the frame of the gateway.
Hears(n) ==
    /\ n \in hearing
    /\ hearing' = hearing \ {n}
    /\ UNCHANGED <<vars, filterVars, sending>>

\* Mutant of HearBeacon: the filter is not looked at.
HearAnyBeacon(n) ==
    /\ frame.kind = "beacon"
    /\ Hears(n)
    /\ quiet' = IF assoc[n] = "joined" THEN [quiet EXCEPT ![n] = 0] ELSE quiet
    /\ UNCHANGED <<pending, assoc, own, lost>>

HearBeacon(n) ==
    /\ frame.kind = "beacon"
    /\ Hears(n)
    /\ IF assoc[n] # "joined" THEN UNCHANGED <<pending, quiet>>
       ELSE IF n \in onAir THEN quiet' = [quiet EXCEPT ![n] = 0] /\ UNCHANGED pending
       ELSE pending' = [pending EXCEPT ![n] = TRUE] /\ UNCHANGED quiet
    /\ UNCHANGED <<assoc, own, lost>>

\* A response is for its node alone, and only while the node waits for one.
HearResponse(n) ==
    /\ frame.kind = "response"
    /\ Hears(n)
    /\ IF frame.dst = n /\ assoc[n] = "joining"
       THEN /\ assoc' = [assoc EXCEPT ![n] = "joined"]
            /\ own' = [own EXCEPT ![n] = frame.cell]
            /\ pending' = [pending EXCEPT ![n] = FALSE]
            /\ quiet' = [quiet EXCEPT ![n] = 0]
            /\ lost' = [lost EXCEPT ![n] = 0]
       ELSE UNCHANGED <<nodeVars, lost>>

\* A packet of the gateway's application, for this node or for all.
HearData(n) ==
    /\ frame.kind = "data"
    /\ Hears(n)
    /\ assoc[n] = "joined"
    /\ quiet' = [quiet EXCEPT ![n] = 0]
    /\ UNCHANGED <<assoc, own, pending, lost>>

\* A node loses its power, and all it knew.
Restart(n) ==
    /\ assoc[n] # "idle"
    /\ assoc' = [assoc EXCEPT ![n] = "idle"]
    /\ own' = [own EXCEPT ![n] = NoCell]
    /\ pending' = [pending EXCEPT ![n] = FALSE]
    /\ quiet' = [quiet EXCEPT ![n] = 0]
    /\ lost' = [lost EXCEPT ![n] = 0]
    /\ sending' = sending \ {n} /\ hearing' = hearing \ {n}
    /\ UNCHANGED <<vars, filterVars>>

\* The main loop of the gateway.
StartRebuild ==
    /\ dirty /\ ~building
    /\ building' = TRUE
    /\ listed' = {}
    /\ raced' = FALSE
    /\ UNCHANGED <<vars, onAir, stale, nodeVars, airVars>>

\* Mutant of EndRebuild: the loop stops before the last cell.
EndOneCellShort ==
    /\ building
    /\ building' = FALSE
    /\ listed' \in IF raced THEN SUBSET Node
                  ELSE {{n \in Members : \E c \in CellsOf(n) : c < NCells - 1}}
    /\ BloomSetClean
    /\ UNCHANGED <<onAir, raced, stale, nodeVars, airVars>>

EndRebuild ==
    /\ building
    /\ building' = FALSE
    /\ listed' \in IF raced THEN SUBSET Node ELSE {Members}
    /\ BloomSetClean
    /\ UNCHANGED <<onAir, raced, stale, nodeVars, airVars>>

NetNext ==
    \/ Slot \/ StartRebuild \/ EndRebuild
    \/ \E n \in Node :
          \/ Receives(n) \/ HearBeacon(n) \/ HearResponse(n) \/ HearData(n)
          \/ Restart(n)

NetSafety == NetInit /\ [][NetNext]_netVars

\* Slots come, the main loop runs, and of the beacons sent to a node not all are lost.
NetSpec ==
    /\ NetSafety
    /\ WF_netVars(Slot)
    /\ WF_netVars(StartRebuild \/ EndRebuild)
    /\ \A n \in Node : SF_netVars(HearBeacon(n))

-----------------------------------------------------------------------------
Astray(n) == assoc[n] = "joined" /\ assigned[own[n]] # n

\* A node transmits in a cell the gateway has taken back only if the gateway has missed its frames
\* through a whole lease: not through restarts, joins or evictions of others (association.c:372-395
\* with mac.c:431-485).
AstrayOnlyUnheard == \A n \in Node : Astray(n) => lost[n] >= MaxSlotframesNoRx

\* The cell a node is told to use is its own at the moment it starts to use it, however late or often
\* it asked (mari.c:142-159, 207-226, queue.c:154-178).
EntersHeldCell ==
    [][\A n \in Node : own'[n] # own[n] /\ own'[n] # NoCell => assigned[own'[n]] = n]_netVars

\* A beacon that copies a filter in the middle of its rebuild, or a flag put down too early, turns
\* members away; once a rebuild has come to its end undisturbed, no beacon does until the next change
\* (bloom.c:78-113, mari.c:155-157, association.c:411-440).
TurnedAwayOnlyWhileStale == \A n \in Members : pending[n] => stale

\* A node that has lost its cell finds out, from a beacon that does not list it or from silence, and
\* stops using it (association.c:272-300, 411-440), unless a rebuild that another change disturbed
\* has left it in the filter.
AstrayEnds == \A n \in Node : Astray(n) ~> (~Astray(n) \/ raced)
=============================================================================
