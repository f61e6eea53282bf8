---------------------------- MODULE GatewayAssoc ----------------------------
(***************************************************************************)
(* Membership at the gateway: the uplink cells of the active schedule      *)
(* (mari/scheduler.c), the gateway half of the association module          *)
(* (mari/association.c), the gateway half of the packet handler            *)
(* (mari/mari.c), the join-response buffer of the packet queue             *)
(* (mari/queue.c) and the slot interrupt that drives them (mari/mac.c).    *)
(*                                                                         *)
(* Every action is one interrupt handler.  The timer and radio interrupts  *)
(* of a slot run to completion before the next slot starts, so each is one *)
(* atomic step; the main loop, which they preempt, is in GatewayBloom.     *)
(*                                                                         *)
(* The 64-bit ASN is represented by what the code computes from it:        *)
(* asn % n_cells (the variable current) and asn - last_received_asn        *)
(* (the variable silence).  Nothing else reads it here.                    *)
(***************************************************************************)
EXTENDS Integers, FiniteSets

CONSTANTS
    Node,                \* device ids that may send a join request
    NoNode,              \* assigned_node_id = 0, a free cell
    NCells,              \* schedule_t.n_cells
    CellType,            \* type of each cell: "B", "S", "D" or "U"
    MaxNodes,            \* schedule_t.max_nodes
    MaxSlotframesNoRx    \* MARI_MAX_SLOTFRAMES_NO_RX_LEAVE

Cell == 0 .. NCells - 1
Uplink == {c \in Cell : CellType[c] = "U"}

\* models.h documents max_nodes as the number of uplink cells, and the four
\* schedules of all_schedules.c agree with it.
ASSUME ScheduleAssumption ==
    /\ NCells \in 1 .. 149
    /\ CellType \in [Cell -> {"B", "S", "D", "U"}]
    /\ MaxNodes = Cardinality(Uplink)
    /\ MaxSlotframesNoRx \in Nat \ {0}
    /\ NoNode \notin Node

\* In every schedule of all_schedules.c a shared-uplink cell is followed by a
\* downlink cell.
ASSUME DownlinkFollowsShared ==
    \A c \in Cell : CellType[c] = "S" => CellType[(c + 1) % NCells] = "D"

VARIABLES
    assigned,      \* cells[c].assigned_node_id, for the uplink cells
    silence,       \* asn - cells[c].last_received_asn, 0 for a free cell
    numAssigned,   \* num_assigned_uplink_nodes, a uint8_t
    current,       \* current_cell_index
    radio,         \* "listen" while a frame may still arrive in this slot
    joinPacket,    \* the join response waiting in queue_vars.join_packet
    frame,         \* what the gateway transmits in the current slot
    dirty,         \* bloom_vars.is_dirty
    appNodes,      \* history: NODE_JOINED minus NODE_LEFT, as the application saw them
    granted,       \* history: cell of the last join response to n, within its lease
    unheard        \* history: slots since n, holding a grant, was last heard

cellVars == <<assigned, silence, numAssigned>>
history == <<appNodes, granted, unheard>>
vars == <<cellVars, current, radio, joinPacket, frame, dirty, history>>

NoCell == -1
NoPacket == [dst |-> NoNode, cell |-> NoCell]
JoinResponse == [dst : Node, cell : Uplink]

Nothing == [kind |-> "nothing"]
Data == [kind |-> "data"]
Beacon(capacity) == [kind |-> "beacon", capacity |-> capacity]
Response(packet) == [kind |-> "response", dst |-> packet.dst, cell |-> packet.cell]

MaxAsnOld == NCells * MaxSlotframesNoRx
RemainingCapacity == (MaxNodes - numAssigned) % 256

CellsOf(n) == {c \in Uplink : assigned[c] = n}
IsJoined(n) == CellsOf(n) # {}
Members == {n \in Node : IsJoined(n)}
FreeCells == CellsOf(NoNode)

-----------------------------------------------------------------------------
Init ==
    /\ assigned = [c \in Uplink |-> NoNode]
    /\ silence = [c \in Uplink |-> 0]
    /\ numAssigned = 0
    /\ current = NCells - 1
    /\ radio = "sleep"
    /\ joinPacket = NoPacket
    /\ frame = Nothing
    /\ dirty = FALSE
    /\ appNodes = {}
    /\ granted = [n \in Node |-> NoCell]
    /\ unheard = [n \in Node |-> 0]

\* Mutants of ClearOldNodes: the loop stops at the first cell it clears; the
\* counter is not decreased; NODE_LEFT is not raised; >= is written for >.
ClearFirstOldNode ==
    LET old == {c \in Uplink : /\ assigned[c] # NoNode
                               /\ silence[c] > MaxAsnOld
                               /\ \A d \in Uplink : d < c => silence[d] <= MaxAsnOld}
    IN  /\ assigned' = [c \in Uplink |-> IF c \in old THEN NoNode ELSE assigned[c]]
        /\ silence' = [c \in Uplink |-> IF c \in old \/ assigned[c] = NoNode
                                        THEN 0 ELSE silence[c] + 1]
        /\ numAssigned' = (numAssigned - Cardinality(old)) % 256
        /\ dirty' = (dirty \/ old # {})
        /\ appNodes' = appNodes \ {assigned[c] : c \in old}

ClearWithoutDecrease ==
    LET old == {c \in Uplink : assigned[c] # NoNode /\ silence[c] > MaxAsnOld}
    IN  /\ assigned' = [c \in Uplink |-> IF c \in old THEN NoNode ELSE assigned[c]]
        /\ silence' = [c \in Uplink |-> IF c \in old \/ assigned[c] = NoNode
                                        THEN 0 ELSE silence[c] + 1]
        /\ dirty' = (dirty \/ old # {})
        /\ appNodes' = appNodes \ {assigned[c] : c \in old}
        /\ UNCHANGED numAssigned

ClearWithoutEvent ==
    LET old == {c \in Uplink : assigned[c] # NoNode /\ silence[c] > MaxAsnOld}
    IN  /\ assigned' = [c \in Uplink |-> IF c \in old THEN NoNode ELSE assigned[c]]
        /\ silence' = [c \in Uplink |-> IF c \in old \/ assigned[c] = NoNode
                                        THEN 0 ELSE silence[c] + 1]
        /\ numAssigned' = (numAssigned - Cardinality(old)) % 256
        /\ UNCHANGED <<dirty, appNodes>>

ClearOneSlotEarly ==
    LET old == {c \in Uplink : assigned[c] # NoNode /\ silence[c] >= MaxAsnOld}
    IN  /\ assigned' = [c \in Uplink |-> IF c \in old THEN NoNode ELSE assigned[c]]
        /\ silence' = [c \in Uplink |-> IF c \in old \/ assigned[c] = NoNode
                                        THEN 0 ELSE silence[c] + 1]
        /\ numAssigned' = (numAssigned - Cardinality(old)) % 256
        /\ dirty' = (dirty \/ old # {})
        /\ appNodes' = appNodes \ {assigned[c] : c \in old}

\* event_callback for NODE_LEFT: the filter is marked dirty, the application is told.
ReportLeft(nodes) ==
    /\ dirty' = (dirty \/ nodes # {})
    /\ appNodes' = appNodes \ nodes

\* Deassign every cell whose node has been silent for too long; then asn++ ages the others.
ClearOldNodes ==
    LET old == {c \in Uplink : assigned[c] # NoNode /\ silence[c] > MaxAsnOld}
    IN  /\ assigned' = [c \in Uplink |-> IF c \in old THEN NoNode ELSE assigned[c]]
        /\ silence' = [c \in Uplink |-> IF c \in old \/ assigned[c] = NoNode
                                        THEN 0 ELSE silence[c] + 1]
        /\ numAssigned' = (numAssigned - Cardinality(old)) % 256
        /\ ReportLeft({assigned[c] : c \in old})

\* The history of grants ages by its own rule, without looking at the cells.
AgeGrants ==
    LET lapsed == {n \in Node : unheard[n] > MaxAsnOld}
    IN  /\ granted' = [n \in Node |-> IF n \in lapsed THEN NoCell ELSE granted[n]]
        /\ unheard' = [n \in Node |-> IF n \in lapsed \/ granted[n] = NoCell
                                      THEN 0 ELSE unheard[n] + 1]

StartCell(types) ==
    /\ current' = (current + 1) % NCells
    /\ CellType[current'] \in types
    /\ ClearOldNodes
    /\ AgeGrants

BeaconSlot ==
    /\ StartCell({"B"})
    /\ frame' = Beacon(RemainingCapacity')
    /\ radio' = "sleep"
    /\ UNCHANGED joinPacket

\* Mutant of DownlinkSlot: the join packet is not cleared when it is taken.
DownlinkKeepsResponse ==
    /\ StartCell({"D"})
    /\ IF joinPacket # NoPacket
       THEN frame' = Response(joinPacket)
       ELSE frame' \in {Nothing, Data}
    /\ radio' = "sleep"
    /\ UNCHANGED joinPacket

\* A waiting join response goes before any other packet.
DownlinkSlot ==
    /\ StartCell({"D"})
    /\ IF joinPacket # NoPacket
       THEN frame' = Response(joinPacket)
       ELSE frame' \in {Nothing, Data}
    /\ joinPacket' = NoPacket
    /\ radio' = "sleep"

ListenSlot ==
    /\ StartCell({"S", "U"})
    /\ frame' = Nothing
    /\ radio' = "listen"
    /\ UNCHANGED joinPacket

NewSlot == BeaconSlot \/ DownlinkSlot \/ ListenSlot

-----------------------------------------------------------------------------
\* Mutant of Receive: the slot does not end after the frame.
ReceiveAgain(type) ==
    /\ radio = "listen"
    /\ CellType[current] = type
    /\ UNCHANGED <<radio, current, frame>>

\* At most one frame is received per slot: the radio sleeps afterwards.
Receive(type) ==
    /\ radio = "listen"
    /\ CellType[current] = type
    /\ radio' = "sleep"
    /\ UNCHANGED <<current, frame>>

\* The loop over the cells stops at the first one that is free or is the node's
\* own, whichever comes first.
Fitting(n) == {c \in Uplink : assigned[c] \in {NoNode, n}}

\* Mutant of RxJoinRequest: a re-join does not update last_received_asn.
RejoinNotHeard(n) ==
    \E c \in Fitting(n) :
        /\ \A d \in Fitting(n) : c <= d
        /\ Receive("S")
        /\ assigned' = [assigned EXCEPT ![c] = n]
        /\ numAssigned' = IF assigned[c] = NoNode THEN (numAssigned + 1) % 256
                                                  ELSE numAssigned
        /\ joinPacket' = [dst |-> n, cell |-> c]
        /\ dirty' = TRUE
        /\ appNodes' = appNodes \cup {n}
        /\ granted' = [granted EXCEPT ![n] = c]
        /\ unheard' = [unheard EXCEPT ![n] = 0]
        /\ UNCHANGED silence

RxJoinRequest(n) ==
    \E c \in Fitting(n) :
        /\ \A d \in Fitting(n) : c <= d
        /\ Receive("S")
        /\ assigned' = [assigned EXCEPT ![c] = n]
        /\ silence' = [silence EXCEPT ![c] = 0]
        /\ numAssigned' = IF assigned[c] = NoNode THEN (numAssigned + 1) % 256
                                                  ELSE numAssigned
        /\ joinPacket' = [dst |-> n, cell |-> c]
        /\ dirty' = TRUE
        /\ appNodes' = appNodes \cup {n}
        /\ granted' = [granted EXCEPT ![n] = c]
        /\ unheard' = [unheard EXCEPT ![n] = 0]

\* No cell fits: the application gets a GATEWAY_FULL error, nothing is sent.
RxJoinRequestFull(n) ==
    /\ Receive("S")
    /\ Fitting(n) = {}
    /\ UNCHANGED <<cellVars, joinPacket, dirty, history>>

\* mr_assoc_gateway_keep_node_alive: all the cells of the node.
KeepNodeAlive(n) ==
    /\ silence' = [c \in Uplink |-> IF assigned[c] = n THEN 0 ELSE silence[c]]
    /\ unheard' = [unheard EXCEPT ![n] = 0]

\* Data or a keepalive of a joined node.
RxFromJoined(n) ==
    /\ Receive("U")
    /\ IsJoined(n)
    /\ KeepNodeAlive(n)
    /\ UNCHANGED <<assigned, numAssigned, joinPacket, dirty, appNodes, granted>>

\* A frame for another destination or network, or of a node that is not joined.
RxIgnored ==
    /\ \E type \in {"S", "U"} : Receive(type)
    /\ UNCHANGED <<cellVars, joinPacket, dirty, history>>

\* The main loop has brought the Bloom filter up to date (see GatewayBloom).
BloomSetClean ==
    /\ dirty
    /\ dirty' = FALSE
    /\ UNCHANGED <<cellVars, current, radio, joinPacket, frame, history>>

RxFrame ==
    \/ \E n \in Node : RxJoinRequest(n) \/ RxJoinRequestFull(n) \/ RxFromJoined(n)
    \/ RxIgnored

Next == NewSlot \/ RxFrame \/ BloomSetClean

\* The slot timer is a free-running compare interrupt of the highest priority.
Fairness == WF_vars(NewSlot)

Safety == Init /\ [][Next]_vars
Spec == Safety /\ Fairness

-----------------------------------------------------------------------------
TypeOK ==
    /\ assigned \in [Uplink -> Node \cup {NoNode}]
    /\ silence \in [Uplink -> 0 .. MaxAsnOld + 1]
    /\ numAssigned \in 0 .. 255
    /\ current \in Cell
    /\ radio \in {"listen", "sleep"}
    /\ joinPacket \in JoinResponse \cup {NoPacket}
    /\ frame \in {Nothing, Data} \cup {Beacon(k) : k \in 0 .. 255}
                 \cup {Response(p) : p \in JoinResponse}
    /\ dirty \in BOOLEAN
    /\ appNodes \subseteq Node
    /\ granted \in [Node -> Uplink \cup {NoCell}]
    /\ unheard \in [Node -> 0 .. MaxAsnOld + 1]

\* The capacity a beacon advertises, computed in uint8_t from a counter kept
\* apart from the cells, is the number of cells a join request could still be
\* given (scheduler.c: num_assigned_uplink_nodes against cells[]).
CapacityIsFreeCells == RemainingCapacity = Cardinality(FreeCells)

\* From the join response on, and as long as it is heard, a node owns the cell
\* it was told to transmit in: the gateway neither takes the cell back nor gives
\* it to another node, through re-joins, evictions and keep-alives of others.
GrantHonoured ==
    \A n \in Node : granted[n] # NoCell =>
        /\ assigned[granted[n]] = n
        /\ silence[granted[n]] = unheard[n]

\* A node the application believes to be joined (it saw NODE_JOINED and no
\* NODE_LEFT since) has a cell: no eviction goes unreported (association.c).
AppSeesOnlyMembers == appNodes \subseteq Members

\* The join response waiting in the queue names the cell the node holds, so a
\* cell is never promised and taken back before the response leaves (queue.c).
ResponseNamesHeldCell ==
    joinPacket # NoPacket => granted[joinPacket.dst] = joinPacket.cell

\* There is one buffer for join responses: it is emptied only by transmitting
\* the response, never by a second join request overwriting it (queue.c).
NoResponseOverwritten ==
    [][joinPacket # NoPacket /\ joinPacket' # joinPacket =>
          joinPacket' = NoPacket /\ frame' = Response(joinPacket)]_vars

\* The cells implement a lease on membership: exactly the nodes not heard for
\* more than MaxAsnOld slots leave, at the next slot boundary (association.c).
Lease == INSTANCE CellLease WITH
    Capacity <- MaxNodes, Lease <- MaxAsnOld, members <- Members
ImplementsLease == Lease!LeaseSpec

\* scheduler.c says of a re-joining node "we can just keep the same cell_id":
\* a node has at most one cell.
OneCellPerNode == \A n \in Node : Cardinality(CellsOf(n)) <= 1
=============================================================================
