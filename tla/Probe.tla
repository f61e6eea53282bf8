------------------------------- MODULE Probe -------------------------------
(***************************************************************************)
(* A metrics probe on its way: from the application core of the gateway    *)
(* through the main loop of the network core (03app_gateway_net/main.c,    *)
(* metrics.c) and the air to the main loop of the node's application       *)
(* (03app_node/main.c), and back.  Each loop has a mailbox of one place    *)
(* that interrupts overwrite, and handles a frame where it lies: in the    *)
(* buffer of the MAC, or the one the two cores share, which the next frame *)
(* overwrites as well.                                                     *)
(*                                                                         *)
(* Mine is the node whose application is modelled; Other joins and leaves, *)
(* and sends probes.  A frame is a probe or not, and has a number.  That   *)
(* the type and the data of an event are copied one after the other is in  *)
(* GatewayNet; what the loops write to the UART is left out.  A full queue *)
(* drops all its packets (PacketQueue), and any frame may be lost.         *)
(***************************************************************************)
EXTENDS Integers, Sequences

CONSTANTS
    Mine, Other, NoNode,
    Row,         \* the places of metrics_vars.nodes, MARI_N_CELLS_MAX of them
    QueueSize,
    MaxSent,     \* bounds the model: how many frames the computer sends
    MaxPosts     \* and how many other interrupts there are

ASSUME ProbeAssumption ==
    /\ Mine # Other /\ NoNode \notin {Mine, Other}
    /\ Row \subseteq Nat /\ QueueSize \in Nat \ {0} /\ MaxSent \in Nat /\ MaxPosts \in Nat

Node == {Mine, Other}

VARIABLES
    table,       \* metrics_vars.nodes
    gwMail, gwReady, gwCopy,   \* mari_event, mari_event_ready and the loop's copy
    gwFrame,     \* received_packet of the gateway's MAC
    gwStep,      \* where the loop of the network core is
    shared, sharedReady,       \* uart_to_radio_tx, uart_to_radio_packet_ready
    down, up,    \* the packet queues of the gateway and of the node
    nodeMail, nodeReady, nodeCopy,   \* event, event_ready and the loop's copy
    nodeFrame,   \* received_packet of the node's MAC
    nodeStep,    \* where the loop of the node is
    count,       \* node_stats.rx_counter, always equal to tx_counter
    sent, posts, \* how many frames and interrupts there have been
    answered,    \* history: the number of the last frame answered
    told,        \* history: the nodes that the loop has seen join, and not leave since
    irregular,   \* history: those it saw join when they had joined, or when the table was full
    late,        \* history: a loop was not done with one frame when the next one came
    steady       \* history: Mine has been in told since the first probe was sent

gwVars == <<gwMail, gwReady, gwCopy, gwFrame, gwStep>>
sharedVars == <<shared, sharedReady>>
nodeVars == <<nodeMail, nodeReady, nodeCopy, nodeFrame, nodeStep, count, answered>>
members == <<table, told, irregular>>
history == <<late, steady>>
vars == <<members, gwVars, sharedVars, down, up, nodeVars, sent, posts, history>>

FreeRow == [node |-> NoNode, tx |-> 0, rx |-> 0]
NoFrame == [kind |-> "none", id |-> 0, src |-> NoNode]
Frame(k, i, n) == [kind |-> k, id |-> i, src |-> n]
NoEvent == [event |-> "none", node |-> NoNode, probe |-> FALSE]
Packet(frame) == [event |-> "packet", node |-> NoNode, probe |-> frame.kind = "probe"]
Membership(e, n) == [event |-> e, node |-> n, probe |-> FALSE]

Init ==
    /\ table = [r \in Row |-> FreeRow]
    /\ gwMail = NoEvent /\ gwReady = FALSE /\ gwCopy = NoEvent /\ gwFrame = NoFrame
    /\ gwStep = "event"
    /\ shared = NoFrame /\ sharedReady = FALSE
    /\ down = <<>> /\ up = <<>>
    /\ nodeMail = NoEvent /\ nodeReady = FALSE /\ nodeCopy = NoEvent /\ nodeFrame = NoFrame
    /\ nodeStep = "event" /\ count = 0
    /\ sent = 0 /\ posts = 0
    /\ answered = 0 /\ told = {} /\ irregular = {} /\ late = FALSE /\ steady = FALSE

\* mr_queue_add
Added(queue, packet) == IF Len(queue) < QueueSize THEN Append(queue, packet) ELSE <<>>

Posted == posts < MaxPosts /\ posts' = posts + 1

-----------------------------------------------------------------------------
(* Interrupts at the gateway. *)

\* The application core has decoded a frame of the computer for Mine, and signals it.
Computer(kind) ==
    /\ sent < MaxSent
    /\ sent' = sent + 1
    /\ shared' = Frame(kind, sent + 1, Mine)
    /\ sharedReady' = TRUE
    /\ late' = (late \/ sharedReady \/ gwStep \in {"count", "send"})
    /\ steady' = IF sent = 0 THEN Mine \in told ELSE steady
    /\ UNCHANGED <<members, gwVars, down, up, nodeVars, posts>>

\* _mari_event_callback
Raise(event) == gwMail' = event /\ gwReady' = TRUE /\ UNCHANGED <<gwCopy, gwStep>>

GatewayEvent(e, n) ==
    /\ Posted
    /\ Raise(Membership(e, n))
    /\ late' = (late \/ gwStep = "copy")
    /\ UNCHANGED <<members, gwFrame, sharedVars, down, up, nodeVars, sent, steady>>

GatewayReceives(frame) ==
    /\ Raise(Packet(frame))
    /\ gwFrame' = frame
    /\ late' = (late \/ gwReady \/ gwStep \in {"copy", "handle"})
    /\ UNCHANGED <<members, sharedVars, down, nodeVars, sent, steady>>

ReceiveFromOther ==
    /\ Posted
    /\ GatewayReceives(Frame("probe", 0, Other))
    /\ UNCHANGED up

Uplink ==
    /\ up # <<>>
    /\ up' = Tail(up)
    /\ GatewayReceives(Head(up))
    /\ UNCHANGED posts

UplinkLost ==
    /\ up # <<>>
    /\ up' = Tail(up)
    /\ UNCHANGED <<members, gwVars, sharedVars, down, nodeVars, sent, posts, history>>

-----------------------------------------------------------------------------
(* The main loop of the network core. *)

GatewayLoop(from) ==
    /\ gwStep = from
    /\ UNCHANGED <<gwMail, gwFrame, shared, up, nodeVars, sent, posts, late>>

TakeEvent ==
    /\ GatewayLoop("event")
    /\ gwReady
    /\ gwReady' = FALSE
    /\ gwStep' = "copy"
    /\ UNCHANGED <<gwCopy, members, sharedReady, down, steady>>

CopyEvent ==
    /\ GatewayLoop("copy")
    /\ gwCopy' = gwMail
    /\ gwStep' = "handle"
    /\ UNCHANGED <<gwReady, members, sharedReady, down, steady>>

RowsOf(n) == {r \in Row : table[r].node = n}
FirstOf(rows) == {r \in rows : \A s \in rows : r <= s}

\* Mutant of AddNode: the loop goes on after a free row was found.
AddNodeEverywhere(n) ==
    table' = [r \in Row |-> IF table[r].node = NoNode THEN [table[r] EXCEPT !.node = n] ELSE table[r]]

\* metrics_add_node: into the first free row, be the node in the table or not.
AddNode(n) ==
    table' = [r \in Row |-> IF r \in FirstOf(RowsOf(NoNode)) THEN [table[r] EXCEPT !.node = n] ELSE table[r]]

\* metrics_clear_node: the first row of the node.
ClearNode(n) ==
    table' = [r \in Row |-> IF r \in FirstOf(RowsOf(n)) THEN FreeRow ELSE table[r]]

HandleJoined ==
    /\ gwCopy.event = "joined"
    /\ AddNode(gwCopy.node)
    /\ told' = told \cup {gwCopy.node}
    /\ irregular' = IF gwCopy.node \in told \/ RowsOf(NoNode) = {}
                    THEN irregular \cup {gwCopy.node} ELSE irregular
    /\ UNCHANGED steady

HandleLeft ==
    /\ gwCopy.event = "left"
    /\ ClearNode(gwCopy.node)
    /\ told' = told \ {gwCopy.node}
    /\ steady' = (steady /\ gwCopy.node # Mine)
    /\ UNCHANGED irregular

\* Mutant of HandlePacket: every packet is taken for a probe.
HandleAnyPacket ==
    /\ gwCopy.event = "packet"
    /\ table' = [r \in Row |-> IF r \in FirstOf(RowsOf(gwFrame.src))
                               THEN [table[r] EXCEPT !.rx = @ + 1] ELSE table[r]]
    /\ UNCHANGED <<told, irregular, steady>>

\* metrics_is_probe and metrics_handle_rx_probe
HandlePacket ==
    /\ gwCopy.event = "packet"
    /\ table' = IF gwCopy.probe /\ gwFrame.kind = "probe"
                THEN [r \in Row |-> IF r \in FirstOf(RowsOf(gwFrame.src))
                                    THEN [table[r] EXCEPT !.rx = @ + 1] ELSE table[r]]
                ELSE table
    /\ UNCHANGED <<told, irregular, steady>>

HandleEvent ==
    /\ GatewayLoop("handle")
    /\ HandleJoined \/ HandleLeft \/ HandlePacket
    /\ gwCopy' = NoEvent
    /\ gwStep' = "packet"
    /\ UNCHANGED <<gwReady, sharedReady, down>>

NoEventToHandle ==
    /\ GatewayLoop("event")
    /\ ~gwReady /\ sharedReady
    /\ gwStep' = "packet"
    /\ UNCHANGED <<gwReady, gwCopy, members, sharedReady, down, steady>>

NoPacketToSend ==
    /\ GatewayLoop("packet")
    /\ ~sharedReady
    /\ gwStep' = "event"
    /\ UNCHANGED <<gwReady, gwCopy, members, sharedReady, down, steady>>

\* A frame of an unknown type ends this turn of the loop.
TakePacket ==
    /\ GatewayLoop("packet")
    /\ sharedReady
    /\ sharedReady' = FALSE
    /\ gwStep' = IF shared.kind = "invalid" THEN "event" ELSE "count"
    /\ UNCHANGED <<gwReady, gwCopy, members, down, steady>>

\* metrics_is_probe and metrics_handle_tx_probe
CountPacket ==
    /\ GatewayLoop("count")
    /\ table' = IF shared.kind = "probe"
                THEN [r \in Row |-> IF r \in FirstOf(RowsOf(shared.src))
                                    THEN [table[r] EXCEPT !.tx = @ + 1] ELSE table[r]]
                ELSE table
    /\ gwStep' = "send"
    /\ UNCHANGED <<gwReady, gwCopy, told, irregular, sharedReady, down, steady>>

SendPacket ==
    /\ GatewayLoop("send")
    /\ down' = Added(down, shared)
    /\ gwStep' = "event"
    /\ UNCHANGED <<gwReady, gwCopy, members, sharedReady, steady>>

-----------------------------------------------------------------------------
(* Interrupts at the node. *)

\* Any frame of a slot gets into the buffer, be it for the node or not.
NodeReceives(frame) ==
    /\ nodeFrame' = frame
    /\ late' = (late \/ nodeReady \/ nodeStep # "event")
    /\ UNCHANGED <<members, gwVars, sharedVars, up, nodeCopy, nodeStep, count, answered, sent, steady>>

Downlink ==
    /\ down # <<>>
    /\ down' = Tail(down)
    /\ NodeReceives(Head(down))
    /\ nodeMail' = Packet(Head(down))
    /\ nodeReady' = TRUE
    /\ UNCHANGED posts

DownlinkLost ==
    /\ down # <<>>
    /\ down' = Tail(down)
    /\ UNCHANGED <<members, gwVars, sharedVars, up, nodeVars, sent, posts, history>>

Beacon ==
    /\ Posted
    /\ NodeReceives(Frame("beacon", 0, NoNode))
    /\ UNCHANGED <<nodeMail, nodeReady, down>>

\* MARI_CONNECTED and MARI_DISCONNECTED
SessionEvent ==
    /\ Posted
    /\ nodeMail' = Membership("session", Mine)
    /\ nodeReady' = TRUE
    /\ late' = (late \/ nodeReady \/ nodeStep = "copy")
    /\ UNCHANGED <<members, gwVars, sharedVars, down, up, nodeCopy, nodeFrame, nodeStep, count,
                   answered, sent, steady>>

-----------------------------------------------------------------------------
(* The main loop of the node. *)

NodeLoop(from) ==
    /\ nodeStep = from
    /\ UNCHANGED <<members, gwVars, sharedVars, down, nodeMail, sent, history>>

NodeTakes ==
    /\ NodeLoop("event")
    /\ nodeReady
    /\ nodeReady' = FALSE
    /\ nodeStep' = "copy"
    /\ UNCHANGED <<up, nodeCopy, nodeFrame, count, answered, posts>>

NodeCopies ==
    /\ NodeLoop("copy")
    /\ nodeCopy' = nodeMail
    /\ nodeStep' = "test"
    /\ UNCHANGED <<up, nodeReady, nodeFrame, count, answered, posts>>

\* Mutant of NodeTests: the flag is cleared only now.
NodeTestsThenClears ==
    /\ NodeLoop("test")
    /\ nodeStep' = IF nodeCopy.probe /\ nodeFrame.kind = "probe" THEN "edit" ELSE "event"
    /\ nodeReady' = FALSE
    /\ nodeCopy' = NoEvent
    /\ UNCHANGED <<up, nodeFrame, count, answered, posts>>

\* The length is that of the event, the type is read from the buffer.
NodeTests ==
    /\ NodeLoop("test")
    /\ nodeStep' = IF nodeCopy.probe /\ nodeFrame.kind = "probe" THEN "edit" ELSE "event"
    /\ nodeCopy' = NoEvent
    /\ UNCHANGED <<up, nodeReady, nodeFrame, count, answered, posts>>

\* handle_metrics_payload writes the counters into the buffer,
NodeEdits ==
    /\ NodeLoop("edit")
    /\ count' = count + 1
    /\ nodeStep' = "answer"
    /\ UNCHANGED <<up, nodeReady, nodeCopy, nodeFrame, answered, posts>>

\* and sends what is in it then, with a header of its own.
NodeAnswers ==
    /\ NodeLoop("answer")
    /\ up' = Added(up, [nodeFrame EXCEPT !.src = Mine])
    /\ answered' = nodeFrame.id
    /\ nodeStep' = "event"
    /\ UNCHANGED <<nodeReady, nodeCopy, nodeFrame, count, posts>>

\* The periodic status packet; between two turns of the loop, it may come at any time.
NodeStatus ==
    /\ NodeLoop("event")
    /\ Posted
    /\ up' = Added(up, Frame("status", 0, Mine))
    /\ UNCHANGED <<nodeReady, nodeCopy, nodeFrame, nodeStep, count, answered>>

-----------------------------------------------------------------------------
Interrupt ==
    \/ \E kind \in {"probe", "data", "invalid"} : Computer(kind)
    \/ \E n \in Node, e \in {"joined", "left"} : GatewayEvent(e, n)
    \/ ReceiveFromOther \/ Uplink \/ UplinkLost
    \/ Downlink \/ DownlinkLost \/ Beacon \/ SessionEvent

NetworkCore ==
    \/ TakeEvent \/ CopyEvent \/ HandleEvent \/ NoEventToHandle
    \/ NoPacketToSend \/ TakePacket \/ CountPacket \/ SendPacket

NodeApp == NodeTakes \/ NodeCopies \/ NodeTests \/ NodeEdits \/ NodeAnswers \/ NodeStatus

Next == Interrupt \/ NetworkCore \/ NodeApp

Spec == Init /\ [][Next]_vars

-----------------------------------------------------------------------------
\* The counts a probe reports make sense: nobody has received more probes than the other has sent, as
\* long as every main loop is done with a frame when the next one comes, and, downwards, as long as
\* the node stays a member (metrics.c:70-100, 03app_node/main.c:87-97).
CountsWithinSent ==
    ~late =>
        /\ \A r \in RowsOf(Mine) : table[r].rx <= count
        /\ steady /\ Mine \notin irregular => \A r \in RowsOf(Mine) : count <= table[r].tx

\* However late the loop of the node is, and whatever overwrites its mailbox or its buffer: if what
\* came last is a probe, it is answered (03app_node/main.c:81-97, 120-146).
LastProbeAnswered ==
    nodeStep = "event" /\ ~nodeReady /\ nodeMail.probe /\ nodeFrame.kind = "probe" => answered = nodeFrame.id

\* The rows of the table follow the members the loop knows of; unless one joins again before it has
\* left, which gives it a second row that nothing removes, or there is no row left (metrics.c:41-60).
RowsFollowMembers ==
    \A n \in Node \ irregular :
        \/ n \in told /\ \E r \in Row : RowsOf(n) = {r}
        \/ n \notin told /\ RowsOf(n) = {}
=============================================================================
