----------------------------- MODULE GatewayNet -----------------------------
(***************************************************************************)
(* The network core of the gateway board (03app_gateway_net/main.c): the   *)
(* interrupts of the MAC put events into a mailbox of one place, and the   *)
(* main loop writes them, and once per slotframe the state of the gateway, *)
(* into a buffer it shares with the application core, and signals it.      *)
(*                                                                         *)
(* What is stored by several statements is a pair here, whose two halves   *)
(* are read and written by separate steps: of an event the type and the    *)
(* data, of a frame the length and the body, type byte included.           *)
(*                                                                         *)
(* The data of an event of a node is the node.  That of MARI_NEW_PACKET is *)
(* a length and pointers to where the MAC has put the frame, and any frame *)
(* it receives later is put there too (mac.c), whether or not it makes an  *)
(* event; a value d of the data stands for the length of the packet d and  *)
(* for its place.  Lengths are abstract: radio_to_uart_len is a uint8_t    *)
(* and is len + 1, which for the longest frame of the radio would be 0.    *)
(* Left out are events that are not forwarded (MARI_ERROR).                *)
(***************************************************************************)
EXTENDS Integers, Sequences

CONSTANTS
    Node,       \* the events of nodes: joined, left or alive, each of some node
    Packet,     \* data packets
    NewPacket,  \* MARI_NEW_PACKET
    NodeInfo,   \* the length of what is forwarded of a node's event
    Info,       \* MARI_EDGE_GATEWAY_INFO, its length and its body
    Garbled,    \* the bytes of no data packet, or of pieces of several
    Nothing,    \* what a zeroed buffer holds
    MaxPosts    \* bounds the model: how many interrupts there are

ASSUME NetAssumption == MaxPosts \in Nat /\ Node \cap {NewPacket, Nothing} = {}

VARIABLES
    event,          \* mari_event and mari_event_data
    eventReady,     \* mari_event_ready
    infoReady,      \* to_uart_gateway_loop_ready
    rxFrame,        \* mac_vars.received_packet, where the packet of an event is
    posts,          \* how many interrupts there have been
    netStep,        \* where the main loop is
    copy,           \* the main loop's copy of the event, Empty when it is done with it
    shared,         \* ipc_shared_data.radio_to_uart and its length
    signal,         \* EVENTS_RECEIVE[IPC_CHAN_RADIO_TO_UART] of the application core
    handled,        \* history: the frame made of the last event
    overwritten     \* history: a frame has come on top of the last event's, too early

mailbox == <<event, eventReady, infoReady, rxFrame, posts, overwritten>>
netLoop == <<netStep, copy>>
netVars == <<mailbox, netLoop, shared, signal, handled>>

Empty == <<Nothing, Nothing>>
NoFrame == <<Nothing, Empty>>

NetInit ==
    /\ event = Empty
    /\ eventReady = FALSE
    /\ infoReady = FALSE
    /\ rxFrame = Nothing
    /\ posts = 0
    /\ netStep = "idle"
    /\ copy = Empty
    /\ shared = NoFrame
    /\ signal = FALSE
    /\ handled = NoFrame
    /\ overwritten = FALSE

\* The last event has not been forwarded yet.
Pending == eventReady \/ netStep \in {"type", "data", "write", "send"}

Interrupt ==
    /\ posts < MaxPosts /\ netStep # "fault"
    /\ posts' = posts + 1

\* _mari_event_callback, in the interrupts of the MAC: an event not taken is lost.
Post(type, data) ==
    /\ Interrupt
    /\ event' = <<type, data>>
    /\ eventReady' = TRUE
    /\ overwritten' = FALSE
    /\ UNCHANGED <<infoReady, netLoop, shared, signal, handled>>

\* A node has sent a request to join or a keepalive, or it is given up, with no frame.
PostNode(n) == Post(n, n) /\ rxFrame' \in {rxFrame, Garbled}

PostPacket(p) == Post(NewPacket, p) /\ rxFrame' = p

\* A frame that makes no event: of another version or network, for another node, or from a node
\* that has not joined.
ReceiveOther ==
    /\ Interrupt
    /\ rxFrame' = Garbled
    /\ overwritten' = (overwritten \/ Pending)
    /\ UNCHANGED <<event, eventReady, infoReady, netLoop, shared, signal, handled>>

\* _to_uart_gateway_loop, in the interrupt of the periodic timer.
PostInfo ==
    /\ Interrupt
    /\ infoReady' = TRUE
    /\ UNCHANGED <<event, eventReady, rxFrame, netLoop, shared, signal, handled, overwritten>>

TakeEvent ==
    /\ netStep = "idle"
    /\ eventReady
    /\ eventReady' = FALSE
    /\ netStep' = "type"
    /\ UNCHANGED <<event, infoReady, rxFrame, posts, overwritten, copy, shared, signal, handled>>

CopyType ==
    /\ netStep = "type"
    /\ copy' = [copy EXCEPT ![1] = event[1]]
    /\ netStep' = "data"
    /\ UNCHANGED <<mailbox, shared, signal, handled>>

\* Mutant of CopyData: the flag is cleared after the event has been copied.
CopyDataThenClear ==
    /\ netStep = "data"
    /\ copy' = [copy EXCEPT ![2] = event[2]]
    /\ eventReady' = FALSE
    /\ netStep' = "write"
    /\ UNCHANGED <<event, infoReady, rxFrame, posts, overwritten, shared, signal, handled>>

CopyData ==
    /\ netStep = "data"
    /\ copy' = [copy EXCEPT ![2] = event[2]]
    /\ netStep' = "write"
    /\ UNCHANGED <<mailbox, shared, signal, handled>>

Length(e) == IF e[1] \in Node THEN NodeInfo ELSE e[2]

WriteLength ==
    /\ netStep = "write"
    /\ shared' = [shared EXCEPT ![1] = Length(copy)]
    /\ netStep' = "send"
    /\ UNCHANGED <<mailbox, copy, signal, handled>>

\* What is copied for the data of an event: of a packet what is in its place now, which is of
\* several frames if one has come meanwhile.
Contents(e) ==
    CASE e[1] # NewPacket -> {e[2]}
      [] e[1] = NewPacket /\ e[2] = rxFrame -> {rxFrame}
      [] OTHER -> {rxFrame, Garbled}

SendEvent ==
    /\ netStep = "send"
    /\ \E d \in Contents(copy) : shared' = [shared EXCEPT ![2] = <<copy[1], d>>]
    /\ signal' = TRUE
    /\ handled' = shared'
    /\ copy' = Empty
    /\ netStep' = "ready"
    /\ UNCHANGED mailbox

\* Of a packet event with the data of a node the pointers may be to no memory.
Fault ==
    /\ netStep \in {"write", "send"}
    /\ copy[1] = NewPacket /\ copy[2] \in Node
    /\ netStep' = "fault"
    /\ UNCHANGED <<mailbox, copy, shared, signal, handled>>

\* A turn of the main loop with no event.
SkipEvent ==
    /\ netStep = "idle"
    /\ ~eventReady
    /\ infoReady
    /\ netStep' = "ready"
    /\ UNCHANGED <<mailbox, copy, shared, signal, handled>>

\* The second half of a turn of the main loop.
NoInfo ==
    /\ netStep = "ready"
    /\ ~infoReady
    /\ netStep' = "idle"
    /\ UNCHANGED <<mailbox, copy, shared, signal, handled>>

WriteInfo ==
    /\ netStep = "ready"
    /\ infoReady
    /\ infoReady' = FALSE
    /\ shared' = [shared EXCEPT ![2] = <<Info, Info>>]
    /\ netStep' = "info"
    /\ UNCHANGED <<event, eventReady, rxFrame, posts, overwritten, copy, signal, handled>>

SendInfo ==
    /\ netStep = "info"
    /\ shared' = [shared EXCEPT ![1] = Info]
    /\ signal' = TRUE
    /\ netStep' = "idle"
    /\ UNCHANGED <<mailbox, copy, handled>>

NetInterrupt == PostInfo \/ ReceiveOther
                  \/ (\E n \in Node : PostNode(n)) \/ (\E p \in Packet : PostPacket(p))
NetLoop == TakeEvent \/ CopyType \/ CopyData \/ WriteLength \/ SendEvent \/ Fault
              \/ SkipEvent \/ NoInfo \/ WriteInfo \/ SendInfo

-----------------------------------------------------------------------------
Value == Node \cup Packet \cup {NewPacket, NodeInfo, Info, Garbled, Nothing}
Pair == Value \X Value
Frame == Value \X Pair

\* An event may be lost to the next one, and forwarded torn when the next one arrives
\* while it is being copied; but the last one is forwarded, whole: with its own length, its own
\* type, and its own data, unless these are a packet's and another frame has come
\* before they were copied (main.c, mac.c).
LastEventForwarded ==
    netStep = "idle" /\ ~eventReady =>
        \/ handled = <<Length(event), event>>
        \/ /\ overwritten /\ event[1] = NewPacket
           /\ handled[1] = Length(event) /\ handled[2][1] = NewPacket
=============================================================================
