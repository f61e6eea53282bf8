---------------------------- MODULE GatewayBoard ----------------------------
(***************************************************************************)
(* The gateway board from the events of the MAC to the serial line: the    *)
(* network core, GatewayNet, and the sending half of the application core  *)
(* (03app_gateway_app/main.c, uart.c).  There the interrupt of the signal  *)
(* copies the shared buffer, which the other core may be writing, into a   *)
(* ring, and the main loop sends what is in the ring, frame by frame.      *)
(*                                                                         *)
(* The interrupt of the signal preempts the main loop, between any two     *)
(* accesses to the ring; the number of frames in it is changed by both,    *)
(* and decremented by a load and a store.                                  *)
(***************************************************************************)
EXTENDS GatewayNet

CONSTANTS
    QueueSize,   \* TX_QUEUE_SIZE
    MaxChunks    \* how many chunks of MR_UARTE_CHUNK_SIZE a frame may take

ASSUME BoardAssumption == QueueSize \in Nat \ {0} /\ MaxChunks \in Nat \ {0}

VARIABLES
    ring,       \* tx_queue
    head,       \* tx_queue_head
    tail,       \* tx_queue_tail
    count,      \* tx_queue_count
    isrStep,    \* where the interrupt of the signal is
    entry,      \* the frame it is copying, NoFrame when it is not
    appStep,    \* where the main loop is
    awake,      \* the event register __WFE waits for
    loaded,     \* the value of count the main loop has loaded, 0 when it is done with it
    frame,      \* the frame taken from the ring
    chunks,     \* chunks still to be sent: tx_busy means more than none
    seen,       \* history: the last frame copied to the ring
    refused,    \* history: the last signal found the ring full
    raced       \* history: an update of count has been lost

queue == <<ring, head, tail, count>>
isr == <<isrStep, entry, seen, refused>>
appLoop == <<appStep, loaded, frame, raced>>
appVars == <<queue, isr, appLoop, awake, chunks>>
boardVars == <<netVars, appVars>>

Slot == 0 .. QueueSize - 1

BoardInit ==
    /\ NetInit
    /\ ring = [i \in Slot |-> NoFrame]
    /\ head = 0 /\ tail = 0 /\ count = 0
    /\ isrStep = "idle"
    /\ entry = NoFrame
    /\ appStep = "wait"
    /\ awake = FALSE
    /\ loaded = 0
    /\ frame = NoFrame
    /\ chunks = 0
    /\ seen = NoFrame
    /\ refused = FALSE
    /\ raced = FALSE

Busy == chunks > 0

Full == count >= QueueSize

\* IPC_IRQHandler; a frame for which there is no room is dropped.
Signalled ==
    /\ isrStep = "idle"
    /\ signal
    /\ signal' = FALSE
    /\ refused' = Full
    /\ isrStep' = IF Full THEN "idle" ELSE "length"
    /\ awake' = TRUE
    /\ UNCHANGED <<mailbox, netLoop, shared, handled, queue, entry, seen, appLoop, chunks>>

EnqueueLength ==
    /\ isrStep = "length"
    /\ entry' = [entry EXCEPT ![1] = shared[1]]
    /\ isrStep' = "copy"
    /\ UNCHANGED <<netVars, queue, seen, refused, appLoop, awake, chunks>>

\* Mutant of Enqueue: the signal is cleared after the copy.
EnqueueThenClear ==
    /\ isrStep = "copy"
    /\ seen' = [entry EXCEPT ![2] = shared[2]]
    /\ ring' = [ring EXCEPT ![head] = seen']
    /\ entry' = NoFrame
    /\ head' = (head + 1) % QueueSize
    /\ count' = count + 1
    /\ isrStep' = "idle"
    /\ awake' = TRUE
    /\ signal' = FALSE
    /\ UNCHANGED <<mailbox, netLoop, shared, handled, tail, refused, appLoop, chunks>>

Enqueue ==
    /\ isrStep = "copy"
    /\ seen' = [entry EXCEPT ![2] = shared[2]]
    /\ ring' = [ring EXCEPT ![head] = seen']
    /\ entry' = NoFrame
    /\ head' = (head + 1) % QueueSize
    /\ count' = count + 1
    /\ isrStep' = "idle"
    /\ awake' = TRUE
    /\ UNCHANGED <<netVars, tail, refused, appLoop, chunks>>

\* The main loop runs only while the interrupt does not.
Wake ==
    /\ isrStep = "idle" /\ appStep = "wait"
    /\ awake
    /\ awake' = FALSE
    /\ appStep' = "look"
    /\ UNCHANGED <<netVars, queue, isr, loaded, frame, raced, chunks>>

NothingToSend ==
    /\ isrStep = "idle" /\ appStep = "look"
    /\ count = 0 \/ Busy
    /\ appStep' = "wait"
    /\ UNCHANGED <<netVars, queue, isr, loaded, frame, raced, awake, chunks>>

\* Mutant of Dequeue: the frame stays where it is.
DequeueSame ==
    /\ isrStep = "idle" /\ appStep = "look"
    /\ count > 0 /\ ~Busy
    /\ frame' = ring[tail]
    /\ appStep' = "load"
    /\ UNCHANGED <<netVars, queue, isr, loaded, raced, awake, chunks>>

Dequeue ==
    /\ isrStep = "idle" /\ appStep = "look"
    /\ count > 0 /\ ~Busy
    /\ frame' = ring[tail]
    /\ tail' = (tail + 1) % QueueSize
    /\ appStep' = "load"
    /\ UNCHANGED <<netVars, ring, head, count, isr, loaded, raced, awake, chunks>>

LoadCount ==
    /\ isrStep = "idle" /\ appStep = "load"
    /\ loaded' = count
    /\ appStep' = "store"
    /\ UNCHANGED <<netVars, queue, isr, frame, raced, awake, chunks>>

\* The frame is encoded and mr_uart_write starts to send it.
Send ==
    /\ isrStep = "idle" /\ appStep = "store"
    /\ count' = loaded - 1
    /\ raced' = (raced \/ count # loaded)
    /\ chunks' \in 1 .. MaxChunks
    /\ loaded' = 0
    /\ appStep' = "wait"
    /\ UNCHANGED <<netVars, ring, head, tail, isr, frame, awake>>

\* Mutant of EndTx: the last chunk leaves the UART busy.
EndTxBusy ==
    /\ Busy
    /\ chunks' = IF chunks > 1 THEN chunks - 1 ELSE chunks
    /\ awake' = TRUE
    /\ UNCHANGED <<netVars, queue, isr, appLoop>>

\* The interrupt at the end of a chunk.
EndTx ==
    /\ Busy
    /\ chunks' = chunks - 1
    /\ awake' = TRUE
    /\ UNCHANGED <<netVars, queue, isr, appLoop>>

NetStep == (NetInterrupt \/ NetLoop) /\ UNCHANGED appVars
SignalIsr == Signalled \/ EnqueueLength \/ Enqueue
AppLoop == Wake \/ NothingToSend \/ Dequeue \/ LoadCount \/ Send

BoardNext == NetStep \/ SignalIsr \/ AppLoop \/ EndTx

\* Interrupts are taken, and leave the main loops time to run.
BoardFairness ==
    /\ WF_boardVars(NetLoop /\ UNCHANGED appVars)
    /\ WF_boardVars(SignalIsr)
    /\ SF_boardVars(AppLoop)
    /\ WF_boardVars(EndTx)

BoardSpec == BoardInit /\ [][BoardNext]_boardVars /\ BoardFairness

-----------------------------------------------------------------------------
\* The application core may copy a frame while the network core writes the next one, and
\* may miss a frame; but the last one gets into the ring whole, unless the ring is full
\* (main.c of both cores).
LastFrameEnqueued ==
    netStep \notin {"send", "info", "fault"} /\ ~signal /\ isrStep = "idle" /\ ~refused
        => seen = shared

\* Until an update of the count is lost, the ring is a FIFO that refuses a frame when it
\* is full: what is enqueued is sent, once and in order (main.c).
Waiting == IF appStep \in {"load", "store"} THEN count - 1 ELSE count
Fifo == INSTANCE PacketFifo WITH
    Packet <- Frame, Nothing <- NoFrame, Capacity <- QueueSize,
    waiting <- [k \in 1 .. Waiting |-> ring[(tail + k - 1) % QueueSize]], sent <- frame
FifoUnlessRaced ==
    Fifo!FifoInit /\ [][raced' \/ Fifo!Dequeue \/ Fifo!Enqueue(seen')]_(Fifo!fifoVars)

\* The main loop sleeps until an interrupt, and takes at most one frame when it wakes up,
\* none if the UART is busy; nevertheless it gets to a waiting frame, unless the count of it
\* is lost (main.c, uart.c).
CountedIsSent == Waiting > 0 ~> (appStep = "load" \/ raced)
=============================================================================
