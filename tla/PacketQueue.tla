---------------------------- MODULE PacketQueue ----------------------------
(***************************************************************************)
(* The transmit queue of a node or gateway (mari/queue.c): mr_queue_add,   *)
(* step by step in the main loop, preempted by the slot interrupt, which   *)
(* takes a packet, and at a node by the join, which resets the queue.      *)
(*                                                                         *)
(* A packet is a value; its buffer and its length, stored by separate      *)
(* statements, are two copies of that value, equal in an intact packet.    *)
(* The queue variables are neither volatile nor atomic: after the first    *)
(* read of `last` the compiled code may use the value it has in a register *)
(* or read the variable again, so both are allowed.                        *)
(***************************************************************************)
EXTENDS Integers, Sequences

CONSTANTS
    Packet,      \* packets the application adds
    NoPacket,    \* the zeroed contents the queue starts with
    Size         \* MARI_PACKET_QUEUE_SIZE

ASSUME QueueAssumption == Size \in Nat \ {0, 1} /\ NoPacket \notin Packet

VARIABLES
    buffer,     \* packets[i].buffer
    length,     \* packets[i].length
    current,    \* index of the oldest packet
    last,       \* index after the newest packet
    locked,     \* queue_locked
    step,       \* where the main loop is in mr_queue_add
    adding,     \* the packet being added
    index,      \* the value of last the add has read
    sent,       \* the packet the last transmit slot took, as <<buffer, length>>
    cut         \* history: a reset has preempted an mr_queue_add in progress

ring == <<buffer, length, current, last>>
adder == <<step, adding, index>>
queueVars == <<ring, locked, adder, sent, cut>>

Slot == 0 .. Size - 1
\* Mutant of After: the index is not wrapped.
NotWrapped(i) == i + 1

After(i) == (i + 1) % Size

QueueInit ==
    /\ buffer = [i \in Slot |-> NoPacket]
    /\ length = [i \in Slot |-> NoPacket]
    /\ current = 0
    /\ last = 0
    /\ locked = FALSE
    /\ step = "idle"
    /\ adding = NoPacket
    /\ index = 0
    /\ sent = <<NoPacket, NoPacket>>
    /\ cut = FALSE

\* mr_queue_add leaves its waiting loop and takes the lock.
AddLock(p) ==
    /\ step = "idle"
    /\ ~locked
    /\ locked' = TRUE
    /\ step' = "copy"
    /\ adding' = p
    /\ UNCHANGED <<ring, index, sent, cut>>

AddCopy ==
    /\ step = "copy"
    /\ index' = last
    /\ buffer' = [buffer EXCEPT ![last] = adding]
    /\ step' = "size"
    /\ UNCHANGED <<length, current, last, locked, adding, sent, cut>>

AddLength ==
    /\ step = "size"
    /\ \E i \in {index, last} : length' = [length EXCEPT ![i] = adding]
    /\ step' = "advance"
    /\ UNCHANGED <<buffer, current, last, locked, adding, index, sent, cut>>

\* There is no test for a full queue.
AddAdvance ==
    /\ step = "advance"
    /\ \E i \in {index, last} : last' = After(i)
    /\ step' = "unlock"
    /\ UNCHANGED <<buffer, length, current, locked, adding, index, sent, cut>>

\* Mutant of AddUnlock: the lock is not released.
AddStaysLocked ==
    /\ step = "unlock"
    /\ step' = "idle"
    /\ UNCHANGED <<ring, locked, adding, index, sent, cut>>

AddUnlock ==
    /\ step = "unlock"
    /\ locked' = FALSE
    /\ step' = "idle"
    /\ UNCHANGED <<ring, adding, index, sent, cut>>

Add == (\E p \in Packet : AddLock(p)) \/ AddCopy \/ AddLength \/ AddAdvance \/ AddUnlock

\* Mutant of TakePacket: no test for an empty queue.
TakeFromEmpty ==
    /\ ~locked
    /\ sent' = <<buffer[current], length[current]>>
    /\ current' = After(current)
    /\ UNCHANGED <<buffer, length, last, locked, adder, cut>>

\* A transmit slot peeks and pops in one interrupt; it gives up if the queue is
\* locked or empty.
TakePacket ==
    /\ ~locked
    /\ current # last
    /\ sent' = <<buffer[current], length[current]>>
    /\ current' = After(current)
    /\ UNCHANGED <<buffer, length, last, locked, adder, cut>>

\* The node has just joined, in the radio interrupt: the indices and the lock
\* are reset, the contents stay.
Reset ==
    /\ current' = 0
    /\ last' = 0
    /\ locked' = FALSE
    /\ cut' = (cut \/ step # "idle")
    /\ UNCHANGED <<buffer, length, adder, sent>>

QueueNext == Add \/ TakePacket \/ Reset

\* The main loop is not starved by the interrupts of a slot.
AddFairness == WF_queueVars(AddCopy \/ AddLength \/ AddAdvance \/ AddUnlock)

\* A gateway never joins, so its behaviours are those without a Reset.
QueueSpec == QueueInit /\ [][QueueNext]_queueVars /\ AddFairness

-----------------------------------------------------------------------------
QueueTypeOK ==
    /\ buffer \in [Slot -> Packet \cup {NoPacket}]
    /\ length \in [Slot -> Packet \cup {NoPacket}]
    /\ current \in Slot
    /\ last \in Slot
    /\ locked \in BOOLEAN
    /\ step \in {"idle", "copy", "size", "advance", "unlock"}
    /\ adding \in Packet \cup {NoPacket}
    /\ index \in Slot
    /\ sent \in (Packet \cup {NoPacket}) \X (Packet \cup {NoPacket})
    /\ cut \in BOOLEAN

\* The ring, its two indices and the lock are a FIFO of whole packets that holds
\* one packet less than it has slots, drops all of them when one more is added
\* (queue.c: current = last means empty) and forgets them on a join, as long as no
\* reset has preempted an mr_queue_add.
Count == (last - current) % Size
Fifo == INSTANCE PacketFifo WITH
    Packet <- {<<p, p>> : p \in Packet}, Nothing <- <<NoPacket, NoPacket>>,
    Capacity <- Size - 1,
    waiting <- [k \in 1 .. Count |-> <<buffer[(current + k - 1) % Size],
                                        length[(current + k - 1) % Size]>>]
FifoUnlessCut == Fifo!FifoInit /\ [][cut' \/ Fifo!FifoNext]_(Fifo!fifoVars)

\* The transmit slots are locked out only for a while: whatever preempts it, the
\* main loop releases the lock (queue.c).
LockReleased == locked ~> ~locked
=============================================================================
