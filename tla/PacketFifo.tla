----------------------------- MODULE PacketFifo -----------------------------
(***************************************************************************)
(* What the packet queue amounts to when nothing interferes with it: a     *)
(* first-in first-out queue that forgets everything it holds when one      *)
(* packet too many is added, or when it is told to.  PacketQueue implements *)
(* this specification as long as nothing cuts into an addition.            *)
(***************************************************************************)
EXTENDS Integers, Sequences

CONSTANTS
    Packet,     \* what the application sends
    Nothing,    \* what has been sent before the first packet
    Capacity    \* how many packets the queue can hold

VARIABLES
    waiting,    \* the packets not yet transmitted, oldest first
    sent        \* the last packet transmitted

fifoVars == <<waiting, sent>>

FifoInit == waiting = <<>> /\ sent = Nothing

Enqueue(p) ==
    /\ waiting' = IF Len(waiting) < Capacity THEN Append(waiting, p) ELSE <<>>
    /\ UNCHANGED sent

Dequeue ==
    /\ waiting # <<>>
    /\ sent' = Head(waiting)
    /\ waiting' = Tail(waiting)

Clear == waiting' = <<>> /\ UNCHANGED sent

FifoNext == Dequeue \/ Clear \/ \E p \in Packet : Enqueue(p)

FifoSpec == FifoInit /\ [][FifoNext]_fifoVars
=============================================================================
