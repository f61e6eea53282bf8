-------------------------- MODULE GatewayApp_proof --------------------------
(***************************************************************************)
(* The application core of the gateway.                                    *)
(*                                                                         *)
(* From the radio: the last event of the MAC reaches it whole, but for a   *)
(* packet another frame has come on top of; and the ring it gets into is a *)
(* FIFO, for rings of any size and any number of interrupts                *)
(* (GatewayBoard).                                                         *)
(*                                                                         *)
(* To the radio: what the serial line's receiver decodes is what the       *)
(* computer encoded, and after a frame that came through undamaged it is   *)
(* in step again, for every payload that fits a frame, pieces of any       *)
(* size and any noise (Hdlc, UartRx).                                      *)
(***************************************************************************)
EXTENDS GatewayBoard, UartRx, SequenceTheorems, WellFoundedInduction, TLAPS

BoardTypes ==
    /\ event \in Pair /\ copy \in Pair /\ rxFrame \in Value
    /\ shared \in Frame /\ handled \in Frame
    /\ entry \in Frame /\ seen \in Frame /\ frame \in Frame
    /\ ring \in [Slot -> Frame]
    /\ head \in Slot /\ tail \in Slot

\* What has been made of an event: all of it but what may be lost of a packet.
Forwarded ==
    /\ handled[1] = Length(event) /\ handled[2][1] = event[1]
    /\ handled[2][2] = event[2] \/ (overwritten /\ event[1] = NewPacket)

\* Unless another has come, the event is on its way through the main loop of the network core.
EventInv ==
    ~eventReady =>
        /\ netStep = "data" => copy[1] = event[1]
        /\ netStep \in {"write", "send"} => copy = event
        /\ netStep = "send" => shared[1] = Length(event)
        /\ netStep \in {"ready", "info", "idle"} => Forwarded

\* Until it is forwarded, a packet is where it was received, or another frame is.
ReceivedInv == Pending /\ event[1] = NewPacket /\ ~overwritten => event[2] = rxFrame

\* Unless another is being written or signalled, the frame is on its way through the interrupt of
\* the signal.
FrameInv ==
    ~signal /\ netStep \notin {"send", "info", "fault"} =>
        /\ isrStep = "copy" => entry[1] = shared[1]
        /\ isrStep = "idle" /\ ~refused => seen = shared

\* What the ring holds is between its indices, and the interrupt that is to add to it has room.
RingInv ==
    ~raced =>
        /\ count \in 0 .. QueueSize
        /\ appStep \in {"load", "store"} => count > 0
        /\ isrStep \in {"length", "copy"} => count < QueueSize
        /\ head = (tail + Waiting) % QueueSize

-----------------------------------------------------------------------------
(* Pairs. *)

LEMMA PairExcept ==
    ASSUME NEW S, NEW T, NEW p \in S \X T, NEW x \in S, NEW y \in T
    PROVE  /\ [p EXCEPT ![1] = x] = <<x, p[2]>> /\ [p EXCEPT ![2] = y] = <<p[1], y>>
           /\ p[1] \in S /\ p[2] \in T /\ p = <<p[1], p[2]>>
OBVIOUS

LEMMA FrameExcept ==
    ASSUME NEW p \in Frame, NEW q \in Frame
    PROVE  /\ [p EXCEPT ![1] = q[1]] = <<q[1], p[2]>> /\ [p EXCEPT ![1] = q[1]] \in Frame
           /\ [p EXCEPT ![2] = q[2]] = <<p[1], q[2]>> /\ [p EXCEPT ![2] = q[2]] \in Frame
           /\ q = <<q[1], q[2]>>
BY PairExcept DEF Frame

-----------------------------------------------------------------------------
(* The network core. *)

\* What is written of an event to the shared buffer.
LEMMA WrittenLength ==
    ASSUME NEW e \in Pair, NEW f \in Frame
    PROVE  /\ Length(e) \in Value
           /\ [f EXCEPT ![1] = Length(e)] = <<Length(e), f[2]>>
           /\ [f EXCEPT ![1] = Length(e)] \in Frame
<1>1. e[2] \in Value
  BY PairExcept DEF Pair
<1>2. Length(e) \in Value
  BY <1>1 DEF Length, Value
<1> QED
  BY <1>2, PairExcept DEF Frame

LEMMA WrittenBody ==
    ASSUME NEW e \in Pair, NEW f \in Frame, rxFrame \in Value, NEW d \in Contents(e)
    PROVE  /\ [f EXCEPT ![2] = <<e[1], d>>] = <<f[1], <<e[1], d>>>>
           /\ [f EXCEPT ![2] = <<e[1], d>>] \in Frame
<1>1. e[1] \in Value /\ e[2] \in Value
  BY PairExcept DEF Pair
<1>2. d \in Value
  BY <1>1 DEF Contents, Value
<1>3. <<e[1], d>> \in Pair
  BY <1>1, <1>2 DEF Pair
<1> QED
  BY <1>3, PairExcept DEF Frame

LEMMA SendForwards ==
    ASSUME BoardTypes, EventInv, ReceivedInv, SendEvent
    PROVE  EventInv' /\ ReceivedInv'
<1>1. UNCHANGED mailbox /\ netStep = "send" /\ netStep' = "ready"
  BY DEF SendEvent
<1>2. PICK d \in Contents(copy) : shared' = [shared EXCEPT ![2] = <<copy[1], d>>]
  BY DEF SendEvent
<1>3. handled' = <<shared[1], <<copy[1], d>>>>
  BY <1>2, WrittenBody DEF SendEvent, BoardTypes
<1>4. ASSUME ~eventReady
      PROVE  Forwarded'
  <2>1. copy = event /\ shared[1] = Length(event)
    BY <1>1, <1>4 DEF EventInv
  <2>2. d = event[2] \/ (overwritten /\ event[1] = NewPacket)
    BY <1>1, <1>2, <2>1 DEF Contents, ReceivedInv, Pending
  <2> QED
    BY <1>1, <1>3, <2>1, <2>2 DEF Forwarded, Length, mailbox
<1> QED
  BY <1>1, <1>4 DEF EventInv, ReceivedInv, Pending, mailbox

LEMMA InterruptKeeps ==
    ASSUME ReceivedInv, EventInv, NetInterrupt
    PROVE  EventInv' /\ ReceivedInv'
<1>1. CASE PostInfo
  BY <1>1 DEF PostInfo, netLoop, EventInv, ReceivedInv, Pending, Forwarded, Length
<1>2. CASE ReceiveOther
  <2>1. /\ UNCHANGED <<event, eventReady, netStep, copy, shared, handled>>
        /\ overwritten' = (overwritten \/ Pending) /\ Pending' = Pending
    BY <1>2 DEF ReceiveOther, netLoop, Pending
  <2> QED
    BY <2>1 DEF EventInv, ReceivedInv, Forwarded, Length
<1>3. ASSUME NEW n \in Node, PostNode(n)
      PROVE  EventInv' /\ ReceivedInv'
  <2>1. eventReady' /\ event' = <<n, n>>
    BY <1>3 DEF PostNode, Post
  <2>2. event'[1] # NewPacket
    BY <2>1, NetAssumption
  <2> QED
    BY <2>1, <2>2 DEF EventInv, ReceivedInv
<1>4. ASSUME NEW p \in Packet, PostPacket(p)
      PROVE  EventInv' /\ ReceivedInv'
  <2>1. eventReady' /\ event' = <<NewPacket, p>> /\ rxFrame' = p
    BY <1>4 DEF PostPacket, Post
  <2> QED
    BY <2>1 DEF EventInv, ReceivedInv
<1> QED
  BY <1>1, <1>2, <1>3, <1>4 DEF NetInterrupt

LEMMA EventStep ==
    ASSUME BoardTypes, EventInv, ReceivedInv, NetInterrupt \/ NetLoop \/ UNCHANGED netVars
    PROVE  EventInv' /\ ReceivedInv'
<1>1. CASE NetInterrupt
  BY <1>1, InterruptKeeps
<1>2. CASE TakeEvent
  BY <1>2 DEF TakeEvent, EventInv, ReceivedInv, Pending
<1>3. CASE CopyType
  <2>1. event[1] \in Value /\ copy'[1] = event[1]
    BY <1>3, PairExcept DEF CopyType, BoardTypes, Pair
  <2> QED
    BY <1>3, <2>1 DEF CopyType, mailbox, EventInv, ReceivedInv, Pending
<1>4. CASE CopyData
  <2>1. copy' = <<copy[1], event[2]>> /\ event = <<event[1], event[2]>>
    BY <1>4, PairExcept DEF CopyData, BoardTypes, Pair
  <2> QED
    BY <1>4, <2>1 DEF CopyData, mailbox, EventInv, ReceivedInv, Pending
<1>5. CASE WriteLength
  <2>1. shared'[1] = Length(copy)
    BY <1>5, WrittenLength DEF WriteLength, BoardTypes
  <2> QED
    BY <1>5, <2>1 DEF WriteLength, mailbox, EventInv, ReceivedInv, Pending, Length
<1>6. CASE SendEvent
  BY <1>6, SendForwards
<1>7. CASE Fault
  BY <1>7 DEF Fault, mailbox, EventInv, ReceivedInv, Pending
<1>8. CASE SkipEvent \/ NoInfo \/ WriteInfo \/ SendInfo
  <2>1. /\ UNCHANGED <<event, eventReady, rxFrame, overwritten, handled>>
        /\ netStep \in {"ready", "info", "idle"} /\ netStep' \in {"ready", "info", "idle"}
    BY <1>8 DEF SkipEvent, NoInfo, WriteInfo, SendInfo, mailbox
  <2> QED
    BY <2>1 DEF EventInv, ReceivedInv, Pending, Forwarded, Length
<1>9. CASE UNCHANGED netVars
  BY <1>9 DEF netVars, mailbox, netLoop, EventInv, ReceivedInv, Pending, Forwarded, Length
<1> QED
  BY <1>1, <1>2, <1>3, <1>4, <1>5, <1>6, <1>7, <1>8, <1>9 DEF NetLoop

-----------------------------------------------------------------------------
(* Types. *)

LEMMA NextPlace ==
    ASSUME NEW i \in Slot
    PROVE  (i + 1) % QueueSize = IF i = QueueSize - 1 THEN 0 ELSE i + 1
<1>1. CASE i = QueueSize - 1
  <2>1. i + 1 = QueueSize * 1 + 0
    BY <1>1, BoardAssumption
  <2> QED
    BY <1>1, <2>1, BoardAssumption DEF Slot
<1>2. CASE i # QueueSize - 1
  BY <1>2, BoardAssumption DEF Slot
<1> QED
  BY <1>1, <1>2

LEMMA NoFrameIn == Empty \in Pair /\ NoFrame \in Frame
BY DEF Empty, NoFrame, Pair, Frame, Value

NetTypes ==
    event \in Pair /\ copy \in Pair /\ rxFrame \in Value /\ shared \in Frame /\ handled \in Frame

LEMMA TypesOfInterrupt ==
    ASSUME BoardTypes, NetInterrupt
    PROVE  NetTypes'
<1>1. CASE PostInfo
  BY <1>1 DEF PostInfo, netLoop, BoardTypes, NetTypes
<1>2. CASE ReceiveOther
  BY <1>2 DEF ReceiveOther, netLoop, BoardTypes, NetTypes, Value
<1>3. ASSUME NEW n \in Node, PostNode(n)
      PROVE  NetTypes'
  <2>1. <<n, n>> \in Pair /\ Garbled \in Value
    BY DEF Pair, Value
  <2> QED
    BY <1>3, <2>1 DEF PostNode, Post, netLoop, BoardTypes, NetTypes
<1>4. ASSUME NEW p \in Packet, PostPacket(p)
      PROVE  NetTypes'
  <2>1. <<NewPacket, p>> \in Pair /\ p \in Value
    BY DEF Pair, Value
  <2> QED
    BY <1>4, <2>1 DEF PostPacket, Post, netLoop, BoardTypes, NetTypes
<1> QED
  BY <1>1, <1>2, <1>3, <1>4 DEF NetInterrupt

LEMMA TypesOfNet ==
    ASSUME BoardTypes, NetInterrupt \/ NetLoop
    PROVE  NetTypes'
<1>1. CASE NetInterrupt
  BY <1>1, TypesOfInterrupt
<1>2. CASE TakeEvent \/ SkipEvent \/ NoInfo \/ Fault
  BY <1>2 DEF TakeEvent, SkipEvent, NoInfo, Fault, mailbox, BoardTypes, NetTypes
<1>3. CASE CopyType \/ CopyData
  <2>1. event[1] \in Value /\ event[2] \in Value /\ copy[1] \in Value /\ copy[2] \in Value
    BY PairExcept DEF BoardTypes, Pair
  <2>2. [copy EXCEPT ![1] = event[1]] \in Pair /\ [copy EXCEPT ![2] = event[2]] \in Pair
    BY <2>1, PairExcept DEF BoardTypes, Pair
  <2> QED
    BY <1>3, <2>2 DEF CopyType, CopyData, mailbox, BoardTypes, NetTypes
<1>4. CASE WriteLength
  BY <1>4, WrittenLength DEF WriteLength, mailbox, BoardTypes, NetTypes
<1>5. CASE SendEvent
  <2>1. PICK d \in Contents(copy) : shared' = [shared EXCEPT ![2] = <<copy[1], d>>]
    BY <1>5 DEF SendEvent
  <2>2. shared' \in Frame
    BY <2>1, WrittenBody DEF BoardTypes
  <2> QED
    BY <1>5, <2>2, NoFrameIn DEF SendEvent, mailbox, BoardTypes, NetTypes
<1>6. CASE WriteInfo \/ SendInfo
  <2>1. Info \in Value /\ <<Info, Info>> \in Pair
    BY DEF Pair, Value
  <2>2. shared \in Value \X Pair
    BY DEF BoardTypes, Frame
  <2>3. /\ [shared EXCEPT ![1] = Info] = <<Info, shared[2]>>
        /\ [shared EXCEPT ![2] = <<Info, Info>>] = <<shared[1], <<Info, Info>>>>
        /\ shared[1] \in Value /\ shared[2] \in Pair
    BY <2>1, <2>2, PairExcept
  <2>4. [shared EXCEPT ![1] = Info] \in Frame /\ [shared EXCEPT ![2] = <<Info, Info>>] \in Frame
    BY <2>1, <2>3 DEF Frame
  <2> QED
    BY <1>6, <2>4 DEF WriteInfo, SendInfo, mailbox, BoardTypes, NetTypes
<1> QED
  BY <1>1, <1>2, <1>3, <1>4, <1>5, <1>6 DEF NetLoop

LEMMA TypesStep == BoardTypes /\ [BoardNext]_boardVars => BoardTypes'
<1> SUFFICES ASSUME BoardTypes, [BoardNext]_boardVars
             PROVE  BoardTypes'
  OBVIOUS
<1>1. CASE NetStep
  BY <1>1, TypesOfNet DEF NetStep, appVars, queue, isr, appLoop, BoardTypes, NetTypes
<1>2. CASE Signalled
  BY <1>2 DEF Signalled, mailbox, netLoop, queue, appLoop, BoardTypes
<1>3. CASE EnqueueLength
  BY <1>3, FrameExcept
     DEF EnqueueLength, netVars, mailbox, netLoop, queue, appLoop, BoardTypes
<1>4. CASE Enqueue
  <2>1. seen' \in Frame /\ ring' \in [Slot -> Frame]
    BY <1>4, FrameExcept DEF Enqueue, BoardTypes
  <2>3. head' \in Slot
    BY <1>4, NextPlace, BoardAssumption DEF Enqueue, BoardTypes, Slot
  <2> QED
    BY <1>4, <2>1, <2>3, NoFrameIn
       DEF Enqueue, netVars, mailbox, netLoop, appLoop, BoardTypes
<1>5. CASE Dequeue
  <2>1. tail' \in Slot
    BY <1>5, NextPlace, BoardAssumption DEF Dequeue, BoardTypes, Slot
  <2> QED
    BY <1>5, <2>1 DEF Dequeue, netVars, mailbox, netLoop, isr, BoardTypes
<1>6. CASE Wake \/ NothingToSend \/ LoadCount \/ Send
  BY <1>6 DEF Wake, NothingToSend, LoadCount, Send, netVars, mailbox, netLoop, isr, queue, BoardTypes
<1>7. CASE EndTx \/ UNCHANGED boardVars
  BY <1>7 DEF EndTx, boardVars, appVars, netVars, mailbox, netLoop, isr, queue, appLoop, BoardTypes
<1> QED
  BY <1>1, <1>2, <1>3, <1>4, <1>5, <1>6, <1>7 DEF BoardNext, SignalIsr, AppLoop

-----------------------------------------------------------------------------
(* The interrupt of the signal. *)

LEMMA FrameStep ==
    ASSUME BoardTypes, FrameInv, [BoardNext]_boardVars
    PROVE  FrameInv'
<1>1. CASE UNCHANGED <<shared, signal, netStep, isrStep, refused, entry, seen>>
  BY <1>1 DEF FrameInv
<1>2. CASE NetStep
  <2>1. UNCHANGED <<isrStep, refused, entry, seen>>
    BY <1>2 DEF NetStep, appVars, isr
  <2>2. CASE NetInterrupt
    BY <1>1, <2>1, <2>2
       DEF NetInterrupt, PostInfo, PostNode, PostPacket, Post, ReceiveOther, netLoop
  <2>3. CASE TakeEvent \/ CopyType \/ CopyData \/ SkipEvent \/ NoInfo
    BY <2>1, <2>3 DEF TakeEvent, CopyType, CopyData, SkipEvent, NoInfo, FrameInv
  <2>4. CASE WriteLength \/ SendEvent \/ Fault \/ WriteInfo \/ SendInfo
    BY <2>4 DEF WriteLength, SendEvent, Fault, WriteInfo, SendInfo, FrameInv
  <2> QED
    BY <1>2, <2>2, <2>3, <2>4 DEF NetStep, NetLoop
<1>3. CASE Signalled
  BY <1>3 DEF Signalled, FrameInv
<1>4. CASE EnqueueLength
  BY <1>4, FrameExcept DEF EnqueueLength, netVars, netLoop, FrameInv, BoardTypes
<1>5. CASE Enqueue
  <2>1. UNCHANGED <<shared, signal, netStep>> /\ isrStep = "copy" /\ isrStep' = "idle"
        /\ seen' = <<entry[1], shared[2]>> /\ shared = <<shared[1], shared[2]>>
    BY <1>5, FrameExcept DEF Enqueue, netVars, netLoop, BoardTypes
  <2> QED
    BY <2>1 DEF FrameInv
<1>6. CASE AppLoop \/ EndTx \/ UNCHANGED boardVars
  BY <1>1, <1>6 DEF AppLoop, Wake, NothingToSend, Dequeue, LoadCount, Send, EndTx, boardVars, appVars,
                    netVars, netLoop, isr
<1> QED
  BY <1>2, <1>3, <1>4, <1>5, <1>6 DEF BoardNext, SignalIsr

-----------------------------------------------------------------------------
(* The ring. *)

\* Places around the ring.
LEMMA WrapAround ==
    ASSUME NEW x \in Int, 0 <= x, x < 2 * QueueSize
    PROVE  x % QueueSize = IF x < QueueSize THEN x ELSE x - QueueSize
<1>1. CASE x < QueueSize
  BY <1>1, BoardAssumption
<1>2. CASE QueueSize <= x
  <2>1. x = QueueSize * 1 + (x - QueueSize) /\ x - QueueSize \in 0 .. QueueSize - 1
    BY <1>2, BoardAssumption
  <2> QED
    BY <1>2, <2>1, BoardAssumption
<1> QED
  BY <1>1, <1>2, BoardAssumption

\* The place of the k-th waiting frame, and the waiting frames.
Held(k) == (tail + k - 1) % QueueSize
Frames == [k \in 1 .. Waiting |-> ring[Held(k)]]

LEMMA HeldIn ==
    ASSUME tail \in Slot, NEW k \in 1 .. QueueSize
    PROVE  /\ Held(k) = IF tail + k - 1 < QueueSize THEN tail + k - 1 ELSE tail + k - 1 - QueueSize
           /\ Held(k) \in Slot
<1>1. tail + k - 1 \in Int /\ 0 <= tail + k - 1 /\ tail + k - 1 < 2 * QueueSize
  BY BoardAssumption DEF Slot
<1>2. Held(k) = IF tail + k - 1 < QueueSize THEN tail + k - 1 ELSE tail + k - 1 - QueueSize
  BY <1>1, WrapAround, BoardAssumption DEF Held, Slot
<1> QED
  BY <1>1, <1>2, BoardAssumption DEF Slot

LEMMA FramesType ==
    ASSUME BoardTypes, RingInv, ~raced
    PROVE  Waiting \in 0 .. QueueSize /\ Frames \in [1 .. Waiting -> Frame]
<1>1. Waiting \in 0 .. QueueSize
  BY BoardAssumption DEF RingInv, Waiting
<1>2. \A k \in 1 .. Waiting : Held(k) \in Slot
  BY <1>1, HeldIn, BoardAssumption DEF BoardTypes
<1> QED
  BY <1>1, <1>2 DEF Frames, BoardTypes

LEMMA IsAppend ==
    ASSUME NEW S, NEW n \in Nat, NEW f \in [1 .. n -> S], NEW e \in S, NEW g \in [1 .. n + 1 -> S],
           \A k \in 1 .. n : g[k] = f[k], g[n + 1] = e
    PROVE  Len(f) = n /\ g = Append(f, e)
<1>1. f \in Seq(S) /\ Len(f) = n /\ g \in Seq(S) /\ Len(g) = n + 1
  BY SeqDef
<1>2. /\ Append(f, e) \in Seq(S) /\ Len(Append(f, e)) = n + 1
      /\ \A k \in 1 .. n + 1 : Append(f, e)[k] = IF k = n + 1 THEN e ELSE f[k]
  BY <1>1
<1> QED
  BY <1>1, <1>2, SeqEqual

LEMMA IsTail ==
    ASSUME NEW S, NEW n \in Nat, NEW f \in [1 .. n + 1 -> S], NEW g \in [1 .. n -> S],
           \A k \in 1 .. n : g[k] = f[k + 1]
    PROVE  f # <<>> /\ f[1] = Head(f) /\ g = Tail(f)
<1>1. f \in Seq(S) /\ Len(f) = n + 1 /\ g \in Seq(S) /\ Len(g) = n
  BY SeqDef
<1>2. f # <<>>
  BY <1>1, EmptySeq
<1>3. f[1] = Head(f) /\ Tail(f) \in Seq(S) /\ Len(Tail(f)) = n
      /\ \A k \in 1 .. n : Tail(f)[k] = f[k + 1]
  BY <1>1, <1>2, HeadTailProperties
<1> QED
  BY <1>1, <1>2, <1>3, SeqEqual

\* The interrupt appends what it has seen.
LEMMA EnqueueAppends ==
    ASSUME BoardTypes, RingInv, ~raced, Enqueue, BoardTypes'
    PROVE  /\ RingInv'
           /\ Len(Frames) < QueueSize /\ Frames' = Append(Frames, seen') /\ frame' = frame
<1>1. /\ isrStep = "copy" /\ isrStep' = "idle"
      /\ ring' = [ring EXCEPT ![head] = seen'] /\ head' = (head + 1) % QueueSize
      /\ count' = count + 1 /\ UNCHANGED <<tail, appStep, frame, raced>>
  BY DEF Enqueue, appLoop
<1>2. PICK n \in 0 .. QueueSize - 1 : Waiting = n /\ Waiting' = n + 1
  BY <1>1, BoardAssumption DEF RingInv, Waiting
<1>3. head = Held(n + 1)
  BY <1>2, BoardAssumption DEF RingInv, Held, BoardTypes, Slot
<1>4. ASSUME NEW k \in 1 .. n
      PROVE  Held(k) \in Slot /\ Held(k) # head
  BY <1>3, HeldIn, BoardAssumption DEF BoardTypes, Slot
<1>5. \A k : Held(k)' = Held(k)
  BY <1>1 DEF Held
<1>6. Frames \in [1 .. n -> Frame]
  BY <1>2, FramesType
<1>7. Frames' = [k \in 1 .. n + 1 |-> ring'[Held(k)]]
  BY <1>2, <1>5 DEF Frames
<1>8. ASSUME NEW k \in 1 .. n
      PROVE  Frames'[k] = Frames[k]
  <2>1. ring'[Held(k)] = ring[Held(k)]
    BY <1>1, <1>4 DEF BoardTypes
  <2> QED
    BY <1>2, <1>7, <2>1 DEF Frames
<1>9. Frames'[n + 1] = seen'
  BY <1>1, <1>3, <1>7 DEF BoardTypes
<1>10. Frames' \in [1 .. n + 1 -> Frame]
  <2>1. \A k \in 1 .. n + 1 : Frames'[k] \in Frame
    BY <1>6, <1>8, <1>9 DEF BoardTypes
  <2> QED
    BY <1>7, <2>1
<1>11. Len(Frames) = n /\ Frames' = Append(Frames, seen')
  BY <1>6, <1>8, <1>9, <1>10, IsAppend DEF BoardTypes
<1>12. head' = (tail' + Waiting') % QueueSize
  <2>1. head = IF tail + n < QueueSize THEN tail + n ELSE tail + n - QueueSize
    BY <1>3, HeldIn, BoardAssumption DEF BoardTypes, Slot
  <2>2. head' = IF head = QueueSize - 1 THEN 0 ELSE head + 1
    BY <1>1, NextPlace DEF BoardTypes
  <2> tail \in 0 .. QueueSize - 1
    BY DEF BoardTypes, Slot
  <2>3. tail + n + 1 \in Int /\ 0 <= tail + n + 1 /\ tail + n + 1 < 2 * QueueSize
    BY BoardAssumption
  <2>4. (tail + n + 1) % QueueSize = IF tail + n + 1 < QueueSize THEN tail + n + 1
                                     ELSE tail + n + 1 - QueueSize
    BY <2>3, WrapAround, BoardAssumption
  <2>5. (tail' + Waiting') % QueueSize = (tail + n + 1) % QueueSize
    BY <1>1, <1>2, <2>3 DEF BoardTypes, Slot
  <2> QED
    BY <2>1, <2>2, <2>3, <2>4, <2>5, BoardAssumption DEF BoardTypes, Slot
<1>13. RingInv'
  BY <1>1, <1>12, BoardAssumption DEF RingInv
<1> QED
  BY <1>1, <1>2, <1>11, <1>13, BoardAssumption

\* The main loop takes the first frame.
LEMMA DequeueTakes ==
    ASSUME BoardTypes, RingInv, ~raced, Dequeue
    PROVE  /\ RingInv'
           /\ Frames # <<>> /\ frame' = Head(Frames) /\ Frames' = Tail(Frames)
<1>1. /\ appStep = "look" /\ appStep' = "load" /\ isrStep = "idle"
      /\ frame' = ring[tail] /\ tail' = (tail + 1) % QueueSize
      /\ count > 0 /\ UNCHANGED <<ring, head, count, isrStep, raced>>
  BY DEF Dequeue, isr
<1>2. PICK n \in 0 .. QueueSize - 1 : Waiting = n + 1 /\ Waiting' = n /\ count = n + 1
  BY <1>1, BoardAssumption DEF RingInv, Waiting
<1>3. tail' = IF tail = QueueSize - 1 THEN 0 ELSE tail + 1
  BY <1>1, NextPlace DEF BoardTypes
<1>4. tail \in 0 .. QueueSize - 1
  BY DEF BoardTypes, Slot
<1>5. PICK t \in 0 .. QueueSize - 1 : tail' = t
  BY <1>3, <1>4, BoardAssumption
<1>6. Held(1) = tail
  <2>1. 1 \in 1 .. QueueSize
    BY BoardAssumption
  <2> QED
    BY <1>4, <2>1, HeldIn, BoardAssumption DEF Slot
<1>7. ASSUME NEW k \in 1 .. n
      PROVE  Held(k)' = Held(k + 1) /\ k + 1 \in 1 .. n + 1
  <2>1. k \in Nat /\ 1 <= k /\ k + 1 <= QueueSize
    BY BoardAssumption
  <2>2. Held(k + 1) = IF tail + k < QueueSize THEN tail + k ELSE tail + k - QueueSize
    BY <1>4, <2>1, HeldIn, BoardAssumption DEF Slot
  <2>3. t + k - 1 \in Int /\ 0 <= t + k - 1 /\ t + k - 1 < 2 * QueueSize
    BY <2>1, BoardAssumption
  <2>4. (t + k - 1) % QueueSize = IF t + k - 1 < QueueSize THEN t + k - 1 ELSE t + k - 1 - QueueSize
    BY <2>1, <2>3, WrapAround, BoardAssumption
  <2>5. Held(k)' = (t + k - 1) % QueueSize
    BY <1>5 DEF Held
  <2> QED
    BY <1>3, <1>4, <1>5, <2>5, <2>1, <2>2, <2>4, BoardAssumption
<1>8. Frames \in [1 .. n + 1 -> Frame]
  BY <1>2, FramesType
<1>9. Frames' = [k \in 1 .. n |-> ring[Held(k + 1)]]
  BY <1>1, <1>2, <1>7 DEF Frames
<1>10. Frames' = [k \in 1 .. n |-> Frames[k + 1]]
  BY <1>2, <1>7, <1>9 DEF Frames
<1>11. Frames' \in [1 .. n -> Frame] /\ \A k \in 1 .. n : Frames'[k] = Frames[k + 1]
  BY <1>7, <1>8, <1>10
<1>12. Frames[1] = frame'
  <2>1. 1 \in 1 .. n + 1
    OBVIOUS
  <2> QED
    BY <1>1, <1>2, <1>6, <2>1 DEF Frames
<1>13. Frames # <<>> /\ frame' = Head(Frames) /\ Frames' = Tail(Frames)
  BY <1>8, <1>11, <1>12, IsTail
<1>14. head' = (tail' + Waiting') % QueueSize
  <2>1. head = (tail + n + 1) % QueueSize
    BY <1>2, <1>4 DEF RingInv
  <2>2. tail + n + 1 \in Int /\ 0 <= tail + n + 1 /\ tail + n + 1 < 2 * QueueSize
        /\ t + n \in Int /\ 0 <= t + n /\ t + n < 2 * QueueSize
    BY <1>4, BoardAssumption
  <2>3. (tail + n + 1) % QueueSize = IF tail + n + 1 < QueueSize THEN tail + n + 1
                                     ELSE tail + n + 1 - QueueSize
    BY <1>4, <2>2, WrapAround, BoardAssumption
  <2>4. (t + n) % QueueSize = IF t + n < QueueSize THEN t + n ELSE t + n - QueueSize
    BY <1>4, <2>2, WrapAround, BoardAssumption
  <2> QED
    BY <1>1, <1>2, <1>3, <1>4, <1>5, <2>1, <2>3, <2>4, BoardAssumption
<1> QED
  BY <1>1, <1>2, <1>13, <1>14, BoardAssumption DEF RingInv

\* Everything else leaves the waiting frames where they are.
LEMMA OthersKeep ==
    ASSUME BoardTypes, RingInv, ~raced',
           NetStep \/ Signalled \/ EnqueueLength \/ Wake \/ NothingToSend \/ LoadCount \/ Send
             \/ EndTx \/ UNCHANGED boardVars
    PROVE  ~raced /\ RingInv' /\ Frames' = Frames /\ frame' = frame
<1>1. UNCHANGED <<ring, head, tail, frame>> /\ ~raced
  <2>1. CASE NetStep \/ EndTx \/ UNCHANGED boardVars
    BY <2>1 DEF NetStep, EndTx, boardVars, appVars, queue, appLoop
  <2>2. CASE Signalled \/ EnqueueLength
    BY <2>2 DEF Signalled, EnqueueLength, queue, appLoop
  <2>3. CASE Wake \/ NothingToSend \/ LoadCount
    BY <2>3 DEF Wake, NothingToSend, LoadCount, queue
  <2>4. CASE Send
    BY <2>4 DEF Send
  <2> QED
    BY <2>1, <2>2, <2>3, <2>4
<1>2. UNCHANGED <<ring, tail>> /\ Waiting' = Waiting => Frames' = Frames
  BY DEF Frames, Held
<1>3. CASE Send
  <2>1. /\ appStep = "store" /\ isrStep = "idle" /\ appStep' = "wait" /\ isrStep' = "idle"
        /\ count' = count - 1 /\ count > 0 /\ count \in 0 .. QueueSize
    BY <1>1, <1>3 DEF Send, isr, RingInv
  <2>2. Waiting = count - 1 /\ Waiting' = count - 1
    BY <2>1 DEF Waiting
  <2>3. count' \in 0 .. QueueSize
    BY <2>1, BoardAssumption
  <2> QED
    BY <1>1, <1>2, <2>1, <2>2, <2>3 DEF RingInv
<1>4. CASE ~Send
  <2>1. count' = count
    BY <1>4 DEF NetStep, Signalled, EnqueueLength, Wake, NothingToSend, LoadCount, EndTx,
                boardVars, appVars, queue
  <2>2. /\ isrStep' \in {"length", "copy"} => isrStep \in {"length", "copy"} \/ ~Full
        /\ appStep' \in {"load", "store"} <=> appStep \in {"load", "store"}
    BY <1>4 DEF NetStep, Signalled, EnqueueLength, Wake, NothingToSend, LoadCount, EndTx,
                boardVars, appVars, isr, appLoop
  <2>3. ~Full /\ count \in 0 .. QueueSize => count < QueueSize
    BY BoardAssumption DEF Full
  <2>4. Waiting' = Waiting
    BY <2>1, <2>2 DEF Waiting
  <2> QED
    BY <1>1, <1>2, <2>1, <2>2, <2>3, <2>4 DEF RingInv
<1> QED
  BY <1>1, <1>3, <1>4

LEMMA RingStep ==
    ASSUME BoardTypes, BoardTypes', RingInv, [BoardNext]_boardVars
    PROVE  /\ RingInv'
           /\ [raced' \/ Fifo!Dequeue \/ Fifo!Enqueue(seen')]_(Fifo!fifoVars)
<1>1. CASE raced'
  BY <1>1 DEF RingInv
<1>2. CASE ~raced' /\ Enqueue
  <2>1. /\ RingInv' /\ Len(Frames) < QueueSize /\ Frames' = Append(Frames, seen') /\ frame' = frame
    BY <1>2, EnqueueAppends DEF Enqueue, appLoop
  <2> QED
    BY <2>1 DEF Fifo!Enqueue, Frames, Held
<1>3. CASE ~raced' /\ Dequeue
  <2>1. RingInv' /\ Frames # <<>> /\ frame' = Head(Frames) /\ Frames' = Tail(Frames)
    BY <1>3, DequeueTakes DEF Dequeue
  <2> QED
    BY <2>1 DEF Fifo!Dequeue, Frames, Held
<1>4. CASE ~raced' /\ ~Enqueue /\ ~Dequeue
  <2>1. RingInv' /\ Frames' = Frames /\ frame' = frame
    BY <1>4, OthersKeep DEF BoardNext, SignalIsr, AppLoop
  <2> QED
    BY <2>1 DEF Fifo!fifoVars, Frames, Held
<1> QED
  BY <1>1, <1>2, <1>3, <1>4

LEMMA RingStart == BoardInit => BoardTypes /\ RingInv /\ Fifo!FifoInit
<1> SUFFICES ASSUME BoardInit PROVE BoardTypes /\ RingInv /\ Fifo!FifoInit
  OBVIOUS
<1>1. Nothing \in Value /\ 0 \in Slot
  BY BoardAssumption DEF Value, Slot
<1>2. BoardTypes
  BY <1>1, NoFrameIn DEF BoardInit, NetInit, BoardTypes
<1>3. Waiting = 0
  BY DEF BoardInit, Waiting
<1>4. RingInv
  BY <1>3, BoardAssumption DEF BoardInit, RingInv
<1>5. Frames = <<>>
  BY <1>2, <1>3, <1>4, FramesType, SeqDef, EmptySeq DEF BoardInit
<1> QED
  BY <1>2, <1>4, <1>5 DEF BoardInit, Fifo!FifoInit, Frames, Held

-----------------------------------------------------------------------------
(* What the board promises. *)

\* An event of the MAC may be lost to the next one, or forwarded torn; but whatever interrupts the main
\* loop of the network core, and wherever, the last one is forwarded, whole; a packet, of which the event has
\* only the length and the place, perhaps with the bytes of a frame received there since
\* (03app_gateway_net/main.c, mari.c, mac.c).
THEOREM BoardForwardsLast == BoardSpec => []LastEventForwarded
<1>1. BoardInit => BoardTypes /\ EventInv /\ ReceivedInv
  <2> SUFFICES ASSUME BoardInit PROVE BoardTypes /\ EventInv /\ ReceivedInv
    OBVIOUS
  <2>1. event = <<Nothing, Nothing>> /\ handled = <<Nothing, <<Nothing, Nothing>>>>
    BY DEF BoardInit, NetInit, Empty, NoFrame
  <2>2. Nothing \notin Node => Length(event) = Nothing
    BY <2>1 DEF Length
  <2> QED
    BY <2>1, <2>2, RingStart, NetAssumption DEF BoardInit, NetInit, EventInv, Forwarded, ReceivedInv, Pending
<1>2. BoardTypes /\ EventInv /\ ReceivedInv /\ [BoardNext]_boardVars
        => (BoardTypes /\ EventInv /\ ReceivedInv)'
  <2>1. ASSUME [BoardNext]_boardVars
        PROVE  NetInterrupt \/ NetLoop \/ UNCHANGED netVars \/ Signalled
    BY <2>1 DEF BoardNext, NetStep, SignalIsr, AppLoop, EnqueueLength, Enqueue, Wake, NothingToSend,
                Dequeue, LoadCount, Send, EndTx, boardVars
  <2>2. EventInv /\ ReceivedInv /\ Signalled => (EventInv /\ ReceivedInv)'
    BY DEF Signalled, mailbox, netLoop, EventInv, ReceivedInv, Pending, Forwarded, Length
  <2> QED
    BY <2>1, <2>2, TypesStep, EventStep
<1>3. BoardTypes /\ EventInv => LastEventForwarded
  <2> SUFFICES ASSUME BoardTypes, EventInv, netStep = "idle", ~eventReady
               PROVE  \/ handled = <<Length(event), event>>
                      \/ /\ overwritten /\ event[1] = NewPacket
                         /\ handled[1] = Length(event) /\ handled[2][1] = NewPacket
    BY DEF LastEventForwarded
  <2>1. Forwarded
    BY DEF EventInv
  <2>2. handled = <<handled[1], handled[2]>> /\ handled[2] \in Pair
    BY PairExcept DEF BoardTypes, Frame
  <2>3. handled[2] = <<handled[2][1], handled[2][2]>> /\ event = <<event[1], event[2]>>
    BY <2>2, PairExcept DEF BoardTypes, Pair
  <2> QED
    BY <2>1, <2>2, <2>3 DEF Forwarded
<1> QED
  BY <1>1, <1>2, <1>3, PTL DEF BoardSpec

\* The application core may copy a frame that is being written, and may miss one; but the last one gets
\* into the ring whole, unless the ring is full (main.c of both cores).
THEOREM BoardEnqueuesLast == BoardSpec => []LastFrameEnqueued
<1>1. BoardInit => BoardTypes /\ FrameInv
  BY RingStart DEF BoardInit, NetInit, FrameInv
<1>2. BoardTypes /\ FrameInv /\ [BoardNext]_boardVars => (BoardTypes /\ FrameInv)'
  BY TypesStep, FrameStep
<1>3. FrameInv => LastFrameEnqueued
  BY DEF FrameInv, LastFrameEnqueued
<1> QED
  BY <1>1, <1>2, <1>3, PTL DEF BoardSpec

\* A ring of any size between the interrupt of the signal and the main loop is a FIFO that refuses what
\* it has no room for, until the interrupt comes between the load and the store of the main loop's
\* decrement of tx_queue_count (03app_gateway_app/main.c).
THEOREM BoardRingIsFifo == BoardSpec => FifoUnlessRaced
<1>1. BoardInit => BoardTypes /\ RingInv
  BY RingStart
<1>2. BoardTypes /\ RingInv /\ [BoardNext]_boardVars => (BoardTypes /\ RingInv)'
  BY TypesStep, RingStep
<1>3. BoardTypes /\ BoardTypes' /\ RingInv /\ [BoardNext]_boardVars
        => [raced' \/ Fifo!Dequeue \/ Fifo!Enqueue(seen')]_(Fifo!fifoVars)
  BY RingStep
<1>4. BoardInit => Fifo!FifoInit
  BY RingStart
<1> QED
  BY <1>1, <1>2, <1>3, <1>4, PTL DEF BoardSpec, FifoUnlessRaced

-----------------------------------------------------------------------------
(* Induction. *)

Less == {ss \in Nat \X Nat : ss[1] < ss[2]}

\* A set of natural numbers has a least element: what induction is made of below.
LEMMA Least ==
    ASSUME NEW S \in SUBSET Nat, S # {}
    PROVE  \E n \in S : \A m \in S : n <= m
<1>1. IsWellFoundedOn(Less, Nat)
  BY NatLessThanWellFounded DEF OpToRel, Less
<1>2. \E x \in S : \A y \in S : ~ (<<y, x>> \in Less)
  BY <1>1, WFMin
<1>3. PICK x \in S : \A y \in S : ~ (<<y, x>> \in Less)
  BY <1>2
<1>4. \A y \in S : ~(y < x)
  BY <1>3 DEF Less
<1> QED
  BY <1>4

-----------------------------------------------------------------------------
(* The recursive functions of the encoder. *)

\* The sums of FlattenSeq.
Sums(s, f) ==
    f = [i \in 1 .. Len(s) |-> IF i = 1 THEN s[i] ELSE f[i - 1] \o s[i]]

LEMMA SumsExist ==
    ASSUME NEW T
    PROVE  \A n \in Nat : \A s \in [1 .. n -> Seq(T)] : \E f \in [1 .. n -> Seq(T)] : Sums(s, f)
<1> DEFINE Bad == {n \in Nat : ~ \A s \in [1 .. n -> Seq(T)] : \E f \in [1 .. n -> Seq(T)] : Sums(s, f)}
<1> SUFFICES ASSUME Bad # {}
             PROVE  FALSE
  OBVIOUS
<1>1. PICK n \in Bad : \A m \in Bad : n <= m
  <2> HIDE DEF Bad
  <2>1. Bad \in SUBSET Nat
    BY DEF Bad
  <2> QED
    BY <2>1, Least
<1>2. PICK s \in [1 .. n -> Seq(T)] : ~ \E f \in [1 .. n -> Seq(T)] : Sums(s, f)
  OBVIOUS
<1>3. Len(s) = n
  BY LenProperties
<1>4. n # 0
  <2> SUFFICES ASSUME n = 0 PROVE FALSE
    OBVIOUS
  <2>1. Sums(s, s)
    BY <1>3 DEF Sums
  <2> QED
    BY <2>1, <1>2
<1> DEFINE r == [i \in 1 .. n - 1 |-> s[i]]
<1>5. r \in [1 .. n - 1 -> Seq(T)] /\ n - 1 \in Nat
  BY <1>4
<1>14. n - 1 \notin Bad
  <2>1. ~ n <= n - 1
    OBVIOUS
  <2> HIDE DEF Bad
  <2> QED
    BY <1>1, <2>1
<1>6. PICK f \in [1 .. n - 1 -> Seq(T)] : Sums(r, f)
  BY <1>5, <1>14
<1>7. Len(r) = n - 1
  BY <1>5
<1> DEFINE g == [i \in 1 .. n |-> IF i < n THEN f[i] ELSE IF n = 1 THEN s[n] ELSE f[n - 1] \o s[n]]
<1>8. g \in [1 .. n -> Seq(T)]
  BY <1>4, <1>6
<1>9. ASSUME NEW i \in 1 .. n
      PROVE  g[i] = IF i = 1 THEN s[i] ELSE g[i - 1] \o s[i]
  <2>1. CASE i = n
    BY <2>1
  <2>2. CASE i < n
    <3>1. f[i] = IF i = 1 THEN r[i] ELSE f[i - 1] \o r[i]
      <4> HIDE DEF r
      <4>1. i \in 1 .. Len(r)
        BY <1>5, <1>7, <2>2
      <4>2. f = [j \in 1 .. Len(r) |-> IF j = 1 THEN r[j] ELSE f[j - 1] \o r[j]]
        BY <1>6 DEF Sums
      <4> QED
        BY <4>1, <4>2
    <3> QED
      BY <3>1, <2>2
  <2> QED
    BY <2>1, <2>2
<1>10. Sums(s, g)
  <2> HIDE DEF g
  <2>1. g = [i \in 1 .. n |-> g[i]]
    BY <1>8
  <2> QED
    BY <2>1, <1>3, <1>9 DEF Sums
<1> QED
  BY <1>2, <1>8, <1>10

Extends(t, s) ==
    Len(s) \in Nat /\ Len(t) \in Nat /\ Len(s) <= Len(t) /\ \A i \in 1 .. Len(s) : s[i] = t[i]

\* The sums of a sequence and of an extension of it agree.
LEMMA SumsStep ==
    ASSUME NEW s, NEW f, Sums(s, f), NEW i \in 1 .. Len(s)
    PROVE  f[i] = IF i = 1 THEN s[i] ELSE f[i - 1] \o s[i]
<1>1. f = [j \in 1 .. Len(s) |-> IF j = 1 THEN s[j] ELSE f[j - 1] \o s[j]]
  BY DEF Sums
<1> QED
  BY <1>1

LEMMA SumsAgree ==
    ASSUME NEW s, NEW f, NEW t, NEW g, Sums(s, f), Sums(t, g), Extends(t, s)
    PROVE  \A i \in 1 .. Len(s) : f[i] = g[i]
<1> USE DEF Extends
<1> DEFINE Bad == {i \in 1 .. Len(s) : f[i] # g[i]}
<1> SUFFICES ASSUME Bad # {}
             PROVE  FALSE
  OBVIOUS
<1>1. PICK i \in Bad : \A j \in Bad : i <= j
  <2> HIDE DEF Bad
  <2>1. Bad \in SUBSET Nat
    BY DEF Bad
  <2> QED
    BY <2>1, Least
<1>2. f[i] = (IF i = 1 THEN s[i] ELSE f[i - 1] \o s[i])
  <2>1. i \in 1 .. Len(s)
    OBVIOUS
  <2> QED
    BY <2>1, SumsStep
<1>3. g[i] = (IF i = 1 THEN t[i] ELSE g[i - 1] \o t[i])
  <2>1. i \in 1 .. Len(t)
    OBVIOUS
  <2> QED
    BY <2>1, SumsStep
<1>4. i # 1 => f[i - 1] = g[i - 1]
  <2> SUFFICES ASSUME i # 1 PROVE f[i - 1] = g[i - 1]
    OBVIOUS
  <2>1. i - 1 \in 1 .. Len(s) /\ ~(i <= i - 1)
    OBVIOUS
  <2>2. i - 1 \notin Bad
    BY <2>1, <1>1
  <2> QED
    BY <2>1, <2>2
<1> QED
  BY <1>2, <1>3, <1>4

\* FlattenSeq is the last sum.
LEMMA FlattenIsSum ==
    ASSUME NEW T, NEW s \in Seq(Seq(T)), s # <<>>
    PROVE  \E f \in [1 .. Len(s) -> Seq(T)] : Sums(s, f) /\ FlattenSeq(s) = f[Len(s)]
<1>1. Len(s) \in Nat \ {0} /\ s \in [1 .. Len(s) -> Seq(T)]
  BY EmptySeq, LenProperties
<1>2. \E f \in [1 .. Len(s) -> Seq(T)] : Sums(s, f)
  BY <1>1, SumsExist
<1> DEFINE F == CHOOSE f : f = [i \in 1 .. Len(s) |-> IF i = 1 THEN s[i] ELSE f[i - 1] \o s[i]]
<1>3. FlattenSeq(s) = F[Len(s)]
  BY <1>1 DEF FlattenSeq
<1>4. Sums(s, F)
  BY <1>2, Zenon DEF Sums
<1>5. PICK f \in [1 .. Len(s) -> Seq(T)] : Sums(s, f)
  BY <1>2
<1> HIDE DEF F
<1>6. \A i \in 1 .. Len(s) : f[i] = F[i]
  <2>1. Extends(s, s)
    BY <1>1 DEF Extends
  <2>2. \A h, k : Sums(s, h) /\ Sums(s, k) => \A i \in 1 .. Len(s) : h[i] = k[i]
    BY <2>1, SumsAgree
  <2> QED
    BY <1>4, <1>5, <2>2
<1>7. f[Len(s)] = F[Len(s)]
  BY <1>1, <1>6
<1> QED
  BY <1>3, <1>5, <1>7

\* FlattenSeq, one sequence more.
LEMMA FlattenAppend ==
    ASSUME NEW T, NEW s \in Seq(Seq(T)), NEW x \in Seq(T)
    PROVE  /\ FlattenSeq(s) \in Seq(T)
           /\ FlattenSeq(Append(s, x)) = FlattenSeq(s) \o x
<1>0. PICK t : t = Append(s, x)
  OBVIOUS
<1>1. t \in Seq(Seq(T)) /\ t # <<>> /\ Len(t) = Len(s) + 1 /\ t[Len(t)] = x
      /\ \A i \in 1 .. Len(s) : t[i] = s[i]
  BY <1>0, AppendProperties
<1>2. PICK g : g \in [1 .. Len(t) -> Seq(T)] /\ Sums(t, g) /\ FlattenSeq(t) = g[Len(t)]
  BY <1>1, FlattenIsSum
<1>3. CASE s = <<>>
  <2>1. Len(s) = 0 /\ Len(t) = 1 /\ FlattenSeq(s) = <<>>
    BY <1>1, <1>3 DEF FlattenSeq
  <2>2. g[1] = t[1]
    BY <1>2, <2>1 DEF Sums
  <2> QED
    BY <1>1, <1>2, <2>1, <2>2, <1>0
<1>4. CASE s # <<>>
  <2>1. PICK f : f \in [1 .. Len(s) -> Seq(T)] /\ Sums(s, f) /\ FlattenSeq(s) = f[Len(s)]
    BY <1>4, FlattenIsSum
  <2>2. Len(s) \in Nat \ {0}
    BY <1>4, EmptySeq
  <2>3. \A i \in 1 .. Len(s) : f[i] = g[i]
    <3>1. Extends(t, s)
      BY <1>1, <2>2 DEF Extends
    <3>3. Sums(s, f) /\ Sums(t, g)
      BY <1>2, <2>1
    <3> QED
      BY <3>1, <3>3, SumsAgree
  <2>4. Len(t) \in 1 .. Len(t) /\ Len(t) # 1 /\ Len(t) - 1 = Len(s)
    BY <1>1, <2>2
  <2>5. g[Len(t)] = g[Len(s)] \o t[Len(t)]
    <3>1. Sums(t, g)
      BY <1>2
    <3>2. g[Len(t)] = IF Len(t) = 1 THEN t[Len(t)] ELSE g[Len(t) - 1] \o t[Len(t)]
      BY <2>4, <3>1, SumsStep
    <3> QED
      BY <2>4, <3>2
  <2>6. f[Len(s)] = g[Len(s)]
    BY <2>2, <2>3
  <2>7. FlattenSeq(s) \in Seq(T)
    <3>1. Len(s) \in 1 .. Len(s)
      BY <2>2
    <3> QED
      BY <2>1, <3>1
  <2>8. FlattenSeq(t) = FlattenSeq(s) \o x
    BY <1>1, <1>2, <2>1, <2>5, <2>6
  <2> QED
    BY <2>7, <2>8, <1>0
<1> QED
  BY <1>3, <1>4

-----------------------------------------------------------------------------
(* The checksum. *)

\* The values of the checksum on the way through a sequence.
Codes(s, f) ==
    f = [i \in 0 .. Len(s) |-> IF i = 0 THEN FcsInit ELSE UpdateFcs(f[i - 1], s[i])]

LEMMA CodesStep ==
    ASSUME NEW s, NEW f, Codes(s, f), NEW i \in 0 .. Len(s)
    PROVE  f[i] = IF i = 0 THEN FcsInit ELSE UpdateFcs(f[i - 1], s[i])
<1>1. f = [j \in 0 .. Len(s) |-> IF j = 0 THEN FcsInit ELSE UpdateFcs(f[j - 1], s[j])]
  BY DEF Codes
<1> QED
  BY <1>1

LEMMA CodesExist ==
    ASSUME NEW T
    PROVE  \A n \in Nat : \A s \in [1 .. n -> T] : \E f : Codes(s, f)
<1> DEFINE Bad == {n \in Nat : ~ \A s \in [1 .. n -> T] : \E f : Codes(s, f)}
<1> SUFFICES ASSUME Bad # {}
             PROVE  FALSE
  OBVIOUS
<1>1. PICK n \in Bad : \A m \in Bad : n <= m
  <2> HIDE DEF Bad
  <2>1. Bad \in SUBSET Nat
    BY DEF Bad
  <2> QED
    BY <2>1, Least
<1>2. PICK s \in [1 .. n -> T] : ~ \E f : Codes(s, f)
  OBVIOUS
<1>3. Len(s) = n
  BY LenProperties
<1>4. n # 0
  <2> SUFFICES ASSUME n = 0 PROVE FALSE
    OBVIOUS
  <2> DEFINE f == [i \in 0 .. 0 |-> FcsInit]
  <2>1. Codes(s, f)
    BY <1>3 DEF Codes
  <2> QED
    BY <2>1, <1>2
<1> DEFINE r == [i \in 1 .. n - 1 |-> s[i]]
<1>5. r \in [1 .. n - 1 -> T] /\ n - 1 \in Nat
  BY <1>4
<1>6. n - 1 \notin Bad
  <2>1. ~ n <= n - 1
    OBVIOUS
  <2> HIDE DEF Bad
  <2> QED
    BY <1>1, <2>1
<1>7. PICK f : Codes(r, f)
  BY <1>5, <1>6
<1>8. Len(r) = n - 1
  BY <1>5
<1> DEFINE g == [i \in 0 .. n |-> IF i < n THEN f[i] ELSE UpdateFcs(f[n - 1], s[n])]
<1>9. ASSUME NEW i \in 0 .. n
      PROVE  g[i] = IF i = 0 THEN FcsInit ELSE UpdateFcs(g[i - 1], s[i])
  <2>1. CASE i = n
    BY <2>1, <1>4
  <2>2. CASE i < n
    <3>1. f[i] = IF i = 0 THEN FcsInit ELSE UpdateFcs(f[i - 1], r[i])
      <4> HIDE DEF r
      <4>1. i \in 0 .. Len(r)
        BY <1>5, <1>8, <2>2
      <4> QED
        BY <4>1, <1>7, CodesStep
    <3> QED
      BY <3>1, <2>2
  <2> QED
    BY <2>1, <2>2
<1>10. Codes(s, g)
  <2> DEFINE h == [i \in 0 .. n |-> IF i = 0 THEN FcsInit ELSE UpdateFcs(g[i - 1], s[i])]
  <2>1. \A i \in 0 .. n : h[i] = g[i]
    BY <1>9
  <2>2. g = [i \in 0 .. n |-> g[i]] /\ h = [i \in 0 .. n |-> h[i]]
    OBVIOUS
  <2>3. g = h
    <3> HIDE DEF g, h
    <3>1. [i \in 0 .. n |-> g[i]] = [i \in 0 .. n |-> h[i]]
      BY <2>1
    <3> QED
      BY <2>2, <3>1
  <2> HIDE DEF g
  <2> QED
    BY <1>3, <2>3 DEF Codes
<1> QED
  BY <1>2, <1>10

LEMMA CodesAgree ==
    ASSUME NEW s, NEW f, NEW t, NEW g, Codes(s, f), Codes(t, g), Extends(t, s)
    PROVE  \A i \in 0 .. Len(s) : f[i] = g[i]
<1> USE DEF Extends
<1> DEFINE Bad == {i \in 0 .. Len(s) : f[i] # g[i]}
<1> SUFFICES ASSUME Bad # {}
             PROVE  FALSE
  OBVIOUS
<1>1. PICK i \in Bad : \A j \in Bad : i <= j
  <2> HIDE DEF Bad
  <2>1. Bad \in SUBSET Nat
    BY DEF Bad
  <2> QED
    BY <2>1, Least
<1>2. f[i] = (IF i = 0 THEN FcsInit ELSE UpdateFcs(f[i - 1], s[i]))
  BY CodesStep
<1>3. g[i] = (IF i = 0 THEN FcsInit ELSE UpdateFcs(g[i - 1], t[i]))
  <2>1. i \in 0 .. Len(t)
    OBVIOUS
  <2> QED
    BY <2>1, CodesStep
<1>4. i # 0 => f[i - 1] = g[i - 1] /\ s[i] = t[i]
  <2> SUFFICES ASSUME i # 0 PROVE f[i - 1] = g[i - 1] /\ s[i] = t[i]
    OBVIOUS
  <2>1. i - 1 \in 0 .. Len(s) /\ i \in 1 .. Len(s) /\ ~(i <= i - 1)
    OBVIOUS
  <2>2. i - 1 \notin Bad
    BY <2>1, <1>1
  <2> QED
    BY <2>1, <2>2
<1> QED
  BY <1>2, <1>3, <1>4

LEMMA FcsIsCode ==
    ASSUME NEW T, NEW s \in Seq(T)
    PROVE  \E f : Codes(s, f) /\ Fcs(s) = f[Len(s)]
<1>1. Len(s) \in Nat /\ s \in [1 .. Len(s) -> T]
  BY LenProperties
<1> DEFINE F == CHOOSE f : f = [i \in 0 .. Len(s) |-> IF i = 0 THEN FcsInit ELSE UpdateFcs(f[i - 1], s[i])]
<1>2. Fcs(s) = F[Len(s)]
  BY DEF Fcs
<1>3. \E f : Codes(s, f)
  BY <1>1, CodesExist
<1>4. Codes(s, F)
  <2>1. \E f : f = [i \in 0 .. Len(s) |-> IF i = 0 THEN FcsInit ELSE UpdateFcs(f[i - 1], s[i])]
    BY <1>3, Zenon DEF Codes
  <2>2. F = [i \in 0 .. Len(s) |-> IF i = 0 THEN FcsInit ELSE UpdateFcs(F[i - 1], s[i])]
    BY <2>1, Zenon
  <2> QED
    BY <2>2, Zenon DEF Codes
<1> HIDE DEF F
<1> QED
  BY <1>2, <1>4

\* The checksum of one byte more.
LEMMA FcsAppend ==
    ASSUME NEW T, NEW s \in Seq(T), NEW b \in T
    PROVE  Fcs(Append(s, b)) = UpdateFcs(Fcs(s), b)
<1>0. PICK t : t = Append(s, b)
  OBVIOUS
<1>1. t \in Seq(T) /\ Len(s) \in Nat /\ Len(t) = Len(s) + 1 /\ t[Len(t)] = b
      /\ \A i \in 1 .. Len(s) : t[i] = s[i]
  BY <1>0, AppendProperties, LenProperties
<1>2. PICK f : Codes(s, f) /\ Fcs(s) = f[Len(s)]
  BY FcsIsCode
<1>3. PICK g : Codes(t, g) /\ Fcs(t) = g[Len(t)]
  BY <1>1, FcsIsCode
<1>4. Extends(t, s)
  BY <1>1 DEF Extends
<1>5. \A i \in 0 .. Len(s) : f[i] = g[i]
  BY <1>2, <1>3, <1>4, CodesAgree
<1>6. Len(s) \in 0 .. Len(s) /\ Len(t) \in 0 .. Len(t) /\ Len(t) # 0 /\ Len(t) - 1 = Len(s)
  BY <1>1
<1>7. g[Len(t)] = IF Len(t) = 0 THEN FcsInit ELSE UpdateFcs(g[Len(t) - 1], t[Len(t)])
  BY <1>3, <1>6, CodesStep
<1>8. f[Len(s)] = g[Len(s)]
  BY <1>5, <1>6
<1> QED
  BY <1>0, <1>1, <1>2, <1>3, <1>6, <1>7, <1>8


LEMMA ComplementBytes ==
    ASSUME NEW fcs \in UInt16
    PROVE  (65535 - fcs) % 256 \in Byte /\ (65535 - fcs) \div 256 \in Byte
<1>1. PICK hi \in Byte, lo \in Byte : fcs = 256 * hi + lo
  BY DEF UInt16
<1>2. /\ hi \in Int /\ 0 <= hi /\ hi <= 255
      /\ lo \in Int /\ 0 <= lo /\ lo <= 255
  BY DEF Byte
<1>3. 65535 - fcs = 256 * (255 - hi) + (255 - lo)
  BY <1>1, <1>2
<1>4. 255 - hi \in Byte /\ 255 - lo \in Byte
  BY <1>2 DEF Byte
<1>5. \A h, l \in Byte : (256 * h + l) % 256 = l /\ (256 * h + l) \div 256 = h
  BY DEF Byte
<1> QED
  BY <1>3, <1>4, <1>5

\* Every payload and its checksum pass the receiver's test.
LEMMA FrameFcsOk ==
    ASSUME NEW p \in Seq(Byte), Fcs(p) \in UInt16
    PROVE  /\ WithFcs(p) \in Seq(Byte)
           /\ Len(WithFcs(p)) = Len(p) + 2
           /\ SubSeq(WithFcs(p), 1, Len(p)) = p
           /\ FcsOk(WithFcs(p))
<1>1. PICK fcs \in UInt16 : fcs = Fcs(p)
  OBVIOUS
<1>2. PICK lo : lo = (65535 - fcs) % 256
  OBVIOUS
<1>3. PICK hi : hi = (65535 - fcs) \div 256
  OBVIOUS
<1>4. lo \in Byte /\ hi \in Byte
  BY <1>2, <1>3, ComplementBytes, SMT
<1>5. WithFcs(p) = p \o <<lo, hi>>
  BY <1>1, <1>2, <1>3, SMT DEF WithFcs
<1>6. UpdateFcs(UpdateFcs(fcs, lo), hi) = 61624
  BY <1>2, <1>3, HdlcAssumption, SMT
<1>7. p \o <<lo, hi>> = Append(Append(p, lo), hi) /\ Append(p, lo) \in Seq(Byte)
  BY <1>4, SMT
<1>8. Fcs(WithFcs(p)) = UpdateFcs(UpdateFcs(fcs, lo), hi)
  <2>1. Fcs(Append(p, lo)) = UpdateFcs(Fcs(p), lo)
    BY <1>4, FcsAppend, SMT
  <2>2. Fcs(Append(Append(p, lo), hi)) = UpdateFcs(Fcs(Append(p, lo)), hi)
    <3>1. PICK q : q = Append(p, lo)
      OBVIOUS
    <3>2. q \in Seq(Byte)
      BY <1>7, <3>1
    <3>3. Fcs(Append(q, hi)) = UpdateFcs(Fcs(q), hi)
      BY <1>4, <3>2, FcsAppend, SMT
    <3> QED
      BY <3>1, <3>3
  <2> QED
    BY <1>1, <1>5, <1>7, <2>1, <2>2, Zenon
<1>9. FcsOk(WithFcs(p))
  BY <1>6, <1>8, SMT DEF FcsOk
<1>10. p \o <<lo, hi>> \in Seq(Byte) /\ Len(p \o <<lo, hi>>) = Len(p) + 2
       /\ SubSeq(p \o <<lo, hi>>, 1, Len(p)) = p
  BY <1>4, SMT
<1> QED
  BY <1>5, <1>9, <1>10, Zenon

-----------------------------------------------------------------------------
(* What is between the flags of a frame. *)

\* The first k bytes, escaped.
Body(bytes, k) == FlattenSeq([i \in 1 .. k |-> Escaped(bytes[i])])

LEMMA EscapedForms ==
    ASSUME NEW b \in Byte
    PROVE  \/ b = Escape /\ Escaped(b) = <<Escape, EscapeEscaped>>
           \/ b = Flag /\ Escaped(b) = <<Escape, FlagEscaped>>
           \/ b # Escape /\ b # Flag /\ Escaped(b) = <<b>>
BY DEF Escaped

\* The last byte of an escaped byte is neither a flag nor an escape.
LEMMA EscapedBytes ==
    ASSUME NEW b \in Byte
    PROVE  /\ Escaped(b) \in Seq(Byte)
           /\ Len(Escaped(b)) \in {1, 2}
           /\ Len(Escaped(b)) = 2 <=> b \in {Flag, Escape}
           /\ \A i \in 1 .. Len(Escaped(b)) : Escaped(b)[i] # Flag
           /\ Escaped(b)[Len(Escaped(b))] # Escape
<1>1. Escape \in Byte /\ EscapeEscaped \in Byte /\ FlagEscaped \in Byte
  BY DEF Byte, Escape, EscapeEscaped, FlagEscaped
<1>2. ASSUME NEW e, e \in {EscapeEscaped, FlagEscaped}, Escaped(b) = <<Escape, e>>, b \in {Flag, Escape}
      PROVE  /\ Escaped(b) \in Seq(Byte)
             /\ Len(Escaped(b)) \in {1, 2}
             /\ Len(Escaped(b)) = 2 <=> b \in {Flag, Escape}
             /\ \A i \in 1 .. Len(Escaped(b)) : Escaped(b)[i] # Flag
             /\ Escaped(b)[Len(Escaped(b))] # Escape
  <2>1. e \in Byte /\ e # Flag /\ e # Escape /\ Escape # Flag
    BY <1>1, <1>2 DEF Escape, EscapeEscaped, FlagEscaped, Flag
  <2>2. PICK d : d = <<Escape, e>>
    OBVIOUS
  <2>3. d \in Seq(Byte) /\ Len(d) = 2 /\ d[1] = Escape /\ d[2] = e
    BY <1>1, <2>1, <2>2
  <2>4. \A i \in 1 .. 2 : d[i] # Flag
    BY <2>1, <2>3
  <2> QED
    BY <1>2, <2>1, <2>2, <2>3, <2>4
<1>3. CASE b # Escape /\ b # Flag /\ Escaped(b) = <<b>>
  BY <1>3
<1> QED
  BY <1>2, <1>3, EscapedForms

\* Body, one byte more.
LEMMA BodyStep ==
    ASSUME NEW q \in Seq(Byte), NEW k \in 0 .. Len(q)
    PROVE  /\ Body(q, k) \in Seq(Byte)
           /\ k = 0 => Body(q, k) = <<>>
           /\ k < Len(q) => Body(q, k + 1) = Body(q, k) \o Escaped(q[k + 1])
<1>0. Len(q) \in Nat /\ \A i \in 1 .. Len(q) : q[i] \in Byte
  OBVIOUS
<1>1. PICK s : s = [i \in 1 .. k |-> Escaped(q[i])]
  OBVIOUS
<1>2. \A i \in 1 .. k : Escaped(q[i]) \in Seq(Byte)
  BY <1>0, EscapedBytes
<1>3. s \in Seq(Seq(Byte)) /\ Len(s) = k
  BY <1>0, <1>1, <1>2
<1>4. Body(q, k) = FlattenSeq(s)
  BY <1>1 DEF Body
<1>5. Body(q, k) \in Seq(Byte)
  <2>1. <<>> \in Seq(Byte)
    OBVIOUS
  <2> QED
    BY <1>3, <1>4, <2>1, FlattenAppend
<1>6. k = 0 => Body(q, k) = <<>>
  BY <1>3, <1>4 DEF FlattenSeq
<1>7. ASSUME k < Len(q)
      PROVE  Body(q, k + 1) = Body(q, k) \o Escaped(q[k + 1])
  <2>1. PICK x : x = Escaped(q[k + 1])
    OBVIOUS
  <2>2. x \in Seq(Byte)
    <3>1. k + 1 \in 1 .. Len(q)
      BY <1>0, <1>7
    <3> QED
      BY <1>0, <2>1, <3>1, EscapedBytes
  <2>3. [i \in 1 .. k + 1 |-> Escaped(q[i])] = Append(s, x)
    BY <1>0, <1>1, <1>3, <2>1
  <2>4. FlattenSeq(Append(s, x)) = FlattenSeq(s) \o x
    BY <1>3, <2>2, FlattenAppend
  <2> QED
    BY <1>4, <2>1, <2>3, <2>4 DEF Body
<1> QED
  BY <1>5, <1>6, <1>7

\* No flag inside of a body, and no escape at its end.
LEMMA BodyBytes ==
    ASSUME NEW q \in Seq(Byte)
    PROVE  \A k \in 0 .. Len(q) :
               /\ \A i \in 1 .. Len(Body(q, k)) : Body(q, k)[i] # Flag
               /\ k > 0 => Len(Body(q, k)) > 0 /\ Body(q, k)[Len(Body(q, k))] # Escape
<1> DEFINE Good(k) == /\ \A i \in 1 .. Len(Body(q, k)) : Body(q, k)[i] # Flag
                      /\ k > 0 => Len(Body(q, k)) > 0 /\ Body(q, k)[Len(Body(q, k))] # Escape
           Bad == {k \in 0 .. Len(q) : ~ Good(k)}
<1> SUFFICES ASSUME Bad # {}
             PROVE  FALSE
  OBVIOUS
<1>0. Len(q) \in Nat /\ \A i \in 1 .. Len(q) : q[i] \in Byte
  OBVIOUS
<1>1. PICK k \in Bad : \A j \in Bad : k <= j
  <2> HIDE DEF Bad
  <2>1. Bad \in SUBSET Nat
    BY <1>0 DEF Bad
  <2> QED
    BY <2>1, Least
<1>2. k \in 0 .. Len(q) /\ ~ Good(k)
  OBVIOUS
<1>3. k # 0
  <2> SUFFICES ASSUME k = 0 PROVE FALSE
    OBVIOUS
  <2>1. Body(q, k) = <<>>
    BY <1>2, BodyStep
  <2> QED
    BY <1>2, <2>1
<1>4. k - 1 \in 0 .. Len(q) /\ k - 1 < Len(q) /\ k \in 1 .. Len(q)
  BY <1>0, <1>2, <1>3
<1>5. Good(k - 1)
  <2>1. ~ k <= k - 1
    BY <1>0, <1>2
  <2>2. k - 1 \notin Bad
    <3> HIDE DEF Bad
    <3> QED
      BY <1>1, <2>1
  <2> QED
    BY <1>4, <2>2
<1>6. PICK e : e = Escaped(q[k])
  OBVIOUS
<1>7. e \in Seq(Byte) /\ Len(e) \in {1, 2} /\ (\A i \in 1 .. Len(e) : e[i] # Flag) /\ e[Len(e)] # Escape
  BY <1>0, <1>4, <1>6, EscapedBytes
<1>8. PICK b : b = Body(q, k - 1)
  OBVIOUS
<1>9. b \in Seq(Byte)
  BY <1>4, <1>8, BodyStep
<1>10. PICK c : c = Body(q, k)
  OBVIOUS
<1>11. c = b \o e
  <2>1. Body(q, (k - 1) + 1) = Body(q, k - 1) \o Escaped(q[(k - 1) + 1])
    BY <1>4, BodyStep
  <2>2. (k - 1) + 1 = k
    BY <1>0, <1>2
  <2> QED
    BY <1>6, <1>8, <1>10, <2>1, <2>2
<1>12. Len(c) = Len(b) + Len(e) /\ \A i \in 1 .. Len(c) : c[i] = IF i <= Len(b) THEN b[i] ELSE e[i - Len(b)]
  BY <1>7, <1>9, <1>11
<1>13. \A i \in 1 .. Len(b) : b[i] # Flag
  BY <1>5, <1>8
<1>14. Len(b) \in Nat
  BY <1>9
<1>15. \A i \in 1 .. Len(c) : c[i] # Flag
  <2> TAKE i \in 1 .. Len(c)
  <2>1. CASE i <= Len(b)
    <3>1. i \in 1 .. Len(b)
      BY <1>7, <1>12, <1>14, <2>1
    <3>2. c[i] = b[i]
      BY <1>12, <2>1
    <3> QED
      BY <1>13, <3>1, <3>2
  <2>2. CASE ~ i <= Len(b)
    <3>1. i - Len(b) \in 1 .. Len(e)
      BY <1>7, <1>12, <1>14, <2>2
    <3> QED
      BY <1>7, <1>12, <2>2, <3>1
  <2> QED
    BY <2>1, <2>2
<1>16. Len(c) > 0 /\ c[Len(c)] # Escape
  <2>1. Len(c) \in 1 .. Len(c) /\ ~ Len(c) <= Len(b) /\ Len(c) - Len(b) = Len(e)
    BY <1>7, <1>12, <1>14
  <2>2. c[Len(c)] = e[Len(e)]
    BY <1>12, <2>1
  <2> QED
    BY <1>7, <2>1, <2>2
<1> QED
  BY <1>2, <1>10, <1>15, <1>16

\* A body of fewer bytes is a prefix of the whole.
LEMMA BodyPrefix ==
    ASSUME NEW q \in Seq(Byte)
    PROVE  \A m \in 0 .. Len(q) :
               LET b == Body(q, Len(q) - m)
                   all == Body(q, Len(q))
               IN  Len(b) <= Len(all) /\ \A i \in 1 .. Len(b) : all[i] = b[i]
<1>0. PICK all : all = Body(q, Len(q))
  OBVIOUS
<1> DEFINE Good(m) == /\ Len(Body(q, Len(q) - m)) <= Len(all)
                      /\ \A i \in 1 .. Len(Body(q, Len(q) - m)) : all[i] = Body(q, Len(q) - m)[i]
           Bad == {m \in 0 .. Len(q) : ~ Good(m)}
<1> SUFFICES ASSUME Bad # {}
             PROVE  FALSE
  BY <1>0
<1>18. Len(q) \in Nat /\ \A i \in 1 .. Len(q) : q[i] \in Byte
  OBVIOUS
<1>1. PICK m \in Bad : \A j \in Bad : m <= j
  <2> HIDE DEF Bad
  <2>1. Bad \in SUBSET Nat
    BY <1>18 DEF Bad
  <2> QED
    BY <2>1, Least
<1>2. m \in 0 .. Len(q) /\ ~ Good(m)
  OBVIOUS
<1>3. all \in Seq(Byte)
  BY <1>0, <1>18, BodyStep
<1>4. m # 0
  <2> SUFFICES ASSUME m = 0 PROVE FALSE
    OBVIOUS
  <2>1. Body(q, Len(q) - m) = all
    BY <1>0, <1>18
  <2> QED
    BY <1>2, <1>3, <2>1
<1>5. PICK k : k = Len(q) - m
  OBVIOUS
<1>6. k \in 0 .. Len(q) /\ k < Len(q) /\ k + 1 \in 1 .. Len(q) /\ k + 1 = Len(q) - (m - 1) /\ m - 1 \in 0 .. Len(q)
  BY <1>18, <1>2, <1>4, <1>5
<1>7. Good(m - 1)
  <2>1. ~ m <= m - 1
    BY <1>18, <1>2
  <2>2. m - 1 \notin Bad
    <3> HIDE DEF Bad
    <3> QED
      BY <1>1, <2>1
  <2> QED
    BY <1>6, <2>2
<1>8. PICK e : e = Escaped(q[k + 1])
  OBVIOUS
<1>9. e \in Seq(Byte)
  BY <1>18, <1>6, <1>8, EscapedBytes
<1>10. PICK b : b = Body(q, k)
  OBVIOUS
<1>11. b \in Seq(Byte)
  BY <1>6, <1>10, BodyStep
<1>12. PICK c : c = Body(q, k + 1)
  OBVIOUS
<1>13. c = b \o e
  BY <1>6, <1>8, <1>10, <1>12, BodyStep
<1>14. Len(c) <= Len(all) /\ \A i \in 1 .. Len(c) : all[i] = c[i]
  BY <1>6, <1>7, <1>12
<1>15. Len(b) <= Len(c) /\ \A i \in 1 .. Len(b) : c[i] = b[i]
  BY <1>9, <1>11, <1>13
<1>16. Len(b) \in Nat /\ Len(c) \in Nat /\ Len(all) \in Nat
  BY <1>3, <1>9, <1>11, <1>13
<1>17. Len(b) <= Len(all) /\ \A i \in 1 .. Len(b) : all[i] = b[i]
  <2>1. Len(b) <= Len(all)
    BY <1>14, <1>15, <1>16
  <2>2. ASSUME NEW i \in 1 .. Len(b)
        PROVE  all[i] = b[i]
    <3>1. i \in 1 .. Len(c)
      BY <1>15, <1>16
    <3> QED
      BY <1>14, <1>15, <3>1
  <2> QED
    BY <2>1, <2>2
<1> QED
  BY <1>2, <1>5, <1>10, <1>17

\* Where in the body a byte is.
LEMMA BodyAt ==
    ASSUME NEW q \in Seq(Byte), NEW k \in 0 .. Len(q), k < Len(q)
    PROVE  LET b == Body(q, k)
               e == Escaped(q[k + 1])
               all == Body(q, Len(q))
           IN  /\ Len(b) + Len(e) <= Len(all)
               /\ Len(Body(q, k + 1)) = Len(b) + Len(e)
               /\ \A j \in 1 .. Len(e) : all[Len(b) + j] = e[j]
<1>0. PICK all : all = Body(q, Len(q))
  OBVIOUS
<1>1. Len(q) \in Nat /\ \A i \in 1 .. Len(q) : q[i] \in Byte
  OBVIOUS
<1>2. PICK e : e = Escaped(q[k + 1])
  OBVIOUS
<1>3. e \in Seq(Byte)
  BY <1>1, <1>2, EscapedBytes
<1>4. PICK b : b = Body(q, k)
  OBVIOUS
<1>5. b \in Seq(Byte)
  BY <1>4, BodyStep
<1>6. PICK c : c = Body(q, k + 1)
  OBVIOUS
<1>7. c = b \o e
  BY <1>2, <1>4, <1>6, BodyStep
<1>8. Len(c) <= Len(all) /\ \A i \in 1 .. Len(c) : all[i] = c[i]
  <2>1. PICK m : m = Len(q) - (k + 1)
    OBVIOUS
  <2>2. m \in 0 .. Len(q) /\ Len(q) - m = k + 1
    BY <1>1, <2>1
  <2> QED
    BY <1>0, <1>6, <2>2, BodyPrefix
<1>9. Len(c) = Len(b) + Len(e) /\ \A j \in 1 .. Len(e) : c[Len(b) + j] = e[j]
  BY <1>3, <1>5, <1>7
<1>10. \A j \in 1 .. Len(e) : Len(b) + j \in 1 .. Len(c)
  BY <1>3, <1>5, <1>9
<1>11. \A j \in 1 .. Len(e) : all[Len(b) + j] = e[j]
  BY <1>8, <1>9, <1>10
<1> QED
  BY <1>0, <1>2, <1>4, <1>6, <1>8, <1>9, <1>11

\* A frame.
LEMMA FrameBytes ==
    ASSUME NEW p, NEW q, q = WithFcs(p), q \in Seq(Byte), q # <<>>,
           NEW E, E = Encode(p), NEW b, b = Body(q, Len(q))
    PROVE  /\ E \in Seq(Byte) /\ b \in Seq(Byte)
           /\ Len(E) = Len(b) + 2 /\ Len(b) > 0
           /\ E[1] = Flag /\ E[Len(E)] = Flag
           /\ \A i \in 2 .. Len(E) - 1 : E[i] = b[i - 1] /\ E[i] # Flag
           /\ E[Len(E) - 1] # Escape
<1>1. Len(q) \in Nat /\ Len(q) > 0 /\ Len(q) \in 0 .. Len(q)
  OBVIOUS
<1>2. b \in Seq(Byte)
  BY <1>1, BodyStep
<1>3. DOMAIN q = 1 .. Len(q)
  OBVIOUS
<1>4. E = <<Flag>> \o b \o <<Flag>>
  BY <1>3 DEF Encode, Body
<1>5. Flag \in Byte
  BY DEF Flag, Byte
<1>6. Len(b) \in Nat /\ Len(b) > 0 /\ b[Len(b)] # Escape /\ \A i \in 1 .. Len(b) : b[i] # Flag
  BY <1>1, <1>2, BodyBytes
<1>7. E \in Seq(Byte) /\ Len(E) = Len(b) + 2
  BY <1>2, <1>4, <1>5
<1>8. E[1] = Flag /\ E[Len(E)] = Flag /\ \A i \in 2 .. Len(E) - 1 : E[i] = b[i - 1]
  <2>1. PICK a : a = <<Flag>> \o b
    OBVIOUS
  <2>2. a \in Seq(Byte) /\ Len(a) = Len(b) + 1 /\ a[1] = Flag /\ \A i \in 2 .. Len(a) : a[i] = b[i - 1]
    BY <1>2, <1>5, <2>1
  <2>3. E = Append(a, Flag)
    BY <1>4, <1>5, <2>1, <2>2
  <2>4. E[Len(E)] = Flag /\ \A i \in 1 .. Len(a) : E[i] = a[i]
    BY <1>5, <2>2, <2>3
  <2>5. 1 \in 1 .. Len(a) /\ \A i \in 2 .. Len(E) - 1 : i \in 1 .. Len(a) /\ i \in 2 .. Len(a)
    BY <1>6, <1>7, <2>2
  <2> QED
    BY <2>2, <2>4, <2>5
<1>9. \A i \in 2 .. Len(E) - 1 : i - 1 \in 1 .. Len(b)
  BY <1>6, <1>7
<1>10. \A i \in 2 .. Len(E) - 1 : E[i] # Flag
  BY <1>6, <1>8, <1>9
<1>11. E[Len(E) - 1] # Escape
  <2>1. Len(E) - 1 \in 2 .. Len(E) - 1 /\ (Len(E) - 1) - 1 = Len(b)
    BY <1>6, <1>7
  <2>2. E[Len(E) - 1] = b[(Len(E) - 1) - 1]
    BY <1>8, <2>1
  <2> QED
    BY <1>6, <2>1, <2>2
<1> QED
  BY <1>2, <1>6, <1>7, <1>8, <1>10, <1>11

-----------------------------------------------------------------------------
(* The receiver. *)

HdlcType == [buffer : Seq(Byte), state : {"idle", "receiving", "error"}, escape : BOOLEAN]

\* The receiver has been fed a flag and the c - 1 bytes after it of the frame of q.
InFrame(q, c, h) ==
    \E k \in 0 .. Len(q) :
        /\ h.state = "receiving"
        /\ h.buffer = SubSeq(q, 1, k)
        /\ \/ ~h.escape /\ c = Len(Body(q, k)) + 1
           \/ h.escape /\ k < Len(q) /\ q[k + 1] \in {Flag, Escape} /\ c = Len(Body(q, k)) + 2

LEMMA SpecialBytes ==
    /\ {Flag, FlagEscaped, Escape, EscapeEscaped} \subseteq Byte
    /\ Flag # FlagEscaped /\ Flag # Escape /\ Flag # EscapeEscaped
    /\ FlagEscaped # Escape /\ FlagEscaped # EscapeEscaped /\ Escape # EscapeEscaped
BY DEF Byte, Flag, FlagEscaped, Escape, EscapeEscaped

\* RxByte, case by case.
LEMMA Receives ==
    ASSUME NEW h, h.state = "receiving", NEW x
    PROVE  /\ x = Flag /\ h.buffer = <<>> => RxByte(h, x) = h
           /\ x = Flag /\ h.buffer # <<>> /\ FcsOk(h.buffer) => RxByte(h, x) = Ready(h.buffer)
           /\ x = Flag /\ h.buffer # <<>> /\ ~FcsOk(h.buffer) => RxByte(h, x) = Broken
           /\ x # Flag /\ BufferFull(h) => RxByte(h, x) = Broken
           /\ x # Flag /\ ~BufferFull(h) =>
                  /\ x = Escape => RxByte(h, x) = Receiving(h.buffer, TRUE)
                  /\ x # Escape /\ ~h.escape => RxByte(h, x) = AddByte(h, x)
                  /\ x = EscapeEscaped /\ h.escape => RxByte(h, x) = AddByte(h, Escape)
                  /\ x = FlagEscaped /\ h.escape => RxByte(h, x) = AddByte(h, Flag)
                  /\ x \notin {Escape, EscapeEscaped, FlagEscaped} /\ h.escape => RxByte(h, x) = Broken
<1>1. CASE x = Flag
  BY <1>1 DEF RxByte, FlagByte, EndsFrame
<1>2. CASE x # Flag
  BY <1>2, SpecialBytes DEF RxByte, DataByte
<1> QED
  BY <1>1, <1>2

LEMMA Waits ==
    ASSUME NEW h, h.state # "receiving", NEW x
    PROVE  /\ x # Flag => RxByte(h, x) = h
           /\ x = Flag => RxByte(h, x) = Receiving(<<>>, FALSE)
BY DEF RxByte

LEMMA InFrameStep ==
    ASSUME NEW q \in Seq(Byte), Len(q) < BufferSize, NEW all, all = Body(q, Len(q)),
           NEW c \in 1 .. Len(all), NEW h \in HdlcType, InFrame(q, c, h)
    PROVE  RxByte(h, all[c]) \in HdlcType /\ InFrame(q, c + 1, RxByte(h, all[c]))
<1>1. Len(q) \in Nat /\ (\A i \in 1 .. Len(q) : q[i] \in Byte) /\ BufferSize \in Nat
  BY HdlcAssumption
<1>2. PICK k \in 0 .. Len(q) :
          /\ h.state = "receiving"
          /\ h.buffer = SubSeq(q, 1, k)
          /\ \/ ~h.escape /\ c = Len(Body(q, k)) + 1
             \/ h.escape /\ k < Len(q) /\ q[k + 1] \in {Flag, Escape} /\ c = Len(Body(q, k)) + 2
  BY DEF InFrame
<1>3. PICK b : b = Body(q, k)
  OBVIOUS
<1>4. all \in Seq(Byte) /\ b \in Seq(Byte)
  BY <1>1, <1>3, BodyStep
<1>5. k < Len(q)
  <2> SUFFICES ASSUME k = Len(q) PROVE FALSE
    BY <1>1, <1>2
  <2>1. c = Len(all) + 1
    BY <1>2, <1>1
  <2> QED
    BY <1>4, <2>1
<1>6. PICK v : v = q[k + 1]
  OBVIOUS
<1>7. v \in Byte /\ k + 1 \in 0 .. Len(q) /\ k \in Nat
  BY <1>1, <1>2, <1>5, <1>6
<1>8. PICK e : e = Escaped(v)
  OBVIOUS
<1>9. e \in Seq(Byte)
  BY <1>7, <1>8, EscapedBytes
<1>10. /\ Len(b) + Len(e) <= Len(all)
       /\ Len(Body(q, k + 1)) = Len(b) + Len(e)
       /\ \A j \in 1 .. Len(e) : all[Len(b) + j] = e[j]
  BY <1>3, <1>5, <1>6, <1>8, BodyAt
<1>11. SubSeq(q, 1, k + 1) = Append(SubSeq(q, 1, k), v) /\ Len(SubSeq(q, 1, k)) = k
       /\ SubSeq(q, 1, k + 1) \in Seq(Byte)
  BY <1>1, <1>5, <1>6, <1>7
<1>12. h.state = "receiving" /\ h.buffer = SubSeq(q, 1, k) /\ h.buffer \in Seq(Byte) /\ ~BufferFull(h)
  BY <1>1, <1>2, <1>5, <1>11 DEF HdlcType, BufferFull
<1>13. h = [buffer |-> h.buffer, state |-> h.state, escape |-> h.escape] /\ h.escape \in BOOLEAN
  BY DEF HdlcType
<1>14. PICK g : g = Receiving(SubSeq(q, 1, k + 1), FALSE)
  OBVIOUS
<1>15. AddByte(h, v) = g
  BY <1>11, <1>12, <1>14 DEF AddByte
<1>16. g \in HdlcType /\ g.state = "receiving" /\ g.buffer = SubSeq(q, 1, k + 1) /\ ~g.escape
  BY <1>11, <1>14 DEF HdlcType, Receiving
<1>17. c + 1 = Len(b) + Len(e) + 1 => InFrame(q, c + 1, g)
  BY <1>7, <1>10, <1>16 DEF InFrame
<1>18. CASE ~h.escape /\ v \notin {Flag, Escape}
  <2>1. e = <<v>> /\ Len(e) = 1 /\ e[1] = v
    BY <1>7, <1>8, <1>18 DEF Escaped
  <2>2. c = Len(b) + 1
    BY <1>2, <1>3, <1>18
  <2>3. all[c] = v
    BY <1>10, <2>1, <2>2
  <2>4. RxByte(h, v) = g
    BY <1>12, <1>15, <1>18, Receives
  <2>5. c + 1 = Len(b) + Len(e) + 1
    BY <2>1, <2>2
  <2> QED
    BY <1>16, <1>17, <2>3, <2>4, <2>5
<1>19. CASE ~h.escape /\ v \in {Flag, Escape}
  <2>1. Len(e) = 2 /\ e[1] = Escape
    BY <1>7, <1>8, <1>19 DEF Escaped
  <2>2. c = Len(b) + 1
    BY <1>2, <1>3, <1>19
  <2>3. all[c] = Escape
    BY <1>10, <2>1, <2>2
  <2>4. PICK f : f = Receiving(h.buffer, TRUE)
    OBVIOUS
  <2>5. RxByte(h, Escape) = f
    BY <1>12, <2>4, SpecialBytes, Receives
  <2>6. f \in HdlcType /\ f.state = "receiving" /\ f.buffer = SubSeq(q, 1, k) /\ f.escape = TRUE
    BY <1>12, <2>4 DEF HdlcType, Receiving
  <2>7. c + 1 = Len(Body(q, k)) + 2
    BY <1>3, <1>4, <2>2
  <2>8. InFrame(q, c + 1, f)
    BY <1>2, <1>5, <1>6, <1>19, <2>6, <2>7 DEF InFrame
  <2> QED
    BY <2>3, <2>5, <2>6, <2>8
<1>20. CASE h.escape
  <2>1. c = Len(b) + 2 /\ v \in {Flag, Escape}
    BY <1>2, <1>3, <1>6, <1>20
  <2>2. Len(e) = 2 /\ e[2] = IF v = Escape THEN EscapeEscaped ELSE FlagEscaped
    <3>1. \/ v = Escape /\ e = <<Escape, EscapeEscaped>>
          \/ v = Flag /\ e = <<Escape, FlagEscaped>>
      BY <1>7, <1>8, <2>1, EscapedForms, SpecialBytes
    <3> QED
      BY <3>1, SpecialBytes
  <2>3. all[c] = IF v = Escape THEN EscapeEscaped ELSE FlagEscaped
    BY <1>10, <2>1, <2>2
  <2>4. RxByte(h, all[c]) = AddByte(h, v)
    BY <1>12, <1>20, <2>1, <2>3, SpecialBytes, Receives
  <2>5. c + 1 = Len(b) + Len(e) + 1
    BY <1>4, <2>1, <2>2
  <2> QED
    BY <1>15, <1>16, <1>17, <2>4, <2>5
<1> QED
  BY <1>13, <1>18, <1>19, <1>20

LEMMA InFrameEnd ==
    ASSUME NEW q \in Seq(Byte), q # <<>>, FcsOk(q), NEW all, all = Body(q, Len(q)),
           NEW h \in HdlcType, InFrame(q, Len(all) + 1, h)
    PROVE  RxByte(h, Flag) = Ready(q)
<1>1. Len(q) \in Nat /\ \A i \in 1 .. Len(q) : q[i] \in Byte
  OBVIOUS
<1>2. PICK k \in 0 .. Len(q) :
          /\ h.state = "receiving"
          /\ h.buffer = SubSeq(q, 1, k)
          /\ \/ ~h.escape /\ Len(all) + 1 = Len(Body(q, k)) + 1
             \/ h.escape /\ k < Len(q) /\ q[k + 1] \in {Flag, Escape} /\ Len(all) + 1 = Len(Body(q, k)) + 2
  BY DEF InFrame
<1>3. PICK b : b = Body(q, k)
  OBVIOUS
<1>4. all \in Seq(Byte) /\ b \in Seq(Byte)
  BY <1>1, <1>3, BodyStep
<1>5. ~ k < Len(q)
  <2> SUFFICES ASSUME k < Len(q) PROVE FALSE
    OBVIOUS
  <2>1. PICK e : e = Escaped(q[k + 1])
    OBVIOUS
  <2>2. q[k + 1] \in Byte
    BY <1>1, <1>2
  <2>3. Len(e) \in {1, 2} /\ (Len(e) = 2 <=> q[k + 1] \in {Flag, Escape})
    BY <2>1, <2>2, EscapedBytes
  <2>4. Len(b) + Len(e) <= Len(all)
    BY <1>3, <2>1, BodyAt
  <2>5. Len(b) \in Nat /\ Len(all) \in Nat
    BY <1>4
  <2>6. CASE ~h.escape
    <3>1. Len(all) + 1 = Len(b) + 1
      BY <1>2, <1>3, <2>6
    <3>2. Len(e) \in Nat /\ Len(e) > 0
      <4>1. \A m : m \in {1, 2} => m \in Nat /\ m > 0
        OBVIOUS
      <4> QED
        BY <2>3, <4>1, Zenon
    <3> QED
      BY <2>4, <2>5, <3>1, <3>2
  <2>7. CASE h.escape
    <3>1. Len(e) = 2 /\ Len(all) + 1 = Len(b) + 2
      BY <1>2, <1>3, <2>3, <2>7
    <3> QED
      BY <2>4, <2>5, <3>1
  <2> QED
    BY <2>6, <2>7
<1>6. k = Len(q) /\ ~h.escape
  BY <1>1, <1>2, <1>5
<1>7. h.buffer = q
  BY <1>2, <1>6
<1>8. h = [buffer |-> h.buffer, state |-> h.state, escape |-> h.escape]
  BY DEF HdlcType
<1> QED
  BY <1>2, <1>7, Receives

-----------------------------------------------------------------------------
(* Sending and receiving. *)

\* Fed the bytes of a frame one after the other, a receiver that was not in the middle of one
\* ends up with its payload: mr_hdlc_decode undoes mr_hdlc_encode.
THEOREM DecodesWhatIsEncoded ==
    ASSUME NEW p \in Payload, NEW h,
           \A i \in 1 .. Len(Encode(p)) : h[i] = RxByte(h[i - 1], Encode(p)[i]),
           h[0].state # "receiving"
    PROVE  /\ h[Len(Encode(p))].state = "ready"
           /\ Decoded(h[Len(Encode(p))]) = p
<1>1. p \in Seq(Byte) /\ p # <<>> /\ Len(p) + 2 < BufferSize /\ Fcs(p) \in UInt16
  BY UartRxAssumption
<1>2. PICK q : q = WithFcs(p)
  OBVIOUS
<1>3. q \in Seq(Byte) /\ Len(q) = Len(p) + 2 /\ SubSeq(q, 1, Len(p)) = p /\ FcsOk(q)
  BY <1>1, <1>2, FrameFcsOk
<1>4. q # <<>> /\ Len(q) < BufferSize
  BY <1>1, <1>3
<1>5. PICK all : all = Body(q, Len(q))
  OBVIOUS
<1>6. PICK E : E = Encode(p)
  OBVIOUS
<1>7. /\ E \in Seq(Byte) /\ all \in Seq(Byte)
      /\ Len(E) = Len(all) + 2 /\ Len(all) > 0
      /\ E[1] = Flag /\ E[Len(E)] = Flag
      /\ \A i \in 2 .. Len(E) - 1 : E[i] = all[i - 1] /\ E[i] # Flag
  BY <1>2, <1>3, <1>4, <1>5, <1>6, FrameBytes
<1>8. Len(all) \in Nat /\ Len(q) \in Nat
  BY <1>3, <1>7
<1>9. \A i \in 1 .. Len(E) : h[i] = RxByte(h[i - 1], E[i])
  BY <1>6
<1>10. h[1] \in HdlcType /\ InFrame(q, 1, h[1])
  <2>1. h[1] = RxByte(h[0], Flag)
    BY <1>7, <1>8, <1>9
  <2>2. h[1] = Receiving(<<>>, FALSE)
    BY <2>1, Waits
  <2>3. h[1] \in HdlcType /\ h[1].state = "receiving" /\ h[1].buffer = <<>> /\ ~h[1].escape
    BY <2>2 DEF Receiving, HdlcType
  <2>4. Body(q, 0) = <<>> /\ 0 \in 0 .. Len(q) /\ SubSeq(q, 1, 0) = <<>>
    BY <1>3, <1>8, BodyStep
  <2> QED
    BY <2>3, <2>4 DEF InFrame
<1>11. \A c \in 1 .. Len(all) + 1 : h[c] \in HdlcType /\ InFrame(q, c, h[c])
  <2> DEFINE Bad == {c \in 1 .. Len(all) + 1 : ~(h[c] \in HdlcType /\ InFrame(q, c, h[c]))}
  <2> SUFFICES ASSUME Bad # {}
               PROVE  FALSE
    OBVIOUS
  <2>1. PICK c \in Bad : \A d \in Bad : c <= d
    <3> HIDE DEF Bad
    <3>1. Bad \in SUBSET Nat
      BY <1>8 DEF Bad
    <3> QED
      BY <3>1, Least
  <2>2. c # 1
    BY <1>10
  <2>3. c \in Nat /\ c - 1 \in 1 .. Len(all) /\ ~ c <= c - 1 /\ (c - 1) + 1 = c /\ c \in 2 .. Len(E) - 1
    BY <1>7, <1>8, <2>2
  <2>4. c - 1 \notin Bad
    <3> HIDE DEF Bad
    <3> QED
      BY <2>1, <2>3
  <2>5. h[c - 1] \in HdlcType /\ InFrame(q, c - 1, h[c - 1])
    BY <1>8, <2>3, <2>4
  <2>6. PICK g : g = RxByte(h[c - 1], all[c - 1])
    OBVIOUS
  <2>7. PICK d : d = c - 1
    OBVIOUS
  <2>8. g \in HdlcType /\ InFrame(q, d + 1, g)
    BY <1>3, <1>4, <1>5, <2>3, <2>5, <2>6, <2>7, InFrameStep
  <2>9. h[c] = g
    BY <1>7, <1>8, <1>9, <2>3, <2>6
  <2> QED
    BY <2>3, <2>7, <2>8, <2>9
<1>12. h[Len(all) + 1] \in HdlcType /\ InFrame(q, Len(all) + 1, h[Len(all) + 1])
  BY <1>8, <1>11
<1>13. RxByte(h[Len(all) + 1], Flag) = Ready(q)
  BY <1>3, <1>4, <1>5, <1>12, InFrameEnd
<1>14. h[Len(E)] = Ready(q)
  <2>1. Len(E) \in 1 .. Len(E) /\ Len(E) - 1 = Len(all) + 1
    BY <1>7, <1>8
  <2> QED
    BY <1>7, <1>9, <1>13, <2>1
<1>15. Decoded(Ready(q)) = p /\ Ready(q).state = "ready"
  <2>1. Len(p) \in Nat /\ Len(q) - 2 = Len(p)
    BY <1>1, <1>3
  <2> QED
    BY <1>3, <2>1 DEF Decoded, Ready
<1> QED
  BY <1>6, <1>14, <1>15

-----------------------------------------------------------------------------
(* The receiver, the line and the interrupts. *)

RxTypes ==
    /\ sending \in Payload \cup {NoPayload}
    /\ rest \in Seq(Byte) /\ wire \in Seq(Byte) /\ trigger \in Seq(Byte) /\ chunk \in Seq(Byte)
    /\ rxState \in {"trigger", "chunk", "backoff"}
    /\ received \in BOOLEAN /\ pos \in Nat
    /\ hdlc \in HdlcType
    /\ intact \in 0 .. 2

\* A trigger byte waits for the rest of its piece, and an intact frame is not overwritten.
LineInv ==
    /\ rxState # "chunk" => trigger = <<>>
    /\ intact > 0 => sending \in Payload /\ ~(received /\ pos > 0)

\* The bytes of the chunk that the main loop has not fed to the receiver, and all the bytes that
\* it has yet to feed to it.
InChunk == IF received \/ pos > 0 THEN SubSeq(chunk, IF pos > 0 THEN pos ELSE 1, Len(chunk)) ELSE <<>>
Unread == InChunk \o (trigger \o (wire \o rest))

\* A flag starts a frame.
Fresh(h) == h.state # "receiving" \/ (h.buffer = <<>> /\ ~h.escape)

\* c bytes into the frame E, an arbitrary receiver: it has something in its buffer, which the
\* last flag will empty, unless it does not receive or is to be given an escaped byte.
Recovers(E, c, h) ==
    /\ c \in 2 .. Len(E) - 1 => h.state # "receiving" \/ h.buffer # <<>> \/ E[c] = Escape
    /\ c = Len(E) => Fresh(h)

\* c bytes into the frame E of the payload p, a receiver that was fresh when it began.
Follows(p, E, c, h, g) ==
    /\ c = 0 => Fresh(h) /\ g = <<>>
    /\ c \in 1 .. Len(E) - 1 => InFrame(WithFcs(p), c, h) /\ g = <<>>
    /\ c = Len(E) => Fresh(h) /\ g = <<p>>

\* c bytes into an intact frame of p, the n-th in a row, and U of it to come.
StreamAt(c, p, U, n, h, g) ==
    LET E == Encode(p)
    IN  /\ U = SubSeq(E, c + 1, Len(E))
        /\ n = 1 => Recovers(E, c, h)
        /\ n = 2 => Follows(p, E, c, h, g)
StreamInv ==
    intact > 0 => \E c \in 0 .. Len(Encode(sending)) : StreamAt(c, sending, Unread, intact, hdlc, got)

RxInv == RxTypes /\ LineInv /\ StreamInv

LEMMA RxByteType ==
    ASSUME NEW h \in HdlcType, NEW x \in Byte
    PROVE  RxByte(h, x) \in HdlcType \/ \E b \in Seq(Byte) : RxByte(h, x) = Ready(b)
<1>1. h.buffer \in Seq(Byte) /\ h.state \in {"idle", "receiving", "error"} /\ h.escape \in BOOLEAN
  BY DEF HdlcType
<1>2. Broken \in HdlcType
  BY DEF Broken, HdlcType
<1>3. \A b \in Seq(Byte), e \in BOOLEAN : Receiving(b, e) \in HdlcType
  BY DEF Receiving, HdlcType
<1>4. \A y \in Byte : AddByte(h, y) \in HdlcType
  <2> TAKE y \in Byte
  <2>1. Append(h.buffer, y) \in Seq(Byte)
    BY <1>1
  <2> QED
    BY <1>3, <2>1 DEF AddByte
<1>5. CASE h.state # "receiving"
  <2>1. <<>> \in Seq(Byte)
    OBVIOUS
  <2> QED
    BY <1>3, <1>5, <2>1, Waits
<1>6. CASE h.state = "receiving" /\ x = Flag
  BY <1>1, <1>2, <1>6, Receives
<1>7. CASE h.state = "receiving" /\ x # Flag
  <2>1. CASE BufferFull(h)
    BY <1>2, <1>7, <2>1, Receives
  <2>2. CASE ~BufferFull(h) /\ x = Escape
    BY <1>1, <1>3, <1>7, <2>2, Receives
  <2>3. CASE ~BufferFull(h) /\ x # Escape /\ ~h.escape
    BY <1>4, <1>7, <2>3, Receives
  <2>4. CASE ~BufferFull(h) /\ x # Escape /\ h.escape
    <3>1. RxByte(h, x) \in {AddByte(h, Escape), AddByte(h, Flag), Broken}
      BY <1>7, <2>4, Receives
    <3> QED
      BY <1>2, <1>4, <3>1, SpecialBytes
  <2> QED
    BY <2>1, <2>2, <2>3, <2>4
<1> QED
  BY <1>1, <1>5, <1>6, <1>7

LEMMA FrameOfPayload ==
    ASSUME NEW p \in Payload
    PROVE  /\ p \in Seq(Byte) /\ p # <<>>
           /\ WithFcs(p) \in Seq(Byte) /\ WithFcs(p) # <<>> /\ FcsOk(WithFcs(p))
           /\ Len(WithFcs(p)) < BufferSize
           /\ Decoded(Ready(WithFcs(p))) = p
           /\ Encode(p) \in Seq(Byte)
           /\ Len(Encode(p)) > 2
<1>1. p \in Seq(Byte) /\ p # <<>> /\ Len(p) + 2 < BufferSize /\ Fcs(p) \in UInt16
  BY UartRxAssumption
<1>2. PICK q : q = WithFcs(p)
  OBVIOUS
<1>3. q \in Seq(Byte) /\ Len(q) = Len(p) + 2 /\ SubSeq(q, 1, Len(p)) = p /\ FcsOk(q)
  BY <1>1, <1>2, FrameFcsOk
<1>4. q # <<>> /\ Len(q) < BufferSize
  BY <1>1, <1>3
<1>5. PICK all : all = Body(q, Len(q))
  OBVIOUS
<1>6. PICK E : E = Encode(p)
  OBVIOUS
<1>7. E \in Seq(Byte) /\ all \in Seq(Byte) /\ Len(E) = Len(all) + 2 /\ Len(all) > 0
  BY <1>2, <1>3, <1>4, <1>5, <1>6, FrameBytes
<1>8. Len(E) > 2
  BY <1>7
<1>9. Decoded(Ready(q)) = p
  <2>1. Len(p) \in Nat /\ Len(q) - 2 = Len(p)
    BY <1>1, <1>3
  <2> QED
    BY <1>3, <2>1 DEF Decoded, Ready
<1> QED
  BY <1>1, <1>2, <1>3, <1>4, <1>6, <1>7, <1>8, <1>9

LEMMA InitRxInv ==
    ASSUME UartRxInit
    PROVE  RxInv
<1> USE DEF UartRxInit
<1>1. RxTypes
  <2>1. hdlc \in HdlcType
    BY DEF HdlcType, HdlcIdle
  <2>2. <<>> \in Seq(Byte)
    OBVIOUS
  <2>3. pos \in Nat /\ intact \in 0 .. 2
    OBVIOUS
  <2> QED
    BY <2>1, <2>2, <2>3, Zenon DEF RxTypes
<1>2. LineInv /\ StreamInv
  BY DEF LineInv, StreamInv
<1> QED
  BY <1>1, <1>2 DEF RxInv

LEMMA TailOf ==
    ASSUME NEW s \in Seq(Byte), NEW n \in 0 .. Len(s)
    PROVE  LET S == SubSeq(s, n + 1, Len(s))
           IN  /\ S \in Seq(Byte)
               /\ Len(S) = Len(s) - n
               /\ \A i \in 1 .. Len(S) : S[i] = s[n + i]
<1>0. PICK S : S = SubSeq(s, n + 1, Len(s))
  OBVIOUS
<1>1. Len(s) \in Nat
  OBVIOUS
<1>2. S \in Seq(Byte) /\ Len(S) = Len(s) - n
  BY <1>0, <1>1
<1>3. \A i \in 1 .. Len(s) - n : S[i] = s[n + i]
  BY <1>0, <1>1
<1> QED
  BY <1>0, <1>2, <1>3

LEMMA JoinOf ==
    ASSUME NEW a \in Seq(Byte), NEW b \in Seq(Byte)
    PROVE  /\ Len(a \o b) = Len(a) + Len(b)
           /\ \A i \in 1 .. Len(b) : (a \o b)[Len(a) + i] = b[i]
<1>1. Len(a \o b) = Len(a) + Len(b) /\ Len(a) \in Nat /\ Len(b) \in Nat
  OBVIOUS
<1>2. ASSUME NEW i \in 1 .. Len(b)
      PROVE  (a \o b)[Len(a) + i] = b[i]
  BY <1>1
<1> QED
  BY <1>1, <1>2

\* What is left of a frame, a byte further.
LEMMA NextByte ==
    ASSUME NEW E \in Seq(Byte), NEW c \in 0 .. Len(E), NEW U, U = SubSeq(E, c + 1, Len(E)),
           NEW x \in Byte, NEW R \in Seq(Byte), U = <<x>> \o R
    PROVE  c + 1 \in 0 .. Len(E) /\ x = E[c + 1] /\ R = SubSeq(E, (c + 1) + 1, Len(E))
<1>1. Len(E) \in Nat /\ Len(R) \in Nat
  OBVIOUS
<1>2. Len(U) = Len(R) + 1 /\ U[1] = x /\ \A i \in 1 .. Len(R) : U[i + 1] = R[i]
  <2>1. PICK D : D = <<x>>
    OBVIOUS
  <2>2. D \in Seq(Byte) /\ Len(D) = 1
    BY <2>1
  <2>3. U = D \o R
    BY <2>1, Zenon
  <2>4. Len(U) = Len(D) + Len(R) /\ \A i \in 1 .. Len(R) : U[Len(D) + i] = R[i]
    <3>1. Len(D \o R) = Len(D) + Len(R) /\ \A i \in 1 .. Len(R) : (D \o R)[Len(D) + i] = R[i]
      BY <2>2, JoinOf
    <3> QED
      BY <2>3, <3>1, Zenon
  <2>5. U[1] = x
    <3>1. D[1] = x /\ 1 <= Len(D) /\ 1 \in 1 .. Len(D) + Len(R)
      BY <1>1, <2>1, <2>2
    <3>2. \A i \in 1 .. Len(D) + Len(R) : (D \o R)[i] = IF i <= Len(D) THEN D[i] ELSE R[i - Len(D)]
      BY <2>2, ConcatProperties
    <3> QED
      BY <2>3, <3>1, <3>2
  <2>6. \A i \in 1 .. Len(R) : U[i + 1] = R[i]
    <3> TAKE i \in 1 .. Len(R)
    <3>1. Len(D) + i = i + 1
      BY <1>1, <2>2
    <3>2. U[Len(D) + i] = R[i]
      BY <2>4, Zenon
    <3> QED
      BY <3>1, <3>2, Zenon
  <2>7. Len(U) = Len(R) + 1
    <3>1. Len(D) + Len(R) = Len(R) + 1
      BY <1>1, <2>2
    <3> QED
      BY <2>4, <3>1, Zenon
  <2> QED
    BY <2>5, <2>6, <2>7, Zenon
<1>3. Len(U) = Len(E) - c /\ \A i \in 1 .. Len(E) - c : U[i] = E[c + i]
  BY <1>1
<1>4. c + 1 \in 0 .. Len(E) /\ Len(R) = Len(E) - (c + 1)
  BY <1>1, <1>2, <1>3
<1>5. x = E[c + 1]
  BY <1>1, <1>2, <1>3, <1>4
<1>6. PICK S : S = SubSeq(E, (c + 1) + 1, Len(E))
  OBVIOUS
<1>7. S \in Seq(Byte) /\ Len(S) = Len(E) - (c + 1) /\ \A i \in 1 .. Len(S) : S[i] = E[(c + 1) + i]
  <2>1. PICK d : d = c + 1
    OBVIOUS
  <2>2. d \in 0 .. Len(E)
    BY <1>4, <2>1
  <2>3. S \in Seq(Byte) /\ Len(S) = Len(E) - d /\ \A i \in 1 .. Len(S) : S[i] = E[d + i]
    BY <1>6, <2>1, <2>2, TailOf
  <2> QED
    BY <2>1, <2>3, Zenon
<1>8. \A i \in 1 .. Len(R) : R[i] = S[i]
  <2> TAKE i \in 1 .. Len(R)
  <2>1. i + 1 \in 1 .. Len(E) - c /\ c + (i + 1) = (c + 1) + i /\ i \in 1 .. Len(S)
    BY <1>1, <1>4, <1>7
  <2> QED
    BY <1>2, <1>3, <1>7, <2>1
<1>9. R = S
  BY <1>4, <1>7, <1>8, SeqEqual
<1> QED
  BY <1>4, <1>5, <1>6, <1>9

\* What is left of a frame when some of it is thrown away.
LEMMA Dropped ==
    ASSUME NEW E \in Seq(Byte), NEW c \in 0 .. Len(E), NEW D \in Seq(Byte), NEW R \in Seq(Byte),
           D \o R = SubSeq(E, c + 1, Len(E))
    PROVE  c + Len(D) \in 0 .. Len(E) /\ R = SubSeq(E, (c + Len(D)) + 1, Len(E))
<1>1. Len(E) \in Nat /\ Len(R) \in Nat /\ Len(D) \in Nat
  OBVIOUS
<1>2. PICK U : U = D \o R
  OBVIOUS
<1>3. Len(U) = Len(D) + Len(R) /\ \A i \in 1 .. Len(R) : U[Len(D) + i] = R[i]
  BY <1>2, JoinOf, Zenon
<1>4. Len(U) = Len(E) - c /\ \A i \in 1 .. Len(E) - c : U[i] = E[c + i]
  BY <1>1, <1>2
<1>5. PICK d : d = c + Len(D)
  OBVIOUS
<1>6. d \in 0 .. Len(E) /\ Len(R) = Len(E) - d
  BY <1>1, <1>3, <1>4, <1>5
<1>7. PICK S : S = SubSeq(E, d + 1, Len(E))
  OBVIOUS
<1>8. S \in Seq(Byte) /\ Len(S) = Len(E) - d /\ \A i \in 1 .. Len(S) : S[i] = E[d + i]
  BY <1>6, <1>7, TailOf
<1>9. \A i \in 1 .. Len(R) : R[i] = S[i]
  <2> TAKE i \in 1 .. Len(R)
  <2>1. Len(D) + i \in 1 .. Len(E) - c /\ c + (Len(D) + i) = d + i /\ i \in 1 .. Len(S)
    BY <1>1, <1>5, <1>6, <1>8
  <2> QED
    BY <1>3, <1>4, <1>8, <2>1
<1>10. R = S
  BY <1>6, <1>8, <1>9, SeqEqual
<1> QED
  BY <1>5, <1>6, <1>7, <1>10

\* A step that feeds nothing to the receiver.
LEMMA StreamKept ==
    ASSUME StreamInv,
           intact' > 0 => /\ intact' = intact /\ sending' = sending /\ Unread' = Unread
                          /\ hdlc' = hdlc /\ got' = got
    PROVE  StreamInv'
<1> SUFFICES ASSUME intact' > 0
             PROVE  \E c \in 0 .. Len(Encode(sending')) :
                        StreamAt(c, sending', Unread', intact', hdlc', got')
  BY DEF StreamInv
<1>1. PICK c \in 0 .. Len(Encode(sending)) : StreamAt(c, sending, Unread, intact, hdlc, got)
  BY DEF StreamInv
<1>2. /\ intact' = intact /\ sending' = sending /\ Unread' = Unread
      /\ hdlc' = hdlc /\ got' = got
  OBVIOUS
<1> QED
  BY <1>1, <1>2, Zenon

LEMMA HeadOf ==
    ASSUME NEW s \in Seq(Byte), s # <<>>
    PROVE  /\ Head(s) \in Byte /\ Tail(s) \in Seq(Byte)
           /\ <<Head(s)>> \in Seq(Byte)
           /\ <<Head(s)>> \o Tail(s) = s
<1>1. Head(s) \in Byte /\ Tail(s) \in Seq(Byte)
  OBVIOUS
<1> QED
  BY <1>1

LEMMA SplitOf ==
    ASSUME NEW s \in Seq(Byte), NEW n \in 0 .. Len(s)
    PROVE  /\ SubSeq(s, 1, n) \in Seq(Byte) /\ Len(SubSeq(s, 1, n)) = n
           /\ SubSeq(s, n + 1, Len(s)) \in Seq(Byte)
           /\ SubSeq(s, 1, n) \o SubSeq(s, n + 1, Len(s)) = s
<1>1. Len(s) \in Nat
  OBVIOUS
<1>2. PICK a, b : a = SubSeq(s, 1, n) /\ b = SubSeq(s, n + 1, Len(s))
  OBVIOUS
<1>3. a \in Seq(Byte) /\ Len(a) = n /\ \A i \in 1 .. n : a[i] = s[i]
  BY <1>1, <1>2
<1>4. b \in Seq(Byte) /\ Len(b) = Len(s) - n /\ \A i \in 1 .. Len(b) : b[i] = s[n + i]
  BY <1>2, TailOf
<1>5. a \o b \in Seq(Byte) /\ Len(a \o b) = Len(s)
      /\ \A i \in 1 .. Len(s) : (a \o b)[i] = IF i <= n THEN a[i] ELSE b[i - n]
  <2>1. a \o b \in Seq(Byte) /\ Len(a \o b) = Len(a) + Len(b)
        /\ \A i \in 1 .. Len(a) + Len(b) : (a \o b)[i] = IF i <= Len(a) THEN a[i] ELSE b[i - Len(a)]
    BY <1>3, <1>4, ConcatProperties
  <2> QED
    BY <1>1, <1>3, <1>4, <2>1
<1>6. \A i \in 1 .. Len(s) : (a \o b)[i] = s[i]
  <2> TAKE i \in 1 .. Len(s)
  <2>1. CASE i <= n
    BY <1>1, <1>3, <1>5, <2>1
  <2>2. CASE ~ i <= n
    <3>1. i - n \in 1 .. Len(b) /\ n + (i - n) = i
      BY <1>1, <1>4, <2>2
    <3> QED
      BY <1>4, <1>5, <2>2, <3>1
  <2> QED
    BY <2>1, <2>2
<1>7. a \o b = s
  BY <1>5, <1>6, SeqEqual
<1> QED
  BY <1>2, <1>3, <1>4, <1>7

LEMMA SendPieceInv ==
    ASSUME RxInv, SendPiece
    PROVE  RxInv'
<1> USE DEF RxInv
<1>1. rest \in Seq(Byte) /\ wire = <<>> /\ rest # <<>> /\ PieceSize \in Nat \ {0}
  BY UartRxAssumption DEF RxTypes, SendPiece
<1>2. PICK n : n = IF Len(rest) < PieceSize THEN Len(rest) ELSE PieceSize
  OBVIOUS
<1>3. n \in 0 .. Len(rest)
  BY <1>1, <1>2
<1>4. PICK piece : piece = SubSeq(rest, 1, n)
  OBVIOUS
<1>5. /\ rest' = SubSeq(rest, n + 1, Len(rest))
      /\ wire' \in {piece} \cup Damaged(piece)
      /\ intact' = IF wire' = piece THEN intact ELSE 0
      /\ UNCHANGED <<sending, uart, mainLoop, got, owed>>
      /\ intact = 0 => wire' = piece
  BY <1>2, <1>4 DEF SendPiece
<1>6. piece \in Seq(Byte) /\ rest' \in Seq(Byte) /\ piece \o rest' = rest
  BY <1>1, <1>3, <1>4, <1>5, SplitOf
<1>7. wire' \in Seq(Byte)
  <2>1. <<>> \in Seq(Byte)
    OBVIOUS
  <2>2. ASSUME NEW i \in DOMAIN piece
        PROVE  RemoveAt(piece, i) \in Seq(Byte)
    BY <1>6 DEF RemoveAt
  <2>3. ASSUME NEW i \in DOMAIN piece, NEW b \in Noise
        PROVE  ReplaceAt(piece, i, b) \in Seq(Byte)
    <3>1. b \in Byte
      BY UartRxAssumption
    <3> QED
      BY <1>6, <3>1 DEF ReplaceAt
  <2> QED
    <3>1. \A d \in Damaged(piece) : d \in Seq(Byte)
      <4> SUFFICES ASSUME NEW d \in Damaged(piece) PROVE d \in Seq(Byte)
        OBVIOUS
      <4>1. \/ d = <<>>
            \/ \E i \in DOMAIN piece : d = RemoveAt(piece, i)
            \/ \E i \in DOMAIN piece, b \in Noise : d = ReplaceAt(piece, i, b)
        BY DEF Damaged
      <4> QED
        BY <2>1, <2>2, <2>3, <4>1, Zenon
    <3> QED
      BY <1>5, <1>6, <3>1, Zenon
<1>8. intact' \in {0, intact}
  BY <1>5
<1>9. RxTypes'
  BY <1>5, <1>6, <1>7, <1>8 DEF RxTypes, uart, mainLoop
<1>10. LineInv'
  BY <1>5, <1>8 DEF LineInv, uart, mainLoop
<1>11. ASSUME intact' > 0
       PROVE  Unread' = Unread
  <2>1. wire' = piece
    BY <1>5, <1>11
  <2>2. wire' \o rest' = wire \o rest
    BY <1>1, <1>6, <2>1, ConcatEmptySeq
  <2>3. InChunk' = InChunk /\ trigger' = trigger
    BY <1>5 DEF InChunk, uart, mainLoop
  <2> QED
    BY <2>2, <2>3 DEF Unread
<1>12. StreamInv'
  BY <1>5, <1>8, <1>11, StreamKept DEF mainLoop
<1> QED
  BY <1>9, <1>10, <1>12

LEMMA RxTriggerInv ==
    ASSUME RxInv, RxTrigger
    PROVE  RxInv'
<1> USE DEF RxInv, RxTrigger
<1>1. wire \in Seq(Byte) /\ wire # <<>> /\ trigger = <<>> /\ rest \in Seq(Byte)
  BY DEF RxTypes, LineInv
<1>2. trigger' = <<Head(wire)>> /\ wire' = Tail(wire)
  OBVIOUS
<1>3. trigger' \in Seq(Byte) /\ wire' \in Seq(Byte) /\ trigger' \o wire' = wire
  BY <1>1, <1>2, HeadOf
<1>4. RxTypes'
  BY <1>3 DEF RxTypes, mainLoop
<1>5. LineInv'
  BY DEF LineInv, mainLoop
<1>6. Unread' = Unread
  <2>1. trigger' \o (wire' \o rest) = (trigger' \o wire') \o rest
    BY <1>1, <1>3, ConcatAssociative
  <2>2. trigger \o (wire \o rest) = wire \o rest
    <3>1. wire \o rest \in Seq(Byte)
      BY <1>1, ConcatProperties
    <3> QED
      BY <1>1, <3>1, ConcatEmptySeq
  <2>3. InChunk' = InChunk /\ rest' = rest
    BY DEF InChunk, mainLoop
  <2> QED
    BY <1>3, <2>1, <2>2, <2>3 DEF Unread
<1>7. StreamInv'
  BY <1>6, StreamKept DEF mainLoop
<1> QED
  BY <1>4, <1>5, <1>7

LEMMA RxChunkInv ==
    ASSUME RxInv, RxChunk
    PROVE  RxInv'
<1> USE DEF RxInv, RxChunk
<1>1. /\ wire \in Seq(Byte) /\ trigger \in Seq(Byte) /\ rest \in Seq(Byte) /\ intact \in 0 .. 2
      /\ pos \in Nat
  BY DEF RxTypes
<1>2. /\ chunk' = trigger \o wire /\ wire' = <<>> /\ trigger' = <<>> /\ received' = TRUE
      /\ intact' = IF received \/ pos > 0 THEN 0 ELSE intact
      /\ UNCHANGED <<sending, rest, pos, hdlc, got, owed>>
  OBVIOUS
<1>3. chunk' \in Seq(Byte) /\ <<>> \in Seq(Byte)
  BY <1>1, <1>2, ConcatProperties
<1>4. intact' \in {0, intact}
  BY <1>2
<1>5. RxTypes'
  BY <1>2, <1>3, <1>4 DEF RxTypes
<1>6. LineInv'
  BY <1>1, <1>2, <1>4 DEF LineInv
<1>7. ASSUME intact' > 0
      PROVE  intact' = intact /\ Unread' = Unread
  <2>1. ~received /\ pos = 0 /\ intact' = intact
    BY <1>1, <1>2, <1>7
  <2>2. InChunk = <<>>
    BY <2>1 DEF InChunk
  <2>3. InChunk' = trigger \o wire
    <3>1. InChunk' = SubSeq(chunk', 1, Len(chunk'))
      BY <1>2, <2>1 DEF InChunk
    <3>2. SubSeq(chunk', 1, Len(chunk')) = chunk'
      BY <1>3
    <3> QED
      BY <1>2, <3>1, <3>2
  <2>4. trigger' \o (wire' \o rest') = rest
    BY <1>1, <1>2, ConcatEmptySeq
  <2>5. Unread' = (trigger \o wire) \o rest
    BY <2>3, <2>4 DEF Unread
  <2>6. (trigger \o wire) \o rest = trigger \o (wire \o rest)
    <3>1. \A x, y, z \in Seq(Byte) : (x \o y) \o z = x \o (y \o z)
      BY ConcatAssociative
    <3> QED
      BY <1>1, <3>1
  <2>7. Unread = trigger \o (wire \o rest)
    <3>1. trigger \o (wire \o rest) \in Seq(Byte)
      BY <1>1, ConcatProperties
    <3> QED
      BY <2>2, <3>1, ConcatEmptySeq DEF Unread
  <2> QED
    BY <2>1, <2>5, <2>6, <2>7
<1>8. StreamInv'
  BY <1>2, <1>7, StreamKept
<1> QED
  BY <1>5, <1>6, <1>8

LEMMA RxNothingInv ==
    ASSUME RxInv, RxNothing
    PROVE  RxInv'
<1> USE DEF RxInv, RxNothing
<1>1. RxTypes'
  <2>1. <<>> \in Seq(Byte)
    OBVIOUS
  <2> QED
    BY <2>1 DEF RxTypes, line, mainLoop
<1>2. LineInv'
  BY DEF LineInv
<1>3. StreamInv'
  BY DEF StreamInv
<1> QED
  BY <1>1, <1>2, <1>3

LEMMA BackoffOverInv ==
    ASSUME RxInv, BackoffOver
    PROVE  RxInv'
<1> USE DEF RxInv, BackoffOver, line, mainLoop
<1>1. RxTypes'
  BY DEF RxTypes
<1>2. LineInv'
  BY DEF LineInv
<1>3. Unread' = Unread
  BY DEF Unread, InChunk
<1>4. StreamInv'
  BY <1>3, StreamKept
<1> QED
  BY <1>1, <1>2, <1>4

LEMMA StartDecodingInv ==
    ASSUME RxInv, StartDecoding
    PROVE  RxInv'
<1> USE DEF RxInv, StartDecoding, line, uart
<1>1. RxTypes'
  BY DEF RxTypes
<1>2. LineInv'
  BY DEF LineInv
<1>3. Unread' = Unread
  <2>1. InChunk' = InChunk
    BY DEF InChunk
  <2> QED
    BY <2>1 DEF Unread
<1>4. StreamInv'
  BY <1>3, StreamKept
<1> QED
  BY <1>1, <1>2, <1>4

LEMMA DecodingEndsInv ==
    ASSUME RxInv, DecodingEnds
    PROVE  RxInv'
<1> USE DEF RxInv, DecodingEnds, LeaveLoop, line, uart
<1>0. chunk \in Seq(Byte) /\ pos \in Nat /\ received \in BOOLEAN /\ intact \in 0 .. 2
  BY DEF RxTypes
<1>1. RxTypes'
  <2>1. chunk' \in Seq(Byte)
    BY <1>0
  <2> QED
    BY <2>1 DEF RxTypes
<1>2. LineInv'
  BY DEF LineInv
<1>3. ASSUME intact' > 0
      PROVE  Unread' = Unread
  <2>1. Len(chunk) \in Nat /\ pos > Len(chunk) /\ pos > 0
    BY <1>0
  <2>2. ~received
    BY <1>3, <2>1 DEF LineInv
  <2>3. InChunk = <<>>
    BY <1>0, <2>1 DEF InChunk
  <2>4. InChunk' = <<>>
    BY <2>2 DEF InChunk
  <2> QED
    BY <2>3, <2>4 DEF Unread
<1>4. StreamInv'
  BY <1>3, StreamKept
<1> QED
  BY <1>1, <1>2, <1>4

LEMMA SettledUnread ==
    ASSUME RxInv, Settled
    PROVE  Unread = <<>>
BY DEF RxInv, Settled, LineInv, Unread, InChunk

\* When an intact frame has been dealt with, the receiver is ready for the next one.
LEMMA SettledStream ==
    ASSUME RxInv, Settled, intact > 0
    PROVE  Fresh(hdlc) /\ (intact = 2 => got = <<sending>>)
<1>1. sending \in Payload /\ intact \in 1 .. 2
  BY DEF RxInv, RxTypes, LineInv
<1>2. PICK E : E = Encode(sending)
  OBVIOUS
<1>3. E \in Seq(Byte) /\ Len(E) \in Nat
  BY <1>1, <1>2, FrameOfPayload
<1>4. PICK c \in 0 .. Len(E) : StreamAt(c, sending, Unread, intact, hdlc, got)
  BY <1>2 DEF RxInv, StreamInv
<1>5. SubSeq(E, c + 1, Len(E)) = <<>>
  BY <1>2, <1>4, SettledUnread DEF StreamAt
<1>6. c = Len(E)
  <2>1. Len(SubSeq(E, c + 1, Len(E))) = Len(E) - c
    BY <1>3, TailOf
  <2>2. Len(SubSeq(E, c + 1, Len(E))) = 0
    <3>1. Len(<<>>) = 0
      OBVIOUS
    <3> QED
      BY <1>5, <3>1, Zenon
  <2> QED
    BY <1>3, <2>1, <2>2
<1>7. CASE intact = 1
  BY <1>2, <1>4, <1>6, <1>7 DEF StreamAt, Recovers
<1>8. CASE intact = 2
  BY <1>2, <1>4, <1>6, <1>8 DEF StreamAt, Follows
<1> QED
  BY <1>1, <1>7, <1>8

LEMMA SendFrameInv ==
    ASSUME RxInv, NEW p \in Payload, SendFrame(p)
    PROVE  RxInv'
<1>1. /\ Settled
      /\ sending' = p /\ rest' = Encode(p) /\ got' = <<>>
      /\ intact' = IF intact = 2 THEN 2 ELSE intact + 1
      /\ UNCHANGED <<wire, uart, mainLoop>>
  BY DEF SendFrame
<1>2. PICK E : E = Encode(p)
  OBVIOUS
<1>3. E \in Seq(Byte) /\ Len(E) \in Nat /\ Len(E) > 2
  BY <1>2, FrameOfPayload
<1>4. intact \in 0 .. 2
  BY DEF RxInv, RxTypes
<1>5. intact' \in 1 .. 2 /\ (intact' = 2 => intact > 0)
  BY <1>1, <1>4
<1>6. RxTypes'
  BY <1>1, <1>2, <1>3, <1>5 DEF RxInv, RxTypes, uart, mainLoop
<1>7. LineInv'
  BY <1>1 DEF RxInv, LineInv, Settled, uart, mainLoop
<1>8. Unread' = E
  <2>1. InChunk' = <<>> /\ trigger' = <<>> /\ wire' = <<>>
    BY <1>1 DEF RxInv, LineInv, Settled, InChunk, uart, mainLoop
  <2> QED
    BY <1>1, <1>2, <1>3, <2>1, ConcatEmptySeq DEF Unread
<1>9. SubSeq(E, 0 + 1, Len(E)) = E
  BY <1>3
<1>10. ASSUME intact' = 2
       PROVE  Fresh(hdlc')
  BY <1>1, <1>5, <1>10, SettledStream DEF mainLoop
<1>11. StreamAt(0, p, E, intact', hdlc', got')
  <2>1. intact' = 1 => Recovers(E, 0, hdlc')
    BY <1>3 DEF Recovers
  <2>2. intact' = 2 => Follows(p, E, 0, hdlc', got')
    BY <1>1, <1>3, <1>10 DEF Follows
  <2> QED
    BY <1>2, <1>9, <2>1, <2>2 DEF StreamAt
<1>12. StreamInv'
  <2>1. 0 \in 0 .. Len(Encode(p))
    BY <1>2, <1>3
  <2>2. \E c \in 0 .. Len(Encode(sending')) : StreamAt(c, sending', Unread', intact', hdlc', got')
    BY <1>1, <1>8, <1>11, <2>1
  <2> QED
    BY <2>2 DEF StreamInv
<1> QED
  BY <1>6, <1>7, <1>12 DEF RxInv

\* What the main loop does with what RxByte returns.
After(g) == IF g.state = "ready" THEN HdlcIdle ELSE g

LEMMA RecoversStep ==
    ASSUME NEW p \in Payload, NEW E, E = Encode(p), NEW c \in Nat, c + 1 \in 1 .. Len(E),
           NEW h \in HdlcType, Recovers(E, c, h)
    PROVE  Recovers(E, c + 1, After(RxByte(h, E[c + 1])))
<1>1. PICK q : q = WithFcs(p)
  OBVIOUS
<1>2. PICK all : all = Body(q, Len(q))
  OBVIOUS
<1>3. q \in Seq(Byte) /\ q # <<>> /\ Len(q) < BufferSize
  BY <1>1, FrameOfPayload
<1>4. /\ E \in Seq(Byte) /\ Len(E) = Len(all) + 2 /\ Len(all) > 0 /\ all \in Seq(Byte)
      /\ E[1] = Flag /\ E[Len(E)] = Flag
      /\ \A i \in 2 .. Len(E) - 1 : E[i] # Flag
      /\ E[Len(E) - 1] # Escape
  BY <1>1, <1>2, <1>3, FrameBytes
<1>5. Len(E) \in Nat /\ Len(E) > 2
  BY <1>4
<1>6. PICK x, g : x = E[c + 1] /\ g = RxByte(h, x)
  OBVIOUS
<1>7. h.buffer \in Seq(Byte) /\ h.escape \in BOOLEAN
  BY DEF HdlcType
<1>8. \A b, e : Receiving(b, e).state = "receiving" /\ Receiving(b, e).buffer = b /\ Receiving(b, e).escape = e
  BY DEF Receiving
<1>9. Broken.state = "error" /\ HdlcIdle.state = "idle" /\ \A b : Ready(b).state = "ready"
  BY DEF Broken, HdlcIdle, Ready
<1>10. CASE c = 0
  <2>1. c + 1 \notin 2 .. Len(E) - 1 /\ c + 1 # Len(E)
    <3>1. \A l : l \in Nat /\ l > 2 => 0 + 1 \notin 2 .. l - 1 /\ 0 + 1 # l
      OBVIOUS
    <3> QED
      BY <1>5, <1>10, <3>1, Zenon
  <2> QED
    BY <2>1 DEF Recovers
<1>11. CASE c + 1 \in 2 .. Len(E) - 1
  <2>1. x # Flag /\ c + 1 # Len(E)
    BY <1>4, <1>5, <1>6, <1>11
  <2>2. SUFFICES After(g).state # "receiving" \/ After(g).buffer # <<>> \/ x = Escape
    BY <1>6, <2>1 DEF Recovers
  <2>3. CASE h.state # "receiving"
    BY <1>6, <1>9, <2>1, <2>3, Waits DEF After
  <2>4. CASE h.state = "receiving" /\ BufferFull(h)
    BY <1>6, <1>9, <2>1, <2>4, Receives DEF After
  <2>5. CASE h.state = "receiving" /\ ~BufferFull(h) /\ x # Escape
    <3>1. g \in {Broken, AddByte(h, x), AddByte(h, Escape), AddByte(h, Flag)}
      BY <1>6, <1>7, <2>1, <2>5, Receives
    <3>2. \A y : Append(h.buffer, y) # <<>>
      BY <1>7
    <3>3. \A y : AddByte(h, y).state = "receiving" /\ AddByte(h, y).buffer # <<>>
      <4> TAKE y
      <4>1. AddByte(h, y) = Receiving(Append(h.buffer, y), FALSE)
        BY DEF AddByte
      <4> QED
        <5>1. PICK b : b = Append(h.buffer, y)
          OBVIOUS
        <5>2. Receiving(b, FALSE).state = "receiving" /\ Receiving(b, FALSE).buffer = b
          BY DEF Receiving
        <5>3. b # <<>>
          BY <3>2, <5>1
        <5> QED
          BY <4>1, <5>1, <5>2, <5>3, Zenon
    <3> QED
      BY <1>9, <3>1, <3>3 DEF After
  <2> QED
    BY <2>3, <2>4, <2>5
<1>12. CASE c + 1 = Len(E)
  <2>1. x = Flag /\ c \in 2 .. Len(E) - 1 /\ E[c] # Escape /\ ~ c + 1 \in 2 .. Len(E) - 1
    <3>1. c = Len(E) - 1 /\ c \in 2 .. Len(E) - 1
      BY <1>5, <1>12
    <3> QED
      BY <1>4, <1>5, <1>6, <1>12, <3>1
  <2>2. h.state # "receiving" \/ h.buffer # <<>>
    BY <2>1 DEF Recovers
  <2>3. SUFFICES Fresh(After(g))
    BY <1>6, <2>1 DEF Recovers
  <2>4. CASE h.state # "receiving"
    <3>1. g = Receiving(<<>>, FALSE)
      BY <1>6, <2>1, <2>4, Waits
    <3> QED
      BY <1>8, <3>1 DEF After, Fresh
  <2>5. CASE h.state = "receiving" /\ h.buffer # <<>>
    <3>1. g \in {Broken, Ready(h.buffer)}
      BY <1>6, <2>1, <2>5, Receives
    <3> QED
      BY <1>9, <3>1 DEF After, Fresh
  <2> QED
    BY <2>2, <2>4, <2>5
<1>13. c = 0 \/ c + 1 \in 2 .. Len(E) - 1 \/ c + 1 = Len(E)
  BY <1>5
<1> QED
  BY <1>10, <1>11, <1>12, <1>13

LEMMA FollowsStep ==
    ASSUME NEW p \in Payload, NEW E, E = Encode(p), NEW c \in Nat, c + 1 \in 1 .. Len(E),
           NEW h \in HdlcType, NEW got0, Follows(p, E, c, h, got0),
           NEW g, g = RxByte(h, E[c + 1])
    PROVE  /\ got0 = <<>>
           /\ c + 1 < Len(E) => g.state = "receiving" /\ Follows(p, E, c + 1, g, got0)
           /\ c + 1 = Len(E) => g.state = "ready" /\ Decoded(g) = p
<1>1. PICK q : q = WithFcs(p)
  OBVIOUS
<1>2. PICK all : all = Body(q, Len(q))
  OBVIOUS
<1>3. q \in Seq(Byte) /\ q # <<>> /\ Len(q) < BufferSize /\ FcsOk(q) /\ Decoded(Ready(q)) = p
  BY <1>1, FrameOfPayload
<1>4. /\ E \in Seq(Byte) /\ Len(E) = Len(all) + 2 /\ Len(all) > 0 /\ all \in Seq(Byte)
      /\ E[1] = Flag /\ E[Len(E)] = Flag
      /\ \A i \in 2 .. Len(E) - 1 : E[i] = all[i - 1]
  BY <1>1, <1>2, <1>3, FrameBytes
<1>5. Len(E) \in Nat /\ Len(E) > 2
  BY <1>4
<1>6. CASE c = 0
  <2>1. Fresh(h) /\ got0 = <<>>
    BY <1>6 DEF Follows
  <2>2. g = RxByte(h, Flag)
    BY <1>4, <1>6
  <2>3. g.state = "receiving" /\ g.buffer = <<>> /\ ~g.escape
    <3>1. CASE h.state # "receiving"
      BY <2>2, <3>1, Waits DEF Receiving
    <3>2. CASE h.state = "receiving" /\ h.buffer = <<>> /\ ~h.escape
      BY <2>2, <3>2, Receives
    <3> QED
      BY <2>1, <3>1, <3>2 DEF Fresh
  <2>4. Body(q, 0) = <<>> /\ 0 \in 0 .. Len(q) /\ SubSeq(q, 1, 0) = <<>>
    BY <1>3, BodyStep
  <2>5. InFrame(q, 1, g)
    BY <2>3, <2>4 DEF InFrame
  <2>6. c + 1 = 1 /\ 1 < Len(E)
    BY <1>5, <1>6
  <2>7. Follows(p, E, 1, g, got0)
    <3>1. 1 # 0 /\ 1 # Len(E)
      <4>1. \A l : l \in Nat /\ l > 2 => 1 # l
        OBVIOUS
      <4>2. 1 # Len(E)
        BY <1>5, <4>1, Zenon
      <4> QED
        BY <4>2
    <3> QED
      BY <1>1, <2>1, <2>5, <3>1, Zenon DEF Follows
  <2> QED
    BY <1>5, <2>1, <2>3, <2>6, <2>7
<1>7. CASE c \in 1 .. Len(E) - 1
  <2>1. InFrame(q, c, h) /\ got0 = <<>>
    BY <1>1, <1>7 DEF Follows
  <2>2. CASE c + 1 < Len(E)
    <3>1. c \in 1 .. Len(all) /\ c + 1 \in 2 .. Len(E) - 1 /\ (c + 1) - 1 = c
      BY <1>4, <1>5, <1>7, <2>2
    <3>2. g = RxByte(h, all[c])
      BY <1>4, <3>1
    <3>3. InFrame(q, c + 1, g)
      BY <1>2, <1>3, <2>1, <3>1, <3>2, InFrameStep
    <3>4. g.state = "receiving"
      BY <3>3 DEF InFrame
    <3>5. Follows(p, E, c + 1, g, got0)
      BY <1>1, <1>5, <2>1, <2>2, <3>1, <3>3 DEF Follows
    <3> QED
      BY <2>1, <2>2, <3>4, <3>5
  <2>3. CASE c + 1 = Len(E)
    <3>1. c = Len(all) + 1
      BY <1>4, <1>5, <2>3
    <3>2. g = RxByte(h, Flag)
      BY <1>4, <2>3
    <3>3. InFrame(q, Len(all) + 1, h)
      BY <2>1, <3>1
    <3>4. g = Ready(q)
      BY <1>2, <1>3, <3>2, <3>3, InFrameEnd
    <3> QED
      BY <1>3, <2>1, <2>3, <3>4 DEF Ready
  <2> QED
    BY <1>5, <1>7, <2>1, <2>2, <2>3
<1> QED
  BY <1>5, <1>6, <1>7

LEMMA DecodeByteInv ==
    ASSUME RxInv, DecodeByte
    PROVE  RxInv'
<1>1. PICK x : x = chunk[pos]
  OBVIOUS
<1>2. PICK h : h = RxByte(hdlc, x)
  OBVIOUS
<1>3. /\ pos \in 1 .. Len(chunk)
      /\ hdlc' = After(h)
      /\ got' = IF h.state = "ready" /\ Decoded(h) # <<>> THEN Append(got, Decoded(h)) ELSE got
      /\ IF h.state \in {"ready", "error"} THEN LeaveLoop ELSE pos' = pos + 1 /\ UNCHANGED chunk
      /\ UNCHANGED <<line, uart, received, owed, intact>>
  BY <1>1, <1>2 DEF DecodeByte, After
<1>4. /\ chunk \in Seq(Byte) /\ pos \in Nat /\ received \in BOOLEAN /\ intact \in 0 .. 2
      /\ hdlc \in HdlcType /\ trigger \in Seq(Byte) /\ wire \in Seq(Byte) /\ rest \in Seq(Byte)
  BY DEF RxInv, RxTypes
<1>5. x \in Byte
  BY <1>1, <1>3, <1>4
<1>6. After(h) \in HdlcType
  <2>1. h \in HdlcType \/ \E b \in Seq(Byte) : h = Ready(b)
    BY <1>2, <1>4, <1>5, RxByteType
  <2>2. HdlcIdle \in HdlcType
    BY DEF HdlcIdle, HdlcType
  <2>3. \A b : Ready(b).state = "ready"
    BY DEF Ready
  <2> QED
    BY <2>1, <2>2, <2>3 DEF After
<1>7. pos' \in Nat /\ chunk' \in Seq(Byte)
  <2>1. pos' = 0 \/ pos' = pos + 1
    BY <1>3 DEF LeaveLoop
  <2>2. chunk' = chunk \/ chunk' = <<>>
    BY <1>3 DEF LeaveLoop
  <2>3. <<>> \in Seq(Byte)
    OBVIOUS
  <2>4. pos + 1 \in Nat /\ 0 \in Nat
    BY <1>4
  <2> QED
    BY <1>4, <2>1, <2>2, <2>3, <2>4, Zenon
<1>8. RxTypes'
  BY <1>3, <1>6, <1>7 DEF RxInv, RxTypes, line, uart
<1>9. intact > 0 => sending \in Payload /\ ~received
  BY <1>3 DEF RxInv, LineInv
<1>10. LineInv'
  BY <1>3, <1>9 DEF RxInv, LineInv, line, uart
<1>11. ASSUME intact > 0
       PROVE  \E c \in 0 .. Len(Encode(sending)) : StreamAt(c, sending, Unread', intact, hdlc', got')
  <2>1. PICK E : E = Encode(sending)
    OBVIOUS
  <2>2. sending \in Payload /\ ~received /\ E \in Seq(Byte) /\ Len(E) \in Nat
    BY <1>9, <1>11, <2>1, FrameOfPayload
  <2>3. PICK c \in 0 .. Len(E) : StreamAt(c, sending, Unread, intact, hdlc, got)
    BY <1>11, <2>1 DEF RxInv, StreamInv
  <2>4. PICK D : D = SubSeq(chunk, pos + 1, Len(chunk))
    OBVIOUS
  <2>5. PICK R : R = trigger \o (wire \o rest)
    OBVIOUS
  <2>6. R \in Seq(Byte)
    BY <1>4, <2>5, ConcatProperties
  <2>7. D \in Seq(Byte) /\ SubSeq(chunk, pos, Len(chunk)) = <<x>> \o D
    <3>1. pos \in 0 .. Len(chunk) /\ pos - 1 \in 0 .. Len(chunk) /\ Len(chunk) \in Nat
      BY <1>3, <1>4
    <3>2. PICK S : S = SubSeq(chunk, (pos - 1) + 1, Len(chunk))
      OBVIOUS
    <3>3. /\ S \in Seq(Byte) /\ Len(S) = Len(chunk) - (pos - 1)
          /\ \A i \in 1 .. Len(S) : S[i] = chunk[(pos - 1) + i]
      <4>1. PICK d, s : d = pos - 1 /\ s = chunk
        OBVIOUS
      <4>2. s \in Seq(Byte) /\ d \in 0 .. Len(s) /\ S = SubSeq(s, d + 1, Len(s))
        BY <1>4, <3>1, <3>2, <4>1
      <4>3. S \in Seq(Byte) /\ Len(S) = Len(s) - d /\ \A i \in 1 .. Len(S) : S[i] = s[d + i]
        BY <4>2, TailOf
      <4> QED
        BY <4>1, <4>3, Zenon
    <3>4. D \in Seq(Byte) /\ Len(D) = Len(chunk) - pos /\ \A i \in 1 .. Len(D) : D[i] = chunk[pos + i]
      <4>1. PICK d, s : d = pos /\ s = chunk
        OBVIOUS
      <4>2. s \in Seq(Byte) /\ d \in 0 .. Len(s) /\ D = SubSeq(s, d + 1, Len(s))
        BY <1>4, <2>4, <3>1, <4>1
      <4>3. D \in Seq(Byte) /\ Len(D) = Len(s) - d /\ \A i \in 1 .. Len(D) : D[i] = s[d + i]
        BY <4>2, TailOf
      <4> QED
        BY <4>1, <4>3, Zenon
    <3>5. S = SubSeq(chunk, pos, Len(chunk))
      <4>1. (pos - 1) + 1 = pos
        BY <1>4
      <4> QED
        BY <3>2, <4>1
    <3>6. S # <<>> /\ 1 \in 1 .. Len(S) /\ (pos - 1) + 1 = pos
      BY <1>3, <1>4, <3>1, <3>3
    <3>7. Head(S) = x
      BY <1>1, <3>3, <3>6
    <3>8. Tail(S) \in Seq(Byte) /\ Len(Tail(S)) = Len(S) - 1 /\ \A i \in 1 .. Len(Tail(S)) : Tail(S)[i] = S[i + 1]
      BY <3>3, <3>6, HeadTailProperties
    <3>9. \A i \in 1 .. Len(D) : Tail(S)[i] = D[i]
      <4> TAKE i \in 1 .. Len(D)
      <4>1. i \in 1 .. Len(Tail(S)) /\ i + 1 \in 1 .. Len(S) /\ (pos - 1) + (i + 1) = pos + i
        BY <1>4, <3>1, <3>3, <3>4, <3>8
      <4> QED
        BY <3>3, <3>4, <3>8, <4>1
    <3>10. Len(Tail(S)) = Len(D)
      BY <3>1, <3>3, <3>4, <3>8
    <3>11. D = Tail(S)
      BY <3>4, <3>8, <3>9, <3>10, SeqEqual
    <3>12. <<Head(S)>> \o Tail(S) = S
      BY <3>3, <3>6, HeadOf
    <3> QED
      BY <3>4, <3>5, <3>7, <3>11, <3>12
  <2>8. Unread = <<x>> \o (D \o R)
    <3>1. InChunk = <<x>> \o D
      <4>1. pos > 0
        BY <1>3, <1>4
      <4>2. InChunk = SubSeq(chunk, pos, Len(chunk))
        BY <2>2, <4>1 DEF InChunk
      <4> QED
        BY <2>7, <4>2, Zenon
    <3>2. <<x>> \in Seq(Byte)
      BY <1>5
    <3>3. (<<x>> \o D) \o R = <<x>> \o (D \o R)
      BY <2>6, <2>7, <3>2, ConcatAssociative
    <3> QED
      BY <2>5, <3>1, <3>3 DEF Unread
  <2>9. D \o R \in Seq(Byte)
    BY <2>6, <2>7, ConcatProperties
  <2>10. Unread = SubSeq(E, c + 1, Len(E))
    BY <2>1, <2>3 DEF StreamAt
  <2>11. c + 1 \in 0 .. Len(E) /\ x = E[c + 1] /\ D \o R = SubSeq(E, (c + 1) + 1, Len(E))
    <3>1. PICK U : U = Unread
      OBVIOUS
    <3>2. PICK V : V = D \o R
      OBVIOUS
    <3>3. U = SubSeq(E, c + 1, Len(E)) /\ U = <<x>> \o V /\ V \in Seq(Byte)
      BY <2>8, <2>9, <2>10, <3>1, <3>2
    <3> QED
      BY <1>5, <2>2, <2>3, <3>2, <3>3, NextByte
  <2>12. c \in Nat /\ c + 1 \in 1 .. Len(E)
    BY <2>2, <2>3, <2>11
  <2>13. h = RxByte(hdlc, E[c + 1])
    BY <1>2, <2>11
  <2>14. CASE h.state \notin {"ready", "error"}
    <3>1. Unread' = D \o R
      <4>1. pos' = pos + 1 /\ pos + 1 > 0 /\ chunk' = chunk /\ received' = received
        BY <1>3, <1>4, <2>14
      <4>2. InChunk' = D
        BY <2>4, <4>1 DEF InChunk
      <4> QED
        BY <1>3, <2>5, <4>2 DEF Unread, line, uart
    <3>2. intact = 1 => Recovers(E, c + 1, hdlc')
      BY <1>3, <1>4, <2>1, <2>2, <2>3, <2>12, <2>13, RecoversStep DEF StreamAt
    <3>3. ASSUME intact = 2
          PROVE  Follows(sending, E, c + 1, hdlc', got')
      <4>1. Follows(sending, E, c, hdlc, got)
        BY <2>1, <2>3, <3>3 DEF StreamAt
      <4>2. h.state # "ready" /\ hdlc' = h /\ got' = got
        BY <1>3, <2>14 DEF After
      <4>3. /\ c + 1 < Len(E) => Follows(sending, E, c + 1, h, got)
            /\ c + 1 = Len(E) => h.state = "ready"
        BY <1>4, <2>1, <2>2, <2>12, <2>13, <4>1, FollowsStep
      <4>4. c + 1 < Len(E)
        BY <2>2, <2>12, <4>2, <4>3
      <4> QED
        BY <4>2, <4>3, <4>4
    <3>4. StreamAt(c + 1, sending, Unread', intact, hdlc', got')
      BY <2>1, <2>11, <3>1, <3>2, <3>3 DEF StreamAt
    <3> QED
      BY <2>1, <2>11, <3>4
  <2>15. CASE h.state \in {"ready", "error"}
    <3>1. Unread' = R
      <4>1. pos' = 0 /\ received' = FALSE
        BY <1>3, <2>2, <2>15 DEF LeaveLoop
      <4>2. InChunk' = <<>>
        BY <4>1 DEF InChunk
      <4>3. <<>> \o R = R
        BY <2>6, ConcatEmptySeq
      <4> QED
        BY <1>3, <2>5, <4>2, <4>3 DEF Unread, line, uart
    <3>2. PICK d : d = (c + 1) + Len(D)
      OBVIOUS
    <3>3. d \in 0 .. Len(E) /\ R = SubSeq(E, d + 1, Len(E))
      <4>1. PICK b : b = c + 1
        OBVIOUS
      <4>2. b \in 0 .. Len(E) /\ D \o R = SubSeq(E, b + 1, Len(E)) /\ d = b + Len(D)
        BY <2>11, <3>2, <4>1
      <4> QED
        BY <2>2, <2>6, <2>7, <4>2, Dropped
    <3>4. hdlc'.state # "receiving"
      BY <1>3, <2>15 DEF After, HdlcIdle
    <3>5. Recovers(E, d, hdlc')
      BY <3>4 DEF Recovers, Fresh
    <3>6. ASSUME intact = 2
          PROVE  Follows(sending, E, d, hdlc', got')
      <4>1. Follows(sending, E, c, hdlc, got)
        BY <2>1, <2>3, <3>6 DEF StreamAt
      <4>2. /\ got = <<>>
            /\ c + 1 < Len(E) => h.state = "receiving"
            /\ c + 1 = Len(E) => h.state = "ready" /\ Decoded(h) = sending
        BY <1>4, <2>1, <2>2, <2>12, <2>13, <4>1, FollowsStep
      <4>3. c + 1 = Len(E)
        BY <2>2, <2>12, <2>15, <4>2
      <4>4. d = Len(E)
        <5>1. Len(D) \in Nat
          BY <2>7
        <5> QED
          BY <2>2, <3>2, <3>3, <4>3, <5>1
      <4>5. got' = <<sending>>
        <5>1. sending # <<>>
          BY <2>2, FrameOfPayload
        <5>2. Append(<<>>, sending) = <<sending>>
          OBVIOUS
        <5> QED
          BY <1>3, <4>2, <4>3, <5>1, <5>2
      <4>6. d # 0 /\ d \notin 1 .. Len(E) - 1
        BY <2>2, <2>12, <4>3, <4>4
      <4> QED
        BY <3>4, <4>5, <4>6 DEF Follows, Fresh
    <3>7. StreamAt(d, sending, Unread', intact, hdlc', got')
      BY <2>1, <3>1, <3>3, <3>5, <3>6 DEF StreamAt
    <3> QED
      BY <2>1, <3>3, <3>7
  <2> QED
    BY <2>14, <2>15
<1>12. StreamInv'
  <2>1. intact' = intact /\ sending' = sending
    BY <1>3 DEF line
  <2> QED
    BY <1>11, <2>1, Zenon DEF StreamInv
<1> QED
  BY <1>8, <1>10, <1>12 DEF RxInv

LEMMA StutterRxInv ==
    ASSUME RxInv, UNCHANGED rxVars
    PROVE  RxInv'
<1> USE DEF RxInv, rxVars, line, uart, mainLoop
<1>1. RxTypes'
  BY DEF RxTypes
<1>2. LineInv'
  BY DEF LineInv
<1>3. Unread' = Unread
  BY DEF Unread, InChunk
<1>4. StreamInv'
  BY <1>3, StreamKept
<1> QED
  BY <1>1, <1>2, <1>4

\* What the line, the interrupts and the main loop leave true.
THEOREM UartRxInvariant == UartRxSpec => []RxInv
<1>1. UartRxInit => RxInv
  BY InitRxInv
<1>2. ASSUME RxInv, [UartRxNext]_rxVars
      PROVE  RxInv'
  <2>1. CASE SendPiece
    BY <1>2, <2>1, SendPieceInv
  <2>2. CASE \E p \in Payload : SendFrame(p)
    BY <1>2, <2>2, SendFrameInv
  <2>3. CASE RxTrigger
    BY <1>2, <2>3, RxTriggerInv
  <2>4. CASE RxChunk
    BY <1>2, <2>4, RxChunkInv
  <2>5. CASE RxNothing
    BY <1>2, <2>5, RxNothingInv
  <2>6. CASE BackoffOver
    BY <1>2, <2>6, BackoffOverInv
  <2>7. CASE StartDecoding
    BY <1>2, <2>7, StartDecodingInv
  <2>8. CASE DecodeByte
    BY <1>2, <2>8, DecodeByteInv
  <2>9. CASE DecodingEnds
    BY <1>2, <2>9, DecodingEndsInv
  <2>10. CASE UNCHANGED rxVars
    BY <1>2, <2>10, StutterRxInv
  <2> QED
    BY <1>2, <2>1, <2>2, <2>3, <2>4, <2>5, <2>6, <2>7, <2>8, <2>9, <2>10
       DEF UartRxNext, Computer, UartIsr, MainLoop
<1> QED
  BY <1>1, <1>2, PTL DEF UartRxSpec

\* Damage to a frame costs at most one intact frame after it.
THEOREM Heals == UartRxSpec => []HealsAfterOneFrame
<1>1. RxInv => HealsAfterOneFrame
  <2> SUFFICES ASSUME RxInv, Settled, intact = 2
               PROVE  got = <<sending>>
    BY DEF HealsAfterOneFrame
  <2>1. intact > 0
    OBVIOUS
  <2> QED
    BY <2>1, SettledStream
<1> QED
  BY <1>1, UartRxInvariant, PTL

\* While frames are not damaged, the radio is given nothing but what was sent, and that once.
THEOREM IntactOnce == UartRxSpec => [](intact = 2 => got \in {<<>>, <<sending>>})
<1>1. RxInv => (intact = 2 => got \in {<<>>, <<sending>>})
  <2> SUFFICES ASSUME RxInv, intact = 2
               PROVE  got \in {<<>>, <<sending>>}
    OBVIOUS
  <2>1. PICK E : E = Encode(sending)
    OBVIOUS
  <2>2. PICK c \in 0 .. Len(E) : StreamAt(c, sending, Unread, intact, hdlc, got)
    BY <2>1 DEF RxInv, StreamInv
  <2>3. Follows(sending, E, c, hdlc, got)
    BY <2>1, <2>2 DEF StreamAt
  <2>4. sending \in Payload
    BY DEF RxInv, LineInv
  <2>5. Len(E) \in Nat
    BY <2>1, <2>4, FrameOfPayload
  <2>6. c = 0 \/ c \in 1 .. Len(E) - 1 \/ c = Len(E)
    BY <2>5
  <2> QED
    BY <2>3, <2>6 DEF Follows
<1> QED
  BY <1>1, UartRxInvariant, PTL
=============================================================================
