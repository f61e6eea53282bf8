--------------------------- MODULE NodeMac_proof ---------------------------
(***************************************************************************)
(* Proofs about a node: about its MAC (NodeMac), for every set of gateways *)
(* and schedules and every bound, and about the queue its slots take their *)
(* packets from (PacketQueue), for rings of any size.                      *)
(*                                                                         *)
(* NodeInv is the inductive invariant: the safety invariants of NodeMac    *)
(* support each other (a background scan is in a free cell because the     *)
(* node holds one cell and one timer drives it), and need two facts more,  *)
(* Attached and RearmPending.                                              *)
(***************************************************************************)
EXTENDS NodeMac, PacketQueue, SequenceTheorems, TLAPS

\* A node that is past the scan has a gateway and the schedule of that gateway.
Attached ==
    /\ assoc \in {"scanning", "synced", "joining", "joined"}
    /\ assoc # "scanning" => gateway \in Gateway /\ active \in Schedule
    /\ own \in [Schedule -> SUBSET Nat]

\* The radio is waiting to listen again only in a scan, and not in its pauses.
RearmPending == rearm => (scanning \/ bg) /\ phase # "sleep"

NodeInv ==
    /\ Attached
    /\ RearmPending
    /\ AppViewMatches
    /\ OneSchedulingTimer
    /\ ScanOnlyInFreeCells
    /\ OwnCellUnlessDrifted
    /\ JoinRequestReady
    /\ AsleepMeansOff

\* The initial state: the node scans and holds nothing.
LEMMA NodeInvInit == NodeInit => NodeInv
BY DEF NodeInit, NodeInv, Attached, RearmPending, AppViewMatches,
    OneSchedulingTimer, ScanOnlyInFreeCells, OwnCellUnlessDrifted,
    JoinRequestReady, AsleepMeansOff, Joined

\* Every handler, of a timer or of the radio, keeps NodeInv.
LEMMA NodeInvStep ==
    ASSUME NodeInv, [NodeNext]_nodeVars
    PROVE  NodeInv'
<1> USE NodeAssumption DEF NodeInv, Attached, RearmPending, AppViewMatches,
      OneSchedulingTimer, ScanOnlyInFreeCells, OwnCellUnlessDrifted,
      JoinRequestReady, AsleepMeansOff, Joined, FreeForScan, link, scanVars,
      bgVars, joinVars, backoffVars, aliveVars, appVars, history, radioVars
<1>1. CASE LeaveGateway
  BY <1>1 DEF LeaveGateway, BackToScanning, StartScan, Disconnect, Deassign,
      SlotBoundary, ShouldLeave
<1>2. CASE GiveUpJoining
  BY <1>2 DEF GiveUpJoining, BackToScanning, StartScan, SlotBoundary,
      TooLongSynced, JoinTimedOut, ResetBackoff
<1>3. CASE ListenSlot
  BY <1>3 DEF ListenSlot, StartSlot, SlotBoundary, CountDown, StateNow,
      RequestNow, JoinTimedOut, CellAfter
<1>4. CASE UplinkSlot
  BY <1>4 DEF UplinkSlot, StartSlot, SlotBoundary, CountDown, StateNow,
      RequestNow, JoinTimedOut, CellAfter
<1>5. CASE JoinSlot
  BY <1>5 DEF JoinSlot, StartJoining, ReadyToJoin, StartSlot, SlotBoundary, StateNow, RequestNow,
      JoinTimedOut, CellAfter
<1>6. CASE SleepSlot
  <2>1. CASE StartSlot({"S"})
    BY <1>6, <2>1 DEF SleepSlot, ReadyToJoin, StartSlot, SlotBoundary, CountDown, StateNow,
        RequestNow, JoinTimedOut, CellAfter
  <2>2. CASE StartSlot({"U"}) /\ next \notin own[active]
    BY <1>6, <2>2 DEF SleepSlot, ReadyToJoin, StartSlot, SlotBoundary, CountDown, StateNow,
        RequestNow, JoinTimedOut, CellAfter
  <2> QED
    BY <1>6, <2>1, <2>2 DEF SleepSlot, ReadyToJoin
<1>7. CASE ScanSlot
  BY <1>7 DEF ScanSlot, StartSlot, SlotBoundary, CellAfter
<1>8. CASE EndScanAgain
  BY <1>8 DEF EndScanAgain, StartScan
<1>9. ASSUME NEW g \in Gateway, EndScanSync(g) PROVE NodeInv'
  BY <1>9 DEF EndScanSync, SyncTo, HandleSynced
<1>10. CASE Dispatch
  BY <1>10 DEF Dispatch
<1>11. CASE ContinueBackgroundScan
  BY <1>11 DEF ContinueBackgroundScan
<1>12. CASE NoHandover
  BY <1>12 DEF NoHandover, StopBackgroundScan
<1>13. ASSUME NEW g \in Gateway, Handover(g) PROVE NodeInv'
  BY <1>13 DEF Handover, HandoverTo, StopBackgroundScan, Disconnect, Deassign, SyncTo, HandleSynced
<1>14. ASSUME NEW g \in Gateway, HandoverFailed(g) PROVE NodeInv'
  BY <1>14 DEF HandoverFailed, HandoverTo, Disconnect, Deassign, StartScan
<1>15. CASE IntraSlotTimer
  <2>1. ASSUME NEW from, NEW to, NEW power, SlotTimer(from, to, power),
               to = "sleep" => power = "off"
        PROVE  NodeInv'
    BY <2>1 DEF SlotTimer, InSlot
  <2> QED
    BY <1>15, <2>1 DEF IntraSlotTimer, Ti2, TxEnds, Ri2, Rie1, Rie2
<1>16. CASE RearmRadio
  BY <1>16 DEF RearmRadio
<1>17. CASE Settle
  BY <1>17 DEF Settle
<1>18. CASE FrameStart
  BY <1>18 DEF FrameStart, InSlot
<1>19. CASE FrameCorrupt
  BY <1>19 DEF FrameCorrupt
<1>20. ASSUME NEW g \in Gateway, NEW roomy \in BOOLEAN, NEW listed \in BOOLEAN,
          ScanBeacon(g, roomy, listed)
      PROVE  NodeInv'
  BY <1>20 DEF ScanBeacon, ScanFrame, InSlot
<1>21. CASE ScanOther
  BY <1>21 DEF ScanOther, ScanFrame, InSlot
<1>22. ASSUME NEW g \in Gateway, NEW roomy \in BOOLEAN, NEW listed \in BOOLEAN,
          RxBeacon(g, roomy, listed)
      PROVE  NodeInv'
  BY <1>22 DEF RxBeacon, SlotGoesOn, SlotFrame, InSlot
<1>23. CASE RxFromGateway
  BY <1>23 DEF RxFromGateway, SlotGoesOn, SlotFrame, InSlot
<1>24. CASE RxOther
  BY <1>24 DEF RxOther, SlotGoesOn, SlotFrame, InSlot
<1>25. CASE RxDrifted
  BY <1>25 DEF RxDrifted, SlotFrame, InSlot
<1>26. ASSUME gateway # NoGateway, NEW c \in CellsIn(active), RxJoinResponse(c)
      PROVE  NodeInv'
  <2>1. c \in Nat /\ gateway \in Gateway /\ active \in Schedule /\ ~bg /\ ~Joined
    BY <1>26 DEF RxJoinResponse, AssignMyself, HandleJoined, SlotGoesOn, SlotFrame, InSlot, CellsIn
  <2>2. Attached'
    BY <1>26, <2>1 DEF RxJoinResponse, AssignMyself, HandleJoined, SlotGoesOn, SlotFrame
  <2>3. OwnCellUnlessDrifted'
    BY <1>26, <2>1 DEF RxJoinResponse, AssignMyself, HandleJoined, SlotGoesOn, SlotFrame
  <2>4. (ScanOnlyInFreeCells /\ OneSchedulingTimer /\ AppViewMatches)'
    BY <1>26, <2>1 DEF RxJoinResponse, AssignMyself, HandleJoined, SlotGoesOn, SlotFrame, InSlot
  <2>5. (RearmPending /\ AsleepMeansOff /\ JoinRequestReady)'
    BY <1>26 DEF RxJoinResponse, AssignMyself, HandleJoined, SlotGoesOn, SlotFrame, InSlot
  <2> QED
    BY <2>2, <2>3, <2>4, <2>5
<1>27. CASE UNCHANGED nodeVars
  BY <1>27 DEF nodeVars
<1> HIDE NodeAssumption DEF NodeInv
<1> QED
  BY <1>1, <1>2, <1>3, <1>4, <1>5, <1>6, <1>7, <1>8, <1>9, <1>10, <1>11,
      <1>12, <1>13, <1>14, <1>15, <1>16, <1>17, <1>18, <1>19, <1>20, <1>21,
      <1>22, <1>23, <1>24, <1>25, <1>26, <1>27 DEF NodeNext, NewSlot,
      ScanTimer, BgTimer, RxFrame

\* NodeInv holds throughout.
THEOREM NodeInvHolds == NodeSafety => []NodeInv
<1>1. NodeInv /\ [NodeNext]_nodeVars => NodeInv'
  BY NodeInvStep
<1> QED
  BY NodeInvInit, <1>1, PTL DEF NodeSafety

-----------------------------------------------------------------------------
(* Types.  What the backoff may be depends on how the powers of two grow.  *)

\* Every draw is one of those of the longest backoff, and counting down keeps it one.
LEMMA DrawGrows ==
    /\ \A n \in BackoffNMin .. BackoffNMax : Draw(n) \subseteq Draw(BackoffNMax)
    /\ 0 \in Draw(BackoffNMax)
    /\ \A b \in Draw(BackoffNMax) : Ticked(b) \in Draw(BackoffNMax)
<1>1. BackoffNMax \in BackoffNMin .. BackoffNMax
  BY NodeAssumption
<1>2. \A n \in BackoffNMin .. BackoffNMax : 2^n \in Nat \ {0} /\ 2^n <= 2^BackoffNMax
  <2> TAKE n \in BackoffNMin .. BackoffNMax
  <2>1. n <= BackoffNMax
    OBVIOUS
  <2> QED
    BY <1>1, <2>1, BackoffsGrow
<1> DEFINE power(n) == 2^n
<1>3. \A n \in BackoffNMin .. BackoffNMax : power(n) \in Nat \ {0} /\ power(n) <= power(BackoffNMax)
  BY <1>2
<1>4. \A n : Draw(n) = 0 .. power(n) - 1
  BY DEF Draw
<1> HIDE DEF power
<1> QED
  BY <1>1, <1>3, <1>4 DEF Ticked

\* Whatever becomes of the attempt to join in a slot, the backoff is in range.
LEMMA BackoffStays ==
    ASSUME NodeTypeOK
    PROVE  /\ LongerBackoffN \in BackoffNMin .. BackoffNMax
           /\ BackoffsNow \subseteq Draw(BackoffNMax)
           /\ \A b \in BackoffsNow : Ticked(b) \in Draw(BackoffNMax)
<1>1. LongerBackoffN \in BackoffNMin .. BackoffNMax
  BY NodeAssumption DEF NodeTypeOK, LongerBackoffN
<1>2. BackoffsNow \subseteq Draw(BackoffNMax)
  BY <1>1, DrawGrows DEF NodeTypeOK, BackoffsNow
<1> QED
  BY <1>1, <1>2, DrawGrows

\* The Boolean part, apart because the provers treat it apart.
Flags == {rearm, scanning, bg, bgNext, capacity, drifted} \subseteq BOOLEAN /\ settled \in BOOLEAN

LEMMA NodeTypeInit == NodeInit => NodeTypeOK
<1> SUFFICES ASSUME NodeInit PROVE NodeTypeOK
  OBVIOUS
<1>1. backoff \in Draw(BackoffNMax)
  BY DrawGrows DEF NodeInit
<1>2. Flags
  BY DEF NodeInit, Flags
<1> QED
  BY <1>1, <1>2, NodeAssumption DEF NodeInit, NodeTypeOK, Flags, Unset, NoCell

LEMMA FirstCell == \A s \in Schedule : 0 \in CellsIn(s) /\ s # NoSchedule
<1> TAKE s \in Schedule
<1>1. NCells[s] \in 1 .. 149
  BY NodeAssumption
<1>2. 0 \in CellsIn(s)
  BY <1>1 DEF CellsIn
<1> QED
  BY <1>2, NodeAssumption

\* What a slot that starts leaves in range, whatever it is used for.
LEMMA SlotTypes ==
    ASSUME NodeTypeOK, NodeInv, NEW types, StartSlot(types)
    PROVE  /\ gateway \in Gateway /\ active \in Schedule
           /\ next \in CellsIn(active) /\ next' \in CellsIn(active)
           /\ NCells[active] \in 1 .. 149
           /\ silence' \in Nat
           /\ backoffN' \in {-1} \cup BackoffNMin .. BackoffNMax
           /\ RequestNow \in Gateway \cup {NoGateway}
           /\ StateNow \in {"scanning", "synced", "joining", "joined"}
           /\ UNCHANGED <<gateway, settled, active, own, timer, rearm, scanning, capacity,
                          pending, appVars, history>>
<1>1. gateway \in Gateway /\ active \in Schedule /\ active # NoSchedule
  BY NodeAssumption DEF StartSlot, SlotBoundary, NodeInv, Attached, OneSchedulingTimer
<1>2. next \in CellsIn(active) /\ NCells[active] \in 1 .. 149
  BY <1>1, NodeAssumption DEF NodeTypeOK
<1>3. next' \in CellsIn(active)
  BY <1>2 DEF StartSlot, CellAfter, CellsIn
<1>4. silence' \in Nat
  BY DEF StartSlot, NodeTypeOK
<1>5. backoffN' \in {-1} \cup BackoffNMin .. BackoffNMax
  BY BackoffStays DEF StartSlot, NodeTypeOK
<1> QED
  BY <1>1, <1>2, <1>3, <1>4, <1>5 DEF StartSlot, NodeTypeOK, RequestNow, StateNow

\* Every handler leaves all that a node keeps in range.
LEMMA NodeTypeStep ==
    ASSUME NodeTypeOK, NodeInv, [NodeNext]_nodeVars
    PROVE  NodeTypeOK'
<1> USE NodeAssumption DEF link, radioVars, scanVars, bgVars, joinVars, backoffVars, aliveVars,
      appVars, history, Unset, NoCell
<1>0. /\ own \in [Schedule -> SUBSET Nat]
      /\ assoc # "scanning" => gateway \in Gateway /\ active \in Schedule
  BY DEF NodeInv, Attached
<1>1. ASSUME NEW cells, own' = [own EXCEPT ![active] = cells],
             active \in Schedule => cells \subseteq {c \in CellsIn(active) : CellType[active][c] = "U"}
      PROVE  \A s \in Schedule : own'[s] \subseteq {c \in CellsIn(s) : CellType[s][c] = "U"}
  BY <1>0, <1>1 DEF NodeTypeOK
<1>2. ASSUME Deassign
      PROVE  \A s \in Schedule : own'[s] \subseteq {c \in CellsIn(s) : CellType[s][c] = "U"}
  BY <1>1, <1>2 DEF Deassign
<1>3. ASSUME NEW g \in Gateway, SyncTo(g)
      PROVE  /\ assoc' = "synced" /\ gateway' = g /\ settled' \in BOOLEAN
             /\ active' \in Schedule /\ active' # NoSchedule
             /\ next' \in CellsIn(active') /\ aux' = "dispatch"
             /\ joinPacket' = g /\ backoffN' = BackoffNMin /\ backoff' \in Draw(BackoffNMax)
  <2>1. active' \in Schedule /\ active' # NoSchedule /\ next' \in CellsIn(active')
    BY <1>3 DEF SyncTo, CellsIn
  <2>2. backoff' \in Draw(BackoffNMax)
    BY <1>3, DrawGrows DEF SyncTo, HandleSynced
  <2>3. settled' \in BOOLEAN
    BY <1>3 DEF SyncTo
  <2> QED
    BY <1>3, <2>1, <2>2, <2>3 DEF SyncTo, HandleSynced
<1>4. \A s \in Schedule : 0 \in CellsIn(s) /\ s # NoSchedule
  BY FirstCell
<1>5. backoff \in Draw(BackoffNMax) /\ 0 \in Draw(BackoffNMax)
  BY DrawGrows DEF NodeTypeOK
<1>11. CASE LeaveGateway
  <2>1. Flags'
    BY <1>11 DEF LeaveGateway, BackToScanning, StartScan, NodeTypeOK, Flags
  <2> QED
    BY <2>1, <1>2, <1>4, <1>11 DEF LeaveGateway, BackToScanning, StartScan, Disconnect, NodeTypeOK, Flags
<1>12. CASE GiveUpJoining
  <2>1. Flags'
    BY <1>12 DEF GiveUpJoining, BackToScanning, StartScan, NodeTypeOK, Flags
  <2> QED
    BY <2>1, <1>4, <1>5, <1>12 DEF GiveUpJoining, BackToScanning, StartScan, ResetBackoff, NodeTypeOK, Flags
<1>13. CASE ListenSlot
  BY <1>13, SlotTypes, BackoffStays DEF ListenSlot, CountDown, FullScanGoesOn, NodeTypeOK
<1>14. CASE UplinkSlot
  BY <1>14, SlotTypes, BackoffStays DEF UplinkSlot, CountDown, FullScanGoesOn, NodeTypeOK
<1>15. CASE JoinSlot
  BY <1>5, <1>15, SlotTypes DEF JoinSlot, StartJoining, FullScanGoesOn, NodeTypeOK
<1>16. CASE SleepSlot
  <2>1. backoff' \in Draw(BackoffNMax)
    BY <1>16, BackoffStays DEF SleepSlot
  <2>2. PICK types : StartSlot(types)
    BY <1>16 DEF SleepSlot
  <2> QED
    BY <1>16, <2>1, <2>2, SlotTypes DEF SleepSlot, CountDown, FullScanGoesOn, NodeTypeOK
<1>17. CASE ScanSlot
  BY <1>17, SlotTypes DEF ScanSlot, FullScanGoesOn, FreeForScan, NodeTypeOK
<1>18. CASE EndScanAgain
  BY <1>18 DEF EndScanAgain, StartScan, NodeTypeOK
<1>19. ASSUME NEW g \in Gateway, EndScanSync(g) PROVE NodeTypeOK'
  <2>0. /\ assoc' = "synced" /\ gateway' \in Gateway /\ settled' \in BOOLEAN
        /\ active' \in Schedule \cup {NoSchedule} /\ active' \in Schedule
        /\ next' \in IF active' = NoSchedule THEN {0} ELSE CellsIn(active')
        /\ aux' = "dispatch" /\ joinPacket' \in Gateway
        /\ backoffN' \in BackoffNMin .. BackoffNMax /\ backoff' \in Draw(BackoffNMax)
    BY <1>3, <1>19 DEF EndScanSync
  <2>1. Flags'
    <3>1. rearm' \in BOOLEAN /\ scanning' \in BOOLEAN
      BY <1>19 DEF EndScanSync
    <3>2. UNCHANGED <<bg, bgNext, capacity, drifted>>
      BY <1>19 DEF EndScanSync
    <3> QED
      BY <2>0, <3>1, <3>2 DEF NodeTypeOK, Flags
  <2> QED
    BY <2>0, <2>1, <1>19 DEF EndScanSync, NodeTypeOK, Flags
<1>20. CASE Dispatch
  BY <1>20 DEF Dispatch, NodeTypeOK
<1>21. CASE ContinueBackgroundScan
  BY <1>21 DEF ContinueBackgroundScan, NodeTypeOK
<1>22. CASE NoHandover
  <2>1. Flags'
    BY <1>22 DEF NoHandover, StopBackgroundScan, NodeTypeOK, Flags
  <2> QED
    BY <2>1, <1>22 DEF NoHandover, StopBackgroundScan, NodeTypeOK, Flags
<1>23. ASSUME NEW g \in Gateway, Handover(g) PROVE NodeTypeOK'
  <2>0. /\ assoc' = "synced" /\ gateway' \in Gateway /\ settled' \in BOOLEAN
        /\ active' \in Schedule \cup {NoSchedule} /\ active' \in Schedule
        /\ next' \in IF active' = NoSchedule THEN {0} ELSE CellsIn(active')
        /\ aux' = "dispatch" /\ joinPacket' \in Gateway
        /\ backoffN' \in BackoffNMin .. BackoffNMax /\ backoff' \in Draw(BackoffNMax)
    BY <1>3, <1>23 DEF Handover
  <2>1. Flags'
    <3>1. rearm' \in BOOLEAN /\ bg' \in BOOLEAN
      BY <1>23 DEF Handover, StopBackgroundScan
    <3>2. UNCHANGED <<scanning, bgNext, capacity, drifted>>
      BY <1>23 DEF Handover, StopBackgroundScan
    <3> QED
      BY <2>0, <3>1, <3>2 DEF NodeTypeOK, Flags
  <2>2. \A s \in Schedule : own'[s] \subseteq {c \in CellsIn(s) : CellType[s][c] = "U"}
    BY <1>2, <1>23 DEF Handover, Disconnect
  <2> QED
    BY <2>0, <2>1, <2>2, <1>23 DEF Handover, StopBackgroundScan, Disconnect, NodeTypeOK, Flags
<1>24. ASSUME NEW g \in Gateway, HandoverFailed(g) PROVE NodeTypeOK'
  <2>1. Flags'
    BY <1>24 DEF HandoverFailed, StartScan, NodeTypeOK, Flags
  <2> QED
    BY <2>1, <1>2, <1>4, <1>24 DEF HandoverFailed, HandoverTo, Disconnect, StartScan, NodeTypeOK, Flags
<1>25. CASE IntraSlotTimer
  BY <1>25 DEF IntraSlotTimer, Ti2, TxEnds, Ri2, Rie1, Rie2, SlotTimer, NodeTypeOK
<1>26. CASE RearmRadio
  <2>1. Flags'
    BY <1>26 DEF RearmRadio, NodeTypeOK, Flags
  <2> QED
    BY <2>1, <1>26 DEF RearmRadio, NodeTypeOK, Flags
<1>27. CASE Settle
  BY <1>27 DEF Settle, NodeTypeOK
<1>28. CASE FrameStart
  BY <1>28 DEF FrameStart, NodeTypeOK
<1>29. CASE FrameCorrupt
  BY <1>29 DEF FrameCorrupt, NodeTypeOK
<1>30. ASSUME NEW g \in Gateway, NEW roomy \in BOOLEAN, NEW listed \in BOOLEAN,
          ScanBeacon(g, roomy, listed)
      PROVE  NodeTypeOK'
  <2>1. Flags'
    <3>1. rearm' \in BOOLEAN
      BY <1>30 DEF ScanBeacon, ScanFrame, NodeTypeOK
    <3> QED
      BY <3>1, <1>30 DEF ScanBeacon, ScanFrame, HandleBeacon, NodeTypeOK, Flags
  <2> QED
    BY <2>1, <1>30 DEF ScanBeacon, ScanFrame, HandleBeacon, NodeTypeOK, Flags
<1>31. CASE ScanOther
  <2>1. Flags'
    <3>1. rearm' \in BOOLEAN
      BY <1>31 DEF ScanOther, ScanFrame, NodeTypeOK
    <3> QED
      BY <3>1, <1>31 DEF ScanOther, ScanFrame, NodeTypeOK, Flags
  <2> QED
    BY <2>1, <1>31 DEF ScanOther, ScanFrame, NodeTypeOK, Flags
<1>32. ASSUME NEW g \in Gateway, NEW roomy \in BOOLEAN, NEW listed \in BOOLEAN,
          RxBeacon(g, roomy, listed)
      PROVE  NodeTypeOK'
  BY <1>32 DEF RxBeacon, SlotGoesOn, SlotFrame, HandleBeacon, NodeTypeOK
<1>33. CASE RxFromGateway
  BY <1>33 DEF RxFromGateway, SlotGoesOn, SlotFrame, NodeTypeOK
<1>34. CASE RxOther
  BY <1>34 DEF RxOther, SlotGoesOn, SlotFrame, NodeTypeOK
<1>35. CASE RxDrifted
  BY <1>35 DEF RxDrifted, SlotFrame, NodeTypeOK
<1>36. ASSUME gateway # NoGateway, NEW c \in CellsIn(active), RxJoinResponse(c)
      PROVE  NodeTypeOK'
  <2>1. active \in Schedule /\ c \in Nat
    BY <1>36 DEF RxJoinResponse, NodeTypeOK, CellsIn
  <2>2. \A s \in Schedule : own'[s] \subseteq {d \in CellsIn(s) : CellType[s][d] = "U"}
    BY <1>1, <1>36, <2>1 DEF RxJoinResponse, AssignMyself, NodeTypeOK
  <2> QED
    BY <1>5, <1>36, <2>1, <2>2 DEF RxJoinResponse, AssignMyself, HandleJoined, ResetBackoff,
        SlotGoesOn, SlotFrame, NodeTypeOK
<1>37. CASE UNCHANGED nodeVars
  BY <1>37 DEF nodeVars, NodeTypeOK
<1> QED
  BY <1>11, <1>12, <1>13, <1>14, <1>15, <1>16, <1>17, <1>18, <1>19, <1>20, <1>21, <1>22, <1>23,
      <1>24, <1>25, <1>26, <1>27, <1>28, <1>29, <1>30, <1>31, <1>32, <1>33, <1>34, <1>35, <1>36,
      <1>37 DEF NodeNext, NewSlot, ScanTimer, BgTimer, RxFrame

\* Everything a node keeps stays in range, whatever schedules it moves between: the cell of the next
\* slot is one of the active schedule, the cells it holds are uplinks, no backoff is longer than
\* the longest draw, and past the scan it knows its gateway and schedule (mac.c, association.c, scheduler.c).
THEOREM NodeTypesHold == NodeSafety => []NodeTypeOK
<1>1. NodeTypeOK /\ NodeInv /\ [NodeNext]_nodeVars => NodeTypeOK'
  BY NodeTypeStep
<1> QED
  BY NodeTypeInit, NodeInvHolds, <1>1, PTL DEF NodeSafety

-----------------------------------------------------------------------------
(* What follows from NodeInv. *)

\* What the node answers is what it has told its application, whatever the
\* timers, the frames and the gateways do.
THEOREM NodeAppViewMatches == NodeSafety => []AppViewMatches
<1>1. NodeInv => AppViewMatches
  BY DEF NodeInv
<1> QED
  BY NodeInvHolds, <1>1, PTL

\* One timer drives the node at any time.
THEOREM NodeOneSchedulingTimer == NodeSafety => []OneSchedulingTimer
<1>1. NodeInv => OneSchedulingTimer
  BY DEF NodeInv
<1> QED
  BY NodeInvHolds, <1>1, PTL

\* A background scan never extends over a cell of this node, a beacon or a
\* downlink, for every schedule.
THEOREM NodeScanOnlyInFreeCells == NodeSafety => []ScanOnlyInFreeCells
<1>1. NodeInv => ScanOnlyInFreeCells
  BY DEF NodeInv
<1> QED
  BY NodeInvHolds, <1>1, PTL

\* As long as no drift too high is met, the node holds the granted cell of the
\* active schedule and no other.
THEOREM NodeOwnCellUnlessDrifted == NodeSafety => []OwnCellUnlessDrifted
<1>1. NodeInv => OwnCellUnlessDrifted
  BY DEF NodeInv
<1> QED
  BY NodeInvHolds, <1>1, PTL

\* A join request for the right gateway is there whenever one may be sent.
THEOREM NodeJoinRequestReady == NodeSafety => []JoinRequestReady
<1>1. NodeInv => JoinRequestReady
  BY DEF NodeInv
<1> QED
  BY NodeInvHolds, <1>1, PTL

\* A MAC that sleeps has its radio off.
THEOREM NodeAsleepMeansOff == NodeSafety => []AsleepMeansOff
<1>1. NodeInv => AsleepMeansOff
  BY DEF NodeInv
<1> QED
  BY NodeInvHolds, <1>1, PTL

\* What a step of the node is to the session.
SessionStep == [Session!SessionNext]_(Session!sessionVars)

\* Every handler is a step of the session or leaves it alone: the end of a scan
\* and a handover attach the node to a gateway, a join response makes it a member,
\* leaving, giving up, a failed handover and a drift too high detach it.
LEMMA SessionRefinementStep ==
    ASSUME NodeInv, [NodeNext]_nodeVars
    PROVE  SessionStep
<1> USE NodeAssumption DEF SessionStep, NodeInv, Attached, AppViewMatches, OneSchedulingTimer,
      Joined, link, scanVars, bgVars, joinVars, backoffVars, aliveVars, appVars,
      history, radioVars, Session!sessionVars
<1>1. CASE LeaveGateway
  <2>1. Session!Detach
    BY <1>1 DEF LeaveGateway, BackToScanning, StartScan, Disconnect, Deassign,
        SlotBoundary, ShouldLeave, Session!Detach
  <2> QED
    BY <2>1 DEF Session!SessionNext
<1>2. CASE GiveUpJoining
  <2>1. Session!Detach
    BY <1>2 DEF GiveUpJoining, BackToScanning, StartScan, SlotBoundary,
        TooLongSynced, JoinTimedOut, ResetBackoff, Session!Detach
  <2> QED
    BY <2>1 DEF Session!SessionNext
<1>3. CASE ListenSlot
  BY <1>3 DEF ListenSlot, StartSlot, SlotBoundary, CountDown, StateNow,
      RequestNow, JoinTimedOut, CellAfter
<1>4. CASE UplinkSlot
  BY <1>4 DEF UplinkSlot, StartSlot, SlotBoundary, CountDown, StateNow,
      RequestNow, JoinTimedOut, CellAfter
<1>5. CASE JoinSlot
  BY <1>5 DEF JoinSlot, StartJoining, ReadyToJoin, StartSlot, SlotBoundary, StateNow, RequestNow,
      JoinTimedOut, CellAfter
<1>6. CASE SleepSlot
  BY <1>6 DEF SleepSlot, ReadyToJoin, StartSlot, SlotBoundary, CountDown, StateNow,
      RequestNow, JoinTimedOut, CellAfter
<1>7. CASE ScanSlot
  BY <1>7 DEF ScanSlot, StartSlot, SlotBoundary, CellAfter
<1>8. CASE EndScanAgain
  BY <1>8 DEF EndScanAgain, StartScan
<1>9. ASSUME NEW g \in Gateway, EndScanSync(g) PROVE SessionStep
  <2>1. Session!Attach(g)
    BY <1>9 DEF EndScanSync, SyncTo, HandleSynced, Session!Attach
  <2> QED
    BY <2>1 DEF Session!SessionNext
<1>10. CASE Dispatch
  BY <1>10 DEF Dispatch
<1>11. CASE ContinueBackgroundScan
  BY <1>11 DEF ContinueBackgroundScan
<1>12. CASE NoHandover
  BY <1>12 DEF NoHandover, StopBackgroundScan
<1>13. ASSUME NEW g \in Gateway, Handover(g) PROVE SessionStep
  <2>1. Session!Attach(g)
    BY <1>13 DEF Handover, HandoverTo, StopBackgroundScan, Disconnect, Deassign, SyncTo, HandleSynced,
        Session!Attach
  <2> QED
    BY <2>1 DEF Session!SessionNext
<1>14. ASSUME NEW g \in Gateway, HandoverFailed(g) PROVE SessionStep
  <2>1. Session!Detach
    BY <1>14 DEF HandoverFailed, HandoverTo, Disconnect, Deassign, StartScan,
        Session!Detach
  <2> QED
    BY <2>1 DEF Session!SessionNext
<1>15. CASE IntraSlotTimer
  <2>1. ASSUME NEW from, NEW to, NEW power, SlotTimer(from, to, power)
        PROVE  SessionStep
    BY <2>1 DEF SlotTimer
  <2> QED
    BY <1>15, <2>1 DEF IntraSlotTimer, Ti2, TxEnds, Ri2, Rie1, Rie2
<1>16. CASE RearmRadio
  BY <1>16 DEF RearmRadio
<1>17. CASE Settle
  BY <1>17 DEF Settle
<1>18. CASE FrameStart
  BY <1>18 DEF FrameStart, InSlot
<1>19. CASE FrameCorrupt
  BY <1>19 DEF FrameCorrupt
<1>20. ASSUME NEW g \in Gateway, NEW roomy \in BOOLEAN, NEW listed \in BOOLEAN,
          ScanBeacon(g, roomy, listed)
      PROVE  SessionStep
  BY <1>20 DEF ScanBeacon, ScanFrame, InSlot
<1>21. CASE ScanOther
  BY <1>21 DEF ScanOther, ScanFrame, InSlot
<1>22. ASSUME NEW g \in Gateway, NEW roomy \in BOOLEAN, NEW listed \in BOOLEAN,
          RxBeacon(g, roomy, listed)
      PROVE  SessionStep
  BY <1>22 DEF RxBeacon, SlotGoesOn, SlotFrame, InSlot
<1>23. CASE RxFromGateway
  BY <1>23 DEF RxFromGateway, SlotGoesOn, SlotFrame, InSlot
<1>24. CASE RxOther
  BY <1>24 DEF RxOther, SlotGoesOn, SlotFrame, InSlot
<1>25. CASE RxDrifted
  <2>1. Session!Detach
    BY <1>25 DEF RxDrifted, SlotFrame, InSlot, Session!Detach
  <2> QED
    BY <2>1 DEF Session!SessionNext
<1>26. ASSUME gateway # NoGateway, NEW c \in CellsIn(active), RxJoinResponse(c)
      PROVE  SessionStep
  <2>1. Session!Join
    BY <1>26 DEF RxJoinResponse, AssignMyself, HandleJoined, SlotGoesOn, SlotFrame, InSlot, Session!Join
  <2> QED
    BY <2>1 DEF Session!SessionNext
<1>27. CASE UNCHANGED nodeVars
  BY <1>27 DEF nodeVars
<1> HIDE DEF NodeInv, SessionStep
<1> QED
  BY <1>1, <1>2, <1>3, <1>4, <1>5, <1>6, <1>7, <1>8, <1>9, <1>10, <1>11,
      <1>12, <1>13, <1>14, <1>15, <1>16, <1>17, <1>18, <1>19, <1>20, <1>21,
      <1>22, <1>23, <1>24, <1>25, <1>26, <1>27 DEF NodeNext, NewSlot,
      ScanTimer, BgTimer, RxFrame

\* The node implements the session it promises to the application: it becomes a
\* member only of the gateway it is trying to join, and is told of it then.
THEOREM NodeImplementsSession == NodeSafety => ImplementsSession
<1>1. NodeInit => Session!SessionInit
  BY DEF NodeInit, Session!SessionInit, Joined
<1>2. NodeInv /\ [NodeNext]_nodeVars => [Session!SessionNext]_(Session!sessionVars)
  BY SessionRefinementStep DEF SessionStep
<1> QED
  BY NodeInvHolds, <1>1, <1>2, PTL DEF NodeSafety, ImplementsSession, Session!SessionSafety

-----------------------------------------------------------------------------
(* The packet queue: the ring is a FIFO of whole packets, whatever preempts an addition, short of a reset. *)

Contents == Packet \cup {NoPacket}

\* The place of the k-th waiting packet, and the waiting packets.
Held(k) == (current + k - 1) % Size
Waiting == [k \in 1 .. Count |-> <<buffer[Held(k)], length[Held(k)]>>]

\* Whoever holds the lock is adding a packet, and what it has written so far is at last, which is
\* not the place of a waiting packet.
AddInv ==
    ~cut =>
        /\ locked <=> step # "idle"
        /\ step # "idle" => adding \in Packet
        /\ step \in {"size", "advance"} => index = last /\ buffer[last] = adding
        /\ step = "advance" => length[last] = adding

-----------------------------------------------------------------------------
(* Places of the ring. *)

LEMMA WrapAround ==
    ASSUME NEW x \in Int, 0 <= x + Size, x < 2 * Size
    PROVE  x % Size = IF x < 0 THEN x + Size ELSE IF x < Size THEN x ELSE x - Size
<1>1. CASE x < 0
  <2>1. x = Size * (-1) + (x + Size) /\ x + Size \in 0 .. Size - 1
    BY <1>1, QueueAssumption
  <2> QED
    BY <1>1, <2>1, QueueAssumption
<1>2. CASE 0 <= x /\ x < Size
  BY <1>2, QueueAssumption
<1>3. CASE Size <= x
  <2>1. x = Size * 1 + (x - Size) /\ x - Size \in 0 .. Size - 1
    BY <1>3, QueueAssumption
  <2> QED
    BY <1>3, <2>1, QueueAssumption
<1> QED
  BY <1>1, <1>2, <1>3, QueueAssumption

LEMMA AfterInRing == ASSUME NEW i \in Slot PROVE After(i) = IF i = Size - 1 THEN 0 ELSE i + 1
BY WrapAround, QueueAssumption DEF Slot, After

\* The ring holds at most Size - 1 packets, at the places from current up to, not including, last.
LEMMA Places ==
    ASSUME current \in Slot, last \in Slot
    PROVE  /\ Count \in 0 .. Size - 1
           /\ Count = IF current <= last THEN last - current ELSE last - current + Size
           /\ \A k \in 1 .. Count : Held(k) \in Slot \ {last}
           /\ Held(Count + 1) = last
<1>1. Count = IF current <= last THEN last - current ELSE last - current + Size
  BY WrapAround, QueueAssumption DEF Slot, Count
<1>2. \A k \in 1 .. Size : Held(k) = IF current + k - 1 < Size THEN current + k - 1
                                     ELSE current + k - 1 - Size
  BY WrapAround, QueueAssumption DEF Slot, Held
<1> QED
  BY <1>1, <1>2, QueueAssumption DEF Slot

-----------------------------------------------------------------------------
(* Types. *)

LEMMA FirstPlace == 0 \in Slot
BY QueueAssumption DEF Slot

LEMMA TypeInit == QueueInit => QueueTypeOK
<1> SUFFICES ASSUME QueueInit PROVE QueueTypeOK
  OBVIOUS
<1>1. /\ buffer \in [Slot -> Packet \cup {NoPacket}] /\ length \in [Slot -> Packet \cup {NoPacket}]
      /\ sent \in (Packet \cup {NoPacket}) \X (Packet \cup {NoPacket})
  BY DEF QueueInit
<1> QED
  BY <1>1, FirstPlace DEF QueueInit, QueueTypeOK

LEMMA TypeStep == QueueTypeOK /\ [QueueNext]_queueVars => QueueTypeOK'
<1> SUFFICES ASSUME QueueTypeOK, [QueueNext]_queueVars
             PROVE  QueueTypeOK'
  OBVIOUS
<1>1. \A i \in Slot : After(i) \in Slot
  BY AfterInRing, QueueAssumption DEF Slot
<1>2. ASSUME NEW p \in Packet, AddLock(p) PROVE QueueTypeOK'
  BY <1>2 DEF AddLock, QueueTypeOK, ring
<1>3. CASE AddCopy
  BY <1>3 DEF AddCopy, QueueTypeOK
<1>4. CASE AddLength
  BY <1>4 DEF AddLength, QueueTypeOK
<1>5. CASE AddAdvance
  BY <1>1, <1>5 DEF AddAdvance, QueueTypeOK
<1>6. CASE AddUnlock
  BY <1>6 DEF AddUnlock, QueueTypeOK, ring
<1>7. CASE TakePacket
  BY <1>1, <1>7 DEF TakePacket, QueueTypeOK, adder
<1>8. CASE Reset
  BY <1>8, FirstPlace DEF Reset, QueueTypeOK, adder
<1>9. CASE UNCHANGED queueVars
  BY <1>9 DEF queueVars, ring, adder, QueueTypeOK
<1> QED
  BY <1>2, <1>3, <1>4, <1>5, <1>6, <1>7, <1>8, <1>9 DEF QueueNext, Add

\* Whatever preempts an addition, a reset included, the indices stay within the ring and every place
\* of it holds what the application has added, or nothing (queue.c).
THEOREM QueueTypeCorrect == QueueSpec => []QueueTypeOK
BY TypeInit, TypeStep, PTL DEF QueueSpec

-----------------------------------------------------------------------------
(* The addition. *)

LEMMA AddInvStep == QueueTypeOK /\ AddInv /\ [QueueNext]_queueVars => AddInv'
<1> SUFFICES ASSUME QueueTypeOK, AddInv, [QueueNext]_queueVars, ~cut'
             PROVE  AddInv'
  BY DEF AddInv
<1>1. ASSUME NEW p \in Packet, AddLock(p) PROVE AddInv'
  BY <1>1 DEF AddLock, AddInv, ring
<1>2. CASE AddCopy
  BY <1>2 DEF AddCopy, AddInv, QueueTypeOK
<1>3. CASE AddLength
  BY <1>3 DEF AddLength, AddInv, QueueTypeOK
<1>4. CASE AddAdvance \/ AddUnlock
  BY <1>4 DEF AddAdvance, AddUnlock, AddInv, ring
<1>5. CASE TakePacket \/ Reset
  BY <1>5 DEF TakePacket, Reset, AddInv, adder
<1>6. CASE UNCHANGED queueVars
  BY <1>6 DEF queueVars, ring, adder, AddInv
<1> QED
  BY <1>1, <1>2, <1>3, <1>4, <1>5, <1>6 DEF QueueNext, Add

-----------------------------------------------------------------------------
(* The ring is a FIFO. *)

LEMMA IsAppend ==
    ASSUME NEW S, NEW n \in Nat, NEW f \in [1 .. n -> S], NEW e \in S, NEW g \in [1 .. n + 1 -> S],
           \A k \in 1 .. n : g[k] = f[k], g[n + 1] = e
    PROVE  Len(f) = n /\ g = Append(f, e)
<1>1. f \in Seq(S) /\ Len(f) = n /\ g \in Seq(S) /\ Len(g) = n + 1
  BY SeqDef
<1>2. /\ Append(f, e) \in Seq(S) /\ Len(Append(f, e)) = n + 1
      /\ \A k \in 1 .. n + 1 : Append(f, e)[k] = IF k = n + 1 THEN e ELSE f[k]
  BY <1>1
<1> QED
  BY <1>1, <1>2, SeqEqual

LEMMA IsTail ==
    ASSUME NEW S, NEW n \in Nat, NEW f \in [1 .. n + 1 -> S], NEW g \in [1 .. n -> S],
           \A k \in 1 .. n : g[k] = f[k + 1]
    PROVE  f # <<>> /\ f[1] = Head(f) /\ g = Tail(f)
<1>1. f \in Seq(S) /\ Len(f) = n + 1 /\ g \in Seq(S) /\ Len(g) = n
  BY SeqDef
<1>2. f # <<>>
  BY <1>1, EmptySeq
<1>3. f[1] = Head(f) /\ Tail(f) \in Seq(S) /\ Len(Tail(f)) = n
      /\ \A k \in 1 .. n : Tail(f)[k] = f[k + 1]
  BY <1>1, <1>2, HeadTailProperties
<1> QED
  BY <1>1, <1>2, <1>3, SeqEqual

LEMMA WaitingType ==
    ASSUME QueueTypeOK
    PROVE  Waiting \in [1 .. Count -> Contents \X Contents]
<1>1. Count \in Nat /\ \A k \in 1 .. Count : Held(k) \in Slot
  BY Places DEF QueueTypeOK
<1> QED
  BY <1>1 DEF Waiting, QueueTypeOK, Contents

\* While a packet is being written, the waiting ones stay.
LEMMA WritesElsewhere ==
    ASSUME QueueTypeOK, AddInv, ~cut', AddCopy \/ AddLength
    PROVE  Waiting' = Waiting
<1>1. current' = current /\ last' = last /\ Count' = Count
  BY DEF AddCopy, AddLength, Count
<1>2. \A k \in 1 .. Count : Held(k)' = Held(k) /\ Held(k) \in Slot \ {last}
  BY <1>1, Places DEF QueueTypeOK, Held
<1>3. ASSUME NEW i \in Slot \ {last}
      PROVE  buffer'[i] = buffer[i] /\ length'[i] = length[i]
  <2>1. CASE AddCopy
    BY <2>1, <1>3 DEF AddCopy, QueueTypeOK
  <2>2. CASE AddLength
    BY <2>2, <1>3 DEF AddLength, AddInv, QueueTypeOK
  <2> QED
    BY <2>1, <2>2
<1> QED
  BY <1>1, <1>2, <1>3 DEF Waiting

\* With the index the packet joins the waiting ones; the last place filled empties the ring.
LEMMA AdvanceEnqueues ==
    ASSUME QueueTypeOK, QueueTypeOK', AddInv, ~cut', AddAdvance
    PROVE  \E p \in Packet :
              Waiting' = IF Len(Waiting) < Size - 1 THEN Append(Waiting, <<p, p>>) ELSE <<>>
<1>1. /\ adding \in Packet /\ buffer[last] = adding /\ length[last] = adding
      /\ last' = After(last) /\ UNCHANGED <<buffer, length, current>>
  BY DEF AddAdvance, AddInv
<1>2. last' = IF last = Size - 1 THEN 0 ELSE last + 1
  BY <1>1, AfterInRing DEF QueueTypeOK
<1>3. /\ Count \in 0 .. Size - 1 /\ Held(Count + 1) = last
      /\ Count = IF current <= last THEN last - current ELSE last - current + Size
  BY Places DEF QueueTypeOK
<1>4. Count' = IF current' <= last' THEN last' - current' ELSE last' - current' + Size
  <2>1. current \in Slot /\ last' \in Slot
    BY <1>1 DEF QueueTypeOK
  <2> QED
    BY <1>1, <2>1, WrapAround, QueueAssumption DEF Count, Slot
<1>5. Count' = IF Count = Size - 1 THEN 0 ELSE Count + 1
  BY <1>1, <1>2, <1>3, <1>4, QueueAssumption DEF QueueTypeOK, Slot
<1>6. Waiting \in [1 .. Count -> Contents \X Contents]
  BY WaitingType
<1>7. Waiting' \in [1 .. Count' -> Contents \X Contents]
  <2>1. \A k \in 1 .. Count' : Held(k)' \in Slot
    BY <1>1, <1>5, WrapAround, QueueAssumption DEF QueueTypeOK, Slot, Held
  <2> QED
    BY <1>1, <2>1 DEF Waiting, QueueTypeOK, Contents
<1>8. CASE Count = Size - 1
  BY <1>1, <1>3, <1>5, <1>6, <1>7, <1>8, SeqDef, EmptySeq
<1>9. CASE Count < Size - 1
  <2>1. Count' = Count + 1 /\ \A k : Held(k)' = Held(k)
    BY <1>1, <1>3, <1>5, <1>9, QueueAssumption DEF Held
  <2>2. /\ \A k \in 1 .. Count : Waiting'[k] = Waiting[k]
        /\ Waiting'[Count + 1] = <<adding, adding>>
    <3>1. \A k \in 1 .. Count + 1 : Waiting'[k] = <<buffer'[Held(k)], length'[Held(k)]>>
      BY <2>1 DEF Waiting
    <3>2. \A k \in 1 .. Count : Waiting[k] = <<buffer[Held(k)], length[Held(k)]>>
      BY DEF Waiting
    <3>3. UNCHANGED <<buffer, length>> /\ Held(Count + 1) = last
      BY <1>1, <1>3
    <3>4. buffer[last] = adding /\ length[last] = adding
      BY <1>1
    <3>5. 1 .. Count \subseteq 1 .. Count + 1 /\ Count + 1 \in 1 .. Count + 1
      BY <1>3
    <3> QED
      BY <3>1, <3>2, <3>3, <3>4, <3>5
  <2>3. Len(Waiting) = Count /\ Waiting' = Append(Waiting, <<adding, adding>>)
    BY <1>1, <1>3, <1>6, <1>7, <2>1, <2>2, IsAppend DEF Contents
  <2> QED
    BY <1>1, <1>9, <2>3
<1> QED
  BY <1>3, <1>8, <1>9, QueueAssumption

LEMMA TakeDequeues ==
    ASSUME QueueTypeOK, TakePacket
    PROVE  Waiting # <<>> /\ sent' = Head(Waiting) /\ Waiting' = Tail(Waiting)
<1>1. /\ current # last /\ current' = After(current) /\ UNCHANGED <<buffer, length, last>>
      /\ sent' = <<buffer[current], length[current]>>
  BY DEF TakePacket
<1>2. current' = IF current = Size - 1 THEN 0 ELSE current + 1
  BY <1>1, AfterInRing DEF QueueTypeOK
<1>3. /\ Count \in 0 .. Size - 1
      /\ Count = IF current <= last THEN last - current ELSE last - current + Size
  BY Places DEF QueueTypeOK
<1>4. Count' = IF current' <= last' THEN last' - current' ELSE last' - current' + Size
  <2>1. current' \in Slot /\ last' \in Slot
    BY <1>1, <1>2, QueueAssumption DEF QueueTypeOK, Slot
  <2> QED
    BY <2>1, WrapAround, QueueAssumption DEF Count, Slot
<1>5. PICK n \in 0 .. Size - 2 : Count' = n /\ Count = n + 1
  BY <1>1, <1>2, <1>3, <1>4, QueueAssumption DEF QueueTypeOK, Slot
<1>6. Held(1) = current
  <2>1. current + 1 - 1 = current /\ current \in 0 .. Size - 1
    BY QueueAssumption DEF QueueTypeOK, Slot
  <2> QED
    BY <2>1, WrapAround, QueueAssumption DEF Held
<1>7. ASSUME NEW k \in 1 .. n
      PROVE  Held(k)' = Held(k + 1)
  <2>1. k \in Nat /\ 1 <= k /\ k + 1 < Size /\ current \in 0 .. Size - 1
    BY QueueAssumption DEF QueueTypeOK, Slot
  <2>2. Held(k + 1) = (current + k) % Size
    BY <2>1 DEF Held
  <2>3. current + k \in Int /\ 0 <= current + k + Size /\ current + k < 2 * Size
    BY <2>1, QueueAssumption
  <2>4. (current + k) % Size = IF current + k < Size THEN current + k ELSE current + k - Size
    BY <2>1, <2>3, WrapAround, QueueAssumption
  <2>5. current' + k - 1 \in Int /\ 0 <= current' + k - 1 + Size /\ current' + k - 1 < 2 * Size
    BY <1>2, <2>1, QueueAssumption
  <2>6. Held(k)' = IF current' + k - 1 < Size THEN current' + k - 1 ELSE current' + k - 1 - Size
    BY <1>2, <2>1, <2>5, WrapAround, QueueAssumption DEF Held
  <2> QED
    BY <1>2, <2>1, <2>2, <2>4, <2>6, QueueAssumption
<1>8. Waiting \in [1 .. n + 1 -> Contents \X Contents]
  BY <1>5, WaitingType
<1>9. \A k \in 1 .. n : k + 1 \in 1 .. n + 1
  OBVIOUS
<1>10. Waiting' = [k \in 1 .. n |-> <<buffer[Held(k + 1)], length[Held(k + 1)]>>]
  BY <1>1, <1>5, <1>7 DEF Waiting
<1>11. Waiting' = [k \in 1 .. n |-> Waiting[k + 1]]
  BY <1>5, <1>9, <1>10 DEF Waiting
<1>12. Waiting' \in [1 .. n -> Contents \X Contents] /\ \A k \in 1 .. n : Waiting'[k] = Waiting[k + 1]
  BY <1>8, <1>9, <1>11
<1>13. Waiting[1] = sent'
  <2>1. 1 \in 1 .. n + 1
    OBVIOUS
  <2> QED
    BY <1>1, <1>5, <1>6, <2>1 DEF Waiting
<1> HIDE DEF Waiting, Contents
<1> QED
  BY <1>8, <1>12, <1>13, IsTail

LEMMA FifoStart == QueueInit => Fifo!FifoInit
<1> SUFFICES ASSUME QueueInit PROVE Fifo!FifoInit
  OBVIOUS
<1>1. QueueTypeOK /\ Count = 0
  BY TypeInit, Places DEF QueueInit, QueueTypeOK
<1>2. Waiting = <<>>
  BY <1>1, WaitingType, SeqDef, EmptySeq
<1> QED
  BY <1>2 DEF QueueInit, Fifo!FifoInit, Waiting, Held

LEMMA FifoStep ==
    ASSUME QueueTypeOK, QueueTypeOK', AddInv, [QueueNext]_queueVars
    PROVE  [cut' \/ Fifo!FifoNext]_(Fifo!fifoVars)
<1> SUFFICES ASSUME ~cut'
             PROVE  Fifo!FifoNext \/ (Waiting' = Waiting /\ sent' = sent)
  BY DEF Fifo!fifoVars, Waiting, Held
<1>1. CASE UNCHANGED <<ring, sent>>
  BY <1>1 DEF ring, Waiting, Held, Count
<1>2. CASE UNCHANGED queueVars \/ (\E p \in Packet : AddLock(p)) \/ AddUnlock
  BY <1>1, <1>2 DEF queueVars, AddLock, AddUnlock
<1>3. CASE AddCopy \/ AddLength
  BY <1>3, WritesElsewhere DEF AddCopy, AddLength
<1>4. CASE AddAdvance
  <2>1. PICK p \in Packet :
           Waiting' = IF Len(Waiting) < Size - 1 THEN Append(Waiting, <<p, p>>) ELSE <<>>
    BY <1>4, AdvanceEnqueues
  <2>2. sent' = sent
    BY <1>4 DEF AddAdvance
  <2>3. Fifo!Enqueue(<<p, p>>)
    BY <2>1, <2>2 DEF Fifo!Enqueue, Waiting, Held
  <2> QED
    BY <2>3 DEF Fifo!FifoNext
<1>5. CASE TakePacket
  BY <1>5, TakeDequeues DEF Fifo!FifoNext, Fifo!Dequeue, Waiting, Held
<1>6. CASE Reset
  <2>1. Count' = 0 /\ QueueTypeOK'
    BY <1>6, WrapAround, QueueAssumption DEF Reset, Count
  <2>2. Waiting' = <<>>
    BY <2>1 DEF Waiting
  <2> QED
    BY <1>6, <2>2 DEF Reset, Fifo!FifoNext, Fifo!Clear, Waiting, Held
<1> QED
  BY <1>2, <1>3, <1>4, <1>5, <1>6 DEF QueueNext, Add

\* The transmit queue of any size is a FIFO of whole packets that drops all it holds when it would
\* become full, whatever slots preempt an addition and wherever; as long as no join has reset the
\* queue in the middle of one (queue.c).
THEOREM QueueIsFifo == QueueSpec => FifoUnlessCut
<1>1. QueueInit => QueueTypeOK /\ AddInv
  BY TypeInit DEF QueueInit, AddInv
<1>2. QueueTypeOK /\ AddInv /\ [QueueNext]_queueVars => (QueueTypeOK /\ AddInv)'
  BY TypeStep, AddInvStep
<1>3. QueueTypeOK /\ QueueTypeOK' /\ AddInv /\ [QueueNext]_queueVars
         => [cut' \/ Fifo!FifoNext]_(Fifo!fifoVars)
  BY FifoStep
<1> QED
  BY <1>1, <1>2, <1>3, FifoStart, PTL DEF QueueSpec, FifoUnlessCut

=============================================================================
