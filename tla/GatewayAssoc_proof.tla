------------------------- MODULE GatewayAssoc_proof -------------------------
(***************************************************************************)
(* Proofs about GatewayAssoc, for every schedule that satisfies            *)
(* ScheduleAssumption and DownlinkFollowsShared, every set of nodes and    *)
(* every silence limit.                                                    *)
(***************************************************************************)
EXTENDS GatewayAssoc, FiniteSetTheorems, FunctionTheorems, TLAPS

-----------------------------------------------------------------------------
(* Facts about the constants and about free and taken cells.               *)

LEMMA CellFacts ==
    /\ IsFiniteSet(Uplink)
    /\ Uplink \subseteq Cell
    /\ MaxNodes \in 0 .. 149
    /\ MaxAsnOld \in Nat
    /\ NCells \in Nat \ {0}
<1>0. NCells \in Nat \ {0} /\ NCells <= 149
  BY ScheduleAssumption
<1>1. IsFiniteSet(Cell) /\ Cardinality(Cell) = NCells
  <2>1. /\ IsFiniteSet(0 .. (NCells - 1))
        /\ Cardinality(0 .. (NCells - 1)) =
             IF 0 > NCells - 1 THEN 0 ELSE (NCells - 1) - 0 + 1
    BY <1>0, FS_Interval
  <2> QED
    BY <1>0, <2>1 DEF Cell
<1>2. /\ Uplink \subseteq Cell
      /\ IsFiniteSet(Uplink)
      /\ Cardinality(Uplink) <= NCells
  <2>1. Uplink \in SUBSET Cell
    BY DEF Uplink
  <2> QED
    BY <1>1, <2>1, FS_Subset, Zenon
<1>3. Cardinality(Uplink) \in Nat
  BY <1>2, FS_CardinalityType
<1>4. MaxAsnOld \in Nat
  BY <1>0, ScheduleAssumption DEF MaxAsnOld
<1> QED
  BY <1>0, <1>2, <1>3, <1>4, ScheduleAssumption

\* The cells that are not free, the set numAssigned counts.
Taken == {c \in Uplink : assigned[c] # NoNode}

LEMMA TakenFacts ==
    /\ IsFiniteSet(Taken)
    /\ Cardinality(Taken) \in 0 .. MaxNodes
    /\ IsFiniteSet(FreeCells)
    /\ Cardinality(FreeCells) = MaxNodes - Cardinality(Taken)
<1>1. /\ IsFiniteSet(Taken)
      /\ Cardinality(Taken) <= Cardinality(Uplink)
  <2>1. Taken \in SUBSET Uplink
    BY DEF Taken
  <2> QED
    BY <2>1, CellFacts, FS_Subset, Zenon
<1>2. Cardinality(Taken) \in Nat
  BY <1>1, FS_CardinalityType
<1>3. FreeCells = Uplink \ Taken /\ Uplink \cap Taken = Taken
  BY DEF FreeCells, CellsOf, Taken
<1>4. /\ IsFiniteSet(FreeCells)
      /\ Cardinality(FreeCells) = Cardinality(Uplink) - Cardinality(Taken)
  BY <1>3, CellFacts, FS_Difference
<1> QED
  BY <1>1, <1>2, <1>4, CellFacts, ScheduleAssumption

-----------------------------------------------------------------------------
(* Type correctness.                                                       *)

LEMMA NextCell == ASSUME NEW c \in Cell PROVE (c + 1) % NCells \in Cell
  BY CellFacts DEF Cell

LEMMA Byte == ASSUME NEW k \in Int PROVE k % 256 \in 0 .. 255
  OBVIOUS

LEMMA TypeInit == Init => TypeOK
<1> SUFFICES ASSUME Init PROVE TypeOK
  OBVIOUS
<1>1. NCells - 1 \in Cell
  BY CellFacts DEF Cell
<1>2. /\ assigned \in [Uplink -> Node \cup {NoNode}]
      /\ silence \in [Uplink -> 0 .. MaxAsnOld + 1]
      /\ unheard \in [Node -> 0 .. MaxAsnOld + 1]
  BY CellFacts DEF Init
<1>3. granted \in [Node -> Uplink \cup {NoCell}]
  BY DEF Init
<1>4. numAssigned \in 0 .. 255
  BY DEF Init
<1> QED
  BY <1>1, <1>2, <1>3, <1>4, Zenon DEF Init, TypeOK

\* What every slot boundary does, whatever the type of the slot it starts.
LEMMA TypeStart ==
    ASSUME TypeOK, ClearOldNodes, AgeGrants, current' = (current + 1) % NCells
    PROVE  /\ assigned' \in [Uplink -> Node \cup {NoNode}]
           /\ silence' \in [Uplink -> 0 .. MaxAsnOld + 1]
           /\ numAssigned' \in 0 .. 255
           /\ current' \in Cell
           /\ dirty' \in BOOLEAN
           /\ appNodes' \subseteq Node
           /\ granted' \in [Node -> Uplink \cup {NoCell}]
           /\ unheard' \in [Node -> 0 .. MaxAsnOld + 1]
<1> DEFINE old == {c \in Uplink : assigned[c] # NoNode /\ silence[c] > MaxAsnOld}
<1>1. assigned' \in [Uplink -> Node \cup {NoNode}]
  BY DEF TypeOK, ClearOldNodes, ReportLeft
<1>2. silence' \in [Uplink -> 0 .. MaxAsnOld + 1]
  BY CellFacts DEF TypeOK, ClearOldNodes, ReportLeft
<1>3. numAssigned' \in 0 .. 255
  <2>1. old \in SUBSET Uplink
    OBVIOUS
  <2>2. Cardinality(old) \in Nat
    BY <2>1, CellFacts, FS_Subset, FS_CardinalityType, Zenon
  <2>3. numAssigned - Cardinality(old) \in Int
    BY <2>2 DEF TypeOK
  <2>4. numAssigned' = (numAssigned - Cardinality(old)) % 256
    BY DEF ClearOldNodes, ReportLeft
  <2> QED
    BY <2>3, <2>4, Byte
<1>4. current' \in Cell
  BY NextCell DEF TypeOK
<1>5. dirty' \in BOOLEAN /\ appNodes' \subseteq Node
  BY Zenon DEF TypeOK, ClearOldNodes, ReportLeft
<1>6. granted' \in [Node -> Uplink \cup {NoCell}]
  BY DEF TypeOK, AgeGrants
<1>7. unheard' \in [Node -> 0 .. MaxAsnOld + 1]
  BY CellFacts DEF TypeOK, AgeGrants
<1> QED
  BY <1>1, <1>2, <1>3, <1>4, <1>5, <1>6, <1>7

LEMMA CapacityType == TypeOK => RemainingCapacity \in 0 .. 255
<1> SUFFICES ASSUME TypeOK PROVE RemainingCapacity \in 0 .. 255
  OBVIOUS
<1>1. MaxNodes - numAssigned \in Int
  BY CellFacts DEF TypeOK
<1> QED
  BY <1>1, Byte DEF RemainingCapacity

LEMMA TypeStep == TypeOK /\ [Next]_vars => TypeOK'
<1> SUFFICES ASSUME TypeOK, [Next]_vars PROVE TypeOK'
  OBVIOUS
<1>1. CASE BeaconSlot
  <2>1. ClearOldNodes /\ AgeGrants /\ current' = (current + 1) % NCells
    BY <1>1 DEF BeaconSlot, StartCell
  <2>2. MaxNodes - numAssigned' \in Int
    BY <2>1, TypeStart, CellFacts
  <2>3. RemainingCapacity' \in 0 .. 255
    BY <2>2, Byte DEF RemainingCapacity
  <2>4. frame' \in {Beacon(k) : k \in 0 .. 255}
    BY <1>1, <2>3 DEF BeaconSlot
  <2>5. radio' = "sleep" /\ joinPacket' = joinPacket
    BY <1>1 DEF BeaconSlot
  <2> QED
    BY <2>1, <2>4, <2>5, TypeStart, Zenon DEF TypeOK
<1>2. CASE DownlinkSlot
  <2>1. ClearOldNodes /\ AgeGrants /\ current' = (current + 1) % NCells
    BY <1>2 DEF DownlinkSlot, StartCell
  <2>2. frame' \in {Nothing, Data} \cup {Response(p) : p \in JoinResponse}
    BY <1>2, Zenon DEF DownlinkSlot, TypeOK
  <2>3. radio' = "sleep" /\ joinPacket' = NoPacket
    BY <1>2 DEF DownlinkSlot
  <2> QED
    BY <2>1, <2>2, <2>3, TypeStart, Zenon DEF TypeOK
<1>3. CASE ListenSlot
  <2>1. ClearOldNodes /\ AgeGrants /\ current' = (current + 1) % NCells
    BY <1>3 DEF ListenSlot, StartCell
  <2>2. frame' = Nothing /\ radio' = "listen" /\ joinPacket' = joinPacket
    BY <1>3 DEF ListenSlot
  <2> QED
    BY <2>1, <2>2, TypeStart, Zenon DEF TypeOK
<1>4. ASSUME NEW n \in Node, RxJoinRequest(n) PROVE TypeOK'
  <2>1. PICK c \in Fitting(n) :
           /\ Receive("S")
           /\ assigned' = [assigned EXCEPT ![c] = n]
           /\ silence' = [silence EXCEPT ![c] = 0]
           /\ numAssigned' = IF assigned[c] = NoNode THEN (numAssigned + 1) % 256
                                                     ELSE numAssigned
           /\ joinPacket' = [dst |-> n, cell |-> c]
           /\ dirty' = TRUE
           /\ appNodes' = appNodes \cup {n}
           /\ granted' = [granted EXCEPT ![n] = c]
           /\ unheard' = [unheard EXCEPT ![n] = 0]
    BY <1>4 DEF RxJoinRequest
  <2>2. c \in Uplink
    BY DEF Fitting
  <2>3. numAssigned' \in 0 .. 255
    BY <2>1, Byte DEF TypeOK
  <2>4. joinPacket' \in JoinResponse
    BY <2>1, <2>2 DEF JoinResponse
  <2>5. /\ assigned' \in [Uplink -> Node \cup {NoNode}]
        /\ silence' \in [Uplink -> 0 .. MaxAsnOld + 1]
        /\ granted' \in [Node -> Uplink \cup {NoCell}]
        /\ unheard' \in [Node -> 0 .. MaxAsnOld + 1]
    BY <2>1, <2>2, CellFacts DEF TypeOK
  <2>6. radio' = "sleep" /\ current' = current /\ frame' = frame
    BY <2>1 DEF Receive
  <2> QED
    BY <2>1, <2>3, <2>4, <2>5, <2>6, Zenon DEF TypeOK
<1>5. ASSUME NEW n \in Node, RxJoinRequestFull(n) PROVE TypeOK'
  BY <1>5 DEF RxJoinRequestFull, Receive, TypeOK, cellVars, history
<1>6. ASSUME NEW n \in Node, RxFromJoined(n) PROVE TypeOK'
  <2>1. silence' \in [Uplink -> 0 .. MaxAsnOld + 1]
    BY <1>6, CellFacts DEF RxFromJoined, KeepNodeAlive, TypeOK
  <2>2. unheard' \in [Node -> 0 .. MaxAsnOld + 1]
    BY <1>6, CellFacts DEF RxFromJoined, KeepNodeAlive, TypeOK
  <2> QED
    BY <1>6, <2>1, <2>2 DEF RxFromJoined, KeepNodeAlive, Receive, TypeOK
<1>7. CASE RxIgnored
  BY <1>7 DEF RxIgnored, Receive, TypeOK, cellVars, history
<1>8. CASE BloomSetClean
  BY <1>8 DEF BloomSetClean, TypeOK, cellVars, history
<1>9. CASE UNCHANGED vars
  BY <1>9 DEF vars, TypeOK, cellVars, history
<1> QED
  BY <1>1, <1>2, <1>3, <1>4, <1>5, <1>6, <1>7, <1>8, <1>9
  DEF Next, NewSlot, RxFrame

\* Every variable keeps its type; in particular the silence of a cell never
\* exceeds the limit by more than one slot, because clear_old_nodes runs at
\* every slot boundary.
THEOREM TypeCorrect == Safety => []TypeOK
  BY TypeInit, TypeStep, PTL DEF Safety

-----------------------------------------------------------------------------
(* The counter and the cells.                                              *)

\* num_assigned_uplink_nodes, changed by one at a time and modulo 256, counts
\* the cells that are not free.
CounterInv == numAssigned = Cardinality(Taken)

LEMMA SmallMod == ASSUME NEW k \in 0 .. 255 PROVE k % 256 = k
  OBVIOUS

LEMMA CounterStart ==
    ASSUME TypeOK, CounterInv, ClearOldNodes
    PROVE  CounterInv'
<1> DEFINE old == {c \in Uplink : assigned[c] # NoNode /\ silence[c] > MaxAsnOld}
<1>1. Taken' = Taken \ old /\ Taken \cap old = old
  BY DEF ClearOldNodes, ReportLeft, Taken
<1>2. /\ IsFiniteSet(Taken')
      /\ Cardinality(Taken') = Cardinality(Taken) - Cardinality(old)
  BY <1>1, TakenFacts, FS_Difference
<1>3. Cardinality(Taken') \in 0 .. MaxNodes
  <2>1. Taken' \in SUBSET Taken
    BY <1>1
  <2>2. Cardinality(Taken') <= Cardinality(Taken) /\ Cardinality(Taken') \in Nat
    BY <1>2, <2>1, TakenFacts, FS_Subset, FS_CardinalityType, Zenon
  <2> QED
    BY <2>2, TakenFacts, CellFacts
<1>4. numAssigned' = (numAssigned - Cardinality(old)) % 256
  BY DEF ClearOldNodes, ReportLeft
<1>5. Cardinality(Taken') % 256 = Cardinality(Taken')
  BY <1>3, CellFacts, SmallMod
<1> QED
  BY <1>2, <1>4, <1>5 DEF CounterInv

LEMMA CounterJoin ==
    ASSUME TypeOK, CounterInv, NEW n \in Node, RxJoinRequest(n)
    PROVE  CounterInv'
<1>1. PICK c \in Fitting(n) :
         /\ assigned' = [assigned EXCEPT ![c] = n]
         /\ numAssigned' = IF assigned[c] = NoNode THEN (numAssigned + 1) % 256
                                                   ELSE numAssigned
  BY DEF RxJoinRequest
<1>2. c \in Uplink /\ n # NoNode
  BY ScheduleAssumption DEF Fitting
<1>3. Taken' = Taken \cup {c}
  BY <1>1, <1>2 DEF Taken, TypeOK
<1>4. CASE assigned[c] = NoNode
  <2>1. c \notin Taken /\ c \in FreeCells
    BY <1>2, <1>4 DEF Taken, FreeCells, CellsOf
  <2>2. Cardinality(Taken') = Cardinality(Taken) + 1
    BY <1>3, <2>1, TakenFacts, FS_AddElement
  <2>3. Cardinality(FreeCells) # 0
    BY <2>1, TakenFacts, FS_EmptySet
  <2>4. Cardinality(Taken) + 1 \in 0 .. 255
    BY <2>3, TakenFacts, CellFacts
  <2> QED
    BY <1>1, <1>4, <2>2, <2>4, SmallMod DEF CounterInv
<1>5. CASE assigned[c] # NoNode
  <2>1. Taken' = Taken
    BY <1>2, <1>3, <1>5 DEF Taken
  <2> QED
    BY <1>1, <1>5, <2>1 DEF CounterInv
<1> QED
  BY <1>4, <1>5

LEMMA CounterStep == TypeOK /\ CounterInv /\ [Next]_vars => CounterInv'
<1> SUFFICES ASSUME TypeOK, CounterInv, [Next]_vars PROVE CounterInv'
  OBVIOUS
<1>1. CASE NewSlot
  BY <1>1, CounterStart
  DEF NewSlot, BeaconSlot, DownlinkSlot, ListenSlot, StartCell
<1>2. ASSUME NEW n \in Node, RxJoinRequest(n) PROVE CounterInv'
  BY <1>2, CounterJoin
<1>3. CASE UNCHANGED <<assigned, numAssigned>>
  BY <1>3 DEF CounterInv, Taken
<1>4. ASSUME NEW n \in Node, RxJoinRequestFull(n) \/ RxFromJoined(n)
      PROVE  UNCHANGED <<assigned, numAssigned>>
  BY <1>4 DEF RxJoinRequestFull, RxFromJoined, KeepNodeAlive, cellVars
<1>5. RxIgnored \/ BloomSetClean \/ UNCHANGED vars
        => UNCHANGED <<assigned, numAssigned>>
  BY DEF RxIgnored, BloomSetClean, vars, cellVars
<1> QED
  BY <1>1, <1>2, <1>3, <1>4, <1>5, Zenon DEF Next, RxFrame

LEMMA CounterInit == Init => CounterInv
<1> SUFFICES ASSUME Init PROVE CounterInv
  OBVIOUS
<1>1. Taken = {}
  BY DEF Init, Taken
<1> QED
  BY <1>1, FS_EmptySet DEF Init, CounterInv

LEMMA CounterCapacity == CounterInv => CapacityIsFreeCells
<1> SUFFICES ASSUME CounterInv PROVE CapacityIsFreeCells
  OBVIOUS
<1>1. MaxNodes - numAssigned = Cardinality(FreeCells)
  BY TakenFacts DEF CounterInv
<1>2. MaxNodes - numAssigned \in 0 .. 255
  BY TakenFacts, CellFacts DEF CounterInv
<1> QED
  BY <1>1, <1>2, SmallMod DEF CapacityIsFreeCells, RemainingCapacity

\* The capacity in a beacon is the number of free uplink cells: neither the
\* counter nor the uint8_t subtraction ever wraps.
THEOREM CapacityCorrect == Safety => []CapacityIsFreeCells
<1>1. Init => TypeOK /\ CounterInv
  BY TypeInit, CounterInit
<1>2. TypeOK /\ CounterInv /\ [Next]_vars => (TypeOK /\ CounterInv)'
  BY TypeStep, CounterStep
<1> QED
  BY <1>1, <1>2, CounterCapacity, PTL DEF Safety

-----------------------------------------------------------------------------
(* Grants.  GrantHonoured alone is not inductive: when a node's lease runs  *)
(* out its grant ends, and it must then have no cell left; and a node that  *)
(* still has some cell must have a grant.  The cell of the grant is always  *)
(* the freshest of the node's cells.                                        *)

GrantInv ==
    /\ GrantHonoured
    /\ \A c \in Taken : /\ granted[assigned[c]] # NoCell
                        /\ unheard[assigned[c]] <= silence[c]
    /\ \A n \in Node : granted[n] = NoCell => unheard[n] = 0

LEMMA NoCellFact == NoCell \notin Uplink
  BY CellFacts DEF NoCell, Cell

LEMMA GrantStart ==
    ASSUME TypeOK, GrantInv, ClearOldNodes, AgeGrants
    PROVE  GrantInv'
<1>1. ASSUME NEW n \in Node, granted'[n] # NoCell
      PROVE  /\ assigned'[granted'[n]] = n
             /\ silence'[granted'[n]] = unheard'[n]
  <2>1. /\ granted'[n] = granted[n] /\ granted[n] # NoCell
        /\ ~(unheard[n] > MaxAsnOld)
        /\ unheard'[n] = unheard[n] + 1
    BY <1>1 DEF AgeGrants, TypeOK
  <2>2. granted[n] \in Uplink
    BY <2>1 DEF TypeOK
  <2>3. assigned[granted[n]] = n /\ silence[granted[n]] = unheard[n]
    BY <2>1 DEF GrantInv, GrantHonoured
  <2>4. n # NoNode
    BY ScheduleAssumption
  <2> QED
    BY <2>1, <2>2, <2>3, <2>4 DEF ClearOldNodes, ReportLeft
<1>2. ASSUME NEW c \in Taken'
      PROVE  /\ granted'[assigned'[c]] # NoCell
             /\ unheard'[assigned'[c]] <= silence'[c]
  <2>1. /\ c \in Uplink /\ c \in Taken
        /\ assigned'[c] = assigned[c]
        /\ ~(silence[c] > MaxAsnOld)
        /\ silence'[c] = silence[c] + 1
    BY <1>2 DEF ClearOldNodes, ReportLeft, Taken, TypeOK
  <2>2. assigned[c] \in Node
    BY <2>1 DEF Taken, TypeOK
  <2>3. granted[assigned[c]] # NoCell /\ unheard[assigned[c]] <= silence[c]
    BY <2>1 DEF GrantInv
  <2>4. silence[c] \in Nat /\ unheard[assigned[c]] \in Nat
    BY <2>1, <2>2, CellFacts DEF TypeOK
  <2>5. ~(unheard[assigned[c]] > MaxAsnOld)
    BY <2>1, <2>3, <2>4, CellFacts
  <2>6. /\ granted'[assigned[c]] = granted[assigned[c]]
        /\ unheard'[assigned[c]] = unheard[assigned[c]] + 1
    BY <2>2, <2>3, <2>5 DEF AgeGrants
  <2> QED
    BY <2>1, <2>3, <2>4, <2>6
<1>3. ASSUME NEW n \in Node, granted'[n] = NoCell
      PROVE  unheard'[n] = 0
  BY <1>3 DEF AgeGrants
<1> QED
  BY <1>1, <1>2, <1>3 DEF GrantInv, GrantHonoured

LEMMA GrantJoin ==
    ASSUME TypeOK, GrantInv, NEW n \in Node, RxJoinRequest(n)
    PROVE  GrantInv'
<1>1. PICK c \in Fitting(n) :
         /\ assigned' = [assigned EXCEPT ![c] = n]
         /\ silence' = [silence EXCEPT ![c] = 0]
         /\ granted' = [granted EXCEPT ![n] = c]
         /\ unheard' = [unheard EXCEPT ![n] = 0]
  BY DEF RxJoinRequest
<1>2. c \in Uplink /\ n # NoNode /\ assigned[c] \in {NoNode, n} /\ c # NoCell
  BY ScheduleAssumption, NoCellFact DEF Fitting
<1>3. ASSUME NEW m \in Node, granted'[m] # NoCell
      PROVE  /\ assigned'[granted'[m]] = m
             /\ silence'[granted'[m]] = unheard'[m]
  <2>1. CASE m = n
    BY <1>1, <1>2, <2>1 DEF TypeOK
  <2>2. CASE m # n
    <3>1. granted'[m] = granted[m] /\ unheard'[m] = unheard[m]
      BY <1>1, <2>2 DEF TypeOK
    <3>2. assigned[granted[m]] = m /\ silence[granted[m]] = unheard[m]
      BY <1>3, <3>1 DEF GrantInv, GrantHonoured
    <3>3. granted[m] # c
      BY <1>2, <2>2, <3>2, ScheduleAssumption
    <3>4. granted[m] \in Uplink
      BY <1>3, <3>1 DEF TypeOK
    <3> QED
      BY <1>1, <3>1, <3>2, <3>3, <3>4 DEF TypeOK
  <2> QED
    BY <2>1, <2>2
<1>4. ASSUME NEW d \in Taken'
      PROVE  /\ granted'[assigned'[d]] # NoCell
             /\ unheard'[assigned'[d]] <= silence'[d]
  <2>1. d \in Uplink /\ silence[d] \in Nat
    BY <1>4, CellFacts DEF Taken, TypeOK
  <2>2. CASE assigned'[d] = n
    <3>1. granted'[n] = c /\ unheard'[n] = 0
      BY <1>1 DEF TypeOK
    <3>2. silence'[d] \in Nat
      BY <1>1, <2>1 DEF TypeOK
    <3> QED
      BY <1>2, <2>2, <3>1, <3>2
  <2>3. CASE assigned'[d] # n
    <3>1. d # c /\ assigned'[d] = assigned[d] /\ silence'[d] = silence[d]
      BY <1>1, <1>2, <2>1, <2>3 DEF TypeOK
    <3>2. d \in Taken /\ assigned[d] \in Node
      BY <1>4, <2>1, <3>1 DEF Taken, TypeOK
    <3>3. /\ granted'[assigned[d]] = granted[assigned[d]]
          /\ unheard'[assigned[d]] = unheard[assigned[d]]
      BY <1>1, <2>3, <3>1, <3>2 DEF TypeOK
    <3> QED
      BY <3>1, <3>2, <3>3 DEF GrantInv
  <2> QED
    BY <2>2, <2>3
<1>5. ASSUME NEW m \in Node, granted'[m] = NoCell
      PROVE  unheard'[m] = 0
  <2>1. m # n
    BY <1>1, <1>2, <1>5 DEF TypeOK
  <2> QED
    BY <1>1, <1>5, <2>1 DEF GrantInv, TypeOK
<1> QED
  BY <1>3, <1>4, <1>5 DEF GrantInv, GrantHonoured

LEMMA GrantHeard ==
    ASSUME TypeOK, GrantInv, NEW n \in Node, RxFromJoined(n)
    PROVE  GrantInv'
<1>1. /\ assigned' = assigned /\ granted' = granted
      /\ silence' = [c \in Uplink |-> IF assigned[c] = n THEN 0 ELSE silence[c]]
      /\ unheard' = [unheard EXCEPT ![n] = 0]
  BY DEF RxFromJoined, KeepNodeAlive
<1>2. ASSUME NEW m \in Node, granted'[m] # NoCell
      PROVE  /\ assigned'[granted'[m]] = m
             /\ silence'[granted'[m]] = unheard'[m]
  <2>1. granted[m] \in Uplink
    BY <1>1, <1>2 DEF TypeOK
  <2>2. assigned[granted[m]] = m /\ silence[granted[m]] = unheard[m]
    BY <1>1, <1>2 DEF GrantInv, GrantHonoured
  <2> QED
    BY <1>1, <2>1, <2>2 DEF TypeOK
<1>3. ASSUME NEW c \in Taken'
      PROVE  /\ granted'[assigned'[c]] # NoCell
             /\ unheard'[assigned'[c]] <= silence'[c]
  <2>1. c \in Taken /\ c \in Uplink /\ assigned[c] \in Node
    BY <1>1, <1>3 DEF Taken, TypeOK
  <2>2. granted[assigned[c]] # NoCell /\ unheard[assigned[c]] <= silence[c]
    BY <2>1 DEF GrantInv
  <2> QED
    BY <1>1, <2>1, <2>2 DEF TypeOK
<1>4. ASSUME NEW m \in Node, granted'[m] = NoCell
      PROVE  unheard'[m] = 0
  BY <1>1, <1>4 DEF GrantInv, TypeOK
<1> QED
  BY <1>2, <1>3, <1>4 DEF GrantInv, GrantHonoured

LEMMA GrantStep == TypeOK /\ GrantInv /\ [Next]_vars => GrantInv'
<1> SUFFICES ASSUME TypeOK, GrantInv, [Next]_vars PROVE GrantInv'
  OBVIOUS
<1>1. CASE NewSlot
  BY <1>1, GrantStart
  DEF NewSlot, BeaconSlot, DownlinkSlot, ListenSlot, StartCell
<1>2. ASSUME NEW n \in Node, RxJoinRequest(n) PROVE GrantInv'
  BY <1>2, GrantJoin
<1>3. ASSUME NEW n \in Node, RxFromJoined(n) PROVE GrantInv'
  BY <1>3, GrantHeard
<1>4. CASE UNCHANGED <<assigned, silence, granted, unheard>>
  BY <1>4 DEF GrantInv, GrantHonoured, Taken
<1>5. ASSUME NEW n \in Node, RxJoinRequestFull(n)
      PROVE  UNCHANGED <<assigned, silence, granted, unheard>>
  BY <1>5 DEF RxJoinRequestFull, cellVars, history
<1>6. RxIgnored \/ BloomSetClean \/ UNCHANGED vars
        => UNCHANGED <<assigned, silence, granted, unheard>>
  BY DEF RxIgnored, BloomSetClean, vars, cellVars, history
<1> QED
  BY <1>1, <1>2, <1>3, <1>4, <1>5, <1>6, Zenon DEF Next, RxFrame

LEMMA GrantInit == Init => GrantInv
  BY DEF Init, GrantInv, GrantHonoured, Taken

\* A node keeps the cell it was told, and no other node is given it, for as long
\* as its lease lasts.
THEOREM GrantsCorrect == Safety => []GrantHonoured
<1>1. Init => TypeOK /\ GrantInv
  BY TypeInit, GrantInit
<1>2. TypeOK /\ GrantInv /\ [Next]_vars => (TypeOK /\ GrantInv)'
  BY TypeStep, GrantStep
<1>3. GrantInv => GrantHonoured
  BY DEF GrantInv
<1> QED
  BY <1>1, <1>2, <1>3, PTL DEF Safety

-----------------------------------------------------------------------------
(* What the application is told.                                           *)

LEMMA AppStart ==
    ASSUME TypeOK, AppSeesOnlyMembers, ClearOldNodes
    PROVE  AppSeesOnlyMembers'
<1> SUFFICES ASSUME NEW n \in appNodes' PROVE n \in Members'
  BY DEF AppSeesOnlyMembers
<1>1. n \in appNodes /\ n \in Node /\ n # NoNode
  BY ScheduleAssumption DEF ClearOldNodes, ReportLeft, TypeOK
<1>2. PICK c \in Uplink : assigned[c] = n
  BY <1>1 DEF AppSeesOnlyMembers, Members, IsJoined, CellsOf
<1>3. ~(silence[c] > MaxAsnOld)
  BY <1>1, <1>2 DEF ClearOldNodes, ReportLeft
<1>4. assigned'[c] = n
  BY <1>2, <1>3 DEF ClearOldNodes, ReportLeft
<1> QED
  BY <1>1, <1>4 DEF Members, IsJoined, CellsOf

LEMMA AppJoin ==
    ASSUME TypeOK, AppSeesOnlyMembers, NEW n \in Node, RxJoinRequest(n)
    PROVE  AppSeesOnlyMembers'
<1>1. PICK c \in Fitting(n) :
         /\ assigned' = [assigned EXCEPT ![c] = n]
         /\ appNodes' = appNodes \cup {n}
  BY DEF RxJoinRequest
<1>2. c \in Uplink /\ assigned[c] \in {NoNode, n}
  BY DEF Fitting
<1>3. ASSUME NEW m \in appNodes' PROVE \E d \in Uplink : assigned'[d] = m
  <2>1. CASE m = n
    BY <1>1, <1>2, <2>1 DEF TypeOK
  <2>2. CASE m # n
    <3>1. m \in appNodes /\ m \in Node
      BY <1>1, <1>3, <2>2 DEF TypeOK
    <3>2. PICK d \in Uplink : assigned[d] = m
      BY <3>1 DEF AppSeesOnlyMembers, Members, IsJoined, CellsOf
    <3>3. assigned'[d] = m
      BY <1>1, <1>2, <2>2, <3>1, <3>2, ScheduleAssumption DEF TypeOK
    <3> QED
      BY <3>3
  <2> QED
    BY <2>1, <2>2
<1>4. appNodes' \subseteq Node
  BY <1>1 DEF TypeOK
<1> QED
  BY <1>3, <1>4 DEF AppSeesOnlyMembers, Members, IsJoined, CellsOf

LEMMA AppStep == TypeOK /\ AppSeesOnlyMembers /\ [Next]_vars => AppSeesOnlyMembers'
<1> SUFFICES ASSUME TypeOK, AppSeesOnlyMembers, [Next]_vars
             PROVE  AppSeesOnlyMembers'
  OBVIOUS
<1>1. CASE NewSlot
  BY <1>1, AppStart
  DEF NewSlot, BeaconSlot, DownlinkSlot, ListenSlot, StartCell
<1>2. ASSUME NEW n \in Node, RxJoinRequest(n) PROVE AppSeesOnlyMembers'
  BY <1>2, AppJoin
<1>3. CASE UNCHANGED <<assigned, appNodes>>
  BY <1>3 DEF AppSeesOnlyMembers, Members, IsJoined, CellsOf
<1>4. ASSUME NEW n \in Node, RxJoinRequestFull(n) \/ RxFromJoined(n)
      PROVE  UNCHANGED <<assigned, appNodes>>
  BY <1>4 DEF RxJoinRequestFull, RxFromJoined, KeepNodeAlive, cellVars, history
<1>5. RxIgnored \/ BloomSetClean \/ UNCHANGED vars
        => UNCHANGED <<assigned, appNodes>>
  BY DEF RxIgnored, BloomSetClean, vars, cellVars, history
<1> QED
  BY <1>1, <1>2, <1>3, <1>4, <1>5, Zenon DEF Next, RxFrame

\* Every node the application counts as joined has a cell.
THEOREM AppCorrect == Safety => []AppSeesOnlyMembers
<1>1. Init => TypeOK /\ AppSeesOnlyMembers
  BY TypeInit DEF Init, AppSeesOnlyMembers
<1>2. TypeOK /\ AppSeesOnlyMembers /\ [Next]_vars => (TypeOK /\ AppSeesOnlyMembers)'
  BY TypeStep, AppStep
<1> QED
  BY <1>1, <1>2, PTL DEF Safety

-----------------------------------------------------------------------------
(* The join response.  It can only wait in the queue during the rest of the *)
(* shared-uplink slot its request came in, with the radio already asleep:   *)
(* no second request can come in, and the next slot is a downlink slot.     *)

ResponseInv ==
    joinPacket # NoPacket =>
        /\ CellType[current] = "S"
        /\ radio = "sleep"
        /\ granted[joinPacket.dst] = joinPacket.cell

LEMMA ResponseInit == Init => ResponseInv
  BY DEF Init, ResponseInv

LEMMA AfterShared ==
    ASSUME TypeOK, ResponseInv, joinPacket # NoPacket, NewSlot
    PROVE  DownlinkSlot
<1>1. CellType[(current + 1) % NCells] = "D"
  BY DownlinkFollowsShared DEF TypeOK, ResponseInv
<1> QED
  BY <1>1 DEF NewSlot, BeaconSlot, ListenSlot, StartCell

LEMMA ResponseStep == TypeOK /\ ResponseInv /\ [Next]_vars => ResponseInv'
<1> SUFFICES ASSUME TypeOK, ResponseInv, [Next]_vars, joinPacket' # NoPacket
             PROVE  /\ CellType[current'] = "S"
                    /\ radio' = "sleep"
                    /\ granted'[joinPacket'.dst] = joinPacket'.cell
  BY DEF ResponseInv
<1>1. CASE NewSlot
  <2>1. CASE joinPacket # NoPacket
    BY <1>1, <2>1, AfterShared DEF DownlinkSlot
  <2>2. CASE joinPacket = NoPacket
    BY <1>1, <2>2 DEF NewSlot, BeaconSlot, DownlinkSlot, ListenSlot
  <2> QED
    BY <2>1, <2>2
<1>2. ASSUME NEW n \in Node, RxJoinRequest(n)
      PROVE  /\ CellType[current'] = "S"
             /\ radio' = "sleep"
             /\ granted'[joinPacket'.dst] = joinPacket'.cell
  <2>1. PICK c \in Fitting(n) :
           /\ Receive("S")
           /\ joinPacket' = [dst |-> n, cell |-> c]
           /\ granted' = [granted EXCEPT ![n] = c]
    BY <1>2 DEF RxJoinRequest
  <2> QED
    BY <2>1 DEF Receive, TypeOK
<1>3. ASSUME NEW n \in Node, RxJoinRequestFull(n) \/ RxFromJoined(n)
      PROVE  /\ radio' = "sleep" /\ joinPacket' = joinPacket
             /\ current' = current /\ granted' = granted
  BY <1>3 DEF RxJoinRequestFull, RxFromJoined, KeepNodeAlive, Receive, history
<1>4. RxIgnored => /\ radio' = "sleep" /\ joinPacket' = joinPacket
                   /\ current' = current /\ granted' = granted
  BY DEF RxIgnored, Receive, history
<1>5. BloomSetClean \/ UNCHANGED vars
        => UNCHANGED <<radio, joinPacket, current, granted>>
  BY DEF BloomSetClean, vars, history
<1> QED
  BY <1>1, <1>2, <1>3, <1>4, <1>5 DEF Next, RxFrame, ResponseInv

LEMMA ResponseAlways == Safety => [](TypeOK /\ ResponseInv)
<1>1. Init => TypeOK /\ ResponseInv
  BY TypeInit, ResponseInit
<1>2. TypeOK /\ ResponseInv /\ [Next]_vars => (TypeOK /\ ResponseInv)'
  BY TypeStep, ResponseStep
<1> QED
  BY <1>1, <1>2, PTL DEF Safety

\* The cell named in a waiting join response is the one its node was granted.
THEOREM ResponseCorrect == Safety => []ResponseNamesHeldCell
<1>1. ResponseInv => ResponseNamesHeldCell
  BY DEF ResponseInv, ResponseNamesHeldCell
<1> QED
  BY <1>1, ResponseAlways, PTL

\* A join response leaves the single-entry buffer only by being transmitted.
THEOREM ResponseNotLost == Safety => NoResponseOverwritten
<1> DEFINE Sent == joinPacket # NoPacket /\ joinPacket' # joinPacket =>
                      joinPacket' = NoPacket /\ frame' = Response(joinPacket)
<1>1. TypeOK /\ ResponseInv /\ [Next]_vars => [Sent]_vars
  <2> SUFFICES ASSUME TypeOK, ResponseInv, Next,
                      joinPacket # NoPacket, joinPacket' # joinPacket
               PROVE  joinPacket' = NoPacket /\ frame' = Response(joinPacket)
    OBVIOUS
  <2>1. CASE NewSlot
    BY <2>1, AfterShared DEF DownlinkSlot
  <2>2. ASSUME NEW n \in Node, RxJoinRequest(n) PROVE FALSE
    <3>1. radio = "listen"
      BY <2>2 DEF RxJoinRequest, Receive
    <3> QED
      BY <3>1 DEF ResponseInv
  <2>3. ASSUME NEW n \in Node, RxJoinRequestFull(n) \/ RxFromJoined(n) PROVE FALSE
    BY <2>3 DEF RxJoinRequestFull, RxFromJoined, KeepNodeAlive
  <2>4. ~RxIgnored /\ ~BloomSetClean
    BY DEF RxIgnored, BloomSetClean
  <2> QED
    BY <2>1, <2>2, <2>3, <2>4 DEF Next, RxFrame
<1> QED
  BY <1>1, ResponseAlways, PTL DEF Safety, NoResponseOverwritten

-----------------------------------------------------------------------------
(* The flag that calls for a rebuild of the Bloom filter.                  *)

\* No handler takes the flag down, and one that changes a cell raises it.
LEMMA HandlerMarksDirty ==
    ASSUME NewSlot \/ RxFrame, dirty \in BOOLEAN, assigned \in [Uplink -> Node \cup {NoNode}]
    PROVE  /\ dirty' \in BOOLEAN
           /\ dirty => dirty'
           /\ dirty' \/ assigned' = assigned
<1>1. CASE ClearOldNodes
  <2> DEFINE old == {c \in Uplink : assigned[c] # NoNode /\ silence[c] > MaxAsnOld}
  <2>1. dirty' = (dirty \/ old # {})
    BY <1>1 DEF ClearOldNodes, ReportLeft
  <2>2. CASE old = {}
    <3>1. assigned' = [c \in Uplink |-> assigned[c]]
      BY <1>1, <2>2 DEF ClearOldNodes, ReportLeft
    <3> QED
      BY <2>1, <2>2, <3>1
  <2> QED
    BY <2>1, <2>2
<1>2. ASSUME NEW n \in Node, RxJoinRequest(n) PROVE dirty' = TRUE
  BY <1>2 DEF RxJoinRequest
<1>3. ASSUME NEW n \in Node, RxJoinRequestFull(n) \/ RxFromJoined(n)
      PROVE  dirty' = dirty /\ assigned' = assigned
  BY <1>3 DEF RxJoinRequestFull, RxFromJoined, KeepNodeAlive, cellVars
<1>4. RxIgnored => dirty' = dirty /\ assigned' = assigned
  BY DEF RxIgnored, cellVars
<1>5. NewSlot => ClearOldNodes
  BY DEF NewSlot, BeaconSlot, DownlinkSlot, ListenSlot, StartCell
<1> QED
  BY <1>1, <1>2, <1>3, <1>4, <1>5 DEF RxFrame

-----------------------------------------------------------------------------
(* The cells implement the lease.                                          *)

\* Members and grants are the same nodes.
LEMMA MemberHasGrant ==
    ASSUME TypeOK, GrantInv, NEW n \in Node
    PROVE  n \in Members <=> granted[n] # NoCell
<1>1. ASSUME n \in Members PROVE granted[n] # NoCell
  <2>1. PICK c \in Uplink : assigned[c] = n
    BY <1>1 DEF Members, IsJoined, CellsOf
  <2>2. c \in Taken
    BY <2>1, ScheduleAssumption DEF Taken
  <2> QED
    BY <2>1, <2>2 DEF GrantInv
<1>2. ASSUME granted[n] # NoCell PROVE n \in Members
  <2>1. granted[n] \in Uplink /\ assigned[granted[n]] = n
    BY <1>2 DEF GrantInv, GrantHonoured, TypeOK
  <2> QED
    BY <2>1 DEF Members, IsJoined, CellsOf
<1> QED
  BY <1>1, <1>2

\* Each member owns at least one taken cell: members never outnumber them.
LEMMA MembersBound ==
    ASSUME TypeOK, GrantInv
    PROVE  /\ IsFiniteSet(Members)
           /\ Cardinality(Members) <= Cardinality(Taken)
           /\ Cardinality(Members) \in Nat
<1> DEFINE home == [n \in Members |-> granted[n]]
<1>1. ASSUME NEW n \in Members
      PROVE  granted[n] \in Taken /\ assigned[granted[n]] = n
  <2>1. n \in Node /\ granted[n] # NoCell
    BY MemberHasGrant DEF Members
  <2> QED
    BY <2>1, ScheduleAssumption DEF GrantInv, GrantHonoured, TypeOK, Taken
<1>2. home \in [Members -> Taken]
  BY <1>1
<1>3. ASSUME NEW m \in Members, NEW n \in Members, home[m] = home[n]
      PROVE  m = n
  BY <1>1, <1>3
<1>4. home \in Injection(Members, Taken)
  BY <1>2, <1>3 DEF Injection, IsInjective
<1> HIDE DEF home
<1>5. IsFiniteSet(Members) /\ Cardinality(Members) <= Cardinality(Taken)
  BY <1>4, TakenFacts, FS_Injection
<1> QED
  BY <1>5, FS_CardinalityType

LEMMA SlotPassesLease ==
    ASSUME TypeOK, GrantInv, GrantInv', TypeOK', ClearOldNodes, AgeGrants
    PROVE  Lease!PassSlot
<1> DEFINE kept == {n \in Members : unheard[n] <= MaxAsnOld}
<1>1. ASSUME NEW n \in Node
      PROVE  /\ n \in Members' <=> n \in kept
             /\ unheard'[n] = IF n \in kept THEN unheard[n] + 1 ELSE 0
  <2>1. n \in Members' <=> granted'[n] # NoCell
    <3>1. ASSUME n \in Members' PROVE granted'[n] # NoCell
      <4>1. PICK c \in Uplink : assigned'[c] = n
        BY <3>1 DEF Members, IsJoined, CellsOf
      <4>2. c \in Taken'
        BY <4>1, ScheduleAssumption DEF Taken
      <4> QED
        BY <4>1, <4>2 DEF GrantInv
    <3>2. ASSUME granted'[n] # NoCell PROVE n \in Members'
      <4>1. granted'[n] \in Uplink /\ assigned'[granted'[n]] = n
        BY <3>2 DEF GrantInv, GrantHonoured, TypeOK
      <4> QED
        BY <4>1 DEF Members, IsJoined, CellsOf
    <3> QED
      BY <3>1, <3>2
  <2>2. unheard[n] \in Nat
    BY CellFacts DEF TypeOK
  <2>3. CASE unheard[n] > MaxAsnOld
    <3>1. granted'[n] = NoCell /\ unheard'[n] = 0
      BY <2>3 DEF AgeGrants
    <3>2. n \notin kept
      BY <2>2, <2>3, CellFacts
    <3> QED
      BY <2>1, <3>1, <3>2
  <2>4. CASE ~(unheard[n] > MaxAsnOld)
    <3>1. granted'[n] = granted[n]
      BY <2>4 DEF AgeGrants
    <3>2. unheard'[n] = IF granted[n] = NoCell THEN 0 ELSE unheard[n] + 1
      BY <2>4 DEF AgeGrants
    <3>3. n \in kept <=> granted[n] # NoCell
      BY <2>2, <2>4, CellFacts, MemberHasGrant
    <3> QED
      BY <2>1, <3>1, <3>2, <3>3
  <2> QED
    BY <2>3, <2>4
<1>2. Members' = kept
  BY <1>1 DEF Members
<1>3. unheard' = [n \in Node |-> IF n \in kept THEN unheard[n] + 1 ELSE 0]
  BY <1>1 DEF AgeGrants
<1> QED
  BY <1>2, <1>3 DEF Lease!PassSlot

LEMMA JoinIsLeased ==
    ASSUME TypeOK, GrantInv, NEW n \in Node, RxJoinRequest(n)
    PROVE  Lease!Admit(n) \/ Lease!Hear(n)
<1>1. PICK c \in Fitting(n) :
         /\ assigned' = [assigned EXCEPT ![c] = n]
         /\ unheard' = [unheard EXCEPT ![n] = 0]
  BY DEF RxJoinRequest
<1>2. c \in Uplink /\ assigned[c] \in {NoNode, n} /\ n # NoNode
  BY ScheduleAssumption DEF Fitting
<1>3. Members' = Members \cup {n}
  <2>1. ASSUME NEW m \in Node
        PROVE  (\E d \in Uplink : assigned'[d] = m)
                 <=> (m = n \/ \E d \in Uplink : assigned[d] = m)
    BY <1>1, <1>2, ScheduleAssumption DEF TypeOK
  <2> QED
    BY <2>1 DEF Members, IsJoined, CellsOf
<1>4. CASE n \in Members
  BY <1>1, <1>3, <1>4 DEF Lease!Hear
<1>5. CASE n \notin Members
  <2>1. assigned[c] = NoNode
    BY <1>2, <1>5 DEF Members, IsJoined, CellsOf
  <2>2. FreeCells # {}
    BY <1>2, <2>1 DEF FreeCells, CellsOf
  <2>3. Cardinality(FreeCells) # 0
    BY <2>2, TakenFacts, FS_EmptySet
  <2>4. Cardinality(Members) < MaxNodes
    BY <2>3, TakenFacts, MembersBound, CellFacts
  <2>5. unheard[n] = 0
    BY <1>5, MemberHasGrant DEF GrantInv
  <2>6. unheard' = unheard
    BY <1>1, <2>5 DEF TypeOK
  <2>7. Lease!Cardinality(Members) = Cardinality(Members)
    BY DEF Lease!Cardinality, Cardinality
  <2> QED
    BY <1>3, <1>5, <2>4, <2>6, <2>7 DEF Lease!Admit
<1> QED
  BY <1>4, <1>5

LEMMA LeaseStep ==
    TypeOK /\ GrantInv /\ TypeOK' /\ GrantInv' /\ [Next]_vars
        => [Lease!LeaseNext]_(Lease!leaseVars)
<1> SUFFICES ASSUME TypeOK, GrantInv, TypeOK', GrantInv', [Next]_vars
             PROVE  [Lease!LeaseNext]_(Lease!leaseVars)
  OBVIOUS
<1>1. CASE NewSlot
  BY <1>1, SlotPassesLease
  DEF NewSlot, BeaconSlot, DownlinkSlot, ListenSlot, StartCell, Lease!LeaseNext
<1>2. ASSUME NEW n \in Node, RxJoinRequest(n)
      PROVE  Lease!LeaseNext
  BY <1>2, JoinIsLeased DEF Lease!LeaseNext
<1>3. ASSUME NEW n \in Node, RxFromJoined(n)
      PROVE  Lease!LeaseNext
  <2>1. n \in Members
    BY <1>3 DEF RxFromJoined, KeepNodeAlive, Members
  <2>2. Members' = Members
    BY <1>3 DEF RxFromJoined, KeepNodeAlive, Members, IsJoined, CellsOf
  <2> QED
    BY <1>3, <2>1, <2>2 DEF RxFromJoined, KeepNodeAlive, Lease!LeaseNext, Lease!Hear
<1>4. CASE UNCHANGED <<assigned, unheard>>
  BY <1>4 DEF Lease!leaseVars, Members, IsJoined, CellsOf
<1>5. ASSUME NEW n \in Node, RxJoinRequestFull(n)
      PROVE  UNCHANGED <<assigned, unheard>>
  BY <1>5 DEF RxJoinRequestFull, cellVars, history
<1>6. RxIgnored \/ BloomSetClean \/ UNCHANGED vars
        => UNCHANGED <<assigned, unheard>>
  BY DEF RxIgnored, BloomSetClean, vars, cellVars, history
<1> QED
  BY <1>1, <1>2, <1>3, <1>4, <1>5, <1>6, Zenon DEF Next, RxFrame

LEMMA LeaseStart == Init => Lease!LeaseInit
<1> SUFFICES ASSUME Init PROVE Lease!LeaseInit
  OBVIOUS
<1>1. Members = {}
  BY ScheduleAssumption DEF Init, Members, IsJoined, CellsOf
<1> QED
  BY <1>1 DEF Init, Lease!LeaseInit

\* Whatever frames arrive, the gateway's cells behave as a lease on membership:
\* a node leaves at the first slot boundary after MaxAsnOld slots of silence and
\* never before, and no more nodes than there are uplink cells are admitted.
THEOREM LeaseImplemented == Safety => Lease!LeaseSafety
<1>1. Init => TypeOK /\ GrantInv
  BY TypeInit, GrantInit
<1>2. TypeOK /\ GrantInv /\ [Next]_vars => (TypeOK /\ GrantInv)'
  BY TypeStep, GrantStep
<1> QED
  BY <1>1, <1>2, LeaseStart, LeaseStep, PTL DEF Safety, Lease!LeaseSafety
=============================================================================
