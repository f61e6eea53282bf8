--------------------------- MODULE Network_proof ---------------------------
(***************************************************************************)
(* What a gateway and its nodes believe of each other, for any number of   *)
(* nodes, any schedule and any lease, whatever the medium does: proofs on  *)
(* top of those about the gateway alone.                                   *)
(***************************************************************************)
EXTENDS Network, GatewayAssoc_proof

NetTypes ==
    /\ listed \subseteq Node /\ onAir \subseteq Node
    /\ {building, raced, stale} \subseteq BOOLEAN
    /\ assoc \in [Node -> {"idle", "joining", "joined"}]
    /\ own \in [Node -> Uplink \cup {NoCell}]
    /\ pending \in [Node -> BOOLEAN]
    /\ sending \subseteq Node
    /\ lost \in [Node -> 0 .. MaxSlotframesNoRx]

\* A response is on the air right after the slot of its request, when its node has been heard
\* a moment ago.
FreshInv ==
    /\ joinPacket # NoPacket => unheard[joinPacket.dst] = 0
    /\ frame.kind = "response" =>
          /\ CellType[current] = "D" /\ radio = "sleep"
          /\ frame.dst \in Node /\ frame.cell \in Uplink
          /\ granted[frame.dst] = frame.cell
          /\ unheard[frame.dst] \in {0, 1}

SenderInv ==
    \A n \in sending :
        \/ CellType[current] = "S" /\ assoc[n] = "joining"
        \/ CellType[current] = "U" /\ assoc[n] = "joined" /\ own[n] = current

\* The slots since the cell was last current.
Since(c) == IF c <= current THEN current - c ELSE current - c + NCells

\* How long the gateway may not have heard a node that has lost fewer frames than a lease has.
Bound(n) == NCells * lost[n] + (IF n \in sending THEN NCells ELSE Since(own[n]))

\* A node that has lost fewer than that has its grant, and no node has a grant of another cell than
\* the one it uses.
Kept(n) ==
    assoc[n] = "joined" =>
        /\ own[n] \in Uplink
        /\ granted[n] \in {own[n], NoCell}
        /\ lost[n] < MaxSlotframesNoRx => granted[n] = own[n] /\ unheard[n] <= Bound(n)

KeptInv == \A n \in Node : Kept(n)

\* The filter is up to date unless a rebuild is due, under way or was disturbed, and the one on the
\* air is unless the beacon is stale.
ListInv ==
    /\ building => dirty
    /\ ~dirty /\ ~raced => listed = Members
    /\ frame.kind = "beacon" =>
          /\ CellType[current] = "B" /\ radio = "sleep"
          /\ ~stale => Members \subseteq onAir
    /\ \A n \in Node : pending[n] => assoc[n] = "joined" /\ frame.kind = "beacon" /\ n \notin onAir

-----------------------------------------------------------------------------
(* The gateway on the network is the gateway of GatewayAssoc.              *)

LEMMA GatewayOnAir == [NetNext]_netVars => [Next]_vars
<1> SUFFICES ASSUME [NetNext]_netVars PROVE [Next]_vars
  OBVIOUS
<1>1. CASE Slot
  BY <1>1 DEF Slot, GatewaySends, NodesSend, Next, NewSlot
<1>2. CASE StartRebuild \/ EndRebuild
  BY <1>2 DEF StartRebuild, EndRebuild, Next
<1>3. ASSUME NEW n \in Node, Receives(n) PROVE Next
  BY <1>3 DEF Receives, Next, RxFrame
<1>4. ASSUME NEW n \in Node, HearBeacon(n) \/ HearResponse(n) \/ HearData(n) \/ Restart(n)
      PROVE  UNCHANGED vars
  BY <1>4 DEF HearBeacon, HearResponse, HearData, Restart, Hears
<1>5. CASE UNCHANGED netVars
  BY <1>5 DEF netVars
<1> QED
  BY <1>1, <1>2, <1>3, <1>4, <1>5 DEF NetNext

GatewayInv == TypeOK /\ GrantInv /\ ResponseInv

LEMMA GatewayStart == NetInit => GatewayInv
BY TypeInit, GrantInit, ResponseInit DEF NetInit, GatewayInv

LEMMA GatewayStep == GatewayInv /\ [NetNext]_netVars => GatewayInv'
BY GatewayOnAir, TypeStep, GrantStep, ResponseStep DEF GatewayInv

\* Over the air, the gateway keeps every promise it makes to whatever frames come (GatewayAssoc).
THEOREM GatewayKeepsPromises == NetSafety => Safety
<1>1. NetInit => Init
  BY DEF NetInit
<1> QED
  BY <1>1, GatewayOnAir, PTL DEF NetSafety, Safety

-----------------------------------------------------------------------------
(* Types. *)

LEMMA FilterSets ==
    ASSUME NetTypes
    PROVE  Filters \subseteq SUBSET Node
BY DEF NetTypes, Filters, Members

LEMMA TypesOfNodes ==
    ASSUME NetTypes, NEW type, StartNodes(type)
    PROVE  /\ assoc' \in [Node -> {"idle", "joining", "joined"}]
           /\ own' \in [Node -> Uplink \cup {NoCell}]
           /\ pending' \in [Node -> BOOLEAN]
           /\ lost' \in [Node -> 0 .. MaxSlotframesNoRx]
<1>1. lost' \in [Node -> 0 .. MaxSlotframesNoRx]
  BY ScheduleAssumption DEF StartNodes, CountLost, NetTypes
<1> QED
  BY <1>1 DEF StartNodes, NetTypes

LEMMA TypesStep ==
    ASSUME NetTypes, GatewayInv, GatewayInv', FreshInv, [NetNext]_netVars
    PROVE  NetTypes'
<1>1. CASE GatewaySends
  <2>1. /\ assoc' \in [Node -> {"idle", "joining", "joined"}]
        /\ own' \in [Node -> Uplink \cup {NoCell}]
        /\ pending' \in [Node -> BOOLEAN]
        /\ lost' \in [Node -> 0 .. MaxSlotframesNoRx]
    BY <1>1, TypesOfNodes DEF GatewaySends
  <2>2. onAir' \subseteq Node /\ sending' \subseteq Node
    BY <1>1, FilterSets DEF GatewaySends
  <2>3. {building', raced', stale'} \subseteq BOOLEAN /\ listed' \subseteq Node
    BY <1>1 DEF GatewaySends, Preempt, NetTypes
  <2> QED
    BY <2>1, <2>2, <2>3 DEF NetTypes
<1>2. CASE NodesSend
  <2>1. /\ assoc' \in [Node -> {"idle", "joining", "joined"}]
        /\ own' \in [Node -> Uplink \cup {NoCell}]
        /\ pending' \in [Node -> BOOLEAN]
        /\ lost' \in [Node -> 0 .. MaxSlotframesNoRx]
    BY <1>2, TypesOfNodes DEF NodesSend
  <2>2. onAir' \subseteq Node /\ sending' \subseteq Node
    BY <1>2 DEF NodesSend
  <2>3. {building', raced', stale'} \subseteq BOOLEAN /\ listed' \subseteq Node
    BY <1>2 DEF NodesSend, Preempt, NetTypes
  <2> QED
    BY <2>1, <2>2, <2>3 DEF NetTypes
<1>3. CASE StartRebuild \/ EndRebuild
  BY <1>3 DEF StartRebuild, EndRebuild, NetTypes, nodeVars, airVars, Members
<1>4. ASSUME NEW n \in Node, Receives(n) PROVE NetTypes'
  <2>1. lost' \in [Node -> 0 .. MaxSlotframesNoRx]
    BY <1>4, ScheduleAssumption DEF Receives, NetTypes
  <2> QED
    BY <1>4, <2>1 DEF Receives, Preempt, NetTypes, nodeVars
<1>5. ASSUME NEW n \in Node, HearBeacon(n) \/ HearData(n) PROVE NetTypes'
  BY <1>5 DEF HearBeacon, HearData, Hears, NetTypes, filterVars
<1>6. ASSUME NEW n \in Node, HearResponse(n) PROVE NetTypes'
  <2>1. own' \in [Node -> Uplink \cup {NoCell}] /\ lost' \in [Node -> 0 .. MaxSlotframesNoRx]
    BY <1>6, ScheduleAssumption DEF HearResponse, FreshInv, NetTypes, nodeVars
  <2> QED
    BY <1>6, <2>1 DEF HearResponse, Hears, NetTypes, filterVars, nodeVars
<1>7. ASSUME NEW n \in Node, Restart(n) PROVE NetTypes'
  BY <1>7, ScheduleAssumption DEF Restart, NetTypes, filterVars
<1>8. CASE UNCHANGED netVars
  BY <1>8 DEF netVars, filterVars, nodeVars, airVars, NetTypes
<1> QED
  BY <1>1, <1>2, <1>3, <1>4, <1>5, <1>6, <1>7, <1>8 DEF NetNext, Slot

-----------------------------------------------------------------------------
(* Responses and senders. *)

LEMMA FreshStep ==
    ASSUME TypeOK, ResponseInv, FreshInv, [Next]_vars
    PROVE  FreshInv'
<1>1. CASE NewSlot
  <2>1. CASE joinPacket # NoPacket
    <3>1. DownlinkSlot
      BY <1>1, <2>1, AfterShared
    <3>2. /\ frame' = Response(joinPacket) /\ joinPacket' = NoPacket /\ radio' = "sleep"
          /\ CellType[current'] = "D" /\ AgeGrants
      BY <2>1, <3>1 DEF DownlinkSlot, StartCell
    <3>3. /\ joinPacket.dst \in Node /\ joinPacket.cell \in Uplink
          /\ granted[joinPacket.dst] = joinPacket.cell /\ unheard[joinPacket.dst] = 0
      BY <2>1 DEF TypeOK, JoinResponse, ResponseInv, FreshInv
    <3>4. /\ granted'[joinPacket.dst] = joinPacket.cell
          /\ unheard'[joinPacket.dst] \in {0, 1}
      BY <3>2, <3>3, CellFacts DEF AgeGrants
    <3> QED
      BY <3>2, <3>3, <3>4 DEF FreshInv, Response
  <2>2. CASE joinPacket = NoPacket
    <3>1. joinPacket' = NoPacket /\ frame'.kind \in {"beacon", "nothing", "data"}
      BY <1>1, <2>2
         DEF NewSlot, BeaconSlot, DownlinkSlot, ListenSlot, Beacon, Nothing, Data
    <3> QED
      BY <3>1 DEF FreshInv
  <2> QED
    BY <2>1, <2>2
<1>2. CASE RxFrame
  <2>1. /\ radio = "listen" /\ frame' = frame
        /\ joinPacket' # NoPacket => unheard'[joinPacket'.dst] = 0
    <3>1. ASSUME NEW n \in Node, RxJoinRequest(n)
          PROVE  /\ radio = "listen" /\ frame' = frame
                 /\ joinPacket'.dst = n /\ unheard'[n] = 0
      BY <3>1 DEF RxJoinRequest, Receive, TypeOK
    <3>2. ASSUME NEW n \in Node, RxFromJoined(n)
          PROVE  /\ radio = "listen" /\ frame' = frame /\ joinPacket' = joinPacket
                 /\ joinPacket # NoPacket => unheard'[joinPacket.dst] = 0
      BY <3>2 DEF RxFromJoined, KeepNodeAlive, Receive, FreshInv, TypeOK, JoinResponse
    <3>3. ASSUME RxIgnored \/ \E n \in Node : RxJoinRequestFull(n)
          PROVE  /\ radio = "listen" /\ frame' = frame
                 /\ joinPacket' = joinPacket /\ unheard' = unheard
      BY <3>3 DEF RxJoinRequestFull, RxIgnored, Receive, history
    <3> QED
      BY <1>2, <3>1, <3>2, <3>3 DEF RxFrame, FreshInv
  <2> QED
    BY <2>1 DEF FreshInv
<1>3. CASE BloomSetClean \/ UNCHANGED vars
  BY <1>3 DEF BloomSetClean, vars, history, FreshInv
<1> QED
  BY <1>1, <1>2, <1>3 DEF Next

LEMMA SenderStep ==
    ASSUME NetTypes, SenderInv, FreshInv, [NetNext]_netVars
    PROVE  SenderInv'
<1>1. CASE GatewaySends
  BY <1>1 DEF GatewaySends, SenderInv
<1>2. CASE NodesSend
  <2>1. CellType[current'] \in {"S", "U"}
    BY <1>2 DEF NodesSend, ListenSlot, StartCell
  <2>2. CASE CellType[current'] = "S"
    BY <1>2, <2>2 DEF NodesSend, SenderInv
  <2>3. CASE CellType[current'] = "U"
    BY <1>2, <2>3 DEF NodesSend, SenderInv
  <2> QED
    BY <2>1, <2>2, <2>3
<1>3. CASE StartRebuild \/ EndRebuild
  BY <1>3 DEF StartRebuild, EndRebuild, BloomSetClean, vars, nodeVars, airVars, SenderInv
<1>4. ASSUME NEW n \in Node, Receives(n) PROVE SenderInv'
  <2>1. current' = current
    BY <1>4 DEF Receives, RxJoinRequest, RxJoinRequestFull, RxFromJoined, RxIgnored, Receive
  <2> QED
    BY <1>4, <2>1 DEF Receives, nodeVars, SenderInv
<1>5. ASSUME NEW n \in Node, HearBeacon(n) \/ HearData(n) PROVE SenderInv'
  BY <1>5 DEF HearBeacon, HearData, Hears, SenderInv, vars
<1>6. ASSUME NEW n \in Node, HearResponse(n) PROVE SenderInv'
  <2>1. sending = {} /\ sending' = sending
    BY <1>6 DEF HearResponse, Hears, FreshInv, SenderInv
  <2> QED
    BY <2>1 DEF SenderInv
<1>7. ASSUME NEW n \in Node, Restart(n) PROVE SenderInv'
  BY <1>7 DEF Restart, SenderInv, NetTypes, vars
<1>8. CASE UNCHANGED netVars
  BY <1>8 DEF netVars, vars, nodeVars, airVars, SenderInv
<1> QED
  BY <1>1, <1>2, <1>3, <1>4, <1>5, <1>6, <1>7, <1>8 DEF NetNext, Slot

-----------------------------------------------------------------------------
(* The cells nodes use. *)

\* One lost frame stands for one slotframe, and a lease is MaxSlotframesNoRx of them.
LEMMA LostSlotframes ==
    ASSUME NEW k \in Nat
    PROVE  /\ NCells * k \in Nat
           /\ NCells * (k + 1) = NCells * k + NCells
           /\ k < MaxSlotframesNoRx => NCells * k + NCells <= MaxAsnOld
<1>1. NCells * k \in Nat /\ NCells * (k + 1) = NCells * k + NCells
  BY CellFacts
<1>2. ASSUME k < MaxSlotframesNoRx
      PROVE  NCells * (k + 1) <= NCells * MaxSlotframesNoRx
  <2>1. MaxSlotframesNoRx - (k + 1) \in Nat
    BY <1>2, ScheduleAssumption
  <2>2. NCells * (MaxSlotframesNoRx - (k + 1)) \in Nat
    BY <2>1, CellFacts
  <2>3. NCells * MaxSlotframesNoRx = NCells * (k + 1) + NCells * (MaxSlotframesNoRx - (k + 1))
    BY <2>1, CellFacts, ScheduleAssumption
  <2>4. NCells * (k + 1) \in Nat
    BY CellFacts
  <2> QED
    BY <2>2, <2>3, <2>4
<1> QED
  BY <1>1, <1>2 DEF MaxAsnOld

LEMMA CellAfter ==
    ASSUME NEW c \in Cell
    PROVE  (c + 1) % NCells = IF c + 1 = NCells THEN 0 ELSE c + 1
BY CellFacts DEF Cell

\* Only a node that was joined is joined in the next slot, and its frame is lost if it was not
\* received.
LEMMA StaysJoined ==
    ASSUME NetTypes, NEW type, StartNodes(type), NEW n \in Node, assoc'[n] = "joined"
    PROVE  /\ assoc[n] = "joined" /\ own'[n] = own[n]
           /\ lost'[n] < MaxSlotframesNoRx =>
                 /\ lost[n] < MaxSlotframesNoRx
                 /\ lost'[n] = IF n \in sending THEN lost[n] + 1 ELSE lost[n]
<1>1. assoc[n] = "joined" /\ n \notin Leaving
  BY DEF StartNodes, Becomes, NetTypes
<1>2. lost[n] \in 0 .. MaxSlotframesNoRx
  BY DEF NetTypes
<1> QED
  BY <1>1, <1>2, ScheduleAssumption DEF StartNodes, CountLost

LEMMA KeptInSlot ==
    ASSUME NetTypes, GatewayInv, SenderInv, KeptInv, Slot, NEW n \in Node
    PROVE  Kept(n)'
<1> SUFFICES ASSUME assoc'[n] = "joined" PROVE Kept(n)'
  BY DEF Kept
<1>1. /\ AgeGrants /\ current' = (current + 1) % NCells
      /\ \E type : StartNodes(type)
      /\ CellType[current'] = "U" => sending' = {m \in Node : assoc'[m] = "joined" /\ own'[m] = current'}
  BY DEF Slot, GatewaySends, NodesSend, BeaconSlot, DownlinkSlot, ListenSlot, StartCell
<1>2. /\ assoc[n] = "joined" /\ own'[n] = own[n]
      /\ lost'[n] < MaxSlotframesNoRx =>
            /\ lost[n] < MaxSlotframesNoRx
            /\ lost'[n] = IF n \in sending THEN lost[n] + 1 ELSE lost[n]
  BY <1>1, StaysJoined
<1>3. own[n] \in Uplink /\ granted[n] \in {own[n], NoCell}
  BY <1>2 DEF KeptInv, Kept
<1>4. granted'[n] \in {own'[n], NoCell}
  BY <1>1, <1>2, <1>3 DEF AgeGrants
<1>5. ASSUME lost'[n] < MaxSlotframesNoRx
      PROVE  granted'[n] = own'[n] /\ unheard'[n] <= Bound(n)'
  <2>1. /\ lost[n] \in Nat /\ unheard[n] \in Nat /\ lost[n] < MaxSlotframesNoRx
        /\ granted[n] = own[n] /\ unheard[n] <= Bound(n)
    BY <1>2, <1>5, CellFacts DEF KeptInv, Kept, NetTypes, GatewayInv, TypeOK
  <2>2. /\ NCells \in Nat \ {0} /\ current \in 0 .. NCells - 1 /\ own[n] \in 0 .. NCells - 1
        /\ own[n] # NoCell
    BY <1>3, CellFacts, NoCellFact DEF GatewayInv, TypeOK, Cell
  <2>3. current' = IF current + 1 = NCells THEN 0 ELSE current + 1
    BY <1>1, CellAfter DEF GatewayInv, TypeOK
  <2>4. Since(own[n]) \in 0 .. NCells - 1
    BY <2>2 DEF Since
  <2>5. /\ NCells * lost[n] \in Nat
        /\ NCells * (lost[n] + 1) = NCells * lost[n] + NCells
        /\ NCells * lost[n] + NCells <= MaxAsnOld
    BY <2>1, LostSlotframes
  <2>6. unheard[n] <= NCells * lost[n] + NCells
    BY <2>1, <2>2, <2>4, <2>5 DEF Bound
  <2>7. granted'[n] = own[n] /\ unheard'[n] = unheard[n] + 1
    BY <1>1, <2>1, <2>2, <2>5, <2>6, CellFacts DEF AgeGrants
  <2>8. CellType[current'] = "U" /\ own[n] = current' => n \in sending'
    BY <1>1, <1>2
  <2>9. own[n] = current' => CellType[current'] = "U"
    BY <1>3 DEF Uplink
  <2>10. Bound(n)' = NCells * lost'[n] + (IF n \in sending' THEN NCells ELSE Since(own[n])')
    BY <1>2 DEF Bound, Since
  <2>11. CASE n \in sending
    <3>1. own[n] = current
      BY <1>2, <2>11 DEF SenderInv
    <3>2. n \in sending' \/ Since(own[n])' = 1
      BY <1>2, <2>2, <2>3, <2>8, <2>9, <3>1 DEF Since
    <3>3. NCells * lost'[n] = NCells * lost[n] + NCells
      BY <1>2, <1>5, <2>5, <2>11
    <3> QED
      BY <1>2, <2>1, <2>2, <2>5, <2>6, <2>7, <2>10, <3>2, <3>3
  <2>12. CASE n \notin sending
    <3>1. unheard[n] <= NCells * lost[n] + Since(own[n])
      BY <2>1, <2>12 DEF Bound
    <3>2. \/ n \in sending'
          \/ Since(own[n])' = Since(own[n]) + 1
      BY <1>2, <2>2, <2>3, <2>8, <2>9 DEF Since
    <3>3. lost'[n] = lost[n]
      BY <1>2, <1>5, <2>12
    <3> QED
      BY <1>2, <2>1, <2>2, <2>4, <2>5, <2>7, <2>10, <3>1, <3>2, <3>3
  <2> QED
    BY <2>11, <2>12
<1> QED
  BY <1>2, <1>3, <1>4, <1>5 DEF Kept

\* A frame changes the grant of no node that is joined, and the node whose frame it is has been
\* heard.
LEMMA KeptInFrame ==
    ASSUME NetTypes, GatewayInv, SenderInv, KeptInv, NEW m \in Node, Receives(m), NEW n \in Node
    PROVE  Kept(n)'
<1> SUFFICES ASSUME assoc[n] = "joined" PROVE Kept(n)'
  BY DEF Kept, Receives, nodeVars
<1>1. /\ assoc' = assoc /\ own' = own /\ m \in sending /\ sending' = sending \ {m}
      /\ lost' = IF CellType[current] = "U" /\ IsJoined(m) THEN [lost EXCEPT ![m] = 0] ELSE lost
  BY DEF Receives, nodeVars
<1>2. /\ own[n] \in Uplink
      /\ granted[n] \in {own[n], NoCell}
      /\ lost[n] < MaxSlotframesNoRx => granted[n] = own[n] /\ unheard[n] <= Bound(n)
  BY DEF KeptInv, Kept
<1>3. current' = current
  BY DEF Receives, RxJoinRequest, RxJoinRequestFull, RxFromJoined, RxIgnored, Receive
<1>4. lost[n] \in Nat /\ unheard[n] \in Nat
  BY CellFacts DEF NetTypes, GatewayInv, TypeOK
<1>5. CASE n # m
  <2>1. lost'[n] = lost[n] /\ (n \in sending' <=> n \in sending)
    BY <1>1, <1>5 DEF NetTypes
  <2>2. granted'[n] = granted[n] /\ unheard'[n] = unheard[n]
    BY <1>5 DEF Receives, RxJoinRequest, RxJoinRequestFull, RxFromJoined, RxIgnored, KeepNodeAlive,
                history, GatewayInv, TypeOK
  <2>3. Bound(n)' = Bound(n)
    BY <1>1, <1>3, <2>1 DEF Bound, Since
  <2> QED
    BY <1>1, <1>2, <2>1, <2>2, <2>3 DEF Kept
<1>6. CASE n = m
  <2>1. CellType[current] = "U"
    BY <1>1, <1>6 DEF SenderInv
  <2>2. granted' = granted
    BY <2>1 DEF Receives, RxJoinRequest, RxJoinRequestFull, RxFromJoined, RxIgnored, Receive, history
  <2>3. CASE IsJoined(n)
    <3>1. RxFromJoined(n)
      BY <1>6, <2>1, <2>3 DEF Receives, RxJoinRequest, RxJoinRequestFull, Receive
    <3>2. unheard'[n] = 0
      BY <3>1 DEF RxFromJoined, KeepNodeAlive, GatewayInv, TypeOK
    <3>3. lost'[n] = 0 /\ n \notin sending'
      BY <1>1, <1>6, <2>1, <2>3 DEF NetTypes
    <3>4. granted[n] = own[n]
      BY <1>2, <2>3, MemberHasGrant DEF GatewayInv, Members
    <3>5. Bound(n)' >= 0
      <4>1. /\ NCells \in Nat \ {0} /\ current \in 0 .. NCells - 1 /\ own[n] \in 0 .. NCells - 1
        BY <1>2, CellFacts DEF GatewayInv, TypeOK, Cell
      <4>2. Bound(n)' = NCells * 0 + Since(own[n])
        BY <1>1, <1>3, <3>3 DEF Bound, Since
      <4> QED
        BY <4>1, <4>2 DEF Since
    <3> QED
      BY <1>1, <1>2, <2>2, <3>2, <3>4, <3>5 DEF Kept
  <2>4. CASE ~IsJoined(n)
    <3>1. granted[n] = NoCell
      BY <2>4, MemberHasGrant DEF GatewayInv, Members
    <3>2. ~(lost[n] < MaxSlotframesNoRx)
      BY <1>2, <3>1, NoCellFact
    <3>3. lost'[n] = lost[n]
      BY <1>1, <1>6, <2>4
    <3> QED
      BY <1>1, <1>2, <2>2, <3>2, <3>3 DEF Kept
  <2> QED
    BY <2>3, <2>4
<1> QED
  BY <1>5, <1>6

LEMMA KeptInResponse ==
    ASSUME NetTypes, GatewayInv, SenderInv, FreshInv, KeptInv,
           NEW m \in Node, HearResponse(m), NEW n \in Node
    PROVE  Kept(n)'
<1>1. sending' = sending /\ granted' = granted /\ unheard' = unheard /\ current' = current
  BY DEF HearResponse, Hears, vars, history
<1>2. CASE n = m /\ frame.dst = m /\ assoc[m] = "joining"
  <2>1. /\ own'[n] = frame.cell /\ lost'[n] = 0
        /\ granted[n] = frame.cell /\ unheard[n] \in {0, 1}
        /\ frame.cell \in Uplink /\ CellType[current] = "D"
    BY <1>2 DEF HearResponse, FreshInv, NetTypes
  <2>2. n \notin sending
    BY <1>2, <2>1 DEF SenderInv
  <2>3. frame.cell # current
    BY <2>1 DEF Uplink
  <2>4. /\ NCells \in Nat \ {0} /\ current \in 0 .. NCells - 1 /\ frame.cell \in 0 .. NCells - 1
    BY <2>1, CellFacts DEF GatewayInv, TypeOK, Cell
  <2>5. Bound(n)' = NCells * 0 + Since(frame.cell)
    BY <1>1, <2>1, <2>2 DEF Bound, Since
  <2>6. Since(frame.cell) >= 1 /\ Since(frame.cell) \in Nat
    BY <2>3, <2>4 DEF Since
  <2> QED
    BY <1>1, <2>1, <2>4, <2>5, <2>6 DEF Kept
<1>3. CASE ~(n = m /\ frame.dst = m /\ assoc[m] = "joining")
  <2>1. assoc'[n] = assoc[n] /\ own'[n] = own[n] /\ lost'[n] = lost[n]
    BY <1>3 DEF HearResponse, NetTypes, nodeVars
  <2>2. Bound(n)' = Bound(n)
    BY <1>1, <2>1 DEF Bound, Since
  <2> QED
    BY <1>1, <2>1, <2>2 DEF KeptInv, Kept
<1> QED
  BY <1>2, <1>3

LEMMA KeptStep ==
    ASSUME NetTypes, GatewayInv, SenderInv, FreshInv, KeptInv, [NetNext]_netVars
    PROVE  KeptInv'
<1> SUFFICES ASSUME NEW n \in Node PROVE Kept(n)'
  BY DEF KeptInv
<1>1. CASE Slot
  BY <1>1, KeptInSlot
<1>2. ASSUME NEW m \in Node, Receives(m) PROVE Kept(n)'
  BY <1>2, KeptInFrame
<1>3. ASSUME NEW m \in Node, HearResponse(m) PROVE Kept(n)'
  BY <1>3, KeptInResponse
<1>4. ASSUME NEW m \in Node, Restart(m) PROVE Kept(n)'
  <2>1. UNCHANGED <<granted, unheard, current>>
    BY <1>4 DEF Restart, vars, history
  <2>2. CASE n = m
    BY <1>4, <2>2 DEF Restart, Kept, NetTypes
  <2>3. CASE n # m
    <3>1. /\ assoc'[n] = assoc[n] /\ own'[n] = own[n] /\ lost'[n] = lost[n]
          /\ n \in sending' <=> n \in sending
      BY <1>4, <2>3 DEF Restart, NetTypes
    <3>2. Bound(n)' = Bound(n)
      BY <2>1, <3>1 DEF Bound, Since
    <3> QED
      BY <2>1, <3>1, <3>2 DEF KeptInv, Kept
  <2> QED
    BY <2>2, <2>3
<1>5. CASE UNCHANGED <<granted, unheard, current, assoc, own, lost, sending>>
  <2>1. Bound(n)' = Bound(n)
    BY <1>5 DEF Bound, Since
  <2> QED
    BY <1>5, <2>1 DEF KeptInv, Kept
<1>6. CASE StartRebuild \/ EndRebuild \/ UNCHANGED netVars
  BY <1>5, <1>6 DEF StartRebuild, EndRebuild, BloomSetClean, netVars, vars, history, nodeVars, airVars
<1>7. ASSUME NEW m \in Node, HearBeacon(m) \/ HearData(m) PROVE Kept(n)'
  BY <1>5, <1>7 DEF HearBeacon, HearData, Hears, vars, history
<1> QED
  BY <1>1, <1>2, <1>3, <1>4, <1>6, <1>7 DEF NetNext

-----------------------------------------------------------------------------
(* The filter and the beacon. *)

\* A beacon that was built while the filter was up to date lists every member.
LEMMA BeaconLists ==
    ASSUME NetTypes, GatewayInv, ListInv, GatewaySends, frame'.kind = "beacon"
    PROVE  /\ CellType[current'] = "B" /\ radio' = "sleep"
           /\ ~stale' => Members' \subseteq onAir'
<1>1. BeaconSlot /\ CellType[current'] = "B" /\ radio' = "sleep" /\ onAir' \in Filters
  BY DEF GatewaySends, BeaconSlot, DownlinkSlot, StartCell, Response, Nothing, Data
<1>2. ASSUME ~stale'
      PROVE  Members' \subseteq onAir'
  <2>1. ~dirty' /\ ~raced'
    BY <1>1, <1>2 DEF GatewaySends
  <2>2. ~dirty /\ assigned' = assigned
    BY <1>1, <2>1, HandlerMarksDirty DEF NewSlot, GatewayInv, TypeOK
  <2>3. ~building /\ ~raced /\ listed = Members
    BY <2>1, <2>2 DEF ListInv, GatewaySends, Preempt
  <2>4. onAir' = Members /\ Members' = Members
    BY <1>1, <2>2, <2>3 DEF Filters, Members, IsJoined, CellsOf
  <2> QED
    BY <2>4
<1> QED
  BY <1>1, <1>2

\* No handler takes the flag down or moves a cell without raising it.
LEMMA ListPreempted ==
    ASSUME TypeOK, ListInv, NewSlot \/ RxFrame, Preempt
    PROVE  /\ building' => dirty'
           /\ ~dirty' /\ ~raced' => listed' = Members'
<1>1. (dirty => dirty') /\ (dirty' \/ assigned' = assigned)
  BY HandlerMarksDirty DEF TypeOK
<1>2. building' = building /\ listed' = listed /\ (raced => raced')
  BY DEF Preempt
<1>3. assigned' = assigned => Members' = Members
  BY DEF Members, IsJoined, CellsOf
<1> QED
  BY <1>1, <1>2, <1>3 DEF ListInv

LEMMA ListStep ==
    ASSUME NetTypes, GatewayInv, ListInv, [NetNext]_netVars
    PROVE  ListInv'
<1>1. CASE Slot
  <2>1. (NewSlot \/ RxFrame) /\ Preempt /\ \E type : StartNodes(type)
    BY <1>1 DEF Slot, GatewaySends, NodesSend, NewSlot
  <2>2. \A n \in Node : ~pending'[n]
    BY <2>1 DEF StartNodes, Leaving, ListInv
  <2>3. frame'.kind = "beacon" =>
           /\ CellType[current'] = "B" /\ radio' = "sleep"
           /\ ~stale' => Members' \subseteq onAir'
    BY <1>1, BeaconLists DEF Slot, NodesSend, ListenSlot, Nothing
  <2> QED
    BY <2>1, <2>2, <2>3, ListPreempted DEF ListInv, GatewayInv
<1>2. ASSUME NEW m \in Node, Receives(m) PROVE ListInv'
  <2>1. RxFrame /\ Preempt /\ UNCHANGED <<assoc, pending>>
    BY <1>2 DEF Receives, RxFrame, nodeVars
  <2>2. radio = "listen" /\ frame' = frame
    BY <1>2 DEF Receives, RxJoinRequest, RxJoinRequestFull, RxFromJoined, RxIgnored, Receive
  <2>3. frame.kind # "beacon" /\ \A n \in Node : ~pending[n]
    BY <2>2 DEF ListInv
  <2> QED
    BY <2>1, <2>2, <2>3, ListPreempted DEF ListInv, GatewayInv
<1>3. CASE StartRebuild
  BY <1>3 DEF StartRebuild, ListInv, vars, cellVars, nodeVars, Members, IsJoined, CellsOf
<1>4. CASE EndRebuild
  <2>1. Members' = Members
    BY <1>4 DEF EndRebuild, BloomSetClean, cellVars, Members, IsJoined, CellsOf
  <2>2. ~raced => listed' = Members
    BY <1>4 DEF EndRebuild
  <2> QED
    BY <1>4, <2>1, <2>2 DEF EndRebuild, BloomSetClean, ListInv, nodeVars
<1>5. ASSUME NEW m \in Node, HearBeacon(m) \/ HearResponse(m) \/ HearData(m) \/ Restart(m)
      PROVE  ListInv'
  <2>1. UNCHANGED <<vars, filterVars>>
    BY <1>5 DEF HearBeacon, HearResponse, HearData, Restart, Hears
  <2>2. Members' = Members
    BY <2>1 DEF vars, cellVars, Members, IsJoined, CellsOf
  <2>3. ASSUME NEW n \in Node, pending'[n]
        PROVE  assoc'[n] = "joined" /\ frame.kind = "beacon" /\ n \notin onAir
    BY <1>5, <2>3 DEF HearBeacon, HearResponse, HearData, Restart, Hears, nodeVars, NetTypes, ListInv
  <2> QED
    BY <2>1, <2>2, <2>3 DEF ListInv, vars, filterVars
<1>6. CASE UNCHANGED netVars
  BY <1>6 DEF netVars, vars, cellVars, filterVars, nodeVars, ListInv, Members, IsJoined, CellsOf
<1> QED
  BY <1>1, <1>2, <1>3, <1>4, <1>5, <1>6 DEF NetNext

-----------------------------------------------------------------------------
(* The inductive invariant and what it gives. *)

NetInv == NetTypes /\ GatewayInv /\ FreshInv /\ SenderInv /\ KeptInv /\ ListInv

LEMMA NetInvStart == NetInit => NetInv
<1> SUFFICES ASSUME NetInit PROVE NetInv
  OBVIOUS
<1>1. GatewayInv
  BY GatewayStart
<1>2. NetTypes
  <2>1. 0 \in 0 .. MaxSlotframesNoRx
    BY ScheduleAssumption
  <2>2. /\ listed \subseteq Node /\ onAir \subseteq Node /\ sending \subseteq Node
        /\ {building, raced, stale} \subseteq BOOLEAN
    BY DEF NetInit
  <2>3. own \in [Node -> Uplink \cup {NoCell}] /\ lost \in [Node -> 0 .. MaxSlotframesNoRx]
    BY <2>1 DEF NetInit
  <2>4. assoc \in [Node -> {"idle", "joining", "joined"}] /\ pending \in [Node -> BOOLEAN]
    BY DEF NetInit
  <2> QED
    BY <2>2, <2>3, <2>4 DEF NetTypes
<1>3. FreshInv /\ SenderInv /\ KeptInv
  BY DEF NetInit, Init, FreshInv, SenderInv, KeptInv, Kept, Nothing
<1>4. Members = {}
  BY ScheduleAssumption DEF NetInit, Init, Members, IsJoined, CellsOf
<1>5. ListInv
  BY <1>4 DEF NetInit, Init, ListInv, Nothing
<1> QED
  BY <1>1, <1>2, <1>3, <1>5 DEF NetInv

LEMMA NetInvStep == NetInv /\ [NetNext]_netVars => NetInv'
<1> SUFFICES ASSUME NetInv, [NetNext]_netVars PROVE NetInv'
  OBVIOUS
<1>1. GatewayInv'
  BY GatewayStep DEF NetInv
<1>2. FreshInv'
  BY GatewayOnAir, FreshStep DEF NetInv, GatewayInv
<1>3. NetTypes' /\ SenderInv'
  BY <1>1, TypesStep, SenderStep DEF NetInv
<1>4. KeptInv' /\ ListInv'
  BY KeptStep, ListStep DEF NetInv
<1> QED
  BY <1>1, <1>2, <1>3, <1>4 DEF NetInv

LEMMA NetInvAlways == NetSafety => []NetInv
BY NetInvStart, NetInvStep, PTL DEF NetSafety

\* A node that is joined and has not lost MaxSlotframesNoRx frames in a row holds its cell at the
\* gateway: no restart, join or eviction of another takes it away (association.c:372-395 with
\* mac.c:431-485).  One lost frame is one slotframe of silence, and the lease is that many.
THEOREM NetCellsHeld == NetSafety => []AstrayOnlyUnheard
<1>1. NetInv => AstrayOnlyUnheard
  <2> SUFFICES ASSUME NetInv, NEW n \in Node, Astray(n), ~(lost[n] >= MaxSlotframesNoRx)
               PROVE  FALSE
    BY DEF AstrayOnlyUnheard
  <2>1. lost[n] < MaxSlotframesNoRx
    BY ScheduleAssumption DEF NetInv, NetTypes
  <2>2. own[n] \in Uplink /\ granted[n] = own[n]
    BY <2>1 DEF NetInv, KeptInv, Kept, Astray
  <2>3. assigned[own[n]] = n
    BY <2>2, NoCellFact DEF NetInv, GatewayInv, GrantInv, GrantHonoured
  <2> QED
    BY <2>3 DEF Astray
<1> QED
  BY <1>1, NetInvAlways, PTL

\* Of two nodes that transmit in the same cell, one has lost its frames for a whole lease.
NoTwoInOneCell ==
    \A m, n \in Node :
        m # n /\ assoc[m] = "joined" /\ assoc[n] = "joined" /\ own[m] = own[n] =>
            lost[m] >= MaxSlotframesNoRx \/ lost[n] >= MaxSlotframesNoRx

\* Outside the shared cells no two nodes send in the same cell (mac.c:431-485), unless the gateway
\* has missed the frames of one of them for a whole lease.
THEOREM NetNoCollision == NetSafety => []NoTwoInOneCell
<1>1. AstrayOnlyUnheard => NoTwoInOneCell
  BY DEF AstrayOnlyUnheard, Astray, NoTwoInOneCell
<1> QED
  BY <1>1, NetCellsHeld, PTL

\* The cell a join response tells a node to use is assigned to it when it starts to use it, however
\* often and late it asked (mari.c:142-159, 207-226, queue.c:154-178).
THEOREM NetEntersHeldCell == NetSafety => EntersHeldCell
<1> DEFINE Held == \A n \in Node : own'[n] # own[n] /\ own'[n] # NoCell => assigned[own'[n]] = n
<1>1. NetInv /\ [NetNext]_netVars => [Held]_netVars
  <2> SUFFICES ASSUME NetInv, NetNext, NEW n \in Node, own'[n] # own[n], own'[n] # NoCell
               PROVE  assigned[own'[n]] = n
    OBVIOUS
  <2>1. ~Slot
    BY DEF Slot, GatewaySends, NodesSend, StartNodes
  <2>2. PICK m \in Node : HearResponse(m)
    BY <2>1 DEF NetNext, StartRebuild, EndRebuild, Receives, HearBeacon, HearData, Restart, nodeVars,
                NetInv, NetTypes
  <2>3. n = m /\ frame.dst = n /\ frame.kind = "response" /\ own'[n] = frame.cell
    BY <2>2 DEF HearResponse, nodeVars, NetInv, NetTypes
  <2>4. granted[n] = own'[n]
    BY <2>3 DEF NetInv, FreshInv
  <2> QED
    BY <2>4 DEF NetInv, GatewayInv, GrantInv, GrantHonoured
<1> QED
  BY <1>1, NetInvAlways, PTL DEF NetSafety, EntersHeldCell

\* A member is turned away only by a beacon that was built while a rebuild was due, under way or
\* disturbed by another change of the cells (bloom.c:78-113, mari.c:155-157, association.c:411-440).
THEOREM NetTurnedAway == NetSafety => []TurnedAwayOnlyWhileStale
<1>1. NetInv => TurnedAwayOnlyWhileStale
  BY DEF NetInv, ListInv, TurnedAwayOnlyWhileStale, Members
<1> QED
  BY <1>1, NetInvAlways, PTL
=============================================================================
