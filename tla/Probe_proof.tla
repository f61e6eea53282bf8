---------------------------- MODULE Probe_proof ----------------------------
(***************************************************************************)
(* What a probe relies on at both ends, for tables, queues and runs of any *)
(* size: that the table of the gateway follows the members, that the node  *)
(* answers the probe that came last, and that nobody counts more probes    *)
(* than there have been.                                                   *)
(***************************************************************************)
EXTENDS Probe, SequenceTheorems, FiniteSetTheorems, FunctionTheorems, WellFoundedInduction, TLAPS

\* Only the variables the theorems are about, and what may change them.
MemberInv ==
    /\ table \in [Row -> [node : Node \cup {NoNode}, tx : Nat, rx : Nat]]
    /\ gwMail.event \in {"joined", "left"} => gwMail.node \in Node
    /\ gwCopy.event \in {"joined", "left"} => gwCopy.node \in Node
    /\ RowsFollowMembers

\* A probe that lies in the buffer and came last will be answered, or has been.
AnswerInv ==
    ~nodeReady /\ nodeMail.probe /\ nodeFrame.kind = "probe" =>
        /\ nodeStep = "event" => answered = nodeFrame.id
        /\ nodeStep = "test" => nodeCopy.probe

-----------------------------------------------------------------------------
(* Places of the table. *)

\* There is a first one among any places.
LEMMA FirstExists ==
    ASSUME NEW rows \in SUBSET Row, rows # {}
    PROVE  \E r \in rows : FirstOf(rows) = {r}
<1>1. rows \subseteq Nat
  BY ProbeAssumption
<1>2. IsWellFoundedOn(OpToRel(<, Nat), Nat)
  BY NatLessThanWellFounded
<1>3. PICK m \in rows : \A k \in rows : <<k, m>> \notin OpToRel(<, Nat)
  BY <1>1, <1>2, WFMin
<1>4. \A k \in rows : ~(k < m)
  BY <1>1, <1>3 DEF OpToRel
<1>5. m \in Nat /\ \A k \in rows : k \in Nat /\ m <= k
  BY <1>1, <1>4
<1>6. m \in FirstOf(rows)
  BY <1>5 DEF FirstOf
<1>7. ASSUME NEW r \in FirstOf(rows)
      PROVE  r = m
  <2>1. r \in rows /\ r <= m
    BY <1>7 DEF FirstOf
  <2> QED
    BY <1>5, <2>1
<1> QED
  BY <1>6, <1>7

\* Adding a node takes one free place, if there is one, and no other.
LEMMA AddTakesOne ==
    ASSUME MemberInv, NEW n \in Node, AddNode(n)
    PROVE  /\ table' \in [Row -> [node : Node \cup {NoNode}, tx : Nat, rx : Nat]]
           /\ RowsOf(NoNode) # {} => \E r \in RowsOf(NoNode) : RowsOf(n)' = RowsOf(n) \cup {r}
           /\ \A m \in Node \ {n} : RowsOf(m)' = RowsOf(m)
<1>1. FirstOf(RowsOf(NoNode)) \subseteq RowsOf(NoNode) /\ RowsOf(NoNode) \subseteq Row
  BY DEF FirstOf, RowsOf
<1>2. table' \in [Row -> [node : Node \cup {NoNode}, tx : Nat, rx : Nat]]
  BY DEF MemberInv, AddNode
<1>3. \A r \in Row : table'[r].node = IF r \in FirstOf(RowsOf(NoNode)) THEN n ELSE table[r].node
  BY DEF MemberInv, AddNode
<1>4. \A r \in RowsOf(NoNode) : table[r].node = NoNode
  BY DEF RowsOf
<1>5. \A m \in Node \ {n} : RowsOf(m)' = RowsOf(m)
  <2> SUFFICES ASSUME NEW m \in Node \ {n}
               PROVE  \A r \in Row : table'[r].node = m <=> table[r].node = m
    BY DEF RowsOf
  <2> QED
    BY <1>1, <1>3, <1>4, ProbeAssumption DEF Node
<1>6. RowsOf(n)' = RowsOf(n) \cup FirstOf(RowsOf(NoNode))
  BY <1>1, <1>3 DEF RowsOf
<1>7. RowsOf(NoNode) # {} => \E r \in RowsOf(NoNode) : FirstOf(RowsOf(NoNode)) = {r}
  BY <1>1, FirstExists
<1> QED
  BY <1>2, <1>5, <1>6, <1>7

\* Clearing a node frees its first place, and no other.
LEMMA ClearFreesFirst ==
    ASSUME MemberInv, NEW n \in Node, ClearNode(n)
    PROVE  /\ table' \in [Row -> [node : Node \cup {NoNode}, tx : Nat, rx : Nat]]
           /\ RowsOf(n)' = RowsOf(n) \ FirstOf(RowsOf(n))
           /\ \A m \in Node \ {n} : RowsOf(m)' = RowsOf(m)
<1>1. FirstOf(RowsOf(n)) \subseteq RowsOf(n) /\ RowsOf(n) \subseteq Row
  BY DEF FirstOf, RowsOf
<1>2. FreeRow \in [node : Node \cup {NoNode}, tx : Nat, rx : Nat] /\ FreeRow.node = NoNode
  BY DEF FreeRow
<1>3. table' \in [Row -> [node : Node \cup {NoNode}, tx : Nat, rx : Nat]]
  BY <1>2 DEF MemberInv, ClearNode
<1>4. \A r \in Row : table'[r].node = IF r \in FirstOf(RowsOf(n)) THEN NoNode ELSE table[r].node
  BY <1>2 DEF MemberInv, ClearNode
<1>5. n # NoNode /\ \A m \in Node : m # NoNode
  BY ProbeAssumption DEF Node
<1>6. RowsOf(n)' = RowsOf(n) \ FirstOf(RowsOf(n))
  BY <1>4, <1>5 DEF RowsOf
<1>7. \A r \in RowsOf(n) : table[r].node = n
  BY DEF RowsOf
<1>8. \A m \in Node \ {n} : RowsOf(m)' = RowsOf(m)
  <2> SUFFICES ASSUME NEW m \in Node \ {n}
               PROVE  \A r \in Row : table'[r].node = m <=> table[r].node = m
    BY DEF RowsOf
  <2> QED
    BY <1>1, <1>4, <1>5, <1>7
<1> QED
  BY <1>3, <1>6, <1>8

\* Counting a probe moves no node.
LEMMA CountingMovesNone ==
    ASSUME MemberInv, NEW rows,
           \/ table' = [r \in Row |-> IF r \in rows THEN [table[r] EXCEPT !.rx = @ + 1] ELSE table[r]]
           \/ table' = [r \in Row |-> IF r \in rows THEN [table[r] EXCEPT !.tx = @ + 1] ELSE table[r]]
           \/ table' = table
    PROVE  /\ table' \in [Row -> [node : Node \cup {NoNode}, tx : Nat, rx : Nat]]
           /\ \A n : RowsOf(n)' = RowsOf(n)
<1>1. table' \in [Row -> [node : Node \cup {NoNode}, tx : Nat, rx : Nat]]
  BY DEF MemberInv
<1>2. \A r \in Row : table'[r].node = table[r].node
  BY DEF MemberInv
<1> QED
  BY <1>1, <1>2 DEF RowsOf

-----------------------------------------------------------------------------
(* The table. *)

LEMMA MembersInit == Init => MemberInv
BY ProbeAssumption DEF Init, MemberInv, RowsFollowMembers, RowsOf, FreeRow, NoEvent, Node

\* Nothing but HandleEvent and CountPacket writes to the table.
LEMMA MembersUnchanged ==
    ASSUME MemberInv, UNCHANGED members,
           gwMail'.event \in {"joined", "left"} => gwMail'.node \in Node,
           gwCopy'.event \in {"joined", "left"} => gwCopy'.node \in Node
    PROVE  MemberInv'
BY DEF MemberInv, members, RowsFollowMembers, RowsOf

LEMMA MembersJoined ==
    ASSUME MemberInv, HandleJoined
    PROVE  RowsFollowMembers' /\ table' \in [Row -> [node : Node \cup {NoNode}, tx : Nat, rx : Nat]]
<1>1. PICK n \in Node :
         /\ AddNode(n) /\ told' = told \cup {n} /\ irregular \subseteq irregular'
         /\ n \in told \/ RowsOf(NoNode) = {} => n \in irregular'
  BY DEF MemberInv, HandleJoined
<1>2. /\ table' \in [Row -> [node : Node \cup {NoNode}, tx : Nat, rx : Nat]]
      /\ RowsOf(NoNode) # {} => \E r \in RowsOf(NoNode) : RowsOf(n)' = RowsOf(n) \cup {r}
      /\ \A m \in Node \ {n} : RowsOf(m)' = RowsOf(m)
  BY <1>1, AddTakesOne
<1>3. ASSUME NEW m \in Node \ irregular', m # n
      PROVE  \/ m \in told' /\ \E r \in Row : RowsOf(m)' = {r}
             \/ m \notin told' /\ RowsOf(m)' = {}
  BY <1>1, <1>2, <1>3 DEF MemberInv, RowsFollowMembers
<1>4. ASSUME n \notin irregular'
      PROVE  n \in told' /\ \E r \in Row : RowsOf(n)' = {r}
  <2>1. n \notin told /\ RowsOf(NoNode) # {} /\ n \in Node \ irregular
    BY <1>1, <1>4
  <2>2. RowsOf(n) = {}
    BY <2>1 DEF MemberInv, RowsFollowMembers
  <2>3. RowsOf(NoNode) \subseteq Row
    BY DEF RowsOf
  <2> QED
    BY <1>1, <1>2, <2>1, <2>2, <2>3
<1> QED
  BY <1>2, <1>3, <1>4 DEF RowsFollowMembers

LEMMA MembersLeft ==
    ASSUME MemberInv, HandleLeft
    PROVE  RowsFollowMembers' /\ table' \in [Row -> [node : Node \cup {NoNode}, tx : Nat, rx : Nat]]
<1>1. PICK n \in Node : ClearNode(n) /\ told' = told \ {n} /\ irregular' = irregular
  BY DEF MemberInv, HandleLeft
<1>2. /\ table' \in [Row -> [node : Node \cup {NoNode}, tx : Nat, rx : Nat]]
      /\ RowsOf(n)' = RowsOf(n) \ FirstOf(RowsOf(n))
      /\ \A m \in Node \ {n} : RowsOf(m)' = RowsOf(m)
  BY <1>1, ClearFreesFirst
<1>3. ASSUME NEW m \in Node \ irregular', m # n
      PROVE  \/ m \in told' /\ \E r \in Row : RowsOf(m)' = {r}
             \/ m \notin told' /\ RowsOf(m)' = {}
  BY <1>1, <1>2, <1>3 DEF MemberInv, RowsFollowMembers
<1>4. ASSUME n \notin irregular'
      PROVE  n \notin told' /\ RowsOf(n)' = {}
  <2>1. CASE RowsOf(n) = {}
    BY <1>1, <1>2, <2>1
  <2>2. CASE RowsOf(n) # {}
    <3>1. PICK r \in Row : RowsOf(n) = {r}
      BY <1>1, <1>4, <2>2 DEF MemberInv, RowsFollowMembers
    <3>2. RowsOf(n) \subseteq Row
      BY DEF RowsOf
    <3>3. FirstOf(RowsOf(n)) = {r}
      BY <2>2, <3>1, <3>2, FirstExists
    <3> QED
      BY <1>1, <1>2, <3>1, <3>3
  <2> QED
    BY <2>1, <2>2
<1> QED
  BY <1>2, <1>3, <1>4 DEF RowsFollowMembers

LEMMA MembersStep == MemberInv /\ [Next]_vars => MemberInv'
<1> SUFFICES ASSUME MemberInv, [Next]_vars
             PROVE  MemberInv'
  OBVIOUS
<1>1. CASE UNCHANGED vars
  BY <1>1, MembersUnchanged DEF vars, gwVars, MemberInv
<1>2. ASSUME NEW kind, Computer(kind)
      PROVE  MemberInv'
  BY <1>2, MembersUnchanged DEF Computer, gwVars, MemberInv
<1>3. ASSUME NEW n \in Node, NEW e \in {"joined", "left"}, GatewayEvent(e, n)
      PROVE  MemberInv'
  BY <1>3, MembersUnchanged DEF GatewayEvent, Raise, Membership, MemberInv
<1>4. CASE ReceiveFromOther \/ Uplink
  BY <1>4, MembersUnchanged DEF ReceiveFromOther, Uplink, GatewayReceives, Raise, Packet, MemberInv
<1>5. CASE UplinkLost \/ Downlink \/ DownlinkLost \/ Beacon \/ SessionEvent
  BY <1>5, MembersUnchanged
     DEF UplinkLost, Downlink, DownlinkLost, Beacon, SessionEvent, NodeReceives, gwVars, MemberInv
<1>6. CASE TakeEvent \/ CopyEvent \/ NoEventToHandle \/ NoPacketToSend \/ TakePacket \/ SendPacket
  BY <1>6, MembersUnchanged
     DEF TakeEvent, CopyEvent, NoEventToHandle, NoPacketToSend, TakePacket, SendPacket,
         GatewayLoop, members, MemberInv
<1>7. CASE HandleEvent
  <2>1. gwMail' = gwMail /\ gwCopy' = NoEvent
    BY <1>7 DEF HandleEvent, GatewayLoop
  <2>2. CASE HandleJoined
    BY <2>1, <2>2, MembersJoined DEF MemberInv, NoEvent
  <2>3. CASE HandleLeft
    BY <2>1, <2>3, MembersLeft DEF MemberInv, NoEvent
  <2>4. CASE HandlePacket
    <3>1. /\ table' \in [Row -> [node : Node \cup {NoNode}, tx : Nat, rx : Nat]]
          /\ \A n : RowsOf(n)' = RowsOf(n)
      BY <2>4, CountingMovesNone DEF HandlePacket
    <3> QED
      BY <2>1, <2>4, <3>1 DEF HandlePacket, MemberInv, RowsFollowMembers, NoEvent
  <2> QED
    BY <1>7, <2>2, <2>3, <2>4 DEF HandleEvent
<1>8. CASE CountPacket
  <2>1. /\ table' \in [Row -> [node : Node \cup {NoNode}, tx : Nat, rx : Nat]]
        /\ \A n : RowsOf(n)' = RowsOf(n)
    BY <1>8, CountingMovesNone DEF CountPacket
  <2> QED
    BY <1>8, <2>1 DEF CountPacket, GatewayLoop, MemberInv, RowsFollowMembers
<1>9. CASE NodeApp
  BY <1>9, MembersUnchanged
     DEF NodeApp, NodeTakes, NodeCopies, NodeTests, NodeEdits, NodeAnswers, NodeStatus, NodeLoop,
         gwVars, MemberInv
<1> QED
  BY <1>1, <1>2, <1>3, <1>4, <1>5, <1>6, <1>7, <1>8, <1>9 DEF Next, Interrupt, NetworkCore

\* However many rows and nodes' events there are, every node that joins and leaves in turn while a
\* row is left has one row as long as it is a member, and none afterwards (metrics.c:41-60).
THEOREM ProbeRowsFollowMembers == Spec => []RowsFollowMembers
<1>1. MemberInv => RowsFollowMembers
  BY DEF MemberInv
<1> QED
  BY MembersInit, MembersStep, <1>1, PTL DEF Spec

-----------------------------------------------------------------------------
(* The answer. *)

LEMMA AnswerStep == AnswerInv /\ [Next]_vars => AnswerInv'
<1> SUFFICES ASSUME AnswerInv, [Next]_vars
             PROVE  AnswerInv'
  OBVIOUS
<1>1. CASE UNCHANGED nodeVars
  BY <1>1 DEF nodeVars, AnswerInv
<1>2. CASE Downlink \/ SessionEvent
  BY <1>2 DEF Downlink, SessionEvent, AnswerInv
<1>3. CASE Beacon
  BY <1>3 DEF Beacon, NodeReceives, Frame, AnswerInv
<1>4. CASE NodeTakes
  BY <1>4 DEF NodeTakes, AnswerInv
<1>5. CASE NodeCopies
  BY <1>5 DEF NodeCopies, NodeLoop, AnswerInv
<1>6. CASE NodeTests
  BY <1>6 DEF NodeTests, NodeLoop, AnswerInv
<1>7. CASE NodeEdits
  BY <1>7 DEF NodeEdits, NodeLoop, AnswerInv
<1>8. CASE NodeAnswers
  BY <1>8 DEF NodeAnswers, NodeLoop, AnswerInv
<1>9. CASE NodeStatus
  BY <1>9 DEF NodeStatus, NodeLoop, AnswerInv
<1>10. ASSUME Next
       PROVE  \/ UNCHANGED nodeVars
              \/ Downlink \/ SessionEvent \/ Beacon \/ NodeApp
  <2>1. ASSUME NEW kind, Computer(kind)
        PROVE  UNCHANGED nodeVars
    BY <2>1 DEF Computer
  <2>2. ASSUME NEW e, NEW n, GatewayEvent(e, n)
        PROVE  UNCHANGED nodeVars
    BY <2>2 DEF GatewayEvent
  <2>3. CASE ReceiveFromOther \/ Uplink \/ UplinkLost \/ DownlinkLost
    BY <2>3 DEF ReceiveFromOther, Uplink, UplinkLost, DownlinkLost, GatewayReceives
  <2>4. CASE NetworkCore
    BY <2>4 DEF NetworkCore, TakeEvent, CopyEvent, HandleEvent, NoEventToHandle, NoPacketToSend,
                TakePacket, CountPacket, SendPacket, GatewayLoop
  <2> QED
    BY <1>10, <2>1, <2>2, <2>3, <2>4 DEF Next, Interrupt
<1> QED
  BY <1>1, <1>2, <1>3, <1>4, <1>5, <1>6, <1>7, <1>8, <1>9, <1>10 DEF NodeApp, vars

\* The node answers the probe that came last, however many frames and events come, and
\* whenever they do (03app_node/main.c:81-97, 120-146).
THEOREM ProbeLastAnswered == Spec => []LastProbeAnswered
<1>1. Init => AnswerInv
  BY DEF Init, AnswerInv, NoEvent
<1>2. AnswerInv => LastProbeAnswered
  BY DEF AnswerInv, LastProbeAnswered
<1> QED
  BY AnswerStep, <1>1, <1>2, PTL DEF Spec
-----------------------------------------------------------------------------
(* The counts. *)

Frames == [kind : {"none", "probe", "data", "invalid", "beacon", "status"},
           id : Nat, src : Node \cup {NoNode}]
FromMine == {f \in Frames : f.src = Mine}

\* How many probes there are in a queue.
ProbesAt(queue) == {i \in DOMAIN queue : queue[i].kind = "probe"}
Probes(queue) == Cardinality(ProbesAt(queue))
One(condition) == IF condition THEN 1 ELSE 0

\* The probes the node has counted and the gateway is still to count: the node is about to answer
\* one, some are on their way, and one is in the mailbox of the network core or in its loop's hands.
MineAtGateway == gwFrame.kind = "probe" /\ gwFrame.src = Mine
UpPending ==
    Probes(up) + One(nodeStep = "answer" /\ nodeFrame.kind = "probe")
    + One((gwReady \/ gwStep = "copy") /\ gwMail.probe /\ MineAtGateway)
    + One(gwStep = "handle" /\ gwCopy.probe /\ MineAtGateway)

\* The probes the gateway has counted and the node is still to count.
DownPending ==
    Probes(down) + One(gwStep = "send" /\ shared.kind = "probe")
    + One((nodeReady \/ nodeStep = "copy") /\ nodeMail.probe /\ nodeFrame.kind = "probe")
    + One(nodeStep = "edit" \/ (nodeStep = "test" /\ nodeCopy.probe /\ nodeFrame.kind = "probe"))

CountTypes ==
    /\ count \in Nat /\ sent \in Nat
    /\ shared \in Frames /\ gwFrame \in Frames /\ nodeFrame \in Frames
    /\ down \in Seq(Frames) /\ up \in Seq(FromMine)
    /\ shared.kind = "probe" => shared.src = Mine
    /\ gwFrame.kind = "probe" => gwFrame.src \in Node

\* A row that is taken has received nothing before.
FreeRowsEmpty == \A r \in RowsOf(NoNode) : table[r].rx = 0

SteadyIsMember == steady => Mine \in told

\* Before the first frame of the computer there is nothing to count downwards.
NothingSent ==
    sent = 0 => /\ count = 0 /\ down = <<>>
                /\ ~sharedReady /\ gwStep \notin {"count", "send"}
                /\ nodeFrame.kind # "probe" /\ nodeStep # "edit"

\* An event is copied before the next one comes.
CopiedInTime ==
    ~late => (gwStep = "copy" => ~gwReady) /\ (nodeStep = "copy" => ~nodeReady)

UpwardsCounted ==
    ~late => /\ UpPending <= count
             /\ \A r \in RowsOf(Mine) : table[r].rx + UpPending <= count

DownwardsCounted ==
    ~late /\ steady /\ Mine \notin irregular
        => \A r \in RowsOf(Mine) : count + DownPending <= table[r].tx

CountInv ==
    /\ MemberInv /\ CountTypes /\ FreeRowsEmpty /\ SteadyIsMember /\ NothingSent
    /\ CopiedInTime /\ UpwardsCounted /\ DownwardsCounted

-----------------------------------------------------------------------------
(* Probes in a queue. *)

LEMMA ProbesInQueue ==
    ASSUME NEW S, NEW queue \in Seq(S)
    PROVE  IsFiniteSet(ProbesAt(queue)) /\ Probes(queue) \in Nat
<1>1. DOMAIN queue = 1 .. Len(queue) /\ Len(queue) \in Nat
  BY LenProperties
<1>2. IsFiniteSet(1 .. Len(queue)) /\ ProbesAt(queue) \in SUBSET (1 .. Len(queue))
  BY <1>1, FS_Interval DEF ProbesAt
<1>3. IsFiniteSet(ProbesAt(queue))
  BY <1>2, FS_Subset
<1> QED
  BY <1>3, FS_CardinalityType DEF Probes

LEMMA NoProbes == Probes(<<>>) = 0
<1>1. ProbesAt(<<>>) = {}
  BY DEF ProbesAt
<1> QED
  BY <1>1, FS_EmptySet DEF Probes

\* A frame that is added to a queue is the only one that is new.
LEMMA ProbesAdded ==
    ASSUME NEW S, NEW queue \in Seq(S), NEW frame \in S
    PROVE  /\ Added(queue, frame) \in Seq(S)
           /\ Probes(Added(queue, frame)) <= Probes(queue) + One(frame.kind = "probe")
<1>1. /\ DOMAIN queue = 1 .. Len(queue) /\ Len(queue) \in Nat
      /\ IsFiniteSet(ProbesAt(queue)) /\ Probes(queue) \in Nat
  BY LenProperties, ProbesInQueue
<1>2. CASE Added(queue, frame) = <<>>
  BY <1>1, <1>2, NoProbes DEF One
<1>3. CASE Added(queue, frame) = Append(queue, frame)
  <2> DEFINE longer == Append(queue, frame)
             n == Len(queue) + 1
  <2>1. longer \in Seq(S) /\ Len(longer) = n /\ longer[n] = frame
        /\ \A i \in 1 .. Len(queue) : longer[i] = queue[i]
    BY AppendProperties
  <2>2. DOMAIN longer = 1 .. n
    BY <2>1, LenProperties
  <2>3. n \notin ProbesAt(queue)
    BY <1>1 DEF ProbesAt
  <2> HIDE DEF longer
  <2>4. ProbesAt(longer) = IF frame.kind = "probe" THEN ProbesAt(queue) \cup {n} ELSE ProbesAt(queue)
    BY <1>1, <2>1, <2>2 DEF ProbesAt
  <2>5. Cardinality(ProbesAt(queue) \cup {n}) = Cardinality(ProbesAt(queue)) + 1
    BY <1>1, <2>3, FS_AddElement
  <2>6. Probes(longer) = Probes(queue) + One(frame.kind = "probe")
    BY <1>1, <2>4, <2>5 DEF Probes, One
  <2> QED
    BY <1>1, <1>3, <2>1, <2>6 DEF longer, One
<1> QED
  BY <1>2, <1>3 DEF Added

\* A frame that is taken from a queue is the only one that is gone.
LEMMA ProbesTaken ==
    ASSUME NEW S, NEW queue \in Seq(S), queue # <<>>
    PROVE  /\ Head(queue) \in S /\ Tail(queue) \in Seq(S)
           /\ Probes(queue) = Probes(Tail(queue)) + One(Head(queue).kind = "probe")
<1> DEFINE rest == Tail(queue)
           later == ProbesAt(queue) \ {1}
<1>1. /\ DOMAIN queue = 1 .. Len(queue) /\ Len(queue) \in Nat
      /\ IsFiniteSet(ProbesAt(queue)) /\ Probes(queue) \in Nat
  BY LenProperties, ProbesInQueue
<1>2. /\ Head(queue) \in S /\ rest \in Seq(S) /\ Len(rest) = Len(queue) - 1
      /\ \A i \in 1 .. Len(rest) : rest[i] = queue[i + 1]
  BY HeadTailProperties
<1>3. DOMAIN rest = 1 .. Len(queue) - 1 /\ Len(queue) >= 1 /\ Head(queue) = queue[1]
  BY <1>1, <1>2, LenProperties
<1>4. IsFiniteSet(ProbesAt(rest)) /\ Probes(rest) \in Nat
  BY <1>2, ProbesInQueue
<1>5. Cardinality(later) = Cardinality(ProbesAt(rest))
  <2> DEFINE f == [i \in ProbesAt(rest) |-> i + 1]
  <2>1. \A i \in ProbesAt(rest) : i \in 1 .. Len(queue) - 1 /\ queue[i + 1].kind = "probe"
    BY <1>2, <1>3 DEF ProbesAt
  <2>2. f \in [ProbesAt(rest) -> later]
    BY <1>1, <2>1 DEF ProbesAt
  <2>3. \A i, j \in ProbesAt(rest) : f[i] = f[j] => i = j
    BY <2>1
  <2>4. ASSUME NEW k \in later
        PROVE  \E i \in ProbesAt(rest) : f[i] = k
    <3>1. k \in 2 .. Len(queue) /\ queue[k].kind = "probe"
      BY <1>1 DEF ProbesAt
    <3>2. k - 1 \in 1 .. Len(rest) /\ rest[k - 1] = queue[k]
      BY <1>1, <1>2, <3>1
    <3>3. k - 1 \in ProbesAt(rest)
      BY <1>2, <1>3, <3>1, <3>2 DEF ProbesAt
    <3> QED
      BY <3>1, <3>3
  <2>5. f \in Bijection(ProbesAt(rest), later)
    <3> HIDE DEF f, later, rest
    <3> QED
      BY <2>2, <2>3, <2>4, Fun_IsBij
  <2>6. ExistsBijection(ProbesAt(rest), later)
    BY <2>5 DEF ExistsBijection
  <2> QED
    BY <1>4, <2>6, FS_Bijection
<1>6. Cardinality(later) = IF 1 \in ProbesAt(queue) THEN Cardinality(ProbesAt(queue)) - 1
                                                   ELSE Cardinality(ProbesAt(queue))
  BY <1>1, FS_RemoveElement
<1>7. 1 \in ProbesAt(queue) <=> Head(queue).kind = "probe"
  BY <1>1, <1>3 DEF ProbesAt
<1>8. Probes(queue) = Probes(rest) + One(Head(queue).kind = "probe")
  <2> HIDE DEF rest, later
  <2> QED
    BY <1>1, <1>4, <1>5, <1>6, <1>7 DEF Probes, One
<1> QED
  BY <1>2, <1>8

-----------------------------------------------------------------------------
(* The step. *)

LEMMA CountInit == Init => CountInv
<1> SUFFICES ASSUME Init
             PROVE  CountInv
  OBVIOUS
<1>1. MemberInv
  BY MembersInit
<1>2. NoFrame \in Frames /\ NoFrame.kind = "none" /\ NoEvent.probe = FALSE
  BY DEF NoFrame, Frames, NoEvent
<1>3. CountTypes /\ SteadyIsMember /\ NothingSent /\ CopiedInTime
  BY <1>2 DEF Init, CountTypes, SteadyIsMember, NothingSent, CopiedInTime
<1>4. FreeRowsEmpty /\ RowsOf(Mine) = {}
  BY ProbeAssumption DEF Init, FreeRowsEmpty, RowsOf, FreeRow
<1>5. UpPending = 0
  BY <1>2, NoProbes DEF Init, UpPending, One
<1> QED
  BY <1>1, <1>2, <1>3, <1>4, <1>5
     DEF Init, CountInv, UpwardsCounted, DownwardsCounted

LEMMA CountTypesStep == CountTypes /\ [Next]_vars => CountTypes'
<1> SUFFICES ASSUME CountTypes, [Next]_vars
             PROVE  CountTypes'
  OBVIOUS
<1>1. CASE UNCHANGED vars
  BY <1>1 DEF vars, gwVars, sharedVars, nodeVars, CountTypes
<1>2. ASSUME NEW kind \in {"probe", "data", "invalid"}, Computer(kind)
      PROVE  CountTypes'
  BY <1>2 DEF Computer, gwVars, nodeVars, Frame, Frames, Node, CountTypes
<1>3. ASSUME NEW n, NEW e, GatewayEvent(e, n)
      PROVE  CountTypes'
  BY <1>3 DEF GatewayEvent, sharedVars, nodeVars, CountTypes
<1>4. CASE ReceiveFromOther
  BY <1>4 DEF ReceiveFromOther, GatewayReceives, sharedVars, nodeVars, Frame, Frames, Node, CountTypes
<1>5. CASE Uplink
  <2>1. Head(up) \in FromMine /\ Tail(up) \in Seq(FromMine)
    BY <1>5, ProbesTaken DEF Uplink, CountTypes
  <2> QED
    BY <1>5, <2>1 DEF Uplink, GatewayReceives, sharedVars, nodeVars, FromMine, Node, CountTypes
<1>6. CASE UplinkLost
  <2>1. Tail(up) \in Seq(FromMine)
    BY <1>6, ProbesTaken DEF UplinkLost, CountTypes
  <2> QED
    BY <1>6, <2>1 DEF UplinkLost, gwVars, sharedVars, nodeVars, CountTypes
<1>7. CASE Downlink
  <2>1. Head(down) \in Frames /\ Tail(down) \in Seq(Frames)
    BY <1>7, ProbesTaken DEF Downlink, CountTypes
  <2> QED
    BY <1>7, <2>1 DEF Downlink, NodeReceives, gwVars, sharedVars, CountTypes
<1>8. CASE DownlinkLost
  <2>1. Tail(down) \in Seq(Frames)
    BY <1>8, ProbesTaken DEF DownlinkLost, CountTypes
  <2> QED
    BY <1>8, <2>1 DEF DownlinkLost, gwVars, sharedVars, nodeVars, CountTypes
<1>9. CASE Beacon
  BY <1>9 DEF Beacon, NodeReceives, gwVars, sharedVars, Frame, Frames, CountTypes
<1>10. CASE SessionEvent
  BY <1>10 DEF SessionEvent, gwVars, sharedVars, CountTypes
<1>11. CASE NetworkCore /\ ~SendPacket
  BY <1>11 DEF NetworkCore, TakeEvent, CopyEvent, HandleEvent, NoEventToHandle, NoPacketToSend,
               TakePacket, CountPacket, GatewayLoop, nodeVars, CountTypes
<1>12. CASE SendPacket
  <2>1. Added(down, shared) \in Seq(Frames)
    BY ProbesAdded DEF CountTypes
  <2> QED
    BY <1>12, <2>1 DEF SendPacket, GatewayLoop, nodeVars, CountTypes
<1>13. CASE NodeTakes \/ NodeCopies \/ NodeTests \/ NodeEdits
  BY <1>13 DEF NodeTakes, NodeCopies, NodeTests, NodeEdits, NodeLoop, gwVars, sharedVars, CountTypes
<1>14. CASE NodeAnswers
  <2>1. [nodeFrame EXCEPT !.src = Mine] \in FromMine
    BY DEF CountTypes, Frames, FromMine, Node
  <2>2. Added(up, [nodeFrame EXCEPT !.src = Mine]) \in Seq(FromMine)
    BY <2>1, ProbesAdded DEF CountTypes
  <2> QED
    BY <1>14, <2>2 DEF NodeAnswers, NodeLoop, gwVars, sharedVars, CountTypes
<1>15. CASE NodeStatus
  <2>1. Frame("status", 0, Mine) \in FromMine
    BY DEF Frame, Frames, FromMine, Node
  <2>2. Added(up, Frame("status", 0, Mine)) \in Seq(FromMine)
    BY <2>1, ProbesAdded DEF CountTypes
  <2> QED
    BY <1>15, <2>2 DEF NodeStatus, NodeLoop, gwVars, sharedVars, CountTypes
<1> QED
  BY <1>1, <1>2, <1>3, <1>4, <1>5, <1>6, <1>7, <1>8, <1>9, <1>10, <1>11, <1>12, <1>13, <1>14, <1>15
     DEF Next, Interrupt, NetworkCore, NodeApp

\* What the loop of the network core does to the rows of the node, and to free ones.
LEMMA HandleEventCounts ==
    ASSUME MemberInv, CountTypes, FreeRowsEmpty, HandleEvent
    PROVE  /\ FreeRowsEmpty'
           /\ \A r \in RowsOf(Mine)' :
                 \/ table'[r].rx = 0
                 \/ /\ r \in RowsOf(Mine)
                    /\ table'[r].rx <= table[r].rx + One(gwCopy.probe /\ MineAtGateway)
           /\ steady' /\ steady /\ Mine \in told /\ Mine \notin irregular'
                => \A r \in RowsOf(Mine)' : r \in RowsOf(Mine) /\ table'[r].tx = table[r].tx
<1>1. Mine \in Node /\ Mine # NoNode /\ Other # NoNode /\ NoNode \notin Node /\ Mine # Other
  BY ProbeAssumption DEF Node
<1>2. \A r \in Row : /\ table[r].rx \in Nat /\ table[r].tx \in Nat
                     /\ table'[r].node = Mine <=> r \in RowsOf(Mine)'
  BY DEF MemberInv, RowsOf
<1>3. CASE HandleJoined
  <2>1. PICK n \in Node : AddNode(n) /\ told' = told \cup {n}
                          /\ irregular' = IF n \in told \/ RowsOf(NoNode) = {}
                                          THEN irregular \cup {n} ELSE irregular
    BY <1>3 DEF MemberInv, HandleJoined
  <2>2. \A r \in FirstOf(RowsOf(NoNode)) : table[r].node = NoNode
    BY DEF FirstOf, RowsOf
  <2>3. \A r \in Row : /\ table'[r].rx = table[r].rx /\ table'[r].tx = table[r].tx
                       /\ table'[r].node = table[r].node
                            \/ (table'[r].node = n /\ table[r].node = NoNode)
    BY <2>1, <2>2 DEF AddNode, MemberInv
  <2>4. FreeRowsEmpty'
    BY <1>1, <2>3 DEF FreeRowsEmpty, RowsOf
  <2>5. \A r \in RowsOf(Mine)' : \/ table'[r].rx = 0
                                 \/ r \in RowsOf(Mine) /\ table'[r].rx = table[r].rx
    BY <1>1, <2>3 DEF FreeRowsEmpty, RowsOf
  <2>6. Mine \in told /\ Mine \notin irregular' => n # Mine
    BY <2>1
  <2>7. Mine \in told /\ Mine \notin irregular'
          => \A r \in RowsOf(Mine)' : r \in RowsOf(Mine) /\ table'[r].tx = table[r].tx
    BY <2>3, <2>6 DEF RowsOf
  <2>8. \A r \in RowsOf(Mine) : r \in Row
    BY DEF RowsOf
  <2> QED
    BY <1>2, <2>4, <2>5, <2>7, <2>8 DEF One
<1>4. CASE HandleLeft
  <2>1. PICK n \in Node : /\ ClearNode(n) /\ told' = told \ {n}
                          /\ steady' = (steady /\ n # Mine)
    BY <1>4 DEF MemberInv, HandleLeft
  <2>2. \A r \in Row : \/ table'[r] = table[r]
                       \/ table'[r].node = NoNode /\ table'[r].rx = 0
    BY <2>1 DEF ClearNode, FreeRow
  <2>3. FreeRowsEmpty'
    BY <2>2 DEF FreeRowsEmpty, RowsOf
  <2>4. \A r \in RowsOf(Mine)' : r \in RowsOf(Mine) /\ table'[r] = table[r]
    BY <1>1, <2>2 DEF RowsOf
  <2>5. \A r \in RowsOf(Mine) : r \in Row
    BY DEF RowsOf
  <2> QED
    BY <1>2, <2>3, <2>4, <2>5 DEF One
<1>5. CASE HandlePacket
  <2>1. \A r \in FirstOf(RowsOf(gwFrame.src)) : r \in Row /\ table[r].node = gwFrame.src
    BY DEF FirstOf, RowsOf
  <2>2. \A r \in Row : /\ table'[r].node = table[r].node /\ table'[r].tx = table[r].tx
                       /\ \/ table'[r].rx = table[r].rx
                          \/ /\ table'[r].rx = table[r].rx + 1
                             /\ gwCopy.probe /\ gwFrame.kind = "probe"
                             /\ table[r].node = gwFrame.src
    BY <1>5, <2>1 DEF HandlePacket, MemberInv
  <2>3. FreeRowsEmpty'
    BY <1>1, <2>2 DEF FreeRowsEmpty, RowsOf, CountTypes
  <2>4. ASSUME NEW r \in RowsOf(Mine)'
        PROVE  /\ r \in RowsOf(Mine) /\ table'[r].tx = table[r].tx
               /\ table'[r].rx <= table[r].rx + One(gwCopy.probe /\ MineAtGateway)
    <3>1. r \in Row /\ r \in RowsOf(Mine) /\ table[r].node = Mine
      BY <2>2 DEF RowsOf
    <3> QED
      BY <1>2, <2>2, <3>1 DEF One, MineAtGateway
  <2> QED
    BY <2>3, <2>4
<1> QED
  BY <1>3, <1>4, <1>5 DEF HandleEvent

LEMMA CountPacketCounts ==
    ASSUME MemberInv, CountTypes, FreeRowsEmpty, CountPacket
    PROVE  /\ FreeRowsEmpty'
           /\ \A n : RowsOf(n)' = RowsOf(n)
           /\ \A r \in RowsOf(Mine) : table'[r].rx = table[r].rx
           /\ Mine \in told /\ Mine \notin irregular
                => \A r \in RowsOf(Mine) : table'[r].tx = table[r].tx + One(shared.kind = "probe")
<1>1. \A n : RowsOf(n)' = RowsOf(n)
  BY CountingMovesNone DEF CountPacket
<1>2. \A r \in Row : table[r].tx \in Nat /\ table'[r].rx = table[r].rx
  BY DEF MemberInv, CountPacket
<1>3. ASSUME Mine \in told, Mine \notin irregular, NEW r \in RowsOf(Mine)
      PROVE  table'[r].tx = table[r].tx + One(shared.kind = "probe")
  <2>1. RowsOf(Mine) = {r} /\ r \in Row
    BY <1>3 DEF MemberInv, RowsFollowMembers, Node, RowsOf
  <2>2. FirstOf(RowsOf(Mine)) = {r}
    BY <2>1, FirstExists
  <2>3. CASE shared.kind = "probe"
    <3>1. FirstOf(RowsOf(shared.src)) = {r}
      BY <2>2, <2>3 DEF CountTypes
    <3> QED
      BY <2>1, <2>3, <3>1 DEF CountPacket, MemberInv, One
  <2>4. CASE shared.kind # "probe"
    BY <1>2, <2>1, <2>4 DEF CountPacket, One
  <2> QED
    BY <2>3, <2>4
<1>4. FreeRowsEmpty'
  BY <1>1, <1>2 DEF FreeRowsEmpty, RowsOf
<1> QED
  BY <1>1, <1>2, <1>3, <1>4 DEF RowsOf

\* Only the loop of the network core writes to the table.
LEMMA TableWritten ==
    ASSUME [Next]_vars
    PROVE  UNCHANGED members \/ HandleEvent \/ CountPacket
<1>1. ASSUME NEW kind, Computer(kind)
      PROVE  UNCHANGED members
  BY <1>1 DEF Computer
<1>2. ASSUME NEW e, NEW n, GatewayEvent(e, n)
      PROVE  UNCHANGED members
  BY <1>2 DEF GatewayEvent
<1>3. CASE ReceiveFromOther \/ Uplink \/ UplinkLost \/ Downlink \/ DownlinkLost \/ Beacon \/ SessionEvent
  BY <1>3 DEF ReceiveFromOther, Uplink, UplinkLost, Downlink, DownlinkLost, Beacon, SessionEvent,
              GatewayReceives, NodeReceives
<1>4. CASE NetworkCore
  BY <1>4 DEF NetworkCore, TakeEvent, CopyEvent, NoEventToHandle, NoPacketToSend, TakePacket,
              SendPacket, members
<1>5. CASE NodeApp
  BY <1>5 DEF NodeApp, NodeTakes, NodeCopies, NodeTests, NodeEdits, NodeAnswers, NodeStatus, NodeLoop
<1> QED
  BY <1>1, <1>2, <1>3, <1>4, <1>5 DEF Next, Interrupt, vars

LEMMA MembershipStep ==
    ASSUME CountInv, [Next]_vars
    PROVE  FreeRowsEmpty' /\ SteadyIsMember'
<1>1. FreeRowsEmpty'
  BY TableWritten, HandleEventCounts, CountPacketCounts
     DEF CountInv, members, FreeRowsEmpty, RowsOf
<1>2. SteadyIsMember'
  <2>1. ASSUME NEW kind, Computer(kind)
        PROVE  SteadyIsMember'
    BY <2>1 DEF Computer, members, CountInv, SteadyIsMember
  <2>2. ASSUME NEW e, NEW n, GatewayEvent(e, n)
        PROVE  SteadyIsMember'
    BY <2>2 DEF GatewayEvent, members, CountInv, SteadyIsMember
  <2>3. CASE ReceiveFromOther \/ Uplink \/ UplinkLost \/ Downlink \/ DownlinkLost \/ Beacon \/ SessionEvent
    BY <2>3 DEF ReceiveFromOther, Uplink, UplinkLost, Downlink, DownlinkLost, Beacon, SessionEvent,
                GatewayReceives, NodeReceives, members, history, CountInv, SteadyIsMember
  <2>4. CASE NetworkCore /\ ~HandleEvent
    BY <2>4 DEF NetworkCore, TakeEvent, CopyEvent, NoEventToHandle, NoPacketToSend, TakePacket,
                CountPacket, SendPacket, members, CountInv, SteadyIsMember
  <2>5. CASE HandleEvent
    BY <2>5 DEF HandleEvent, HandleJoined, HandleLeft, HandlePacket, CountInv, SteadyIsMember
  <2>6. CASE NodeApp
    BY <2>6 DEF NodeApp, NodeTakes, NodeCopies, NodeTests, NodeEdits, NodeAnswers, NodeStatus,
                NodeLoop, members, history, CountInv, SteadyIsMember
  <2> QED
    BY <2>1, <2>2, <2>3, <2>4, <2>5, <2>6
       DEF Next, Interrupt, vars, members, history, CountInv, SteadyIsMember
<1> QED
  BY <1>1, <1>2

LEMMA NothingSentStep ==
    ASSUME CountTypes, NothingSent, [Next]_vars
    PROVE  NothingSent'
<1>1. CASE UNCHANGED vars
  BY <1>1 DEF vars, gwVars, sharedVars, nodeVars, NothingSent
<1>2. ASSUME NEW kind, Computer(kind)
      PROVE  NothingSent'
  BY <1>2 DEF Computer, CountTypes, NothingSent
<1>3. ASSUME NEW e, NEW n, GatewayEvent(e, n)
      PROVE  NothingSent'
  BY <1>3 DEF GatewayEvent, Raise, sharedVars, nodeVars, NothingSent
<1>4. CASE ReceiveFromOther \/ Uplink
  BY <1>4 DEF ReceiveFromOther, Uplink, GatewayReceives, Raise, sharedVars, nodeVars, NothingSent
<1>5. CASE UplinkLost \/ DownlinkLost
  BY <1>5 DEF UplinkLost, DownlinkLost, gwVars, sharedVars, nodeVars, NothingSent
<1>6. CASE Downlink \/ Beacon \/ SessionEvent
  BY <1>6 DEF Downlink, Beacon, SessionEvent, NodeReceives, Frame, gwVars, sharedVars, NothingSent
<1>7. CASE NetworkCore
  BY <1>7 DEF NetworkCore, TakeEvent, CopyEvent, HandleEvent, NoEventToHandle, NoPacketToSend,
              TakePacket, CountPacket, SendPacket, GatewayLoop, nodeVars, NothingSent
<1>8. CASE NodeApp
  BY <1>8 DEF NodeApp, NodeTakes, NodeCopies, NodeTests, NodeEdits, NodeAnswers, NodeStatus,
              NodeLoop, gwVars, sharedVars, NothingSent
<1> QED
  BY <1>1, <1>2, <1>3, <1>4, <1>5, <1>6, <1>7, <1>8 DEF Next, Interrupt

LEMMA CopiedInTimeStep ==
    ASSUME CopiedInTime, [Next]_vars
    PROVE  (late => late') /\ CopiedInTime'
<1>1. CASE UNCHANGED vars
  BY <1>1 DEF vars, gwVars, nodeVars, history, CopiedInTime
<1>2. ASSUME NEW kind, Computer(kind)
      PROVE  (late => late') /\ CopiedInTime'
  BY <1>2 DEF Computer, gwVars, nodeVars, CopiedInTime
<1>3. ASSUME NEW e, NEW n, GatewayEvent(e, n)
      PROVE  (late => late') /\ CopiedInTime'
  BY <1>3 DEF GatewayEvent, Raise, nodeVars, CopiedInTime
<1>4. CASE ReceiveFromOther \/ Uplink
  <2>1. /\ late' = (late \/ gwReady \/ gwStep \in {"copy", "handle"})
        /\ gwStep' = gwStep /\ nodeStep' = nodeStep /\ nodeReady' = nodeReady
    BY <1>4 DEF ReceiveFromOther, Uplink, GatewayReceives, Raise, nodeVars
  <2>2. late \/ gwStep = "copy" => late'
    BY <2>1
  <2> QED
    BY <2>1, <2>2 DEF CopiedInTime
<1>5. CASE UplinkLost \/ DownlinkLost
  BY <1>5 DEF UplinkLost, DownlinkLost, gwVars, nodeVars, history, CopiedInTime
<1>6. CASE Downlink \/ Beacon \/ SessionEvent
  <2>1. /\ late' = (late \/ nodeReady \/ nodeStep # "event") \/ late' = (late \/ nodeReady \/ nodeStep = "copy")
        /\ gwStep' = gwStep /\ gwReady' = gwReady /\ nodeStep' = nodeStep
    BY <1>6 DEF Downlink, Beacon, SessionEvent, NodeReceives, gwVars
  <2>2. late \/ nodeStep = "copy" => late'
    BY <2>1
  <2> QED
    BY <2>1, <2>2 DEF CopiedInTime
<1>7. CASE NetworkCore
  BY <1>7 DEF NetworkCore, TakeEvent, CopyEvent, HandleEvent, NoEventToHandle, NoPacketToSend,
              TakePacket, CountPacket, SendPacket, GatewayLoop, nodeVars, CopiedInTime
<1>8. CASE NodeApp
  BY <1>8 DEF NodeApp, NodeTakes, NodeCopies, NodeTests, NodeEdits, NodeAnswers, NodeStatus,
              NodeLoop, gwVars, history, CopiedInTime
<1> QED
  BY <1>1, <1>2, <1>3, <1>4, <1>5, <1>6, <1>7, <1>8 DEF Next, Interrupt

LEMMA PendingIsNat == CountTypes => UpPending \in Nat /\ DownPending \in Nat
BY ProbesInQueue DEF CountTypes, UpPending, DownPending, One

LEMMA UpwardsStep == CountInv /\ [Next]_vars => UpwardsCounted'
<1> SUFFICES ASSUME CountInv, [Next]_vars, ~late'
             PROVE  /\ UpPending' <= count'
                    /\ \A r \in RowsOf(Mine)' : table'[r].rx + UpPending' <= count'
  BY DEF UpwardsCounted
<1>1. ~late /\ CountTypes /\ MemberInv /\ CopiedInTime /\ FreeRowsEmpty
  BY CopiedInTimeStep DEF CountInv
<1>2. CountTypes'
  BY CountTypesStep DEF CountInv
<1>3. PICK before \in Nat : UpPending = before
  BY <1>1, PendingIsNat
<1>4. PICK after \in Nat : UpPending' = after
  <2>1. UpPending' \in Nat
    BY <1>2, ProbesInQueue DEF CountTypes, UpPending, One
  <2> QED
    BY <2>1
<1>5. before <= count /\ \A r \in RowsOf(Mine) : table[r].rx + before <= count /\ table[r].rx \in Nat
  BY <1>1, <1>3 DEF CountInv, UpwardsCounted, MemberInv, RowsOf
<1>6. count \in Nat /\ count' \in Nat
  BY <1>1, <1>2 DEF CountTypes
<1>7. ASSUME UNCHANGED members, count' = count, after <= before
      PROVE  /\ after <= count'
             /\ \A r \in RowsOf(Mine)' : table'[r].rx + after <= count'
  <2>1. RowsOf(Mine)' = RowsOf(Mine) /\ table' = table
    BY <1>7 DEF members, RowsOf
  <2> QED
    BY <1>5, <1>6, <1>7, <2>1
<1>8. Probes(up) \in Nat /\ Probes(up') \in Nat
  BY <1>1, <1>2, ProbesInQueue DEF CountTypes
<1>9. CASE UNCHANGED vars
  <2>1. after = before
    BY <1>3, <1>4, <1>9 DEF vars, gwVars, nodeVars, UpPending, MineAtGateway
  <2> QED
    BY <1>4, <1>7, <1>9, <2>1 DEF vars, nodeVars
<1>10. ASSUME NEW kind, Computer(kind)
       PROVE  UNCHANGED members /\ count' = count /\ after <= before
  BY <1>3, <1>4, <1>10 DEF Computer, gwVars, nodeVars, UpPending, MineAtGateway
<1>11. ASSUME NEW e, NEW n, GatewayEvent(e, n)
       PROVE  UNCHANGED members /\ count' = count /\ after <= before
  BY <1>3, <1>4, <1>8, <1>11 DEF GatewayEvent, Raise, Membership, nodeVars, UpPending, MineAtGateway, One
<1>12. CASE ReceiveFromOther
  <2>1. ~MineAtGateway' /\ gwStep' = gwStep /\ up' = up /\ UNCHANGED <<nodeVars, members>>
    BY <1>12, ProbeAssumption DEF ReceiveFromOther, GatewayReceives, Raise, Frame, MineAtGateway
  <2>2. after <= before
    BY <1>3, <1>4, <1>8, <2>1 DEF UpPending, nodeVars, One
  <2> QED
    BY <1>4, <1>7, <2>1, <2>2 DEF nodeVars
<1>13. CASE Uplink
  <2>1. Probes(up) = Probes(up') + One(Head(up).kind = "probe")
    BY <1>1, <1>13, ProbesTaken DEF Uplink, CountTypes
  <2>2. /\ gwMail' = Packet(Head(up)) /\ gwFrame' = Head(up) /\ gwStep' = gwStep /\ ~gwReady
        /\ gwStep \notin {"copy", "handle"} /\ UNCHANGED <<nodeVars, members>>
    BY <1>13 DEF Uplink, GatewayReceives, Raise
  <2>3. after <= before
    BY <1>3, <1>4, <1>8, <2>1, <2>2 DEF UpPending, MineAtGateway, nodeVars, One
  <2> QED
    BY <1>4, <1>7, <2>2, <2>3 DEF nodeVars
<1>14. CASE UplinkLost
  <2>1. Probes(up) = Probes(up') + One(Head(up).kind = "probe")
    BY <1>1, <1>14, ProbesTaken DEF UplinkLost, CountTypes
  <2>2. after <= before
    BY <1>3, <1>4, <1>8, <1>14, <2>1 DEF UplinkLost, UpPending, MineAtGateway, gwVars, nodeVars, One
  <2> QED
    BY <1>4, <1>7, <1>14, <2>2 DEF UplinkLost, nodeVars
<1>15. CASE Downlink \/ Beacon
  <2>1. /\ nodeStep = "event" /\ nodeStep' = "event" /\ up' = up /\ count' = count
        /\ UNCHANGED <<gwVars, members>>
    BY <1>15 DEF Downlink, Beacon, NodeReceives
  <2>2. after <= before
    BY <1>3, <1>4, <1>8, <2>1 DEF UpPending, MineAtGateway, gwVars, One
  <2> QED
    BY <1>4, <1>7, <2>1, <2>2
<1>16. CASE DownlinkLost \/ SessionEvent
  <2>1. after = before
    BY <1>3, <1>4, <1>16
       DEF DownlinkLost, SessionEvent, UpPending, MineAtGateway, gwVars, nodeVars
  <2> QED
    BY <1>4, <1>7, <1>16, <2>1 DEF DownlinkLost, SessionEvent, nodeVars
<1>17. CASE TakeEvent \/ NoEventToHandle \/ NoPacketToSend \/ TakePacket \/ SendPacket
  <2>1. /\ gwMail' = gwMail /\ gwFrame' = gwFrame /\ gwCopy' = gwCopy /\ up' = up
        /\ gwStep \notin {"copy", "handle"} /\ gwStep' # "handle"
        /\ gwReady' \/ gwStep' = "copy" => gwReady
        /\ UNCHANGED <<nodeVars, members>>
    BY <1>17 DEF TakeEvent, NoEventToHandle, NoPacketToSend, TakePacket, SendPacket, GatewayLoop
  <2>2. after <= before
    BY <1>3, <1>4, <1>8, <2>1 DEF UpPending, MineAtGateway, nodeVars, One
  <2> QED
    BY <1>4, <1>7, <2>1, <2>2 DEF nodeVars
<1>18. CASE CopyEvent
  <2>1. /\ gwMail' = gwMail /\ gwFrame' = gwFrame /\ gwCopy' = gwMail /\ up' = up
        /\ gwStep = "copy" /\ gwStep' = "handle" /\ ~gwReady /\ gwReady' = gwReady
        /\ UNCHANGED <<nodeVars, members>>
    BY <1>1, <1>18 DEF CopyEvent, GatewayLoop, CopiedInTime
  <2>2. after <= before
    BY <1>3, <1>4, <1>8, <2>1 DEF UpPending, MineAtGateway, nodeVars, One
  <2> QED
    BY <1>4, <1>7, <2>1, <2>2 DEF nodeVars
<1>19. CASE HandleEvent
  <2>1. /\ gwMail' = gwMail /\ gwFrame' = gwFrame /\ up' = up /\ gwReady' = gwReady
        /\ gwStep = "handle" /\ gwStep' = "packet" /\ UNCHANGED nodeVars
    BY <1>19 DEF HandleEvent, GatewayLoop
  <2>2. after + One(gwCopy.probe /\ MineAtGateway) <= before
    BY <1>3, <1>4, <1>8, <2>1 DEF UpPending, MineAtGateway, nodeVars, One
  <2>3. count' = count /\ One(gwCopy.probe /\ MineAtGateway) \in 0 .. 1
    BY <2>1 DEF nodeVars, One
  <2>4. \A r \in RowsOf(Mine)' : table'[r].rx \in Nat
    BY MembersStep DEF CountInv, MemberInv, RowsOf
  <2>5. ASSUME NEW r \in RowsOf(Mine)'
        PROVE  table'[r].rx + after <= count
    <3>1. \/ table'[r].rx = 0
          \/ /\ r \in RowsOf(Mine)
             /\ table'[r].rx <= table[r].rx + One(gwCopy.probe /\ MineAtGateway)
      BY <1>1, <1>19, HandleEventCounts
    <3> QED
      BY <1>5, <1>6, <2>2, <2>3, <2>4, <3>1
  <2> QED
    BY <1>4, <1>5, <1>6, <2>2, <2>3, <2>5
<1>20. CASE CountPacket
  <2>1. /\ gwMail' = gwMail /\ gwFrame' = gwFrame /\ gwCopy' = gwCopy /\ up' = up
        /\ gwReady' = gwReady /\ gwStep = "count" /\ gwStep' = "send" /\ UNCHANGED nodeVars
    BY <1>20 DEF CountPacket, GatewayLoop
  <2>2. after <= before /\ count' = count
    BY <1>3, <1>4, <1>8, <2>1 DEF UpPending, MineAtGateway, nodeVars, One
  <2>3. RowsOf(Mine)' = RowsOf(Mine) /\ \A r \in RowsOf(Mine) : table'[r].rx = table[r].rx
    BY <1>1, <1>20, CountPacketCounts
  <2> QED
    BY <1>4, <1>5, <1>6, <2>2, <2>3
<1>21. CASE NodeTakes \/ NodeCopies \/ NodeTests
  <2>1. /\ nodeStep # "answer" /\ nodeStep' # "answer" /\ up' = up /\ count' = count
        /\ UNCHANGED <<gwVars, members>>
    BY <1>21 DEF NodeTakes, NodeCopies, NodeTests, NodeLoop
  <2>2. after <= before
    BY <1>3, <1>4, <1>8, <2>1 DEF UpPending, MineAtGateway, gwVars, One
  <2> QED
    BY <1>4, <1>7, <2>1, <2>2
<1>22. CASE NodeEdits
  <2>1. /\ nodeStep = "edit" /\ nodeStep' = "answer" /\ nodeFrame' = nodeFrame /\ up' = up
        /\ count' = count + 1 /\ UNCHANGED <<gwVars, members>>
    BY <1>22 DEF NodeEdits, NodeLoop
  <2>2. after <= before + 1
    BY <1>3, <1>4, <1>8, <2>1 DEF UpPending, MineAtGateway, gwVars, One
  <2>3. RowsOf(Mine)' = RowsOf(Mine) /\ table' = table
    BY <2>1 DEF members, RowsOf
  <2> QED
    BY <1>4, <1>5, <1>6, <2>1, <2>2, <2>3
<1>23. CASE NodeAnswers
  <2>1. /\ nodeStep = "answer" /\ nodeStep' = "event" /\ count' = count
        /\ up' = Added(up, [nodeFrame EXCEPT !.src = Mine])
        /\ UNCHANGED <<gwVars, members>>
    BY <1>23 DEF NodeAnswers, NodeLoop
  <2>2. [nodeFrame EXCEPT !.src = Mine] \in FromMine
        /\ [nodeFrame EXCEPT !.src = Mine].kind = nodeFrame.kind
    BY <1>1 DEF CountTypes, Frames, FromMine, Node
  <2>3. Probes(up') <= Probes(up) + One(nodeFrame.kind = "probe")
    BY <1>1, <2>1, <2>2, ProbesAdded DEF CountTypes
  <2>4. after <= before
    BY <1>3, <1>4, <1>8, <2>1, <2>3 DEF UpPending, MineAtGateway, gwVars, One
  <2> QED
    BY <1>4, <1>7, <2>1, <2>4
<1>24. CASE NodeStatus
  <2>1. /\ nodeStep' = nodeStep /\ nodeFrame' = nodeFrame /\ count' = count
        /\ up' = Added(up, Frame("status", 0, Mine))
        /\ UNCHANGED <<gwVars, members>>
    BY <1>24 DEF NodeStatus, NodeLoop
  <2>2. Frame("status", 0, Mine) \in FromMine /\ Frame("status", 0, Mine).kind # "probe"
    BY DEF Frame, Frames, FromMine, Node
  <2>3. Probes(up') <= Probes(up) + One(Frame("status", 0, Mine).kind = "probe")
    BY <1>1, <2>1, <2>2, ProbesAdded DEF CountTypes
  <2>4. after <= before
    BY <1>3, <1>4, <1>8, <2>1, <2>2, <2>3 DEF UpPending, MineAtGateway, gwVars, One
  <2> QED
    BY <1>4, <1>7, <2>1, <2>4
<1> QED
  BY <1>4, <1>7, <1>9, <1>10, <1>11, <1>12, <1>13, <1>14, <1>15, <1>16, <1>17, <1>18, <1>19, <1>20,
     <1>21, <1>22, <1>23, <1>24 DEF Next, Interrupt, NetworkCore, NodeApp

LEMMA DownwardsStep == CountInv /\ [Next]_vars => DownwardsCounted'
<1> SUFFICES ASSUME CountInv, [Next]_vars, ~late', steady', Mine \notin irregular'
             PROVE  \A r \in RowsOf(Mine)' : count' + DownPending' <= table'[r].tx
  BY DEF DownwardsCounted
<1>1. /\ ~late /\ CountTypes /\ MemberInv /\ CopiedInTime /\ FreeRowsEmpty
      /\ SteadyIsMember /\ NothingSent
  BY CopiedInTimeStep DEF CountInv
<1>2. CountTypes'
  BY CountTypesStep DEF CountInv
<1>3. PICK before \in Nat : DownPending = before
  BY <1>1, PendingIsNat
<1>4. PICK after \in Nat : DownPending' = after
  <2>1. DownPending' \in Nat
    BY <1>2, ProbesInQueue DEF CountTypes, DownPending, One
  <2> QED
    BY <2>1
<1>5. /\ steady /\ Mine \notin irregular => \A r \in RowsOf(Mine) : count + before <= table[r].tx
      /\ \A r \in RowsOf(Mine) : table[r].tx \in Nat
  BY <1>1, <1>3 DEF CountInv, DownwardsCounted, MemberInv, RowsOf
<1>6. count \in Nat /\ count' \in Nat
  BY <1>1, <1>2 DEF CountTypes
<1>7. ASSUME UNCHANGED members, steady' = steady, count' = count, after <= before
      PROVE  \A r \in RowsOf(Mine)' : count' + after <= table'[r].tx
  <2>1. RowsOf(Mine)' = RowsOf(Mine) /\ table' = table /\ irregular' = irregular /\ steady' = steady
    BY <1>7 DEF members, RowsOf
  <2>2. steady /\ Mine \notin irregular
    BY <2>1
  <2> QED
    BY <1>5, <1>6, <1>7, <2>1, <2>2
<1>8. Probes(down) \in Nat /\ Probes(down') \in Nat
  BY <1>1, <1>2, ProbesInQueue DEF CountTypes
<1>9. CASE UNCHANGED vars
  <2>1. after = before /\ after <= before
    BY <1>3, <1>4, <1>9 DEF vars, gwVars, sharedVars, nodeVars, DownPending
  <2>2. UNCHANGED members /\ steady' = steady /\ count' = count
    BY <1>9 DEF vars, nodeVars, history
  <2> QED
    BY <1>4, <1>7, <2>1, <2>2
<1>10. ASSUME NEW kind, Computer(kind)
       PROVE  \A r \in RowsOf(Mine)' : count' + after <= table'[r].tx
  <2>1. /\ gwStep' = gwStep /\ down' = down /\ UNCHANGED <<nodeVars, members>>
        /\ steady' = IF sent = 0 THEN Mine \in told ELSE steady
    BY <1>10 DEF Computer, gwVars
  <2>2. gwStep # "send"
    BY <1>10 DEF Computer
  <2>3. after <= before /\ count' = count
    BY <1>3, <1>4, <1>8, <2>1, <2>2 DEF DownPending, nodeVars, One
  <2>4. CASE sent = 0
    <3>1. count = 0 /\ down = <<>> /\ nodeFrame.kind # "probe" /\ nodeStep # "edit"
      BY <1>1, <2>4 DEF NothingSent
    <3>2. before = 0
      BY <1>3, <2>2, <3>1, NoProbes DEF DownPending, One
    <3>3. RowsOf(Mine)' = RowsOf(Mine) /\ table' = table
      BY <2>1 DEF members, RowsOf
    <3> QED
      BY <1>5, <2>3, <3>1, <3>2, <3>3
  <2>5. CASE sent # 0
    BY <1>4, <1>6, <1>7, <2>1, <2>3, <2>5
  <2> QED
    BY <2>4, <2>5
<1>11. ASSUME NEW e, NEW n, GatewayEvent(e, n)
       PROVE  \A r \in RowsOf(Mine)' : count' + after <= table'[r].tx
  <2>1. /\ gwStep' = gwStep /\ UNCHANGED <<down, nodeVars, sharedVars, members, steady>>
    BY <1>11 DEF GatewayEvent, Raise
  <2>2. after = before /\ after <= before /\ count' = count
    BY <1>3, <1>4, <2>1 DEF DownPending, nodeVars, sharedVars
  <2> QED
    BY <1>4, <1>6, <1>7, <2>1, <2>2
<1>12. CASE ReceiveFromOther \/ Uplink \/ UplinkLost
  <2>1. /\ gwStep' = gwStep /\ UNCHANGED <<down, nodeVars, sharedVars, members, steady>>
    BY <1>12 DEF ReceiveFromOther, Uplink, UplinkLost, GatewayReceives, Raise, gwVars, history
  <2>2. after = before /\ after <= before /\ count' = count
    BY <1>3, <1>4, <2>1 DEF DownPending, nodeVars, sharedVars
  <2> QED
    BY <1>4, <1>6, <1>7, <2>1, <2>2
<1>13. CASE Downlink
  <2>1. Probes(down) = Probes(down') + One(Head(down).kind = "probe")
    BY <1>1, <1>13, ProbesTaken DEF Downlink, CountTypes
  <2>2. /\ nodeFrame' = Head(down) /\ nodeCopy' = nodeCopy /\ nodeStep' = nodeStep
        /\ ~nodeReady /\ nodeStep = "event"
        /\ count' = count /\ UNCHANGED <<gwVars, sharedVars, members, steady>>
    BY <1>13 DEF Downlink, NodeReceives
  <2>3. after <= before
    BY <1>3, <1>4, <1>8, <2>1, <2>2 DEF DownPending, gwVars, sharedVars, One
  <2> QED
    BY <1>4, <1>6, <1>7, <2>2, <2>3
<1>14. CASE DownlinkLost
  <2>1. Probes(down) = Probes(down') + One(Head(down).kind = "probe")
    BY <1>1, <1>14, ProbesTaken DEF DownlinkLost, CountTypes
  <2>2. after <= before /\ count' = count
    BY <1>3, <1>4, <1>8, <1>14, <2>1
       DEF DownlinkLost, DownPending, gwVars, sharedVars, nodeVars, One
  <2> QED
    BY <1>4, <1>6, <1>7, <1>14, <2>2 DEF DownlinkLost, history
<1>15. CASE Beacon
  <2>1. /\ nodeFrame'.kind # "probe" /\ nodeStep = "event" /\ nodeStep' = "event"
        /\ down' = down /\ count' = count /\ UNCHANGED <<gwVars, sharedVars, members, steady>>
    BY <1>15 DEF Beacon, NodeReceives, Frame
  <2>2. after <= before
    BY <1>3, <1>4, <1>8, <2>1 DEF DownPending, gwVars, sharedVars, One
  <2> QED
    BY <1>4, <1>6, <1>7, <2>1, <2>2
<1>16. CASE SessionEvent
  <2>1. /\ ~nodeMail'.probe /\ nodeStep' = nodeStep /\ nodeCopy' = nodeCopy /\ nodeFrame' = nodeFrame
        /\ down' = down /\ count' = count /\ UNCHANGED <<gwVars, sharedVars, members, steady>>
    BY <1>16 DEF SessionEvent, Membership
  <2>2. after <= before
    BY <1>3, <1>4, <1>8, <2>1 DEF DownPending, gwVars, sharedVars, One
  <2> QED
    BY <1>4, <1>6, <1>7, <2>1, <2>2
<1>17. CASE TakeEvent \/ CopyEvent \/ NoEventToHandle \/ NoPacketToSend \/ TakePacket
  <2>1. /\ gwStep' # "send" /\ UNCHANGED <<shared, down, nodeVars, members, steady>>
    BY <1>17 DEF TakeEvent, CopyEvent, NoEventToHandle, NoPacketToSend, TakePacket, GatewayLoop
  <2>2. after <= before /\ count' = count
    BY <1>3, <1>4, <1>8, <2>1 DEF DownPending, nodeVars, One
  <2> QED
    BY <1>4, <1>6, <1>7, <2>1, <2>2
<1>18. CASE HandleEvent
  <2>1. /\ gwStep' = "packet" /\ UNCHANGED <<shared, down, nodeVars>>
    BY <1>18 DEF HandleEvent, GatewayLoop
  <2>2. after <= before /\ count' = count
    BY <1>3, <1>4, <1>8, <2>1 DEF DownPending, nodeVars, One
  <2>3. steady /\ Mine \notin irregular
    BY <1>18 DEF HandleEvent, HandleJoined, HandleLeft, HandlePacket
  <2>4. \A r \in RowsOf(Mine)' : r \in RowsOf(Mine) /\ table'[r].tx = table[r].tx
    BY <1>1, <1>18, <2>3, HandleEventCounts DEF SteadyIsMember
  <2> QED
    BY <1>4, <1>5, <1>6, <2>2, <2>3, <2>4
<1>19. CASE CountPacket
  <2>1. /\ gwStep = "count" /\ gwStep' = "send" /\ UNCHANGED <<shared, down, nodeVars>>
        /\ told' = told /\ irregular' = irregular /\ steady' = steady
    BY <1>19 DEF CountPacket, GatewayLoop
  <2>2. after = before + One(shared.kind = "probe") /\ count' = count
    BY <1>3, <1>4, <1>8, <2>1 DEF DownPending, nodeVars, One
  <2>3. steady /\ Mine \notin irregular /\ Mine \in told
    BY <1>1, <2>1 DEF SteadyIsMember
  <2>4. /\ RowsOf(Mine)' = RowsOf(Mine)
        /\ \A r \in RowsOf(Mine) : table'[r].tx = table[r].tx + One(shared.kind = "probe")
    BY <1>1, <1>19, <2>3, CountPacketCounts
  <2>5. One(shared.kind = "probe") \in 0 .. 1
    BY DEF One
  <2> QED
    BY <1>4, <1>5, <1>6, <2>2, <2>3, <2>4, <2>5
<1>20. CASE SendPacket
  <2>1. /\ gwStep = "send" /\ gwStep' = "event" /\ down' = Added(down, shared)
        /\ count' = count /\ UNCHANGED <<shared, nodeVars, members, steady>>
    BY <1>20 DEF SendPacket, GatewayLoop, nodeVars
  <2>2. Probes(down') <= Probes(down) + One(shared.kind = "probe")
    BY <1>1, <2>1, ProbesAdded DEF CountTypes
  <2>3. after <= before
    BY <1>3, <1>4, <1>8, <2>1, <2>2 DEF DownPending, nodeVars, One
  <2> QED
    BY <1>4, <1>6, <1>7, <2>1, <2>3
<1>21. CASE NodeTakes
  <2>1. /\ nodeStep = "event" /\ nodeStep' = "copy" /\ nodeReady /\ ~nodeReady'
        /\ UNCHANGED <<gwVars, sharedVars, down, nodeMail, nodeFrame, count, members, steady>>
    BY <1>21 DEF NodeTakes, NodeLoop, history
  <2>2. after <= before
    BY <1>3, <1>4, <1>8, <2>1 DEF DownPending, gwVars, sharedVars, One
  <2> QED
    BY <1>4, <1>6, <1>7, <2>1, <2>2
<1>22. CASE NodeCopies
  <2>1. /\ nodeStep = "copy" /\ nodeStep' = "test" /\ ~nodeReady /\ ~nodeReady' /\ nodeCopy' = nodeMail
        /\ UNCHANGED <<gwVars, sharedVars, down, nodeMail, nodeFrame, count, members, steady>>
    BY <1>1, <1>22 DEF NodeCopies, NodeLoop, history, CopiedInTime
  <2>2. after <= before
    BY <1>3, <1>4, <1>8, <2>1 DEF DownPending, gwVars, sharedVars, One
  <2> QED
    BY <1>4, <1>6, <1>7, <2>1, <2>2
<1>23. CASE NodeTests
  <2>1. /\ nodeStep = "test"
        /\ nodeStep' = IF nodeCopy.probe /\ nodeFrame.kind = "probe" THEN "edit" ELSE "event"
        /\ UNCHANGED <<gwVars, sharedVars, down, nodeReady, nodeMail, nodeFrame, count, members, steady>>
    BY <1>23 DEF NodeTests, NodeLoop, history
  <2>2. after <= before
    BY <1>3, <1>4, <1>8, <2>1 DEF DownPending, gwVars, sharedVars, One
  <2> QED
    BY <1>4, <1>6, <1>7, <2>1, <2>2
<1>24. CASE NodeEdits
  <2>1. /\ nodeStep = "edit" /\ nodeStep' = "answer" /\ count' = count + 1
        /\ UNCHANGED <<gwVars, sharedVars, down, nodeReady, nodeMail, nodeFrame, members, steady>>
    BY <1>24 DEF NodeEdits, NodeLoop, history
  <2>2. after + 1 <= before
    BY <1>3, <1>4, <1>8, <2>1 DEF DownPending, gwVars, sharedVars, One
  <2>3. RowsOf(Mine)' = RowsOf(Mine) /\ table' = table /\ irregular' = irregular /\ steady' = steady
    BY <2>1 DEF members, RowsOf
  <2>4. steady /\ Mine \notin irregular
    BY <2>3
  <2> QED
    BY <1>4, <1>5, <1>6, <2>1, <2>2, <2>3, <2>4
<1>25. CASE NodeAnswers \/ NodeStatus
  <2>1. /\ nodeStep' \in {nodeStep, "event"} /\ nodeCopy' = nodeCopy /\ nodeReady' = nodeReady
        /\ UNCHANGED <<gwVars, sharedVars, down, nodeMail, nodeFrame, count, members, steady>>
    BY <1>25 DEF NodeAnswers, NodeStatus, NodeLoop, history
  <2>2. after <= before
    BY <1>3, <1>4, <1>8, <2>1 DEF DownPending, gwVars, sharedVars, One
  <2> QED
    BY <1>4, <1>6, <1>7, <2>1, <2>2
<1>26. \A r \in RowsOf(Mine)' : count' + after <= table'[r].tx
  BY <1>4, <1>9, <1>10, <1>11, <1>12, <1>13, <1>14, <1>15, <1>16, <1>17, <1>18, <1>19, <1>20, <1>21,
     <1>22, <1>23, <1>24, <1>25 DEF Next, Interrupt, NetworkCore, NodeApp
<1> QED
  BY <1>4, <1>26

\* However long the queues, the table and the run are: as long as each loop is done with a frame
\* when the next one comes, nobody reports more probes received than the other has sent
\* (metrics.c:70-100, 03app_node/main.c:87-97).
THEOREM ProbeCountsWithinSent == Spec => []CountsWithinSent
<1>1. CountInv /\ [Next]_vars => CountInv'
  BY MembersStep, CountTypesStep, MembershipStep, NothingSentStep, CopiedInTimeStep,
     UpwardsStep, DownwardsStep DEF CountInv
<1>2. CountInv => CountsWithinSent
  <2> SUFFICES ASSUME CountInv, ~late, NEW r \in RowsOf(Mine)
               PROVE  /\ table[r].rx <= count
                      /\ steady /\ Mine \notin irregular => count <= table[r].tx
    BY DEF CountsWithinSent
  <2>1. /\ count \in Nat /\ table[r].rx \in Nat /\ table[r].tx \in Nat
        /\ UpPending \in Nat /\ DownPending \in Nat
    BY PendingIsNat DEF CountInv, CountTypes, MemberInv, RowsOf
  <2>2. table[r].rx + UpPending <= count
    BY DEF CountInv, UpwardsCounted
  <2>3. steady /\ Mine \notin irregular => count + DownPending <= table[r].tx
    BY DEF CountInv, DownwardsCounted
  <2> QED
    BY <2>1, <2>2, <2>3
<1> QED
  BY CountInit, <1>1, <1>2, PTL DEF Spec
=============================================================================
