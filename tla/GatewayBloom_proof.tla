------------------------- MODULE GatewayBloom_proof -------------------------
(***************************************************************************)
(* Proofs about GatewayBloom: preempting the main loop at any point adds   *)
(* no behaviour to GatewayAssoc, and the rebuild of the Bloom filter is    *)
(* right unless a cell changes hands while it runs.                        *)
(***************************************************************************)
EXTENDS GatewayBloom, GatewayAssoc_proof

bloomAll == <<vars, bloomVars>>

-----------------------------------------------------------------------------
(* Every step of the interleaved system is a step of GatewayAssoc or leaves *)
(* its variables alone.                                                     *)

LEMMA RebuildSafe ==
    ASSUME at = NCells => dirty, [BloomNext]_bloomAll
    PROVE  [Next]_vars
<1>1. CASE SlotInterrupt
  BY <1>1 DEF SlotInterrupt, Next, NewSlot
<1>2. CASE RxInterrupt
  BY <1>2 DEF RxInterrupt, Next
<1>3. CASE StartRebuild \/ AddCell
  BY <1>3 DEF StartRebuild, AddCell
<1>4. CASE FinishRebuild
  BY <1>4 DEF FinishRebuild, Next, BloomSetClean
<1>5. CASE UNCHANGED bloomAll
  BY <1>5 DEF bloomAll
<1> QED
  BY <1>1, <1>2, <1>3, <1>4, <1>5 DEF BloomNext, EventLoop

-----------------------------------------------------------------------------
(* The rebuild.                                                            *)

\* The filter holds the cells before index at, unless the rebuild is raced; the
\* flag stays up during a rebuild, and a clean filter is complete.
RebuildInv ==
    /\ at \in Idle .. NCells
    /\ at # Idle => dirty
    /\ at # Idle /\ ~raced => filter = BitsOf({c \in Uplink : c < at})
    /\ at = Idle /\ ~dirty /\ ~raced => filter = Wanted

LEMMA NCellsFact ==
    /\ NCells \in Nat \ {0}
    /\ \A c \in Uplink : c \in Nat /\ c < NCells
<1>1. NCells \in Nat \ {0}
  BY ScheduleAssumption
<1> QED
  BY <1>1 DEF Uplink, Cell

LEMMA PreemptKeepsRebuild ==
    ASSUME RebuildInv, dirty \in BOOLEAN, raced \in BOOLEAN,
           assigned \in [Uplink -> Node \cup {NoNode}],
           NewSlot \/ RxFrame, Preempt
    PROVE  RebuildInv' /\ raced' \in BOOLEAN /\ dirty' \in BOOLEAN
<1>1. /\ raced' = (raced \/ (at # Idle /\ assigned' # assigned))
      /\ filter' = filter /\ at' = at
  BY DEF Preempt
<1>2. /\ dirty' \in BOOLEAN /\ (dirty => dirty')
      /\ dirty' \/ assigned' = assigned
  BY HandlerMarksDirty
<1>3. CASE assigned' = assigned
  <2>1. /\ Wanted' = Wanted
        /\ BitsOf({c \in Uplink : c < at})' = BitsOf({c \in Uplink : c < at})
    BY <1>1, <1>3 DEF Wanted, BitsOf, FreeCells, CellsOf
  <2> QED
    BY <1>1, <1>2, <2>1 DEF RebuildInv
<1>4. CASE assigned' # assigned
  BY <1>1, <1>2, <1>4 DEF RebuildInv
<1> QED
  BY <1>3, <1>4

LEMMA AddCellStep ==
    ASSUME RebuildInv, raced \in BOOLEAN, AddCell
    PROVE  RebuildInv'
<1>1. /\ at \in Cell /\ at' = at + 1 /\ raced' = raced
      /\ filter' = filter \cup BitsOf({at} \cap Uplink)
      /\ assigned' = assigned /\ dirty' = dirty
  BY DEF AddCell, vars, cellVars
<1>2. /\ at \in Nat /\ at # Idle /\ at < NCells
      /\ at' \in Idle .. NCells /\ at' # Idle
  BY <1>1, NCellsFact DEF Cell, Idle
<1>3. {c \in Uplink : c < at} \cup ({at} \cap Uplink) = {c \in Uplink : c < at + 1}
  <2>1. ASSUME NEW c \in Uplink PROVE c < at \/ c = at <=> c < at + 1
    BY <1>2, NCellsFact
  <2> QED
    BY <2>1
<1>4. ASSUME NEW S, NEW T PROVE BitsOf(S) \cup BitsOf(T) = BitsOf(S \cup T)
  BY Zenon DEF BitsOf
<1>5. ~raced => filter' = BitsOf({c \in Uplink : c < at + 1})
  BY <1>1, <1>2, <1>3, <1>4 DEF RebuildInv
<1>6. BitsOf({c \in Uplink : c < at})' = BitsOf({c \in Uplink : c < at + 1})
  BY <1>1 DEF BitsOf, FreeCells, CellsOf
<1> QED
  BY <1>1, <1>2, <1>5, <1>6 DEF RebuildInv

LEMMA FinishStep ==
    ASSUME RebuildInv, FinishRebuild
    PROVE  RebuildInv'
<1>1. /\ at = NCells /\ at' = Idle /\ raced' = raced
      /\ filter' = filter /\ assigned' = assigned
  BY DEF FinishRebuild, cellVars
<1>2. {c \in Uplink : c < NCells} = Uplink
  BY NCellsFact
<1>3. NCells # Idle /\ Idle \in Idle .. NCells
  BY NCellsFact DEF Idle
<1>4. ~raced => filter' = Wanted
  BY <1>1, <1>2, <1>3 DEF RebuildInv, Wanted
<1>5. Wanted' = Wanted
  BY <1>1 DEF Wanted, BitsOf, FreeCells, CellsOf
<1> QED
  BY <1>1, <1>3, <1>4, <1>5 DEF RebuildInv

LEMMA StartStep ==
    ASSUME RebuildInv, StartRebuild
    PROVE  RebuildInv'
<1>1. /\ at' = 0 /\ filter' = {} /\ dirty' /\ assigned' = assigned
  BY DEF StartRebuild, vars, cellVars
<1>2. {c \in Uplink : c < 0} = {}
  <2>1. ASSUME NEW c \in Uplink PROVE ~(c < 0)
    BY NCellsFact
  <2> QED
    BY <2>1
<1>3. BitsOf({c \in Uplink : c < at})' = {}
  BY <1>1, <1>2 DEF BitsOf
<1>4. 0 \in Idle .. NCells /\ 0 # Idle
  BY NCellsFact DEF Idle
<1> QED
  BY <1>1, <1>3, <1>4 DEF RebuildInv

-----------------------------------------------------------------------------
\* The types the argument needs, kept here so that the proof stands by itself.
BloomTypes ==
    /\ dirty \in BOOLEAN
    /\ raced \in BOOLEAN
    /\ assigned \in [Uplink -> Node \cup {NoNode}]

LEMMA BloomTypesStep ==
    ASSUME BloomTypes, RebuildInv, [BloomNext]_bloomAll
    PROVE  BloomTypes' /\ RebuildInv'
<1>1. ASSUME NewSlot \/ RxFrame PROVE assigned' \in [Uplink -> Node \cup {NoNode}]
  <2>1. CASE NewSlot
    BY <2>1 DEF BloomTypes, NewSlot, BeaconSlot, DownlinkSlot, ListenSlot,
                StartCell, ClearOldNodes
  <2>2. ASSUME NEW n \in Node, RxJoinRequest(n)
        PROVE  assigned' \in [Uplink -> Node \cup {NoNode}]
    BY <2>2 DEF BloomTypes, RxJoinRequest, Fitting
  <2>3. ASSUME NEW n \in Node, RxJoinRequestFull(n) \/ RxFromJoined(n)
        PROVE  assigned' = assigned
    BY <2>3 DEF RxJoinRequestFull, RxFromJoined, KeepNodeAlive, cellVars
  <2>4. RxIgnored => assigned' = assigned
    BY DEF RxIgnored, cellVars
  <2> QED
    BY <1>1, <2>1, <2>2, <2>3, <2>4 DEF RxFrame, BloomTypes
<1>2. CASE SlotInterrupt \/ RxInterrupt
  <2>1. (NewSlot \/ RxFrame) /\ Preempt
    BY <1>2 DEF SlotInterrupt, RxInterrupt, NewSlot
  <2> QED
    BY <1>1, <2>1, PreemptKeepsRebuild DEF BloomTypes
<1>3. CASE StartRebuild
  BY <1>3, StartStep DEF StartRebuild, BloomTypes, vars, cellVars
<1>4. CASE AddCell
  BY <1>4, AddCellStep DEF AddCell, BloomTypes, vars, cellVars
<1>5. CASE FinishRebuild
  BY <1>5, FinishStep DEF FinishRebuild, BloomTypes, cellVars
<1>6. CASE UNCHANGED bloomAll
  BY <1>6 DEF bloomAll, bloomVars, vars, cellVars, BloomTypes, RebuildInv,
              Wanted, BitsOf, FreeCells, CellsOf
<1> QED
  BY <1>2, <1>3, <1>4, <1>5, <1>6 DEF BloomNext, EventLoop

LEMMA BloomStart == BloomInit => BloomTypes /\ RebuildInv
<1> SUFFICES ASSUME BloomInit PROVE BloomTypes /\ RebuildInv
  OBVIOUS
<1>1. BloomTypes
  BY DEF BloomInit, Init, BloomTypes
<1>2. Wanted = {}
  BY DEF BloomInit, Init, Wanted, BitsOf, FreeCells, CellsOf
<1>3. Idle \in Idle .. NCells
  BY NCellsFact DEF Idle
<1> QED
  BY <1>1, <1>2, <1>3 DEF BloomInit, RebuildInv

LEMMA RebuildAlways == BloomSafety => [](BloomTypes /\ RebuildInv)
<1>1. BloomTypes /\ RebuildInv /\ [BloomNext]_bloomAll
        => (BloomTypes /\ RebuildInv)'
  BY BloomTypesStep
<1> QED
  BY <1>1, BloomStart, PTL DEF BloomSafety, bloomAll

\* A clean Bloom filter holds exactly the joined nodes unless a cell changed
\* hands while it was being rebuilt.
THEOREM FilterCorrect == BloomSafety => []CurrentUnlessRaced
<1>1. RebuildInv => CurrentUnlessRaced
  BY DEF RebuildInv, CurrentUnlessRaced
<1> QED
  BY <1>1, RebuildAlways, PTL

\* The interleaved gateway implements GatewayAssoc, so what is proved of
\* GatewayAssoc holds with the main loop running.
THEOREM InterleavingSafe == BloomSafety => Safety
<1>1. RebuildInv => (at = NCells => dirty)
  BY NCellsFact DEF RebuildInv, Idle
<1>2. (at = NCells => dirty) /\ [BloomNext]_bloomAll => [Next]_vars
  BY RebuildSafe
<1>3. BloomInit => Init
  BY DEF BloomInit
<1> QED
  BY <1>1, <1>2, <1>3, RebuildAlways, PTL DEF BloomSafety, Safety, bloomAll
=============================================================================
