---------------------------- MODULE GatewayBloom ----------------------------
(***************************************************************************)
(* The Bloom filter of joined nodes at the gateway (mari/bloom.c): main    *)
(* loop steps that rebuild it, preempted at any point by the interrupt     *)
(* handlers of GatewayAssoc, which change the cells the rebuild walks over *)
(* and copy the filter into beacons (mari/packet.c).                       *)
(*                                                                         *)
(* The filter is a set of bit positions; the two hashes of a node are      *)
(* represented by the set of positions they select, BloomBits[n].          *)
(* bloom_vars.is_available is written by the code and read nowhere: it is  *)
(* not modelled.                                                           *)
(***************************************************************************)
EXTENDS GatewayAssoc

CONSTANTS
    Bit,         \* 0 .. MARI_BLOOM_M_BITS - 1
    BloomBits    \* BloomBits[n]: the positions computed from h1 and h2 of n

ASSUME BloomAssumption == BloomBits \in [Node -> (SUBSET Bit) \ {{}}]

Idle == -1

VARIABLES
    filter,    \* bloom_vars.bloom
    at,        \* the cell index of the running rebuild, Idle outside of it
    onAir,     \* the filter in the last beacon built
    raced      \* history: a cell changed hands during the last rebuild

bloomVars == <<filter, at, onAir, raced>>

BitsOf(cells) == UNION {BloomBits[assigned[c]] : c \in cells \ FreeCells}
Wanted == BitsOf(Uplink)

BloomInit ==
    /\ Init
    /\ filter = {}
    /\ at = Idle
    /\ onAir = {}
    /\ raced = FALSE

\* A handler preempts the main loop, which will go on where it was.
Preempt ==
    /\ raced' = (raced \/ (at # Idle /\ assigned' # assigned))
    /\ UNCHANGED <<filter, at>>

\* The beacon built at the start of a slot copies the filter as it is.
SlotInterrupt ==
    /\ \/ BeaconSlot /\ onAir' = filter
       \/ (DownlinkSlot \/ ListenSlot) /\ UNCHANGED onAir
    /\ Preempt

RxInterrupt == RxFrame /\ UNCHANGED onAir /\ Preempt

\* Mutant of StartRebuild: the filter is not cleared.
StartWithoutClearing ==
    /\ at = Idle
    /\ dirty
    /\ at' = 0
    /\ raced' = FALSE
    /\ UNCHANGED <<vars, onAir, filter>>

\* mari_event_loop finds the flag set: the filter is cleared first.
StartRebuild ==
    /\ at = Idle
    /\ dirty
    /\ filter' = {}
    /\ at' = 0
    /\ raced' = FALSE
    /\ UNCHANGED <<vars, onAir>>

\* One iteration of the loop over the cells.
AddCell ==
    /\ at \in Cell
    /\ filter' = filter \cup BitsOf({at} \cap Uplink)
    /\ at' = at + 1
    /\ UNCHANGED <<vars, onAir, raced>>

\* The flag is cleared last, whatever was marked dirty in between.
FinishRebuild ==
    /\ at = NCells
    /\ dirty' = FALSE
    /\ at' = Idle
    /\ UNCHANGED <<cellVars, current, radio, joinPacket, frame, history>>
    /\ UNCHANGED <<filter, onAir, raced>>

EventLoop == StartRebuild \/ AddCell \/ FinishRebuild

BloomNext == SlotInterrupt \/ RxInterrupt \/ EventLoop

\* The main loop of the gateway application keeps calling mari_event_loop, and
\* the handlers of a slot leave it time to run.
BloomSafety == BloomInit /\ [][BloomNext]_<<vars, bloomVars>>
BloomSpec ==
    /\ BloomSafety
    /\ WF_<<vars, bloomVars>>(SlotInterrupt)
    /\ WF_<<vars, bloomVars>>(EventLoop)

-----------------------------------------------------------------------------
\* A clean filter holds exactly the joined nodes, provided no cell changed hands
\* while it was being rebuilt (bloom.c: rebuild, then clear the flag).
CurrentUnlessRaced ==
    at = Idle /\ ~dirty /\ ~raced => filter = Wanted

\* A node that has lost its cell finds out from the beacons (association.c: "node no
\* longer joined to this gateway"): they stop listing it, or it joins again, unless
\* its bits are those of members or another change happens during the rebuild.
Mistaken(n) == BloomBits[n] \subseteq Wanted
EvictedLeaveBeacons ==
    \A n \in Node :
        n \notin Members ~> (n \in Members \/ Mistaken(n) \/ raced \/ ~(BloomBits[n] \subseteq onAir))

\* mari.c says the dirty flag "will trigger the event loop to compute the bloom
\* filter": once the flag is down again, the filter holds the joined nodes.
CleanMeansCurrent ==
    at = Idle /\ ~dirty => filter = Wanted
=============================================================================
