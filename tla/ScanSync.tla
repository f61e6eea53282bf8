------------------------------ MODULE ScanSync ------------------------------
(***************************************************************************)
(* The scan list of a node (mari/scan.c) and what it is for: at the end of *)
(* a scan (mac.c) the node selects the strongest gateway it has heard and  *)
(* works out the slot that gateway is in.                                  *)
(*                                                                         *)
(* `time' is real; the node reads a clock that wraps.  A gateway starts a  *)
(* slot every SlotTime and may send a beacon in it, which is stamped       *)
(* Correction later and carries the number of the next slot.               *)
(* One channel is used for beacons (MARI_FIXED_SCAN_CHANNEL), so that a    *)
(* gateway has one reading and an average is of one reading.  Whether the  *)
(* node moves to the gateway it has selected is the subject of NodeMac.    *)
(***************************************************************************)
EXTENDS SlotTiming, FiniteSets

CONSTANTS
    Gateway,
    NoReading,
    Rssi,        \* signal strengths, integers
    Phase,       \* Phase[g]: when slot 0 of gateway g starts
    OwnAsn,      \* the numbers the node's own slots may have
    ListSize,    \* MARI_MAX_SCAN_LIST_SIZE
    Period,      \* 2^32: the period of the clock
    Old,         \* MARI_SCAN_OLD_US
    ScanMax,     \* MARI_SCAN_MAX_DURATION
    MaxTime      \* bounds the model

\* One reading of a gateway: mr_channel_info_t.  `at' is when the beacon was stamped, which the
\* code does not keep.
Reading == [gateway : Gateway, rssi : Rssi, stamp : Nat, asn : Int, at : Nat]

\* mr_scan_select looks for a signal stronger than INT8_MIN; the radio reports no weaker one.
ASSUME ScanAssumption ==
    /\ IsFiniteSet(Gateway)
    /\ Rssi \subseteq -127 .. 127
    /\ NoReading \notin Reading \cup Rssi
    /\ ListSize \in Nat \ {0}
    /\ ScanMax \in Nat /\ Old \in Nat /\ Period \in Nat
    /\ ScanMax < Old /\ Old < Period
    /\ OwnAsn \subseteq Nat
    /\ \A g \in Gateway : Phase[g] \in Nat

VARIABLES
    time,
    scans,       \* scan_vars.scans: a reading per place
    scanning,    \* is_scanning or is_bg_scanning
    started,     \* when the last scan started, in real time: scan_started_ts is Clock(started)
    selected,    \* the reading selected by a scan that has just ended
    asn,         \* mac_vars.asn as set then, to be used from the first slot on
    dispatch,    \* when the timer set then fires, in real time
    heard,       \* history: how strong each gateway was last heard in this scan, if at all
    dated        \* history: when the scan started the stamps of all readings were in order

scanVars == <<time, scans, scanning, started, selected, asn, dispatch, heard, dated>>

Place == 1 .. ListSize
Clock(t) == t % Period
Now == Clock(time)

ScanInit ==
    /\ time = 1
    /\ scans = [i \in Place |-> NoReading]
    /\ scanning = FALSE
    /\ started = 0
    /\ selected = NoReading
    /\ asn = 0
    /\ dispatch = 0
    /\ heard = [g \in Gateway |-> NoReading]
    /\ dated = FALSE

\* The gateway's slot at a time, and whether a beacon of it is stamped at that time.
SlotAt(g, t) == (t - Phase[g]) \div SlotTime
BeaconAt(g, t) == t >= Phase[g] + Correction /\ (t - Phase[g]) % SlotTime = Correction

\* A scan ends at the latest after ScanMax.
Tick ==
    /\ time < MaxTime
    /\ scanning => time < started + ScanMax
    /\ time' = time + 1
    /\ selected' = NoReading /\ asn' = 0 /\ dispatch' = 0
    /\ UNCHANGED <<scans, scanning, started, heard, dated>>

\* The stamp of a reading is the time it was heard, since the clock last wrapped.
InOrder(r) == r.stamp = Clock(r.at) /\ r.at \div Period = time \div Period

BeginScan ==
    /\ scanning' = TRUE
    /\ started' = time
    /\ heard' = [g \in Gateway |-> NoReading]
    /\ dated' = \A i \in Place : scans[i] # NoReading => InOrder(scans[i])

StartScan ==
    /\ ~scanning
    /\ BeginScan
    /\ UNCHANGED <<time, scans, selected, asn, dispatch>>

\* Mutant of PlaceFor: a full list loses its first reading.
PlaceForFirst(g, stamp) ==
    LET same == {i \in Place : scans[i] # NoReading /\ scans[i].gateway = g}
        free == {i \in Place : scans[i] = NoReading}
    IN  IF same # {} THEN same ELSE IF free # {} THEN free ELSE {1}

\* The place for a reading: the gateway's own, a free one, or that of the oldest reading,
\* by its stamp (the first place if none is older than the new reading).
PlaceFor(g, stamp) ==
    LET same == {i \in Place : scans[i] # NoReading /\ scans[i].gateway = g}
        free == {i \in Place : scans[i] = NoReading}
        oldest == {i \in Place : scans[i].stamp < stamp
                                  /\ \A j \in Place : scans[i].stamp <= scans[j].stamp}
    IN  CASE same # {} -> same
          [] same = {} /\ free # {} -> free
          [] same = {} /\ free = {} /\ oldest # {} -> oldest
          [] OTHER -> {1}

FirstOf(S) == CHOOSE i \in S : \A j \in S : i <= j

\* mr_scan_add
ScanAdd(g, rssi, stamp) ==
    LET reading == [gateway |-> g, rssi |-> rssi, stamp |-> stamp,
                    asn |-> SlotAt(g, time) + 1, at |-> time]
    IN  /\ scans' = [scans EXCEPT ![FirstOf(PlaceFor(g, stamp))] = reading]
        /\ heard' = [heard EXCEPT ![g] = IF scanning THEN rssi ELSE NoReading]

\* The radio receives one frame at a time.
ReceiverIsFree == \A i \in Place : scans[i] # NoReading => scans[i].at < time

\* A beacon heard in a scan.
HearInScan(g, rssi) ==
    /\ scanning
    /\ BeaconAt(g, time) /\ ReceiverIsFree
    /\ ScanAdd(g, rssi, Now)
    /\ UNCHANGED <<time, scanning, started, selected, asn, dispatch, dated>>

\* A beacon heard in a slot is stamped with the number of the node's slot (mari.c), which
\* is that of another gateway when the node is synchronised to another.
HearInSlot(g, rssi, own) ==
    /\ ~scanning
    /\ BeaconAt(g, time) /\ ReceiverIsFree
    /\ ScanAdd(g, rssi, own)
    /\ UNCHANGED <<time, scanning, started, selected, asn, dispatch, dated>>

\* The readings mr_scan_select considers.
Usable(r) ==
    /\ r # NoReading
    /\ r.stamp # 0
    /\ r.stamp >= Clock(started)
    /\ (Now - r.stamp) % Period <= Old

Best ==
    LET usable == {i \in Place : Usable(scans[i])}
    IN  {i \in usable : \A j \in usable : scans[j].rssi <= scans[i].rssi}

EndScanSelect ==
    /\ scanning
    /\ Best # {}
    /\ LET r == scans[FirstOf(Best)]
           elapsed == (Now - r.stamp) % Period
       IN  /\ selected' = r
           /\ asn' = r.asn + AsnCount(elapsed)
           /\ dispatch' = time + DispatchDelay(elapsed)
    /\ scanning' = FALSE
    /\ UNCHANGED <<time, scans, started, heard, dated>>

\* Without a reading to select, a full scan starts again and a background scan is over.
EndScanNothing ==
    /\ scanning
    /\ Best = {}
    /\ selected' = NoReading
    /\ \/ BeginScan
       \/ scanning' = FALSE /\ UNCHANGED <<started, heard, dated>>
    /\ UNCHANGED <<time, scans, asn, dispatch>>

Hear == \E g \in Gateway, rssi \in Rssi :
            HearInScan(g, rssi) \/ \E own \in OwnAsn : HearInSlot(g, rssi, own)
ScanNext == Tick \/ StartScan \/ Hear \/ EndScanSelect \/ EndScanNothing
ScanSpec == ScanInit /\ [][ScanNext]_scanVars

-----------------------------------------------------------------------------
SelectionStep == scanning /\ ~scanning'

\* The node agrees with the gateway it selects on where slots start and how they are
\* numbered, when its first slot comes; unless the reading was stamped in a slot or is a
\* period of the clock old (mac.c, "set the asn to match the gateway's").
AsnMatchesUnlessMisdated ==
    [][SelectionStep /\ selected' # NoReading
        => LET r == selected'
           IN  r.stamp = Clock(r.at) /\ time - r.at < Period
                => /\ (dispatch' - Phase[r.gateway]) % SlotTime = 0
                   /\ asn' = SlotAt(r.gateway, dispatch' + SlotTime)]_scanVars

\* A scan selects a gateway heard in it, and none was stronger; unless the clock wraps
\* in it, or stamps were out of order before it, or it has heard more gateways than the
\* list has places (scan.c).
HeardGateways == {g \in Gateway : heard[g] # NoReading}
Calm == /\ dated
        /\ Clock(started) # 0 /\ started \div Period = time \div Period
        /\ Cardinality(HeardGateways) <= ListSize
StrongestSelected ==
    [][SelectionStep /\ Calm /\ HeardGateways # {}
        => /\ selected' # NoReading /\ selected'.at >= started
           /\ \A g \in HeardGateways : selected'.rssi >= heard[g]]_scanVars
=============================================================================
