------------------------------ MODULE NodeMac ------------------------------
(***************************************************************************)
(* A node: its MAC state machine (mari/mac.c), the node half of the        *)
(* association module (mari/association.c), of the scheduler               *)
(* (mari/scheduler.c) and of the packet handler (mari/mari.c), and the     *)
(* join packet of its queue (mari/queue.c).                                *)
(*                                                                         *)
(* Every action is one handler: a compare interrupt of the high-frequency  *)
(* timer or a start, end or corrupt-frame interrupt of the radio.  What    *)
(* arrives, from which gateway, is up to the environment.  The 32-bit      *)
(* microsecond clock is represented by the order in which the timers of a  *)
(* slot fire, the ASN by the cell it selects, and differences of           *)
(* timestamps by what the code compares them with.                         *)
(***************************************************************************)
EXTENDS Integers, FiniteSets

CONSTANTS
    Gateway,             \* the gateways in range
    NoGateway,           \* synced_gateway = 0
    Schedule,            \* the schedules of all_schedules.c
    NoSchedule,          \* an active_schedule_id the node does not have
    ScheduleOf,          \* ScheduleOf[g]: the schedule of g, or NoSchedule
    NCells,              \* NCells[s]: schedule_t.n_cells
    CellType,            \* CellType[s][c]: type of each cell of s
    MaxSlotframesNoRx,   \* MARI_MAX_SLOTFRAMES_NO_RX_LEAVE
    BackoffNMin,         \* MARI_BACKOFF_N_MIN
    BackoffNMax          \* MARI_BACKOFF_N_MAX

CellsIn(s) == 0 .. NCells[s] - 1

ASSUME NodeAssumption ==
    /\ NoGateway \notin Gateway
    /\ NoSchedule \notin Schedule
    /\ ScheduleOf \in [Gateway -> Schedule \cup {NoSchedule}]
    /\ NCells \in [Schedule -> 1 .. 149]
    /\ \A s \in Schedule : CellType[s] \in [CellsIn(s) -> {"B", "S", "D", "U"}]
    /\ MaxSlotframesNoRx \in Nat \ {0}
    /\ BackoffNMin \in Nat
    /\ BackoffNMax \in Nat
    /\ BackoffNMin <= BackoffNMax

VARIABLES
    assoc,       \* assoc_vars.state
    gateway,     \* mac_vars.synced_gateway
    settled,     \* 5 s have passed since synced_ts
    active,      \* active_schedule_ptr
    next,        \* asn % n_cells, the cell of the next slot
    own,         \* own[s]: cells of s whose assigned_node_id is this node
    phase,       \* mac_vars.state
    radio,       \* "off", "rx", "busy" (a frame is arriving) or "tx"
    timer,       \* what the inter-slot timer will call: "endScan", "newSlot", "farSlot"
    aux,         \* what timer channel 1 will call outside of slots: "endBg", "dispatch"
    rearm,       \* timer channel 2 will call mr_radio_rx
    scanning,    \* is_scanning
    heard,       \* gateways with a reading in the scan list since scan_started_ts
    bg,          \* is_bg_scanning
    bgNext,      \* bg_scan_sleep_next_slot
    fullLeft,    \* slots until full_bg_scan_expected_end_ts, Unset when it is 0
    capacity,    \* synced_gateway_remaining_capacity > 0
    joinPacket,  \* destination of the join request in the queue, or NoGateway
    backoffN,    \* backoff_n
    backoff,     \* backoff_random_time
    patience,    \* slots until join_response_timeout_ts is seen to be over, 0: never
    pending,     \* is_pending_disconnect
    silence,     \* asn - last_received_from_gateway_asn, 0 when not joined
    connected,   \* history: gateway of the last CONNECTED not followed by DISCONNECTED
    granted,     \* history: the cell in the join response of that connection
    drifted      \* history: a drift too high has been met

link == <<gateway, settled, active, next>>
radioVars == <<phase, radio, timer, aux, rearm>>
scanVars == <<scanning, heard>>
bgVars == <<bg, bgNext, fullLeft>>
backoffVars == <<backoffN, backoff>>
joinVars == <<capacity, joinPacket, backoffVars, patience>>
aliveVars == <<pending, silence>>
appVars == <<connected, granted>>
history == <<drifted>>
nodeVars == <<assoc, link, own, radioVars, scanVars, bgVars, joinVars, aliveVars,
              appVars, history>>

Unset == -1
NoCell == -1
Joined == assoc = "joined"
MaxAsnOld == NCells[active] * MaxSlotframesNoRx
NextType == CellType[active][next]

CellAfter(c) == (c + 1) % NCells[active]

\* No uplink of this node, no beacon, no downlink: a cell it does not need.
FreeForScan(c) == \/ CellType[active][c] = "S"
                  \/ CellType[active][c] = "U" /\ c \notin own[active]

\* A uniform draw of [0, 2^n - 1].
Draw(n) == 0 .. 2^n - 1

\* True of all powers of two; stated for the provers, which do not compute them.
ASSUME BackoffsGrow ==
    \A m, n \in BackoffNMin .. BackoffNMax : m <= n => 2^m \in Nat \ {0} /\ 2^m <= 2^n

NodeInit ==
    /\ assoc = "scanning"
    /\ gateway = NoGateway /\ settled = FALSE /\ active = NoSchedule /\ next = 0
    /\ own = [s \in Schedule |-> {}]
    /\ phase = "listen" /\ radio = "rx" /\ timer = "endScan" /\ aux = "none"
    /\ rearm = FALSE
    /\ scanning = TRUE /\ heard = {}
    /\ bg = FALSE /\ bgNext = FALSE /\ fullLeft = Unset
    /\ capacity = FALSE /\ joinPacket = NoGateway
    /\ backoffN = -1 /\ backoff = 0 /\ patience = 0
    /\ pending = "none" /\ silence = 0
    /\ connected = NoGateway /\ granted = NoCell
    /\ drifted = FALSE

-----------------------------------------------------------------------------
\* start_scan
StartScan ==
    /\ assoc' = "scanning"
    /\ phase' = "listen"
    /\ radio' = "rx"
    /\ timer' = "endScan"
    /\ scanning' = TRUE
    /\ heard' = {}

\* node_back_to_scanning: the synced info is cleared first, so that end_slot
\* takes the node to be outside of a slot and cancels no timer.
BackToScanning ==
    /\ StartScan
    /\ gateway' = NoGateway
    /\ settled' = FALSE
    /\ next' = 0
    /\ bg' = FALSE
    /\ fullLeft' = Unset
    /\ UNCHANGED <<active, aux, rearm, bgNext>>

\* mr_assoc_node_reset_backoff
ResetBackoff == backoffN' = -1 /\ backoff' = 0

\* Mutants of Disconnect: no event for the application; the cell is kept.
DisconnectSilently ==
    /\ own' = [own EXCEPT ![active] = {}]
    /\ granted' = NoCell
    /\ silence' = 0
    /\ UNCHANGED connected

DisconnectKeepsCell ==
    /\ connected' = NoGateway
    /\ granted' = NoCell
    /\ silence' = 0
    /\ UNCHANGED own

\* mr_scheduler_node_deassign_myself_from_schedule: the active one, that is.
Deassign == own' = [own EXCEPT ![active] = {}]

\* The association module leaves a gateway: its cells are given up and the
\* application is told.
Disconnect ==
    /\ Deassign
    /\ connected' = NoGateway
    /\ granted' = NoCell
    /\ silence' = 0

\* mr_assoc_node_handle_synced
HandleSynced(g) ==
    /\ assoc' = "synced"
    /\ joinPacket' = g
    /\ backoffN' = BackoffNMin
    /\ backoff' \in Draw(BackoffNMin)

\* sync_to_gateway with a known schedule.  The ASN is the gateway's, so any cell
\* may be next.
SyncTo(g) ==
    /\ ScheduleOf[g] # NoSchedule
    /\ active' = ScheduleOf[g]
    /\ gateway' = g
    /\ settled' = FALSE
    /\ next' \in 0 .. NCells[ScheduleOf[g]] - 1
    /\ aux' = "dispatch"
    /\ HandleSynced(g)

-----------------------------------------------------------------------------
\* end_scan, with the gateway mr_scan_select returns.
EndScanSync(g) ==
    /\ timer = "endScan"
    /\ g \in heard
    /\ SyncTo(g)
    /\ timer' = "none"
    /\ scanning' = FALSE
    /\ heard' = {}
    /\ phase' = "sleep"
    /\ radio' = "off"
    /\ rearm' = FALSE
    /\ UNCHANGED <<own, bgVars, capacity, patience, aliveVars, appVars, drifted>>

\* end_scan that found no gateway, or one with a schedule the node does not have.
EndScanAgain ==
    /\ timer = "endScan"
    /\ heard = {} \/ \E g \in heard : ScheduleOf[g] = NoSchedule
    /\ StartScan
    /\ aux' = "none"
    /\ rearm' = FALSE
    /\ UNCHANGED <<link, own, bgVars, joinVars, aliveVars, appVars, history>>

\* activity_scan_dispatch_new_schedule
Dispatch ==
    /\ aux = "dispatch"
    /\ aux' = "none"
    /\ timer' = "newSlot"
    /\ UNCHANGED <<assoc, link, own, phase, radio, rearm, scanVars, bgVars, joinVars,
                   aliveVars, appVars, history>>

\* Time passes: 5 s since synced_ts.  The difference is computed in 32 bits, so a
\* node that stays joined for 71 minutes sees it start again from 0.
Settle ==
    /\ settled' = ~settled
    /\ gateway # NoGateway
    /\ settled => Joined
    /\ UNCHANGED <<assoc, gateway, active, next, own, radioVars, scanVars, bgVars,
                   joinVars, aliveVars, appVars, history>>

-----------------------------------------------------------------------------
\* new_slot_synced.  The timers of the previous slot have all fired by then.
SlotBoundary == timer = "newSlot" /\ aux = "none" /\ (bg \/ phase = "sleep")

ShouldLeave == Joined /\ (pending # "none" \/ silence > MaxAsnOld)

\* Mutant of TooLongSynced: it does not cover the state "joining".
TooLongOnlySynced == assoc = "synced" /\ settled

TooLongSynced == assoc \in {"synced", "joining"} /\ settled
JoinTimedOut == assoc = "joining" /\ patience = 1

LeaveGateway ==
    /\ SlotBoundary
    /\ ShouldLeave
    /\ pending' = IF pending = "none" THEN "timeout" ELSE pending
    /\ Disconnect
    /\ BackToScanning
    /\ UNCHANGED <<joinVars, history>>

\* The node gives up joining: it has been trying for too long, or its request
\* was not answered and it takes the gateway to be full.
GiveUpJoining ==
    /\ SlotBoundary
    /\ TooLongSynced \/ (JoinTimedOut /\ ~capacity)
    /\ ResetBackoff
    /\ BackToScanning
    /\ patience' = 0
    /\ UNCHANGED <<own, capacity, joinPacket, aliveVars, appVars, history>>

\* mr_assoc_node_handle_failed_join at a gateway that has room: back to "synced",
\* with a longer backoff and a new join request.
LongerBackoffN == IF backoffN = -1 THEN BackoffNMin
                  ELSE IF backoffN < BackoffNMax THEN backoffN + 1 ELSE BackoffNMax
StateNow == IF JoinTimedOut THEN "synced" ELSE assoc

RequestNow == IF JoinTimedOut THEN gateway ELSE joinPacket
BackoffsNow == IF JoinTimedOut THEN Draw(LongerBackoffN) ELSE {backoff}

\* Mutant of StartSlot: the silence of the gateway saturates one slot too early.
StartSlotSaturating(types) ==
    /\ SlotBoundary
    /\ ~ShouldLeave
    /\ ~TooLongSynced
    /\ JoinTimedOut => capacity
    /\ CellType[active][next] \in types
    /\ next' = CellAfter(next)
    /\ silence' = IF Joined /\ silence < MaxAsnOld THEN silence + 1 ELSE silence
    /\ backoffN' = IF JoinTimedOut THEN LongerBackoffN ELSE backoffN
    /\ UNCHANGED <<gateway, settled, active, own, timer, rearm, scanning, capacity,
                   pending, appVars, history>>

\* The slot goes on: asn++, the gateway has been silent for one more slot.
StartSlot(types) ==
    /\ SlotBoundary
    /\ ~ShouldLeave
    /\ ~TooLongSynced
    /\ JoinTimedOut => capacity
    /\ CellType[active][next] \in types
    /\ next' = CellAfter(next)
    /\ silence' = IF Joined THEN silence + 1 ELSE 0
    /\ backoffN' = IF JoinTimedOut THEN LongerBackoffN ELSE backoffN
    /\ UNCHANGED <<gateway, settled, active, own, timer, rearm, scanning, capacity,
                   pending, appVars, history>>

\* What becomes of the attempt to join in a slot that does not start one.
CountDown ==
    /\ assoc' = StateNow
    /\ joinPacket' = RequestNow
    /\ patience' = IF patience > 1 THEN patience - 1
                   ELSE IF JoinTimedOut THEN 0 ELSE patience

FullScanGoesOn == fullLeft' = IF fullLeft > 0 THEN fullLeft - 1 ELSE fullLeft

\* mr_scheduler_tick lowers the backoff in a shared cell, before it is tested.
Ticked(b) == IF b > 0 THEN b - 1 ELSE 0
ReadyToJoin(b) == StateNow = "synced" /\ Ticked(b) = 0

ListenSlot ==
    /\ StartSlot({"B", "D"})
    /\ backoff' \in BackoffsNow
    /\ CountDown
    /\ phase' = "rxOffset"
    /\ FullScanGoesOn
    /\ UNCHANGED <<radio, aux, heard, bg, bgNext>>

\* A cell of its own: data or, MARI_AUTO_UPLINK_KEEPALIVE being set, a keepalive.
UplinkSlot ==
    /\ StartSlot({"U"})
    /\ next \in own[active]
    /\ backoff' \in BackoffsNow
    /\ CountDown
    /\ phase' = "txOffset"
    /\ FullScanGoesOn
    /\ UNCHANGED <<radio, aux, heard, bg, bgNext>>

\* mr_assoc_node_start_joining.  The 32-bit deadline, 1.5 slots away, and the
\* clock may wrap before they are compared: the timeout is then seen one slot
\* early, or never.
StartJoining ==
    /\ assoc' = "joining"
    /\ patience' \in {0, 1, 2}

\* mr_queue_next_packet
JoinSlot ==
    /\ StartSlot({"S"})
    /\ \E b \in BackoffsNow : ReadyToJoin(b)
    /\ backoff' = 0
    /\ StartJoining
    /\ phase' = IF RequestNow = NoGateway THEN "sleep" ELSE "txOffset"
    /\ joinPacket' = NoGateway
    /\ FullScanGoesOn
    /\ UNCHANGED <<radio, aux, heard, bg, bgNext>>

SleepSlot ==
    /\ ~Joined
    /\ \/ /\ StartSlot({"S"})
          /\ \E b \in BackoffsNow : ~ReadyToJoin(b) /\ backoff' = Ticked(b)
       \/ /\ StartSlot({"U"})
          /\ next \notin own[active]
          /\ backoff' \in BackoffsNow
    /\ CountDown
    /\ phase' = "sleep"
    /\ radio' = "off"
    /\ FullScanGoesOn
    /\ UNCHANGED <<aux, heard, bg, bgNext>>

\* Mutant of ScanSlot: it looks at the slot it is in instead of the next one.
ScanSlotLooksAtNow ==
    /\ Joined
    /\ StartSlot({"S", "U"})
    /\ FreeForScan(next)
    /\ bg' = TRUE
    /\ bgNext' = FreeForScan(next)
    /\ aux' = "endBg"
    /\ IF fullLeft = Unset THEN fullLeft' = NCells[active] ELSE FullScanGoesOn
    /\ IF bg
       THEN /\ phase' = IF CellType[active][next] = "S" THEN "txOffset" ELSE phase
            /\ UNCHANGED <<radio, heard>>
       ELSE phase' = "listen" /\ radio' = "rx" /\ heard' = {}
    /\ UNCHANGED <<assoc, joinPacket, backoff, patience>>

\* start_or_continue_background_scan, in a cell a joined node does not need.
ScanSlot ==
    /\ Joined
    /\ StartSlot({"S", "U"})
    /\ FreeForScan(next)
    /\ bg' = TRUE
    /\ bgNext' = FreeForScan(CellAfter(next))
    /\ aux' = "endBg"
    /\ IF fullLeft = Unset THEN fullLeft' = NCells[active] ELSE FullScanGoesOn
    /\ IF bg
       THEN /\ phase' = IF CellType[active][next] = "S" THEN "txOffset" ELSE phase
            /\ UNCHANGED <<radio, heard>>
       ELSE phase' = "listen" /\ radio' = "rx" /\ heard' = {}
    /\ UNCHANGED <<assoc, joinPacket, backoff, patience>>

NewSlot == LeaveGateway \/ GiveUpJoining \/ ListenSlot \/ UplinkSlot \/ JoinSlot
           \/ SleepSlot \/ ScanSlot

-----------------------------------------------------------------------------
\* end_background_scan: the scan continues if the next cell is free, too.
StopBackgroundScan ==
    /\ aux = "endBg"
    /\ ~bgNext
    /\ bg' = FALSE
    /\ phase' = "sleep"
    /\ radio' = "off"
    /\ rearm' = FALSE
    /\ UNCHANGED bgNext

ContinueBackgroundScan ==
    /\ aux = "endBg"
    /\ bgNext
    /\ aux' = "none"
    /\ UNCHANGED <<assoc, link, own, phase, radio, timer, rearm, scanVars, bgVars,
                   joinVars, aliveVars, appVars, history>>

NoHandover ==
    /\ StopBackgroundScan
    /\ aux' = "none"
    /\ heard' = {}
    /\ fullLeft' = IF fullLeft = 0 THEN Unset ELSE fullLeft
    /\ UNCHANGED <<assoc, link, own, timer, scanning, joinVars, aliveVars, appVars,
                   history>>

\* Mutant of HandoverTo: the gateway may be the one the node is joined to.
HandoverToAny(g) ==
    /\ fullLeft = 0
    /\ g \in heard
    /\ settled

\* handle_bg_scan_and_trigger_handover, when g is by far the strongest gateway.
HandoverTo(g) ==
    /\ fullLeft = 0
    /\ g \in heard \ {gateway}
    /\ settled

\* Mutant of Handover: the slot timer of the old gateway stays armed.
HandoverKeepsSlotTimer(g) ==
    /\ HandoverTo(g)
    /\ StopBackgroundScan
    /\ Disconnect
    /\ SyncTo(g)
    /\ heard' = {}
    /\ fullLeft' = Unset
    /\ UNCHANGED <<timer, scanning, capacity, patience, pending, drifted>>

Handover(g) ==
    /\ HandoverTo(g)
    /\ StopBackgroundScan
    /\ Disconnect
    /\ SyncTo(g)
    /\ timer' = "farSlot"
    /\ heard' = {}
    /\ fullLeft' = Unset
    /\ UNCHANGED <<scanning, capacity, patience, pending, drifted>>

HandoverFailed(g) ==
    /\ HandoverTo(g)
    /\ ScheduleOf[g] = NoSchedule
    /\ aux = "endBg" /\ ~bgNext
    /\ Disconnect
    /\ StartScan
    /\ gateway' = NoGateway
    /\ settled' = FALSE
    /\ next' = 0
    /\ bg' = FALSE
    /\ fullLeft' = Unset
    /\ aux' = "none"
    /\ rearm' = FALSE
    /\ UNCHANGED <<active, bgNext, joinVars, pending, history>>

-----------------------------------------------------------------------------
\* The timers inside a slot: ti2, tie1 (or ti3, at the end of the frame), ri2,
\* rie1, rie2.
InSlot == ~scanning /\ ~bg

SlotTimer(from, to, power) ==
    /\ InSlot
    /\ phase = from
    /\ phase' = to
    /\ radio' = power
    /\ UNCHANGED <<assoc, link, own, timer, aux, rearm, scanVars, bgVars, joinVars,
                   aliveVars, appVars, history>>

Ti2 == SlotTimer("txOffset", "txData", "tx")
TxEnds == SlotTimer("txData", "sleep", "off")
Ri2 == SlotTimer("rxOffset", "listen", "rx")
Rie1 == SlotTimer("listen", "sleep", "off")
Rie2 == SlotTimer("rxData", "sleep", "off")

\* The radio goes back to listening a little after a frame of a scan.
RearmRadio ==
    /\ rearm
    /\ rearm' = FALSE
    /\ radio' = IF radio = "off" THEN "rx" ELSE radio
    /\ UNCHANGED <<assoc, link, own, phase, timer, aux, scanVars, bgVars, joinVars,
                   aliveVars, appVars, history>>

-----------------------------------------------------------------------------
\* A frame starts to arrive.
FrameStart ==
    /\ radio = "rx"
    /\ radio' = "busy"
    /\ phase' = IF InSlot /\ phase # "listen" THEN phase ELSE "rxData"
    /\ UNCHANGED <<assoc, link, own, timer, aux, rearm, scanVars, bgVars, joinVars,
                   aliveVars, appVars, history>>

\* Wrong checksum: the MAC is not called; the radio is off, nobody restarts it.  A
\* frame lasts longer than the 20 us after which a pending rearm fires.
FrameCorrupt ==
    /\ radio = "busy"
    /\ ~rearm
    /\ radio' = "off"
    /\ UNCHANGED <<assoc, link, own, phase, timer, aux, rearm, scanVars, bgVars,
                   joinVars, aliveVars, appVars, history>>

\* mr_assoc_handle_beacon, for a beacon of g that announces room or not and lists
\* this node in its Bloom filter or not.
Evicted(g, listed) == g = gateway /\ Joined /\ ~listed
HandleBeacon(g, roomy, listed) ==
    /\ pending' = IF Evicted(g, listed) THEN "bloom" ELSE pending
    /\ silence' = IF g = gateway /\ Joined /\ listed THEN 0 ELSE silence
    /\ IF /\ g = gateway
          /\ assoc \in {"synced", "joining", "joined"}
          /\ ~Evicted(g, listed)
       THEN capacity' = roomy
       ELSE UNCHANGED capacity

\* activity_scan_end_frame: listen again, unless the scan is about to end.
ScanFrame ==
    /\ radio = "busy"
    /\ ~rearm
    /\ ~InSlot
    /\ radio' = "off"
    /\ \/ /\ scanning \/ (Joined /\ bg /\ bgNext)
          /\ phase' = "listen"
          /\ rearm' = TRUE
       \/ /\ ~(Joined /\ bg /\ bgNext)
          /\ phase' = "sleep"
          /\ UNCHANGED rearm
    /\ UNCHANGED <<assoc, link, own, timer, aux, scanning, bgVars, joinPacket,
                   backoffVars, patience, appVars, drifted>>

ScanBeacon(g, roomy, listed) ==
    /\ ScanFrame
    /\ HandleBeacon(g, roomy, listed)
    /\ heard' = IF roomy /\ ~Evicted(g, listed) THEN heard \cup {g} ELSE heard

ScanOther == ScanFrame /\ UNCHANGED <<capacity, aliveVars, heard>>

\* activity_ri4, the end of a frame in a slot.
SlotFrame ==
    /\ radio = "busy"
    /\ InSlot
    /\ phase = "rxData"
    /\ radio' = "off"
    /\ UNCHANGED <<link, aux, rearm, bg, bgNext>>

SlotGoesOn ==
    /\ SlotFrame
    /\ phase' = "sleep"
    /\ UNCHANGED <<timer, scanVars, fullLeft, drifted>>

\* The beacon goes to the scan list with the ASN for a timestamp: as far as the
\* next scan can tell, it has not been heard.
RxBeacon(g, roomy, listed) ==
    /\ SlotGoesOn
    /\ HandleBeacon(g, roomy, listed)
    /\ UNCHANGED <<assoc, own, joinPacket, backoffVars, patience, appVars>>

\* mr_scheduler_node_assign_myself_to_cell
AssignMyself(c) ==
    /\ CellType[active][c] = "U"
    /\ own' = [own EXCEPT ![active] = @ \cup {c}]
    /\ granted' = c

\* mr_assoc_node_handle_joined
HandleJoined ==
    /\ assoc' = "joined"
    /\ joinPacket' = NoGateway
    /\ connected' = gateway
    /\ pending' = "none"
    /\ silence' = 0
    /\ patience' = 0
    /\ ResetBackoff

RxJoinResponse(c) ==
    /\ SlotGoesOn
    /\ assoc = "joining"
    /\ AssignMyself(c)
    /\ HandleJoined
    /\ UNCHANGED capacity

\* Data or a keepalive of the gateway the node has joined.
RxFromGateway ==
    /\ SlotGoesOn
    /\ Joined
    /\ silence' = 0
    /\ UNCHANGED <<assoc, own, joinVars, pending, appVars>>

RxOther ==
    /\ SlotGoesOn
    /\ UNCHANGED <<assoc, own, joinVars, aliveVars, appVars>>

\* fix_drift, on a frame of the gateway that came too early or too late.  The scan
\* is started in the middle of activity_ri4, which then ends the slot: the synced
\* info is still there, so end_slot switches the radio off.  The node keeps its
\* cell.  A background scan round will be over by the end of this long scan.
RxDrifted ==
    /\ SlotFrame
    /\ Joined
    /\ connected' = NoGateway
    /\ granted' = NoCell
    /\ silence' = 0
    /\ assoc' = "scanning"
    /\ timer' = "endScan"
    /\ scanning' = TRUE
    /\ heard' = {}
    /\ phase' = "listen"
    /\ fullLeft' = IF fullLeft = Unset THEN Unset ELSE 0
    /\ drifted' = TRUE
    /\ UNCHANGED <<own, joinVars, pending>>

RxFrame ==
    \/ FrameStart \/ FrameCorrupt
    \/ \E g \in Gateway, roomy, listed \in BOOLEAN :
          ScanBeacon(g, roomy, listed) \/ RxBeacon(g, roomy, listed)
    \/ ScanOther \/ RxFromGateway \/ RxOther \/ RxDrifted
    \/ gateway # NoGateway /\ \E c \in CellsIn(active) : RxJoinResponse(c)

ScanTimer == EndScanAgain \/ \E g \in Gateway : EndScanSync(g)
BgTimer == ContinueBackgroundScan \/ NoHandover
           \/ \E g \in Gateway : Handover(g) \/ HandoverFailed(g)
IntraSlotTimer == Ti2 \/ TxEnds \/ Ri2 \/ Rie1 \/ Rie2

NodeNext == NewSlot \/ ScanTimer \/ Dispatch \/ BgTimer \/ IntraSlotTimer
            \/ RearmRadio \/ Settle \/ RxFrame

NodeSafety == NodeInit /\ [][NodeNext]_nodeVars

\* Armed compare interrupts fire, and time passes.
NodeSpec ==
    /\ NodeSafety
    /\ WF_nodeVars(NewSlot)
    /\ WF_nodeVars(ScanTimer)
    /\ WF_nodeVars(Dispatch)
    /\ WF_nodeVars(BgTimer)
    /\ WF_nodeVars(IntraSlotTimer)
    /\ WF_nodeVars(~settled /\ Settle)

-----------------------------------------------------------------------------
\* The type invariant, for the proofs.
NodeTypeOK ==
    /\ assoc \in {"scanning", "synced", "joining", "joined"}
    /\ gateway \in Gateway \cup {NoGateway}
    /\ settled \in BOOLEAN
    /\ active \in Schedule \cup {NoSchedule}
    /\ gateway # NoGateway => active \in Schedule
    /\ next \in IF active = NoSchedule THEN {0} ELSE CellsIn(active)
    /\ \A s \in Schedule : own[s] \subseteq {c \in CellsIn(s) : CellType[s][c] = "U"}
    /\ phase \in {"sleep", "txOffset", "txData", "rxOffset", "listen", "rxData"}
    /\ radio \in {"off", "rx", "busy", "tx"}
    /\ timer \in {"endScan", "newSlot", "farSlot", "none"}
    /\ aux \in {"none", "endBg", "dispatch"}
    /\ {rearm, scanning, bg, bgNext, capacity, drifted} \subseteq BOOLEAN
    /\ heard \subseteq Gateway
    /\ fullLeft \in Unset .. 149
    /\ joinPacket \in Gateway \cup {NoGateway}
    /\ backoffN \in {-1} \cup BackoffNMin .. BackoffNMax
    /\ backoff \in Draw(BackoffNMax)
    /\ patience \in 0 .. 2
    /\ pending \in {"none", "bloom", "timeout"}
    /\ silence \in Nat
    /\ connected \in Gateway \cup {NoGateway}
    /\ granted \in Nat \cup {NoCell}

\* What the application has been told by CONNECTED and DISCONNECTED events is
\* what mari_node_is_connected and mari_node_gateway_id answer, on every path out
\* of a gateway (association.c, mac.c: fix_drift, handover).
AppViewMatches == connected = IF Joined THEN gateway ELSE NoGateway

\* Exactly one timer drives the node: the end of the scan, the dispatch of the
\* schedule it has just synchronised to, or the slot timer; the last two never
\* compete, and no timer of a scan or a handover outlives it (mac.c).
OneSchedulingTimer ==
    /\ scanning <=> timer = "endScan"
    /\ scanning <=> assoc = "scanning"
    /\ aux = "dispatch" <=> timer \in {"none", "farSlot"}
    /\ aux = "dispatch" => assoc = "synced" /\ ~bg
    /\ bg => Joined
    /\ aux = "endBg" => bg

\* A background scan that outlives its slot continues into a cell the node
\* neither transmits nor listens in (mac.c: bg_scan_sleep_next_slot is computed
\* one slot ahead, from cells that join, leave and handover change).
ScanOnlyInFreeCells == bg /\ (aux = "none" \/ bgNext) => FreeForScan(next)

\* Until a drift too high has been met, the node holds the cell of its last join
\* response while it is joined and no cell, of any schedule, while it is not
\* (scheduler.c: the cells are those of the active schedule, which sync changes).
OwnCellUnlessDrifted ==
    ~drifted => \A s \in Schedule :
        own[s] = IF Joined /\ s = active THEN {granted} ELSE {}

\* Whenever the backoff allows a join request, there is one in the queue and it
\* is for the gateway the node is synchronised to (association.c, queue.c).
JoinRequestReady == assoc = "synced" => joinPacket = gateway /\ gateway # NoGateway

\* The radio is off whenever the MAC believes it is (mac.c: STATE_SLEEP), through
\* scans that span slots, handovers and aborted receptions.
AsleepMeansOff == phase = "sleep" => radio = "off"

\* An attempt to join ends: by a join, or back to scanning (association.c: the
\* backoff, the timeout of a request and the timeout of the whole attempt).
JoiningEnds == assoc \in {"synced", "joining"} ~> assoc \in {"joined", "scanning"}

\* A gateway that falls silent is noticed: a joined node hears from it again or
\* leaves (association.c: mr_assoc_node_should_leave).
SilenceEnds == (Joined /\ silence > 0) ~> (~Joined \/ silence = 0)

\* The node implements the session it promises to the application.
Session == INSTANCE NodeSession WITH
    trying <- IF assoc \in {"synced", "joining"} THEN gateway ELSE NoGateway,
    member <- IF Joined THEN gateway ELSE NoGateway,
    told <- connected
ImplementsSession == Session!SessionSafety
=============================================================================
