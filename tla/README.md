# A TLA+ development of Mari

Mari is the link layer of a star network: *gateways*, each with up to 101
*nodes* around it, share a time-slotted channel. A gateway repeats a *schedule*
of cells: beacons (`B`), downlinks (`D`), shared uplinks (`S`), in which nodes
ask to join, and uplinks (`U`), each owned by one node. A node scans for
beacons, synchronises to the best gateway, asks to join with a random backoff,
is granted an uplink cell, and from then on uses the cells it does not need to
scan for a better gateway and to move there (a *handover*). This directory
models that code in TLA+, checks the models with TLC on small instances, and
proves theorems about them with TLAPS.

All paths below are relative to the repository.

## 1. Inventory

What runs concurrently: every gateway and node is one core on which the slot
timer interrupt (priority 0) preempts the radio interrupt (priority 1), which
preempts the main loop. The MAC, the association module, the scheduler and the
packet handler run in interrupts; `mari_event_loop`, `mari_tx` and the
application run in the main loop. The gateway board has a second core that
speaks to a computer.

| component | state | operations | interacts with | hard because | correct if |
|---|---|---|---|---|---|
| gateway membership (`association.c`, `scheduler.c`, `mari.c`) | owner and last-heard ASN of each uplink cell, counter of owners, join-response buffer | join request, data, keepalive, eviction at slot boundaries | packet queue, Bloom filter, application events | lost responses and re-joins; several evictions at once; counter apart from cells; 8-bit capacity | a node owns the cell it was told as long as it is heard; advertised capacity is real; application, cells and responses agree |
| Bloom filter (`bloom.c`) | filter, dirty flag | rebuild in the main loop, copy into beacons | cells, beacons, eviction of nodes | rebuilt in place under interrupts that change cells and read the filter | a clean filter is the membership |
| packet queue (`queue.c`) | ring of packets, two indices, a lock | add (main loop), take (slot interrupt), reset (radio interrupt) | MAC, application | three contexts, one of which ignores the lock | whole packets, in order, none from before a join |
| node MAC and association (`mac.c`, `association.c`, `scheduler.c`) | MAC state, radio, four timer channels, scan flags, synchronisation, join state, backoff, own cell | scan, synchronise, slots, join, background scan, handover, eviction, drift | scan list, queue, radio, timers, application events | one handler leaves what the next one finds; scans span slots; several ways out of a gateway | one timer drives it; the application is told the truth; joining ends; silence is noticed |
| scan list (`scan.c`) | readings per gateway | add, select | MAC, association | timestamps wrap; readings are never removed; ASNs stored as timestamps | selects the strongest gateway heard in this scan |
| slot timing (`mac.c`: `sync_to_gateway`, `fix_drift`) | slot reference, ASN | align to a beacon, adjust | timer | unsigned arithmetic | the ASN is the gateway's in the slot that follows |
| timer driver (`mr_timer_hf.c`) | compare registers, events and callbacks | set, cancel, adjust, interrupt | MAC | events are latched while a channel is off; the counter wraps | a timer fires when its reference says |
| radio driver (`mr_radio_default.c`) | flags, one buffer for both directions | receive, transmit, disable, interrupt | MAC | its handler is preempted by the timer interrupt, which switches the radio off and on | a frame read is the frame received; the driver knows the radio's state |
| gateway application, network core (`03app_gateway_net`) | event mailbox, metrics table | events, packets to and from the other core | all of the above | one mailbox for all events; frames handled, and forwarded, where they lie | the last event is forwarded; the table follows the members; counts make sense |
| gateway application, application core (`03app_gateway_app`) | transmit queue, UART, HDLC decoder | interrupts and main loop | network core | counter shared without protection | frames go out whole and once; the radio gets what the computer sent |
| node application (`03app_node`) | event mailbox | events, answers to probes, periodic status | queue | mailbox points into the receive buffer | the last probe is answered |
| the network | what gateway and nodes believe of each other | frames lost, collided, late; nodes restarting | - | two sides agree only through frames that get lost | a node uses a cell that is its own; whoever has lost it finds out |

The list of hazards, each with its line and the properties aimed at it, is in
`PROJECT.json`.

## 2. Modules

```
CellLease <---implements--- GatewayAssoc <--EXTENDS-- GatewayBloom
                            GatewayAssoc <--EXTENDS-- Network
NodeSession <--implements-- NodeMac
PacketFifo <---implements-- PacketQueue
PacketFifo <---implements-- GatewayBoard --EXTENDS--> GatewayNet
MacSlots --EXTENDS--> TimerHf, Radio
DriftFix --EXTENDS--> TimerHf
ScanSync --EXTENDS--> SlotTiming
UartRx --EXTENDS--> Hdlc; Crc is its checksum, which MCUartRx gives it
Probe: both main loops, their mailboxes and the queues between them
Schedules: the four schedules of the code, and what the models assume of them
GatewayAssoc_proof, GatewayBloom_proof, Network_proof, MacSlots_proof, Probe_proof:
    theorems about the modules they extend
GatewayApp_proof: theorems about GatewayBoard, Hdlc and UartRx
NodeMac_proof: theorems about NodeMac and PacketQueue
InStep_proof: theorems about SlotTiming, ScanSync, TimerHf and DriftFix
MCGatewayAssoc, MCGatewayBloom, MCNodeMac, MCUartRx, MCScanSync, MCNetwork: constants for TLC
```

### GatewayAssoc

The gateway at the grain of one interrupt handler per action. `NewSlot` is
`new_slot_synced`: it first evicts silent nodes (`ClearOldNodes`, the loop of
`mr_assoc_gateway_clear_old_nodes`), then ticks the scheduler and, by the type of the
cell, builds a beacon, takes a packet or listens. `RxJoinRequest`,
`RxJoinRequestFull`, `RxFromJoined` and `RxIgnored` are the branches of
`mr_handle_packet`. Uplink cells are a function `assigned`; `silence[c]` stands
for `asn - last_received_asn`, so that no counter grows without bound; `numAssigned`
and the capacity are computed modulo 256. `granted`, `unheard` and `appNodes` are
history variables: what nodes and application have been told, kept by rules that
do not look at the cells.

`CellLease` is what all of this amounts to: a lease that a frame renews and that
ends after `Lease` silent slots. `ImplementsLease` says the cells implement it,
with `Members` for its members.

### Schedules

The tables of `all_schedules.c`: three beacons, groups of uplinks closed by a shared
uplink and a downlink, uplinks again. `SchedulesFit`, which TLC evaluates, states
for all four what `GatewayAssoc` and `NodeMac` assume of any schedule: its length,
that `max_nodes` counts its uplinks, that a downlink follows each shared uplink;
and that an uplink precedes each, the arrangement that makes background scans
of several slots possible.

### GatewayBloom

Adds the main loop: `StartRebuild`, one `AddCell` for every cell, `FinishRebuild`.
`SlotInterrupt` and `RxInterrupt` are the actions of `GatewayAssoc`, possible
between any two of those steps; the beacon of a slot copies the filter as it
is. `raced` remembers that a cell changed hands during the rebuild. One
iteration of the loop is one step: an interrupt inside of it would find or
change the cell that is being hashed, which has the same effect as one right
before or after it, up to bits of a node that is just leaving or coming.

### PacketQueue

`mr_queue_add` as five steps of the main loop, preempted by `TakePacket`
(`mr_queue_peek` and `mr_queue_pop`, one interrupt) and, at a node, by `Reset`
(`mr_queue_reset`, called from the radio interrupt when the node joins; a gateway
never joins, so its behaviours are those without). The
queue is neither volatile nor atomic, so the compiler may or may not re-read
`last` between two statements: both are allowed (`\E i \in {index, last}`).
`PacketFifo` is a bounded FIFO that forgets everything when it overflows or is told
to: `current = last` means *empty* (there is no test for a full queue). `FifoUnlessCut`
says that the ring is one as long as no reset preempts an addition. Its `Enqueue` and
`Dequeue` are also what the ring of `GatewayBoard` has to do.

### NodeMac

A node at the grain of one timer or radio interrupt per action. `timer` is the
inter-slot channel and what it will call, `aux` channel 1 outside of slots,
`rearm` channel 2 outside of slots; the channels inside a slot are given by
`phase`, the `mac_vars.state`. The actions:

| actions | code |
|---|---|
| `EndScanSync`, `EndScanAgain`, `Dispatch` | `end_scan`, `sync_to_gateway`, `activity_scan_dispatch_new_schedule` |
| `LeaveGateway`, `GiveUpJoining`, `ListenSlot`, `UplinkSlot`, `JoinSlot`, `SleepSlot`, `ScanSlot` | `new_slot_synced` with everything it calls: the four checks in their order, the scheduler, `activity_ti1`, `activity_ri1`, the queue, `start_or_continue_background_scan` |
| `ContinueBackgroundScan`, `NoHandover`, `Handover`, `HandoverFailed` | `end_background_scan` |
| `Ti2`, `TxEnds`, `Ri2`, `Rie1`, `Rie2`, `RearmRadio` | the timers of a slot; `mr_radio_rx` re-armed in a scan |
| `FrameStart`, `FrameCorrupt` | the radio interrupts at the start of a frame, and at the end of one with a wrong checksum |
| `ScanBeacon`, `ScanOther` | `activity_scan_end_frame` |
| `RxBeacon`, `RxJoinResponse`, `RxFromGateway`, `RxOther`, `RxDrifted` | `activity_ri4`, `mr_handle_packet`, `fix_drift` |
| `Settle` | time: 5 s have passed since `synced_ts`, for the join timeout and the handover interval alike |

What is abstracted: the ASN is the cell it selects (`next`), because a gateway's
ASN is unknown to the node before it synchronises; the microsecond clock is the
order of the timers; the scan list is the set of gateways a scan could select
(`heard`), and signal strength is a nondeterministic choice among them; payloads
are left out. Which gateway a frame comes from, whether its beacon has room and
lists the node is the environment's choice at every step, so that lost frames,
evictions, Bloom false positives and gateways that restart are all included.
`connected`, `granted` and `drifted` are history variables.

`NodeSession` is the node without slots: attached to nobody, trying one gateway,
member of one; `ImplementsSession` says that only a gateway the node was trying
ever becomes its gateway and that the application always knows.

### SlotTiming and ScanSync

`SlotTiming` is the arithmetic of `sync_to_gateway`: whether the next slot of the
gateway is too close (`Skips`), how many slots have passed since the beacon
(`AsnCount`), and after which delay the first slot starts (`DispatchDelay`).
`ScanSync` puts it to use: gateways whose slots start at different times send beacons,
the node reads its wrapping clock, `ScanAdd` finds a place for each reading
(`mr_scan_add`: the gateway's own, a free one, or that of the lowest time stamp), and the
end of a scan selects one (`mr_scan_select`) and synchronises. A beacon heard outside of
a scan is stored with an ASN for a time stamp, as in `mari.c`: that of the node, which may be
any (`OwnAsn`). The receiver takes in one frame at a time
(`ReceiverIsFree`). `heard` (how strong each gateway was last heard in this scan) and `dated` are
history variables, as is the field `at` of a reading.

### TimerHf and DriftFix

`TimerHf` is the timer driver on its peripheral as functions on a record: one counter that
wraps, and per channel a compare register, an event that is set whenever the counter
reaches the register and stays until it is cleared, and the interrupt enable. `Arm`,
`Cancel`, `AdjustPeriodic`, the three ways to set a one-shot timer and `Acknowledge`, what the
interrupt does with an event, are the functions of the driver. `DriftFix` is the arithmetic
of `fix_drift` on that timer, unsigned subtraction and signed comparison included.

### Radio and MacSlots

`Radio` is the radio driver on its peripheral in the same style: events that request the
interrupt, the flags of `radio_vars.state`, and the buffer shared by both directions.

`MacSlots` runs the MAC of a joined node on the two drivers, with time. `NodeMac` takes a handler as
one step; here the handler of the radio interrupt is a chain of them (`irq`), and the timer
interrupt, which looks at one channel after the other (`isr`) and may take up to `MaxLag`,
preempts it between any two. A slot transmits, listens or belongs to a background scan, by
free choice. What its properties show is bounded by two histories.
`disturbed` excludes what the code does not guard against: `mr_timer_hf_cancel` leaves the
compare register at 0, the peripheral latches events of channels that are off, and arming does not clear
them. When the counter passes 0, a channel that is armed next is served at once, and that slot is lost.
`SlotsPunctual` needs neither history: the slot timer itself comes through 0 unharmed. Its register is compared with the counter only when
they are equal and moved only when the event is served, so an event that comes while `_timer_hf_isr` is past its channel
has to be there for the next interrupt.
Nothing else is excluded: `start_or_continue_background_scan` may preempt `activity_scan_end_frame` between its decision
to go on and the arming of the radio, but it does so at the start of a slot, and the radio it is armed for is off again at the end
of the scan, as long as a scan is longer than two interrupts of the timer.

`deaf` marks a scan that listens no more until it ends: `mr_radio_rx` ignores, without a word, a call
while the driver still handles the last frame, and a frame with a wrong checksum ends
without a call of the MAC.

### Network

`GatewayAssoc` with the node side of the protocol on the air: in every slot the gateway's
frame may be heard by any of the nodes that are awake, frames of nodes may be lost, of two that collide
one may come through, responses may come after the node has given up or asked again, nodes
lose power. Of `NodeMac` there is what a gateway can tell of: `assoc`, `own`, `pending` and `quiet` are
`assoc_vars.state`, the node's cell, `is_pending_disconnect` and the silence of the gateway;
`Leaving` is `mr_assoc_node_should_leave`. Of `GatewayBloom` there is a rebuild with a beginning and an
end: a beacon between them may list any part of the members. `lost` counts the frames in
a row the gateway has missed; `raced` and `stale` say what may be wrong with the filter.

### GatewayNet and GatewayBoard

The path of an event from the MAC to the serial line. `GatewayNet` is the network core:
`PostEvent` and `PostInfo` are interrupts, the other actions are the statements of the main
loop, with an interrupt possible between any two. An event (type and data) and a frame (length and body) are
pairs, whose halves are read and written by different steps, so that a torn copy is a pair of two different
halves. An event of a node has the node for its data; `MARI_NEW_PACKET` has only a length and pointers to where the MAC
has put the frame, `rxFrame`. Every frame the gateway receives is put there: with an event of its own
(`PostPacket`, `PostNode`) or with none (`ReceiveOther`: another version, network or destination, or
a node that has not joined). `SendEvent` copies what lies there by then, and pieces of two frames
(`Garbled`) if one came while it was copying. An event copied in two halves, the type of a packet and the data of a
node, has pointers made of a node id, which may end in a `Fault`. `GatewayBoard` adds the application core: `Signalled`, `EnqueueLength` and
`Enqueue` are the interrupt of the inter-core signal, which runs while the network core may
be writing the next frame; `Wake` to `Send` are the main loop around `__WFE`, with
`tx_queue_count--` as a load and a store; `EndTx` is the interrupt of the UART. `handled`, `seen`,
`refused`, `raced` and `overwritten` are history variables.

### Probe

The way of a metrics probe: computer, main loop of the network core, queue, air, main loop of the
node, and back. Each loop takes an event from a mailbox of one place that interrupts
overwrite, in two steps (flag, then copy), and handles the frame where it lies, in a buffer that the
next frame overwrites. `table` is the metrics table: `AddNode` takes the first free row whether or
not the node has one, `ClearNode` frees the first row of the node. `answered`, `told`, `irregular`,
`late` and `steady` are history variables. Things the model shows: an event is handled twice when an
interrupt comes between the flag and the copy; a node that joins again without having left gets a
second row that is never freed, so that such nodes fill the table; an answer written in place
may change the frame that arrives meanwhile.

### Hdlc and UartRx

`Hdlc` is the framing as functions: the checksum of a byte string, the encoder, and one step of
the receiver (`RxByte`), with the branches of `mr_hdlc_rx_byte`. What a byte does to the
checksum is a parameter, `UpdateFcs`, of which `HdlcAssumption` says what the receiver's test
rests on: any checksum followed by its own complement, low byte first, gives `MR_HDLC_FCS_OK`. `Crc16` in `Crc` is
`_mr_hdlc_update_fcs`, with the table computed from the polynomial; a payload has at most 255 bytes, because its length is a
`uint8_t` in `ipc.h` and because the index of the loop in `mr_hdlc_encode` is one too. `UartRx` is the way from the computer to the radio: the computer
sends frames in pieces, the line may alter or lose a byte or lose a piece, the
interrupts of `uart.c` receive a trigger byte and then a chunk, and the main loop decodes it
byte by byte while the next piece may already be there. `got`, `owed` and
`intact` are history variables.

## 3. Model checking

| run | instance | shows |
|---|---|---|
| `gateway_assoc` | 3 nodes, 6 cells of which 3 uplinks, lease of 6 slots | the gateway's bookkeeping, and that it implements `CellLease` |
| `gateway_one_cell` | 2 nodes, 5 cells | finding 1 |
| `gateway_bloom` | 3 nodes (one a false positive of the other two), 5 cells of which 2 uplinks, 4 bits | filter and flag under interrupts |
| `gateway_bloom_clean` | as above | finding 2 |
| `packet_queue` | 2 packets, 4 places, resets | FIFO and lock |
| `node_mac` | 3 gateways, 2 schedules of 5 and 4 cells, one unknown schedule, lease of one slotframe, backoff exponents 1 and 2 | all node properties, liveness and that it implements `NodeSession` |
| `mac_slots` | slots of 11 units, frames of 3, interrupts of up to 1, a counter of 55 values that runs from 23 through the wrap to 22 | the MAC on its drivers |
| `network` | 2 nodes, 5 cells of which 2 uplinks, lease of 1 slotframe | gateway and nodes over the air, liveness |
| `scan_sync` | 3 gateways, slots of 4 units that start at 3 different times, a list of 2 places, a clock that wraps after 14 units, 24 units of time | selection and synchronisation |
| `gateway_board` | 2 packets, 1 event of a node, 3 interrupts, a ring of 2 frames, frames of 1 or 2 chunks | both cores |
| `uart_rx` | 3 payloads, pieces of 5 bytes, a buffer of 8, one damaged piece per frame | framing and reception |
| `probe` | 2 nodes, 2 rows, queues of 2, 2 frames from the computer, 3 further interrupts | metrics, mailboxes and buffers of both applications |

The properties and what they are about:

- `CapacityIsFreeCells`, `GrantHonoured`, `AppSeesOnlyMembers`,
  `ResponseNamesHeldCell`, `NoResponseOverwritten`, `ImplementsLease`: the gateway's
  bookkeeping, kept in five places, stays one story through lost responses,
  re-joins and evictions.
- `CurrentUnlessRaced`, `EvictedLeaveBeacons`: the filter that decides
  evictions is the membership, or another change is on its way; an evicted node learns of it.
- `FifoUnlessCut`, `LockReleased`: the queue.
- `AppViewMatches`, `OwnCellUnlessDrifted`, `ImplementsSession`: each of the node's five ways out
  of a gateway leaves association, scheduler, queue and application in agreement.
- `OneSchedulingTimer`, `ScanOnlyInFreeCells`: timers and radio through scans that span slots,
  handovers and aborted receptions.
- `JoiningEnds`, `SilenceEnds`: progress.
- `SlotsPunctual`: each slot starts soon after the slot timer says, and the slot timer moves by whole slots; an event that is
  cleared in passing, or a start that lateness moves, would show only slots later.
- `ReadIsWhole`, `DriverKnowsRadio`, `OnTime`, `NothingLeftBehind`, `ScanKeepsListening`: whatever the timer
  interrupt cuts into, a frame is copied before the buffer is used again, the next slot gets the
  radio and meets the frame, and a slot that is over arms nothing in the next one.
- `AstrayOnlyUnheard`, `EntersHeldCell`: two nodes use one cell only after the gateway has missed one of
  them through a whole lease; a response, however late, gives a node the cell it has.
- `TurnedAwayOnlyWhileStale`, `AstrayEnds`: who is turned away by a beacon though a member, and that a node
  that has lost its cell finds out.
- `AsnMatchesUnlessMisdated`: the node's first slot starts with one of the gateway's and has its
  number, unless the reading was stamped in a slot or is a whole period of the clock old.
- `StrongestSelected`: a scan finds the strongest gateway it has heard, as long as the clock
  does not wrap in it, no stamp was out of order before it and the list has room. The exceptions
  are real: with any of them removed TLC finds a counterexample.
- `LastEventForwarded`, `LastFrameEnqueued`, `FifoUnlessRaced`, `CountedIsSent`: events may be lost
  to later ones and frames torn by later ones, but never the last, except that the bytes of a packet
  are another frame's if one was received before they were copied; the ring is a FIFO until
  an update of its count is lost; no frame waits for a wake-up that does not come.
- `CountsWithinSent`, `LastProbeAnswered`, `RowsFollowMembers`: late main loops may lose probes and confuse
  counts, but not the last probe, and not the table.
- `SentOnceInOrder`, `HealsAfterOneFrame`: whatever the line does, the radio gets only payloads that
  were sent, in order and at most once, and the receiver recovers within one frame.

**Why the bounds are enough.** Three nodes and three uplinks let a cell in the
middle be freed while its neighbours stay, a node re-join into a lower cell and
several nodes time out together. The schedules have a shared uplink followed by a
downlink, as all four of `all_schedules.c`, and, in `NodeMac`, a free uplink right before the
shared one, so that background scans last more than one slot. A lease of
one slotframe (five in the code) is long enough for a node to be heard, evicted
and to re-join in any order relative to it. Three gateways give a handover, a
handover to a different schedule and one that fails. Backoff exponents 1 and 2
(4 to 6 in the code) give a first, a longer and a longest backoff. The clock of
`ScanSync` wraps once in 24 units, so that a scan before, over and after the wrap is
included, and three gateways do not fit in its list. The node's own slot number, 8, lies in the middle of that clock, so a
reading stamped with it may seem older or newer than the scan. Two places are the smallest ring
in which a frame can wait for another. In `UartRx` the three payloads are a frame of one piece, one of
special bytes only, and one whose checksum has to be escaped; the last piece of a frame has
from one to five bytes, so the lone trigger byte of `uart.c` occurs. At most one piece of
a frame is damaged; `MaxPosts`, `MaxSent` and `MaxTime` bound the models that have
no other end. `mac_slots` runs through five slots, so each kind of slot follows each other one, a scan goes on over
several, and one slot comes after those the passing of 0 disturbs; the times satisfy `SlotAssumption`, the inequalities
between the durations of the code (`slot_durations`, the re-arming delay, the length of a frame).
`network` has the two uplinks on either side of the shared one, and with two nodes each state of one meets each
of the other: both want a cell, one takes the cell the other has lost, the gateway is full. Two
frames of the computer and three other interrupts let the second probe, an event and a beacon meet any
step of a loop that handles the first. Deadlock is not checked where the model stops at a bound: `mac_slots`,
`probe`, `scan_sync` and `gateway_board`. The theorems of section 5 hold for all values. In the code,
the end of a slot is guarded for 240 us, a scan lasts 1300 us and the shortest frame, 21 bytes, takes 84 us, so of what
`SlotAssumption` says of `MaxLag` the strongest is `2 * MaxLag < FrameMin`: a call of the timer interrupt takes less than 42 us.

**Fairness.** At the gateway, `WF(NewSlot)`: the slot timer is a free-running
compare interrupt of the highest priority. In `GatewayBloom`, also weak fairness of
the main loop, which the handlers of a slot leave time to run; in `PacketQueue`,
of the steps of `mr_queue_add` for the same reason. In `NodeMac`, weak fairness
of each armed compare interrupt, and of time passing. No fairness is assumed of
frames: they may be lost for ever. In `Network`, weak fairness of slots and of the main loop, and
strong fairness of each node hearing a beacon: of those sent to it while it listens, not all are lost.
In `GatewayBoard`, weak fairness of the interrupts and of
the network core, and strong fairness of the main loop of the application core,
which the interrupts leave time to run although each of them stops it.

## 4. Findings

Each is a run that must fail; the line and the text it contradicts are in `PROJECT.json`.

1. *Second cell on re-join.* The search stops at the first free cell before it
   meets the node's own. The second cell is counted, ages on its own, and when it is
   evicted the application is told `NODE_LEFT` of a node that is still there.
2. *Lost rebuild.* The dirty flag is cleared after the rebuild, so a change during it
   is forgotten until the next join.
The models also show, without a property for it, that

- `mr_queue_reset` may preempt `mr_queue_add`, and a packet from before a join be sent after it (`PacketQueue`);
- `fix_drift` does not give up the cell, so the node transmits in it before it has joined again, and the scan it
  starts is switched off by the `end_slot` of the handler it runs in (`NodeMac`: `RxDrifted`);
- the capacity that decides whether a failed join is retried is set only by beacons heard in slots, not by the
  one the node synchronised to (`NodeMac`: `HandleBeacon`, `RequestNow`);
- a beacon may copy the filter in the middle of a rebuild and turn members away (`Network`: `stale`);
- an increment of `tx_queue_count` between the load and the store of its decrement is lost, and a frame is left in
  the ring until the next one comes (`GatewayBoard`: `raced`);
- the event of a packet points into the buffer the MAC receives into, so a frame that comes before the main loop has copied the
  packet is forwarded in its place, with the length of the packet, even if the gateway ignores it
  (`GatewayNet`: `overwritten`);
- `mr_timer_hf_set_oneshot_with_ref_us` adds the time since the reference where the variant `..._with_ref_diff_us`
  subtracts it: the deadline is late by twice that time (theorem `DeadlineOfReference`). With the few microseconds
  between the reference and the call, the margins of a scan absorb it;
- what is said of timers, scans and metrics under `MacSlots` and `Probe` in section 2.

The hazard of a second join request overwriting a response waiting in the buffer
is real in `queue.c` but cannot happen with a schedule whose shared uplinks are
each followed by a downlink: `NoResponseOverwritten`, under the assumption
`DownlinkFollowsShared`.

## 5. Proofs

TLAPS checks the following for every number of nodes, cells and gateways, every
schedule that satisfies the assumptions, and every lease.

**GatewayAssoc_proof.** From `ScheduleAssumption` (`max_nodes` is the number of
uplink cells, at most 149 cells) and, for the join responses,
`DownlinkFollowsShared`:

- `TypeCorrect`: `TypeOK` is inductive.
- `CapacityCorrect`: `CapacityIsFreeCells` is not inductive, since modulo 256 a wrong
  counter may give a right capacity; the invariant that is says
  that the counter is the number of assigned cells, and the arithmetic of
  cardinalities is in lemmas of its own.
- `GrantsCorrect`: needs, besides `GrantHonoured`, that the cell of a lapsed grant
  ages in step with it.
- `AppCorrect`, `ResponseCorrect`, `ResponseNotLost`: the last needs the invariant
  that a response waits only in the slot of a shared uplink, which is
  where `DownlinkFollowsShared` comes in.
- `LeaseImplemented`: initial states and steps of the gateway map to those of `CellLease`.

**GatewayBloom_proof.** `InterleavingSafe`: every behaviour of the interleaved
gateway is a behaviour of `GatewayAssoc`, so the theorems above carry over.
`FilterCorrect`: the loop invariant *the filter holds exactly the members in the cells
before `at`*, as long as `raced` is false.

**NodeMac_proof.** From `NodeAssumption` alone, for any gateways and schedules. The
safety invariants of `NodeMac` are inductive together and not one by one: that
a background scan stays in free cells needs that the node's own cells do not change
under it, hence that one timer drives the node and that it is joined. `NodeInv`
adds `Attached` (a node past the scan has a gateway and its schedule) and
`RearmPending` (a radio waiting to listen again belongs to a scan that goes on).
`NodeInvStep` has one step per handler. `NodeImplementsSession` maps each
handler to a step of `NodeSession` or a stutter, with `NodeInv` for what an unreachable state
could break, such as a join response from no gateway. `NodeTypesHold` is `NodeTypeOK`, which no run repeats, inductive together with
`NodeInv`: that the next cell is one of the active schedule, whatever schedules the node moves between, needs that
a slot only starts when it is attached. The range of the backoff needs that 2^n grows with n, which the provers do not know; it is
the assumption `BackoffsGrow`, true of all numbers and evaluated by TLC.

**Network_proof.** On top of `GatewayAssoc_proof`: `GatewayKeepsPromises` says that whatever the medium does the
gateway on it behaves as `GatewayAssoc`, so every theorem above holds of it. `NetCellsHeld` needs to
know how the two ends age together: `Bound` is the silence at the gateway that the frames a node has lost account for, and
`Kept` says that a joined node which has lost fewer than a lease has its grant, heard at most `Bound` slots ago.
With `FreshInv` (a response on the air is to a node heard in the slot before) and `SenderInv` (who is sending may) it is
inductive together with the gateway's own invariants. From it follow `NetNoCollision`, that no two nodes send in
one uplink, and `NetEntersHeldCell`. `NetTurnedAway` follows from `ListInv`, about the filter under a rebuild.

**PacketQueue (in NodeMac_proof).** For queues of any size. `QueueTypeCorrect` holds whatever preempts what. `QueueIsFifo` maps each
step to one of `PacketFifo` or a stutter: `AddInv` says that what has been written so far of a packet is at `last`, and
the lemmas on `%` that this is the place of no waiting packet; taking a packet shifts the waiting ones, adding one appends, and an addition that
reaches `current` drops all.

**MacSlots_proof.** From `SlotAssumption` and `NoCallbackAssumption`, for durations, frames and lags of any length and any counter. All
but the last theorem go from the first slot until the counter wraps: they say `Start <= timer.counter`, which holds exactly so long.
The durations decide all of it: that a frame is longer than two interrupts of the timer, a scan too, that the
guard at the end of a slot is longer than three, and a slot shorter than half the counter. The invariant `TypedInv` says that
the node is in one of seven `Modes`, each of which is about everything at once:

- *Closed*: the slot is over, or one the node sleeps in. The radio is off and the channels are `Silent`; what is left is what the interrupt of
  the radio still does after it was switched off under it (`Drains`), and that ends with the slot (`ClosedBy`).
- *Opening*: `new_slot_synced` has been called and has not opened the slot yet; nothing of the slot before is left.
- *TxWaits*, *TxGoes* and *RxWaits*, *RxGoes*: the slot up to `activity_ti2` or `activity_ri2` and after it, with the deadlines its channels are
  armed for and where radio, interrupt and frame are between them.
- *Scans*: a background scan listens, receives, handles a frame, or pauses until the radio is on again.

`Slots` says that the inter-slot timer is periodic and `Expires` that an event of a channel is there from its
time on until the interrupt takes it, at most `MaxLag` after the interrupt that missed it: the channels are
looked at in their order, so the lag of one interrupt passes to the next, and the modes have to say of each how much. What makes `ReadIsWhole`
hold is `Pending`: the start of a frame is handled long before its end.
The lemmas with a name in `Tick` move these facts over the passing of time; after them comes one lemma for each action. `ReadsAreWhole`,
`DriverKnows`, `SlotsAreOnTime`, `NothingIsLeftBehind` and `ScansKeepListening` are then the properties of the run `mac_slots`.
`SlotsArePunctual` has no such limit. Its invariant `SlotTimer` says how far the register of the slot timer is from the counter, from a slot ahead
down to what two interrupts take behind, with the lemmas on `%` that this distance survives the passing of 0; what makes it inductive is
that an event the interrupt has gone past is younger than that interrupt, and that every action but `Tick` and `NewSlot` leaves the channel alone (`Spares`).

**GatewayApp_proof.** To the computer, for any number of interrupts and rings of any size. `EventInv` and `FrameInv` say where the last event and the last
frame are while no other has come: half of one is as good as nothing, so they go by halves. `ReceivedInv` says that the packet of an event still
lies where the event points, until it is forwarded or another frame has come; that another frame may come is what `BoardForwardsLast` has to exempt. `RingInv` relates the
indices of the ring to its count; with it `BoardRingIsFifo` maps the board to `PacketFifo` as long as no update of the count is lost.

From the computer, for any payloads, pieces and noise within `UartRxAssumption`, and any `UpdateFcs` that satisfies
`HdlcAssumption` (TLC evaluates the latter for `Crc16` and all 65536 checksums):

- `DecodesWhatIsEncoded`: the receiver undoes the encoder. `Fcs` and `FlattenSeq` are recursive functions, defined by a
  `CHOOSE`, so that there are such functions (`CodesExist`, `SumsExist`) and how they grow with their argument (`FcsAppend`, `FlattenAppend`) has
  to be proved first; by induction, which is the lemma `Least`, that a set of natural numbers has a least element. `InFrame` then says of a
  receiver that has read `c` bytes of a frame that its buffer is what these encode, and that it has seen an escape if and only if
  the last of them is one; `InFrameStep` is one more byte, `InFrameEnd` the last flag.
- `UartRxInvariant`: as long as a frame is not damaged, `Unread`, that is what is left of the chunk, the trigger byte, the wire and the computer
  in this order, is the end of its encoding, and the receiver is where the beginning puts it (`Follows`). In the first intact
  frame after damage it may be anywhere, except that it has not come to its last flag in an empty frame (`Recovers`): so that flag leaves it idle,
  broken, or in a frame that has just begun (`Fresh`), from each of which the next frame's first flag starts it.
- `Heals` and `IntactOnce`: in the second intact frame in a row the radio is given its payload, and nothing else, and by its end it has been.

**InStep_proof.** How a node gets into step with a gateway, and stays there.

- The arithmetic of synchronisation. From `TimingAssumption` (the time stamp of a beacon is taken in the first half of a
  slot), for every time since the beacon: `DelayInRange`, the unsigned delay does not
  underflow and is less than two slots, and `DispatchAtSlotStart`, the first slot starts
  exactly `AsnCount` slots after the one of the beacon.
- The selection. For any gateways, list and period of the clock. `SelectsInStep` needs of each reading that its time stamp is the
  clock's and its ASN the gateway's, unless it was stored with the wrong one (`AllSound`). `SelectsStrongest` is harder, as a list
  that is full gives up readings: as long as the scan is one the property speaks of, every gateway heard in it has a reading with its last
  strength and a stamp of this scan (`HeardIsListed`, `HeardIsFresh`), and the readings of others are older
  (`UnheardIsOlder`). That a reading of this scan is never the one given up is a pigeonhole argument: if all places held
  readings of this scan, as many gateways as places would have been heard besides the new one (`HeardKeepsPlace`).
- The timer, for every width of the counter. `TimerStaysTyped`: whatever function of the driver is called and
  whatever the peripheral does, registers stay within the counter's range. `DeadlineOfReference`: where the two one-shot
  variants put their deadlines.
- The drift. `DriftIsMeasured`: the signed difference of wrapped time stamps is the
  distance between the node's slot and the gateway's, as long as it is less than half the counter.
  `NextSlotFollowsGateway`: after `fix_drift` the next slot starts one slot after the gateway's, less the latency `lag` with which
  `new_slot_synced` had read the clock; beyond the bound of `Acceptable` the timer is left alone.

**Probe_proof.** For any table, queues and numbers of interrupts. `ProbeRowsFollowMembers`: a row belongs to each node
the loop knows of, unless the node is irregular; with the types of table and events it is inductive (`MemberInv`); the facts about the first of
a set of rows are lemmas. `ProbeLastAnswered` needs `AnswerInv`: once the flag is down, a probe that came last is still in the
loop's copy when it is tested. `ProbeCountsWithinSent` follows a count through everything it passes: what the node has
counted and the probes on their way to it, in the queue, in the air, in the buffer, are together no more than
the table says were sent (`DownwardsCounted`), and likewise upwards (`UpwardsCounted`). The probes waiting in a queue are a set of places, and
taking one off the front or putting one at the end moves its cardinality by a bijection.

**Only model-checked:** liveness (`EvictedLeaveBeacons`, `LockReleased`,
`JoiningEnds`, `SilenceEnds`, `CountedIsSent`, `AstrayEnds` and the fairness half of `ImplementsLease`),
which is beyond TLAPS here; `SentOnceInOrder` of `UartRx`, because it is a matter of the payloads and the noise: there are damaged frames that pass
a checksum of 16 bits, so it does not hold for all of them, and `IntactOnce` is what does; `SchedulesFit`, which is about four tables; and that the properties of `MacSlots` other than `SlotsPunctual` hold again
two slots after the counter has wrapped, which the run `mac_slots` goes through and the theorems stop before.

## 6. Assumptions and what is not modelled

- Join requests arrive only in shared uplinks, and every shared uplink is followed by a
  downlink, as in `all_schedules.c`; a join response comes only
  from the gateway the node is synchronised to.
- The default build: `MARI_AUTO_UPLINK_KEEPALIVE` and `MARI_ENABLE_BACKGROUND_SCAN`
  set, one scan channel.
- In `NodeMac`, the timers of a slot fire before the next slot starts, and a handler runs to its end before
  the next of the same core; `MacSlots` is about what happens without these two assumptions. In `MacSlots` the handler of
  the radio takes no time but what the timer interrupt takes from it, and the node stays joined.
- In `Network`, gateway and nodes are in step, a filter has no false positives, and there is one gateway.
- The 32-bit wrap of the clock is modelled where the code's comparison is sensitive to it:
  the deadline of a join request and the 5 s interval of a joined node in `NodeMac`, the time
  stamps of the scan list in `ScanSync`. `NodeMac` takes readings stamped with an ASN to be
  too old to be selected.
- In `ScanSync`, the clocks of gateways and node run at the same speed and a node's own
  latencies are the constant the code corrects for.
- The computer pauses between the pieces of a frame for as long as the UART backs off, and between
  frames until the last is dealt with (`03app_gateway_app/main.c:190`).
- The radio handler has posted its event before the slot timer, which could preempt it, fires: posting an
  event (`_mari_event_callback`) is one step.
- In `TimerHf`, the channels in use are below the one the clock is captured in, as on the nRF5340. `mac.h` also uses channel 3
  of timer 2, which on a chip whose timer has four registers (nRF52840) is that one: the interrupt never calls its callback.
- Lengths of frames are abstract in `GatewayNet`. `radio_to_uart_len` is a `uint8_t` and is `len + 1`, hence 0 for a frame of 255 bytes, the longest the radio
  takes.
- Slot statistics, debug pins and the deprecated multi-channel code are left out.
- **Not modelled.** Busy delays of the timer (only start-up uses them); the set-up of the radio's physical layer,
  channels and signal strength, and the driver that forwards radio calls on the application core of the nRF5340; random numbers (a draw is a
  nondeterministic choice), the low-frequency clock and GPIO: register I/O without a protocol. Byte layouts of packets:
  the fields the protocol depends on are records. `MARI_ERROR`, which is not forwarded, and
  the start-up and configuration of the applications. The test applications print or blink. The start-up code
  under `src/nRF` is vendored.

## 7. Plan

Done, in this order: gateway membership and its lease; Bloom filter; packet queue; node;
serial line; gateway board; scan list and synchronisation; timer and radio drivers with the MAC on them; drift; the
network; probes; proofs about all of them. What is left is the radio of `MacSlots` after the counter has wrapped: a mode for a slot that is lost to
the passing of 0, and that the next one but one is as `TypedInv` says.
