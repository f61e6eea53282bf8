------------------------------ MODULE MacSlots ------------------------------
(***************************************************************************)
(* The slots of a joined node on its drivers: mac.c above TimerHf and      *)
(* Radio.  NodeMac takes a handler as one step; here the handler of the    *)
(* radio interrupt consists of several, the timer interrupt preempts it    *)
(* between any two, time passes, and the peripherals go on meanwhile.      *)
(*                                                                         *)
(* A slot transmits ("tx"), listens ("rx") or belongs to a background      *)
(* scan ("scan"); which is any choice, for schedule and queue are          *)
(* abstracted, but a scan knows of the next slot.  The node stays joined;  *)
(* in a cell of its own it always has a keepalive to send.  Time is the    *)
(* counter of the timer, in units of any length; the drift correction is   *)
(* in DriftFix.                                                            *)
(***************************************************************************)
EXTENDS TimerHf, Radio, FiniteSets

CONSTANTS
    TxOffset, RxGuard, TxMax, EndGuard,   \* slot_durations
    RearmDelay,   \* how long after a frame a scan switches the radio on again
    FrameMin, FrameMax,   \* the times a frame may take
    MaxLag,       \* how long an interrupt of the timer may take
    Start, Stop   \* the counter when the slots start, and where a run of the model stops

WholeSlot == TxOffset + TxMax + EndGuard
RxOffset == TxOffset - RxGuard
RxMax == RxGuard + TxMax
\* Mutant of BgScanDuration: no time is left between a scan and the next slot.
BgScanWholeSlot == WholeSlot
BgScanDuration == WholeSlot - 2 * EndGuard

ASSUME SlotAssumption ==
    /\ {TxOffset, RxGuard, TxMax, EndGuard, RearmDelay, FrameMin, FrameMax, MaxLag} \subseteq Nat
    /\ Last = 4   \* the MAC uses channels 0 to 3
    /\ 0 < RearmDelay /\ RearmDelay < EndGuard
    /\ MaxLag < RxOffset /\ 3 * MaxLag < EndGuard
    /\ RxGuard < EndGuard
    /\ 2 * MaxLag < FrameMin /\ FrameMin <= FrameMax /\ FrameMax < TxMax
    /\ 2 * MaxLag < BgScanDuration
    /\ 2 * WholeSlot < Wrap /\ {Start, Stop} \subseteq Count

Callback == {"newSlot", "ti2", "ri2", "tie1", "rie1", "rie2", "endScan", "rx"}
ASSUME NoCallbackAssumption == NoCallback \notin Callback

Kind == {"tx", "rx", "scan"}
InterSlot == 0
Received == {"even", "odd"}   \* a frame and the one before it are told apart

VARIABLES
    timer, radio,
    isr,          \* the channel the timer interrupt looks at next, Last outside of it
    lag,          \* how long it has taken
    opening,      \* new_slot_synced has read the clock, and is choosing what to do
    kind,         \* of the slot
    slotStart,    \* start_slot_ts
    mac,          \* mac_vars.state
    bgScan,       \* is_bg_scanning
    goesOn,       \* bg_scan_sleep_next_slot
    irq,          \* where the handler of the radio interrupt is
    entered,      \* the time it was called, now_ts
    loaded,       \* the state it has loaded
    again,        \* the scan it handles a frame of is to go on
    air,          \* how long the frame on the air has taken
    copy,         \* what has been copied of the frame received
    disturbed,    \* history: slots until a passed zero no longer counts
    deaf          \* history: the scan has lost a frame or its radio

timerVars == <<isr, lag, opening, kind, slotStart, goesOn>>
irqVars == <<irq, entered, loaded, again, copy>>
history == <<disturbed, deaf>>
vars == <<timer, radio, timerVars, mac, bgScan, irqVars, air, history>>

\* A node in the middle of a slot it sleeps in, its first.
Init ==
    /\ slotStart = Start
    /\ timer = SetPeriodic([TimerInit EXCEPT !.counter = slotStart], InterSlot, WholeSlot, "newSlot")
    /\ radio = RadioInit
    /\ isr = Last /\ lag = 0 /\ opening = FALSE /\ kind = "rx"
    /\ mac = "sleep" /\ bgScan = FALSE /\ goesOn = FALSE
    /\ irq = "off" /\ entered = 0 /\ loaded = {} /\ again = FALSE
    /\ air = 0 /\ copy = Blank
    /\ disturbed = 0 /\ deaf = FALSE

-----------------------------------------------------------------------------
(* Time and the peripherals. *)

\* The timer interrupt is entered at once and takes at most MaxLag; the radio interrupt takes no
\* time but what the timer interrupt takes from it; a frame takes at most FrameMax.
Tick ==
    /\ IF isr = Last
       THEN ~Due(timer) /\ irq = "off" /\ ~radio.requested
       ELSE lag < MaxLag
    /\ timer.counter # Stop
    /\ radio.hw \notin {"sending", "turningOff"}
    /\ radio.hw \in {"receiving", "onAir"} => air < FrameMax
    /\ timer' = CountUp(timer)
    /\ lag' = IF isr = Last THEN 0 ELSE lag + 1
    /\ air' = IF radio.hw \in {"receiving", "onAir"} THEN air + 1 ELSE 0
    /\ disturbed' = IF timer'.counter = 0 THEN 2 ELSE disturbed
    /\ UNCHANGED <<radio, isr, opening, kind, slotStart, goesOn, mac, bgScan, irqVars,
                   deaf>>

\* Some gateway or node sends; gateways are not in step with each other.
Hear ==
    /\ radio.hw = "listening"
    /\ radio' = FrameStarts(radio, IF radio.pdu = "even" THEN "odd" ELSE "even")
    /\ UNCHANGED <<timer, timerVars, mac, bgScan, irqVars, air, history>>

StartSending ==
    /\ radio.hw = "sending"
    /\ radio' = SendingStarts(radio)
    /\ UNCHANGED <<timer, timerVars, mac, bgScan, irqVars, air, history>>

EndFrame(ok) ==
    /\ radio.hw \in {"receiving", "onAir"}
    /\ air >= FrameMin
    /\ radio.hw = "onAir" => ok
    /\ radio' = FrameEnds(radio, ok)
    /\ air' = 0
    /\ deaf' = (deaf \/ (bgScan /\ ~ok))
    /\ UNCHANGED <<timer, timerVars, mac, bgScan, irqVars, disturbed>>

TurnOff ==
    /\ radio.hw = "turningOff"
    /\ radio' = TurnsOff(radio)
    /\ UNCHANGED <<timer, timerVars, mac, bgScan, irqVars, air, history>>

-----------------------------------------------------------------------------
(* The timer interrupt. *)

EnterIsr ==
    /\ isr = Last
    /\ Due(timer)
    /\ timer' = EndDelay(timer)
    /\ isr' = 0
    /\ UNCHANGED <<radio, lag, opening, kind, slotStart, goesOn, mac, bgScan, irqVars, air,
                   history>>

\* The next channel with an event, Last when there is none.
First == CHOOSE c \in isr .. Last :
    /\ c = Last \/ timer.channel[c].event
    /\ \A d \in isr .. c - 1 : ~timer.channel[d].event

\* Mutant of LeaveIsr: clears the events, one that has come since its channel was looked at included.
LeaveIsrClearing ==
    /\ isr < Last /\ ~opening
    /\ First = Last
    /\ isr' = Last /\ lag' = 0
    /\ timer' = [timer EXCEPT !.channel = [c \in Channel |-> [@[c] EXCEPT !.event = FALSE]]]
    /\ UNCHANGED <<radio, opening, kind, slotStart, goesOn, mac, bgScan, irqVars, air,
                   history>>

LeaveIsr ==
    /\ isr < Last /\ ~opening
    /\ First = Last
    /\ isr' = Last /\ lag' = 0
    /\ UNCHANGED <<timer, radio, opening, kind, slotStart, goesOn, mac, bgScan, irqVars, air,
                   history>>

\* The interrupt takes the event of a channel, and calls f.
Calls(f) ==
    /\ isr < Last /\ ~opening
    /\ First < Last
    /\ timer.channel[First].callback = f
    /\ isr' = First + 1
    /\ lag' = IF isr' = Last THEN 0 ELSE lag
    /\ UNCHANGED <<irqVars, air>>
Acknowledged == Acknowledge(timer, First)

\* An event of a channel that was cancelled.
CallNothing ==
    /\ Calls(NoCallback)
    /\ timer' = Acknowledged
    /\ UNCHANGED <<radio, opening, kind, slotStart, goesOn, mac, bgScan, history>>

\* Mutant of Quietened: the timer that is to switch the radio on again is forgotten.
QuietenedBut2(t) == Cancel(Cancel(t, 1), 3)

\* disable_radio_and_intra_slot_timers
Quietened(t) == Cancel(Cancel(Cancel(t, 1), 2), 3)

\* new_slot_synced reads the clock...
NewSlot ==
    /\ Calls("newSlot")
    /\ timer' = Acknowledged
    /\ opening' = TRUE
    /\ kind' \in Kind
    /\ kind = "scan" => (kind' = "scan" <=> goesOn)
    /\ slotStart' = timer.counter
    /\ disturbed' = IF disturbed = 0 \/ bgScan THEN disturbed ELSE disturbed - 1
    /\ UNCHANGED <<radio, goesOn, mac, bgScan, deaf>>

Opens(k) ==
    /\ opening /\ kind = k
    /\ opening' = FALSE
    /\ UNCHANGED <<isr, lag, kind, slotStart, irqVars, air, disturbed>>

\* ... and calls activity_ti1,
OpenTx ==
    /\ Opens("tx")
    /\ mac' = "txOffset"
    /\ timer' = SetOneShotWithRefDiff(
                    SetOneShotWithRefDiff(timer, 1, slotStart, TxOffset, "ti2"),
                    2, slotStart, TxOffset + TxMax, "tie1")
    /\ radio' = TxPrepare(Disable(radio), "mine")
    /\ UNCHANGED <<bgScan, goesOn, deaf>>

\* activity_ri1,
OpenRx ==
    /\ Opens("rx")
    /\ mac' = "rxOffset"
    /\ timer' = SetOneShotWithRefDiff(
                    SetOneShotWithRefDiff(
                        SetOneShotWithRefDiff(timer, 1, slotStart, RxOffset, "ri2"),
                        2, slotStart, TxOffset + RxGuard, "rie1"),
                    3, slotStart, RxOffset + RxMax, "rie2")
    /\ UNCHANGED <<radio, bgScan, goesOn, deaf>>

\* or start_or_continue_background_scan; in a shared uplink activity_ti1 has set the state before it
\* finds that there is nothing to send.
OpenScan(shared) ==
    /\ Opens("scan")
    /\ goesOn' \in BOOLEAN
    /\ timer' = SetOneShotWithRef(timer, 1, slotStart, BgScanDuration, "endScan")
    /\ IF bgScan
       THEN mac' = (IF shared THEN "txOffset" ELSE mac) /\ UNCHANGED <<radio, deaf>>
       ELSE mac' = "listen" /\ radio' = Rx(Disable(radio)) /\ deaf' = FALSE
    /\ bgScan' = TRUE

Ti2 ==
    /\ Calls("ti2")
    /\ timer' = Acknowledged
    /\ mac' = "txData"
    /\ radio' = TxDispatch(radio)
    /\ UNCHANGED <<opening, kind, slotStart, goesOn, bgScan, history>>

Ri2 ==
    /\ Calls("ri2")
    /\ timer' = Acknowledged
    /\ mac' = "listen"
    /\ radio' = Rx(Disable(radio))
    /\ UNCHANGED <<opening, kind, slotStart, goesOn, bgScan, history>>

\* activity_tie1, activity_rie1 and activity_rie2
Abort ==
    /\ \E f \in {"tie1", "rie1", "rie2"} : Calls(f)
    /\ timer' = Quietened(Acknowledged)
    /\ mac' = "sleep"
    /\ radio' = Disable(radio)
    /\ UNCHANGED <<opening, kind, slotStart, goesOn, bgScan, history>>

\* end_background_scan
EndScan ==
    /\ Calls("endScan")
    /\ IF goesOn
       THEN timer' = Acknowledged /\ UNCHANGED <<mac, radio, bgScan, deaf>>
       ELSE /\ timer' = Quietened(Acknowledged)
            /\ mac' = "sleep" /\ radio' = Disable(radio) /\ bgScan' = FALSE /\ deaf' = FALSE
    /\ UNCHANGED <<opening, kind, slotStart, goesOn, disturbed>>

\* mr_radio_rx, as a callback
RearmRx ==
    /\ Calls("rx")
    /\ timer' = Acknowledged
    /\ radio' = Rx(radio)
    /\ deaf' = (bgScan /\ (deaf \/ ~Idle(radio)))
    /\ UNCHANGED <<opening, kind, slotStart, goesOn, mac, bgScan, disturbed>>

TimerIsr ==
    \/ EnterIsr \/ LeaveIsr \/ CallNothing
    \/ NewSlot \/ OpenTx \/ OpenRx \/ \E shared \in BOOLEAN : OpenScan(shared)
    \/ Ti2 \/ Ri2 \/ Abort \/ EndScan \/ RearmRx

-----------------------------------------------------------------------------
(* The radio interrupt: RADIO_IRQHandler with the handlers of the MAC it calls. *)

IrqStep(here) ==
    /\ isr = Last
    /\ irq = here
    /\ UNCHANGED <<timerVars, bgScan, air, history>>

EnterIrq ==
    /\ IrqStep("off")
    /\ radio.requested
    /\ radio' = TakeAddress(Enter(radio))
    /\ entered' = timer.counter
    /\ loaded' = IF radio.address THEN radio.state ELSE {}
    /\ irq' = IF radio.address THEN "busy" ELSE "end"
    /\ UNCHANGED <<timer, mac, again, copy>>

\* isr_mac_radio_start_frame, with activity_ri3
HandleStart ==
    /\ IrqStep("busy")
    /\ radio' = MarkBusy(radio, loaded)
    /\ loaded' = {}
    /\ mac' = IF bgScan \/ mac = "listen" THEN "rxData" ELSE mac
    /\ timer' = IF ~bgScan /\ mac = "listen" THEN Cancel(timer, 2) ELSE timer
    /\ irq' = "end"
    /\ UNCHANGED <<entered, again, copy>>

\* The handler of the MAC for the end of a frame, if there is one.
Handler ==
    IF ~HasReceived(radio) /\ ~HasSent(radio) THEN "disabled"
    ELSE IF bgScan THEN "read"
    ELSE IF mac = "txData" THEN "ti3"
    ELSE IF mac = "rxData" THEN "ri4"
    ELSE "disabled"

EndOfFrame ==
    /\ IrqStep("end")
    /\ radio' = TakeEnd(radio)
    /\ irq' = Handler
    /\ UNCHANGED <<timer, mac, entered, loaded, again, copy>>

\* activity_ti3
Ti3 ==
    /\ IrqStep("ti3")
    /\ mac' = "sleep"
    /\ timer' = Quietened(timer) /\ radio' = Disable(radio)
    /\ irq' = "disabled"
    /\ UNCHANGED <<entered, loaded, again, copy>>

\* activity_ri4 up to the copy of the frame
Ri4 ==
    /\ IrqStep("ri4")
    /\ mac' = "sleep"
    /\ timer' = Cancel(timer, 3)
    /\ copy' = IF radio.unread THEN radio.pdu ELSE copy
    /\ irq' = IF radio.unread THEN "copied4" ELSE "end4"
    /\ UNCHANGED <<radio, entered, loaded, again>>

Ri4Copied ==
    /\ IrqStep("copied4")
    /\ radio' = HasRead(radio)
    /\ copy' = Blank
    /\ irq' = "end4"
    /\ UNCHANGED <<timer, mac, entered, loaded, again>>

\* its end, after mr_handle_packet
Ri4End ==
    /\ IrqStep("end4")
    /\ timer' = Quietened(timer) /\ radio' = Disable(radio)
    /\ irq' = "disabled"
    /\ UNCHANGED <<mac, entered, loaded, again, copy>>

\* activity_scan_end_frame: the frame is copied,
ScanRead ==
    /\ IrqStep("read")
    /\ copy' = radio.pdu
    /\ irq' = "copied"
    /\ UNCHANGED <<timer, radio, mac, entered, loaded, again>>

ScanCopied ==
    /\ IrqStep("copied")
    /\ radio' = HasRead(radio)
    /\ copy' = Blank
    /\ again' = (bgScan /\ goesOn)
    /\ irq' = "rearm"
    /\ UNCHANGED <<timer, mac, entered, loaded>>

\* Mutant of ScanRearm: the radio is switched on at once, what the comment at mac.c:796 warns of.
ScanRearmAtOnce ==
    /\ IrqStep("rearm")
    /\ mac' = IF again THEN "listen" ELSE "sleep"
    /\ radio' = IF again THEN Rx(radio) ELSE radio
    /\ again' = FALSE
    /\ irq' = "disabled"
    /\ UNCHANGED <<timer, entered, loaded, copy>>

\* and if the scan goes on, the radio is to be switched on again.
ScanRearm ==
    /\ IrqStep("rearm")
    /\ mac' = IF again THEN "listen" ELSE "sleep"
    /\ timer' = IF again THEN SetOneShotWithRef(timer, 2, entered, RearmDelay, "rx") ELSE timer
    /\ again' = FALSE
    /\ irq' = "disabled"
    /\ UNCHANGED <<radio, entered, loaded, copy>>

RadioIsOff ==
    /\ IrqStep("disabled")
    /\ IF radio.disabled
       THEN radio' = TakeDisabled(radio) /\ irq' = "idle"
       ELSE irq' = "off" /\ UNCHANGED radio
    /\ entered' = 0
    /\ UNCHANGED <<timer, mac, loaded, again, copy>>

RadioIsIdle ==
    /\ IrqStep("idle")
    /\ radio' = BecomeIdle(radio)
    /\ irq' = "off"
    /\ UNCHANGED <<timer, mac, entered, loaded, again, copy>>

RadioIrq ==
    \/ EnterIrq \/ HandleStart \/ EndOfFrame
    \/ Ti3 \/ Ri4 \/ Ri4Copied \/ Ri4End \/ ScanRead \/ ScanCopied \/ ScanRearm
    \/ RadioIsOff \/ RadioIsIdle

Peripherals == Tick \/ Hear \/ StartSending \/ TurnOff \/ \E ok \in BOOLEAN : EndFrame(ok)

Next == Peripherals \/ TimerIsr \/ RadioIrq

Spec == Init /\ [][Next]_vars

-----------------------------------------------------------------------------
Quiet ==
    /\ isr = Last /\ ~Due(timer)
    /\ irq = "off" /\ ~radio.requested
    /\ radio.hw \notin {"sending", "turningOff"}

Since(base) == (timer.counter - base + Wrap) % Wrap
Off(c) == ~timer.channel[c].enabled

\* No slot is skipped and no lateness adds up: each starts soon after the slot timer says, whatever the
\* interrupts were busy with, also when the counter passes 0 (mr_timer_hf.c:234-254, mac.c:241-242).
SlotsPunctual ==
    LET due == timer.channel[InterSlot].cc - WholeSlot    \* of the slot that goes on
    IN  /\ Since(due) <= WholeSlot + 2 * MaxLag
        /\ (slotStart - due) % Wrap <= 2 * MaxLag

\* What is copied of a frame is the frame: neither the next one nor a packet to be sent gets into the
\* buffer before the copy is done (mr_radio_default.c:238-263, mac.c:573-614, 784-807).
ReadIsWhole == disturbed = 0 /\ irq \in {"copied", "copied4"} => copy \in Received /\ radio.pdu = copy

\* The driver takes the radio for idle when it is off or prepared to send, and only then; otherwise
\* the next slot would be refused the radio (mr_radio_default.c:265-299, 320-370).
DriverKnowsRadio == Quiet /\ disturbed = 0 => (Idle(radio) <=> radio.hw \in {"off", "ready"})

\* The node sends where the slot has the frame, and listens for its start from RxGuard before to
\* RxGuard after, whatever the slot before was used for (mac.c:431-545).
OnTime ==
    disturbed = 0 =>
        /\ radio.hw = "sending" => Since(slotStart) \in TxOffset .. TxOffset + MaxLag
        /\ Quiet /\ radio.hw = "listening" /\ ~bgScan =>
              Since(slotStart) \in RxOffset .. TxOffset + RxGuard + MaxLag

\* A slot that is over leaves nothing behind that would act in the next one: no radio that is on, no
\* timer that is armed (end_slot, mac.c:309-324).
NothingLeftBehind ==
    disturbed = 0 /\ Quiet /\ mac = "sleep" /\ ~bgScan =>
        radio.hw = "off" /\ Off(1) /\ Off(2) /\ Off(3)

\* A background scan that goes on into the next slot listens, or is about to again, until it loses a
\* frame to a wrong checksum or its radio to a call that came too early (mac.c:368-427, 784-807).
ScanKeepsListening ==
    disturbed = 0 /\ Quiet /\ bgScan /\ goesOn /\ ~deaf =>
        \/ radio.hw \in {"listening", "receiving"}
        \/ timer.channel[2].enabled /\ timer.channel[2].callback = "rx"
=============================================================================
