-------------------------------- MODULE Radio --------------------------------
(***************************************************************************)
(* The radio driver (drv/mr_radio/mr_radio_default.c) and the RADIO        *)
(* peripheral below it.  Like a timer of TimerHf, a radio is a record, and *)
(* each function of the driver, each event of the peripheral and each part *)
(* of the interrupt handler maps a radio to the radio it leaves.           *)
(*                                                                         *)
(* The flags of radio_vars.state are a set: RADIO_STATE_IDLE is {}.  One   *)
(* buffer, pdu, is written by the driver before it sends and by the        *)
(* peripheral from the start of a frame it receives.  Left out: the        *)
(* physical layer set up by mr_radio_init, frequencies, signal strength.   *)
(***************************************************************************)

CONSTANT Blank   \* a zeroed buffer

\* mr_radio_init
RadioInit ==
    [hw |-> "off",           \* or listening, receiving, ready, sending, onAir, turningOff
     state |-> {},           \* a set of "rx", "tx" and "busy"
     address |-> FALSE, end |-> FALSE, disabled |-> FALSE,   \* the events
     interrupts |-> FALSE,   \* RADIO_INTERRUPTS are enabled
     shorts |-> FALSE,       \* END switches the radio off
     requested |-> FALSE,    \* the interrupt is pending
     crcOk |-> FALSE,
     pdu |-> Blank,
     unread |-> FALSE]       \* pending_rx_read

Idle(r) == r.state = {}

\* mr_radio_disable returns when the radio is off.  It leaves EVENTS_DISABLED set, and the other
\* events and a pending interrupt as they are.
Disable(r) ==
    [r EXCEPT !.interrupts = FALSE, !.shorts = FALSE, !.disabled = TRUE, !.hw = "off", !.state = {}]

\* The common part of mr_radio_rx and mr_radio_tx_dispatch, with _radio_enable.
Enable(r) ==
    [r EXCEPT !.shorts = TRUE, !.interrupts = TRUE,
              !.address = FALSE, !.end = FALSE, !.disabled = FALSE]

\* Mutant of Rx: no test of the state.
RxAlways(r) == [Enable(r) EXCEPT !.hw = "listening", !.state = {"rx"}]

\* mr_radio_rx: a radio that is not idle is left as it is.
Rx(r) ==
    IF Idle(r)
    THEN [Enable(r) EXCEPT !.hw = "listening", !.state = {"rx"}]
    ELSE r

TxPrepare(r, packet) == [r EXCEPT !.pdu = packet, !.hw = "ready"]

\* mr_radio_tx_dispatch: a radio that was not prepared does not start.
TxDispatch(r) ==
    IF Idle(r)
    THEN [Enable(r) EXCEPT !.hw = IF @ = "ready" THEN "sending" ELSE @, !.state = {"tx"}]
    ELSE r

-----------------------------------------------------------------------------
\* The peripheral.  An event requests the interrupt if it is enabled.
FrameStarts(r, packet) ==
    [r EXCEPT !.hw = "receiving", !.pdu = packet, !.address = TRUE, !.requested = @ \/ r.interrupts]

SendingStarts(r) ==
    [r EXCEPT !.hw = "onAir", !.address = TRUE, !.requested = @ \/ r.interrupts]

\* The end of a frame, received or sent.
FrameEnds(r, ok) ==
    [r EXCEPT !.hw = IF r.shorts THEN "turningOff" ELSE "ready",
              !.end = TRUE, !.crcOk = ok, !.requested = @ \/ r.interrupts]

TurnsOff(r) ==
    [r EXCEPT !.hw = "off", !.disabled = TRUE, !.requested = @ \/ r.interrupts]

-----------------------------------------------------------------------------
\* RADIO_IRQHandler, part by part.
Enter(r) == [r EXCEPT !.requested = FALSE]
TakeAddress(r) == [r EXCEPT !.address = FALSE]
\* radio_vars.state |= RADIO_STATE_BUSY, with the state loaded before
MarkBusy(r, loaded) == [r EXCEPT !.state = loaded \cup {"busy"}]
HasReceived(r) == r.end /\ r.state = {"rx", "busy"} /\ r.crcOk
HasSent(r) == r.end /\ r.state = {"tx", "busy"}
TakeEnd(r) == [r EXCEPT !.end = FALSE, !.crcOk = FALSE, !.unread = @ \/ HasReceived(r)]
TakeDisabled(r) == [r EXCEPT !.disabled = FALSE, !.interrupts = FALSE, !.shorts = FALSE]
BecomeIdle(r) == [r EXCEPT !.state = {}]

\* mr_radio_get_rx_packet, after the copy.
HasRead(r) == [r EXCEPT !.unread = FALSE]
=============================================================================
