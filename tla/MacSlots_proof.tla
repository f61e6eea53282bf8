--------------------------- MODULE MacSlots_proof ---------------------------
(***************************************************************************)
(* Proofs about MacSlots, for durations and lags of any length that        *)
(* satisfy SlotAssumption: all properties up to the first time the counter *)
(* wraps, and at the end that of the slot timer, which always holds.       *)
(***************************************************************************)
EXTENDS MacSlots, TLAPS

Flag == {"rx", "tx", "busy"}
Hw == {"off", "listening", "receiving", "ready", "sending", "onAir", "turningOff"}
RadioType ==
    [hw : Hw, state : SUBSET Flag, address : BOOLEAN, end : BOOLEAN, disabled : BOOLEAN,
     interrupts : BOOLEAN, shorts : BOOLEAN, requested : BOOLEAN, crcOk : BOOLEAN,
     pdu : Received \cup {Blank, "mine"}, unread : BOOLEAN]

Types ==
    /\ timer \in Timer(Callback)
    /\ radio \in RadioType
    /\ isr \in 0 .. Last /\ lag \in 0 .. MaxLag /\ (isr = Last => lag = 0)
    /\ opening \in BOOLEAN
    /\ kind \in Kind /\ slotStart \in Count
    /\ bgScan \in BOOLEAN /\ goesOn \in BOOLEAN
    /\ entered \in Count /\ loaded \in SUBSET Flag /\ again \in BOOLEAN
    /\ air \in Nat /\ deaf \in BOOLEAN

-----------------------------------------------------------------------------
(* The constants, and the counter.                                         *)

LEMMA Durations ==
    /\ TxOffset \in Nat /\ RxGuard \in Nat /\ TxMax \in Nat /\ EndGuard \in Nat
    /\ RearmDelay \in Nat /\ FrameMin \in Nat /\ FrameMax \in Nat /\ MaxLag \in Nat
    /\ Last = 4 /\ 0 < RearmDelay /\ RearmDelay < EndGuard
    /\ WholeSlot = TxOffset + TxMax + EndGuard
    /\ RxOffset = TxOffset - RxGuard /\ RxMax = RxGuard + TxMax
    /\ BgScanDuration = TxOffset + TxMax - EndGuard
    /\ MaxLag < TxOffset - RxGuard /\ 3 * MaxLag < EndGuard /\ RxGuard < EndGuard
    /\ 2 * MaxLag < FrameMin /\ FrameMin <= FrameMax /\ FrameMax < TxMax
    /\ 2 * MaxLag < TxOffset + TxMax - EndGuard
    /\ Wrap \in Nat /\ 2 * (TxOffset + TxMax + EndGuard) < Wrap
    /\ Start \in Count /\ Stop \in Count
<1>1. /\ TxOffset \in Nat /\ RxGuard \in Nat /\ TxMax \in Nat /\ EndGuard \in Nat
      /\ RearmDelay \in Nat /\ FrameMin \in Nat /\ FrameMax \in Nat /\ MaxLag \in Nat
      /\ Start \in Count /\ Stop \in Count
  BY SlotAssumption
<1> QED
  BY <1>1, SlotAssumption, TimerAssumption DEF WholeSlot, RxOffset, RxMax, BgScanDuration

LEMMA Wraps ==
    ASSUME NEW x \in Int, -Wrap <= x, x < 2 * Wrap
    PROVE  x % Wrap = IF x < 0 THEN x + Wrap ELSE IF x < Wrap THEN x ELSE x - Wrap
<1>1. CASE x < 0
  <2>1. x = Wrap * (-1) + (x + Wrap) /\ x + Wrap \in 0 .. Wrap - 1
    BY <1>1, TimerAssumption
  <2> QED
    BY <1>1, <2>1, TimerAssumption
<1>2. CASE 0 <= x /\ x < Wrap
  BY <1>2, TimerAssumption
<1>3. CASE Wrap <= x
  <2>1. x = Wrap * 1 + (x - Wrap) /\ x - Wrap \in 0 .. Wrap - 1
    BY <1>3, TimerAssumption
  <2> QED
    BY <1>3, <2>1, TimerAssumption
<1> QED
  BY <1>1, <1>2, <1>3, TimerAssumption

LEMMA InCount == ASSUME NEW x \in Int PROVE x % Wrap \in Count
BY TimerAssumption DEF Count

-----------------------------------------------------------------------------
(* What the driver of the timer does to its channels.                      *)

LEMMA Arms ==
    ASSUME NEW t \in Timer(Callback), NEW c \in Channel, NEW us \in Int, NEW once \in BOOLEAN,
           NEW f \in Callback
    PROVE  LET u == Arm(t, c, us, once, f) IN
           /\ u \in Timer(Callback) /\ u.counter = t.counter
           /\ \A d \in Channel \ {c} : u.channel[d] = t.channel[d]
           /\ u.channel[c].cc = (t.counter + us) % Wrap
           /\ u.channel[c].enabled = TRUE /\ u.channel[c].oneShot = once
           /\ u.channel[c].callback = f /\ u.channel[c].event = t.channel[c].event
<1>1. us % Wrap \in Count /\ (t.counter + us) % Wrap \in Count
  BY InCount, TimerAssumption DEF Timer, Count
<1> QED
  BY <1>1 DEF Arm, Timer, ChannelType

LEMMA Cancels ==
    ASSUME NEW t \in Timer(Callback), NEW c \in Channel
    PROVE  LET u == Cancel(t, c) IN
           /\ u \in Timer(Callback) /\ u.counter = t.counter
           /\ \A d \in Channel \ {c} : u.channel[d] = t.channel[d]
           /\ u.channel[c].cc = 0 /\ u.channel[c].enabled = FALSE /\ u.channel[c].event = FALSE
           /\ u.channel[c].callback = NoCallback
<1>1. 0 \in Count
  BY TimerAssumption DEF Count
<1> QED
  BY <1>1 DEF Cancel, Timer, ChannelType

LEMMA Quietens ==
    ASSUME NEW t \in Timer(Callback)
    PROVE  LET u == Quietened(t) IN
           /\ u \in Timer(Callback) /\ u.counter = t.counter
           /\ u.channel[0] = t.channel[0] /\ u.channel[4] = t.channel[4]
           /\ \A c \in 1 .. 3 : /\ u.channel[c].cc = 0
                                /\ u.channel[c].enabled = FALSE /\ u.channel[c].event = FALSE
<1> DEFINE v == Cancel(t, 1)
           w == Cancel(v, 2)
           u == Cancel(w, 3)
<1>0. Channel = {0, 1, 2, 3, 4}
  BY Durations DEF Channel
<1>1. /\ v \in Timer(Callback) /\ v.counter = t.counter
      /\ \A d \in Channel \ {1} : v.channel[d] = t.channel[d]
      /\ v.channel[1].cc = 0 /\ v.channel[1].enabled = FALSE /\ v.channel[1].event = FALSE
  BY <1>0, Cancels
<1>2. /\ w \in Timer(Callback) /\ w.counter = v.counter
      /\ \A d \in Channel \ {2} : w.channel[d] = v.channel[d]
      /\ w.channel[2].cc = 0 /\ w.channel[2].enabled = FALSE /\ w.channel[2].event = FALSE
  <2> HIDE DEF v
  <2> QED
    BY <1>0, <1>1, Cancels
<1>3. /\ u \in Timer(Callback) /\ u.counter = w.counter
      /\ \A d \in Channel \ {3} : u.channel[d] = w.channel[d]
      /\ u.channel[3].cc = 0 /\ u.channel[3].enabled = FALSE /\ u.channel[3].event = FALSE
  <2> HIDE DEF w
  <2> QED
    BY <1>0, <1>2, Cancels
<1>4. Quietened(t) = u
  BY DEF Quietened
<1> QED
  <2> HIDE DEF u, v, w
  <2>1. \A c \in 1 .. 3 : c = 1 \/ c = 2 \/ c = 3
    OBVIOUS
  <2> QED
    BY <1>0, <1>1, <1>2, <1>3, <1>4, <2>1

LEMMA Acknowledges ==
    ASSUME NEW t \in Timer(Callback), NEW c \in Channel
    PROVE  LET u == Acknowledge(t, c) IN
           /\ u \in Timer(Callback) /\ u.counter = t.counter
           /\ \A d \in Channel \ {c} : u.channel[d] = t.channel[d]
           /\ u.channel[c].event = FALSE /\ u.channel[c].callback = t.channel[c].callback
           /\ u.channel[c].oneShot = t.channel[c].oneShot
           /\ u.channel[c].period = t.channel[c].period
           /\ t.channel[c].oneShot => /\ u.channel[c].cc = t.channel[c].cc
                                      /\ u.channel[c].enabled = FALSE
           /\ ~t.channel[c].oneShot =>
                /\ u.channel[c].cc = (t.channel[c].cc + t.channel[c].period) % Wrap
                /\ u.channel[c].enabled = t.channel[c].enabled
<1>1. (t.channel[c].cc + t.channel[c].period) % Wrap \in Count
  BY InCount, TimerAssumption DEF Timer, ChannelType, Count
<1>2. CASE t.channel[c].oneShot
  BY <1>2 DEF Acknowledge, Timer, ChannelType
<1>3. CASE ~t.channel[c].oneShot
  <2>1. PICK n : n = [t.channel[c] EXCEPT !.event = FALSE,
                                          !.cc = (t.channel[c].cc + t.channel[c].period) % Wrap]
    OBVIOUS
  <2>2. /\ n \in ChannelType(Callback) /\ n.event = FALSE
        /\ n.cc = (t.channel[c].cc + t.channel[c].period) % Wrap
        /\ n.callback = t.channel[c].callback /\ n.oneShot = t.channel[c].oneShot
        /\ n.period = t.channel[c].period /\ n.enabled = t.channel[c].enabled
    BY <1>1, <2>1 DEF Timer, ChannelType
  <2>3. Acknowledge(t, c) = [t EXCEPT !.channel[c] = n]
    BY <1>3, <2>1 DEF Acknowledge, Timer, ChannelType
  <2> QED
    BY <1>3, <2>2, <2>3 DEF Timer
<1> QED
  BY <1>2, <1>3

LEMMA CountsUp ==
    ASSUME NEW t \in Timer(Callback)
    PROVE  LET u == CountUp(t) IN
           /\ u \in Timer(Callback) /\ u.counter = (t.counter + 1) % Wrap
           /\ \A c \in Channel :
                /\ u.channel[c].cc = t.channel[c].cc /\ u.channel[c].enabled = t.channel[c].enabled
                /\ u.channel[c].oneShot = t.channel[c].oneShot
                /\ u.channel[c].period = t.channel[c].period
                /\ u.channel[c].callback = t.channel[c].callback
                /\ u.channel[c].event <=> t.channel[c].event \/ t.channel[c].cc = u.counter
<1> DEFINE later == (t.counter + 1) % Wrap
<1>1. later \in Count
  BY InCount, TimerAssumption DEF Timer, Count
<1>2. CountUp(t) = [t EXCEPT !.counter = later,
            !.channel = [c \in Channel |-> [t.channel[c] EXCEPT !.event = @ \/ t.channel[c].cc = later]]]
  BY DEF CountUp
<1> HIDE DEF later
<1>3. \A c \in Channel :
        [t.channel[c] EXCEPT !.event = @ \/ t.channel[c].cc = later] \in ChannelType(Callback)
  BY DEF Timer, ChannelType
<1>4. CountUp(t) \in Timer(Callback)
  BY <1>1, <1>2, <1>3 DEF Timer
<1>5. CountUp(t).counter = later
  BY <1>2 DEF Timer
<1>6. ASSUME NEW c \in Channel
      PROVE  LET before == t.channel[c]
                 after == CountUp(t).channel[c]
             IN  /\ after.cc = before.cc /\ after.enabled = before.enabled
                 /\ after.oneShot = before.oneShot /\ after.period = before.period
                 /\ after.callback = before.callback
                 /\ after.event <=> before.event \/ before.cc = later
  <2> DEFINE before == t.channel[c]
             happens == before.event \/ before.cc = later
  <2>1. CountUp(t).channel[c] = [before EXCEPT !.event = happens]
    BY <1>2 DEF Timer, ChannelType
  <2>2. before \in ChannelType(Callback)
    BY DEF Timer
  <2> HIDE DEF before, happens
  <2>3. CountUp(t).channel[c].event = happens
    BY <2>1, <2>2 DEF ChannelType
  <2>4. /\ CountUp(t).channel[c].cc = before.cc /\ CountUp(t).channel[c].enabled = before.enabled
        /\ CountUp(t).channel[c].oneShot = before.oneShot
        /\ CountUp(t).channel[c].period = before.period
        /\ CountUp(t).channel[c].callback = before.callback
    BY <2>1, <2>2 DEF ChannelType
  <2> QED
    BY <2>3, <2>4 DEF before, happens
<1> QED
  BY <1>4, <1>5, <1>6 DEF later

LEMMA EndsDelay ==
    ASSUME NEW t \in Timer(Callback)
    PROVE  LET u == EndDelay(t) IN
           /\ u \in Timer(Callback) /\ u.counter = t.counter
           /\ \A d \in Channel \ {Last} : u.channel[d] = t.channel[d]
           /\ u.channel[Last].event = FALSE
           /\ u.channel[Last].cc = t.channel[Last].cc
<1>1. Last \in Channel
  BY TimerAssumption DEF Channel
<1> QED
  BY <1>1 DEF EndDelay, Timer, ChannelType

-----------------------------------------------------------------------------
(* The driver of the radio.                                                *)

LEMMA RadioKeepsType ==
    ASSUME NEW r \in RadioType, NEW p \in Received \cup {Blank, "mine"}, NEW ok \in BOOLEAN,
           NEW flags \in SUBSET Flag
    PROVE  /\ Disable(r) \in RadioType /\ Rx(r) \in RadioType /\ TxPrepare(r, p) \in RadioType
           /\ TxDispatch(r) \in RadioType
           /\ FrameStarts(r, p) \in RadioType /\ SendingStarts(r) \in RadioType
           /\ FrameEnds(r, ok) \in RadioType /\ TurnsOff(r) \in RadioType
           /\ Enter(r) \in RadioType /\ TakeAddress(r) \in RadioType
           /\ MarkBusy(r, flags) \in RadioType /\ TakeEnd(r) \in RadioType
           /\ TakeDisabled(r) \in RadioType /\ BecomeIdle(r) \in RadioType
           /\ HasRead(r) \in RadioType
<1> DEFINE enabled == Enable(r)
           asks == r.requested \/ r.interrupts
           unread == r.unread \/ HasReceived(r)
<1>1. enabled \in RadioType /\ asks \in BOOLEAN /\ unread \in BOOLEAN
  BY DEF RadioType, Enable
<1>2. Rx(r) = IF r.state = {} THEN [enabled EXCEPT !.hw = "listening", !.state = {"rx"}] ELSE r
  BY DEF Rx, Idle
<1>3. TxDispatch(r) = IF r.state = {}
        THEN [enabled EXCEPT !.hw = IF enabled.hw = "ready" THEN "sending" ELSE enabled.hw, !.state = {"tx"}]
        ELSE r
  BY <1>1 DEF TxDispatch, Idle, RadioType
<1>4. /\ FrameStarts(r, p) = [r EXCEPT !.hw = "receiving", !.pdu = p, !.address = TRUE, !.requested = asks]
      /\ SendingStarts(r) = [r EXCEPT !.hw = "onAir", !.address = TRUE, !.requested = asks]
      /\ TurnsOff(r) = [r EXCEPT !.hw = "off", !.disabled = TRUE, !.requested = asks]
  BY DEF FrameStarts, SendingStarts, TurnsOff, RadioType
<1>5. FrameEnds(r, ok) = [r EXCEPT !.hw = IF r.shorts THEN "turningOff" ELSE "ready",
              !.end = TRUE, !.crcOk = ok, !.requested = asks]
  BY DEF FrameEnds, RadioType
<1>6. TakeEnd(r) = [r EXCEPT !.end = FALSE, !.crcOk = FALSE, !.unread = unread]
  BY DEF TakeEnd, RadioType
<1> HIDE DEF enabled, asks, unread
<1>7. Disable(r) \in RadioType /\ TxPrepare(r, p) \in RadioType
  BY DEF Disable, TxPrepare, RadioType, Hw
<1>8. Rx(r) \in RadioType /\ TxDispatch(r) \in RadioType
  <2>1. {"rx"} \in SUBSET Flag /\ {"tx"} \in SUBSET Flag
    BY DEF Flag
  <2>2. /\ [enabled EXCEPT !.hw = "listening", !.state = {"rx"}] \in RadioType
        /\ [enabled EXCEPT !.hw = IF enabled.hw = "ready" THEN "sending" ELSE enabled.hw, !.state = {"tx"}]
             \in RadioType
    BY <1>1, <2>1 DEF RadioType, Hw
  <2> QED
    BY <1>2, <1>3, <2>2
<1>10. FrameStarts(r, p) \in RadioType /\ SendingStarts(r) \in RadioType /\ TurnsOff(r) \in RadioType
  <2>1. FrameStarts(r, p) \in RadioType
    <3>1. /\ "receiving" \in Hw /\ p \in Received \cup {Blank, "mine"}
          /\ FrameStarts(r, p) = [r EXCEPT !.hw = "receiving", !.pdu = p, !.address = TRUE,
                                           !.requested = asks]
      BY <1>4 DEF Hw
    <3> QED
      BY <1>1, <3>1 DEF RadioType
  <2>2. SendingStarts(r) \in RadioType
    BY <1>1, <1>4 DEF RadioType, Hw
  <2>3. TurnsOff(r) \in RadioType
    BY <1>1, <1>4 DEF RadioType, Hw
  <2> QED
    BY <2>1, <2>2, <2>3
<1>11. FrameEnds(r, ok) \in RadioType
  BY <1>1, <1>5 DEF RadioType, Hw
<1>12. Enter(r) \in RadioType /\ TakeAddress(r) \in RadioType /\ HasRead(r) \in RadioType
       /\ TakeDisabled(r) \in RadioType /\ BecomeIdle(r) \in RadioType
  BY DEF RadioType, Enter, TakeAddress, HasRead, TakeDisabled, BecomeIdle
<1>13. MarkBusy(r, flags) \in RadioType
  BY DEF RadioType, MarkBusy, Flag
<1>14. TakeEnd(r) \in RadioType
  BY <1>1, <1>6 DEF RadioType
<1> QED
  BY <1>7, <1>8, <1>10, <1>11, <1>12, <1>13, <1>14

-----------------------------------------------------------------------------
(* The loop of the timer interrupt.                                        *)

LEMMA FirstIs ==
    ASSUME Types
    PROVE  /\ First \in isr .. 4
           /\ First # 4 => timer.channel[First].event
           /\ \A d \in isr .. First - 1 : ~timer.channel[d].event
<1> DEFINE Is(c) == /\ c = Last \/ timer.channel[c].event
                    /\ \A d \in isr .. c - 1 : ~timer.channel[d].event
<1>1. Last = 4 /\ isr \in 0 .. 4
  BY Durations DEF Types
<1>2. \E c \in isr .. Last : Is(c)
  <2>1. CASE \A d \in isr .. 3 : ~timer.channel[d].event
    BY <1>1, <2>1
  <2>2. CASE isr <= 3 /\ timer.channel[3].event /\ \A d \in isr .. 2 : ~timer.channel[d].event
    BY <1>1, <2>2
  <2>3. CASE isr <= 2 /\ timer.channel[2].event /\ \A d \in isr .. 1 : ~timer.channel[d].event
    BY <1>1, <2>3
  <2>4. CASE isr <= 1 /\ timer.channel[1].event /\ \A d \in isr .. 0 : ~timer.channel[d].event
    BY <1>1, <2>4
  <2>5. CASE isr = 0 /\ timer.channel[0].event
    BY <1>1, <2>5
  <2> QED
    BY <1>1, <2>1, <2>2, <2>3, <2>4, <2>5
<1>3. First = CHOOSE c \in isr .. Last : Is(c)
  BY DEF First
<1>4. First \in isr .. Last /\ Is(First)
  <2> HIDE DEF Is
  <2> QED
    BY <1>2, <1>3
<1> QED
  BY <1>1, <1>4

\* A call takes the event of a channel.  The channels looked at before it have none.
LEMMA CallTakes ==
    ASSUME Types, NEW f, Calls(f)
    PROVE  /\ First \in 0 .. 3 /\ First \in Channel /\ timer.channel[First].event
           /\ timer.channel[First].callback = f
           /\ isr <= First /\ isr < Last /\ isr' = First + 1 /\ ~opening
           /\ \A d \in 0 .. 3 : isr <= d /\ d < First => ~timer.channel[d].event
           /\ lag' = IF isr' = Last THEN 0 ELSE lag
<1>1. Last = 4 /\ isr \in 0 .. 4
  BY Durations DEF Types
<1> QED
  BY <1>1, FirstIs DEF Calls, Channel

LEMMA TypesStep ==
    ASSUME Types, [Next]_vars
    PROVE  Types'
<1>1. Last = 4 /\ MaxLag \in Nat /\ isr \in 0 .. 4 /\ Channel = {0, 1, 2, 3, 4} /\ lag \in Nat
      /\ timer.counter \in Count /\ Count \subseteq Int /\ Wrap \in Nat /\ timer.counter \in Int
      /\ entered \in Int /\ slotStart \in Int
      /\ TxOffset \in Nat /\ RxOffset \in Int /\ TxMax \in Nat /\ RxMax \in Int /\ RxGuard \in Nat
      /\ BgScanDuration \in Int /\ RearmDelay \in Nat
  BY Durations DEF Types, Channel, Timer, Count
<1>2. CASE Peripherals
  <2>1. CASE Tick
    <3>1. timer' \in Timer(Callback)
      BY <2>1, CountsUp DEF Tick, Types
    <3> QED
      BY <1>1, <2>1, <3>1 DEF Tick, Types, irqVars
  <2>2. CASE Hear \/ StartSending \/ TurnOff \/ \E ok \in BOOLEAN : EndFrame(ok)
    <3>1. radio' \in RadioType
      BY <2>2, RadioKeepsType DEF Hear, StartSending, TurnOff, EndFrame, Types, Received
    <3>2. air' \in Nat /\ deaf' \in BOOLEAN
      BY <2>2 DEF Hear, StartSending, TurnOff, EndFrame, Types, history
    <3>3. UNCHANGED <<timer, timerVars, bgScan, irqVars>>
      BY <2>2 DEF Hear, StartSending, TurnOff, EndFrame
    <3> QED
      BY <1>1, <3>1, <3>2, <3>3 DEF Types, timerVars, irqVars
  <2> QED
    BY <1>2, <2>1, <2>2 DEF Peripherals
<1>3. CASE EnterIsr \/ LeaveIsr
  <2>1. timer' \in Timer(Callback)
    BY <1>3, EndsDelay DEF EnterIsr, LeaveIsr, Types
  <2>2. UNCHANGED <<radio, opening, kind, slotStart, goesOn, bgScan, irqVars, air, history>>
    BY <1>3 DEF EnterIsr, LeaveIsr
  <2>3. isr' \in 0 .. 4 /\ lag' \in 0 .. MaxLag /\ (isr' = Last => lag' = 0)
    BY <1>1, <1>3 DEF EnterIsr, LeaveIsr, Types
  <2> QED
    BY <1>1, <2>1, <2>2, <2>3 DEF Types, irqVars, history
<1>4. ASSUME NEW f, Calls(f), timer' = Acknowledged \/ timer' = Quietened(Acknowledged)
      PROVE  /\ timer' \in Timer(Callback) /\ isr' \in 0 .. 4 /\ lag' \in 0 .. MaxLag
             /\ isr' = Last => lag' = 0
             /\ UNCHANGED <<irqVars, air>>
  <2>1. Acknowledged \in Timer(Callback)
    BY <1>4, CallTakes, Acknowledges DEF Acknowledged, Types
  <2>2. timer' \in Timer(Callback)
    BY <1>4, <2>1, Quietens
  <2> QED
    BY <1>1, <1>4, <2>2, CallTakes DEF Types, Calls
<1>5. CASE CallNothing \/ Ti2 \/ Ri2 \/ Abort \/ EndScan \/ RearmRx
  <2>1. /\ timer' \in Timer(Callback) /\ isr' \in 0 .. 4 /\ lag' \in 0 .. MaxLag
        /\ isr' = Last => lag' = 0
        /\ UNCHANGED <<irqVars, air>>
    BY <1>4, <1>5 DEF CallNothing, Ti2, Ri2, Abort, EndScan, RearmRx
  <2>2. radio' \in RadioType
    <3>1. Disable(radio) \in RadioType
      BY RadioKeepsType DEF Types
    <3> QED
      BY <1>5, <3>1, RadioKeepsType DEF CallNothing, Ti2, Ri2, Abort, EndScan, RearmRx, Types
  <2>3. /\ UNCHANGED <<opening, kind, slotStart, goesOn>>
        /\ bgScan' \in BOOLEAN /\ deaf' \in BOOLEAN
    BY <1>5 DEF CallNothing, Ti2, Ri2, Abort, EndScan, RearmRx, Types, history
  <2> QED
    BY <1>1, <2>1, <2>2, <2>3 DEF Types, irqVars
<1>6. CASE NewSlot
  <2>1. /\ timer' \in Timer(Callback) /\ isr' \in 0 .. 4 /\ lag' \in 0 .. MaxLag
        /\ isr' = Last => lag' = 0
        /\ UNCHANGED <<irqVars, air>>
    BY <1>4, <1>6 DEF NewSlot
  <2> QED
    BY <1>1, <1>6, <2>1 DEF NewSlot, Types, irqVars
<1>7. CASE OpenTx \/ OpenRx \/ \E shared \in BOOLEAN : OpenScan(shared)
  <2>1. timer' \in Timer(Callback)
    <3>1. ASSUME NEW t \in Timer(Callback), NEW c \in 1 .. 3, NEW base \in Int, NEW us \in Int,
                 NEW f \in Callback
          PROVE  /\ SetOneShotWithRef(t, c, base, us, f) \in Timer(Callback)
                 /\ SetOneShotWithRefDiff(t, c, base, us, f) \in Timer(Callback)
      <4>1. t.counter \in Int /\ c \in Channel
        BY <1>1 DEF Timer, Count
      <4>2. us + (t.counter - base) \in Int /\ us - (t.counter - base) \in Int
        BY <4>1
      <4> QED
        BY <4>1, <4>2, Arms DEF SetOneShotWithRef, SetOneShotWithRefDiff, SetOneShot
    <3>2. slotStart \in Int
      BY <1>1 DEF Types
    <3> DEFINE tx1 == SetOneShotWithRefDiff(timer, 1, slotStart, TxOffset, "ti2")
               rx1 == SetOneShotWithRefDiff(timer, 1, slotStart, RxOffset, "ri2")
               rx2 == SetOneShotWithRefDiff(rx1, 2, slotStart, TxOffset + RxGuard, "rie1")
    <3>3. tx1 \in Timer(Callback) /\ rx1 \in Timer(Callback)
      BY <1>1, <3>1, <3>2 DEF Callback, Types
    <3>4. rx2 \in Timer(Callback)
      <4> HIDE DEF rx1
      <4> QED
        BY <1>1, <3>1, <3>2, <3>3 DEF Callback
    <3>5. CASE OpenTx
      <4>1. timer' = SetOneShotWithRefDiff(tx1, 2, slotStart, TxOffset + TxMax, "tie1")
        BY <3>5 DEF OpenTx
      <4> HIDE DEF tx1
      <4> QED
        BY <1>1, <3>1, <3>2, <3>3, <4>1 DEF Callback
    <3>6. CASE OpenRx
      <4>1. timer' = SetOneShotWithRefDiff(rx2, 3, slotStart, RxOffset + RxMax, "rie2")
        BY <3>6 DEF OpenRx
      <4> HIDE DEF rx2
      <4> QED
        BY <1>1, <3>1, <3>2, <3>4, <4>1 DEF Callback
    <3>7. CASE \E shared \in BOOLEAN : OpenScan(shared)
      BY <1>1, <3>1, <3>2, <3>7 DEF OpenScan, Callback, Types
    <3> QED
      BY <1>7, <3>5, <3>6, <3>7
  <2>2. radio' \in RadioType
    <3>1. Disable(radio) \in RadioType
      BY RadioKeepsType DEF Types
    <3> QED
      BY <1>7, <3>1, RadioKeepsType DEF OpenTx, OpenRx, OpenScan, Types
  <2>3. /\ opening' = FALSE /\ UNCHANGED <<isr, lag, kind, slotStart, irqVars, air>>
        /\ goesOn' \in BOOLEAN /\ bgScan' \in BOOLEAN /\ deaf' \in BOOLEAN
    BY <1>7 DEF OpenTx, OpenRx, OpenScan, Opens, Types
  <2> QED
    BY <1>1, <2>1, <2>2, <2>3 DEF Types, irqVars
<1>8. CASE RadioIrq
  <2>1. timer' \in Timer(Callback)
    <3>1. timer \in Timer(Callback) /\ {1, 2, 3} \subseteq Channel
      BY <1>1 DEF Types
    <3>2. CASE HandleStart \/ Ti3 \/ Ri4 \/ Ri4End
      BY <1>1, <3>1, <3>2, Cancels, Quietens DEF HandleStart, Ti3, Ri4, Ri4End
    <3>3. CASE ScanRearm
      <4>1. RearmDelay + (timer.counter - entered) \in Int
        BY <1>1
      <4> QED
        <5>1. Arm(timer, 2, RearmDelay + (timer.counter - entered), TRUE, "rx") \in Timer(Callback)
          <6>1. "rx" \in Callback /\ 2 \in Channel /\ TRUE \in BOOLEAN
            BY <3>1 DEF Callback
          <6> HIDE DEF Callback
          <6> QED
            BY <3>1, <4>1, <6>1, Arms
        <5> QED
          BY <3>1, <3>3, <5>1 DEF ScanRearm, SetOneShotWithRef, SetOneShot
    <3> QED
      BY <1>8, <3>1, <3>2, <3>3 DEF RadioIrq, EnterIrq, EndOfFrame, Ri4Copied, ScanRead, ScanCopied,
         RadioIsOff, RadioIsIdle
  <2>2. radio' \in RadioType
    <3>1. CASE EnterIrq \/ HandleStart \/ EndOfFrame
      <4>1. Enter(radio) \in RadioType
        BY RadioKeepsType DEF Types
      <4> QED
        BY <3>1, <4>1, RadioKeepsType DEF EnterIrq, HandleStart, EndOfFrame, Types
    <3>2. CASE Ti3 \/ Ri4 \/ Ri4Copied \/ Ri4End \/ ScanRead \/ ScanCopied \/ ScanRearm
      BY <3>2, RadioKeepsType DEF Ti3, Ri4, Ri4Copied, Ri4End, ScanRead, ScanCopied, ScanRearm,
         Types
    <3>3. CASE RadioIsOff \/ RadioIsIdle
      BY <3>3, RadioKeepsType DEF RadioIsOff, RadioIsIdle, Types
    <3> QED
      BY <1>8, <3>1, <3>2, <3>3 DEF RadioIrq
  <2>3. /\ UNCHANGED <<timerVars, bgScan, air, deaf>>
        /\ entered' \in Count /\ loaded' \in SUBSET Flag /\ again' \in BOOLEAN
    <3>1. 0 \in Count
      BY TimerAssumption DEF Count
    <3> QED
      BY <1>1, <1>8, <3>1 DEF RadioIrq, IrqStep, history, EnterIrq, HandleStart, EndOfFrame, Ti3,
         Ri4, Ri4Copied, Ri4End,
         ScanRead, ScanCopied, ScanRearm, RadioIsOff, RadioIsIdle, Types, RadioType
  <2> QED
    BY <1>1, <2>1, <2>2, <2>3 DEF Types, timerVars
<1>9. CASE UNCHANGED vars
  BY <1>9 DEF vars, timerVars, irqVars, history, Types
<1> QED
  BY <1>2, <1>3, <1>5, <1>6, <1>7, <1>8, <1>9 DEF Next, TimerIsr

LEMMA TypesInit == Init => Types
<1> SUFFICES ASSUME Init PROVE Types
  OBVIOUS
<1>1. slotStart \in Count /\ 0 \in Count /\ Channel = {0, 1, 2, 3, 4} /\ Last = 4 /\ MaxLag \in Nat
      /\ WholeSlot \in Int
  BY Durations, TimerAssumption DEF Init, Count, Channel
<1>2. [TimerInit EXCEPT !.counter = slotStart] \in Timer(Callback)
  BY <1>1 DEF TimerInit, Timer, ChannelType
<1>3. timer \in Timer(Callback)
  <2> DEFINE t == [TimerInit EXCEPT !.counter = slotStart]
  <2>1. timer = Arm(t, 0, WholeSlot, FALSE, "newSlot")
    BY DEF Init, SetPeriodic, InterSlot
  <2> HIDE DEF t
  <2> QED
    <3>1. "newSlot" \in Callback /\ 0 \in Channel /\ FALSE \in BOOLEAN /\ t \in Timer(Callback)
      BY <1>1, <1>2 DEF Callback, t
    <3> QED
      BY <1>1, <2>1, <3>1, Arms
<1>4. radio \in RadioType
  BY DEF Init, RadioInit, RadioType, Hw, Flag
<1> QED
  <2>1. loaded \in SUBSET Flag /\ air \in Nat /\ kind \in Kind /\ entered \in Count
    BY <1>1 DEF Init, Kind
  <2>2. isr \in 0 .. Last /\ lag \in 0 .. MaxLag /\ (isr = Last => lag = 0)
    BY <1>1 DEF Init
  <2>3. /\ opening \in BOOLEAN /\ bgScan \in BOOLEAN /\ goesOn \in BOOLEAN /\ again \in BOOLEAN
        /\ deaf \in BOOLEAN
    BY DEF Init
  <2> QED
    BY <1>1, <1>3, <1>4, <2>1, <2>2, <2>3 DEF Types

-----------------------------------------------------------------------------
(* The invariant, before the counter wraps.                                *)

now == timer.counter
\* When the timer interrupt was entered, if it has been.
entry == now - lag

\* The event of channel c is that of time x: it is there from then on, until the interrupt takes it,
\* which has passed the channel at most once since.
Expires(c, x) ==
    /\ timer.channel[c].cc = x % Wrap
    /\ timer.channel[c].event <=> x <= now
    /\ timer.channel[c].event => now - x <= lag + MaxLag
    /\ timer.channel[c].event /\ c < isr /\ isr # Last => now - x <= lag

Silent(c) ==
    /\ timer.channel[c].enabled = FALSE /\ timer.channel[c].event = FALSE
    /\ timer.channel[c].cc <= now
Armed(c, f, x) ==
    /\ timer.channel[c].enabled = TRUE /\ timer.channel[c].oneShot = TRUE
    /\ timer.channel[c].callback = f
    /\ Expires(c, x)
\* The radio is to be switched on again.
Rearms ==
    /\ timer.channel[2].enabled = TRUE /\ timer.channel[2].oneShot = TRUE
    /\ timer.channel[2].callback = "rx"
    /\ timer.channel[2].event => timer.channel[2].cc <= now

\* How late new_slot_synced may be: after a scan, the interrupt may have been in use.
LateBy == IF kind = "scan" THEN 2 * MaxLag ELSE MaxLag

Slots ==
    /\ Start <= slotStart /\ slotStart <= now
    /\ timer.channel[0].enabled = TRUE /\ timer.channel[0].oneShot = FALSE
    /\ timer.channel[0].period = WholeSlot /\ timer.channel[0].callback = "newSlot"
    /\ timer.channel[4].event = FALSE /\ timer.channel[4].cc = 0
    /\ \E late \in 0 .. LateBy : Expires(0, slotStart - late + WholeSlot)
    /\ opening => isr = 1

\* By when a slot is over, and what is left of it is done.
ClosedBy == slotStart + TxOffset + TxMax + (IF kind = "scan" THEN 0 ELSE MaxLag)
NotLaterThan(t) == IF isr = Last THEN now <= t + MaxLag ELSE entry <= t
Opened == now - slotStart <= lag

\* What the interrupt of the radio still has to do after the radio was switched off under it.
Drains ==
    /\ radio.address => irq = "off" /\ radio.disabled
    /\ irq = "off" => radio.state = {}
    /\ irq \notin {"off", "idle"} => radio.state = {} \/ radio.disabled
    /\ irq = "busy" => radio.disabled
    /\ irq = "rearm" => ~again
    /\ irq = "read" => radio.pdu \in Received
    /\ irq = "ri4" /\ radio.unread => radio.pdu \in Received
    /\ irq \in {"copied", "copied4"} => radio.pdu \in Received /\ copy = radio.pdu

Closed ==
    /\ ~opening /\ ~bgScan /\ mac = "sleep"
    /\ Silent(1) /\ Silent(2) /\ Silent(3)
    /\ radio.hw = "off"
    /\ \/ irq # "off" \/ radio.requested \/ air # 0 \/ (isr # Last /\ ~timer.channel[0].event)
       => NotLaterThan(ClosedBy)
    /\ timer.channel[0].event => timer.channel[0].cc = entry /\ isr \in {0, Last}
    /\ Drains

\* new_slot_synced has been called, and the slot before is over.
Opening ==
    /\ opening /\ ~bgScan /\ mac = "sleep"
    /\ Silent(1) /\ Silent(2) /\ Silent(3)
    /\ radio.hw = "off" /\ radio.state = {} /\ irq = "off" /\ ~radio.requested
    /\ air = 0 /\ Opened

\* The event of channel c, of time x, is the first the interrupt has to do with.
Prompt(c, x) ==
    /\ timer.channel[c].event => entry = x /\ isr \in {0, Last}
    /\ isr # Last => Opened \/ timer.channel[c].event

TxWaits ==
    /\ ~opening /\ ~bgScan /\ mac = "txOffset" /\ kind = "tx"
    /\ Armed(1, "ti2", slotStart + TxOffset) /\ Prompt(1, slotStart + TxOffset)
    /\ Armed(2, "tie1", slotStart + (TxOffset + TxMax))
    /\ Silent(3)
    /\ radio.hw = "ready" /\ radio.state = {} /\ irq = "off" /\ ~radio.requested
    /\ air = 0

On == radio.interrupts /\ radio.shorts
NoEvents == ~radio.address /\ ~radio.end /\ ~radio.disabled
\* The radio switches itself off after a frame.
SwitchesOff ==
    /\ radio.hw = "off" \/ (radio.hw = "turningOff" /\ radio.interrupts)
    /\ radio.disabled <=> radio.hw = "off"

\* A frame is on the air, and the interrupt of its start not done.
TxStarts ==
    /\ On /\ ~radio.end /\ ~radio.disabled
    /\ \/ /\ irq = "off" /\ radio.hw = "sending" /\ radio.state = {"tx"}
          /\ ~radio.address /\ ~radio.requested /\ air = 0
       \/ /\ irq = "off" /\ radio.hw = "onAir" /\ radio.state = {"tx"}
          /\ radio.address /\ radio.requested
       \/ /\ irq = "busy" /\ radio.hw = "onAir" /\ loaded = {"tx"}
          /\ ~radio.address /\ ~radio.requested
       \/ /\ irq \in {"end", "disabled"} /\ radio.hw = "onAir" /\ radio.state = {"tx", "busy"}
          /\ ~radio.address /\ ~radio.requested
    /\ now <= slotStart + TxOffset + MaxLag /\ air <= now - slotStart - TxOffset
    /\ isr # Last => entry = slotStart + TxOffset
TxSends ==
    /\ irq = "off" /\ radio.hw = "onAir" /\ radio.state = {"tx", "busy"}
    /\ NoEvents /\ ~radio.requested /\ On
TxEnds ==
    /\ SwitchesOff /\ radio.state = {"tx", "busy"} /\ ~radio.address /\ air = 0
    /\ \/ irq = "off" /\ radio.requested /\ radio.end
       \/ irq = "end" /\ radio.end
       \/ irq = "ti3"

TxGoes ==
    /\ ~opening /\ ~bgScan /\ mac = "txData" /\ kind = "tx"
    /\ Silent(1) /\ Silent(3)
    /\ Armed(2, "tie1", slotStart + (TxOffset + TxMax))
    /\ slotStart + TxOffset <= now
    /\ TxStarts \/ TxSends \/ TxEnds

RxWaits ==
    /\ ~opening /\ ~bgScan /\ mac = "rxOffset" /\ kind = "rx"
    /\ Armed(1, "ri2", slotStart + RxOffset) /\ Prompt(1, slotStart + RxOffset)
    /\ Armed(2, "rie1", slotStart + (TxOffset + RxGuard))
    /\ Armed(3, "rie2", slotStart + (TxOffset + TxMax))
    /\ radio.hw = "off" /\ radio.state = {} /\ irq = "off" /\ ~radio.requested
    /\ air = 0

\* The radio in a reception, from its start to the end of its interrupt.
Listens == radio.hw = "listening" /\ radio.state = {"rx"} /\ NoEvents /\ On /\ air = 0
Starts ==
    /\ radio.hw = "receiving" /\ radio.state = {"rx"} /\ On
    /\ radio.address /\ ~radio.end /\ ~radio.disabled /\ radio.requested
    /\ radio.pdu \in Received
Started ==
    /\ irq = "busy" /\ loaded = {"rx"}
    /\ radio.hw = "receiving" /\ On /\ NoEvents /\ ~radio.requested
    /\ radio.pdu \in Received
Receives ==
    /\ irq \in {"end", "disabled", "off"}
    /\ radio.hw = "receiving" /\ radio.state = {"rx", "busy"} /\ On /\ NoEvents /\ ~radio.requested
    /\ radio.pdu \in Received
Pending == Starts \/ Started \/ (Receives /\ irq # "off")
Ends ==
    /\ SwitchesOff /\ radio.state = {"rx", "busy"} /\ radio.end /\ ~radio.address
    /\ radio.pdu \in Received
    /\ (irq = "off" /\ radio.requested) \/ irq = "end"
    /\ air = 0
Handles(steps) ==
    /\ SwitchesOff /\ radio.state = {"rx", "busy"} /\ ~radio.end /\ ~radio.address
    /\ radio.pdu \in Received
    /\ irq \in steps
    /\ air = 0
Ended ==
    /\ SwitchesOff /\ radio.state = {"rx", "busy"} /\ ~radio.end /\ ~radio.address
    /\ irq \in {"end", "disabled"} \/ (irq = "off" /\ (radio.hw = "turningOff" \/ radio.requested))
    /\ air = 0
GoesIdle ==
    /\ irq = "idle"
    /\ radio.hw = "off" /\ NoEvents /\ radio.state = {"rx", "busy"} /\ air = 0
IsIdle ==
    /\ irq \in {"off", "end", "disabled"}
    /\ radio.hw = "off" /\ NoEvents /\ radio.state = {} /\ air = 0
Winds == Ended \/ GoesIdle \/ IsIdle

RxListens ==
    /\ mac = "listen"
    /\ Armed(2, "rie1", slotStart + (TxOffset + RxGuard))
    /\ Armed(3, "rie2", slotStart + (TxOffset + TxMax))
    /\ (((Listens /\ ~radio.requested) \/ Starts) /\ irq = "off") \/ Started
RxReceives ==
    /\ mac = "rxData"
    /\ Silent(2)
    /\ Armed(3, "rie2", slotStart + (TxOffset + TxMax))
    /\ Receives \/ Ends \/ Winds \/ (Handles({"ri4"}) /\ radio.unread)
\* activity_ri4 has cancelled the timers.
RxHandles ==
    /\ mac = "sleep"
    /\ Silent(2) /\ Silent(3)
    /\ isr = Last /\ now <= slotStart + TxOffset + TxMax + MaxLag
    /\ Handles({"copied4", "end4"})
    /\ irq = "copied4" => copy = radio.pdu

RxGoes ==
    /\ ~opening /\ ~bgScan /\ kind = "rx"
    /\ Silent(1)
    /\ slotStart + RxOffset <= now
    /\ RxListens \/ RxReceives \/ RxHandles
    /\ Pending =>
         /\ isr = Last => air <= MaxLag
         /\ isr # Last =>
              \/ air <= lag
              \/ /\ air <= lag + MaxLag
                 /\ \/ timer.channel[2].event /\ isr <= 2
                    \/ timer.channel[3].event /\ isr <= 3

ScanEnd == slotStart + BgScanDuration
\* The timer interrupt is one after which no other is due at once.
LastOfTwo ==
    \/ /\ ScanEnd <= entry /\ entry <= ScanEnd + 3 * MaxLag
       /\ Silent(1) \/ (timer.channel[1].event /\ isr <= 1)
    \/ timer.channel[0].event /\ isr = 0
    \/ Opened

ScanListens == Silent(2) /\ (Listens \/ Starts) /\ irq \in {"off", "end", "disabled"}
ScanReceives ==
    /\ Silent(2)
    /\ Started \/ Receives \/ (Ends /\ (goesOn /\ ~deaf => radio.crcOk))
ScanHandles ==
    /\ Silent(2)
    /\ Handles({"read", "copied", "rearm"})
    /\ irq = "copied" => copy = radio.pdu
    /\ irq = "rearm" => (goesOn => again) /\ (again /\ ~goesOn => NotLaterThan(slotStart))
\* The interrupt of the radio goes on from before the radio was switched on, or is called for nothing.
Spurious == (Listens /\ (irq # "off" \/ radio.requested)) \/ (Starts /\ irq # "off")
\* A scan that does not go on is not about to listen again under an interrupt of the radio, but
\* for the moment in which it learns that it does not go on.
ScanPauses ==
    /\ Winds
    /\ Rearms \/ (Silent(2) /\ (goesOn => deaf))
    /\ Rearms /\ ~goesOn /\ (irq # "off" \/ radio.requested \/ radio.hw = "turningOff") =>
         \/ NotLaterThan(slotStart)
         \/ isr # Last /\ timer.channel[2].event /\ isr <= 2 /\ entry <= slotStart + MaxLag

Scans ==
    /\ bgScan /\ kind = "scan"
    /\ Silent(3)
    /\ opening => goesOn /\ Silent(1) /\ Opened
    /\ ~opening =>
         \/ \E k \in 0 .. 2 * MaxLag : Armed(1, "endScan", slotStart + (BgScanDuration + k))
         \/ goesOn /\ Silent(1) /\ ScanEnd <= now
    /\ ScanListens \/ ScanReceives \/ ScanHandles \/ ScanPauses
    /\ Pending =>
         /\ isr = Last => air <= 2 * MaxLag /\ (Due(timer) => air <= MaxLag)
         /\ isr # Last => air <= lag \/ (air <= lag + MaxLag /\ LastOfTwo)
    /\ Spurious /\ ~goesOn =>
         IF isr = Last THEN ~timer.channel[1].event ELSE entry + MaxLag < ScanEnd

Modes == Closed \/ Opening \/ TxWaits \/ TxGoes \/ RxWaits \/ RxGoes \/ Scans

Inv == Start <= now => Slots /\ Modes

-----------------------------------------------------------------------------
(* Steps that leave a channel alone.                                       *)

LEMMA TypeFacts ==
    ASSUME Types
    PROVE  /\ Last = 4 /\ Channel = {0, 1, 2, 3, 4}
           /\ isr \in 0 .. 4 /\ lag \in 0 .. MaxLag /\ (isr = 4 => lag = 0)
           /\ now \in 0 .. Wrap - 1 /\ slotStart \in 0 .. Wrap - 1 /\ air \in Nat
           /\ \A c \in 0 .. 4 : timer.channel[c].cc \in 0 .. Wrap - 1
BY Durations DEF Types, now, Timer, ChannelType, Channel, Count

\* The steps of the interrupts, as to the one of the timer.
Passes ==
    \/ isr' = isr /\ lag' = lag
    \/ EnterIsr
    \/ LeaveIsr
    \/ \E f : Calls(f)

LEMMA IsrPasses ==
    ASSUME Types, Types', Passes, NEW c \in 0 .. 3,
           timer.channel[c].event => ~((\E f : Calls(f)) /\ c = First)
    PROVE  /\ lag' = lag \/ isr = Last \/ isr' = Last
           /\ isr' = Last => lag' = 0
           /\ isr = Last => lag = 0
           /\ timer.channel[c].event /\ c < isr' /\ isr' # Last => isr # Last /\ c < isr /\ lag' = lag
           /\ timer.channel[c].event /\ isr' = Last /\ isr # Last => c < isr
<1>1. Last = 4 /\ isr \in 0 .. 4
  BY TypeFacts
<1>2. isr' = Last => lag' = 0
  BY DEF Types
<1>3. isr = Last => lag = 0
  BY DEF Types
<1>4. CASE isr' = isr /\ lag' = lag
  BY <1>1, <1>2, <1>3, <1>4
<1>5. CASE EnterIsr
  BY <1>1, <1>2, <1>3, <1>5 DEF EnterIsr
<1>6. CASE LeaveIsr
  BY <1>1, <1>2, <1>3, <1>6, FirstIs DEF LeaveIsr
<1>7. ASSUME NEW f, Calls(f)
      PROVE  /\ lag' = lag \/ isr = Last \/ isr' = Last
             /\ timer.channel[c].event /\ c < isr' /\ isr' # Last => isr # Last /\ c < isr /\ lag' = lag
             /\ timer.channel[c].event /\ isr' = Last /\ isr # Last => c < isr
  BY <1>1, <1>2, <1>3, <1>7, CallTakes
<1> QED
  BY <1>1, <1>2, <1>3, <1>4, <1>5, <1>6, <1>7 DEF Passes

LEMMA ExpiresKept ==
    ASSUME Types, Types', Passes, NEW c \in 0 .. 3,
           timer'.counter = timer.counter, timer'.channel[c] = timer.channel[c],
           timer.channel[c].event => ~((\E f : Calls(f)) /\ c = First)
    PROVE  \A x \in Int : Expires(c, x) => Expires(c, x)'
<1>1. /\ Last = 4 /\ isr \in 0 .. 4 /\ lag \in 0 .. MaxLag /\ MaxLag \in Nat /\ now \in Int
      /\ lag' \in 0 .. MaxLag /\ isr' \in 0 .. 4
  BY TypeFacts, Durations DEF Types, now
<1> SUFFICES ASSUME NEW x \in Int, Expires(c, x) PROVE Expires(c, x)'
  OBVIOUS
<1>2. timer'.channel[c].event => now' - x <= lag' + MaxLag
  <2>1. CASE timer.channel[c].event
    <3>1. CASE isr = Last
      BY <1>1, <2>1, <3>1, IsrPasses DEF Expires, now
    <3>2. CASE isr # Last
      BY <1>1, <2>1, <3>2, IsrPasses DEF Expires, now
    <3> QED
      BY <3>1, <3>2
  <2> QED
    BY <2>1
<1>3. timer'.channel[c].event /\ c < isr' /\ isr' # Last => now' - x <= lag'
  BY <1>1, IsrPasses DEF Expires, now
<1> QED
  BY <1>2, <1>3 DEF Expires, now

LEMMA Kept ==
    ASSUME Types, Types', Passes, NEW c \in 1 .. 3,
           timer'.counter = timer.counter, timer'.channel[c] = timer.channel[c],
           timer.channel[c].event => ~((\E f : Calls(f)) /\ c = First)
    PROVE  /\ Silent(c) => Silent(c)'
           /\ \A f, x : x \in Int /\ Armed(c, f, x) => Armed(c, f, x)'
           /\ c = 2 /\ Rearms => Rearms'
<1>1. Silent(c) => Silent(c)'
  BY DEF Silent, now
<1>2. \A f, x : x \in Int /\ Armed(c, f, x) => Armed(c, f, x)'
  BY ExpiresKept DEF Armed
<1>3. c = 2 /\ Rearms => Rearms'
  BY DEF Rearms, now
<1> QED
  BY <1>1, <1>2, <1>3

\* In terms of a time in the slot.
LEMMA ArmedKept ==
    ASSUME Types, Types', Passes, NEW c \in 1 .. 3, NEW f, NEW d \in Int,
           timer'.counter = timer.counter, timer'.channel[c] = timer.channel[c],
           timer.channel[c].event => ~((\E g : Calls(g)) /\ c = First),
           slotStart' = slotStart, Armed(c, f, slotStart + d)
    PROVE  Armed(c, f, slotStart + d)'
<1>1. PICK x \in Int : x = slotStart + d
  BY TypeFacts
<1>2. \A y \in Int : Expires(c, y) => Expires(c, y)'
  BY ExpiresKept
<1>3. Expires(c, x)'
  BY <1>1, <1>2 DEF Armed
<1> QED
  BY <1>1, <1>3 DEF Armed

-----------------------------------------------------------------------------
(* Time.                                                                   *)

LEMMA Ticks ==
    ASSUME Types, Tick, now + 1 < Wrap, NEW c \in 0 .. 4
    PROVE  /\ now' = now + 1
           /\ lag' = IF isr = Last THEN 0 ELSE lag + 1
           /\ entry' = IF isr = Last THEN now + 1 ELSE entry
           /\ isr' = isr
           /\ isr = Last => ~Due(timer)
           /\ isr = Last /\ timer.channel[c].enabled => ~timer.channel[c].event
           /\ timer'.channel[c].cc = timer.channel[c].cc
           /\ timer'.channel[c].enabled = timer.channel[c].enabled
           /\ timer'.channel[c].oneShot = timer.channel[c].oneShot
           /\ timer'.channel[c].period = timer.channel[c].period
           /\ timer'.channel[c].callback = timer.channel[c].callback
           /\ timer'.channel[c].event <=> timer.channel[c].event \/ timer.channel[c].cc = now + 1
<1>1. c \in Channel /\ timer \in Timer(Callback) /\ now \in 0 .. Wrap - 1 /\ lag \in Nat
  BY TypeFacts, Durations DEF Types
<1>2. timer' = CountUp(timer) /\ isr' = isr /\ lag' = (IF isr = Last THEN 0 ELSE lag + 1)
  BY DEF Tick
<1>3. (timer.counter + 1) % Wrap = timer.counter + 1
  BY <1>1, Wraps, TimerAssumption DEF now
<1>4. now' = now + 1
  BY <1>1, <1>2, <1>3, CountsUp DEF now
<1>5. isr = Last => ~Due(timer)
  BY DEF Tick
<1>6. isr = Last /\ timer.channel[c].enabled => ~timer.channel[c].event
  BY <1>1, <1>5 DEF Due
<1>7. CountUp(timer).counter = now + 1
  BY <1>1, <1>3, CountsUp DEF now
<1>8. /\ timer'.channel[c].cc = timer.channel[c].cc
      /\ timer'.channel[c].enabled = timer.channel[c].enabled
      /\ timer'.channel[c].oneShot = timer.channel[c].oneShot
      /\ timer'.channel[c].period = timer.channel[c].period
      /\ timer'.channel[c].callback = timer.channel[c].callback
      /\ timer'.channel[c].event <=> timer.channel[c].event \/ timer.channel[c].cc = now + 1
  BY <1>1, <1>2, <1>7, CountsUp
<1>9. entry' = IF isr = Last THEN now + 1 ELSE entry
  BY <1>1, <1>2, <1>4 DEF entry
<1> QED
  BY <1>2, <1>4, <1>5, <1>6, <1>8, <1>9

LEMMA ExpiresTicks ==
    ASSUME Types, Tick, now + 1 < Wrap, NEW c \in 0 .. 3, timer.channel[c].enabled = TRUE
    PROVE  \A x \in Int : 0 <= x /\ x < now + Wrap /\ Expires(c, x) => Expires(c, x)'
<1> SUFFICES ASSUME NEW x \in Int, 0 <= x, x < now + Wrap, Expires(c, x) PROVE Expires(c, x)'
  OBVIOUS
<1>1. now \in 0 .. Wrap - 1 /\ lag \in Nat /\ MaxLag \in Nat /\ isr \in 0 .. 4 /\ Last = 4
  BY TypeFacts, Durations
<1>2. x % Wrap = IF x < Wrap THEN x ELSE x - Wrap
  BY <1>1, Wraps, TimerAssumption
<1>3. timer.channel[c].cc = now + 1 <=> x = now + 1
  <2>1. timer.channel[c].cc = x % Wrap /\ Wrap \in Nat
    BY TimerAssumption DEF Expires
  <2> HIDE DEF now
  <2> QED
    BY <1>1, <1>2, <2>1
<1>4. timer'.channel[c].event <=> x <= now'
  BY <1>1, <1>3, Ticks DEF Expires
<1>5. timer'.channel[c].event => now' - x <= lag' + MaxLag
  BY <1>1, <1>3, Ticks DEF Expires
<1>6. timer'.channel[c].event /\ c < isr' /\ isr' # Last => now' - x <= lag'
  BY <1>1, <1>3, Ticks DEF Expires
<1> QED
  BY <1>4, <1>5, <1>6, Ticks DEF Expires

LEMMA TickKept ==
    ASSUME Types, Tick, now + 1 < Wrap, NEW c \in 1 .. 3
    PROVE  /\ Silent(c) => Silent(c)'
           /\ \A f, x : x \in Int /\ 0 <= x /\ x < now + Wrap /\ Armed(c, f, x) => Armed(c, f, x)'
           /\ c = 2 /\ Rearms => Rearms'
<1>1. now \in 0 .. Wrap - 1 /\ timer.channel[c].cc \in Int
  BY TypeFacts
<1>2. Silent(c) => Silent(c)'
  BY <1>1, Ticks DEF Silent
<1>3. \A f, x : x \in Int /\ 0 <= x /\ x < now + Wrap /\ Armed(c, f, x) => Armed(c, f, x)'
  <2> SUFFICES ASSUME NEW f, NEW x, x \in Int, 0 <= x, x < now + Wrap, Armed(c, f, x)
               PROVE  Armed(c, f, x)'
    OBVIOUS
  <2>1. timer.channel[c].enabled = TRUE /\ Expires(c, x) /\ c \in 0 .. 3 /\ c \in 0 .. 4
    BY DEF Armed
  <2>2. Expires(c, x)'
    BY <2>1, ExpiresTicks
  <2> QED
    BY <2>1, <2>2, Ticks DEF Armed
<1>4. c = 2 /\ Rearms => Rearms'
  BY <1>1, Ticks DEF Rearms
<1> QED
  BY <1>2, <1>3, <1>4

LEMMA ArmedTicks ==
    ASSUME Types, Slots, Tick, now + 1 < Wrap, NEW c \in 1 .. 3, NEW f,
           NEW d \in Int, 0 <= d, d <= 2 * WholeSlot, Armed(c, f, slotStart + d)
    PROVE  Armed(c, f, slotStart + d)'
<1>1. slotStart \in Nat /\ slotStart <= now /\ now \in Nat /\ WholeSlot \in Nat /\ 2 * WholeSlot < Wrap /\ Wrap \in Nat
  BY TypeFacts, Durations DEF Slots
<1>2. PICK x \in Int : x = slotStart + d /\ 0 <= x /\ x < now + Wrap
  <2>1. slotStart + d \in Int /\ 0 <= slotStart + d /\ slotStart + d < now + Wrap
    BY <1>1
  <2> QED
    BY <2>1
<1>3. Armed(c, f, x)'
  BY <1>2, TickKept
<1>4. slotStart' = slotStart
  BY DEF Tick
<1> QED
  BY <1>2, <1>3, <1>4 DEF Armed

LEMMA TimersTick ==
    ASSUME Types, Slots, Tick, now + 1 < Wrap
    PROVE  /\ Armed(1, "ti2", slotStart + TxOffset) => Armed(1, "ti2", slotStart + TxOffset)'
           /\ Armed(2, "tie1", slotStart + (TxOffset + TxMax))
              => Armed(2, "tie1", slotStart + (TxOffset + TxMax))'
           /\ Armed(1, "ri2", slotStart + RxOffset) => Armed(1, "ri2", slotStart + RxOffset)'
           /\ Armed(2, "rie1", slotStart + (TxOffset + RxGuard))
              => Armed(2, "rie1", slotStart + (TxOffset + RxGuard))'
           /\ Armed(3, "rie2", slotStart + (TxOffset + TxMax))
              => Armed(3, "rie2", slotStart + (TxOffset + TxMax))'
           /\ \A k \in 0 .. 2 * MaxLag :
                Armed(1, "endScan", slotStart + (BgScanDuration + k))
                => Armed(1, "endScan", slotStart + (BgScanDuration + k))'
<1>1. \A d \in {TxOffset, TxOffset + TxMax, RxOffset, TxOffset + RxGuard} :
        d \in Int /\ 0 <= d /\ d <= 2 * WholeSlot
  BY Durations
<1>2. \A k \in 0 .. 2 * MaxLag :
        BgScanDuration + k \in Int /\ 0 <= BgScanDuration + k /\ BgScanDuration + k <= 2 * WholeSlot
  BY Durations
<1>3. \A c \in 1 .. 3 : \A f : \A d \in Int : 0 <= d /\ d <= 2 * WholeSlot /\ Armed(c, f, slotStart + d)
         => Armed(c, f, slotStart + d)'
  BY ArmedTicks
<1>4. slotStart' = slotStart
  BY DEF Tick
<1> DEFINE Holds(c, f, d) == Armed(c, f, slotStart + d) => Armed(c, f, slotStart + d)'
<1>5. \A c \in 1 .. 3 : \A f : \A d \in Int : 0 <= d /\ d <= 2 * WholeSlot => Holds(c, f, d)
  BY <1>3
<1>6. /\ Holds(1, "ti2", TxOffset) /\ Holds(2, "tie1", TxOffset + TxMax) /\ Holds(1, "ri2", RxOffset)
      /\ Holds(2, "rie1", TxOffset + RxGuard) /\ Holds(3, "rie2", TxOffset + TxMax)
      /\ \A k \in 0 .. 2 * MaxLag : Holds(1, "endScan", BgScanDuration + k)
  <2> HIDE DEF Holds
  <2> QED
    BY <1>1, <1>2, <1>5
<1> QED
  BY <1>4, <1>6 DEF RxOffset, BgScanDuration, WholeSlot

\* The timer of the slots is kept by every step but its own.
LEMMA SlotsKept ==
    ASSUME Types, Types', Slots, Passes,
           timer'.counter = timer.counter, timer'.channel[0] = timer.channel[0],
           timer'.channel[4].cc = timer.channel[4].cc, timer'.channel[4].event = FALSE,
           kind' = kind, slotStart' = slotStart, opening' => opening /\ isr' = isr,
           timer.channel[0].event => ~((\E f : Calls(f)) /\ 0 = First)
    PROVE  Slots'
<1>1. PICK late \in 0 .. LateBy : Expires(0, slotStart - late + WholeSlot)
  BY DEF Slots
<1>2. slotStart - late + WholeSlot \in Int
  BY <1>1, TypeFacts, Durations DEF LateBy
<1>3. Expires(0, slotStart - late + WholeSlot)'
  <2> DEFINE x == slotStart - late + WholeSlot
  <2>1. (slotStart - late + WholeSlot)' = x
    BY DEF WholeSlot
  <2>2. \A y \in Int : Expires(0, y) => Expires(0, y)'
    BY ExpiresKept
  <2>3. Expires(0, x)'
    BY <1>1, <1>2, <2>2
  <2> QED
    BY <2>1, <2>3 DEF Expires
<1>4. LateBy' = LateBy
  BY DEF LateBy
<1> QED
  BY <1>1, <1>3, <1>4 DEF Slots, now, WholeSlot

LEMMA NextSlot ==
    ASSUME Types, Slots
    PROVE  \E x \in Int :
             /\ slotStart + WholeSlot - LateBy <= x /\ x <= slotStart + WholeSlot
             /\ Expires(0, x)
             /\ timer.channel[0].event <=> x <= now
             /\ timer.channel[0].event => timer.channel[0].cc = x
             /\ timer.channel[0].event => now - x <= lag + MaxLag
<1>1. PICK late \in 0 .. LateBy : Expires(0, slotStart - late + WholeSlot)
  BY DEF Slots
<1> DEFINE x == slotStart - late + WholeSlot
<1>2. /\ LateBy \in Nat /\ late \in Nat /\ late <= LateBy /\ LateBy <= 2 * MaxLag
      /\ WholeSlot \in Nat /\ WholeSlot > 2 * MaxLag /\ slotStart \in 0 .. Wrap - 1 /\ now \in 0 .. Wrap - 1
      /\ MaxLag \in Nat
  BY <1>1, TypeFacts, Durations DEF LateBy
<1>3. x \in Int /\ slotStart + WholeSlot - LateBy <= x /\ x <= slotStart + WholeSlot /\ 0 <= x
  BY <1>2
<1>4. timer.channel[0].event => timer.channel[0].cc = x
  <2>1. x <= now => x % Wrap = x
    BY <1>2, <1>3, Wraps, TimerAssumption
  <2> QED
    BY <1>1, <2>1 DEF Expires
<1> HIDE DEF x
<1>5. Expires(0, x)
  BY <1>1 DEF x
<1> QED
  BY <1>3, <1>4, <1>5 DEF Expires

LEMMA SlotsTick ==
    ASSUME Types, Types', Slots, Tick, now + 1 < Wrap
    PROVE  Slots'
<1>1. PICK late \in 0 .. LateBy : Expires(0, slotStart - late + WholeSlot)
  BY DEF Slots
<1>2. /\ LateBy \in Nat /\ late \in Nat /\ late <= LateBy /\ LateBy <= 2 * MaxLag
      /\ WholeSlot \in Nat /\ WholeSlot > 2 * MaxLag /\ slotStart \in 0 .. Wrap - 1 /\ now \in 0 .. Wrap - 1
      /\ MaxLag \in Nat /\ slotStart <= now /\ WholeSlot < Wrap /\ Start \in Int
  BY <1>1, TypeFacts, Durations DEF LateBy, Slots, Count
<1>3. PICK x \in Int : x = slotStart - late + WholeSlot /\ 0 <= x /\ x < now + Wrap
  <2>1. slotStart - late + WholeSlot \in Int
    BY <1>2
  <2>2. 0 <= slotStart - late + WholeSlot /\ slotStart - late + WholeSlot < now + Wrap
    BY <1>2, Durations
  <2> QED
    BY <2>1, <2>2
<1>4. /\ slotStart' = slotStart /\ kind' = kind /\ opening' = opening /\ isr' = isr
      /\ now' = now + 1
  BY Ticks DEF Tick
<1>5. Expires(0, x)'
  <2>1. timer.channel[0].enabled = TRUE
    BY DEF Slots
  <2>2. 0 \in 0 .. 3
    OBVIOUS
  <2>3. \A y \in Int : 0 <= y /\ y < now + Wrap /\ Expires(0, y) => Expires(0, y)'
    BY <2>1, <2>2, ExpiresTicks
  <2>4. Expires(0, x)
    BY <1>1, <1>3
  <2> QED
    BY <1>3, <2>3, <2>4
<1>6. (slotStart - late + WholeSlot)' = x /\ LateBy' = LateBy
  BY <1>3, <1>4 DEF LateBy, WholeSlot
<1>7. \E l \in 0 .. LateBy' : Expires(0, slotStart - l + WholeSlot)'
  BY <1>1, <1>5, <1>6 DEF Expires
<1>8. /\ timer'.channel[0].enabled = TRUE /\ timer'.channel[0].oneShot = FALSE
      /\ timer'.channel[0].period = WholeSlot /\ timer'.channel[0].callback = "newSlot"
  BY Ticks DEF Slots
<1>9. timer'.channel[4].event = FALSE /\ timer'.channel[4].cc = 0
  <2>1. /\ timer'.channel[4].cc = timer.channel[4].cc
        /\ timer'.channel[4].event <=> timer.channel[4].event \/ timer.channel[4].cc = now + 1
    BY Ticks
  <2>2. timer'.channel[4].event \in BOOLEAN
    BY TypeFacts DEF Types, Timer, ChannelType
  <2> QED
    BY <1>2, <2>1, <2>2 DEF Slots
<1> QED
  BY <1>2, <1>4, <1>7, <1>8, <1>9 DEF Slots, WholeSlot

LEMMA ModesTick ==
    ASSUME Types, Types', Start <= now, Slots, Modes, Tick, now + 1 < Wrap
    PROVE  Modes'
<1>1. /\ UNCHANGED <<radio, isr, opening, kind, slotStart, goesOn, mac, bgScan, irq, loaded,
                     again, copy, deaf>>
      /\ isr = Last => irq = "off" /\ ~radio.requested
      /\ radio.hw \notin {"sending", "turningOff"}
      /\ air' = IF radio.hw \in {"receiving", "onAir"} THEN air + 1 ELSE 0
  BY DEF Tick, irqVars
<1>2. /\ now' = now + 1 /\ lag' = (IF isr = Last THEN 0 ELSE lag + 1)
      /\ entry' = IF isr = Last THEN now + 1 ELSE entry
      /\ isr = Last => ~Due(timer)
  BY Ticks
<1>3. /\ Last = 4 /\ isr \in 0 .. 4 /\ lag \in Nat /\ (isr = Last => lag = 0) /\ lag <= MaxLag
      /\ now \in 0 .. Wrap - 1 /\ slotStart \in Nat /\ air \in Nat /\ slotStart <= now
      /\ entry = now - lag /\ lag' <= MaxLag
  BY <1>1, TypeFacts DEF Slots, entry, Types
<1>4. \A c \in 0 .. 4 : /\ isr = Last /\ timer.channel[c].enabled => ~timer.channel[c].event
                        /\ timer'.channel[c].event <=> timer.channel[c].event \/ timer.channel[c].cc = now + 1
                        /\ timer'.channel[c].cc = timer.channel[c].cc
  BY Ticks
<1>5. \A c \in 1 .. 3 : Silent(c) => Silent(c)'
  BY TickKept
<1>6. /\ Armed(1, "ti2", slotStart + TxOffset) => Armed(1, "ti2", slotStart + TxOffset)'
      /\ Armed(2, "tie1", slotStart + (TxOffset + TxMax)) => Armed(2, "tie1", slotStart + (TxOffset + TxMax))'
      /\ Armed(1, "ri2", slotStart + RxOffset) => Armed(1, "ri2", slotStart + RxOffset)'
      /\ Armed(2, "rie1", slotStart + (TxOffset + RxGuard)) => Armed(2, "rie1", slotStart + (TxOffset + RxGuard))'
      /\ Armed(3, "rie2", slotStart + (TxOffset + TxMax)) => Armed(3, "rie2", slotStart + (TxOffset + TxMax))'
      /\ \A k \in 0 .. 2 * MaxLag : Armed(1, "endScan", slotStart + (BgScanDuration + k))
                                   => Armed(1, "endScan", slotStart + (BgScanDuration + k))'
  BY TimersTick
<1>7. Rearms => Rearms'
  BY TickKept
<1>8. PICK next \in Int : /\ slotStart + WholeSlot - LateBy <= next /\ next <= slotStart + WholeSlot
                          /\ Expires(0, next)
                          /\ timer.channel[0].event <=> next <= now
                          /\ timer.channel[0].event => timer.channel[0].cc = next
  BY NextSlot
<1> USE Durations
<1>9. timer'.channel[0].event => next <= now + 1 /\ timer.channel[0].cc = next
  <2>1. /\ timer'.channel[0].event <=> timer.channel[0].event \/ timer.channel[0].cc = now + 1
        /\ isr = Last => ~timer.channel[0].event
    BY <1>4 DEF Slots
  <2>2. timer.channel[0].cc = next % Wrap
    BY <1>8 DEF Expires
  <2>3. next % Wrap = IF next < Wrap THEN next ELSE next - Wrap
    BY <1>3, <1>8, Wraps DEF LateBy
  <2> QED
    BY <1>3, <1>8, <2>1, <2>2, <2>3
<1>10. timer'.channel[0].event <=> timer.channel[0].event \/ next = now + 1
  <2>1. (timer'.channel[0].event <=> timer.channel[0].event \/ timer.channel[0].cc = now + 1)
    BY <1>4
  <2>2. timer.channel[0].cc = next % Wrap
    BY <1>8 DEF Expires
  <2>3. next % Wrap = IF next < Wrap THEN next ELSE next - Wrap
    BY <1>3, <1>8, Wraps DEF LateBy
  <2> QED
    BY <1>3, <1>8, <2>1, <2>2, <2>3
<1>11. CASE Closed
  <2>1. (isr # Last /\ ~timer.channel[0].event) => ~timer'.channel[0].event
    <3> SUFFICES ASSUME isr # Last, ~timer.channel[0].event PROVE next # now + 1
      BY <1>10
    <3>1. now - lag <= ClosedBy /\ lag < MaxLag
      BY <1>2, <1>3, <1>11 DEF Closed, NotLaterThan
    <3>2. ClosedBy + MaxLag < next
      BY <1>3, <1>8 DEF ClosedBy, LateBy
    <3>3. ClosedBy \in Int
      BY <1>3 DEF ClosedBy
    <3> QED
      BY <1>3, <1>8, <3>1, <3>2, <3>3
  <2>2. timer'.channel[0].event => timer'.channel[0].cc = entry' /\ isr' \in {0, Last}
    <3>1. timer'.channel[0].cc = timer.channel[0].cc
      BY <1>4
    <3>2. CASE isr # Last
      BY <1>1, <1>2, <1>11, <2>1, <3>1, <3>2 DEF Closed
    <3>3. CASE isr = Last
      <4>1. timer'.channel[0].event => next = now + 1
        BY <1>4, <1>10, <3>3 DEF Slots
      <4> QED
        BY <1>1, <1>2, <1>9, <3>1, <3>3, <4>1
    <3> QED
      BY <3>2, <3>3
  <2>3. irq' # "off" \/ radio'.requested \/ air' # 0 \/ (isr' # Last /\ ~timer'.channel[0].event)
        => NotLaterThan(ClosedBy)'
    BY <1>1, <1>2, <1>3, <1>10, <1>11 DEF Closed, NotLaterThan, ClosedBy
  <2>4. Drains'
    BY <1>1, <1>11 DEF Closed, Drains
  <2>5. Closed'
    BY <1>1, <1>5, <1>11, <2>2, <2>3, <2>4 DEF Closed
  <2> QED
    BY <2>5 DEF Modes
<1>12. CASE Opening
  <2>1. isr # Last
    BY <1>3, <1>12 DEF Opening, Slots
  <2>2. Opening'
    BY <1>1, <1>2, <1>3, <1>5, <1>12, <2>1 DEF Opening, Opened
  <2> QED
    BY <2>2 DEF Modes
<1>13. CASE TxWaits
  <2>1. Armed(1, "ti2", slotStart + TxOffset)' /\ Armed(2, "tie1", slotStart + (TxOffset + TxMax))'
    BY <1>6, <1>13 DEF TxWaits
  <2>3. Prompt(1, slotStart + TxOffset)'
    BY <1>1, <1>2, <1>3, <1>4, <1>13, <2>1 DEF TxWaits, Armed, Expires, Prompt, Opened
  <2>4. TxWaits'
    BY <1>1, <1>5, <1>13, <2>1, <2>3 DEF TxWaits
  <2> QED
    BY <2>4 DEF Modes
<1>14. CASE TxGoes
  <2>1. Armed(2, "tie1", slotStart + (TxOffset + TxMax))'
    BY <1>6, <1>14 DEF TxGoes
  <2>2. TxStarts => TxStarts'
    BY <1>1, <1>2, <1>3, <1>14 DEF TxGoes, TxStarts, On
  <2>3. TxSends => TxSends'
    BY <1>1 DEF TxSends, NoEvents, On
  <2>4. TxEnds => TxEnds'
    BY <1>1 DEF TxEnds, SwitchesOff
  <2>5. TxGoes'
    BY <1>1, <1>2, <1>3, <1>5, <1>14, <2>1, <2>2, <2>3, <2>4 DEF TxGoes
  <2> QED
    BY <2>5 DEF Modes
<1>15. CASE RxWaits
  <2>1. /\ Armed(1, "ri2", slotStart + RxOffset)'
        /\ Armed(2, "rie1", slotStart + (TxOffset + RxGuard))' /\ Armed(3, "rie2", slotStart + (TxOffset + TxMax))'
    BY <1>6, <1>15 DEF RxWaits
  <2>4. Prompt(1, slotStart + RxOffset)'
    BY <1>1, <1>2, <1>3, <1>4, <1>15, <2>1 DEF RxWaits, Armed, Expires, Prompt, Opened, RxOffset
  <2>5. RxWaits'
    BY <1>1, <1>15, <2>1, <2>4 DEF RxWaits
  <2> QED
    BY <2>5 DEF Modes
<1>16. CASE RxGoes
  <2>3. RxListens => RxListens'
    BY <1>1, <1>6 DEF RxListens, Listens, Starts, Started, NoEvents, On
  <2>4. RxReceives => RxReceives'
    BY <1>1, <1>5, <1>6 DEF RxReceives, Receives, Ends, Winds, Ended, GoesIdle, IsIdle, Handles,
       NoEvents, On,
       SwitchesOff
  <2>5. ~RxHandles
    BY <1>1 DEF RxHandles, Handles
  <2>6. Pending' => Pending
    BY <1>1 DEF Pending, Starts, Started, Receives, NoEvents, On
  <2>7. Pending => isr # Last /\ air' <= air + 1
    BY <1>1, <1>3 DEF Pending, Starts, Started, Receives
  <2>8. timer.channel[2].event => timer'.channel[2].event
    BY <1>4
  <2>9. timer.channel[3].event => timer'.channel[3].event
    BY <1>4
  <2>10. Pending' =>
         /\ isr' = Last => air' <= MaxLag
         /\ isr' # Last =>
              \/ air' <= lag'
              \/ /\ air' <= lag' + MaxLag
                 /\ \/ timer'.channel[2].event /\ isr' <= 2
                    \/ timer'.channel[3].event /\ isr' <= 3
    BY <1>1, <1>2, <1>3, <1>16, <2>6, <2>7, <2>8, <2>9 DEF RxGoes
  <2>11. RxGoes'
    BY <1>1, <1>2, <1>3, <1>5, <1>16, <2>3, <2>4, <2>5, <2>10 DEF RxGoes
  <2> QED
    BY <2>11 DEF Modes
<1>17. CASE Scans
  <2>1. ~opening => \/ \E k \in 0 .. 2 * MaxLag : Armed(1, "endScan", slotStart + (BgScanDuration + k))'
                    \/ goesOn /\ Silent(1)' /\ ScanEnd <= now'
    <3>1. ScanEnd <= now => ScanEnd <= now'
      BY <1>2, <1>3 DEF ScanEnd
    <3> QED
      BY <1>5, <1>6, <1>17, <3>1 DEF Scans
  <2>2. ScanEnd' = ScanEnd
    BY <1>1 DEF ScanEnd, BgScanDuration, WholeSlot
  <2>3. Opened => isr = Last \/ Opened'
    BY <1>1, <1>2, <1>3 DEF Opened
  <2>4. opening => isr # Last
    BY <1>3 DEF Slots
  <2>5. NotLaterThan(slotStart) /\ isr # Last => NotLaterThan(slotStart)'
    BY <1>1, <1>2 DEF NotLaterThan
  <2>6. ScanListens => ScanListens'
    BY <1>1, <1>5 DEF ScanListens, Listens, Starts, NoEvents, On
  <2>7. ScanReceives => ScanReceives'
    BY <1>1, <1>5 DEF ScanReceives, Started, Receives, Ends, NoEvents, On, SwitchesOff
  <2>8. ScanHandles => ScanHandles'
    BY <1>1, <1>5, <2>5 DEF ScanHandles, Handles, SwitchesOff
  <2>9. ScanPauses => ScanPauses'
    <3>1. Winds => Winds'
      BY <1>1 DEF Winds, Ended, GoesIdle, IsIdle, NoEvents, SwitchesOff
    <3>2. timer.channel[2].event => timer'.channel[2].event
      BY <1>4
    <3>3. Silent(2) => ~Rearms'
      BY <1>5 DEF Silent, Rearms
    <3> QED
      BY <1>1, <1>2, <1>3, <1>5, <1>7, <2>5, <3>1, <3>2, <3>3 DEF ScanPauses
  <2>10. Pending' => Pending
    BY <1>1 DEF Pending, Starts, Started, Receives, NoEvents, On
  <2>11. Pending => isr # Last /\ air' <= air + 1
    BY <1>1, <1>3 DEF Pending, Starts, Started, Receives
  <2>12. isr # Last /\ LastOfTwo => LastOfTwo'
    <3>1. timer.channel[0].event => timer'.channel[0].event
      BY <1>4
    <3>2. timer.channel[1].event => timer'.channel[1].event
      BY <1>4
    <3>3. Silent(1) => Silent(1)'
      BY <1>5
    <3> QED
      BY <1>1, <1>2, <2>2, <2>3, <3>1, <3>2, <3>3 DEF LastOfTwo
  <2>13. Pending' =>
         /\ isr' = Last => air' <= 2 * MaxLag /\ (Due(timer)' => air' <= MaxLag)
         /\ isr' # Last => air' <= lag' \/ (air' <= lag' + MaxLag /\ LastOfTwo')
    BY <1>1, <1>2, <1>3, <1>17, <2>10, <2>11, <2>12 DEF Scans
  <2>14. Spurious' => Spurious
    BY <1>1, <1>17 DEF Scans, ScanListens, ScanReceives, ScanHandles, ScanPauses, Winds, Listens,
       Starts,
       Started, Receives, Ends, Handles, Ended, GoesIdle, IsIdle, SwitchesOff, NoEvents, On, Spurious
  <2>15. Spurious' /\ ~goesOn' =>
         IF isr' = Last THEN ~timer'.channel[1].event ELSE entry' + MaxLag < ScanEnd'
    <3>1. isr = Last => ~Spurious
      BY <1>1 DEF Spurious, Starts
    <3> QED
      BY <1>1, <1>2, <1>17, <2>2, <2>14, <3>1 DEF Scans
  <2>16. Scans'
    BY <1>1, <1>2, <1>3, <1>5, <1>17, <2>1, <2>2, <2>3, <2>4, <2>6, <2>7, <2>8, <2>9, <2>13,
       <2>15 DEF Scans
  <2> QED
    BY <2>16 DEF Modes
<1> QED
  BY <1>11, <1>12, <1>13, <1>14, <1>15, <1>16, <1>17 DEF Modes

-----------------------------------------------------------------------------
(* The peripherals, and the radio interrupt where it leaves the timer alone. *)

LEMMA Still ==
    ASSUME UNCHANGED <<timer, isr, lag, opening, kind, slotStart>>
    PROVE  /\ Slots' <=> Slots
           /\ now' = now /\ entry' = entry /\ ScanEnd' = ScanEnd /\ ClosedBy' = ClosedBy
           /\ \A c \in 1 .. 3 : Silent(c)' <=> Silent(c)
           /\ Armed(1, "ti2", slotStart + TxOffset)' <=> Armed(1, "ti2", slotStart + TxOffset)
           /\ Armed(2, "tie1", slotStart + (TxOffset + TxMax))'
              <=> Armed(2, "tie1", slotStart + (TxOffset + TxMax))
           /\ Armed(2, "rie1", slotStart + (TxOffset + RxGuard))'
              <=> Armed(2, "rie1", slotStart + (TxOffset + RxGuard))
           /\ Armed(3, "rie2", slotStart + (TxOffset + TxMax))'
              <=> Armed(3, "rie2", slotStart + (TxOffset + TxMax))
           /\ \A k \in 0 .. 2 * MaxLag :
                Armed(1, "endScan", slotStart + (BgScanDuration + k))'
                <=> Armed(1, "endScan", slotStart + (BgScanDuration + k))
           /\ Rearms' <=> Rearms
           /\ Opened' <=> Opened
           /\ NotLaterThan(slotStart)' <=> NotLaterThan(slotStart)
           /\ NotLaterThan(ClosedBy)' <=> NotLaterThan(ClosedBy)
           /\ LastOfTwo' <=> LastOfTwo
           /\ Due(timer)' <=> Due(timer)
<1>1. now' = now /\ entry' = entry /\ ScanEnd' = ScanEnd /\ ClosedBy' = ClosedBy /\ LateBy' = LateBy
  BY DEF now, entry, ScanEnd, ClosedBy, LateBy, BgScanDuration, WholeSlot
<1>2. \A c, x : Expires(c, x)' <=> Expires(c, x)
  BY <1>1 DEF Expires
<1>3. Slots' <=> Slots
  BY <1>1 DEF Slots, Expires, WholeSlot
<1>4. \A c \in 1 .. 3 : Silent(c)' <=> Silent(c)
  BY <1>1 DEF Silent
<1>5. /\ Armed(1, "ti2", slotStart + TxOffset)' <=> Armed(1, "ti2", slotStart + TxOffset)
      /\ Armed(2, "tie1", slotStart + (TxOffset + TxMax))' <=> Armed(2, "tie1", slotStart + (TxOffset + TxMax))
  BY <1>1 DEF Armed, Expires
<1>6. /\ Armed(2, "rie1", slotStart + (TxOffset + RxGuard))'
         <=> Armed(2, "rie1", slotStart + (TxOffset + RxGuard))
      /\ Armed(3, "rie2", slotStart + (TxOffset + TxMax))' <=> Armed(3, "rie2", slotStart + (TxOffset + TxMax))
  BY <1>1 DEF Armed, Expires
<1>7. \A k \in 0 .. 2 * MaxLag : Armed(1, "endScan", slotStart + (BgScanDuration + k))'
                             <=> Armed(1, "endScan", slotStart + (BgScanDuration + k))
  BY <1>1 DEF Armed, Expires, BgScanDuration, WholeSlot
<1>8. Rearms' <=> Rearms
  BY <1>1 DEF Rearms
<1>9. /\ Opened' <=> Opened
      /\ NotLaterThan(slotStart)' <=> NotLaterThan(slotStart)
      /\ NotLaterThan(ClosedBy)' <=> NotLaterThan(ClosedBy)
  BY <1>1 DEF Opened, NotLaterThan
<1>10. LastOfTwo' <=> LastOfTwo
  BY <1>1, <1>4, <1>9 DEF LastOfTwo
<1>11. Due(timer)' <=> Due(timer)
  BY DEF Due
<1> QED
  BY <1>1, <1>3, <1>4, <1>5, <1>6, <1>7, <1>8, <1>9, <1>10, <1>11

LEMMA HearStep ==
    ASSUME Types, Slots, Modes, Hear
    PROVE  Slots' /\ Modes'
<1>1. /\ UNCHANGED <<timer, isr, lag, opening, kind, slotStart, goesOn, mac, bgScan, irq, loaded,
                     again, copy, air, deaf>>
      /\ radio.hw = "listening"
  BY DEF Hear, timerVars, irqVars, history
<1>2. /\ radio'.hw = "receiving" /\ radio'.pdu \in Received /\ radio'.address = TRUE
      /\ radio'.requested = (radio.requested \/ radio.interrupts)
      /\ radio'.state = radio.state /\ radio'.end = radio.end /\ radio'.disabled = radio.disabled
      /\ radio'.interrupts = radio.interrupts /\ radio'.shorts = radio.shorts
  BY DEF Hear, FrameStarts, Received, Types, RadioType
<1>3. Slots'
  BY <1>1, Still
<1>4. lag \in Nat /\ MaxLag \in Nat
  BY TypeFacts, Durations
<1>5. CASE RxGoes
  <2>1. RxListens /\ Listens /\ irq = "off"
    BY <1>1, <1>5 DEF RxGoes, RxListens, RxReceives, RxHandles, Winds, Starts, Started, Receives,
       Ends,
       Handles, Ended, GoesIdle, IsIdle, SwitchesOff
  <2>2. Starts'
    BY <1>1, <1>2, <2>1 DEF Listens, Starts, NoEvents, On
  <2>3. RxListens'
    BY <1>1, <2>1, <2>2, Still DEF RxListens
  <2>4. air' = 0
    BY <1>1, <2>1 DEF Listens
  <2>5. RxGoes'
    BY <1>1, <1>4, <1>5, <2>3, <2>4, Still, Durations DEF RxGoes, RxOffset
  <2> QED
    BY <1>3, <2>5 DEF Modes
<1>6. CASE Scans
  <2>1. ScanListens /\ Listens
    BY <1>1, <1>6 DEF Scans, ScanListens, ScanReceives, ScanHandles, ScanPauses, Winds, Starts,
       Started,
       Receives, Ends, Handles, Ended, GoesIdle, IsIdle, SwitchesOff
  <2>2. Starts'
    BY <1>1, <1>2, <2>1 DEF Listens, Starts, NoEvents, On
  <2>3. ScanListens'
    BY <1>1, <2>1, <2>2, Still DEF ScanListens
  <2>4. air' = 0
    BY <1>1, <2>1 DEF Listens
  <2>5. Spurious' => Spurious
    BY <1>1, <1>2, <2>1 DEF Spurious, Listens
  <2>6. Spurious' /\ ~goesOn' => IF isr' = Last THEN ~timer'.channel[1].event ELSE entry' + MaxLag < ScanEnd'
    BY <1>1, <1>6, <2>5, Still DEF Scans
  <2>7. Pending' =>
         /\ isr' = Last => air' <= 2 * MaxLag /\ (Due(timer)' => air' <= MaxLag)
         /\ isr' # Last => air' <= lag' \/ (air' <= lag' + MaxLag /\ LastOfTwo')
    BY <1>1, <1>4, <2>4
  <2>8. Scans'
    BY <1>1, <1>6, <2>3, <2>6, <2>7, Still DEF Scans
  <2> QED
    BY <1>3, <2>8 DEF Modes
<1>7. ~Closed /\ ~Opening /\ ~TxWaits /\ ~TxGoes /\ ~RxWaits
  BY <1>1 DEF Closed, Opening, TxWaits, TxGoes, RxWaits, TxStarts, TxSends, TxEnds, SwitchesOff
<1> QED
  BY <1>5, <1>6, <1>7 DEF Modes

LEMMA StartSendingStep ==
    ASSUME Types, Slots, Modes, StartSending
    PROVE  Slots' /\ Modes'
<1>1. /\ UNCHANGED <<timer, isr, lag, opening, kind, slotStart, goesOn, mac, bgScan, irq, loaded,
                     again, copy, air, deaf>>
      /\ radio.hw = "sending"
  BY DEF StartSending, timerVars, irqVars, history
<1>2. /\ radio'.hw = "onAir" /\ radio'.address = TRUE
      /\ radio'.requested = (radio.requested \/ radio.interrupts)
      /\ radio'.state = radio.state /\ radio'.end = radio.end /\ radio'.disabled = radio.disabled
      /\ radio'.interrupts = radio.interrupts /\ radio'.shorts = radio.shorts
  BY DEF StartSending, SendingStarts, Types, RadioType
<1>3. Slots'
  BY <1>1, Still
<1>4. TxGoes /\ TxStarts /\ irq = "off"
  BY <1>1 DEF Modes, Closed, Opening, TxWaits, RxWaits, TxGoes, TxStarts, TxSends, TxEnds, RxGoes,
     RxListens,
     RxReceives, RxHandles, Scans, ScanListens, ScanReceives, ScanHandles, ScanPauses, Winds, Listens, Starts,
     Started, Receives, Ends, Handles, Ended, GoesIdle, IsIdle, SwitchesOff
<1>5. TxStarts'
  BY <1>1, <1>2, <1>4, Still DEF TxStarts, On
<1>6. TxGoes'
  BY <1>1, <1>4, <1>5, Still DEF TxGoes
<1> QED
  BY <1>3, <1>6 DEF Modes

LEMMA TurnOffStep ==
    ASSUME Types, Slots, Modes, TurnOff
    PROVE  Slots' /\ Modes'
<1>1. /\ UNCHANGED <<timer, isr, lag, opening, kind, slotStart, goesOn, mac, bgScan, irq, loaded,
                     again, copy, air, deaf>>
      /\ radio.hw = "turningOff"
  BY DEF TurnOff, timerVars, irqVars, history
<1>2. /\ radio'.hw = "off" /\ radio'.disabled = TRUE
      /\ radio'.requested = (radio.requested \/ radio.interrupts)
      /\ radio'.state = radio.state /\ radio'.end = radio.end /\ radio'.address = radio.address
      /\ radio'.interrupts = radio.interrupts /\ radio'.shorts = radio.shorts
      /\ radio'.pdu = radio.pdu /\ radio'.crcOk = radio.crcOk /\ radio'.unread = radio.unread
  BY DEF TurnOff, TurnsOff, Types, RadioType
<1>3. Slots'
  BY <1>1, Still
<1>4. ~Closed /\ ~Opening /\ ~TxWaits /\ ~RxWaits
  BY <1>1 DEF Closed, Opening, TxWaits, RxWaits
<1>5. SwitchesOff => SwitchesOff'
  BY <1>1, <1>2 DEF SwitchesOff
<1>6. CASE TxGoes
  <2>1. TxEnds
    BY <1>1, <1>6 DEF TxGoes, TxStarts, TxSends
  <2>2. TxEnds'
    BY <1>1, <1>2, <1>5, <2>1 DEF TxEnds
  <2>3. TxGoes'
    BY <1>1, <1>6, <2>2, Still DEF TxGoes
  <2> QED
    BY <1>3, <2>3 DEF Modes
<1>7. Ends => Ends'
  BY <1>1, <1>2, <1>5 DEF Ends
<1>8. /\ Handles({"ri4"}) => Handles({"ri4"})'
      /\ Handles({"copied4", "end4"}) => Handles({"copied4", "end4"})'
      /\ Handles({"read", "copied", "rearm"}) => Handles({"read", "copied", "rearm"})'
  BY <1>1, <1>2, <1>5 DEF Handles
<1>9. Ended => Ended'
  BY <1>1, <1>2, <1>5 DEF Ended, SwitchesOff
<1>10. ~Listens /\ ~Starts /\ ~Started /\ ~Receives /\ ~GoesIdle /\ ~IsIdle
  BY <1>1 DEF Listens, Starts, Started, Receives, GoesIdle, IsIdle
<1>11. ~Listens' /\ ~Starts' /\ ~Started' /\ ~Receives'
  BY <1>2 DEF Listens, Starts, Started, Receives
<1>12. ~Pending' /\ ~Spurious'
  BY <1>11 DEF Pending, Spurious
<1>13. CASE RxGoes
  <2>1. ~RxListens
    BY <1>10 DEF RxListens
  <2>2. RxReceives => RxReceives'
    BY <1>1, <1>2, <1>7, <1>8, <1>9, <1>10, Still DEF RxReceives, Winds
  <2>3. RxHandles => RxHandles'
    BY <1>1, <1>2, <1>8, Still DEF RxHandles
  <2>4. RxGoes'
    BY <1>1, <1>12, <1>13, <2>1, <2>2, <2>3, Still DEF RxGoes, RxOffset
  <2> QED
    BY <1>3, <2>4 DEF Modes
<1>14. CASE Scans
  <2>1. ~ScanListens
    BY <1>10 DEF ScanListens
  <2>2. ScanReceives => ScanReceives'
    BY <1>1, <1>2, <1>7, <1>10, Still DEF ScanReceives
  <2>3. ScanHandles => ScanHandles'
    BY <1>1, <1>2, <1>8, Still DEF ScanHandles
  <2>4. ScanPauses => ScanPauses'
    <3>1. Winds => Winds'
      BY <1>9, <1>10 DEF Winds
    <3> QED
      BY <1>1, <1>2, <3>1, Still DEF ScanPauses
  <2>5. Scans'
    BY <1>1, <1>12, <1>14, <2>1, <2>2, <2>3, <2>4, Still DEF Scans
  <2> QED
    BY <1>3, <2>5 DEF Modes
<1> QED
  BY <1>4, <1>6, <1>13, <1>14 DEF Modes

LEMMA EndFrameStep ==
    ASSUME Types, Slots, Modes, NEW ok \in BOOLEAN, EndFrame(ok)
    PROVE  Slots' /\ Modes'
<1>1. /\ UNCHANGED <<timer, isr, lag, opening, kind, slotStart, goesOn, mac, bgScan, irq, loaded,
                     again, copy>>
      /\ radio.hw \in {"receiving", "onAir"} /\ air' = 0
      /\ deaf' = (deaf \/ (bgScan /\ ~ok))
      /\ FrameMin <= air
  BY DEF EndFrame, timerVars, irqVars
<1>2. /\ radio'.hw = (IF radio.shorts THEN "turningOff" ELSE "ready") /\ radio'.end = TRUE
      /\ radio'.crcOk = ok
      /\ radio'.requested = (radio.requested \/ radio.interrupts)
      /\ radio'.state = radio.state /\ radio'.disabled = radio.disabled /\ radio'.address = radio.address
      /\ radio'.interrupts = radio.interrupts /\ radio'.shorts = radio.shorts
      /\ radio'.pdu = radio.pdu
  BY DEF EndFrame, FrameEnds, Types, RadioType
<1>3. Slots'
  BY <1>1, Still
<1>4. /\ lag \in Nat /\ MaxLag \in Nat /\ lag <= MaxLag /\ air \in Nat /\ now \in Nat /\ slotStart \in Nat
      /\ TxOffset \in Nat /\ 2 * MaxLag < air
  BY <1>1, TypeFacts, Durations
<1>5. ~Closed /\ ~Opening /\ ~TxWaits /\ ~RxWaits
  BY <1>1 DEF Closed, Opening, TxWaits, RxWaits
<1>6. CASE TxGoes
  <2>1. ~TxStarts
    BY <1>4 DEF TxStarts
  <2>2. TxSends
    BY <1>1, <1>6, <2>1 DEF TxGoes, TxEnds, SwitchesOff
  <2>3. TxEnds'
    BY <1>1, <1>2, <2>2 DEF TxSends, TxEnds, SwitchesOff, NoEvents, On
  <2>4. TxGoes'
    BY <1>1, <1>6, <2>3, Still DEF TxGoes
  <2> QED
    BY <1>3, <2>4 DEF Modes
<1>7. Receives /\ irq = "off" => Ends'
  BY <1>1, <1>2 DEF Receives, Ends, SwitchesOff, NoEvents, On
<1>8. radio'.hw \in {"turningOff", "ready"}
  BY <1>2
<1>9. ~Pending' /\ ~Spurious'
  BY <1>8 DEF Pending, Spurious, Listens, Starts, Started, Receives
<1>10. ~Listens /\ ~Ends /\ ~Winds /\ \A steps : ~Handles(steps)
  BY <1>1 DEF Listens, Ends, Winds, Handles, Ended, GoesIdle, IsIdle, SwitchesOff
<1>11. CASE RxGoes
  <2>1. ~Pending
    BY <1>4, <1>11 DEF RxGoes
  <2>2. RxReceives /\ Receives /\ irq = "off"
    BY <1>10, <1>11, <2>1 DEF RxGoes, RxListens, RxReceives, RxHandles, Pending
  <2>3. RxReceives'
    BY <1>1, <1>7, <2>2, Still DEF RxReceives
  <2>4. RxGoes'
    BY <1>1, <1>9, <1>11, <2>3, Still DEF RxGoes, RxOffset
  <2> QED
    BY <1>3, <2>4 DEF Modes
<1>12. CASE Scans
  <2>1. ~Pending
    BY <1>4, <1>12 DEF Scans
  <2>2. ScanReceives /\ Receives /\ irq = "off"
    BY <1>10, <1>12, <2>1 DEF Scans, ScanListens, ScanReceives, ScanHandles, ScanPauses, Pending
  <2>3. goesOn' /\ ~deaf' => radio'.crcOk
    BY <1>1, <1>2, <1>12 DEF Scans
  <2>4. ScanReceives'
    BY <1>1, <1>7, <2>2, <2>3, Still DEF ScanReceives
  <2>5. Scans'
    BY <1>1, <1>9, <1>12, <2>4, Still DEF Scans
  <2> QED
    BY <1>3, <2>5 DEF Modes
<1> QED
  BY <1>5, <1>6, <1>11, <1>12 DEF Modes

LEMMA EnterIrqStep ==
    ASSUME Types, Slots, Modes, EnterIrq
    PROVE  Slots' /\ Modes'
<1>1. /\ UNCHANGED <<timer, isr, lag, opening, kind, slotStart, goesOn, mac, bgScan, again, copy,
                     air, deaf>>
      /\ isr = Last /\ irq = "off" /\ radio.requested
      /\ loaded' = IF radio.address THEN radio.state ELSE {}
      /\ irq' = IF radio.address THEN "busy" ELSE "end"
  BY DEF EnterIrq, IrqStep, timerVars, history
<1>2. /\ radio'.address = FALSE /\ radio'.requested = FALSE
      /\ radio'.hw = radio.hw /\ radio'.state = radio.state /\ radio'.end = radio.end
      /\ radio'.disabled = radio.disabled /\ radio'.interrupts = radio.interrupts
      /\ radio'.shorts = radio.shorts /\ radio'.pdu = radio.pdu /\ radio'.crcOk = radio.crcOk
  BY DEF EnterIrq, Enter, TakeAddress, Types, RadioType
<1>3. Slots'
  BY <1>1, Still
<1>4. ~Opening /\ ~TxWaits /\ ~RxWaits
  BY <1>1 DEF Opening, TxWaits, RxWaits
<1>5. CASE Closed
  <2>1. Drains'
    BY <1>1, <1>2, <1>5 DEF Closed, Drains
  <2>2. Closed'
    BY <1>1, <1>2, <1>5, <2>1, Still DEF Closed
  <2> QED
    BY <1>3, <2>2 DEF Modes
<1>6. SwitchesOff => SwitchesOff'
  BY <1>2 DEF SwitchesOff
<1>7. CASE TxGoes
  <2>1. TxStarts => TxStarts'
    BY <1>1, <1>2, <1>7, Still DEF TxStarts, On
  <2>2. TxEnds => TxEnds'
    BY <1>1, <1>2, <1>6, <1>7 DEF TxEnds
  <2>3. TxGoes'
    BY <1>1, <1>7, <2>1, <2>2, Still DEF TxGoes, TxSends
  <2> QED
    BY <1>3, <2>3 DEF Modes
<1>8. Starts => Started'
  BY <1>1, <1>2 DEF Starts, Started, NoEvents, On
<1>9. Ends => Ends'
  BY <1>1, <1>2, <1>6 DEF Ends
<1>10. Winds => Winds'
  BY <1>1, <1>2, <1>6 DEF Winds, Ended, GoesIdle, IsIdle, NoEvents
<1>11. ~Started /\ ~Receives /\ ~Handles({"ri4"}) /\ ~Handles({"copied4", "end4"})
       /\ ~Handles({"read", "copied", "rearm"})
  BY <1>1 DEF Started, Receives, Handles
<1>12. Ends' \/ Winds' => ~Pending' /\ ~Spurious'
  BY DEF Ends, Winds, Ended, GoesIdle, IsIdle, SwitchesOff, Pending, Spurious, Starts, Started,
     Receives,
     Listens
<1>13. Starts => Pending /\ ~Spurious'
  BY <1>2 DEF Pending, Spurious, Starts, Listens
<1>14. CASE RxGoes
  <2>1. CASE RxListens /\ Starts
    <3>1. RxListens'
      BY <1>1, <1>8, <2>1, Still DEF RxListens
    <3>2. RxGoes'
      BY <1>1, <1>13, <1>14, <2>1, <3>1, Still DEF RxGoes, RxOffset
    <3> QED
      BY <1>3, <3>2 DEF Modes
  <2>2. CASE RxReceives /\ (Ends \/ Winds)
    <3>1. RxReceives' /\ ~Pending'
      BY <1>1, <1>9, <1>10, <1>12, <2>2, Still DEF RxReceives
    <3>2. RxGoes'
      BY <1>1, <1>14, <3>1, Still DEF RxGoes, RxOffset
    <3> QED
      BY <1>3, <3>2 DEF Modes
  <2> QED
    BY <1>1, <1>11, <1>14, <2>1, <2>2 DEF RxGoes, RxListens, RxReceives, RxHandles
<1>15. CASE Scans
  <2>1. CASE ScanListens /\ Starts
    <3>1. ScanReceives'
      BY <1>8, <2>1, Still, <1>1 DEF ScanReceives, ScanListens
    <3>2. Scans'
      BY <1>1, <1>13, <1>15, <2>1, <3>1, Still DEF Scans
    <3> QED
      BY <1>3, <3>2 DEF Modes
  <2>2. CASE ScanListens /\ Listens
    <3>1. Listens' /\ irq' = "end"
      BY <1>1, <1>2, <2>2 DEF Listens, NoEvents, On
    <3>2. ScanListens' /\ ~Pending' /\ Spurious
      BY <1>1, <2>2, <3>1, Still DEF ScanListens, Pending, Spurious, Listens, Starts, Started,
         Receives
    <3>3. Scans'
      BY <1>1, <1>15, <3>2, Still DEF Scans
    <3> QED
      BY <1>3, <3>3 DEF Modes
  <2>3. CASE ScanReceives /\ Ends
    <3>1. ScanReceives'
      BY <1>1, <1>2, <1>9, <1>11, <2>3, Still DEF ScanReceives
    <3>2. Scans'
      BY <1>1, <1>9, <1>12, <1>15, <2>3, <3>1, Still DEF Scans
    <3> QED
      BY <1>3, <3>2 DEF Modes
  <2>4. CASE ScanPauses
    <3>1. Winds' /\ ~Pending' /\ ~Spurious'
      BY <1>10, <1>12, <2>4 DEF ScanPauses
    <3>2. ScanPauses'
      BY <1>1, <1>2, <2>4, <3>1, Still DEF ScanPauses
    <3>3. Scans'
      BY <1>1, <1>15, <3>1, <3>2, Still DEF Scans
    <3> QED
      BY <1>3, <3>3 DEF Modes
  <2> QED
    BY <1>11, <1>15, <2>1, <2>2, <2>3, <2>4 DEF Scans, ScanListens, ScanReceives, ScanHandles
<1> QED
  BY <1>4, <1>5, <1>7, <1>14, <1>15 DEF Modes

LEMMA EndOfFrameStep ==
    ASSUME Types, Slots, Modes, EndOfFrame
    PROVE  Slots' /\ Modes'
<1>1. /\ UNCHANGED <<timer, isr, lag, opening, kind, slotStart, goesOn, mac, bgScan, loaded,
                     again, copy, air, deaf>>
      /\ isr = Last /\ irq = "end"
      /\ irq' = Handler
  BY DEF EndOfFrame, IrqStep, timerVars, history
<1>2. /\ radio'.end = FALSE /\ radio'.unread = (radio.unread \/ HasReceived(radio))
      /\ radio'.hw = radio.hw /\ radio'.state = radio.state /\ radio'.address = radio.address
      /\ radio'.disabled = radio.disabled /\ radio'.interrupts = radio.interrupts
      /\ radio'.shorts = radio.shorts /\ radio'.pdu = radio.pdu /\ radio'.requested = radio.requested
  BY DEF EndOfFrame, TakeEnd, Types, RadioType
<1>3. Slots'
  BY <1>1, Still
<1>4. ~Opening /\ ~TxWaits /\ ~RxWaits
  BY <1>1 DEF Opening, TxWaits, RxWaits
<1>5. CASE Closed
  <2>1. irq' = "disabled"
    BY <1>1, <1>5 DEF Closed, Handler
  <2>2. Drains'
    BY <1>1, <1>2, <1>5, <2>1 DEF Closed, Drains
  <2>3. Closed'
    BY <1>1, <1>2, <1>5, <2>1, <2>2, Still DEF Closed
  <2> QED
    BY <1>3, <2>3 DEF Modes
<1>6. SwitchesOff => SwitchesOff'
  BY <1>2 DEF SwitchesOff
<1>7. ~radio.end => irq' = "disabled"
  BY <1>1 DEF Handler, HasReceived, HasSent
<1>8. CASE TxGoes
  <2>1. TxStarts => TxStarts'
    BY <1>1, <1>2, <1>7, <1>8, Still DEF TxStarts, On
  <2>2. TxEnds => TxEnds'
    <3> HAVE TxEnds
    <3>1. irq' = "ti3"
      BY <1>1, <1>8 DEF TxGoes, TxEnds, Handler, HasReceived, HasSent
    <3> QED
      BY <1>1, <1>2, <1>6, <3>1 DEF TxEnds
  <2>3. TxGoes'
    BY <1>1, <1>8, <2>1, <2>2, Still DEF TxGoes, TxSends
  <2> QED
    BY <1>3, <2>3 DEF Modes
<1>9. /\ Listens => Listens' /\ irq' = "disabled"
      /\ Starts => Starts' /\ irq' = "disabled"
      /\ Receives => Receives' /\ irq' = "disabled"
  BY <1>1, <1>2, <1>7 DEF Listens, Starts, Receives, NoEvents, On
<1>10. Ends /\ ~radio.crcOk => Ended' /\ irq' = "disabled"
  BY <1>1, <1>2, <1>6 DEF Ends, Ended, Handler, HasReceived, HasSent
<1>11. Winds => Winds'
  BY <1>1, <1>2, <1>6, <1>7 DEF Winds, Ended, GoesIdle, IsIdle, NoEvents
<1>12. ~Started /\ ~Handles({"ri4"}) /\ ~Handles({"copied4", "end4"})
       /\ ~Handles({"read", "copied", "rearm"})
  BY <1>1 DEF Started, Handles
<1>13. Ends \/ Winds => ~Pending' /\ ~Spurious'
  BY <1>2 DEF Ends, Winds, Ended, GoesIdle, IsIdle, SwitchesOff, Pending, Spurious, Starts,
     Started, Receives,
     Listens
<1>14. /\ Listens => ~Pending' /\ Spurious
       /\ Starts => Pending /\ Spurious
       /\ Receives => Pending /\ ~Spurious'
  BY <1>1, <1>2 DEF Pending, Spurious, Listens, Starts, Started, Receives
<1>15. CASE RxGoes
  <2>1. RxReceives /\ (Receives \/ Ends \/ Winds)
    BY <1>1, <1>12, <1>15 DEF RxGoes, RxListens, RxReceives, RxHandles
  <2>2. Ends /\ radio.crcOk => Handles({"ri4"})' /\ radio'.unread
    <3> HAVE Ends /\ radio.crcOk
    <3>1. HasReceived(radio)
      BY DEF Ends, HasReceived
    <3>2. irq' = "ri4"
      BY <1>1, <1>15, <2>1, <3>1 DEF Handler, RxGoes, RxReceives
    <3> QED
      BY <1>1, <1>2, <1>6, <3>1, <3>2 DEF Ends, Handles
  <2>3. Ends => (Handles({"ri4"})' /\ radio'.unread) \/ Winds'
    BY <1>10, <2>2 DEF Winds
  <2>4. RxReceives'
    BY <1>1, <1>9, <1>11, <2>1, <2>3, Still DEF RxReceives
  <2>5. Pending' => Pending
    BY <1>13, <1>14, <2>1
  <2>6. RxGoes'
    BY <1>1, <1>15, <2>4, <2>5, Still DEF RxGoes, RxOffset
  <2> QED
    BY <1>3, <2>6 DEF Modes
<1>16. CASE Scans
  <2>1. CASE ScanListens
    <3>1. ScanListens' /\ (Pending' => Pending) /\ Spurious
      BY <1>1, <1>9, <1>14, <2>1, Still DEF ScanListens
    <3>2. Scans'
      BY <1>1, <1>16, <3>1, Still DEF Scans
    <3> QED
      BY <1>3, <3>2 DEF Modes
  <2>2. CASE ScanReceives /\ Receives
    <3>1. ScanReceives' /\ Pending /\ ~Spurious'
      BY <1>1, <1>9, <1>14, <2>2, Still DEF ScanReceives
    <3>2. Scans'
      BY <1>1, <1>16, <3>1, Still DEF Scans
    <3> QED
      BY <1>3, <3>2 DEF Modes
  <2>3. CASE ScanReceives /\ Ends /\ radio.crcOk
    <3>1. irq' = "read"
      <4>1. HasReceived(radio) /\ bgScan
        BY <1>16, <2>3 DEF Ends, HasReceived, Scans
      <4> QED
        BY <1>1, <4>1 DEF Handler
    <3>2. Handles({"read", "copied", "rearm"})'
      BY <1>1, <1>2, <1>6, <2>3, <3>1 DEF Ends, Handles
    <3>3. ScanHandles' /\ ~Pending' /\ ~Spurious'
      BY <1>1, <1>13, <2>3, <3>1, <3>2, Still DEF ScanHandles, ScanReceives
    <3>4. Scans'
      BY <1>1, <1>16, <3>3, Still DEF Scans
    <3> QED
      BY <1>3, <3>4 DEF Modes
  <2>4. CASE ScanReceives /\ Ends /\ ~radio.crcOk
    <3>1. Winds' /\ ~Pending' /\ ~Spurious'
      BY <1>10, <1>13, <2>4 DEF Winds
    <3>2. Silent(2)' /\ (goesOn' => deaf')
      BY <1>1, <1>12, <2>4, Still DEF ScanReceives, Receives, Ends, SwitchesOff
    <3>3. ScanPauses'
      BY <3>1, <3>2 DEF ScanPauses, Silent, Rearms
    <3>4. Scans'
      BY <1>1, <1>16, <3>1, <3>3, Still DEF Scans
    <3> QED
      BY <1>3, <3>4 DEF Modes
  <2>5. CASE ScanPauses
    <3>1. Winds' /\ ~Pending' /\ ~Spurious'
      BY <1>11, <1>13, <2>5 DEF ScanPauses
    <3>2. ScanPauses'
      BY <1>1, <1>2, <2>5, <3>1, Still DEF ScanPauses
    <3>3. Scans'
      BY <1>1, <1>16, <3>1, <3>2, Still DEF Scans
    <3> QED
      BY <1>3, <3>3 DEF Modes
  <2> QED
    BY <1>12, <1>16, <2>1, <2>2, <2>3, <2>4, <2>5 DEF Scans, ScanReceives, ScanHandles
<1> QED
  BY <1>4, <1>5, <1>8, <1>15, <1>16 DEF Modes

LEMMA ReadingStep ==
    ASSUME Types, Slots, Modes, Ri4Copied \/ ScanRead \/ ScanCopied
    PROVE  Slots' /\ Modes'
<1>1. /\ UNCHANGED <<timer, isr, lag, opening, kind, slotStart, goesOn, mac, bgScan, loaded, air,
                     deaf>>
      /\ isr = Last
  BY DEF Ri4Copied, ScanRead, ScanCopied, IrqStep, timerVars, history
<1>2. /\ radio'.end = radio.end
      /\ radio'.hw = radio.hw /\ radio'.state = radio.state /\ radio'.address = radio.address
      /\ radio'.disabled = radio.disabled /\ radio'.interrupts = radio.interrupts
      /\ radio'.shorts = radio.shorts /\ radio'.pdu = radio.pdu /\ radio'.requested = radio.requested
  BY DEF Ri4Copied, ScanRead, ScanCopied, HasRead, Types, RadioType
<1>3. \/ irq = "copied4" /\ irq' = "end4"
      \/ irq = "read" /\ irq' = "copied" /\ copy' = radio.pdu
      \/ irq = "copied" /\ irq' = "rearm" /\ again' = (bgScan /\ goesOn)
  BY DEF Ri4Copied, ScanRead, ScanCopied, IrqStep, history
<1>4. Slots'
  BY <1>1, Still
<1>5. ~Opening /\ ~TxWaits /\ ~RxWaits /\ ~TxGoes
  BY <1>3 DEF Opening, TxWaits, RxWaits, TxGoes, TxStarts, TxSends, TxEnds
<1>6. CASE Closed
  <2>1. Drains'
    BY <1>1, <1>2, <1>3, <1>6 DEF Closed, Drains
  <2>2. irq # "off" /\ irq' # "off"
    BY <1>3
  <2>3. Closed'
    BY <1>1, <1>2, <1>6, <2>1, <2>2, Still DEF Closed
  <2> QED
    BY <1>4, <2>3 DEF Modes
<1>7. SwitchesOff => SwitchesOff'
  BY <1>2 DEF SwitchesOff
<1>8. /\ irq # "off"
      /\ ~Started /\ ~Receives /\ ~Ends /\ ~Winds /\ ~Handles({"ri4"})
  BY <1>3 DEF Started, Receives, Ends, Winds, Ended, GoesIdle, IsIdle, Handles
<1>9. CASE RxGoes
  <2>1. RxHandles
    BY <1>3, <1>8, <1>9 DEF RxGoes, RxListens, RxReceives
  <2>2. irq' = "end4"
    BY <1>3, <2>1 DEF RxHandles, Handles
  <2>3. Handles({"copied4", "end4"})'
    BY <1>1, <1>2, <1>7, <2>1, <2>2 DEF RxHandles, Handles
  <2>4. RxHandles' /\ ~Pending'
    BY <1>1, <2>1, <2>2, <2>3, Still DEF RxHandles, Handles, SwitchesOff, Pending, Starts,
       Started, Receives
  <2>5. RxGoes'
    BY <1>1, <1>9, <2>4, Still DEF RxGoes, RxOffset
  <2> QED
    BY <1>4, <2>5 DEF Modes
<1>10. CASE Scans
  <2>1. ScanHandles
    BY <1>3, <1>8, <1>10 DEF Scans, ScanListens, ScanReceives, ScanPauses
  <2>2. /\ \/ irq' = "copied" /\ copy' = radio'.pdu
           \/ irq' = "rearm" /\ (again' <=> goesOn')
    BY <1>1, <1>2, <1>3, <1>10, <2>1 DEF ScanHandles, Handles, Scans
  <2>3. Handles({"read", "copied", "rearm"})'
    BY <1>1, <1>2, <1>7, <2>1, <2>2 DEF ScanHandles, Handles
  <2>4. ScanHandles'
    BY <1>1, <2>1, <2>2, <2>3, Still DEF ScanHandles
  <2>5. ~Pending' /\ ~Spurious'
    BY <2>3 DEF Handles, SwitchesOff, Pending, Spurious, Starts, Started, Receives, Listens
  <2>6. Scans'
    BY <1>1, <1>10, <2>4, <2>5, Still DEF Scans
  <2> QED
    BY <1>4, <2>6 DEF Modes
<1> QED
  BY <1>5, <1>6, <1>9, <1>10 DEF Modes

LEMMA RadioIsOffStep ==
    ASSUME Types, Slots, Modes, RadioIsOff
    PROVE  Slots' /\ Modes'
<1>1. /\ UNCHANGED <<timer, isr, lag, opening, kind, slotStart, goesOn, mac, bgScan, loaded,
                     again, copy, air, deaf>>
      /\ isr = Last /\ irq = "disabled"
      /\ irq' = IF radio.disabled THEN "idle" ELSE "off"
  BY DEF RadioIsOff, IrqStep, timerVars, history
<1>2. /\ radio'.end = radio.end
      /\ radio'.hw = radio.hw /\ radio'.state = radio.state /\ radio'.address = radio.address
      /\ radio'.disabled = FALSE /\ radio'.pdu = radio.pdu /\ radio'.requested = radio.requested
      /\ ~radio.disabled => radio'.interrupts = radio.interrupts /\ radio'.shorts = radio.shorts
  BY DEF RadioIsOff, TakeDisabled, Types, RadioType
<1>3. Slots'
  BY <1>1, Still
<1>4. ~Opening /\ ~TxWaits /\ ~RxWaits
  BY <1>1 DEF Opening, TxWaits, RxWaits
<1>5. CASE Closed
  <2>1. Drains'
    BY <1>1, <1>2, <1>5 DEF Closed, Drains
  <2>2. Closed'
    BY <1>1, <1>2, <1>5, <2>1, Still DEF Closed
  <2> QED
    BY <1>3, <2>2 DEF Modes
<1>6. CASE TxGoes
  <2>1. TxStarts
    BY <1>1, <1>6 DEF TxGoes, TxSends, TxEnds
  <2>2. TxSends'
    BY <1>1, <1>2, <2>1 DEF TxStarts, TxSends, NoEvents, On
  <2>3. TxGoes'
    BY <1>1, <1>6, <2>2, Still DEF TxGoes
  <2> QED
    BY <1>3, <2>3 DEF Modes
<1>7. /\ Listens => Listens' /\ irq' = "off"
      /\ Starts => Starts' /\ irq' = "off"
      /\ Receives => Receives' /\ irq' = "off"
  BY <1>1, <1>2 DEF Listens, Starts, Receives, NoEvents, On
<1>8. Winds => Winds'
  <2>1. Ended => GoesIdle' \/ Ended'
    BY <1>1, <1>2 DEF Ended, GoesIdle, SwitchesOff, NoEvents
  <2>2. IsIdle => IsIdle'
    BY <1>1, <1>2 DEF IsIdle, NoEvents
  <2> QED
    BY <1>1, <2>1, <2>2 DEF Winds, GoesIdle
<1>9. ~Started /\ ~Ends /\ ~Handles({"ri4"}) /\ ~Handles({"copied4", "end4"})
      /\ ~Handles({"read", "copied", "rearm"})
  BY <1>1 DEF Started, Ends, Handles
<1>10. Winds => ~Pending' /\ ~Spurious'
  BY <1>2 DEF Winds, Ended, GoesIdle, IsIdle, SwitchesOff, Pending, Spurious, Starts, Started,
     Receives, Listens
<1>11. /\ Listens => ~Pending' /\ Spurious
       /\ Starts => Pending /\ Spurious
       /\ Receives => Pending /\ ~Spurious'
  BY <1>1, <1>2 DEF Pending, Spurious, Listens, Starts, Started, Receives
<1>12. CASE RxGoes
  <2>1. RxReceives /\ (Receives \/ Winds)
    BY <1>1, <1>9, <1>12 DEF RxGoes, RxListens, RxReceives, RxHandles
  <2>2. RxReceives'
    BY <1>1, <1>7, <1>8, <2>1, Still DEF RxReceives
  <2>3. Pending' => Pending
    BY <1>10, <1>11, <2>1
  <2>4. RxGoes'
    BY <1>1, <1>12, <2>2, <2>3, Still DEF RxGoes, RxOffset
  <2> QED
    BY <1>3, <2>4 DEF Modes
<1>13. CASE Scans
  <2>1. CASE ScanListens
    <3>1. ScanListens' /\ (Pending' => Pending) /\ Spurious
      BY <1>1, <1>7, <1>11, <2>1, Still DEF ScanListens
    <3>2. Scans'
      BY <1>1, <1>13, <3>1, Still DEF Scans
    <3> QED
      BY <1>3, <3>2 DEF Modes
  <2>2. CASE ScanReceives
    <3>1. ScanReceives' /\ Pending /\ ~Spurious'
      BY <1>1, <1>7, <1>9, <1>11, <2>2, Still DEF ScanReceives
    <3>2. Scans'
      BY <1>1, <1>13, <3>1, Still DEF Scans
    <3> QED
      BY <1>3, <3>2 DEF Modes
  <2>3. CASE ScanPauses
    <3>1. Winds' /\ ~Pending' /\ ~Spurious'
      BY <1>8, <1>10, <2>3 DEF ScanPauses
    <3>2. ScanPauses'
      BY <1>1, <1>2, <2>3, <3>1, Still DEF ScanPauses
    <3>3. Scans'
      BY <1>1, <1>13, <3>1, <3>2, Still DEF Scans
    <3> QED
      BY <1>3, <3>3 DEF Modes
  <2> QED
    BY <1>9, <1>13, <2>1, <2>2, <2>3 DEF Scans, ScanHandles
<1> QED
  BY <1>4, <1>5, <1>6, <1>12, <1>13 DEF Modes

LEMMA RadioIsIdleStep ==
    ASSUME Types, Slots, Modes, RadioIsIdle
    PROVE  Slots' /\ Modes'
<1>1. /\ UNCHANGED <<timer, isr, lag, opening, kind, slotStart, goesOn, mac, bgScan, loaded,
                     again, copy, air, deaf>>
      /\ isr = Last /\ irq = "idle" /\ irq' = "off"
  BY DEF RadioIsIdle, IrqStep, timerVars, history
<1>2. /\ radio'.end = radio.end /\ radio'.disabled = radio.disabled
      /\ radio'.hw = radio.hw /\ radio'.state = {} /\ radio'.address = radio.address
      /\ radio'.pdu = radio.pdu /\ radio'.requested = radio.requested
  BY DEF RadioIsIdle, BecomeIdle, Types, RadioType
<1>3. Slots'
  BY <1>1, Still
<1>4. ~Opening /\ ~TxWaits /\ ~RxWaits /\ ~TxGoes
  BY <1>1 DEF Opening, TxWaits, RxWaits, TxGoes, TxStarts, TxSends, TxEnds
<1>5. CASE Closed
  <2>1. Drains'
    BY <1>1, <1>2, <1>5 DEF Closed, Drains
  <2>2. Closed'
    BY <1>1, <1>2, <1>5, <2>1, Still DEF Closed
  <2> QED
    BY <1>3, <2>2 DEF Modes
<1>6. Winds => GoesIdle
  BY <1>1 DEF Winds, Ended, IsIdle
<1>7. GoesIdle => IsIdle'
  BY <1>1, <1>2 DEF GoesIdle, IsIdle, NoEvents
<1>8. Winds => Winds' /\ ~Pending' /\ ~Spurious'
  BY <1>6, <1>7 DEF Winds, IsIdle, Pending, Spurious, Starts, Started, Receives, Listens
<1>9. ~Started /\ ~Receives /\ ~Ends /\ ~Handles({"ri4"}) /\ ~Handles({"copied4", "end4"})
      /\ ~Handles({"read", "copied", "rearm"})
  BY <1>1 DEF Started, Receives, Ends, Handles
<1>10. CASE RxGoes
  <2>1. RxReceives /\ Winds
    BY <1>1, <1>9, <1>10 DEF RxGoes, RxListens, RxReceives, RxHandles
  <2>2. RxReceives'
    BY <1>1, <1>8, <2>1, Still DEF RxReceives
  <2>3. RxGoes'
    BY <1>1, <1>8, <1>10, <2>1, <2>2, Still DEF RxGoes, RxOffset
  <2> QED
    BY <1>3, <2>3 DEF Modes
<1>11. CASE Scans
  <2>1. ScanPauses
    BY <1>1, <1>9, <1>11 DEF Scans, ScanListens, ScanReceives, ScanHandles
  <2>2. Winds' /\ ~Pending' /\ ~Spurious'
    BY <1>8, <2>1 DEF ScanPauses
  <2>3. ScanPauses'
    BY <1>1, <1>2, <2>1, <2>2, Still DEF ScanPauses
  <2>4. Scans'
    BY <1>1, <1>11, <2>2, <2>3, Still DEF Scans
  <2> QED
    BY <1>3, <2>4 DEF Modes
<1> QED
  BY <1>4, <1>5, <1>10, <1>11 DEF Modes

-----------------------------------------------------------------------------
(* The radio interrupt where it sets or cancels timers.                    *)

LEMMA StillBut ==
    ASSUME UNCHANGED <<isr, lag, opening, kind, slotStart>>, timer'.counter = timer.counter,
           timer'.channel[0] = timer.channel[0], timer'.channel[4] = timer.channel[4],
           timer'.counter \in Nat
    PROVE  /\ Slots => Slots'
           /\ now' = now /\ entry' = entry /\ ScanEnd' = ScanEnd /\ ClosedBy' = ClosedBy
           /\ Opened' <=> Opened
           /\ NotLaterThan(slotStart)' <=> NotLaterThan(slotStart)
           /\ NotLaterThan(ClosedBy)' <=> NotLaterThan(ClosedBy)
           /\ timer'.channel[1] = timer.channel[1] /\ Silent(1) => Silent(1)'
           /\ timer'.channel[2] = timer.channel[2] /\ Silent(2) => Silent(2)'
           /\ timer'.channel[3] = timer.channel[3] /\ Silent(3) => Silent(3)'
           /\ timer'.channel[2] = timer.channel[2] =>
                /\ Armed(2, "tie1", slotStart + (TxOffset + TxMax))
                   => Armed(2, "tie1", slotStart + (TxOffset + TxMax))'
           /\ timer'.channel[3] = timer.channel[3] =>
                /\ Armed(3, "rie2", slotStart + (TxOffset + TxMax))
                   => Armed(3, "rie2", slotStart + (TxOffset + TxMax))'
           /\ timer'.channel[1] = timer.channel[1] =>
                \A k \in 0 .. 2 * MaxLag : Armed(1, "endScan", slotStart + (BgScanDuration + k))
                                           => Armed(1, "endScan", slotStart + (BgScanDuration + k))'
<1>1. now' = now /\ entry' = entry /\ ScanEnd' = ScanEnd /\ ClosedBy' = ClosedBy /\ LateBy' = LateBy
  BY DEF now, entry, ScanEnd, ClosedBy, LateBy, BgScanDuration, WholeSlot
<1>2. Slots => Slots'
  BY <1>1 DEF Slots, Expires, WholeSlot
<1>3. /\ Opened' <=> Opened
      /\ NotLaterThan(slotStart)' <=> NotLaterThan(slotStart)
      /\ NotLaterThan(ClosedBy)' <=> NotLaterThan(ClosedBy)
  BY <1>1 DEF Opened, NotLaterThan
<1>4. /\ timer'.channel[1] = timer.channel[1] /\ Silent(1) => Silent(1)'
      /\ timer'.channel[2] = timer.channel[2] /\ Silent(2) => Silent(2)'
      /\ timer'.channel[3] = timer.channel[3] /\ Silent(3) => Silent(3)'
  BY <1>1 DEF Silent, now
<1>5. timer'.channel[2] = timer.channel[2] /\ Armed(2, "tie1", slotStart + (TxOffset + TxMax))
         => Armed(2, "tie1", slotStart + (TxOffset + TxMax))'
  BY <1>1 DEF Armed, Expires
<1>6. timer'.channel[3] = timer.channel[3] /\ Armed(3, "rie2", slotStart + (TxOffset + TxMax))
         => Armed(3, "rie2", slotStart + (TxOffset + TxMax))'
  BY <1>1 DEF Armed, Expires
<1>7. timer'.channel[1] = timer.channel[1] =>
        \A k \in 0 .. 2 * MaxLag : Armed(1, "endScan", slotStart + (BgScanDuration + k))
                                   => Armed(1, "endScan", slotStart + (BgScanDuration + k))'
  BY <1>1 DEF Armed, Expires, BgScanDuration, WholeSlot
<1> QED
  BY <1>1, <1>2, <1>3, <1>4, <1>5, <1>6, <1>7

LEMMA CancelledIsSilent ==
    ASSUME NEW c \in 1 .. 3, timer'.counter \in Nat, timer'.channel[c].cc = 0,
           timer'.channel[c].enabled = FALSE, timer'.channel[c].event = FALSE
    PROVE  Silent(c)'
BY DEF Silent, now

\* While a timer that ends a slot is armed, or has just ended it, the next slot is not due.
LEMMA NotYet ==
    ASSUME Types, Slots,
           now <= ClosedBy + MaxLag
    PROVE  timer.channel[0].event = FALSE
<1>1. timer.channel[0].event \in BOOLEAN
  BY TypeFacts DEF Types, Timer, ChannelType
<1>2. PICK next \in Int : slotStart + WholeSlot - LateBy <= next /\ (timer.channel[0].event <=> next <= now)
  BY NextSlot
<1>3. now \in Int /\ slotStart \in Int
  BY TypeFacts
<1> QED
  BY <1>1, <1>2, <1>3, Durations DEF ClosedBy, LateBy

LEMMA HandleStartStep ==
    ASSUME Types, Slots, Modes, HandleStart
    PROVE  Slots' /\ Modes'
<1>1. /\ UNCHANGED <<isr, lag, opening, kind, slotStart, goesOn, bgScan, again, copy, air, deaf>>
      /\ isr = Last /\ irq = "busy" /\ irq' = "end"
      /\ mac' = IF bgScan \/ mac = "listen" THEN "rxData" ELSE mac
      /\ timer' = IF ~bgScan /\ mac = "listen" THEN Cancel(timer, 2) ELSE timer
  BY DEF HandleStart, IrqStep, timerVars, history
<1>2. /\ radio'.state = loaded \cup {"busy"}
      /\ radio'.end = radio.end /\ radio'.disabled = radio.disabled
      /\ radio'.hw = radio.hw /\ radio'.address = radio.address
      /\ radio'.pdu = radio.pdu /\ radio'.requested = radio.requested
      /\ radio'.interrupts = radio.interrupts /\ radio'.shorts = radio.shorts
  BY DEF HandleStart, MarkBusy, Types, RadioType
<1>3. 2 \in Channel /\ timer \in Timer(Callback) /\ now \in Nat /\ 0 \in Channel \ {2} /\ 4 \in Channel \ {2}
      /\ 1 \in Channel \ {2} /\ 3 \in Channel \ {2}
  BY TypeFacts DEF Types
<1>4. /\ timer'.counter = timer.counter /\ timer'.counter \in Nat
      /\ timer'.channel[0] = timer.channel[0] /\ timer'.channel[4] = timer.channel[4]
      /\ timer'.channel[1] = timer.channel[1] /\ timer'.channel[3] = timer.channel[3]
  <2>1. CASE ~bgScan /\ mac = "listen"
    BY <1>1, <1>3, <2>1, Cancels DEF now
  <2>2. CASE ~(~bgScan /\ mac = "listen")
    BY <1>1, <1>3, <2>2 DEF now
  <2> QED
    BY <2>1, <2>2
<1>5. Slots'
  BY <1>1, <1>4, StillBut
<1>6. ~Opening /\ ~TxWaits /\ ~RxWaits
  BY <1>1 DEF Opening, TxWaits, RxWaits
<1>7. CASE Closed
  <2>1. timer' = timer /\ mac' = "sleep"
    BY <1>1, <1>7 DEF Closed
  <2>2. Drains'
    BY <1>1, <1>2, <1>7 DEF Closed, Drains
  <2>3. Closed'
    BY <1>1, <1>2, <1>7, <2>1, <2>2, Still DEF Closed
  <2> QED
    BY <1>5, <2>3 DEF Modes
<1>8. CASE TxGoes
  <2>1. timer' = timer /\ mac' = "txData"
    BY <1>1, <1>8 DEF TxGoes
  <2>2. TxStarts
    BY <1>1, <1>8 DEF TxGoes, TxSends, TxEnds
  <2>3. loaded \cup {"busy"} = {"tx", "busy"}
    BY <1>1, <2>2 DEF TxStarts
  <2>4. TxStarts'
    BY <1>1, <1>2, <2>1, <2>2, <2>3, Still DEF TxStarts, On
  <2>5. TxGoes'
    BY <1>1, <1>8, <2>1, <2>4, Still DEF TxGoes
  <2> QED
    BY <1>5, <2>5 DEF Modes
<1>9. Started => Receives' /\ irq' # "off"
  <2> HAVE Started
  <2>1. loaded \cup {"busy"} = {"rx", "busy"}
    BY DEF Started
  <2> QED
    BY <1>1, <1>2, <2>1 DEF Started, Receives, NoEvents, On
<1>10. ~Receives /\ ~Ends /\ ~Winds /\ ~Handles({"ri4"}) /\ ~Handles({"copied4", "end4"})
       /\ ~Handles({"read", "copied", "rearm"})
  BY <1>1 DEF Receives, Ends, Winds, Ended, GoesIdle, IsIdle, Handles
<1>11. CASE RxGoes
  <2>1. RxListens /\ Started
    BY <1>1, <1>10, <1>11 DEF RxGoes, RxListens, RxReceives, RxHandles
  <2>2. timer' = Cancel(timer, 2) /\ mac' = "rxData"
    BY <1>1, <1>11, <2>1 DEF RxGoes, RxListens
  <2>3. timer'.channel[2].cc = 0 /\ timer'.channel[2].enabled = FALSE /\ timer'.channel[2].event = FALSE
    BY <1>3, <2>2, Cancels
  <2>4. Silent(2)' /\ (Silent(1) => Silent(1)')
    <3>1. Silent(2)'
      BY <1>4, <2>3 DEF Silent, now
    <3>2. Silent(1) => Silent(1)'
      BY <1>1, <1>4, StillBut
    <3> QED
      BY <3>1, <3>2
  <2>5. Armed(3, "rie2", slotStart + (TxOffset + TxMax))'
    BY <1>1, <1>4, <2>1, StillBut DEF RxListens
  <2>6. RxReceives'
    BY <1>9, <2>1, <2>2, <2>4, <2>5 DEF RxReceives
  <2>7. Pending /\ isr = Last /\ isr' = Last
    BY <1>1, <2>1 DEF Pending
  <2>8. now' = now
    BY <1>4 DEF now
  <2>9. RxGoes'
    BY <1>1, <1>11, <2>4, <2>6, <2>7, <2>8 DEF RxGoes, RxOffset
  <2> QED
    BY <1>5, <2>9 DEF Modes
<1>12. CASE Scans
  <2>1. ScanReceives /\ Started
    BY <1>1, <1>10, <1>12 DEF Scans, ScanListens, ScanReceives, ScanHandles, ScanPauses
  <2>2. timer' = timer
    BY <1>1, <1>12 DEF Scans
  <2>3. ScanReceives' /\ Pending
    BY <1>1, <1>9, <2>1, <2>2, Still DEF ScanReceives, Pending
  <2>4. ~Spurious'
    BY <1>9, <2>1 DEF Receives, Spurious, Listens, Starts
  <2>5. Scans'
    BY <1>1, <1>12, <2>2, <2>3, <2>4, Still DEF Scans
  <2> QED
    BY <1>5, <2>5 DEF Modes
<1> QED
  BY <1>6, <1>7, <1>8, <1>11, <1>12 DEF Modes

LEMMA EndSlotStep ==
    ASSUME Types, Types', Slots, Modes, Ti3 \/ Ri4End
    PROVE  Slots' /\ Modes'
<1>1. /\ UNCHANGED <<isr, lag, opening, kind, slotStart, goesOn, bgScan, again, copy, air, deaf>>
      /\ isr = Last /\ irq' = "disabled" /\ timer' = Quietened(timer)
      /\ \/ irq = "ti3" /\ mac' = "sleep"
         \/ irq = "end4" /\ mac' = mac
  BY DEF Ti3, Ri4End, IrqStep, timerVars, history
<1>2. /\ radio'.state = {} /\ radio'.disabled = TRUE /\ radio'.hw = "off"
      /\ radio'.address = radio.address
  BY DEF Ti3, Ri4End, Disable, Types, RadioType
<1>3. timer \in Timer(Callback) /\ now \in Nat
  BY TypeFacts DEF Types
<1>4. /\ timer'.counter = timer.counter /\ timer'.counter \in Nat
      /\ timer'.channel[0] = timer.channel[0] /\ timer'.channel[4] = timer.channel[4]
      /\ \A c \in 1 .. 3 : /\ timer'.channel[c].cc = 0 /\ timer'.channel[c].enabled = FALSE
                           /\ timer'.channel[c].event = FALSE
  BY <1>1, <1>3, Quietens DEF now
<1>5. Slots' /\ \A c \in 1 .. 3 : Silent(c)'
  BY <1>1, <1>4, StillBut, CancelledIsSilent
<1>6. ~Opening /\ ~TxWaits /\ ~RxWaits
  BY <1>1 DEF Opening, TxWaits, RxWaits
<1>7. ~Scans
  BY <1>1 DEF Scans, ScanListens, ScanReceives, ScanHandles, ScanPauses, Started, Receives, Ends,
     Handles, Winds,
     Ended, GoesIdle, IsIdle
<1>8. ASSUME ~radio.address, ~opening, ~bgScan, mac' = "sleep", now <= ClosedBy + MaxLag
      PROVE  Closed'
  <2>1. timer'.channel[0].event = FALSE
    BY <1>4, <1>8, NotYet
  <2>2. NotLaterThan(ClosedBy)'
    BY <1>1, <1>4, <1>8, StillBut DEF NotLaterThan
  <2>3. Drains'
    BY <1>1, <1>2, <1>8 DEF Drains
  <2> QED
    BY <1>1, <1>2, <1>5, <1>8, <2>1, <2>2, <2>3 DEF Closed
<1>9. CASE Closed
  <2>1. mac' = "sleep" /\ ~radio.address /\ irq # "off"
    BY <1>1, <1>9 DEF Closed, Drains
  <2>2. NotLaterThan(ClosedBy)
    BY <1>9, <2>1 DEF Closed
  <2>3. Closed'
    BY <1>1, <1>8, <1>9, <2>1, <2>2 DEF Closed, NotLaterThan
  <2> QED
    BY <1>5, <2>3 DEF Modes
<1>10. MaxLag \in Nat /\ TxOffset \in Nat /\ TxMax \in Nat /\ slotStart \in Nat /\ lag = 0
  BY <1>1, TypeFacts, Durations
<1>11. CASE TxGoes
  <2>1. TxEnds /\ irq = "ti3"
    BY <1>1, <1>11 DEF TxGoes, TxStarts, TxSends, TxEnds
  <2>2. now <= ClosedBy + MaxLag
    BY <1>3, <1>10, <1>11 DEF TxGoes, Armed, Expires, ClosedBy
  <2>3. Closed'
    BY <1>1, <1>8, <1>11, <2>1, <2>2 DEF TxGoes, TxEnds
  <2> QED
    BY <1>5, <2>3 DEF Modes
<1>12. CASE RxGoes
  <2>1. RxHandles
    BY <1>1, <1>12 DEF RxGoes, RxListens, RxReceives, Started, Receives, Ends, Handles, Winds,
       Ended, GoesIdle,
       IsIdle
  <2>2. now <= ClosedBy + MaxLag
    BY <1>3, <1>10, <1>12, <2>1 DEF RxHandles, ClosedBy, RxGoes
  <2>3. mac' = "sleep" /\ ~radio.address
    BY <1>1, <2>1 DEF RxHandles, Handles
  <2>4. Closed'
    BY <1>1, <1>8, <1>12, <2>2, <2>3 DEF RxGoes
  <2> QED
    BY <1>5, <2>4 DEF Modes
<1> QED
  BY <1>6, <1>7, <1>9, <1>11, <1>12 DEF Modes

LEMMA Ri4Step ==
    ASSUME Types, Types', Slots, Modes, Ri4
    PROVE  Slots' /\ Modes'
<1>1. /\ UNCHANGED <<radio, isr, lag, opening, kind, slotStart, goesOn, bgScan, again, air, deaf>>
      /\ isr = Last /\ irq = "ri4" /\ mac' = "sleep" /\ timer' = Cancel(timer, 3)
      /\ copy' = IF radio.unread THEN radio.pdu ELSE copy
      /\ irq' = IF radio.unread THEN "copied4" ELSE "end4"
  BY DEF Ri4, IrqStep, timerVars, history
<1>2. 3 \in Channel /\ timer \in Timer(Callback) /\ now \in Nat /\ 0 \in Channel \ {3} /\ 4 \in Channel \ {3}
      /\ 1 \in Channel \ {3} /\ 2 \in Channel \ {3}
  BY TypeFacts DEF Types
<1>3. /\ timer'.counter = timer.counter /\ timer'.counter \in Nat
      /\ timer'.channel[0] = timer.channel[0] /\ timer'.channel[4] = timer.channel[4]
      /\ timer'.channel[1] = timer.channel[1] /\ timer'.channel[2] = timer.channel[2]
      /\ timer'.channel[3].cc = 0 /\ timer'.channel[3].enabled = FALSE /\ timer'.channel[3].event = FALSE
  BY <1>1, <1>2, Cancels DEF now
<1>4. /\ Slots' /\ now' = now
      /\ Silent(1) => Silent(1)'
      /\ Silent(2) => Silent(2)'
      /\ Silent(3)'
      /\ NotLaterThan(ClosedBy)' <=> NotLaterThan(ClosedBy)
      /\ entry' = entry
  <2>1. Silent(3)'
    BY <1>3 DEF Silent, now
  <2> QED
    BY <1>1, <1>3, <2>1, StillBut
<1>5. ~Opening /\ ~TxWaits /\ ~RxWaits /\ ~TxGoes /\ ~Scans
  BY <1>1 DEF Opening, TxWaits, RxWaits, TxGoes, TxStarts, TxSends, TxEnds, Scans, ScanListens,
     ScanReceives,
     ScanHandles, ScanPauses, Started, Receives, Ends, Handles, Winds, Ended, GoesIdle, IsIdle
<1>6. CASE Closed
  <2>1. Drains'
    BY <1>1, <1>6 DEF Closed, Drains
  <2>2. Closed'
    BY <1>1, <1>3, <1>4, <1>6, <2>1 DEF Closed
  <2> QED
    BY <1>4, <2>2 DEF Modes
<1>7. CASE RxGoes
  <2>1. RxReceives /\ Handles({"ri4"}) /\ radio.unread
    BY <1>1, <1>7 DEF RxGoes, RxListens, RxReceives, RxHandles, Started, Receives, Ends, Handles,
       Winds, Ended,
       GoesIdle, IsIdle
  <2>2. now <= slotStart + TxOffset + TxMax + MaxLag
    <3>1. lag = 0 /\ slotStart \in Nat /\ TxOffset \in Nat /\ TxMax \in Nat /\ MaxLag \in Nat
      BY <1>1, TypeFacts, Durations
    <3> QED
      BY <1>2, <2>1, <3>1 DEF RxReceives, Armed, Expires
  <2>3. Handles({"copied4", "end4"})'
    BY <1>1, <2>1 DEF Handles, SwitchesOff
  <2>4. RxHandles'
    BY <1>1, <1>4, <2>1, <2>2, <2>3 DEF RxReceives, RxHandles
  <2>5. ~Pending'
    BY <2>3 DEF Pending, Handles, SwitchesOff, Starts, Started, Receives
  <2>6. RxGoes'
    BY <1>1, <1>4, <1>7, <2>4, <2>5 DEF RxGoes, RxOffset
  <2> QED
    BY <1>4, <2>6 DEF Modes
<1> QED
  BY <1>5, <1>6, <1>7 DEF Modes

LEMMA ScanRearmStep ==
    ASSUME Types, Types', Slots, Modes, ScanRearm
    PROVE  Slots' /\ Modes'
<1>1. /\ UNCHANGED <<radio, isr, lag, opening, kind, slotStart, goesOn, bgScan, copy, air, deaf>>
      /\ isr = Last /\ irq = "rearm" /\ irq' = "disabled" /\ again' = FALSE
      /\ mac' = IF again THEN "listen" ELSE "sleep"
      /\ timer' = IF again THEN SetOneShotWithRef(timer, 2, entered, RearmDelay, "rx") ELSE timer
  BY DEF ScanRearm, IrqStep, timerVars, history
<1>2. 2 \in Channel /\ timer \in Timer(Callback) /\ now \in Nat /\ 0 \in Channel \ {2} /\ 4 \in Channel \ {2}
      /\ 1 \in Channel \ {2} /\ 3 \in Channel \ {2}
  BY TypeFacts DEF Types
<1>3. again =>
        /\ timer'.counter = timer.counter
        /\ \A d \in Channel \ {2} : timer'.channel[d] = timer.channel[d]
        /\ timer'.channel[2].enabled = TRUE /\ timer'.channel[2].oneShot = TRUE
        /\ timer'.channel[2].callback = "rx" /\ timer'.channel[2].event = timer.channel[2].event
  <2> HAVE again
  <2>1. PICK us \in Int : us = RearmDelay + (timer.counter - entered)
    BY <1>2, Durations DEF now, Types, Count
  <2>2. timer' = SetOneShot(timer, 2, us, "rx")
    BY <1>1, <2>1 DEF SetOneShotWithRef
  <2>3. "rx" \in Callback
    BY DEF Callback
  <2>4. us % Wrap \in Count /\ (timer.counter + us) % Wrap \in Count
    BY <1>2, InCount DEF now
  <2> QED
    BY <1>2, <2>2, <2>4 DEF SetOneShot, Arm, Timer, ChannelType
<1>4. /\ timer'.counter = timer.counter /\ timer'.counter \in Nat
      /\ timer'.channel[0] = timer.channel[0] /\ timer'.channel[4] = timer.channel[4]
      /\ timer'.channel[1] = timer.channel[1] /\ timer'.channel[3] = timer.channel[3]
  BY <1>1, <1>2, <1>3 DEF now
<1>5. Slots'
  BY <1>1, <1>4, StillBut
<1>6. ~Opening /\ ~TxWaits /\ ~RxWaits /\ ~TxGoes
  BY <1>1 DEF Opening, TxWaits, RxWaits, TxGoes, TxStarts, TxSends, TxEnds
<1>7. CASE Closed
  <2>1. ~again /\ timer' = timer /\ mac' = "sleep"
    BY <1>1, <1>7 DEF Closed, Drains
  <2>2. Drains'
    BY <1>1, <1>7 DEF Closed, Drains
  <2>3. Closed'
    BY <1>1, <1>7, <2>1, <2>2, Still DEF Closed
  <2> QED
    BY <1>5, <2>3 DEF Modes
<1>8. ~Started /\ ~Receives /\ ~Ends /\ ~Winds /\ ~Handles({"ri4"}) /\ ~Handles({"copied4", "end4"})
  BY <1>1 DEF Started, Receives, Ends, Winds, Ended, GoesIdle, IsIdle, Handles
<1>9. ~RxGoes
  BY <1>1, <1>8 DEF RxGoes, RxListens, RxReceives, RxHandles
<1>10. CASE Scans
  <2>1. ScanHandles
    BY <1>1, <1>8, <1>10 DEF Scans, ScanListens, ScanReceives, ScanPauses
  <2>2. Winds' /\ ~Pending' /\ ~Spurious'
    BY <1>1, <2>1 DEF ScanHandles, Handles, Winds, Ended, SwitchesOff, Pending, Spurious, Starts,
       Started,
       Receives, Listens
  <2>3. /\ now' = now /\ ScanEnd' = ScanEnd /\ (Opened' <=> Opened)
        /\ Silent(1) => Silent(1)'
        /\ Silent(3) => Silent(3)'
        /\ \A k \in 0 .. 2 * MaxLag : Armed(1, "endScan", slotStart + (BgScanDuration + k))
                                      => Armed(1, "endScan", slotStart + (BgScanDuration + k))'
        /\ NotLaterThan(slotStart)' <=> NotLaterThan(slotStart)
    BY <1>1, <1>4, StillBut
  <2>4. ScanPauses'
    <3>1. CASE again
      <4>1. Rearms'
        BY <1>3, <2>1, <3>1 DEF ScanHandles, Silent, Rearms
      <4>2. ~goesOn' => NotLaterThan(slotStart)'
        BY <1>1, <2>1, <2>3, <3>1 DEF ScanHandles
      <4> QED
        BY <2>2, <4>1, <4>2 DEF ScanPauses
    <3>2. CASE ~again
      <4>1. timer' = timer /\ ~goesOn'
        BY <1>1, <2>1, <3>2 DEF ScanHandles
      <4>2. Silent(2)'
        BY <1>1, <2>1, <4>1, Still DEF ScanHandles
      <4> QED
        BY <2>2, <4>1, <4>2 DEF ScanPauses, Silent, Rearms
    <3> QED
      BY <3>1, <3>2
  <2>5. Scans'
    BY <1>1, <1>10, <2>2, <2>3, <2>4 DEF Scans
  <2> QED
    BY <1>5, <2>5 DEF Modes
<1> QED
  BY <1>6, <1>7, <1>9, <1>10 DEF Modes

-----------------------------------------------------------------------------
(* The timer interrupt.                                                    *)

Untouched(c) ==
    /\ timer'.channel[c] = timer.channel[c]
    /\ timer.channel[c].event => ~((\E f : Calls(f)) /\ c = First)

LEMMA IsrKeeps ==
    ASSUME Types, Types', Passes, timer'.counter = timer.counter, slotStart' = slotStart
    PROVE  /\ now' = now /\ ScanEnd' = ScanEnd
           /\ Untouched(1) =>
                /\ Silent(1) => Silent(1)'
                /\ Armed(1, "ti2", slotStart + TxOffset) => Armed(1, "ti2", slotStart + TxOffset)'
                /\ Armed(1, "ri2", slotStart + RxOffset) => Armed(1, "ri2", slotStart + RxOffset)'
                /\ \A k \in 0 .. 2 * MaxLag : Armed(1, "endScan", slotStart + (BgScanDuration + k))
                                              => Armed(1, "endScan", slotStart + (BgScanDuration + k))'
           /\ Untouched(2) =>
                /\ Silent(2) => Silent(2)'
                /\ Armed(2, "tie1", slotStart + (TxOffset + TxMax))
                   => Armed(2, "tie1", slotStart + (TxOffset + TxMax))'
                /\ Armed(2, "rie1", slotStart + (TxOffset + RxGuard))
                   => Armed(2, "rie1", slotStart + (TxOffset + RxGuard))'
                /\ Rearms => Rearms'
           /\ Untouched(3) =>
                /\ Silent(3) => Silent(3)'
                /\ Armed(3, "rie2", slotStart + (TxOffset + TxMax))
                   => Armed(3, "rie2", slotStart + (TxOffset + TxMax))'
<1>1. now' = now /\ ScanEnd' = ScanEnd
  BY DEF now, ScanEnd, BgScanDuration, WholeSlot
<1>2. /\ TxOffset \in Int /\ RxOffset \in Int /\ TxOffset + TxMax \in Int /\ TxOffset + RxGuard \in Int
      /\ \A k \in 0 .. 2 * MaxLag : BgScanDuration + k \in Int
  BY Durations
<1>3. \A c \in 1 .. 3 : \A f : \A d \in Int : Untouched(c) /\ Armed(c, f, slotStart + d)
         => Armed(c, f, slotStart + d)'
  <2> SUFFICES ASSUME NEW c \in 1 .. 3, NEW f, NEW d \in Int, Untouched(c), Armed(c, f, slotStart + d)
               PROVE  Armed(c, f, slotStart + d)'
    OBVIOUS
  <2> QED
    BY ArmedKept DEF Untouched
<1> DEFINE Holds(c, f, d) == Untouched(c) /\ Armed(c, f, slotStart + d) => Armed(c, f, slotStart + d)'
<1>4. \A c \in 1 .. 3 : \A f : \A d \in Int : Holds(c, f, d)
  BY <1>3
<1>5. /\ Holds(1, "ti2", TxOffset) /\ Holds(2, "tie1", TxOffset + TxMax) /\ Holds(1, "ri2", RxOffset)
      /\ Holds(2, "rie1", TxOffset + RxGuard) /\ Holds(3, "rie2", TxOffset + TxMax)
      /\ \A k \in 0 .. 2 * MaxLag : Holds(1, "endScan", BgScanDuration + k)
  <2> HIDE DEF Holds
  <2> QED
    BY <1>2, <1>4
<1>6. \A c \in 1 .. 3 : Untouched(c) => /\ Silent(c) => Silent(c)'
                                        /\ c = 2 /\ Rearms => Rearms'
  <2> SUFFICES ASSUME NEW c \in 1 .. 3, Untouched(c)
               PROVE  (Silent(c) => Silent(c)') /\ (c = 2 /\ Rearms => Rearms')
    OBVIOUS
  <2> QED
    BY Kept DEF Untouched
<1>7. \A k \in 0 .. 2 * MaxLag : Untouched(1) /\ Armed(1, "endScan", slotStart + (BgScanDuration + k))
                                 => Armed(1, "endScan", slotStart + (BgScanDuration + k))'
  BY <1>5 DEF BgScanDuration, WholeSlot
<1>8. /\ Untouched(1) /\ Armed(1, "ti2", slotStart + TxOffset) => Armed(1, "ti2", slotStart + TxOffset)'
      /\ Untouched(1) /\ Armed(1, "ri2", slotStart + RxOffset) => Armed(1, "ri2", slotStart + RxOffset)'
      /\ Untouched(2) /\ Armed(2, "tie1", slotStart + (TxOffset + TxMax))
         => Armed(2, "tie1", slotStart + (TxOffset + TxMax))'
      /\ Untouched(2) /\ Armed(2, "rie1", slotStart + (TxOffset + RxGuard))
         => Armed(2, "rie1", slotStart + (TxOffset + RxGuard))'
      /\ Untouched(3) /\ Armed(3, "rie2", slotStart + (TxOffset + TxMax))
         => Armed(3, "rie2", slotStart + (TxOffset + TxMax))'
  BY <1>5 DEF RxOffset
<1>9. /\ Untouched(1) /\ Silent(1) => Silent(1)'
      /\ Untouched(2) /\ Silent(2) => Silent(2)'
      /\ Untouched(3) /\ Silent(3) => Silent(3)'
      /\ Untouched(2) /\ Rearms => Rearms'
  BY <1>6
<1> HIDE DEF Holds
<1> QED
  BY <1>1, <1>7, <1>8, <1>9

\* When the timers of each mode have their events.
LEMMA Events ==
    ASSUME Types, Slots
    PROVE  /\ TxWaits => /\ (timer.channel[1].event <=> slotStart + TxOffset <= now)
                         /\ (timer.channel[2].event <=> slotStart + TxOffset + TxMax <= now)
                         /\ timer.channel[3].event = FALSE
           /\ TxGoes => /\ timer.channel[1].event = FALSE /\ timer.channel[3].event = FALSE
                        /\ (timer.channel[2].event <=> slotStart + TxOffset + TxMax <= now)
                        /\ now < slotStart + TxOffset + TxMax + lag + MaxLag + 1
           /\ RxWaits => /\ (timer.channel[1].event <=> slotStart + RxOffset <= now)
                         /\ (timer.channel[2].event <=> slotStart + TxOffset + RxGuard <= now)
                         /\ (timer.channel[3].event <=> slotStart + TxOffset + TxMax <= now)
           /\ RxGoes => /\ timer.channel[1].event = FALSE
                        /\ RxListens \/ RxReceives =>
                             (timer.channel[3].event <=> slotStart + TxOffset + TxMax <= now)
                        /\ now < slotStart + TxOffset + TxMax + lag + MaxLag + 1
           /\ Scans /\ ~opening =>
                /\ timer.channel[1].event = TRUE => /\ ScanEnd <= now
                                                    /\ now <= ScanEnd + 3 * MaxLag + lag
                /\ timer.channel[1].event = FALSE /\ ~goesOn => now < ScanEnd + 2 * MaxLag
                /\ timer.channel[3].event = FALSE
<1>1. /\ TxOffset \in Nat /\ TxMax \in Nat /\ RxOffset \in Nat /\ TxOffset + TxMax \in Nat
      /\ TxOffset + RxGuard \in Nat /\ BgScanDuration \in Nat /\ MaxLag \in Nat /\ lag \in Nat /\ RxGuard \in Nat
      /\ slotStart \in Nat /\ now \in Nat
  BY TypeFacts, Durations
<1>2. TxWaits => /\ (timer.channel[1].event <=> slotStart + TxOffset <= now)
                 /\ (timer.channel[2].event <=> slotStart + TxOffset + TxMax <= now)
                 /\ timer.channel[3].event = FALSE
  BY <1>1 DEF TxWaits, Armed, Expires, Silent
<1>3. TxGoes => /\ timer.channel[1].event = FALSE /\ timer.channel[3].event = FALSE
                /\ (timer.channel[2].event <=> slotStart + TxOffset + TxMax <= now)
                /\ now < slotStart + TxOffset + TxMax + lag + MaxLag + 1
  BY <1>1 DEF TxGoes, Armed, Expires, Silent
<1>4. RxWaits => /\ (timer.channel[1].event <=> slotStart + RxOffset <= now)
                 /\ (timer.channel[2].event <=> slotStart + TxOffset + RxGuard <= now)
                 /\ (timer.channel[3].event <=> slotStart + TxOffset + TxMax <= now)
  BY <1>1 DEF RxWaits, Armed, Expires
<1>5. RxGoes => /\ timer.channel[1].event = FALSE
                /\ RxListens \/ RxReceives => (timer.channel[3].event <=> slotStart + TxOffset + TxMax <= now)
                /\ now < slotStart + TxOffset + TxMax + lag + MaxLag + 1
  BY <1>1 DEF RxGoes, RxListens, RxReceives, RxHandles, Armed, Expires, Silent
<1>6. Scans /\ ~opening =>
        /\ timer.channel[1].event = TRUE => /\ ScanEnd <= now
                                            /\ now <= ScanEnd + 3 * MaxLag + lag
        /\ timer.channel[1].event = FALSE /\ ~goesOn => now < ScanEnd + 2 * MaxLag
        /\ timer.channel[3].event = FALSE
  <2> SUFFICES ASSUME Scans, ~opening
               PROVE  /\ timer.channel[1].event = TRUE => /\ ScanEnd <= now
                                                          /\ now <= ScanEnd + 3 * MaxLag + lag
                      /\ timer.channel[1].event = FALSE /\ ~goesOn => now < ScanEnd + 2 * MaxLag
                      /\ timer.channel[3].event = FALSE
    OBVIOUS
  <2>1. timer.channel[3].event = FALSE
    BY DEF Scans, Silent
  <2>2. CASE Silent(1) /\ goesOn
    BY <2>1, <2>2 DEF Silent
  <2>3. CASE \E k \in 0 .. 2 * MaxLag : Armed(1, "endScan", slotStart + (BgScanDuration + k))
    <3>1. PICK k \in 0 .. 2 * MaxLag : Armed(1, "endScan", slotStart + (BgScanDuration + k))
      BY <2>3
    <3>2. k \in Nat /\ k <= 2 * MaxLag
      BY <1>1
    <3>3. /\ timer.channel[1].event <=> slotStart + BgScanDuration + k <= now
          /\ timer.channel[1].event => now <= slotStart + BgScanDuration + k + lag + MaxLag
      BY <1>1, <3>1, <3>2 DEF Armed, Expires
    <3> QED
      BY <1>1, <2>1, <3>2, <3>3 DEF ScanEnd
  <2> QED
    BY <2>2, <2>3 DEF Scans
<1> QED
  BY <1>2, <1>3, <1>4, <1>5, <1>6

LEMMA DueFor ==
    ASSUME Types, Slots, Due(timer)
    PROVE  \/ timer.channel[0].event
           \/ timer.channel[1].event /\ timer.channel[1].enabled
           \/ timer.channel[2].event /\ timer.channel[2].enabled
           \/ timer.channel[3].event /\ timer.channel[3].enabled
BY TypeFacts DEF Due, Slots

LEMMA SlotOver ==
    ASSUME Types, Slots, timer.channel[0].event
    PROVE  /\ slotStart + WholeSlot - LateBy <= now
           /\ ClosedBy + MaxLag < now
           /\ slotStart + TxOffset + TxMax + MaxLag < now
           /\ kind = "scan" => ScanEnd + 4 * MaxLag < now
<1>1. PICK next \in Int : slotStart + WholeSlot - LateBy <= next /\ (timer.channel[0].event <=> next <= now)
  BY NextSlot
<1>2. now \in Int /\ slotStart \in Int
  BY TypeFacts
<1>3. slotStart + WholeSlot - LateBy <= now
  BY <1>1, <1>2, Durations DEF LateBy
<1>4. CASE kind = "scan"
  BY <1>2, <1>3, <1>4, Durations DEF ClosedBy, LateBy, ScanEnd
<1>5. CASE kind # "scan"
  BY <1>2, <1>3, <1>5, Durations DEF ClosedBy, LateBy
<1> QED
  BY <1>3, <1>4, <1>5

LEMMA EnterIsrStep ==
    ASSUME Types, Types', Slots, Modes, EnterIsr
    PROVE  Slots' /\ Modes'
<1>1. /\ UNCHANGED <<radio, lag, opening, kind, slotStart, goesOn, mac, bgScan, irq, loaded,
                     again, copy, air, deaf>>
      /\ isr = Last /\ isr' = 0 /\ Due(timer) /\ timer' = EndDelay(timer)
  BY DEF EnterIsr, irqVars, history
<1>2. /\ Last = 4 /\ lag = 0 /\ now \in Nat /\ entry = now /\ slotStart \in Nat /\ MaxLag \in Nat /\ air \in Nat
      /\ slotStart <= now
  BY <1>1, TypeFacts, Durations DEF entry, Slots
<1>3. /\ timer'.counter = timer.counter /\ timer'.channel[0] = timer.channel[0]
      /\ timer'.channel[1] = timer.channel[1] /\ timer'.channel[2] = timer.channel[2]
      /\ timer'.channel[3] = timer.channel[3]
      /\ timer'.channel[4].event = FALSE /\ timer'.channel[4].cc = timer.channel[4].cc
  <2>1. timer \in Timer(Callback) /\ {0, 1, 2, 3} \subseteq Channel \ {Last}
    BY TypeFacts DEF Types
  <2> QED
    BY <1>1, <1>2, <2>1, EndsDelay
<1>4. Passes /\ ~\E f : Calls(f)
  BY <1>1, <1>2 DEF Passes, Calls
<1>5. ~opening
  BY <1>1, <1>2 DEF Slots
<1>6. Slots'
  BY <1>1, <1>3, <1>4, <1>5, SlotsKept
<1>7. Untouched(1) /\ Untouched(2) /\ Untouched(3)
  BY <1>3, <1>4 DEF Untouched
<1>8. now' = now /\ entry' = now /\ ScanEnd' = ScanEnd
  BY <1>1, <1>2, <1>3, <1>4, IsrKeeps DEF now, entry
<1>9. timer.channel[0].event => /\ ClosedBy + MaxLag < now /\ slotStart + TxOffset + TxMax + MaxLag < now
                                /\ kind = "scan" => ScanEnd + 4 * MaxLag < now
  BY SlotOver
<1>20. ClosedBy \in Int /\ TxOffset \in Nat /\ RxOffset \in Nat /\ TxMax \in Nat /\ RxGuard \in Nat
       /\ MaxLag < TxMax
  BY <1>2, Durations DEF ClosedBy
<1>10. \/ timer.channel[0].event
       \/ timer.channel[1].event /\ timer.channel[1].enabled
       \/ timer.channel[2].event /\ timer.channel[2].enabled
       \/ timer.channel[3].event /\ timer.channel[3].enabled
  BY <1>1, DueFor
<1>11. /\ Silent(1) => Silent(1)' /\ ~timer.channel[1].event
       /\ Silent(2) => Silent(2)' /\ ~timer.channel[2].event
       /\ Silent(3) => Silent(3)' /\ ~timer.channel[3].event
  <2>1. /\ Silent(1) => ~timer.channel[1].event
        /\ Silent(2) => ~timer.channel[2].event
        /\ Silent(3) => ~timer.channel[3].event
    BY DEF Silent
  <2> QED
    BY <1>1, <1>3, <1>4, <1>7, <2>1, IsrKeeps
<1>12. CASE Closed
  <2>1. timer.channel[0].event
    BY <1>10, <1>11, <1>12 DEF Closed
  <2>2. ~(irq # "off" \/ radio.requested \/ air # 0)
    BY <1>1, <1>2, <1>9, <1>12, <1>20, <2>1 DEF Closed, NotLaterThan
  <2>3. Drains'
    BY <1>1, <1>12 DEF Closed, Drains
  <2>4. Closed'
    BY <1>1, <1>2, <1>3, <1>8, <1>11, <1>12, <2>1, <2>2, <2>3 DEF Closed
  <2> QED
    BY <1>6, <2>4 DEF Modes
<1>13. CASE TxWaits
  <2>1. timer.channel[1].event
    <3>1. /\ timer.channel[1].event <=> slotStart + TxOffset <= now
          /\ timer.channel[2].event <=> slotStart + TxOffset + TxMax <= now
          /\ timer.channel[3].event = FALSE
      BY <1>13, Events
    <3> QED
      BY <1>2, <1>9, <1>10, <1>20, <3>1
  <2>2. Prompt(1, slotStart + TxOffset)'
    BY <1>1, <1>2, <1>3, <1>8, <1>13, <2>1 DEF TxWaits, Prompt
  <2>3. Armed(1, "ti2", slotStart + TxOffset)' /\ Armed(2, "tie1", slotStart + (TxOffset + TxMax))'
    BY <1>1, <1>3, <1>4, <1>7, <1>13, IsrKeeps DEF TxWaits
  <2>4. TxWaits'
    BY <1>1, <1>11, <1>13, <2>2, <2>3 DEF TxWaits
  <2> QED
    BY <1>6, <2>4 DEF Modes
<1>14. CASE TxGoes
  <2>1. ~TxStarts
    <3>1. /\ timer.channel[1].event = FALSE /\ timer.channel[3].event = FALSE
          /\ timer.channel[2].event <=> slotStart + TxOffset + TxMax <= now
      BY <1>14, Events
    <3> QED
      BY <1>2, <1>9, <1>10, <1>20, <3>1 DEF TxStarts
  <2>2. Armed(2, "tie1", slotStart + (TxOffset + TxMax))'
    BY <1>1, <1>3, <1>4, <1>7, <1>14, IsrKeeps DEF TxGoes
  <2>3. TxGoes'
    BY <1>1, <1>8, <1>11, <1>14, <2>1, <2>2 DEF TxGoes, TxSends, TxEnds, SwitchesOff, NoEvents, On
  <2> QED
    BY <1>6, <2>3 DEF Modes
<1>15. CASE RxWaits
  <2>1. timer.channel[1].event
    BY <1>2, <1>9, <1>10, <1>15, Events, Durations
  <2>2. Prompt(1, slotStart + RxOffset)'
    BY <1>1, <1>2, <1>3, <1>8, <1>15, <2>1 DEF RxWaits, Prompt, RxOffset
  <2>3. /\ Armed(1, "ri2", slotStart + RxOffset)' /\ Armed(2, "rie1", slotStart + (TxOffset + RxGuard))'
        /\ Armed(3, "rie2", slotStart + (TxOffset + TxMax))'
    BY <1>1, <1>3, <1>4, <1>7, <1>15, IsrKeeps DEF RxWaits
  <2>4. RxWaits'
    BY <1>1, <1>15, <2>2, <2>3 DEF RxWaits
  <2> QED
    BY <1>6, <2>4 DEF Modes
<1>16. UNCHANGED <<Listens, Starts, Started, Receives, Ends, Winds, Pending, Spurious,
                   Handles({"ri4"}), Handles({"copied4", "end4"}), Handles({"read", "copied", "rearm"})>>
  BY <1>1 DEF Listens, Starts, Started, Receives, Ends, Winds, Pending, Spurious, Handles, Ended,
     GoesIdle,
     IsIdle, SwitchesOff, NoEvents, On
<1>17. CASE RxGoes
  <2>1. ~RxHandles
    BY <1>2, <1>9, <1>10, <1>11, <1>17, Durations DEF RxHandles, RxGoes
  <2>2. timer.channel[2].event \/ timer.channel[3].event
    <3>1. /\ timer.channel[1].event = FALSE
          /\ timer.channel[3].event <=> slotStart + TxOffset + TxMax <= now
      BY <1>17, <2>1, Events DEF RxGoes
    <3> QED
      BY <1>2, <1>9, <1>10, <1>20, <3>1
  <2>3. RxListens => RxListens'
    BY <1>1, <1>3, <1>4, <1>7, <1>16, IsrKeeps DEF RxListens
  <2>4. RxReceives => RxReceives'
    BY <1>1, <1>3, <1>4, <1>7, <1>11, <1>16, IsrKeeps DEF RxReceives
  <2>5. Pending' => air' <= lag' + MaxLag
    BY <1>1, <1>2, <1>16, <1>17 DEF RxGoes
  <2>6. RxGoes'
    BY <1>1, <1>2, <1>3, <1>8, <1>11, <1>17, <2>1, <2>2, <2>3, <2>4, <2>5 DEF RxGoes, RxOffset
  <2> QED
    BY <1>6, <2>6 DEF Modes
<1>18. CASE Scans
  <2>1. /\ timer.channel[1].event => /\ ScanEnd <= now /\ now <= ScanEnd + 3 * MaxLag
        /\ ~timer.channel[1].event /\ ~goesOn => now < ScanEnd + 2 * MaxLag
        /\ timer.channel[3].event = FALSE
    <3>1. timer.channel[1].event \in BOOLEAN
      BY TypeFacts DEF Types, Timer, ChannelType
    <3>2. ScanEnd \in Int
      BY <1>2, Durations DEF ScanEnd
    <3>3. /\ timer.channel[1].event = TRUE => /\ ScanEnd <= now
                                              /\ now <= ScanEnd + 3 * MaxLag + lag
          /\ timer.channel[1].event = FALSE /\ ~goesOn => now < ScanEnd + 2 * MaxLag
          /\ timer.channel[3].event = FALSE
      BY <1>5, <1>18, Events
    <3> QED
      BY <1>2, <3>1, <3>2, <3>3
  <2>2. kind = "scan" /\ ScanEnd \in Int /\ slotStart + 2 * MaxLag < ScanEnd
    BY <1>2, <1>18, Durations DEF Scans, ScanEnd
  <2>3. Silent(2) => LastOfTwo'
    BY <1>1, <1>2, <1>3, <1>8, <1>10, <1>11, <2>1, <2>2 DEF LastOfTwo
  <2>4. Pending => Silent(2)
    BY <1>18 DEF Scans, ScanListens, ScanReceives, ScanHandles, ScanPauses, Winds, Pending,
       Starts, Started,
       Receives, Handles, Ended, GoesIdle, IsIdle, SwitchesOff
  <2>5. Pending' => air' <= lag' + MaxLag /\ LastOfTwo'
    BY <1>1, <1>2, <1>16, <1>18, <2>3, <2>4 DEF Scans
  <2>6. Spurious => Silent(2)
    BY <1>18 DEF Scans, ScanListens, ScanReceives, ScanHandles, ScanPauses, Winds, Spurious,
       Listens, Starts,
       Started, Receives, Ends, Handles, Ended, GoesIdle, IsIdle, SwitchesOff
  <2>7. ~(Spurious' /\ ~goesOn')
    <3> SUFFICES ASSUME Spurious, ~goesOn PROVE FALSE
      BY <1>1, <1>16
    <3>1. ~timer.channel[1].event /\ ~timer.channel[2].event
      BY <1>1, <1>11, <1>18, <2>6 DEF Scans
    <3> QED
      BY <1>2, <1>9, <1>10, <2>1, <2>2, <3>1
  <2>8. NotLaterThan(slotStart) => timer.channel[2].event
    BY <1>1, <1>2, <1>9, <1>10, <2>1, <2>2 DEF NotLaterThan
  <2>9. ScanHandles => ScanHandles'
    BY <1>1, <1>11, <1>16, <2>8 DEF ScanHandles
  <2>10. Rearms => Rearms'
    BY <1>1, <1>3, <1>4, <1>7, IsrKeeps
  <2>11. Silent(2)' => ~Rearms'
    BY DEF Silent, Rearms
  <2>12. NotLaterThan(slotStart) => now <= slotStart + MaxLag
    BY <1>1, <1>2 DEF NotLaterThan
  <2>13. ScanPauses => ScanPauses'
    BY <1>1, <1>2, <1>3, <1>8, <1>11, <1>16, <2>8, <2>10, <2>11, <2>12 DEF ScanPauses
  <2>14. ScanListens => ScanListens'
    BY <1>1, <1>11, <1>16 DEF ScanListens
  <2>15. ScanReceives => ScanReceives'
    BY <1>1, <1>11, <1>16 DEF ScanReceives
  <2>16. \/ \E k \in 0 .. 2 * MaxLag : Armed(1, "endScan", slotStart + (BgScanDuration + k))'
         \/ goesOn' /\ Silent(1)' /\ ScanEnd' <= now'
    BY <1>1, <1>3, <1>4, <1>5, <1>7, <1>8, <1>11, <1>18, IsrKeeps DEF Scans
  <2>17. Scans'
    BY <1>1, <1>2, <1>5, <1>11, <1>18, <2>5, <2>7, <2>9, <2>13, <2>14, <2>15, <2>16 DEF Scans
  <2> QED
    BY <1>6, <2>17 DEF Modes
<1>19. ~Opening
  BY <1>5 DEF Opening
<1> QED
  BY <1>12, <1>13, <1>14, <1>15, <1>17, <1>18, <1>19 DEF Modes

LEMMA LeaveIsrStep ==
    ASSUME Types, Types', Slots, Modes, LeaveIsr
    PROVE  Slots' /\ Modes'
<1>1. /\ UNCHANGED <<timer, radio, opening, kind, slotStart, goesOn, mac, bgScan, irq, loaded,
                     again, copy, air, deaf>>
      /\ isr < Last /\ ~opening /\ isr' = Last /\ lag' = 0 /\ First = Last
  BY DEF LeaveIsr, irqVars, history
<1>2. /\ Last = 4 /\ lag \in Nat /\ lag <= MaxLag /\ now \in Nat /\ entry = now - lag /\ slotStart \in Nat
      /\ MaxLag \in Nat /\ air \in Nat /\ isr \in 0 .. 3 /\ isr # Last /\ slotStart <= now
  BY <1>1, TypeFacts, Durations DEF entry, Slots
<1>3. \A d \in isr .. 3 : ~timer.channel[d].event
  BY <1>1, <1>2, FirstIs
<1>4. Passes /\ ~\E f : Calls(f)
  BY <1>1, <1>2 DEF Passes, Calls
<1>5. Slots'
  <2>1. timer'.channel[4].event = FALSE
    BY <1>1 DEF Slots
  <2> QED
    BY <1>1, <1>4, <2>1, SlotsKept
<1>6. Untouched(1) /\ Untouched(2) /\ Untouched(3)
  BY <1>1, <1>4 DEF Untouched
<1>7. now' = now /\ entry' = now /\ ScanEnd' = ScanEnd /\ ClosedBy' = ClosedBy
  BY <1>1, <1>2 DEF now, entry, ScanEnd, ClosedBy, BgScanDuration, WholeSlot
<1>8. /\ Silent(1) => Silent(1)'
      /\ Silent(2) => Silent(2)'
      /\ Silent(3) => Silent(3)'
  BY <1>1, <1>4, <1>6, IsrKeeps
<1>9. /\ isr <= 0 => ~timer.channel[0].event
      /\ isr <= 1 => ~timer.channel[1].event
      /\ isr <= 2 => ~timer.channel[2].event
      /\ isr <= 3 => ~timer.channel[3].event
  BY <1>2, <1>3
<1>10. ClosedBy \in Int /\ ScanEnd \in Int /\ slotStart + 2 * MaxLag < ScanEnd
  BY <1>2, Durations DEF ClosedBy, ScanEnd
<1>11. CASE Closed
  <2>1. NotLaterThan(ClosedBy) => NotLaterThan(ClosedBy)'
    BY <1>1, <1>2, <1>7, <1>10 DEF NotLaterThan
  <2>2. ~timer.channel[0].event
    BY <1>2, <1>9, <1>11 DEF Closed
  <2>3. Drains'
    BY <1>1, <1>11 DEF Closed, Drains
  <2>4. Closed'
    BY <1>1, <1>8, <1>11, <2>1, <2>2, <2>3 DEF Closed
  <2> QED
    BY <1>5, <2>4 DEF Modes
<1>12. CASE TxWaits
  <2>1. Prompt(1, slotStart + TxOffset)'
    BY <1>1, <1>2, <1>9, <1>12 DEF TxWaits, Prompt
  <2>2. Armed(1, "ti2", slotStart + TxOffset)' /\ Armed(2, "tie1", slotStart + (TxOffset + TxMax))'
    BY <1>1, <1>4, <1>6, <1>12, IsrKeeps DEF TxWaits
  <2>3. TxWaits'
    BY <1>1, <1>8, <1>12, <2>1, <2>2 DEF TxWaits
  <2> QED
    BY <1>5, <2>3 DEF Modes
<1>13. CASE TxGoes
  <2>1. Armed(2, "tie1", slotStart + (TxOffset + TxMax))'
    BY <1>1, <1>4, <1>6, <1>13, IsrKeeps DEF TxGoes
  <2>2. TxStarts => TxStarts'
    BY <1>1, <1>7 DEF TxStarts, On
  <2>3. TxGoes'
    BY <1>1, <1>7, <1>8, <1>13, <2>1, <2>2 DEF TxGoes, TxSends, TxEnds, SwitchesOff, NoEvents, On
  <2> QED
    BY <1>5, <2>3 DEF Modes
<1>14. CASE RxWaits
  <2>1. Prompt(1, slotStart + RxOffset)'
    BY <1>1, <1>2, <1>9, <1>14 DEF RxWaits, Prompt
  <2>2. /\ Armed(1, "ri2", slotStart + RxOffset)' /\ Armed(2, "rie1", slotStart + (TxOffset + RxGuard))'
        /\ Armed(3, "rie2", slotStart + (TxOffset + TxMax))'
    BY <1>1, <1>4, <1>6, <1>14, IsrKeeps DEF RxWaits
  <2>3. RxWaits'
    BY <1>1, <1>14, <2>1, <2>2 DEF RxWaits
  <2> QED
    BY <1>5, <2>3 DEF Modes
<1>15. UNCHANGED <<Listens, Starts, Started, Receives, Ends, Winds, Pending, Spurious,
                   Handles({"ri4"}), Handles({"copied4", "end4"}), Handles({"read", "copied", "rearm"})>>
  BY <1>1 DEF Listens, Starts, Started, Receives, Ends, Winds, Pending, Spurious, Handles, Ended,
     GoesIdle,
     IsIdle, SwitchesOff, NoEvents, On
<1>16. CASE RxGoes
  <2>1. RxListens => RxListens'
    BY <1>1, <1>4, <1>6, <1>15, IsrKeeps DEF RxListens
  <2>2. RxReceives => RxReceives'
    BY <1>1, <1>4, <1>6, <1>8, <1>15, IsrKeeps DEF RxReceives
  <2>3. ~RxHandles
    BY <1>2 DEF RxHandles
  <2>4. Pending' => air' <= MaxLag
    BY <1>1, <1>2, <1>9, <1>15, <1>16 DEF RxGoes
  <2>5. RxGoes'
    BY <1>1, <1>7, <1>8, <1>16, <2>1, <2>2, <2>3, <2>4 DEF RxGoes, RxOffset
  <2> QED
    BY <1>5, <2>5 DEF Modes
<1>17. CASE Scans
  <2>1. NotLaterThan(slotStart) => NotLaterThan(slotStart)'
    BY <1>1, <1>2, <1>7 DEF NotLaterThan
  <2>2. ScanPauses => ScanPauses'
    <3>1. Rearms => Rearms'
      BY <1>1, <1>4, <1>6, IsrKeeps
    <3>2. Silent(2)' => ~Rearms'
      BY DEF Silent, Rearms
    <3> QED
      BY <1>1, <1>2, <1>8, <1>9, <1>15, <2>1, <3>1, <3>2 DEF ScanPauses
  <2>3. ScanListens => ScanListens'
    BY <1>1, <1>8, <1>15 DEF ScanListens
  <2>4. ScanReceives => ScanReceives'
    BY <1>1, <1>8, <1>15 DEF ScanReceives
  <2>5. ScanHandles => ScanHandles'
    BY <1>1, <1>8, <1>15, <2>1 DEF ScanHandles
  <2>6. \/ \E k \in 0 .. 2 * MaxLag : Armed(1, "endScan", slotStart + (BgScanDuration + k))'
        \/ goesOn' /\ Silent(1)' /\ ScanEnd' <= now'
    BY <1>1, <1>4, <1>6, <1>7, <1>8, <1>17, IsrKeeps DEF Scans
  <2>7. /\ timer.channel[1].event => ScanEnd <= now
        /\ timer.channel[3].event = FALSE
        /\ timer.channel[0].event => ScanEnd + 4 * MaxLag < now
    <3>1. timer.channel[1].event \in BOOLEAN
      BY TypeFacts DEF Types, Timer, ChannelType
    <3>2. timer.channel[1].event = TRUE => ScanEnd <= now
      BY <1>1, <1>17, Events
    <3>3. timer.channel[3].event = FALSE
      BY <1>1, <1>17, Events
    <3>4. timer.channel[0].event => ScanEnd + 4 * MaxLag < now
      BY <1>17, SlotOver DEF Scans
    <3> QED
      BY <3>1, <3>2, <3>3, <3>4
  <2>8. Pending => Silent(2)
    BY <1>17 DEF Scans, ScanListens, ScanReceives, ScanHandles, ScanPauses, Winds, Pending,
       Starts, Started,
       Receives, Handles, Ended, GoesIdle, IsIdle, SwitchesOff
  <2>9. Due(timer) => \/ timer.channel[0].event
                      \/ timer.channel[1].event
                      \/ timer.channel[2].event /\ timer.channel[2].enabled
    BY <2>7, DueFor
  <2>10. Silent(2) => ~timer.channel[2].event
    BY DEF Silent
  <2>11. Silent(1) => ~timer.channel[1].event
    BY DEF Silent
  <2>12. LastOfTwo /\ Silent(2) => ~Due(timer)
    <3>1. CASE /\ ScanEnd <= entry /\ entry <= ScanEnd + 3 * MaxLag
               /\ Silent(1) \/ (timer.channel[1].event /\ isr <= 1)
      BY <1>2, <1>9, <1>10, <2>7, <2>9, <2>10, <2>11, <3>1
    <3>2. CASE timer.channel[0].event /\ isr = 0
      BY <1>9, <3>2
    <3>3. CASE Opened
      BY <1>2, <1>10, <2>7, <2>9, <2>10, <3>3 DEF Opened
    <3> QED
      BY <3>1, <3>2, <3>3 DEF LastOfTwo
  <2>13. Pending' => air' <= 2 * MaxLag /\ (Due(timer)' => air' <= MaxLag)
    <3> SUFFICES ASSUME Pending PROVE air <= 2 * MaxLag /\ (Due(timer) => air <= MaxLag)
      BY <1>1, <1>15 DEF Due
    <3>1. air <= lag \/ (air <= lag + MaxLag /\ LastOfTwo)
      BY <1>2, <1>17 DEF Scans
    <3> QED
      BY <1>2, <2>8, <2>12, <3>1
  <2>14. Spurious' /\ ~goesOn' => ~timer'.channel[1].event
    BY <1>1, <1>2, <1>10, <1>15, <1>17, <2>7 DEF Scans
  <2>15. Scans'
    BY <1>1, <1>8, <1>17, <2>2, <2>3, <2>4, <2>5, <2>6, <2>13, <2>14 DEF Scans
  <2> QED
    BY <1>5, <2>15 DEF Modes
<1>18. ~Opening
  BY <1>1 DEF Opening
<1> QED
  BY <1>11, <1>12, <1>13, <1>14, <1>16, <1>17, <1>18 DEF Modes

\* In which modes the interrupt calls what.
LEMMA WhoCalls ==
    ASSUME Types, Slots, Modes, NEW f, Calls(f)
    PROVE  \/ First = 0 /\ f = "newSlot" /\ (Closed \/ (Scans /\ goesOn /\ Silent(1)))
           \/ First = 1 /\ f = "ti2" /\ TxWaits
           \/ First = 1 /\ f = "ri2" /\ RxWaits
           \/ First = 1 /\ f = "endScan" /\ Scans
           \/ First = 2 /\ f = "tie1" /\ TxGoes
           \/ First = 2 /\ f = "rie1" /\ RxGoes /\ RxListens
           \/ First = 2 /\ f = "rx" /\ Scans /\ ScanPauses /\ Rearms
           \/ First = 3 /\ f = "rie2" /\ RxGoes /\ (RxListens \/ RxReceives)
<1>1. /\ First \in 0 .. 3 /\ timer.channel[First].event /\ timer.channel[First].callback = f
      /\ isr <= First /\ isr < Last /\ ~opening /\ Last = 4 /\ isr \in 0 .. 4 /\ isr # Last
  BY CallTakes, TypeFacts
<1>2. \A d \in 0 .. 3 : isr <= d /\ d < First => ~timer.channel[d].event
  BY CallTakes
<1>3. /\ lag \in Nat /\ lag <= MaxLag /\ now \in Nat /\ entry = now - lag /\ slotStart \in Nat
      /\ MaxLag \in Nat /\ slotStart <= now
      /\ TxOffset \in Nat /\ RxOffset \in Nat /\ TxMax \in Nat /\ RxGuard \in Nat
      /\ RxOffset = TxOffset - RxGuard
  BY TypeFacts, Durations DEF entry, Slots
<1>4. timer.channel[0].callback = "newSlot"
  BY DEF Slots
<1>5. timer.channel[0].event => /\ ClosedBy + MaxLag < now /\ slotStart + TxOffset + TxMax + MaxLag < now
                                /\ kind = "scan" => ScanEnd + 4 * MaxLag < now
  BY SlotOver
<1>6. /\ Silent(1) => First # 1
      /\ Silent(2) => First # 2
      /\ Silent(3) => First # 3
  BY <1>1 DEF Silent
<1>7. First = 0 \/ First = 1 \/ First = 2 \/ First = 3
  BY <1>1
<1>8. CASE Closed
  BY <1>1, <1>4, <1>6, <1>7, <1>8 DEF Closed
<1>9. CASE TxWaits
  <2>1. /\ timer.channel[1].event <=> slotStart + TxOffset <= now
        /\ timer.channel[2].event <=> slotStart + TxOffset + TxMax <= now
    BY <1>9, Events
  <2>2. timer.channel[1].event => entry = slotStart + TxOffset /\ isr = 0
    BY <1>1, <1>9 DEF TxWaits, Prompt
  <2>3. MaxLag < TxMax
    BY Durations
  <2>4. First # 0
    BY <1>1, <1>3, <1>5, <2>1, <2>2, <2>3
  <2>5. First # 2
    BY <1>1, <1>2, <1>3, <2>1, <2>2, <2>3
  <2>6. First # 3
    BY <1>6, <1>9 DEF TxWaits
  <2> QED
    BY <1>1, <1>7, <1>9, <2>4, <2>5, <2>6 DEF TxWaits, Armed
<1>10. CASE TxGoes
  <2>1. now < slotStart + TxOffset + TxMax + lag + MaxLag + 1
    BY <1>10, Events
  <2>2. ClosedBy = slotStart + TxOffset + TxMax + MaxLag
    BY <1>10 DEF TxGoes, ClosedBy
  <2>3. First # 0
    BY <1>1, <1>3, <1>5, <2>1, <2>2
  <2> QED
    BY <1>1, <1>6, <1>7, <1>10, <2>3 DEF TxGoes, Armed
<1>11. CASE RxWaits
  <2>1. /\ timer.channel[1].event <=> slotStart + RxOffset <= now
        /\ timer.channel[2].event <=> slotStart + TxOffset + RxGuard <= now
        /\ timer.channel[3].event <=> slotStart + TxOffset + TxMax <= now
    BY <1>11, Events
  <2>2. timer.channel[1].event => entry = slotStart + RxOffset /\ isr = 0
    BY <1>1, <1>11 DEF RxWaits, Prompt
  <2>3. MaxLag < TxMax
    BY Durations
  <2>4. First # 0
    BY <1>1, <1>3, <1>5, <2>1, <2>2, <2>3
  <2>5. First # 2 /\ First # 3
    BY <1>1, <1>2, <1>3, <2>1, <2>2, <2>3
  <2> QED
    BY <1>1, <1>7, <1>11, <2>4, <2>5 DEF RxWaits, Armed
<1>12. CASE RxGoes
  <2>1. now < slotStart + TxOffset + TxMax + lag + MaxLag + 1
    BY <1>12, Events
  <2>2. ClosedBy = slotStart + TxOffset + TxMax + MaxLag
    BY <1>12 DEF RxGoes, ClosedBy
  <2>3. First # 0
    BY <1>1, <1>3, <1>5, <2>1, <2>2
  <2>4. ~RxHandles /\ First # 1
    BY <1>1, <1>6, <1>12 DEF RxHandles, RxGoes
  <2>5. RxReceives => First # 2
    BY <1>6 DEF RxReceives
  <2>6. First = 2 => f = "rie1" /\ RxListens
    BY <1>1, <1>12, <2>4, <2>5 DEF RxGoes, RxListens, Armed
  <2>7. First = 3 => f = "rie2"
    BY <1>1, <1>12, <2>4 DEF RxGoes, RxListens, RxReceives, Armed
  <2> QED
    BY <1>7, <1>12, <2>3, <2>4, <2>6, <2>7 DEF RxGoes
<1>13. CASE Scans
  <2>1. timer.channel[1].event = TRUE => now <= ScanEnd + 3 * MaxLag + lag
    BY <1>1, <1>13, Events
  <2>2. timer.channel[1].event = FALSE /\ ~goesOn => now < ScanEnd + 2 * MaxLag
    BY <1>1, <1>13, Events
  <2>3. timer.channel[1].event \in BOOLEAN
    BY TypeFacts DEF Types, Timer, ChannelType
  <2>4. kind = "scan" /\ ScanEnd \in Int
    BY <1>3, <1>13, Durations DEF Scans, ScanEnd
  <2>5. First = 0 => goesOn /\ timer.channel[1].event = FALSE
    BY <1>1, <1>3, <1>5, <2>1, <2>2, <2>3, <2>4
  <2>6. First = 0 => Silent(1)
    <3>1. ASSUME NEW k \in 0 .. 2 * MaxLag, Armed(1, "endScan", slotStart + (BgScanDuration + k)), First = 0
          PROVE  FALSE
      <4>1. now < slotStart + (BgScanDuration + k)
        BY <1>3, <2>5, <3>1, Durations DEF Armed, Expires
      <4> QED
        BY <1>1, <1>3, <1>5, <2>4, <3>1, <4>1, Durations DEF ScanEnd
    <3> QED
      BY <1>1, <1>13, <3>1 DEF Scans
  <2>7. First = 1 => f = "endScan"
    BY <1>1, <1>6, <1>13 DEF Scans, Armed
  <2>8. First = 2 => ScanPauses /\ Rearms
    BY <1>6, <1>13 DEF Scans, ScanListens, ScanReceives, ScanHandles, ScanPauses
  <2>9. First = 2 => f = "rx"
    BY <1>1, <2>8 DEF Rearms
  <2>10. First # 3
    BY <1>6, <1>13 DEF Scans
  <2> QED
    BY <1>1, <1>4, <1>7, <1>13, <2>5, <2>6, <2>7, <2>8, <2>9, <2>10
<1>14. ~Opening
  BY <1>1 DEF Opening
<1> QED
  BY <1>8, <1>9, <1>10, <1>11, <1>12, <1>13, <1>14 DEF Modes

\* A timer of one shot has expired.
LEMMA TakesOneShot ==
    ASSUME Types, Types', Slots, \E f : Calls(f), timer' = Acknowledged, First # 0,
           timer.channel[First].oneShot = TRUE, timer.channel[First].cc <= now,
           kind' = kind, slotStart' = slotStart, opening' = opening
    PROVE  /\ Passes /\ Slots' /\ timer'.counter = timer.counter
           /\ timer'.channel[0] = timer.channel[0]
           /\ First = 1 => /\ Silent(1)' /\ Untouched(2) /\ Untouched(3)
                           /\ isr' = 2 /\ lag' = lag
           /\ First = 2 => /\ Silent(2)' /\ Untouched(1) /\ Untouched(3)
                           /\ isr' = 3 /\ lag' = lag /\ timer'.channel[1] = timer.channel[1]
<1>1. First \in {1, 2, 3} /\ First \in Channel /\ isr' = First + 1 /\ ~opening /\ Last = 4
      /\ lag' = (IF isr' = Last THEN 0 ELSE lag) /\ Channel = {0, 1, 2, 3, 4}
  BY CallTakes, TypeFacts
<1>2. timer \in Timer(Callback)
  BY DEF Types
<1>3. /\ timer'.counter = timer.counter
      /\ \A d \in Channel \ {First} : timer'.channel[d] = timer.channel[d]
      /\ timer'.channel[First].event = FALSE /\ timer'.channel[First].enabled = FALSE
      /\ timer'.channel[First].cc = timer.channel[First].cc
  <2>1. PICK c \in Channel : c = First
    BY <1>1
  <2>2. timer' = Acknowledge(timer, c) /\ timer.channel[c].oneShot
    BY <2>1 DEF Acknowledged
  <2>3. timer' = [timer EXCEPT !.channel[c] = [timer.channel[c] EXCEPT !.event = FALSE, !.enabled = FALSE]]
    BY <2>2 DEF Acknowledge, Timer, ChannelType
  <2>4. /\ timer'.counter = timer.counter
        /\ \A d \in Channel \ {c} : timer'.channel[d] = timer.channel[d]
        /\ timer'.channel[c].event = FALSE /\ timer'.channel[c].enabled = FALSE
        /\ timer'.channel[c].cc = timer.channel[c].cc
    BY <1>2, <2>3 DEF Timer, ChannelType
  <2> QED
    BY <2>1, <2>4
<1>4. Passes
  BY DEF Passes
<1>5. timer'.channel[0] = timer.channel[0] /\ timer'.channel[4] = timer.channel[4]
  BY <1>1, <1>3
<1>6. Slots'
  <2>1. timer'.channel[4].event = FALSE
    BY <1>5 DEF Slots
  <2> QED
    BY <1>1, <1>3, <1>4, <1>5, <2>1, SlotsKept
<1>7. First = 1 => Silent(1)' /\ Untouched(2) /\ Untouched(3)
  BY <1>1, <1>3 DEF Silent, now, Untouched
<1>8. First = 2 => Silent(2)' /\ Untouched(1) /\ Untouched(3) /\ timer'.channel[1] = timer.channel[1]
  BY <1>1, <1>3 DEF Silent, now, Untouched
<1> QED
  BY <1>1, <1>3, <1>4, <1>5, <1>6, <1>7, <1>8

\* The end of a slot.
LEMMA TakesLast ==
    ASSUME Types, Types', Slots, NEW f, Calls(f), timer' = Quietened(Acknowledged), First # 0,
           UNCHANGED <<kind, slotStart, opening>>
    PROVE  /\ Slots' /\ now' = now
           /\ timer'.channel[0] = timer.channel[0]
           /\ Silent(1)' /\ Silent(2)' /\ Silent(3)'
<1>1. First \in {1, 2, 3} /\ First \in Channel /\ ~opening /\ Channel = {0, 1, 2, 3, 4} /\ now \in Nat
  BY CallTakes, TypeFacts
<1>2. timer \in Timer(Callback)
  BY DEF Types
<1>3. /\ Acknowledged \in Timer(Callback) /\ Acknowledged.counter = timer.counter
      /\ \A d \in Channel \ {First} : Acknowledged.channel[d] = timer.channel[d]
  BY <1>1, <1>2, Acknowledges DEF Acknowledged
<1>4. /\ timer'.counter = Acknowledged.counter
      /\ timer'.channel[0] = Acknowledged.channel[0] /\ timer'.channel[4] = Acknowledged.channel[4]
      /\ \A c \in 1 .. 3 : /\ timer'.channel[c].cc = 0
                           /\ timer'.channel[c].enabled = FALSE /\ timer'.channel[c].event = FALSE
  BY <1>3, Quietens
<1>5. /\ timer'.counter = timer.counter
      /\ timer'.channel[0] = timer.channel[0] /\ timer'.channel[4] = timer.channel[4]
  BY <1>1, <1>3, <1>4
<1>6. Slots'
  <2>1. Passes /\ timer'.channel[4].event = FALSE
    BY <1>5 DEF Passes, Slots
  <2> QED
    BY <1>1, <1>5, <2>1, SlotsKept
<1>7. Silent(1)' /\ Silent(2)' /\ Silent(3)'
  BY <1>1, <1>4, <1>5 DEF Silent, now
<1> QED
  BY <1>5, <1>6, <1>7 DEF now

LEMMA CallNothingStep ==
    ASSUME Types, Slots, Modes, CallNothing
    PROVE  FALSE
<1>1. Calls(NoCallback)
  BY DEF CallNothing
<1>2. NoCallback \in Callback
  BY <1>1, WhoCalls DEF Callback
<1> QED
  BY <1>2, NoCallbackAssumption

LEMMA NewSlotStep ==
    ASSUME Types, Types', Slots, Modes, Start <= now, NewSlot
    PROVE  Slots' /\ Modes'
<1>1. /\ UNCHANGED <<radio, goesOn, mac, bgScan, irq, loaded, again, copy, air, deaf>>
      /\ Calls("newSlot") /\ timer' = Acknowledged
      /\ opening' = TRUE /\ kind' \in Kind /\ (kind = "scan" => (kind' = "scan" <=> goesOn))
      /\ slotStart' = now
  BY DEF NewSlot, Calls, irqVars, now
<1>2. First = 0 /\ (Closed \/ (Scans /\ goesOn /\ Silent(1)))
  BY <1>1, WhoCalls
<1>3. /\ Last = 4 /\ lag \in Nat /\ lag <= MaxLag /\ now \in Nat /\ entry = now - lag /\ slotStart \in Nat
      /\ MaxLag \in Nat /\ air \in Nat /\ isr \in 0 .. 4 /\ slotStart <= now /\ WholeSlot \in Nat
      /\ 2 * MaxLag < WholeSlot /\ WholeSlot < Wrap /\ now < Wrap
      /\ 0 \in Channel /\ timer \in Timer(Callback) /\ Channel = {0, 1, 2, 3, 4}
  BY TypeFacts, Durations DEF entry, Slots, Types
<1>4. timer.channel[0].event /\ isr = 0 /\ isr' = 1 /\ lag' = lag /\ ~opening
  BY <1>1, <1>2, <1>3, CallTakes
<1>5. /\ timer'.counter = timer.counter
      /\ \A d \in Channel \ {0} : timer'.channel[d] = timer.channel[d]
      /\ timer'.channel[0].event = FALSE /\ timer'.channel[0].callback = timer.channel[0].callback
      /\ timer'.channel[0].oneShot = timer.channel[0].oneShot
      /\ timer'.channel[0].period = timer.channel[0].period
      /\ ~timer.channel[0].oneShot =>
           /\ timer'.channel[0].cc = (timer.channel[0].cc + timer.channel[0].period) % Wrap
           /\ timer'.channel[0].enabled = timer.channel[0].enabled
  BY <1>1, <1>2, <1>3, Acknowledges DEF Acknowledged
<1>6. PICK next \in Int : /\ slotStart + WholeSlot - LateBy <= next
                          /\ timer.channel[0].event <=> next <= now
                          /\ timer.channel[0].event => timer.channel[0].cc = next
                          /\ timer.channel[0].event => now - next <= lag + MaxLag
  BY NextSlot
<1>7. next <= now /\ timer.channel[0].cc = next /\ now - next <= lag + MaxLag
  BY <1>4, <1>6
<1>8. PICK late \in Int : late = now - next
  BY <1>3
<1>9. late \in 0 .. LateBy'
  <2>1. 0 <= late /\ late <= 2 * MaxLag
    BY <1>3, <1>7, <1>8
  <2>2. Closed => late <= MaxLag
    BY <1>3, <1>4, <1>7, <1>8 DEF Closed
  <2>3. Scans => kind' = "scan"
    BY <1>1, <1>2 DEF Closed, Scans
  <2> QED
    BY <1>2, <1>3, <2>1, <2>2, <2>3 DEF LateBy
<1>10. now' = now /\ entry' = entry
  BY <1>4, <1>5 DEF now, entry
<1>11. Slots'
  <2>1. timer.channel[0].enabled = TRUE /\ timer.channel[0].oneShot = FALSE
        /\ timer.channel[0].period = WholeSlot /\ timer.channel[0].callback = "newSlot"
    BY DEF Slots
  <2>2. timer'.channel[0].cc = (next + WholeSlot) % Wrap /\ timer'.channel[0].enabled = TRUE
    BY <1>5, <1>7, <2>1
  <2>3. slotStart' - late + WholeSlot = next + WholeSlot
    BY <1>1, <1>3, <1>8
  <2>4. now' < next + WholeSlot
    BY <1>3, <1>7, <1>10
  <2>5. Expires(0, slotStart - late + WholeSlot)'
    <3>1. (slotStart - late + WholeSlot)' = next + WholeSlot
      BY <2>3 DEF WholeSlot
    <3>2. ~(next + WholeSlot <= now')
      BY <1>3, <1>10, <2>4
    <3> QED
      BY <1>5, <2>2, <3>1, <3>2 DEF Expires
  <2>6. timer'.channel[4] = timer.channel[4]
    BY <1>3, <1>5
  <2>7. \E l \in 0 .. LateBy' : Expires(0, slotStart - l + WholeSlot)'
    BY <1>9, <2>5
  <2>8. /\ timer'.channel[0].enabled = TRUE /\ timer'.channel[0].oneShot = FALSE
        /\ timer'.channel[0].period = WholeSlot' /\ timer'.channel[0].callback = "newSlot"
        /\ timer'.channel[4].event = FALSE /\ timer'.channel[4].cc = 0
    BY <1>5, <2>1, <2>2, <2>6 DEF Slots, WholeSlot
  <2>9. Start <= slotStart' /\ slotStart' <= now'
    BY <1>1, <1>3, <1>10
  <2> QED
    BY <1>4, <2>7, <2>8, <2>9 DEF Slots
<1>12. /\ Silent(1) => Silent(1)'
       /\ Silent(2) => Silent(2)'
       /\ Silent(3) => Silent(3)'
  BY <1>3, <1>5, <1>10 DEF Silent
<1>13. Opened'
  BY <1>1, <1>3, <1>4, <1>10 DEF Opened
<1>14. CASE Closed
  <2>1. ClosedBy + MaxLag < now /\ ClosedBy \in Int
    BY <1>3, <1>4, SlotOver, Durations DEF ClosedBy
  <2>2. irq = "off" /\ ~radio.requested /\ air = 0
    BY <1>3, <1>4, <1>14, <2>1 DEF Closed, NotLaterThan
  <2>3. Opening'
    BY <1>1, <1>12, <1>13, <1>14, <2>2 DEF Closed, Drains, Opening
  <2> QED
    BY <1>11, <2>3 DEF Modes
<1>15. CASE Scans /\ goesOn /\ Silent(1)
  <2>1. UNCHANGED <<Listens, Starts, Started, Receives, Ends, Winds, Pending, Spurious,
                    Handles({"read", "copied", "rearm"})>>
    BY <1>1 DEF Listens, Starts, Started, Receives, Ends, Winds, Pending, Spurious, Handles,
       Ended, GoesIdle,
       IsIdle, SwitchesOff, NoEvents, On
  <2>2. Rearms => Rearms'
    BY <1>3, <1>5, <1>10 DEF Rearms
  <2>3. Silent(2)' => ~Rearms'
    BY DEF Silent, Rearms
  <2>4. ScanListens => ScanListens'
    BY <1>1, <1>12, <2>1 DEF ScanListens
  <2>5. ScanReceives => ScanReceives'
    BY <1>1, <1>12, <2>1 DEF ScanReceives
  <2>6. ScanHandles => ScanHandles'
    BY <1>1, <1>12, <1>15, <2>1 DEF ScanHandles
  <2>7. ScanPauses => ScanPauses'
    BY <1>1, <1>12, <1>15, <2>1, <2>2 DEF ScanPauses
  <2>8. Pending' => air' <= lag' + MaxLag /\ LastOfTwo'
    BY <1>1, <1>3, <1>4, <1>13, <1>15, <2>1 DEF Scans, LastOfTwo
  <2>9. kind' = "scan"
    BY <1>1, <1>15 DEF Scans
  <2>10. Scans'
    BY <1>1, <1>3, <1>4, <1>12, <1>13, <1>15, <2>4, <2>5, <2>6, <2>7, <2>8, <2>9 DEF Scans
  <2> QED
    BY <1>11, <2>10 DEF Modes
<1> QED
  BY <1>2, <1>14, <1>15

LEMMA Sets ==
    \A t \in Timer(Callback) : \A c \in Channel, us \in Int, f \in Callback :
        /\ SetOneShot(t, c, us, f) \in Timer(Callback)
        /\ SetOneShot(t, c, us, f).counter = t.counter
        /\ \A e \in Channel \ {c} : SetOneShot(t, c, us, f).channel[e] = t.channel[e]
        /\ SetOneShot(t, c, us, f).channel[c].cc = (t.counter + us) % Wrap
        /\ SetOneShot(t, c, us, f).channel[c].event = t.channel[c].event
        /\ SetOneShot(t, c, us, f).channel[c].enabled = TRUE
        /\ SetOneShot(t, c, us, f).channel[c].oneShot = TRUE
        /\ SetOneShot(t, c, us, f).channel[c].callback = f
<1> SUFFICES ASSUME NEW t \in Timer(Callback), NEW c \in Channel, NEW us \in Int, NEW f \in Callback
             PROVE  /\ SetOneShot(t, c, us, f) \in Timer(Callback)
                    /\ SetOneShot(t, c, us, f).counter = t.counter
                    /\ \A e \in Channel \ {c} : SetOneShot(t, c, us, f).channel[e] = t.channel[e]
                    /\ SetOneShot(t, c, us, f).channel[c].cc = (t.counter + us) % Wrap
                    /\ SetOneShot(t, c, us, f).channel[c].event = t.channel[c].event
                    /\ SetOneShot(t, c, us, f).channel[c].enabled = TRUE
                    /\ SetOneShot(t, c, us, f).channel[c].oneShot = TRUE
                    /\ SetOneShot(t, c, us, f).channel[c].callback = f
  OBVIOUS
<1>0. (t.counter + us) % Wrap \in Count /\ us % Wrap \in Count
  <2>1. t.counter + us \in Int
    BY TimerAssumption DEF Timer, Count
  <2> QED
    BY <2>1, InCount
<1>1. PICK cc \in Count, period \in Count : cc = (t.counter + us) % Wrap /\ period = us % Wrap
  BY <1>0
<1>2. PICK n : n = [t.channel[c] EXCEPT !.cc = cc, !.enabled = TRUE, !.oneShot = TRUE,
                                        !.period = period, !.callback = f]
  OBVIOUS
<1>3. /\ n \in ChannelType(Callback)
      /\ n.cc = cc /\ n.event = t.channel[c].event /\ n.enabled = TRUE /\ n.oneShot = TRUE
      /\ n.callback = f
  BY <1>2 DEF Timer, ChannelType
<1>4. PICK u : u = SetOneShot(t, c, us, f)
  OBVIOUS
<1>5. u = [t EXCEPT !.channel[c] = n]
  BY <1>1, <1>2, <1>4 DEF SetOneShot, Arm, Timer, ChannelType
<1>6. /\ u \in Timer(Callback) /\ u.counter = t.counter
      /\ \A e \in Channel \ {c} : u.channel[e] = t.channel[e]
      /\ u.channel[c] = n
  BY <1>3, <1>5 DEF Timer
<1> QED
  BY <1>1, <1>3, <1>4, <1>6

\* A timer set from the start of a slot.
LEMMA SetsInSlot ==
    \A t \in Timer(Callback) : \A c \in Channel, base \in Int, d \in Int, f \in Callback :
        /\ SetOneShotWithRefDiff(t, c, base, d, f) \in Timer(Callback)
        /\ SetOneShotWithRefDiff(t, c, base, d, f).counter = t.counter
        /\ \A e \in Channel \ {c} : SetOneShotWithRefDiff(t, c, base, d, f).channel[e] = t.channel[e]
        /\ SetOneShotWithRefDiff(t, c, base, d, f).channel[c].cc = (base + d) % Wrap
        /\ SetOneShotWithRefDiff(t, c, base, d, f).channel[c].event = t.channel[c].event
        /\ SetOneShotWithRefDiff(t, c, base, d, f).channel[c].enabled = TRUE
        /\ SetOneShotWithRefDiff(t, c, base, d, f).channel[c].oneShot = TRUE
        /\ SetOneShotWithRefDiff(t, c, base, d, f).channel[c].callback = f
<1> SUFFICES ASSUME NEW t \in Timer(Callback), NEW c \in Channel, NEW base \in Int, NEW d \in Int,
                    NEW f \in Callback
             PROVE  /\ SetOneShotWithRefDiff(t, c, base, d, f) \in Timer(Callback)
                    /\ SetOneShotWithRefDiff(t, c, base, d, f).counter = t.counter
                    /\ \A e \in Channel \ {c} :
                         SetOneShotWithRefDiff(t, c, base, d, f).channel[e] = t.channel[e]
                    /\ SetOneShotWithRefDiff(t, c, base, d, f).channel[c].cc = (base + d) % Wrap
                    /\ SetOneShotWithRefDiff(t, c, base, d, f).channel[c].event = t.channel[c].event
                    /\ SetOneShotWithRefDiff(t, c, base, d, f).channel[c].enabled = TRUE
                    /\ SetOneShotWithRefDiff(t, c, base, d, f).channel[c].oneShot = TRUE
                    /\ SetOneShotWithRefDiff(t, c, base, d, f).channel[c].callback = f
  OBVIOUS
<1>1. PICK us \in Int : us = d - (t.counter - base)
  BY TimerAssumption DEF Timer, Count
<1>2. t.counter + us = base + d
  BY <1>1, TimerAssumption DEF Timer, Count
<1>3. SetOneShotWithRefDiff(t, c, base, d, f) = SetOneShot(t, c, us, f)
  BY <1>1 DEF SetOneShotWithRefDiff
<1>4. /\ SetOneShot(t, c, us, f) \in Timer(Callback)
      /\ SetOneShot(t, c, us, f).counter = t.counter
      /\ \A e \in Channel \ {c} : SetOneShot(t, c, us, f).channel[e] = t.channel[e]
      /\ SetOneShot(t, c, us, f).channel[c].cc = (t.counter + us) % Wrap
      /\ SetOneShot(t, c, us, f).channel[c].event = t.channel[c].event
      /\ SetOneShot(t, c, us, f).channel[c].enabled = TRUE
      /\ SetOneShot(t, c, us, f).channel[c].oneShot = TRUE
      /\ SetOneShot(t, c, us, f).channel[c].callback = f
  BY Sets
<1> QED
  BY <1>2, <1>3, <1>4

\* The first timer of a slot the node sends in, and of one it listens in.
LEMMA SetsTx ==
    ASSUME timer \in Timer(Callback), slotStart \in Int, TxOffset \in Int,
           1 \in Channel, "ti2" \in Callback
    PROVE  /\ SetOneShotWithRefDiff(timer, 1, slotStart, TxOffset, "ti2") \in Timer(Callback)
           /\ SetOneShotWithRefDiff(timer, 1, slotStart, TxOffset, "ti2").counter = timer.counter
           /\ \A e \in Channel \ {1} :
                SetOneShotWithRefDiff(timer, 1, slotStart, TxOffset, "ti2").channel[e] = timer.channel[e]
           /\ SetOneShotWithRefDiff(timer, 1, slotStart, TxOffset, "ti2").channel[1].cc
                = (slotStart + TxOffset) % Wrap
           /\ SetOneShotWithRefDiff(timer, 1, slotStart, TxOffset, "ti2").channel[1].event
                = timer.channel[1].event
           /\ SetOneShotWithRefDiff(timer, 1, slotStart, TxOffset, "ti2").channel[1].enabled = TRUE
           /\ SetOneShotWithRefDiff(timer, 1, slotStart, TxOffset, "ti2").channel[1].oneShot = TRUE
           /\ SetOneShotWithRefDiff(timer, 1, slotStart, TxOffset, "ti2").channel[1].callback = "ti2"
<1>1. PICK x \in Timer(Callback), s \in Int, d \in Int, f \in Callback, c \in Channel :
             x = timer /\ s = slotStart /\ d = TxOffset /\ f = "ti2" /\ c = 1
  OBVIOUS
<1>2. /\ SetOneShotWithRefDiff(x, c, s, d, f) \in Timer(Callback)
      /\ SetOneShotWithRefDiff(x, c, s, d, f).counter = x.counter
      /\ \A e \in Channel \ {c} : SetOneShotWithRefDiff(x, c, s, d, f).channel[e] = x.channel[e]
      /\ SetOneShotWithRefDiff(x, c, s, d, f).channel[c].cc = (s + d) % Wrap
      /\ SetOneShotWithRefDiff(x, c, s, d, f).channel[c].event = x.channel[c].event
      /\ SetOneShotWithRefDiff(x, c, s, d, f).channel[c].enabled = TRUE
      /\ SetOneShotWithRefDiff(x, c, s, d, f).channel[c].oneShot = TRUE
      /\ SetOneShotWithRefDiff(x, c, s, d, f).channel[c].callback = f
  BY SetsInSlot
<1> QED
  BY <1>1, <1>2

LEMMA SetsRx ==
    ASSUME timer \in Timer(Callback), slotStart \in Int, RxOffset \in Int,
           1 \in Channel, "ri2" \in Callback
    PROVE  /\ SetOneShotWithRefDiff(timer, 1, slotStart, RxOffset, "ri2") \in Timer(Callback)
           /\ SetOneShotWithRefDiff(timer, 1, slotStart, RxOffset, "ri2").counter = timer.counter
           /\ \A e \in Channel \ {1} :
                SetOneShotWithRefDiff(timer, 1, slotStart, RxOffset, "ri2").channel[e] = timer.channel[e]
           /\ SetOneShotWithRefDiff(timer, 1, slotStart, RxOffset, "ri2").channel[1].cc
                = (slotStart + RxOffset) % Wrap
           /\ SetOneShotWithRefDiff(timer, 1, slotStart, RxOffset, "ri2").channel[1].event
                = timer.channel[1].event
           /\ SetOneShotWithRefDiff(timer, 1, slotStart, RxOffset, "ri2").channel[1].enabled = TRUE
           /\ SetOneShotWithRefDiff(timer, 1, slotStart, RxOffset, "ri2").channel[1].oneShot = TRUE
           /\ SetOneShotWithRefDiff(timer, 1, slotStart, RxOffset, "ri2").channel[1].callback = "ri2"
<1>1. PICK x \in Timer(Callback), s \in Int, d \in Int, f \in Callback, c \in Channel :
             x = timer /\ s = slotStart /\ d = RxOffset /\ f = "ri2" /\ c = 1
  OBVIOUS
<1>2. /\ SetOneShotWithRefDiff(x, c, s, d, f) \in Timer(Callback)
      /\ SetOneShotWithRefDiff(x, c, s, d, f).counter = x.counter
      /\ \A e \in Channel \ {c} : SetOneShotWithRefDiff(x, c, s, d, f).channel[e] = x.channel[e]
      /\ SetOneShotWithRefDiff(x, c, s, d, f).channel[c].cc = (s + d) % Wrap
      /\ SetOneShotWithRefDiff(x, c, s, d, f).channel[c].event = x.channel[c].event
      /\ SetOneShotWithRefDiff(x, c, s, d, f).channel[c].enabled = TRUE
      /\ SetOneShotWithRefDiff(x, c, s, d, f).channel[c].oneShot = TRUE
      /\ SetOneShotWithRefDiff(x, c, s, d, f).channel[c].callback = f
  BY SetsInSlot
<1> QED
  BY <1>1, <1>2

LEMMA OpenTxStep ==
    ASSUME Types, Types', Slots, Modes, OpenTx
    PROVE  Slots' /\ Modes'
<1>1. /\ UNCHANGED <<isr, lag, kind, slotStart, irq, loaded, again, copy, air, bgScan, goesOn,
                     deaf>>
      /\ opening /\ kind = "tx" /\ opening' = FALSE /\ mac' = "txOffset"
      /\ radio' = TxPrepare(Disable(radio), "mine")
  BY DEF OpenTx, Opens, irqVars
<1>2. Opening
  BY <1>1 DEF Modes, Closed, TxWaits, TxGoes, RxWaits, RxGoes, Scans
<1>3. /\ Last = 4 /\ lag \in Nat /\ lag <= MaxLag /\ now \in Nat /\ slotStart \in Nat /\ MaxLag \in Nat
      /\ slotStart <= now /\ now - slotStart <= lag /\ timer \in Timer(Callback) /\ Channel = {0, 1, 2, 3, 4}
      /\ MaxLag < TxOffset /\ TxOffset \in Nat /\ TxMax \in Nat /\ isr = 1
      /\ TxOffset + TxMax \in Int /\ slotStart + TxOffset \in Int /\ slotStart + (TxOffset + TxMax) \in Int
  BY <1>1, <1>2, TypeFacts, Durations DEF Opening, Opened, Slots, Types
<1> DEFINE t == SetOneShotWithRefDiff(timer, 1, slotStart, TxOffset, "ti2")
           u == SetOneShotWithRefDiff(t, 2, slotStart, TxOffset + TxMax, "tie1")
<1>4. "ti2" \in Callback /\ "tie1" \in Callback /\ 1 \in Channel /\ 2 \in Channel
  BY <1>3 DEF Callback
<1>5. timer' = u
  BY DEF OpenTx
<1>8. /\ t \in Timer(Callback) /\ t.counter = timer.counter
      /\ \A e \in Channel \ {1} : t.channel[e] = timer.channel[e]
      /\ t.channel[1].cc = (slotStart + TxOffset) % Wrap
      /\ t.channel[1].event = timer.channel[1].event
      /\ t.channel[1].enabled = TRUE /\ t.channel[1].oneShot = TRUE
      /\ t.channel[1].callback = "ti2"
  <2>1. slotStart \in Int /\ TxOffset \in Int /\ timer \in Timer(Callback)
    BY <1>3
  <2> QED
    BY <1>4, <2>1, SetsTx
<1> HIDE DEF t
<1>9. /\ u \in Timer(Callback) /\ u.counter = t.counter
      /\ \A e \in Channel \ {2} : u.channel[e] = t.channel[e]
      /\ u.channel[2].cc = (slotStart + (TxOffset + TxMax)) % Wrap
      /\ u.channel[2].event = t.channel[2].event
      /\ u.channel[2].enabled = TRUE /\ u.channel[2].oneShot = TRUE
      /\ u.channel[2].callback = "tie1"
  BY <1>3, <1>4, <1>8, SetsInSlot
<1> HIDE DEF u
<1>10. /\ timer'.counter = timer.counter
       /\ timer'.channel[0] = timer.channel[0] /\ timer'.channel[3] = timer.channel[3]
       /\ timer'.channel[4] = timer.channel[4]
       /\ timer'.channel[1] = t.channel[1] /\ timer'.channel[2] = u.channel[2]
       /\ t.channel[2] = timer.channel[2]
  BY <1>3, <1>5, <1>8, <1>9
<1>11. timer'.channel[1].event = FALSE /\ timer'.channel[2].event = FALSE
  BY <1>2, <1>8, <1>9, <1>10 DEF Opening, Silent
<1>12. now' = now
  BY <1>10 DEF now
<1>13. Armed(1, "ti2", slotStart + TxOffset)'
  <2>1. ~(slotStart + TxOffset <= now)
    BY <1>3
  <2> QED
    BY <1>1, <1>8, <1>10, <1>11, <1>12, <2>1 DEF Armed, Expires
<1>14. Armed(2, "tie1", slotStart + (TxOffset + TxMax))'
  <2>1. ~(slotStart + (TxOffset + TxMax) <= now)
    BY <1>3
  <2> QED
    BY <1>1, <1>9, <1>10, <1>11, <1>12, <2>1 DEF Armed, Expires
<1>15. Passes
  BY <1>1 DEF Passes
<1>16. ~\E f : Calls(f)
  BY <1>1 DEF Calls
<1>17. Slots'
  <2>1. timer'.channel[4].event = FALSE
    BY <1>10 DEF Slots
  <2> QED
    BY <1>1, <1>10, <1>15, <1>16, <2>1, SlotsKept
<1>18. Silent(3)'
  BY <1>2, <1>10, <1>12 DEF Opening, Silent
<1>19. Prompt(1, slotStart + TxOffset)'
  <2>1. Opened'
    BY <1>1, <1>3, <1>12 DEF Opened
  <2> QED
    BY <1>11, <2>1 DEF Prompt
<1>20. radio'.hw = "ready" /\ radio'.state = {} /\ radio'.requested = radio.requested
  BY <1>1 DEF TxPrepare, Disable, Types, RadioType
<1>21. TxWaits'
  BY <1>1, <1>2, <1>13, <1>14, <1>18, <1>19, <1>20 DEF Opening, TxWaits
<1> QED
  BY <1>17, <1>21 DEF Modes

LEMMA OpenRxStep ==
    ASSUME Types, Types', Slots, Modes, OpenRx
    PROVE  Slots' /\ Modes'
<1>1. /\ UNCHANGED <<isr, lag, kind, slotStart, irq, loaded, again, copy, air, radio, bgScan,
                     goesOn, deaf>>
      /\ opening /\ kind = "rx" /\ opening' = FALSE /\ mac' = "rxOffset"
  BY DEF OpenRx, Opens, irqVars
<1>2. Opening
  BY <1>1 DEF Modes, Closed, TxWaits, TxGoes, RxWaits, RxGoes, Scans
<1>3. /\ Last = 4 /\ lag \in Nat /\ lag <= MaxLag /\ now \in Nat /\ slotStart \in Nat /\ MaxLag \in Nat
      /\ slotStart <= now /\ now - slotStart <= lag /\ timer \in Timer(Callback) /\ Channel = {0, 1, 2, 3, 4}
      /\ TxOffset \in Nat /\ RxOffset \in Nat /\ MaxLag < RxOffset
      /\ TxOffset + RxGuard \in Nat /\ MaxLag < TxOffset + RxGuard
      /\ TxOffset + TxMax \in Nat /\ MaxLag < TxOffset + TxMax
      /\ RxOffset + RxMax = TxOffset + TxMax
  BY <1>1, <1>2, TypeFacts, Durations DEF Opening, Opened, Slots, Types
<1> DEFINE t == SetOneShotWithRefDiff(timer, 1, slotStart, RxOffset, "ri2")
           u == SetOneShotWithRefDiff(t, 2, slotStart, TxOffset + RxGuard, "rie1")
           v == SetOneShotWithRefDiff(u, 3, slotStart, TxOffset + TxMax, "rie2")
<1>4. /\ "ri2" \in Callback /\ "rie1" \in Callback /\ "rie2" \in Callback
      /\ 1 \in Channel /\ 2 \in Channel /\ 3 \in Channel
  BY <1>3 DEF Callback
<1>5. timer' = v
  BY <1>3 DEF OpenRx
<1>6. /\ t \in Timer(Callback) /\ t.counter = timer.counter
      /\ \A e \in Channel \ {1} : t.channel[e] = timer.channel[e]
      /\ t.channel[1].cc = (slotStart + RxOffset) % Wrap
      /\ t.channel[1].event = timer.channel[1].event
      /\ t.channel[1].enabled = TRUE /\ t.channel[1].oneShot = TRUE
      /\ t.channel[1].callback = "ri2"
  <2>1. slotStart \in Int /\ RxOffset \in Int /\ timer \in Timer(Callback)
    BY <1>3
  <2> QED
    BY <1>4, <2>1, SetsRx
<1> HIDE DEF t
<1>7. /\ u \in Timer(Callback) /\ u.counter = t.counter
      /\ \A e \in Channel \ {2} : u.channel[e] = t.channel[e]
      /\ u.channel[2].cc = (slotStart + (TxOffset + RxGuard)) % Wrap
      /\ u.channel[2].event = t.channel[2].event
      /\ u.channel[2].enabled = TRUE /\ u.channel[2].oneShot = TRUE
      /\ u.channel[2].callback = "rie1"
  BY <1>3, <1>4, <1>6, SetsInSlot
<1> HIDE DEF u
<1>8. /\ v \in Timer(Callback) /\ v.counter = u.counter
      /\ \A e \in Channel \ {3} : v.channel[e] = u.channel[e]
      /\ v.channel[3].cc = (slotStart + (TxOffset + TxMax)) % Wrap
      /\ v.channel[3].event = u.channel[3].event
      /\ v.channel[3].enabled = TRUE /\ v.channel[3].oneShot = TRUE
      /\ v.channel[3].callback = "rie2"
  BY <1>3, <1>4, <1>7, SetsInSlot
<1> HIDE DEF v
<1>10. /\ timer'.counter = timer.counter
       /\ timer'.channel[0] = timer.channel[0] /\ timer'.channel[4] = timer.channel[4]
       /\ timer'.channel[1] = t.channel[1] /\ timer'.channel[2] = u.channel[2]
       /\ timer'.channel[3] = v.channel[3]
       /\ t.channel[2] = timer.channel[2] /\ u.channel[3] = timer.channel[3]
  BY <1>3, <1>5, <1>6, <1>7, <1>8
<1>11. /\ timer'.channel[1].event = FALSE /\ timer'.channel[2].event = FALSE
       /\ timer'.channel[3].event = FALSE
  BY <1>2, <1>6, <1>7, <1>8, <1>10 DEF Opening, Silent
<1>12. now' = now /\ RxOffset' = RxOffset
  BY <1>10 DEF now, RxOffset
<1>13. Armed(1, "ri2", slotStart + RxOffset)'
  <2>1. ~(slotStart + RxOffset <= now)
    BY <1>3
  <2> QED
    BY <1>1, <1>6, <1>10, <1>11, <1>12, <2>1 DEF Armed, Expires
<1>14. Armed(2, "rie1", slotStart + (TxOffset + RxGuard))'
  <2>1. ~(slotStart + (TxOffset + RxGuard) <= now)
    BY <1>3
  <2> QED
    BY <1>1, <1>7, <1>10, <1>11, <1>12, <2>1 DEF Armed, Expires
<1>15. Armed(3, "rie2", slotStart + (TxOffset + TxMax))'
  <2>1. ~(slotStart + (TxOffset + TxMax) <= now)
    BY <1>3
  <2> QED
    BY <1>1, <1>8, <1>10, <1>11, <1>12, <2>1 DEF Armed, Expires
<1>16. Passes
  BY <1>1 DEF Passes
<1>17. ~\E f : Calls(f)
  BY <1>1 DEF Calls
<1>18. Slots'
  <2>1. timer'.channel[4].event = FALSE
    BY <1>10 DEF Slots
  <2> QED
    BY <1>1, <1>10, <1>16, <1>17, <2>1, SlotsKept
<1>19. Prompt(1, slotStart + RxOffset)'
  <2>1. Opened'
    BY <1>1, <1>3, <1>12 DEF Opened
  <2> QED
    BY <1>11, <2>1 DEF Prompt
<1>20. RxWaits'
  BY <1>1, <1>2, <1>13, <1>14, <1>15, <1>19 DEF Opening, RxWaits
<1> QED
  BY <1>18, <1>20 DEF Modes

LEMMA OpenScanStep ==
    ASSUME Types, Types', Slots, Modes, NEW shared \in BOOLEAN, OpenScan(shared)
    PROVE  Slots' /\ Modes'
<1>1. /\ UNCHANGED <<isr, lag, kind, slotStart, irq, loaded, again, copy, air>>
      /\ opening /\ kind = "scan" /\ opening' = FALSE /\ bgScan' = TRUE
      /\ timer' = SetOneShotWithRef(timer, 1, slotStart, BgScanDuration, "endScan")
  BY DEF OpenScan, Opens, irqVars
<1>2. Opening \/ Scans
  BY <1>1 DEF Modes, Closed, TxWaits, TxGoes, RxWaits, RxGoes
<1>3. /\ Last = 4 /\ lag \in Nat /\ lag <= MaxLag /\ now \in Nat /\ slotStart \in Nat /\ MaxLag \in Nat
      /\ slotStart <= now /\ now - slotStart <= lag /\ timer \in Timer(Callback) /\ Channel = {0, 1, 2, 3, 4}
      /\ BgScanDuration \in Nat /\ 2 * MaxLag < BgScanDuration /\ isr = 1 /\ Opened /\ Silent(1) /\ Silent(3)
  BY <1>1, <1>2, TypeFacts, Durations DEF Opening, Opened, Slots, Scans, Types
<1>4. PICK us \in Int : us = BgScanDuration + (timer.counter - slotStart)
  BY <1>3 DEF now
<1>5. PICK k \in 0 .. 2 * MaxLag : k = 2 * (now - slotStart)
  BY <1>3
<1>6. timer.counter + us = slotStart + (BgScanDuration + k)
  BY <1>3, <1>4, <1>5 DEF now
<1> DEFINE t == SetOneShot(timer, 1, us, "endScan")
<1>7. "endScan" \in Callback /\ 1 \in Channel
  BY <1>3 DEF Callback
<1>8. timer' = t
  BY <1>1, <1>4 DEF SetOneShotWithRef
<1>9. /\ t \in Timer(Callback) /\ t.counter = timer.counter
      /\ \A e \in Channel \ {1} : t.channel[e] = timer.channel[e]
      /\ t.channel[1].cc = (timer.counter + us) % Wrap
      /\ t.channel[1].event = timer.channel[1].event
      /\ t.channel[1].enabled = TRUE /\ t.channel[1].oneShot = TRUE
      /\ t.channel[1].callback = "endScan"
  BY <1>3, <1>7, Sets
<1> HIDE DEF t
<1>10. /\ timer'.counter = timer.counter
       /\ timer'.channel[0] = timer.channel[0] /\ timer'.channel[4] = timer.channel[4]
       /\ timer'.channel[2] = timer.channel[2] /\ timer'.channel[3] = timer.channel[3]
       /\ timer'.channel[1] = t.channel[1] /\ timer'.channel[1].event = FALSE
  BY <1>3, <1>8, <1>9 DEF Silent
<1>11. Passes /\ ~\E f : Calls(f)
  BY <1>1 DEF Passes, Calls
<1>12. Slots'
  <2>1. timer'.channel[4].event = FALSE
    BY <1>10 DEF Slots
  <2> QED
    BY <1>1, <1>10, <1>11, <2>1, SlotsKept
<1>13. Untouched(2) /\ Untouched(3)
  BY <1>10, <1>11 DEF Untouched
<1>14. now' = now /\ entry' = entry /\ ScanEnd' = ScanEnd
  BY <1>1, <1>10 DEF now, entry, ScanEnd, BgScanDuration, WholeSlot
<1>15. /\ Silent(2) => Silent(2)'
       /\ Silent(3)'
       /\ Rearms => Rearms'
  BY <1>1, <1>3, <1>10, <1>11, <1>13, IsrKeeps
<1>16. Armed(1, "endScan", slotStart + (BgScanDuration + k))'
  <2>1. ~(slotStart + (BgScanDuration + k) <= now)
    BY <1>3, <1>5
  <2>2. BgScanDuration' = BgScanDuration
    BY DEF BgScanDuration, WholeSlot
  <2> QED
    BY <1>1, <1>6, <1>9, <1>10, <1>14, <2>1, <2>2 DEF Armed, Expires
<1>17. \E j \in 0 .. 2 * MaxLag : Armed(1, "endScan", slotStart + (BgScanDuration + j))'
  BY <1>16
<1>18. Opened' /\ entry <= slotStart /\ entry + MaxLag < ScanEnd
  BY <1>1, <1>3, <1>14 DEF Opened, entry, ScanEnd
<1>19. LastOfTwo' /\ NotLaterThan(slotStart)'
  BY <1>1, <1>3, <1>14, <1>18 DEF LastOfTwo, NotLaterThan
<1>20. CASE Opening
  <2>1. radio' = Rx(Disable(radio)) /\ deaf' = FALSE
    BY <1>20 DEF Opening, OpenScan
  <2>2. /\ Listens'
        /\ radio'.requested = radio.requested
    BY <1>1, <1>20, <2>1 DEF Opening, Rx, Disable, Idle, Enable, Listens, NoEvents, On, Types,
       RadioType
  <2>3. ScanListens'
    BY <1>1, <1>15, <1>20, <2>2 DEF Opening, ScanListens
  <2>4. ~Pending' /\ ~Spurious'
    BY <1>1, <1>20, <2>2 DEF Opening, Listens, Pending, Starts, Started, Receives, Spurious
  <2>5. Scans'
    BY <1>1, <1>15, <1>17, <2>3, <2>4 DEF Scans
  <2> QED
    BY <1>12, <2>5 DEF Modes
<1>21. CASE Scans
  <2>1. bgScan /\ goesOn /\ radio' = radio /\ deaf' = deaf
    BY <1>1, <1>21 DEF OpenScan, Scans
  <2>2. UNCHANGED <<Listens, Starts, Started, Receives, Ends, Winds, Pending, Spurious,
                    Handles({"read", "copied", "rearm"})>>
    BY <1>1, <2>1 DEF Listens, Starts, Started, Receives, Ends, Winds, Pending, Spurious, Handles,
       Ended,
       GoesIdle, IsIdle, SwitchesOff, NoEvents, On
  <2>3. ScanListens => ScanListens'
    BY <1>1, <1>15, <2>2 DEF ScanListens
  <2>4. ScanReceives => ScanReceives'
    BY <1>1, <1>15, <2>1, <2>2 DEF ScanReceives
  <2>5. ScanHandles => ScanHandles'
    BY <1>1, <1>15, <1>19, <2>1, <2>2 DEF ScanHandles
  <2>6. ScanPauses => ScanPauses'
    BY <1>1, <1>15, <1>19, <2>1, <2>2 DEF ScanPauses
  <2>7. Pending' => air' <= lag' + MaxLag
    <3>1. Pending' = Pending /\ air' = air /\ lag' = lag /\ air \in Nat
      BY <1>1, <2>2, TypeFacts
    <3>2. Pending => air <= lag \/ air <= lag + MaxLag
      BY <1>3, <1>21 DEF Scans
    <3> QED
      BY <1>3, <3>1, <3>2
  <2>8. Spurious' /\ ~goesOn' => entry' + MaxLag < ScanEnd'
    BY <1>14, <1>18
  <2>9. Scans'
    BY <1>1, <1>3, <1>15, <1>17, <1>19, <1>21, <2>3, <2>4, <2>5, <2>6, <2>7, <2>8 DEF Scans
  <2> QED
    BY <1>12, <2>9 DEF Modes
<1> QED
  BY <1>2, <1>20, <1>21

LEMMA Ti2Step ==
    ASSUME Types, Types', Slots, Modes, Ti2
    PROVE  Slots' /\ Modes'
<1>1. /\ UNCHANGED <<opening, kind, slotStart, goesOn, bgScan, deaf, irq, air>>
      /\ Calls("ti2") /\ timer' = Acknowledged /\ mac' = "txData" /\ radio' = TxDispatch(radio)
  BY DEF Ti2, history, Calls, irqVars
<1>2. First = 1 /\ TxWaits
  BY <1>1, WhoCalls
<1>3. timer.channel[1].event /\ isr # Last
  BY <1>1, <1>2, CallTakes, TypeFacts
<1>4. /\ Last = 4 /\ lag \in Nat /\ lag <= MaxLag /\ now \in Nat /\ slotStart \in Nat /\ MaxLag \in Nat
      /\ TxOffset \in Nat /\ entry = now - lag
  BY TypeFacts, Durations DEF entry
<1>5. PICK x \in Nat : x = slotStart + TxOffset
  BY <1>4
<1>6. Armed(1, "ti2", x) /\ entry = x
  BY <1>2, <1>3, <1>5 DEF TxWaits, Prompt
<1>7. timer.channel[1].cc = x /\ x <= now /\ timer.channel[1].oneShot = TRUE
  <2>1. timer.channel[1].cc = x % Wrap /\ x <= now /\ timer.channel[1].oneShot = TRUE
    BY <1>3, <1>6 DEF Armed, Expires
  <2>2. now \in 0 .. Wrap - 1 /\ Wrap \in Nat
    BY TypeFacts, TimerAssumption
  <2> QED
    BY <2>1, <2>2
<1>8. /\ Passes /\ Slots' /\ timer'.counter = timer.counter
      /\ Silent(1)' /\ Untouched(2) /\ Untouched(3) /\ isr' = 2 /\ lag' = lag
  <2>1. (\E f : Calls(f)) /\ timer' = Acknowledged /\ First # 0
    BY <1>1, <1>2, <1>7
  <2>2. timer.channel[First].oneShot = TRUE /\ timer.channel[First].cc <= now
    BY <1>1, <1>2, <1>7
  <2>3. kind' = kind /\ slotStart' = slotStart /\ opening' = opening
    BY <1>1, <1>2, <1>7
  <2>4. /\ Passes /\ Slots' /\ timer'.counter = timer.counter
        /\ timer'.channel[0] = timer.channel[0]
        /\ First = 1 => /\ Silent(1)' /\ Untouched(2) /\ Untouched(3)
                        /\ isr' = 2 /\ lag' = lag
        /\ First = 2 => /\ Silent(2)' /\ Untouched(1) /\ Untouched(3)
                        /\ isr' = 3 /\ lag' = lag /\ timer'.channel[1] = timer.channel[1]
    BY <2>1, <2>2, <2>3, TakesOneShot
  <2> QED
    BY <1>2, <2>4
<1>9. now' = now /\ entry' = entry
  BY <1>8 DEF now, entry
<1>10. Silent(3)' /\ Armed(2, "tie1", slotStart + (TxOffset + TxMax))'
  BY <1>1, <1>2, <1>8, IsrKeeps DEF TxWaits
<1>11. TxStarts'
  <2>1. /\ radio'.hw = "sending" /\ radio'.state = {"tx"} /\ On' /\ NoEvents'
        /\ radio'.requested = radio.requested
    BY <1>1, <1>2 DEF TxWaits, TxDispatch, Idle, Enable, On, NoEvents, Types, RadioType
  <2>2. irq = "off" /\ ~radio.requested /\ air = 0
    BY <1>2 DEF TxWaits
  <2> QED
    BY <1>1, <1>4, <1>5, <1>6, <1>7, <1>9, <2>1, <2>2 DEF TxStarts, NoEvents
<1>12. TxGoes'
  BY <1>1, <1>2, <1>5, <1>7, <1>8, <1>9, <1>10, <1>11 DEF TxWaits, TxGoes
<1> QED
  BY <1>8, <1>12 DEF Modes

LEMMA Ri2Step ==
    ASSUME Types, Types', Slots, Modes, Ri2
    PROVE  Slots' /\ Modes'
<1>1. /\ UNCHANGED <<opening, kind, slotStart, goesOn, bgScan, deaf, irq, air>>
      /\ Calls("ri2") /\ timer' = Acknowledged /\ mac' = "listen" /\ radio' = Rx(Disable(radio))
  BY DEF Ri2, history, Calls, irqVars
<1>2. First = 1 /\ RxWaits
  BY <1>1, WhoCalls
<1>3. timer.channel[1].event
  BY <1>1, <1>2, CallTakes
<1>4. slotStart \in Nat /\ RxOffset \in Nat /\ RxOffset' = RxOffset
  BY TypeFacts, Durations DEF RxOffset
<1>5. PICK x \in Nat : x = slotStart + RxOffset
  BY <1>4
<1>6. Armed(1, "ri2", x)
  BY <1>2, <1>5 DEF RxWaits
<1>7. timer.channel[1].cc = x /\ x <= now /\ timer.channel[1].oneShot = TRUE
  <2>1. timer.channel[1].cc = x % Wrap /\ x <= now /\ timer.channel[1].oneShot = TRUE
    BY <1>3, <1>6 DEF Armed, Expires
  <2>2. now \in 0 .. Wrap - 1 /\ Wrap \in Nat
    BY TypeFacts, TimerAssumption
  <2> QED
    BY <2>1, <2>2
<1>8. /\ Passes /\ Slots' /\ timer'.counter = timer.counter
      /\ Silent(1)' /\ Untouched(2) /\ Untouched(3)
  <2>1. (\E f : Calls(f)) /\ timer' = Acknowledged /\ First # 0
    BY <1>1, <1>2, <1>7
  <2>2. timer.channel[First].oneShot = TRUE /\ timer.channel[First].cc <= now
    BY <1>1, <1>2, <1>7
  <2>3. kind' = kind /\ slotStart' = slotStart /\ opening' = opening
    BY <1>1, <1>2, <1>7
  <2>4. /\ Passes /\ Slots' /\ timer'.counter = timer.counter
        /\ timer'.channel[0] = timer.channel[0]
        /\ First = 1 => /\ Silent(1)' /\ Untouched(2) /\ Untouched(3)
                        /\ isr' = 2 /\ lag' = lag
        /\ First = 2 => /\ Silent(2)' /\ Untouched(1) /\ Untouched(3)
                        /\ isr' = 3 /\ lag' = lag /\ timer'.channel[1] = timer.channel[1]
    BY <2>1, <2>2, <2>3, TakesOneShot
  <2> QED
    BY <1>2, <2>4
<1>9. now' = now
  BY <1>8 DEF now
<1>10. /\ Armed(2, "rie1", slotStart + (TxOffset + RxGuard))'
       /\ Armed(3, "rie2", slotStart + (TxOffset + TxMax))'
  BY <1>1, <1>2, <1>8, IsrKeeps DEF RxWaits
<1>11. Listens' /\ radio'.requested = radio.requested
  BY <1>1, <1>2 DEF RxWaits, Rx, Disable, Idle, Enable, Listens, On, NoEvents, Types, RadioType
<1>12. RxListens'
  BY <1>1, <1>2, <1>10, <1>11 DEF RxWaits, RxListens
<1>13. ~Pending'
  BY <1>11 DEF Listens, Pending, Starts, Started, Receives
<1>14. RxGoes'
  BY <1>1, <1>2, <1>4, <1>5, <1>7, <1>8, <1>9, <1>12, <1>13 DEF RxWaits, RxGoes
<1> QED
  BY <1>8, <1>14 DEF Modes

LEMMA AbortStep ==
    ASSUME Types, Types', Slots, Modes, Abort
    PROVE  Slots' /\ Modes'
<1>1. /\ UNCHANGED <<opening, kind, slotStart, goesOn, bgScan, deaf, irq, copy, again, air>>
      /\ timer' = Quietened(Acknowledged) /\ mac' = "sleep" /\ radio' = Disable(radio)
  BY DEF Abort, history, Calls, irqVars
<1>2. PICK f \in {"tie1", "rie1", "rie2"} : Calls(f)
  BY DEF Abort
<1>3. /\ First = 2 \/ First = 3
      /\ TxGoes \/ (RxGoes /\ (RxListens \/ RxReceives))
  BY <1>2, WhoCalls
<1>4. /\ Slots' /\ now' = now /\ timer'.channel[0] = timer.channel[0]
      /\ Silent(1)' /\ Silent(2)' /\ Silent(3)'
  BY <1>1, <1>2, <1>3, TakesLast
<1>5. /\ Last = 4 /\ lag \in Nat /\ lag <= MaxLag /\ now \in Nat /\ slotStart \in Nat /\ MaxLag \in Nat
      /\ TxOffset \in Nat /\ TxMax \in Nat /\ isr' = First + 1 /\ lag' = (IF isr' = Last THEN 0 ELSE lag)
  BY <1>2, TypeFacts, Durations, CallTakes
<1>6. now <= slotStart + TxOffset + TxMax + MaxLag + lag
  <2>1. /\ TxGoes => now < slotStart + TxOffset + TxMax + lag + MaxLag + 1
        /\ RxGoes => now < slotStart + TxOffset + TxMax + lag + MaxLag + 1
    BY Events
  <2> QED
    BY <1>3, <1>5, <2>1
<1>7. ~opening /\ ~bgScan /\ kind # "scan" /\ ClosedBy = slotStart + TxOffset + TxMax + MaxLag /\ ClosedBy' = ClosedBy
  BY <1>1, <1>3 DEF TxGoes, RxGoes, ClosedBy
<1>8. NotLaterThan(ClosedBy)'
  BY <1>3, <1>4, <1>5, <1>6, <1>7 DEF NotLaterThan, entry, now
<1>9. ~timer.channel[0].event
  <2>1. timer.channel[0].event => ClosedBy + MaxLag < now
    BY SlotOver
  <2> QED
    BY <1>5, <1>6, <1>7, <2>1
<1>10. /\ radio.address => irq = "off"
       /\ irq \notin {"rearm", "read", "copied", "copied4"}
       /\ irq = "ri4" => radio.pdu \in Received
  <2>1. CASE TxGoes
    BY <2>1 DEF TxGoes, TxStarts, TxSends, TxEnds, NoEvents
  <2>2. CASE RxListens
    BY <2>2 DEF RxListens, Listens, Starts, Started, NoEvents
  <2>3. CASE RxReceives
    BY <2>3 DEF RxReceives, Receives, Ends, Winds, Ended, GoesIdle, IsIdle, Handles, NoEvents
  <2> QED
    BY <1>3, <2>1, <2>2, <2>3
<1>11. /\ radio'.hw = "off" /\ radio'.state = {} /\ radio'.disabled = TRUE
       /\ radio'.address = radio.address /\ radio'.pdu = radio.pdu
  BY <1>1 DEF Disable, Types, RadioType
<1>12. Drains'
  BY <1>1, <1>10, <1>11 DEF Drains
<1>13. Closed'
  BY <1>1, <1>4, <1>7, <1>8, <1>9, <1>11, <1>12 DEF Closed
<1> QED
  BY <1>4, <1>13 DEF Modes

LEMMA EndScanStep ==
    ASSUME Types, Types', Slots, Modes, EndScan
    PROVE  Slots' /\ Modes'
<1>1. /\ UNCHANGED <<opening, kind, slotStart, goesOn, irq, loaded, copy, again, air>>
      /\ Calls("endScan")
  BY DEF EndScan, Calls, irqVars
<1>2. First = 1 /\ Scans
  BY <1>1, WhoCalls
<1>3. /\ Last = 4 /\ lag \in Nat /\ lag <= MaxLag /\ now \in Nat /\ slotStart \in Nat /\ MaxLag \in Nat /\ air \in Nat
      /\ isr' = 2 /\ lag' = lag /\ isr # Last /\ isr <= 1 /\ ~opening /\ isr \in 0 .. 4
      /\ timer.channel[1].event /\ (isr = 0 => ~timer.channel[0].event)
      /\ BgScanDuration \in Nat /\ 2 * MaxLag < BgScanDuration
  BY <1>1, <1>2, TypeFacts, Durations, CallTakes
<1>4. kind = "scan" /\ Silent(3) /\ bgScan
  BY <1>2 DEF Scans
<1>5. ScanEnd <= now /\ now <= ScanEnd + 3 * MaxLag + lag
  <2>1. timer.channel[1].event \in BOOLEAN
    BY TypeFacts DEF Types, Timer, ChannelType
  <2> QED
    BY <1>2, <1>3, <2>1, Events
<1>6. ScanEnd = slotStart + BgScanDuration /\ ClosedBy = slotStart + TxOffset + TxMax
      /\ ScanEnd + 3 * MaxLag < ClosedBy /\ ClosedBy \in Int /\ ScanEnd \in Int
  BY <1>3, <1>4, Durations DEF ScanEnd, ClosedBy
<1>7. CASE goesOn
  <2>1. timer' = Acknowledged /\ UNCHANGED <<mac, radio, bgScan, deaf>>
    BY <1>7 DEF EndScan
  <2>2. timer.channel[1].oneShot = TRUE /\ timer.channel[1].cc <= now
    <3>1. PICK k \in 0 .. 2 * MaxLag : Armed(1, "endScan", slotStart + (BgScanDuration + k))
      BY <1>2, <1>3 DEF Scans, Silent
    <3>2. PICK x \in Nat : x = slotStart + (BgScanDuration + k)
      BY <1>3
    <3>3. timer.channel[1].cc = x % Wrap /\ x <= now /\ timer.channel[1].oneShot = TRUE
      BY <1>3, <3>1, <3>2 DEF Armed, Expires
    <3>4. now \in 0 .. Wrap - 1 /\ Wrap \in Nat
      BY TypeFacts, TimerAssumption
    <3> QED
      BY <3>3, <3>4
  <2>3. /\ Passes /\ Slots' /\ timer'.counter = timer.counter
        /\ timer'.channel[0] = timer.channel[0]
        /\ Silent(1)' /\ Untouched(2) /\ Untouched(3)
    <3>1. (\E f : Calls(f)) /\ timer' = Acknowledged /\ First # 0
      BY <1>1, <1>2, <2>1, <2>2
    <3>2. timer.channel[First].oneShot = TRUE /\ timer.channel[First].cc <= now
      BY <1>1, <1>2, <2>1, <2>2
    <3>3. kind' = kind /\ slotStart' = slotStart /\ opening' = opening
      BY <1>1, <1>2, <2>1, <2>2
    <3>4. /\ Passes /\ Slots' /\ timer'.counter = timer.counter
          /\ timer'.channel[0] = timer.channel[0]
          /\ First = 1 => /\ Silent(1)' /\ Untouched(2) /\ Untouched(3)
                          /\ isr' = 2 /\ lag' = lag
          /\ First = 2 => /\ Silent(2)' /\ Untouched(1) /\ Untouched(3)
                          /\ isr' = 3 /\ lag' = lag /\ timer'.channel[1] = timer.channel[1]
      BY <3>1, <3>2, <3>3, TakesOneShot
    <3> QED
      BY <1>2, <3>4
  <2>4. now' = now /\ entry' = entry /\ ScanEnd' = ScanEnd
        /\ (Silent(2) => Silent(2)') /\ Silent(3)' /\ (Rearms => Rearms')
    BY <1>1, <1>3, <1>4, <2>3, IsrKeeps DEF now, entry
  <2>5. UNCHANGED <<Listens, Starts, Started, Receives, Ends, Winds, Pending, Spurious,
                    Handles({"read", "copied", "rearm"})>>
    BY <1>1, <2>1 DEF Listens, Starts, Started, Receives, Ends, Winds, Pending, Spurious, Handles,
       Ended,
       GoesIdle, IsIdle, SwitchesOff, NoEvents, On
  <2>6. ScanListens => ScanListens'
    BY <1>1, <2>4, <2>5 DEF ScanListens
  <2>7. ScanReceives => ScanReceives'
    BY <1>1, <2>1, <2>4, <2>5 DEF ScanReceives
  <2>8. ScanHandles => ScanHandles'
    BY <1>1, <1>7, <2>1, <2>4, <2>5 DEF ScanHandles
  <2>9. ScanPauses => ScanPauses'
    BY <1>1, <1>7, <2>1, <2>4, <2>5 DEF ScanPauses
  <2>10. LastOfTwo => LastOfTwo'
    BY <1>1, <1>3, <2>3, <2>4 DEF LastOfTwo, Opened
  <2>11. Pending' => air' <= lag' \/ (air' <= lag' + MaxLag /\ LastOfTwo')
    <3>1. Pending' = Pending /\ air' = air /\ lag' = lag
      BY <1>1, <1>3, <2>5
    <3>2. Pending => air <= lag \/ (air <= lag + MaxLag /\ LastOfTwo)
      BY <1>2, <1>3 DEF Scans
    <3> QED
      BY <2>10, <3>1, <3>2
  <2>12. Scans'
    BY <1>1, <1>2, <1>3, <1>5, <1>7, <2>1, <2>3, <2>4, <2>6, <2>7, <2>8, <2>9, <2>11 DEF Scans
  <2> QED
    BY <2>3, <2>12 DEF Modes
<1>8. CASE ~goesOn
  <2>1. /\ timer' = Quietened(Acknowledged) /\ mac' = "sleep" /\ radio' = Disable(radio) /\ bgScan' = FALSE
    BY <1>8 DEF EndScan
  <2>2. /\ Slots' /\ now' = now /\ timer'.channel[0] = timer.channel[0]
        /\ Silent(1)' /\ Silent(2)' /\ Silent(3)'
    BY <1>1, <1>2, <2>1, TakesLast
  <2>3. ClosedBy' = ClosedBy
    BY <1>1 DEF ClosedBy
  <2>4. NotLaterThan(ClosedBy)'
    BY <1>3, <1>5, <1>6, <2>2, <2>3 DEF NotLaterThan, entry, now
  <2>5. ~timer.channel[0].event
    <3>1. timer.channel[0].event => ScanEnd + 4 * MaxLag < now
      BY <1>4, SlotOver
    <3> QED
      BY <1>3, <1>5, <1>6, <3>1
  <2>6. ~Spurious /\ ~NotLaterThan(slotStart)
    <3>1. Spurious => entry + MaxLag < ScanEnd
      BY <1>2, <1>3, <1>8 DEF Scans
    <3>2. NotLaterThan(slotStart) => entry <= slotStart
      BY <1>3 DEF NotLaterThan
    <3> QED
      BY <1>3, <1>5, <1>6, <3>1, <3>2 DEF entry
  <2>7. /\ radio.address => irq = "off"
        /\ irq = "rearm" => ~again
        /\ irq = "read" => radio.pdu \in Received
        /\ irq # "ri4" /\ irq # "copied4"
        /\ irq = "copied" => radio.pdu \in Received /\ copy = radio.pdu
    <3>1. CASE ScanListens
      BY <2>6, <3>1 DEF ScanListens, Listens, Spurious, NoEvents
    <3>2. CASE ScanReceives
      BY <3>2 DEF ScanReceives, Started, Receives, Ends, NoEvents
    <3>3. CASE ScanHandles
      BY <1>8, <2>6, <3>3 DEF ScanHandles, Handles
    <3>4. CASE ScanPauses
      BY <3>4 DEF ScanPauses, Winds, Ended, GoesIdle, IsIdle, NoEvents
    <3> QED
      BY <1>2, <3>1, <3>2, <3>3, <3>4 DEF Scans
  <2>8. /\ radio'.hw = "off" /\ radio'.state = {} /\ radio'.disabled = TRUE
        /\ radio'.address = radio.address /\ radio'.pdu = radio.pdu
    BY <2>1 DEF Disable, Types, RadioType
  <2>9. Drains'
    BY <1>1, <2>7, <2>8 DEF Drains
  <2>10. Closed'
    BY <1>1, <1>3, <2>1, <2>2, <2>4, <2>5, <2>8, <2>9 DEF Closed
  <2> QED
    BY <2>2, <2>10 DEF Modes
<1> QED
  BY <1>7, <1>8

LEMMA RearmRxStep ==
    ASSUME Types, Types', Slots, Modes, RearmRx
    PROVE  Slots' /\ Modes'
<1>1. /\ UNCHANGED <<opening, kind, slotStart, goesOn, mac, bgScan, irq, loaded, copy, again, air>>
      /\ Calls("rx") /\ timer' = Acknowledged /\ radio' = Rx(radio)
      /\ deaf' = (bgScan /\ (deaf \/ ~Idle(radio)))
  BY DEF RearmRx, Calls, irqVars
<1>2. First = 2 /\ Scans /\ ScanPauses /\ Rearms
  BY <1>1, WhoCalls
<1>3. /\ Last = 4 /\ lag \in Nat /\ lag <= MaxLag /\ now \in Nat /\ slotStart \in Nat /\ MaxLag \in Nat
      /\ isr' = 3 /\ lag' = lag /\ isr # Last /\ ~opening /\ timer.channel[2].event
      /\ BgScanDuration \in Nat /\ 2 * MaxLag < BgScanDuration
  BY <1>1, <1>2, TypeFacts, Durations, CallTakes
<1>4. timer.channel[2].oneShot = TRUE /\ timer.channel[2].cc <= now
  BY <1>2, <1>3 DEF Rearms
<1>5. /\ Passes /\ Slots' /\ timer'.counter = timer.counter
      /\ Silent(2)' /\ Untouched(1) /\ Untouched(3)
  <2>1. (\E f : Calls(f)) /\ timer' = Acknowledged /\ First # 0
    BY <1>1, <1>2, <1>4
  <2>2. timer.channel[First].oneShot = TRUE /\ timer.channel[First].cc <= now
    BY <1>1, <1>2, <1>4
  <2>3. kind' = kind /\ slotStart' = slotStart /\ opening' = opening
    BY <1>1, <1>2, <1>4
  <2>4. /\ Passes /\ Slots' /\ timer'.counter = timer.counter
        /\ timer'.channel[0] = timer.channel[0]
        /\ First = 1 => /\ Silent(1)' /\ Untouched(2) /\ Untouched(3)
                        /\ isr' = 2 /\ lag' = lag
        /\ First = 2 => /\ Silent(2)' /\ Untouched(1) /\ Untouched(3)
                        /\ isr' = 3 /\ lag' = lag /\ timer'.channel[1] = timer.channel[1]
    BY <2>1, <2>2, <2>3, TakesOneShot
  <2> QED
    BY <1>2, <2>4
<1>6. /\ now' = now /\ entry' = entry /\ ScanEnd' = ScanEnd
      /\ (Silent(1) => Silent(1)') /\ (Silent(3) => Silent(3)')
      /\ \A k \in 0 .. 2 * MaxLag : Armed(1, "endScan", slotStart + (BgScanDuration + k))
                                    => Armed(1, "endScan", slotStart + (BgScanDuration + k))'
  BY <1>1, <1>3, <1>5, IsrKeeps DEF now, entry
<1>7. /\ bgScan /\ kind = "scan" /\ Silent(3)'
      /\ \/ \E k \in 0 .. 2 * MaxLag : Armed(1, "endScan", slotStart + (BgScanDuration + k))'
         \/ goesOn' /\ Silent(1)' /\ ScanEnd' <= now'
  BY <1>1, <1>2, <1>3, <1>6 DEF Scans
<1>8. ~Rearms'
  BY <1>5 DEF Silent, Rearms
<1>9. CASE Ended \/ GoesIdle
  <2>1. radio' = radio /\ deaf' = TRUE /\ radio.hw \in {"off", "turningOff"}
    BY <1>1, <1>7, <1>9 DEF Ended, GoesIdle, SwitchesOff, Rx, Idle
  <2>2. Winds'
    BY <1>1, <1>9, <2>1 DEF Winds, Ended, GoesIdle, SwitchesOff, NoEvents
  <2>3. ScanPauses'
    BY <1>5, <1>8, <2>1, <2>2 DEF ScanPauses
  <2>4. ~Pending' /\ ~Spurious'
    BY <2>1 DEF Pending, Starts, Started, Receives, Spurious, Listens
  <2>5. Scans'
    BY <1>1, <1>3, <1>7, <2>3, <2>4 DEF Scans
  <2> QED
    BY <1>5, <2>5 DEF Modes
<1>10. CASE IsIdle
  <2>1. Listens' /\ radio'.requested = radio.requested
    BY <1>1, <1>10 DEF IsIdle, Rx, Idle, Enable, Listens, On, NoEvents, Types, RadioType
  <2>2. ScanListens'
    BY <1>1, <1>5, <1>10, <2>1 DEF IsIdle, ScanListens
  <2>3. ~Pending'
    BY <2>1 DEF Listens, Pending, Starts, Started, Receives
  <2>4. Spurious' /\ ~goesOn' => entry' + MaxLag < ScanEnd'
    <3> SUFFICES ASSUME Spurious', ~goesOn PROVE entry + MaxLag < ScanEnd
      BY <1>1, <1>6
    <3>1. irq # "off" \/ radio.requested
      BY <1>1, <2>1 DEF Listens, Spurious, Starts
    <3>2. NotLaterThan(slotStart) \/ entry <= slotStart + MaxLag
      BY <1>2, <3>1 DEF ScanPauses
    <3>3. NotLaterThan(slotStart) => entry <= slotStart
      BY <1>3 DEF NotLaterThan
    <3>4. entry \in Int
      BY <1>3 DEF entry
    <3> QED
      BY <1>3, <3>2, <3>3, <3>4 DEF ScanEnd
  <2>5. Scans'
    BY <1>1, <1>3, <1>7, <2>2, <2>3, <2>4 DEF Scans
  <2> QED
    BY <1>5, <2>5 DEF Modes
<1> QED
  BY <1>2, <1>9, <1>10 DEF ScanPauses, Winds

-----------------------------------------------------------------------------
(* The invariant, and what follows from it.                                *)

\* The counter runs from Start to Stop, and if Stop is below Start passes zero once.
Bounded ==
    /\ Start <= Stop => Start <= now /\ now <= Stop
    /\ Stop < Start => Start <= now \/ now <= Stop

TypedInv == Types /\ Bounded /\ Inv

LEMMA InvInit == Init => TypedInv
<1> SUFFICES ASSUME Init PROVE TypedInv
  OBVIOUS
<1>1. Types
  BY TypesInit
<1>2. /\ slotStart = Start /\ opening = FALSE /\ isr = Last /\ lag = 0 /\ kind = "rx" /\ mac = "sleep"
      /\ bgScan = FALSE /\ irq = "off" /\ air = 0 /\ again = FALSE
      /\ radio.hw = "off" /\ radio.state = {} /\ radio.address = FALSE /\ radio.requested = FALSE
  BY DEF Init, RadioInit
<1>3. /\ Channel = {0, 1, 2, 3, 4} /\ Last = 4 /\ MaxLag \in Nat
      /\ WholeSlot \in Nat /\ 0 < WholeSlot /\ WholeSlot < Wrap /\ Wrap \in Nat
      /\ Start \in 0 .. Wrap - 1 /\ Stop \in 0 .. Wrap - 1
  BY Durations DEF Channel, Count
<1> DEFINE t == [TimerInit EXCEPT !.counter = Start]
<1>4. /\ t.counter = Start
      /\ \A c \in Channel : /\ t.channel[c].cc = 0 /\ t.channel[c].event = FALSE
                            /\ t.channel[c].enabled = (c = Last)
  BY DEF TimerInit
<1>5. t \in Timer(Callback)
  <2>1. Start \in Count /\ 0 \in Count
    BY <1>3 DEF Count
  <2> QED
    BY <2>1 DEF TimerInit, Timer, ChannelType
<1>6. timer = Arm(t, 0, WholeSlot, FALSE, "newSlot")
  BY DEF Init, SetPeriodic, InterSlot
<1> HIDE DEF t
<1>7. WholeSlot % Wrap = WholeSlot /\ (Start + WholeSlot) % Wrap \in Count
  BY <1>3, InCount
<1>8. /\ timer.counter = Start
      /\ timer.channel[0].cc = (Start + WholeSlot) % Wrap
      /\ timer.channel[0].event = FALSE /\ timer.channel[0].enabled = TRUE
      /\ timer.channel[0].oneShot = FALSE /\ timer.channel[0].period = WholeSlot
      /\ timer.channel[0].callback = "newSlot"
      /\ timer.channel[1] = t.channel[1] /\ timer.channel[2] = t.channel[2]
      /\ timer.channel[3] = t.channel[3] /\ timer.channel[4] = t.channel[4]
  BY <1>3, <1>4, <1>5, <1>6, <1>7 DEF Arm, Timer, ChannelType
<1>9. now = Start
  BY <1>8 DEF now
<1>10. Expires(0, slotStart - 0 + WholeSlot)
  <2>1. slotStart - 0 + WholeSlot = Start + WholeSlot /\ ~(Start + WholeSlot <= now)
    BY <1>2, <1>3, <1>9
  <2> QED
    BY <1>8, <2>1 DEF Expires
<1>11. Slots
  <2>1. 0 \in 0 .. LateBy
    BY <1>3 DEF LateBy
  <2>2. timer.channel[4].event = FALSE /\ timer.channel[4].cc = 0
    BY <1>3, <1>4, <1>8
  <2>3. Start <= slotStart /\ slotStart <= now
    BY <1>2, <1>3, <1>9
  <2> QED
    BY <1>2, <1>8, <1>10, <2>1, <2>2, <2>3 DEF Slots
<1>12. Silent(1) /\ Silent(2) /\ Silent(3)
  <2>1. \A c \in {1, 2, 3} : /\ t.channel[c].enabled = FALSE /\ t.channel[c].event = FALSE
                             /\ t.channel[c].cc = 0
    <3>1. \A c \in {1, 2, 3} : c \in Channel /\ (c = Last) = FALSE
      BY <1>3
    <3> QED
      BY <3>1 DEF t, TimerInit
  <2> QED
    BY <1>3, <1>8, <1>9, <2>1 DEF Silent
<1>13. Closed
  BY <1>2, <1>8, <1>12 DEF Closed, Drains
<1>14. Bounded
  BY <1>3, <1>9 DEF Bounded
<1> QED
  BY <1>1, <1>11, <1>13, <1>14 DEF TypedInv, Inv, Modes

\* Every step but the one of time leaves the counter alone.
LEMMA OnlyTickCounts ==
    ASSUME Types, Next, ~Tick
    PROVE  timer'.counter = timer.counter
<1>1. timer \in Timer(Callback) /\ Channel = {0, 1, 2, 3, 4} /\ Last = 4
  BY TypeFacts DEF Types
<1>2. \A c \in {1, 2, 3} : Cancel(timer, c).counter = timer.counter
  BY <1>1 DEF Cancel, Timer
<1>3. Quietened(timer).counter = timer.counter
  BY <1>1, Quietens
<1>4. ASSUME NEW f, Calls(f)
      PROVE  /\ Acknowledged.counter = timer.counter
             /\ Quietened(Acknowledged).counter = timer.counter
  <2>1. First \in Channel
    BY <1>1, <1>4, CallTakes
  <2>2. Acknowledged \in Timer(Callback) /\ Acknowledged.counter = timer.counter
    BY <1>1, <2>1, Acknowledges DEF Acknowledged
  <2> QED
    BY <2>2, Quietens
<1>5. CASE TimerIsr
  <2>1. CASE EnterIsr
    BY <1>1, <2>1, EndsDelay DEF EnterIsr
  <2>2. CASE CallNothing \/ NewSlot \/ Ti2 \/ Ri2 \/ RearmRx
    BY <1>4, <2>2 DEF CallNothing, NewSlot, Ti2, Ri2, RearmRx
  <2>3. CASE Abort \/ EndScan
    BY <1>4, <2>3 DEF Abort, EndScan
  <2>4. CASE OpenTx
    BY <1>1, <2>4 DEF OpenTx, SetOneShotWithRefDiff, SetOneShot, Arm, Timer
  <2>5. CASE OpenRx
    BY <1>1, <2>5 DEF OpenRx, SetOneShotWithRefDiff, SetOneShot, Arm, Timer
  <2>6. CASE \E shared \in BOOLEAN : OpenScan(shared)
    BY <1>1, <2>6 DEF OpenScan, SetOneShotWithRef, SetOneShot, Arm, Timer
  <2> QED
    BY <1>5, <2>1, <2>2, <2>3, <2>4, <2>5, <2>6 DEF TimerIsr, LeaveIsr
<1>6. CASE RadioIrq
  <2>1. CASE ScanRearm
    BY <1>1, <2>1 DEF ScanRearm, SetOneShotWithRef, SetOneShot, Arm, Timer
  <2> QED
    BY <1>2, <1>3, <1>6, <2>1 DEF RadioIrq, EnterIrq, HandleStart, EndOfFrame, Ti3, Ri4,
       Ri4Copied, Ri4End,
       ScanRead, ScanCopied, RadioIsOff, RadioIsIdle
<1>7. CASE Peripherals
  BY <1>7 DEF Peripherals, Hear, StartSending, TurnOff, EndFrame
<1> QED
  BY <1>5, <1>6, <1>7 DEF Next

LEMMA StepKeeps ==
    ASSUME Types, Types', Start <= now, Slots, Modes, Next, ~Tick
    PROVE  Slots' /\ Modes'
<1>1. CASE Peripherals
  BY <1>1, HearStep, StartSendingStep, TurnOffStep, EndFrameStep DEF Peripherals
<1>2. CASE TimerIsr
  BY <1>2, EnterIsrStep, LeaveIsrStep, CallNothingStep, NewSlotStep, OpenTxStep, OpenRxStep,
     OpenScanStep, Ti2Step,
     Ri2Step, AbortStep, EndScanStep, RearmRxStep DEF TimerIsr
<1>3. CASE RadioIrq
  BY <1>3, EnterIrqStep, HandleStartStep, EndOfFrameStep, EndSlotStep, Ri4Step, ReadingStep,
     ScanRearmStep,
     RadioIsOffStep, RadioIsIdleStep DEF RadioIrq
<1> QED
  BY <1>1, <1>2, <1>3 DEF Next

LEMMA StutterKeeps ==
    ASSUME Slots, Modes,
           UNCHANGED <<timer, radio, isr, lag, opening, kind, slotStart, mac, bgScan, goesOn>>,
           UNCHANGED <<irq, entered, loaded, again, air, copy, deaf>>
    PROVE  Slots' /\ Modes'
<1>1. /\ Slots' <=> Slots
      /\ now' = now /\ entry' = entry /\ ScanEnd' = ScanEnd /\ ClosedBy' = ClosedBy
      /\ \A c \in 1 .. 3 : Silent(c)' <=> Silent(c)
      /\ Armed(1, "ti2", slotStart + TxOffset)' <=> Armed(1, "ti2", slotStart + TxOffset)
      /\ Armed(2, "tie1", slotStart + (TxOffset + TxMax))'
         <=> Armed(2, "tie1", slotStart + (TxOffset + TxMax))
      /\ Armed(2, "rie1", slotStart + (TxOffset + RxGuard))'
         <=> Armed(2, "rie1", slotStart + (TxOffset + RxGuard))
      /\ Armed(3, "rie2", slotStart + (TxOffset + TxMax))'
         <=> Armed(3, "rie2", slotStart + (TxOffset + TxMax))
      /\ \A k \in 0 .. 2 * MaxLag :
           Armed(1, "endScan", slotStart + (BgScanDuration + k))'
           <=> Armed(1, "endScan", slotStart + (BgScanDuration + k))
      /\ Rearms' <=> Rearms
      /\ Opened' <=> Opened
      /\ NotLaterThan(slotStart)' <=> NotLaterThan(slotStart)
      /\ NotLaterThan(ClosedBy)' <=> NotLaterThan(ClosedBy)
      /\ LastOfTwo' <=> LastOfTwo
      /\ Due(timer)' <=> Due(timer)
  BY Still
<1>2. /\ Silent(1)' <=> Silent(1)
      /\ Silent(2)' <=> Silent(2)
      /\ Silent(3)' <=> Silent(3)
  BY <1>1
<1>3. UNCHANGED <<Listens, Starts, Started, Receives, Ends, Winds, Pending, Spurious, Drains,
                  TxStarts, TxSends,
                  TxEnds, Handles({"ri4"}), Handles({"copied4", "end4"}), Handles({"read", "copied", "rearm"})>>
  BY <1>1 DEF Listens, Starts, Started, Receives, Ends, Winds, Pending, Spurious, Handles, Ended,
     GoesIdle,
     IsIdle, SwitchesOff, NoEvents, On, Drains, TxStarts, TxSends, TxEnds
<1>4. CASE Closed
  BY <1>1, <1>2, <1>3, <1>4 DEF Closed, Modes
<1>5. CASE Opening
  BY <1>1, <1>2, <1>5 DEF Opening, Modes
<1>6. CASE TxWaits
  <2>1. Prompt(1, slotStart + TxOffset)'
    BY <1>1, <1>6 DEF TxWaits, Prompt
  <2> QED
    BY <1>1, <1>2, <1>6, <2>1 DEF TxWaits, Modes
<1>7. CASE TxGoes
  BY <1>1, <1>2, <1>3, <1>7 DEF TxGoes, Modes
<1>8. CASE RxWaits
  <2>1. Prompt(1, slotStart + RxOffset)' /\ Armed(1, "ri2", slotStart + RxOffset)'
    BY <1>1, <1>8 DEF RxWaits, Prompt, RxOffset, Armed, Expires
  <2> QED
    BY <1>1, <1>2, <1>8, <2>1 DEF RxWaits, Modes
<1>9. CASE RxGoes
  <2>1. /\ RxListens => RxListens'
        /\ RxReceives => RxReceives'
        /\ RxHandles => RxHandles'
    BY <1>1, <1>2, <1>3 DEF RxListens, RxReceives, RxHandles
  <2> QED
    BY <1>1, <1>2, <1>3, <1>9, <2>1 DEF RxGoes, RxOffset, Modes
<1>10. CASE Scans
  <2>1. /\ ScanListens => ScanListens'
        /\ ScanReceives => ScanReceives'
        /\ ScanHandles => ScanHandles'
        /\ ScanPauses => ScanPauses'
    BY <1>1, <1>2, <1>3 DEF ScanListens, ScanReceives, ScanHandles, ScanPauses
  <2> QED
    BY <1>1, <1>2, <1>3, <1>10, <2>1 DEF Scans, Modes
<1> QED
  BY <1>1, <1>4, <1>5, <1>6, <1>7, <1>8, <1>9, <1>10 DEF Modes

LEMMA InvStep ==
    ASSUME TypedInv, [Next]_vars
    PROVE  TypedInv'
<1>1. Types /\ Bounded /\ Inv
  BY DEF TypedInv
<1>2. Types'
  BY <1>1, TypesStep
<1>3. now \in 0 .. Wrap - 1 /\ Start \in 0 .. Wrap - 1 /\ Stop \in 0 .. Wrap - 1 /\ Wrap \in Nat
  BY <1>1, TypeFacts, Durations DEF Count
<1>4. CASE Tick
  <2>1. now # Stop /\ now' = (now + 1) % Wrap
    <3>1. timer \in Timer(Callback)
      BY <1>1 DEF Types
    <3> QED
      BY <1>4, <3>1, CountsUp DEF Tick, now
  <2>2. now' = IF now + 1 = Wrap THEN 0 ELSE now + 1
    BY <1>3, <2>1, TimerAssumption
  <2>3. Bounded'
    BY <1>1, <1>3, <2>1, <2>2 DEF Bounded
  <2>4. Start <= now' => Start <= now /\ now + 1 < Wrap
    BY <1>1, <1>3, <2>1, <2>2 DEF Bounded
  <2>5. ASSUME Start <= now' PROVE Slots' /\ Modes'
    BY <1>1, <1>2, <1>4, <2>4, <2>5, SlotsTick, ModesTick DEF Inv
  <2>6. Inv'
    BY <2>5 DEF Inv
  <2> QED
    BY <1>2, <2>3, <2>6 DEF TypedInv
<1>5. CASE Next /\ ~Tick
  <2>1. now' = now
    BY <1>1, <1>5, OnlyTickCounts DEF now
  <2>2. Bounded'
    BY <1>1, <2>1 DEF Bounded
  <2>3. ASSUME Start <= now PROVE Slots' /\ Modes'
    BY <1>1, <1>2, <1>5, <2>3, StepKeeps DEF Inv
  <2>4. Inv'
    BY <2>1, <2>3 DEF Inv
  <2> QED
    BY <1>2, <2>2, <2>4 DEF TypedInv
<1>6. CASE UNCHANGED vars
  <2>1. /\ UNCHANGED <<timer, radio, isr, lag, opening, kind, slotStart, mac, bgScan, goesOn>>
        /\ UNCHANGED <<irq, entered, loaded, again, air, copy, deaf>>
    BY <1>6 DEF vars, timerVars, irqVars, history
  <2>2. now' = now
    BY <2>1 DEF now
  <2>3. Bounded'
    BY <1>1, <2>2 DEF Bounded
  <2>4. ASSUME Start <= now PROVE Slots' /\ Modes'
    BY <1>1, <2>1, <2>4, StutterKeeps DEF Inv
  <2>5. Inv'
    BY <2>2, <2>4 DEF Inv
  <2> QED
    BY <1>2, <2>3, <2>5 DEF TypedInv
<1> QED
  BY <1>4, <1>5, <1>6

\* Each mode, where nothing is going on.
LEMMA QuietModes ==
    ASSUME Types, Slots, Modes, Quiet
    PROVE  \/ Closed /\ radio.state = {}
           \/ TxWaits
           \/ TxGoes /\ radio.hw = "onAir" /\ radio.state # {}
           \/ RxWaits
           \/ /\ RxGoes /\ RxListens /\ radio.hw \in {"listening", "receiving"} /\ radio.state # {}
              /\ now < slotStart + (TxOffset + RxGuard)
           \/ /\ RxGoes /\ RxReceives
              /\ \/ radio.hw = "receiving" /\ radio.state # {}
                 \/ radio.hw = "off" /\ radio.state = {}
           \/ /\ Scans
              /\ \/ radio.hw \in {"listening", "receiving"} /\ radio.state # {}
                 \/ ScanPauses /\ radio.hw = "off" /\ radio.state = {}
<1>1. isr = Last /\ ~Due(timer) /\ irq = "off" /\ ~radio.requested /\ radio.hw \notin {"sending", "turningOff"}
  BY DEF Quiet
<1>2. {"rx"} # {} /\ {"tx"} # {} /\ {"tx", "busy"} # {} /\ {"rx", "busy"} # {}
  OBVIOUS
<1>3. CASE Closed
  BY <1>1, <1>3 DEF Closed, Drains
<1>4. ~Opening
  BY <1>1, Durations DEF Opening, Slots
<1>5. CASE TxGoes
  BY <1>1, <1>2, <1>5 DEF TxGoes, TxStarts, TxSends, TxEnds, SwitchesOff
<1>6. CASE RxGoes
  <2>1. ~RxHandles
    BY <1>1 DEF RxHandles, Handles
  <2>2. CASE RxListens
    <3>1. now < slotStart + (TxOffset + RxGuard)
      <4>1. Armed(2, "rie1", slotStart + (TxOffset + RxGuard))
        BY <2>2 DEF RxListens
      <4>2. ~timer.channel[2].event
        BY <1>1, <4>1, TypeFacts DEF Armed, Due
      <4>3. now \in Int /\ slotStart + (TxOffset + RxGuard) \in Int
        BY TypeFacts, Durations
      <4> QED
        BY <4>1, <4>2, <4>3 DEF Armed, Expires
    <3>2. radio.hw \in {"listening", "receiving"} /\ radio.state # {}
      BY <1>1, <1>2, <2>2 DEF RxListens, Listens, Starts, Started
    <3> QED
      BY <1>6, <2>2, <3>1, <3>2
  <2>3. CASE RxReceives
    <3>1. \/ radio.hw = "receiving" /\ radio.state # {}
          \/ radio.hw = "off" /\ radio.state = {}
      BY <1>1, <1>2, <2>3 DEF RxReceives, Receives, Ends, Winds, Ended, GoesIdle, IsIdle, Handles
    <3> QED
      BY <1>6, <2>3, <3>1
  <2> QED
    BY <1>6, <2>1, <2>2, <2>3 DEF RxGoes
<1>7. CASE Scans
  <2>1. CASE ScanListens
    BY <1>1, <1>2, <1>7, <2>1 DEF ScanListens, Listens, Starts
  <2>2. CASE ScanReceives
    BY <1>1, <1>2, <1>7, <2>2 DEF ScanReceives, Started, Receives, Ends
  <2>3. ~ScanHandles
    BY <1>1 DEF ScanHandles, Handles
  <2>4. CASE ScanPauses
    BY <1>1, <1>2, <1>7, <2>4 DEF ScanPauses, Winds, Ended, GoesIdle, IsIdle
  <2> QED
    BY <1>7, <2>1, <2>2, <2>3, <2>4 DEF Scans
<1> QED
  BY <1>3, <1>4, <1>5, <1>6, <1>7 DEF Modes

LEMMA SinceStart ==
    ASSUME Types, Slots
    PROVE  Since(slotStart) = now - slotStart
<1>1. now \in 0 .. Wrap - 1 /\ slotStart \in 0 .. Wrap - 1 /\ slotStart <= now /\ Wrap \in Nat /\ Wrap # 0
  BY TypeFacts, TimerAssumption DEF Slots
<1>2. PICK x \in Int : x = now - slotStart + Wrap
  BY <1>1
<1>3. x % Wrap = x - Wrap
  BY <1>1, <1>2, Wraps
<1> QED
  BY <1>1, <1>2, <1>3 DEF Since, now

LEMMA InvReads ==
    ASSUME TypedInv, Start <= now
    PROVE  ReadIsWhole
<1> SUFFICES ASSUME irq \in {"copied", "copied4"} PROVE copy \in Received /\ radio.pdu = copy
  BY DEF ReadIsWhole
<1>1. Types /\ Slots /\ Modes
  BY DEF TypedInv, Inv
<1>2. CASE Closed
  BY <1>2 DEF Closed, Drains
<1>3. ~Opening /\ ~TxWaits /\ ~RxWaits
  BY DEF Opening, TxWaits, RxWaits
<1>4. ~TxGoes
  BY DEF TxGoes, TxStarts, TxSends, TxEnds
<1>5. CASE RxGoes
  <2>1. RxHandles
    BY <1>5 DEF RxGoes, RxListens, RxReceives, Started, Receives, Ends, Winds, Ended, GoesIdle,
       IsIdle, Handles
  <2> QED
    BY <2>1 DEF RxHandles, Handles
<1>6. CASE Scans
  <2>1. ScanHandles
    BY <1>6 DEF Scans, ScanListens, ScanReceives, ScanPauses, Started, Receives, Ends, Winds,
       Ended, GoesIdle,
       IsIdle
  <2> QED
    BY <2>1 DEF ScanHandles, Handles
<1> QED
  BY <1>1, <1>2, <1>3, <1>4, <1>5, <1>6 DEF Modes

LEMMA InvKnows ==
    ASSUME TypedInv, Start <= now
    PROVE  DriverKnowsRadio
<1> SUFFICES ASSUME Quiet PROVE radio.state = {} <=> radio.hw \in {"off", "ready"}
  BY DEF DriverKnowsRadio, Idle
<1>1. Types /\ Slots /\ Modes
  BY DEF TypedInv, Inv
<1> QED
  BY <1>1, QuietModes DEF Closed, TxWaits, RxWaits

LEMMA InvOnTime ==
    ASSUME TypedInv, Start <= now
    PROVE  OnTime
<1>1. Types /\ Slots /\ Modes
  BY DEF TypedInv, Inv
<1>2. Since(slotStart) = now - slotStart
  BY <1>1, SinceStart
<1>3. /\ now \in Int /\ slotStart \in Int /\ MaxLag \in Nat
      /\ TxOffset \in Nat /\ RxOffset \in Nat /\ RxGuard \in Nat
  BY <1>1, TypeFacts, Durations
<1>4. ASSUME radio.hw = "sending"
      PROVE  Since(slotStart) \in TxOffset .. TxOffset + MaxLag
  <2>1. TxGoes /\ TxStarts
    BY <1>1, <1>4 DEF Modes, Closed, Opening, TxWaits, TxGoes, TxSends, TxEnds, SwitchesOff,
       RxWaits, RxGoes,
       RxListens, RxReceives, RxHandles, Scans, ScanListens, ScanReceives, ScanHandles, ScanPauses, Listens,
       Starts, Started, Receives, Ends, Winds, Ended, GoesIdle, IsIdle, Handles
  <2>2. slotStart + TxOffset <= now /\ now <= slotStart + TxOffset + MaxLag
    BY <2>1 DEF TxGoes, TxStarts
  <2> QED
    BY <1>2, <1>3, <2>2
<1>5. ASSUME Quiet, radio.hw = "listening", ~bgScan
      PROVE  Since(slotStart) \in RxOffset .. TxOffset + RxGuard + MaxLag
  <2>1. RxGoes /\ now < slotStart + (TxOffset + RxGuard)
    BY <1>1, <1>5, QuietModes DEF Closed, TxWaits, RxWaits, Scans
  <2>2. slotStart + RxOffset <= now
    BY <2>1 DEF RxGoes
  <2> QED
    BY <1>2, <1>3, <2>1, <2>2
<1> QED
  BY <1>4, <1>5 DEF OnTime

LEMMA InvNothingLeft ==
    ASSUME TypedInv, Start <= now
    PROVE  NothingLeftBehind
<1> SUFFICES ASSUME Quiet, mac = "sleep", ~bgScan
             PROVE  radio.hw = "off" /\ Off(1) /\ Off(2) /\ Off(3)
  BY DEF NothingLeftBehind
<1>1. Types /\ Slots /\ Modes
  BY DEF TypedInv, Inv
<1>2. Closed
  BY <1>1, QuietModes DEF TxWaits, TxGoes, RxWaits, RxListens, RxReceives, Scans
<1> QED
  BY <1>2 DEF Closed, Silent, Off

LEMMA InvScans ==
    ASSUME TypedInv, Start <= now
    PROVE  ScanKeepsListening
<1> SUFFICES ASSUME Quiet, bgScan, goesOn, ~deaf
             PROVE  \/ radio.hw \in {"listening", "receiving"}
                    \/ timer.channel[2].enabled /\ timer.channel[2].callback = "rx"
  BY DEF ScanKeepsListening
<1>1. Types /\ Slots /\ Modes
  BY DEF TypedInv, Inv
<1>2. radio.hw \in {"listening", "receiving"} \/ ScanPauses
  BY <1>1, QuietModes DEF Closed, TxWaits, TxGoes, RxWaits, RxGoes
<1> QED
  BY <1>2 DEF ScanPauses, Rearms

-----------------------------------------------------------------------------
\* Until the counter wraps, the node is in one of the modes above, with the timers, the radio and the
\* place of its interrupts that the mode is about (mac.c:253-545, 573-614, 784-807).
THEOREM SlotsAreInOrder == Spec => []TypedInv
<1>1. Init => TypedInv
  BY InvInit
<1>2. TypedInv /\ [Next]_vars => TypedInv'
  BY InvStep
<1> QED
  BY <1>1, <1>2, PTL DEF Spec

\* What is copied of a frame received is that frame, until the counter wraps: neither the next frame
\* nor a packet to be sent gets into the buffer of the radio before the copy is done
\* (mr_radio_default.c:238-263, mac.c:573-614, 784-807).
THEOREM ReadsAreWhole == Spec => [](Start <= timer.counter => ReadIsWhole)
<1>1. TypedInv => (Start <= timer.counter => ReadIsWhole)
  BY InvReads DEF now
<1> QED
  BY <1>1, SlotsAreInOrder, PTL

\* Until the counter wraps, the driver takes the radio for idle when it is off or prepared to send and
\* only then, so that no slot is refused the radio (mr_radio_default.c:265-299, 320-370).
THEOREM DriverKnows == Spec => [](Start <= timer.counter => DriverKnowsRadio)
<1>1. TypedInv => (Start <= timer.counter => DriverKnowsRadio)
  BY InvKnows DEF now
<1> QED
  BY <1>1, SlotsAreInOrder, PTL

\* Until the counter wraps, the node sends and listens at the offsets of the slot it is in, whatever
\* the slot before was used for and however late its interrupts were (mac.c:431-545).
THEOREM SlotsAreOnTime == Spec => [](Start <= timer.counter => OnTime)
<1>1. TypedInv => (Start <= timer.counter => OnTime)
  BY InvOnTime DEF now
<1> QED
  BY <1>1, SlotsAreInOrder, PTL

\* Until the counter wraps, a slot that is over leaves no radio on and no timer armed (end_slot,
\* mac.c:309-324).
THEOREM NothingIsLeftBehind == Spec => [](Start <= timer.counter => NothingLeftBehind)
<1>1. TypedInv => (Start <= timer.counter => NothingLeftBehind)
  BY InvNothingLeft DEF now
<1> QED
  BY <1>1, SlotsAreInOrder, PTL

\* Until the counter wraps, a background scan that goes on listens or is about to (mac.c:368-427,
\* 784-807).
THEOREM ScansKeepListening == Spec => [](Start <= timer.counter => ScanKeepsListening)
<1>1. TypedInv => (Start <= timer.counter => ScanKeepsListening)
  BY InvScans DEF now
<1> QED
  BY <1>1, SlotsAreInOrder, PTL

-----------------------------------------------------------------------------
(* The slot timer, also when the counter wraps.                            *)

\* u is t but for channels that are not the slot timer and do not become one.
Spares(t, u) ==
    /\ u \in Timer(Callback) /\ u.counter = t.counter
    /\ u.channel[0] = t.channel[0]
    /\ \A c \in 1 .. 4 : u.channel[c].callback \in {t.channel[c].callback, NoCallback}
                                                  \cup (Callback \ {"newSlot"})

LEMMA SparesTwice ==
    ASSUME NEW t, NEW u, NEW v, Spares(t, u), Spares(u, v)
    PROVE  Spares(t, v)
BY DEF Spares

LEMMA DriverSpares ==
    ASSUME NEW t \in Timer(Callback)
    PROVE  /\ Spares(t, t)
           /\ \A c \in 1 .. 3 : Spares(t, Cancel(t, c))
           /\ \A c \in 1 .. 3 : Spares(t, Acknowledge(t, c))
           /\ \A c \in 1 .. 3, us \in Int, f \in Callback \ {"newSlot"} : Spares(t, SetOneShot(t, c, us, f))
           /\ Spares(t, EndDelay(t))
<1>1. Last = 4 /\ Channel = {0, 1, 2, 3, 4} /\ NoCallback \notin Callback
  BY Durations, NoCallbackAssumption DEF Channel
<1>2. Spares(t, t)
  BY DEF Spares
<1>3. ASSUME NEW c \in 1 .. 3
      PROVE  Spares(t, Cancel(t, c))
  <2>1. PICK u : u = Cancel(t, c)
    OBVIOUS
  <2>2. c \in Channel /\ 0 \in Channel \ {c} /\ \A e \in 1 .. 4 : e = c \/ e \in Channel \ {c}
    BY <1>1
  <2>3. /\ u \in Timer(Callback) /\ u.counter = t.counter
        /\ \A d \in Channel \ {c} : u.channel[d] = t.channel[d]
        /\ u.channel[c].callback = NoCallback
    BY <2>1, <2>2, Cancels
  <2> QED
    BY <2>1, <2>2, <2>3 DEF Spares
<1>4. ASSUME NEW c \in 1 .. 3
      PROVE  Spares(t, Acknowledge(t, c))
  <2>1. PICK u : u = Acknowledge(t, c)
    OBVIOUS
  <2>2. c \in Channel /\ 0 \in Channel \ {c} /\ \A e \in 1 .. 4 : e = c \/ e \in Channel \ {c}
    BY <1>1
  <2>3. /\ u \in Timer(Callback) /\ u.counter = t.counter
        /\ \A d \in Channel \ {c} : u.channel[d] = t.channel[d]
        /\ u.channel[c].callback = t.channel[c].callback
    BY <2>1, <2>2, Acknowledges
  <2> QED
    BY <2>1, <2>2, <2>3 DEF Spares
<1>5. ASSUME NEW c \in 1 .. 3, NEW us \in Int, NEW f \in Callback \ {"newSlot"}
      PROVE  Spares(t, SetOneShot(t, c, us, f))
  <2>1. PICK u : u = SetOneShot(t, c, us, f)
    OBVIOUS
  <2>2. c \in Channel /\ 0 \in Channel \ {c} /\ \A e \in 1 .. 4 : e = c \/ e \in Channel \ {c}
    BY <1>1
  <2>3. /\ u \in Timer(Callback) /\ u.counter = t.counter
        /\ \A d \in Channel \ {c} : u.channel[d] = t.channel[d]
        /\ u.channel[c].callback = f
    BY <2>1, <2>2, Sets
  <2> QED
    BY <2>1, <2>2, <2>3 DEF Spares
<1>6. Spares(t, EndDelay(t))
  <2>1. PICK u : u = EndDelay(t)
    OBVIOUS
  <2>2. /\ u \in Timer(Callback) /\ u.counter = t.counter
        /\ \A d \in Channel \ {4} : u.channel[d] = t.channel[d]
    BY <1>1, <2>1, EndsDelay
  <2>3. u.channel[4].callback = t.channel[4].callback
    BY <1>1, <2>1 DEF EndDelay, Timer, ChannelType
  <2>4. \A e \in 1 .. 4 : e = 4 \/ e \in Channel \ {4}
    BY <1>1
  <2>5. 0 \in Channel \ {4}
    BY <1>1
  <2> QED
    BY <2>1, <2>2, <2>3, <2>4, <2>5 DEF Spares
<1> QED
  BY <1>2, <1>3, <1>4, <1>5, <1>6

LEMMA QuietenedSpares ==
    ASSUME NEW t \in Timer(Callback)
    PROVE  Spares(t, Quietened(t))
<1>1. PICK u : u = Cancel(t, 1)
  OBVIOUS
<1>2. PICK v : v = Cancel(u, 2)
  OBVIOUS
<1>3. PICK w : w = Cancel(v, 3)
  OBVIOUS
<1>4. Spares(t, u)
  BY <1>1, DriverSpares
<1>5. u \in Timer(Callback)
  BY <1>4 DEF Spares
<1>6. Spares(u, v)
  BY <1>2, <1>5, DriverSpares
<1>7. v \in Timer(Callback)
  BY <1>6 DEF Spares
<1>8. Spares(v, w)
  BY <1>3, <1>7, DriverSpares
<1>9. Spares(t, w)
  BY <1>4, <1>6, <1>8, SparesTwice
<1> QED
  BY <1>1, <1>2, <1>3, <1>9 DEF Quietened

LEMMA SetsSpare ==
    ASSUME NEW t \in Timer(Callback)
    PROVE  \A c \in 1 .. 3, base \in Int, us \in Int, f \in Callback \ {"newSlot"} :
             /\ Spares(t, SetOneShotWithRef(t, c, base, us, f))
             /\ Spares(t, SetOneShotWithRefDiff(t, c, base, us, f))
<1> SUFFICES ASSUME NEW c \in 1 .. 3, NEW base \in Int, NEW us \in Int, NEW f \in Callback \ {"newSlot"}
             PROVE  /\ Spares(t, SetOneShotWithRef(t, c, base, us, f))
                    /\ Spares(t, SetOneShotWithRefDiff(t, c, base, us, f))
  OBVIOUS
<1>1. us + (t.counter - base) \in Int /\ us - (t.counter - base) \in Int
  BY TimerAssumption DEF Timer, Count
<1> QED
  BY <1>1, DriverSpares DEF SetOneShotWithRef, SetOneShotWithRefDiff
\* A step that neither counts nor starts a slot leaves the slot timer alone.
OtherThanSlots == Types /\ [Next]_vars /\ ~Tick /\ ~NewSlot

OnlyForSlots == \A c \in 0 .. 4 : timer.channel[c].callback = "newSlot" <=> c = 0

LEMMA CallsSpare ==
    ASSUME Types, OnlyForSlots, NEW f \in (Callback \cup {NoCallback}) \ {"newSlot"}, Calls(f)
    PROVE  /\ Spares(timer, Acknowledged) /\ Acknowledged \in Timer(Callback)
           /\ Spares(timer, Quietened(Acknowledged))
           /\ isr < Last /\ isr' \in 1 .. 4 /\ (isr = 0 => ~timer.channel[0].event)
           /\ lag' = IF isr' = Last THEN 0 ELSE lag
<1>1. /\ First \in 0 .. 3 /\ timer.channel[First].callback = f
      /\ isr <= First /\ isr < Last /\ isr' = First + 1
      /\ \A d \in 0 .. 3 : isr <= d /\ d < First => ~timer.channel[d].event
      /\ lag' = IF isr' = Last THEN 0 ELSE lag
  BY CallTakes
<1>2. First \in 1 .. 3
  BY <1>1 DEF OnlyForSlots
<1>3. timer \in Timer(Callback)
  BY DEF Types
<1>4. Spares(timer, Acknowledged)
  BY <1>2, <1>3, DriverSpares DEF Acknowledged
<1>5. Acknowledged \in Timer(Callback)
  BY <1>4 DEF Spares
<1>6. Spares(timer, Quietened(Acknowledged))
  BY <1>4, <1>5, QuietenedSpares, SparesTwice
<1> QED
  BY <1>1, <1>2, <1>4, <1>5, <1>6

LEMMA OpeningSpares ==
    ASSUME Types, OpenTx \/ OpenRx \/ \E shared \in BOOLEAN : OpenScan(shared)
    PROVE  Spares(timer, timer') /\ UNCHANGED <<isr, lag, slotStart>>
<1>1. /\ timer \in Timer(Callback) /\ slotStart \in Int /\ BgScanDuration \in Int
      /\ TxOffset \in Int /\ TxMax \in Int /\ RxOffset \in Int /\ RxMax \in Int /\ RxGuard \in Int
  BY Durations DEF Types, Count
<1>2. {"ti2", "tie1", "ri2", "rie1", "rie2", "endScan"} \subseteq Callback \ {"newSlot"}
  BY DEF Callback
<1>3. ASSUME NEW t, Spares(timer, t),
             NEW c \in 1 .. 3, NEW us \in Int, NEW f \in Callback \ {"newSlot"}
      PROVE  Spares(timer, SetOneShotWithRefDiff(t, c, slotStart, us, f))
  <2>1. t \in Timer(Callback)
    BY <1>3 DEF Spares
  <2>2. Spares(t, SetOneShotWithRefDiff(t, c, slotStart, us, f))
    BY <1>1, <2>1, SetsSpare
  <2> QED
    BY <1>3, <2>2, SparesTwice
<1>4. Spares(timer, timer)
  BY <1>1, DriverSpares
<1>5. CASE OpenTx
  <2>1. PICK t : t = SetOneShotWithRefDiff(timer, 1, slotStart, TxOffset, "ti2")
    OBVIOUS
  <2>2. Spares(timer, t)
    BY <1>1, <1>2, <1>3, <1>4, <2>1
  <2>3. Spares(timer, SetOneShotWithRefDiff(t, 2, slotStart, TxOffset + TxMax, "tie1"))
    BY <1>1, <1>2, <1>3, <2>2
  <2> QED
    BY <1>5, <2>1, <2>3 DEF OpenTx, Opens
<1>6. CASE OpenRx
  <2>1. PICK t : t = SetOneShotWithRefDiff(timer, 1, slotStart, RxOffset, "ri2")
    OBVIOUS
  <2>2. Spares(timer, t)
    BY <1>1, <1>2, <1>3, <1>4, <2>1
  <2>3. PICK u : u = SetOneShotWithRefDiff(t, 2, slotStart, TxOffset + RxGuard, "rie1")
    OBVIOUS
  <2>4. Spares(timer, u)
    BY <1>1, <1>2, <1>3, <2>2, <2>3
  <2>5. Spares(timer, SetOneShotWithRefDiff(u, 3, slotStart, RxOffset + RxMax, "rie2"))
    BY <1>1, <1>2, <1>3, <2>4
  <2> QED
    BY <1>6, <2>1, <2>3, <2>5 DEF OpenRx, Opens
<1>7. CASE \E shared \in BOOLEAN : OpenScan(shared)
  <2>1. Spares(timer, SetOneShotWithRef(timer, 1, slotStart, BgScanDuration, "endScan"))
    BY <1>1, <1>2, SetsSpare
  <2> QED
    BY <1>7, <2>1 DEF OpenScan, Opens
<1> QED
  BY <1>5, <1>6, <1>7

LEMMA RadioIrqSpares ==
    ASSUME Types, RadioIrq
    PROVE  Spares(timer, timer') /\ UNCHANGED <<isr, lag, slotStart>>
<1>1. /\ timer \in Timer(Callback) /\ entered \in Int /\ RearmDelay \in Int
      /\ "rx" \in Callback \ {"newSlot"}
  BY Durations DEF Types, Count, Callback
<1>2. UNCHANGED <<isr, lag, slotStart>>
  BY DEF RadioIrq, IrqStep, EnterIrq, HandleStart, EndOfFrame, Ti3, Ri4, Ri4Copied, Ri4End, ScanRead,
     ScanCopied, ScanRearm, RadioIsOff, RadioIsIdle, timerVars
<1>3. /\ Spares(timer, timer) /\ Spares(timer, Quietened(timer))
      /\ Spares(timer, Cancel(timer, 2)) /\ Spares(timer, Cancel(timer, 3))
  <2>1. 2 \in 1 .. 3 /\ 3 \in 1 .. 3
    OBVIOUS
  <2>2. Spares(timer, Quietened(timer))
    BY <1>1, QuietenedSpares
  <2>3. Spares(timer, timer) /\ \A c \in 1 .. 3 : Spares(timer, Cancel(timer, c))
    BY <1>1, DriverSpares
  <2> QED
    BY <2>1, <2>2, <2>3
<1>4. CASE UNCHANGED timer
  BY <1>2, <1>3, <1>4
<1>5. CASE HandleStart \/ Ri4
  <2>1. timer' = Cancel(timer, 2) \/ timer' = Cancel(timer, 3) \/ timer' = timer
    BY <1>5 DEF HandleStart, Ri4
  <2> QED
    BY <1>2, <1>3, <2>1
<1>6. CASE Ti3 \/ Ri4End
  BY <1>2, <1>3, <1>6 DEF Ti3, Ri4End
<1>7. CASE ScanRearm
  <2>1. Spares(timer, SetOneShotWithRef(timer, 2, entered, RearmDelay, "rx"))
    BY <1>1, SetsSpare
  <2> QED
    BY <1>2, <1>3, <1>7, <2>1 DEF ScanRearm
<1>8. EnterIrq \/ EndOfFrame \/ Ri4Copied \/ ScanRead \/ ScanCopied \/ RadioIsOff \/ RadioIsIdle
      => UNCHANGED timer
  BY DEF EnterIrq, EndOfFrame, Ri4Copied, ScanRead, ScanCopied, RadioIsOff, RadioIsIdle
<1> QED
  BY <1>2, <1>4, <1>5, <1>6, <1>7, <1>8 DEF RadioIrq

LEMMA OthersSpare ==
    ASSUME OtherThanSlots, OnlyForSlots
    PROVE  /\ Spares(timer, timer') /\ slotStart' = slotStart
           /\ \/ isr' = isr /\ lag' = lag
              \/ isr = Last /\ isr' = 0 /\ lag' = lag
              \/ /\ isr < Last /\ isr' \in 1 .. 4 /\ (isr = 0 => ~timer.channel[0].event)
                 /\ lag' = IF isr' = Last THEN 0 ELSE lag
<1>1. timer \in Timer(Callback) /\ Last = 4 /\ isr \in 0 .. 4 /\ Spares(timer, timer)
  <2>1. timer \in Timer(Callback)
    BY DEF OtherThanSlots, Types
  <2> QED
    BY <2>1, Durations, DriverSpares DEF OtherThanSlots, Types
<1>2. Types
  BY DEF OtherThanSlots
<1>3. CASE UNCHANGED vars \/ Hear \/ StartSending \/ TurnOff \/ \E ok \in BOOLEAN : EndFrame(ok)
  <2>1. UNCHANGED <<timer, isr, lag, slotStart>>
    BY <1>3 DEF vars, timerVars, Hear, StartSending, TurnOff, EndFrame
  <2> QED
    BY <1>1, <2>1
<1>4. CASE RadioIrq
  BY <1>2, <1>4, RadioIrqSpares
<1>5. CASE EnterIsr
  <2>1. Spares(timer, EndDelay(timer))
    BY <1>1, DriverSpares
  <2> QED
    BY <1>5, <2>1 DEF EnterIsr
<1>6. CASE LeaveIsr
  <2>1. isr = 0 => ~timer.channel[0].event
    BY <1>1, <1>2, <1>6, FirstIs DEF LeaveIsr
  <2>2. UNCHANGED <<timer, slotStart>> /\ isr < Last /\ isr' = Last /\ lag' = 0
    BY <1>6 DEF LeaveIsr
  <2> QED
    BY <1>1, <2>1, <2>2
<1>7. CASE OpenTx \/ OpenRx \/ \E shared \in BOOLEAN : OpenScan(shared)
  BY <1>2, <1>7, OpeningSpares
<1>8. CASE CallNothing \/ Ti2 \/ Ri2 \/ Abort \/ EndScan \/ RearmRx
  <2>1. PICK f \in (Callback \cup {NoCallback}) \ {"newSlot"} : Calls(f)
    <3>1. {NoCallback, "ti2", "ri2", "tie1", "rie1", "rie2", "endScan", "rx"}
            \subseteq (Callback \cup {NoCallback}) \ {"newSlot"}
      BY NoCallbackAssumption DEF Callback
    <3> QED
      BY <1>8, <3>1 DEF CallNothing, Ti2, Ri2, Abort, EndScan, RearmRx
  <2>2. /\ Spares(timer, Acknowledged) /\ Spares(timer, Quietened(Acknowledged))
        /\ isr < Last /\ isr' \in 1 .. 4 /\ (isr = 0 => ~timer.channel[0].event)
        /\ lag' = IF isr' = Last THEN 0 ELSE lag
    BY <1>2, <2>1, CallsSpare
  <2>3. timer' = Acknowledged \/ timer' = Quietened(Acknowledged)
    BY <1>8 DEF CallNothing, Ti2, Ri2, Abort, EndScan, RearmRx
  <2>4. slotStart' = slotStart
    BY <1>8 DEF CallNothing, Ti2, Ri2, Abort, EndScan, RearmRx
  <2> QED
    BY <2>2, <2>3, <2>4
<1> QED
  BY <1>3, <1>4, <1>5, <1>6, <1>7, <1>8 DEF OtherThanSlots, Next, Peripherals, TimerIsr

\* The next event of the slot timer is `left` from now, or it has come and waits for the interrupt: for
\* what one interrupt takes at most, and for what the next takes to get to it.
SlotTimerIn(left) ==
    /\ left \in Int /\ left <= WholeSlot
    /\ timer.channel[0].cc = (timer.counter + left) % Wrap
    /\ timer.channel[0].event <=> left <= 0
    /\ left <= 0 => -left <= lag + MaxLag
    /\ left <= 0 /\ isr \in 1 .. 3 => -left <= lag

SlotTimer ==
    /\ Types /\ OnlyForSlots
    /\ timer.channel[0].enabled = TRUE /\ timer.channel[0].oneShot = FALSE
    /\ timer.channel[0].period = WholeSlot
    /\ \E left \in Int : SlotTimerIn(left)
    /\ \E late \in 0 .. 2 * MaxLag : slotStart = (timer.channel[0].cc - WholeSlot + late) % Wrap

LEMMA SlotTimerOthers ==
    ASSUME SlotTimer, OtherThanSlots
    PROVE  SlotTimer'
<1>1. /\ Spares(timer, timer') /\ slotStart' = slotStart
      /\ \/ isr' = isr /\ lag' = lag
         \/ isr = Last /\ isr' = 0 /\ lag' = lag
         \/ /\ isr < Last /\ isr' \in 1 .. 4 /\ (isr = 0 => ~timer.channel[0].event)
            /\ lag' = IF isr' = Last THEN 0 ELSE lag
  BY OthersSpare DEF SlotTimer
<1>2. Types'
  BY TypesStep DEF OtherThanSlots
<1>3. timer'.channel[0] = timer.channel[0] /\ timer'.counter = timer.counter
  BY <1>1 DEF Spares
<1>4. OnlyForSlots'
  BY <1>1, NoCallbackAssumption DEF Spares, OnlyForSlots, SlotTimer, Callback
<1>5. PICK left : left \in Int /\ SlotTimerIn(left)
  BY DEF SlotTimer
<1>6. SlotTimerIn(left)'
  <2>1. Last = 4 /\ MaxLag \in Nat /\ lag \in 0 .. MaxLag /\ isr \in 0 .. 4 /\ (isr = Last => lag = 0)
    BY Durations DEF SlotTimer, Types
  <2>2. left <= 0 => -left <= lag' + MaxLag
    BY <1>1, <1>5, <2>1 DEF SlotTimerIn
  <2>3. left <= 0 /\ isr' \in 1 .. 3 => -left <= lag'
    BY <1>1, <1>5, <2>1 DEF SlotTimerIn
  <2> QED
    BY <1>3, <1>5, <2>2, <2>3 DEF SlotTimerIn
<1> QED
  BY <1>1, <1>2, <1>3, <1>4, <1>5, <1>6 DEF SlotTimer

LEMMA WrapsTo ==
    ASSUME NEW x \in Int, NEW y \in 0 .. Wrap - 1,
           x = y \/ x = y + Wrap \/ x = y - Wrap \/ x = y + 2 * Wrap
    PROVE  x % Wrap = y
<1>1. PICK q \in Int : x = Wrap * q + y
  <2>1. x = Wrap * 0 + y \/ x = Wrap * 1 + y \/ x = Wrap * (-1) + y \/ x = Wrap * 2 + y
    BY TimerAssumption
  <2>2. 0 \in Int /\ 1 \in Int /\ -1 \in Int /\ 2 \in Int
    OBVIOUS
  <2> QED
    BY <2>1, <2>2
<1> QED
  BY <1>1, TimerAssumption

LEMMA Wrapped ==
    ASSUME NEW x \in Int, -Wrap <= x, x < 2 * Wrap
    PROVE  /\ x % Wrap \in 0 .. Wrap - 1
           /\ x = x % Wrap \/ x = (x % Wrap) + Wrap \/ x = (x % Wrap) - Wrap
<1>1. PICK y : y = x % Wrap
  OBVIOUS
<1>2. y = IF x < 0 THEN x + Wrap ELSE IF x < Wrap THEN x ELSE x - Wrap
  BY <1>1, Wraps
<1>3. y \in 0 .. Wrap - 1 /\ (x = y \/ x = y + Wrap \/ x = y - Wrap)
  BY <1>2, TimerAssumption
<1> QED
  BY <1>1, <1>3

\* Of a register that is `left` from the counter: when the counter goes on, ...
LEMMA LeftAfterTick ==
    ASSUME NEW n \in 0 .. Wrap - 1, NEW left \in Int, -WholeSlot < left, left <= WholeSlot
    PROVE  \A m, c : m = (n + 1) % Wrap /\ c = (n + left) % Wrap
                       => c = (m + (left - 1)) % Wrap /\ (c = m <=> left - 1 = 0)
<1> SUFFICES ASSUME NEW m, m = (n + 1) % Wrap, NEW c, c = (n + left) % Wrap
             PROVE  c = (m + (left - 1)) % Wrap /\ (c = m <=> left - 1 = 0)
  OBVIOUS
<1> DEFINE w == WholeSlot
<1>0. Wrap \in Nat /\ w \in Nat /\ 2 * w < Wrap /\ -w < left /\ left <= w
  BY Durations
<1> HIDE DEF w
<1>1. m \in 0 .. Wrap - 1 /\ (n + 1 = m \/ n + 1 = m + Wrap)
  <2>1. PICK x : x = n + 1
    OBVIOUS
  <2>2. x \in Int /\ -Wrap <= x /\ x < 2 * Wrap
    BY <1>0, <2>1
  <2> QED
    BY <1>0, <2>1, <2>2, Wrapped
<1>2. c \in 0 .. Wrap - 1 /\ (n + left = c \/ n + left = c + Wrap \/ n + left = c - Wrap)
  <2>1. PICK x : x = n + left
    OBVIOUS
  <2>2. x \in Int /\ -Wrap <= x /\ x < 2 * Wrap
    BY <1>0, <2>1
  <2>3. x % Wrap = c
    BY <2>1
  <2>4. x % Wrap \in 0 .. Wrap - 1 /\ (x = x % Wrap \/ x = (x % Wrap) + Wrap \/ x = (x % Wrap) - Wrap)
    BY <2>2, Wrapped
  <2> QED
    BY <2>1, <2>3, <2>4
<1>3. PICK y : y = m + (left - 1)
  OBVIOUS
<1>4. y \in Int /\ (y = c \/ y = c + Wrap \/ y = c - Wrap)
  BY <1>0, <1>1, <1>2, <1>3
<1>5. y % Wrap = c
  BY <1>2, <1>4, WrapsTo
<1> QED
  BY <1>0, <1>1, <1>2, <1>3, <1>5

\* ... when it moves on by w, ...
LEMMA LeftAfterPeriod ==
    ASSUME NEW n \in 0 .. Wrap - 1, NEW left \in Int, NEW w \in Nat, 2 * w < Wrap,
           -w < left, left <= 0,
           NEW c, c = (n + left) % Wrap, NEW e, e = (c + w) % Wrap
    PROVE  e = (n + (left + w)) % Wrap /\ n = (e - w + (-left)) % Wrap
<1>0. Wrap \in Nat
  BY TimerAssumption
<1>1. c \in 0 .. Wrap - 1 /\ (n + left = c \/ n + left = c - Wrap)
  <2>1. PICK x : x = n + left
    OBVIOUS
  <2>2. x \in Int /\ -Wrap <= x /\ x < Wrap
    BY <1>0, <2>1
  <2>3. x % Wrap = c /\ x < 2 * Wrap
    BY <1>0, <2>1, <2>2
  <2>4. x % Wrap \in 0 .. Wrap - 1 /\ (x = x % Wrap \/ x = (x % Wrap) + Wrap \/ x = (x % Wrap) - Wrap)
    BY <2>2, <2>3, Wrapped
  <2> QED
    BY <1>0, <2>1, <2>2, <2>3, <2>4
<1>2. e \in 0 .. Wrap - 1 /\ (c + w = e \/ c + w = e + Wrap)
  <2>1. PICK x : x = c + w
    OBVIOUS
  <2>2. x \in Int /\ 0 <= x /\ -Wrap <= x /\ x < 2 * Wrap
    BY <1>0, <1>1, <2>1
  <2>3. x % Wrap = e
    BY <2>1
  <2>4. x % Wrap \in 0 .. Wrap - 1 /\ (x = x % Wrap \/ x = (x % Wrap) + Wrap \/ x = (x % Wrap) - Wrap)
    BY <2>2, Wrapped
  <2> QED
    BY <1>0, <2>1, <2>2, <2>3, <2>4
<1>3. e = (n + (left + w)) % Wrap
  <2>1. PICK y : y = n + (left + w)
    OBVIOUS
  <2>2. y \in Int /\ (y = e \/ y = e + Wrap \/ y = e - Wrap)
    BY <1>0, <1>1, <1>2, <2>1
  <2>3. y % Wrap = e
    BY <1>2, <2>2, WrapsTo
  <2> QED
    BY <2>1, <2>3
<1>4. n = (e - w + (-left)) % Wrap
  <2>1. PICK y : y = e - w + (-left)
    OBVIOUS
  <2>2. y \in Int /\ (y = n \/ y = n + Wrap \/ y = n - Wrap)
    BY <1>0, <1>1, <1>2, <2>1
  <2>3. y % Wrap = n
    BY <2>2, WrapsTo
  <2> QED
    BY <2>1, <2>3
<1> QED
  BY <1>3, <1>4

\* ... and how far the counter is past what it was w before.
LEMMA SincePeriod ==
    ASSUME NEW n \in 0 .. Wrap - 1, NEW left \in Int, NEW w \in Nat, 2 * w < Wrap,
           -w < left, left <= w,
           NEW c, c = (n + left) % Wrap
    PROVE  (n - (c - w) + Wrap) % Wrap = w - left
<1>0. Wrap \in Nat
  BY TimerAssumption
<1>1. c \in 0 .. Wrap - 1 /\ (n + left = c \/ n + left = c + Wrap \/ n + left = c - Wrap)
  <2>1. PICK x : x = n + left
    OBVIOUS
  <2>2. x \in Int /\ -Wrap <= x /\ x < 2 * Wrap
    BY <1>0, <2>1
  <2>3. x % Wrap = c
    BY <2>1
  <2>4. x % Wrap \in 0 .. Wrap - 1 /\ (x = x % Wrap \/ x = (x % Wrap) + Wrap \/ x = (x % Wrap) - Wrap)
    BY <2>2, Wrapped
  <2> QED
    BY <2>1, <2>3, <2>4
<1>2. PICK y : y = n - (c - w) + Wrap
  OBVIOUS
<1>3. PICK z : z = w - left
  OBVIOUS
<1>4. y \in Int /\ (y = z \/ y = z + Wrap \/ y = z + 2 * Wrap) /\ z \in 0 .. Wrap - 1
  BY <1>0, <1>1, <1>2, <1>3
<1>5. y % Wrap = z
  BY <1>4, WrapsTo
<1> QED
  BY <1>2, <1>3, <1>5

LEMMA LateAfter ==
    ASSUME NEW due \in Int, NEW late \in Nat, late < Wrap, -Wrap <= due, due + late < 2 * Wrap,
           NEW s, s = (due + late) % Wrap
    PROVE  (s - due) % Wrap = late
<1>0. Wrap \in Nat
  BY TimerAssumption
<1>1. PICK x : x = due + late
  OBVIOUS
<1>2. x \in Int /\ -Wrap <= x /\ x < 2 * Wrap /\ x % Wrap = s
  BY <1>0, <1>1
<1>3. s \in 0 .. Wrap - 1 /\ (x = s \/ x = s + Wrap \/ x = s - Wrap)
  <2>1. x % Wrap \in 0 .. Wrap - 1 /\ (x = x % Wrap \/ x = (x % Wrap) + Wrap \/ x = (x % Wrap) - Wrap)
    BY <1>2, Wrapped
  <2> QED
    BY <1>2, <2>1
<1>4. PICK y : y = s - due
  OBVIOUS
<1>5. y \in Int /\ (y = late \/ y = late + Wrap \/ y = late - Wrap) /\ late \in 0 .. Wrap - 1
  BY <1>0, <1>1, <1>3, <1>4
<1>6. y % Wrap = late
  BY <1>5, WrapsTo
<1> QED
  BY <1>4, <1>6

LEMMA SlotTimerTick ==
    ASSUME SlotTimer, Tick
    PROVE  SlotTimer'
<1>1. /\ Last = 4 /\ MaxLag \in Nat /\ lag \in 0 .. MaxLag /\ isr \in 0 .. 4 /\ (isr = Last => lag = 0)
      /\ WholeSlot \in Nat /\ 2 * WholeSlot < Wrap /\ 2 * MaxLag < WholeSlot /\ Wrap \in Nat
      /\ timer \in Timer(Callback) /\ timer.counter \in 0 .. Wrap - 1 /\ Channel = {0, 1, 2, 3, 4}
  BY Durations DEF SlotTimer, Types, Timer, Count, Channel
<1>2. Types'
  BY TypesStep DEF SlotTimer, Next, Peripherals
<1>3. /\ timer'.counter = (timer.counter + 1) % Wrap
      /\ \A c \in Channel :
           /\ timer'.channel[c].cc = timer.channel[c].cc
           /\ timer'.channel[c].enabled = timer.channel[c].enabled
           /\ timer'.channel[c].oneShot = timer.channel[c].oneShot
           /\ timer'.channel[c].period = timer.channel[c].period
           /\ timer'.channel[c].callback = timer.channel[c].callback
           /\ timer'.channel[c].event <=> timer.channel[c].event \/ timer.channel[c].cc = timer'.counter
  BY <1>1, CountsUp DEF Tick
<1>4. /\ isr' = isr /\ slotStart' = slotStart
      /\ isr = Last => ~Due(timer) /\ lag' = 0
      /\ isr # Last => lag < MaxLag /\ lag' = lag + 1
  BY DEF Tick
<1>5. OnlyForSlots'
  BY <1>1, <1>3 DEF OnlyForSlots, SlotTimer
<1>6. PICK left : left \in Int /\ SlotTimerIn(left)
  BY DEF SlotTimer
<1>7. isr = Last => 0 < left
  BY <1>1, <1>4, <1>6 DEF Due, SlotTimerIn, SlotTimer
<1>8. -2 * MaxLag < left
  BY <1>1, <1>4, <1>6, <1>7 DEF SlotTimerIn
<1>9. left <= WholeSlot /\ timer.channel[0].cc = (timer.counter + left) % Wrap
  BY <1>6 DEF SlotTimerIn
<1>10. /\ timer.channel[0].cc = (timer'.counter + (left - 1)) % Wrap
       /\ timer.channel[0].cc = timer'.counter <=> left - 1 = 0
  <2>1. -WholeSlot < left
    BY <1>1, <1>6, <1>8
  <2>2. timer'.counter = (timer.counter + 1) % Wrap
    BY <1>3
  <2>3. timer.counter \in 0 .. Wrap - 1 /\ left \in Int /\ left <= WholeSlot
    BY <1>1, <1>6, <1>9
  <2>4. \A m, c : m = (timer.counter + 1) % Wrap /\ c = (timer.counter + left) % Wrap
                   => c = (m + (left - 1)) % Wrap /\ (c = m <=> left - 1 = 0)
    BY <2>1, <2>3, LeftAfterTick
  <2> QED
    BY <1>9, <2>2, <2>4
<1>11. SlotTimerIn(left - 1)'
  <2>1. timer.channel[0].event <=> left <= 0
    BY <1>6 DEF SlotTimerIn
  <2>2. timer'.channel[0].event <=> left - 1 <= 0
    BY <1>1, <1>3, <1>6, <1>10, <2>1
  <2>3. left - 1 <= 0 => -(left - 1) <= lag' + MaxLag
    BY <1>1, <1>4, <1>6, <1>7 DEF SlotTimerIn
  <2>4. left - 1 <= 0 /\ isr' \in 1 .. 3 => -(left - 1) <= lag'
    BY <1>1, <1>4, <1>6 DEF SlotTimerIn
  <2> QED
    BY <1>1, <1>3, <1>6, <1>9, <1>10, <2>2, <2>3, <2>4 DEF SlotTimerIn
<1>12. /\ timer'.channel[0].enabled = TRUE /\ timer'.channel[0].oneShot = FALSE
       /\ timer'.channel[0].period = WholeSlot /\ timer'.channel[0].cc = timer.channel[0].cc
  BY <1>1, <1>3 DEF SlotTimer
<1>13. \E late \in 0 .. 2 * MaxLag : slotStart' = (timer'.channel[0].cc - WholeSlot + late) % Wrap
  BY <1>4, <1>12 DEF SlotTimer
<1>14. left - 1 \in Int
  BY <1>6
<1> QED
  BY <1>2, <1>5, <1>11, <1>12, <1>13, <1>14 DEF SlotTimer

LEMMA SlotTimerNewSlot ==
    ASSUME SlotTimer, NewSlot
    PROVE  SlotTimer'
<1>1. /\ Last = 4 /\ MaxLag \in Nat /\ lag \in 0 .. MaxLag /\ isr \in 0 .. 4
      /\ WholeSlot \in Nat /\ 2 * WholeSlot < Wrap /\ 2 * MaxLag < WholeSlot /\ Wrap \in Nat
      /\ timer \in Timer(Callback) /\ timer.counter \in 0 .. Wrap - 1 /\ Channel = {0, 1, 2, 3, 4}
  BY Durations DEF SlotTimer, Types, Timer, Count, Channel
<1>2. Types'
  BY TypesStep DEF SlotTimer, Next, TimerIsr
<1>3. /\ First = 0 /\ timer.channel[0].event /\ isr' = 1 /\ lag' = lag
  <2>1. Calls("newSlot")
    BY DEF NewSlot
  <2>2. /\ First \in 0 .. 3 /\ timer.channel[First].event
        /\ timer.channel[First].callback = "newSlot"
        /\ isr' = First + 1 /\ lag' = IF isr' = Last THEN 0 ELSE lag
    BY <2>1, CallTakes DEF SlotTimer
  <2>3. First = 0
    BY <2>2 DEF SlotTimer, OnlyForSlots
  <2> QED
    BY <1>1, <2>2, <2>3
<1>4. /\ timer'.counter = timer.counter
      /\ \A c \in Channel \ {0} : timer'.channel[c] = timer.channel[c]
      /\ timer'.channel[0].event = FALSE /\ timer'.channel[0].callback = timer.channel[0].callback
      /\ timer'.channel[0].oneShot = timer.channel[0].oneShot
      /\ timer'.channel[0].period = timer.channel[0].period
      /\ timer'.channel[0].cc = (timer.channel[0].cc + timer.channel[0].period) % Wrap
      /\ timer'.channel[0].enabled = timer.channel[0].enabled
  <2>1. timer' = Acknowledge(timer, 0)
    BY <1>3 DEF NewSlot, Acknowledged
  <2>2. ~timer.channel[0].oneShot /\ 0 \in Channel
    BY <1>1 DEF SlotTimer
  <2> QED
    BY <1>1, <2>1, <2>2, Acknowledges
<1>5. slotStart' = timer.counter
  BY DEF NewSlot
<1>6. PICK left : left \in Int /\ SlotTimerIn(left)
  BY DEF SlotTimer
<1>7. /\ left <= 0 /\ -left \in 0 .. 2 * MaxLag
      /\ timer.channel[0].cc = (timer.counter + left) % Wrap
  BY <1>1, <1>3, <1>6 DEF SlotTimerIn
<1>8. timer'.channel[0].cc = (timer.channel[0].cc + WholeSlot) % Wrap
  BY <1>4 DEF SlotTimer
<1>9. /\ timer'.channel[0].cc = (timer.counter + (left + WholeSlot)) % Wrap
      /\ timer.counter = (timer'.channel[0].cc - WholeSlot + (-left)) % Wrap
  <2>1. -WholeSlot < left
    BY <1>1, <1>6, <1>7
  <2>2. PICK n, c, e, w : /\ n = timer.counter /\ c = timer.channel[0].cc /\ e = timer'.channel[0].cc
                          /\ w = WholeSlot
    OBVIOUS
  <2>3. /\ n \in 0 .. Wrap - 1 /\ w \in Nat /\ 2 * w < Wrap /\ -w < left /\ left <= 0
        /\ c = (n + left) % Wrap /\ e = (c + w) % Wrap
    BY <1>1, <1>7, <1>8, <2>1, <2>2
  <2>4. e = (n + (left + w)) % Wrap /\ n = (e - w + (-left)) % Wrap
    BY <1>6, <2>3, LeftAfterPeriod
  <2> QED
    BY <2>2, <2>4
<1>10. SlotTimerIn(left + WholeSlot)'
  BY <1>1, <1>4, <1>6, <1>7, <1>9 DEF SlotTimerIn
<1>11. OnlyForSlots'
  BY <1>1, <1>4 DEF OnlyForSlots, SlotTimer
<1>12. left + WholeSlot \in Int
  BY <1>1, <1>6
<1> QED
  BY <1>2, <1>4, <1>5, <1>7, <1>9, <1>10, <1>11, <1>12 DEF SlotTimer

LEMMA SlotTimerInit == Init => SlotTimer
<1> SUFFICES ASSUME Init PROVE SlotTimer
  OBVIOUS
<1>1. Types
  BY TypesInit
<1>2. /\ Last = 4 /\ MaxLag \in Nat /\ Start \in Count /\ Channel = {0, 1, 2, 3, 4} /\ Wrap \in Nat \ {0}
      /\ WholeSlot \in Nat /\ 2 * WholeSlot < Wrap /\ "newSlot" \in Callback /\ NoCallback # "newSlot"
      /\ Count = 0 .. Wrap - 1
  BY Durations, TimerAssumption, NoCallbackAssumption DEF Channel, Callback, Count
<1>3. PICK t : t = [TimerInit EXCEPT !.counter = Start]
  OBVIOUS
<1>4. /\ t \in Timer(Callback) /\ t.counter = Start
      /\ \A c \in Channel : t.channel[c].callback = NoCallback /\ t.channel[c].event = FALSE
  <2>1. \A c \in Channel : TimerInit.channel[c] \in ChannelType(Callback)
    BY <1>2 DEF TimerInit, ChannelType
  <2>2. TimerInit \in Timer(Callback)
    BY <1>2, <2>1 DEF TimerInit, Timer
  <2>3. \A c \in Channel : /\ TimerInit.channel[c].callback = NoCallback
                           /\ TimerInit.channel[c].event = FALSE
    BY DEF TimerInit
  <2> QED
    BY <1>2, <1>3, <2>2, <2>3 DEF Timer
<1>5. timer = Arm(t, 0, WholeSlot, FALSE, "newSlot")
  BY <1>3 DEF Init, SetPeriodic, InterSlot
<1>6. /\ timer.counter = Start /\ \A c \in Channel \ {0} : timer.channel[c] = t.channel[c]
      /\ timer.channel[0].cc = (Start + WholeSlot) % Wrap
      /\ timer.channel[0].enabled = TRUE /\ timer.channel[0].oneShot = FALSE
      /\ timer.channel[0].callback = "newSlot" /\ timer.channel[0].event = t.channel[0].event
      /\ timer.channel[0].period = WholeSlot % Wrap
  <2>1. WholeSlot \in Int /\ Start + WholeSlot \in Int /\ 0 \in Channel
    BY <1>2
  <2>2. WholeSlot % Wrap \in Count /\ (Start + WholeSlot) % Wrap \in Count
    BY <2>1, InCount
  <2>3. PICK b, p : b = (Start + WholeSlot) % Wrap /\ p = WholeSlot % Wrap
    OBVIOUS
  <2>4. timer = [t EXCEPT !.channel[0] = [@ EXCEPT !.cc = b, !.enabled = TRUE, !.oneShot = FALSE,
                                                   !.period = p, !.callback = "newSlot"]]
    BY <1>4, <1>5, <2>3 DEF Arm
  <2> QED
    BY <1>4, <2>1, <2>2, <2>3, <2>4 DEF Timer, ChannelType
<1>7. timer.channel[0].period = WholeSlot
  BY <1>2, <1>6
<1>8. OnlyForSlots
  BY <1>2, <1>4, <1>6 DEF OnlyForSlots
<1>9. SlotTimerIn(WholeSlot)
  <2>1. 0 < WholeSlot
    BY Durations
  <2> QED
    BY <1>2, <1>4, <1>6, <2>1 DEF SlotTimerIn
<1>10. slotStart = (timer.channel[0].cc - WholeSlot + 0) % Wrap
  <2>1. PICK e : e = (Start + WholeSlot) % Wrap
    OBVIOUS
  <2>2. Start \in 0 .. Wrap - 1 /\ Start = (Start + 0) % Wrap
    BY <1>2
  <2>3. 0 < WholeSlot
    BY Durations
  <2>4. Start = (e - WholeSlot + (-0)) % Wrap
    <3>1. PICK l, w : l = 0 /\ w = WholeSlot
      OBVIOUS
    <3>2. /\ l \in Int /\ -w < l /\ l <= 0 /\ w \in Nat /\ 2 * w < Wrap
          /\ Start = (Start + l) % Wrap /\ e = (Start + w) % Wrap
      BY <1>2, <2>1, <2>2, <2>3, <3>1
    <3>3. Start = (e - w + (-l)) % Wrap
      BY <2>2, <3>2, LeftAfterPeriod
    <3> QED
      BY <3>1, <3>3
  <2>5. e - WholeSlot + (-0) = e - WholeSlot + 0
    BY <1>2, <2>1
  <2> QED
    BY <1>6, <2>1, <2>4, <2>5 DEF Init
<1>11. 0 \in 0 .. 2 * MaxLag /\ WholeSlot \in Int
  BY <1>2
<1> QED
  BY <1>1, <1>6, <1>7, <1>8, <1>9, <1>10, <1>11 DEF SlotTimer

LEMMA SlotTimerPunctual == SlotTimer => SlotsPunctual
<1> SUFFICES ASSUME SlotTimer PROVE SlotsPunctual
  OBVIOUS
<1>1. /\ MaxLag \in Nat /\ lag \in 0 .. MaxLag
      /\ WholeSlot \in Nat /\ 2 * WholeSlot < Wrap /\ 2 * MaxLag < WholeSlot /\ Wrap \in Nat
      /\ timer.counter \in 0 .. Wrap - 1 /\ timer.channel[0].cc \in 0 .. Wrap - 1
  BY Durations DEF SlotTimer, Types, Timer, ChannelType, Count, Channel
<1>2. PICK due : due = timer.channel[0].cc - WholeSlot
  OBVIOUS
<1>3. PICK left : left \in Int /\ SlotTimerIn(left)
  BY DEF SlotTimer
<1>4. /\ -2 * MaxLag <= left /\ left <= WholeSlot
      /\ timer.channel[0].cc = (timer.counter + left) % Wrap
  BY <1>1, <1>3 DEF SlotTimerIn
<1>5. Since(due) <= WholeSlot + 2 * MaxLag
  <2>1. -WholeSlot < left
    BY <1>1, <1>3, <1>4
  <2>2. (timer.counter - (timer.channel[0].cc - WholeSlot) + Wrap) % Wrap = WholeSlot - left
    <3>1. PICK n, c, w : n = timer.counter /\ c = timer.channel[0].cc /\ w = WholeSlot
      OBVIOUS
    <3>2. /\ n \in 0 .. Wrap - 1 /\ w \in Nat /\ 2 * w < Wrap /\ -w < left /\ left <= w
          /\ c = (n + left) % Wrap
      BY <1>1, <1>4, <2>1, <3>1
    <3>3. (n - (c - w) + Wrap) % Wrap = w - left
      BY <1>3, <3>2, SincePeriod
    <3> QED
      BY <3>1, <3>3
  <2> QED
    BY <1>1, <1>2, <1>3, <1>4, <2>2 DEF Since
<1>6. (slotStart - due) % Wrap <= 2 * MaxLag
  <2>1. PICK late : late \in 0 .. 2 * MaxLag /\ slotStart = (due + late) % Wrap
    BY <1>2 DEF SlotTimer
  <2>2. late \in Nat /\ late < Wrap /\ due \in Int /\ -Wrap <= due /\ due + late < 2 * Wrap
    BY <1>1, <1>2, <2>1
  <2>3. (slotStart - due) % Wrap = late
    BY <2>1, <2>2, LateAfter
  <2> QED
    BY <1>1, <2>1, <2>3
<1> QED
  BY <1>2, <1>5, <1>6 DEF SlotsPunctual, InterSlot

\* Each slot starts within twice what an interrupt of the timer may take after the moment the slot timer
\* says, which moves by whole slots: lateness does not add up, and no slot is skipped. This holds from
\* the first slot on, also when the counter passes 0 (mr_timer_hf.c:234-254, mac.c:241-242).
THEOREM SlotsArePunctual == Spec => []SlotsPunctual
<1>1. Init => SlotTimer
  BY SlotTimerInit
<1>2. SlotTimer /\ [Next]_vars => SlotTimer'
  BY SlotTimerTick, SlotTimerNewSlot, SlotTimerOthers DEF OtherThanSlots, SlotTimer
<1>3. SlotTimer => SlotsPunctual
  BY SlotTimerPunctual
<1> QED
  BY <1>1, <1>2, <1>3, PTL DEF Spec
=============================================================================
