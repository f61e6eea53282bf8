------------------------------- MODULE TimerHf -------------------------------
(***************************************************************************)
(* The high-frequency timer (drv/mr_timer_hf/mr_timer_hf.c) and the TIMER  *)
(* peripheral below it: one counter that wraps, and per channel a compare  *)
(* register, an event flag and an interrupt enable.  A timer is a record;  *)
(* each function of the driver maps a timer to the timer it leaves.        *)
(*                                                                         *)
(* The event of a channel is set whenever the counter reaches the compare  *)
(* register, be the interrupt enabled or not, and stays until the code     *)
(* clears it: arming a channel does not.  Channel Last is the one          *)
(* mr_timer_hf_now captures the counter in; as nothing waits in a delay    *)
(* here, when its event comes does not matter, and its register is left    *)
(* alone.                                                                  *)
(*                                                                         *)
(* The channels that are used are below Last, as on the nRF5340, whose     *)
(* timers have more registers.  On a timer with four, channel 3 of the     *)
(* MAC would be Last too: the clock would overwrite its register and the   *)
(* interrupt not call it.                                                  *)
(***************************************************************************)
EXTENDS Integers

CONSTANTS
    Wrap,        \* how many values the counter has (2^32)
    Last,        \* cc_num: the channel of mr_timer_hf_now and of delays
    NoCallback

ASSUME TimerAssumption == Wrap \in Nat \ {0} /\ Last \in Nat \ {0}

Channel == 0 .. Last
Count == 0 .. Wrap - 1

ChannelType(Callback) ==
    [cc : Count, event : BOOLEAN, enabled : BOOLEAN, oneShot : BOOLEAN,
     period : Count, callback : Callback \cup {NoCallback}]
Timer(Callback) == [counter : Count, channel : [Channel -> ChannelType(Callback)]]

\* mr_timer_hf_init
TimerInit ==
    [counter |-> 0,
     channel |-> [c \in Channel |->
        [cc |-> 0, event |-> FALSE, enabled |-> c = Last, oneShot |-> FALSE,
         period |-> 0, callback |-> NoCallback]]]

\* The peripheral counts one microsecond.  The event is set when the counter becomes equal to the
\* register, not when the register is set to what the counter is.
CountUp(t) ==
    LET now == (t.counter + 1) % Wrap IN
    [t EXCEPT !.counter = now,
              !.channel = [c \in Channel |-> [t.channel[c] EXCEPT !.event = @ \/ t.channel[c].cc = now]]]

Arm(t, c, us, once, f) ==
    [t EXCEPT !.channel[c] =
        [@ EXCEPT !.cc = (t.counter + us) % Wrap, !.enabled = TRUE, !.oneShot = once,
                  !.period = us % Wrap, !.callback = f]]

SetPeriodic(t, c, us, f) == Arm(t, c, us, FALSE, f)
SetOneShot(t, c, us, f) == Arm(t, c, us, TRUE, f)
SetOneShotWithRef(t, c, base, us, f) == SetOneShot(t, c, us + (t.counter - base), f)

\* Mutant of SetOneShotWithRefDiff: the time that has passed since the reference is not subtracted.
SetOneShotFromNow(t, c, base, us, f) == SetOneShot(t, c, us, f)

SetOneShotWithRefDiff(t, c, base, us, f) == SetOneShot(t, c, us - (t.counter - base), f)

\* mr_timer_hf_adjust_periodic_us: this period only
AdjustPeriodic(t, c, us) == [t EXCEPT !.channel[c].cc = (@ + us) % Wrap]

Cancel(t, c) ==
    [t EXCEPT !.channel[c] =
        [@ EXCEPT !.period = 0, !.callback = NoCallback, !.enabled = FALSE, !.event = FALSE, !.cc = 0]]

\* The interrupt is requested.
Due(t) == \E c \in Channel : t.channel[c].event /\ t.channel[c].enabled

\* _timer_hf_isr, its first part and what its loop does for one channel before the callback.
EndDelay(t) == [t EXCEPT !.channel[Last].event = FALSE]

Acknowledge(t, c) ==
    LET served == [t.channel[c] EXCEPT !.event = FALSE] IN
    [t EXCEPT !.channel[c] =
        IF served.oneShot
        THEN [served EXCEPT !.enabled = FALSE]
        ELSE [served EXCEPT !.cc = (@ + served.period) % Wrap]]
=============================================================================
