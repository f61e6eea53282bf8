------------------------------ MODULE DriftFix ------------------------------
(***************************************************************************)
(* The arithmetic of fix_drift (mac.c) on the timer of TimerHf: a node     *)
(* that hears its gateway moves the start of its next slot by what the     *)
(* frame came too late, or too early.  All times are in microseconds.      *)
(***************************************************************************)
EXTENDS TimerHf

CONSTANTS
    InterSlot,     \* MARI_TIMER_INTER_SLOT_CHANNEL
    TxOffset,      \* slot_durations.tx_offset
    CpuPeriph,     \* time_cpu_periph: from there to the time stamp of a frame
    MaxDrift       \* 100: a node that has drifted as far has to look for a gateway again

\* uint32_t and int32_t
Unsigned(x) == x % Wrap
Signed(x) == IF Unsigned(x) < Wrap \div 2 THEN Unsigned(x) ELSE Unsigned(x) - Wrap

\* clock_drift of a frame stamped stamp in a slot that has started at slotStart
ClockDrift(slotStart, stamp) == Signed(stamp - (slotStart + TxOffset + CpuPeriph))

\* Otherwise the node drops out, as in NodeMac.
Acceptable(drift) == drift > -MaxDrift /\ drift < MaxDrift

FixDrift(t, slotStart, stamp) ==
    IF Acceptable(ClockDrift(slotStart, stamp))
    THEN AdjustPeriodic(t, InterSlot, ClockDrift(slotStart, stamp))
    ELSE t
=============================================================================
