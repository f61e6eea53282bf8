----------------------------- MODULE SlotTiming -----------------------------
(***************************************************************************)
(* The arithmetic of sync_to_gateway (mac.c): a node that heard the beacon *)
(* of a gateway some time ago works out when a slot of the gateway starts  *)
(* and which one it is.  All times are in microseconds.                    *)
(***************************************************************************)
EXTENDS Integers

CONSTANTS
    SlotTime,      \* slot_durations.whole_slot
    Correction     \* time_cpu_and_toa: from the start of a slot to the time stamp of its beacon

\* 1780 and at most 541 + 206 in the code.
ASSUME TimingAssumption ==
    /\ SlotTime \in Nat \ {0}
    /\ Correction \in Nat
    /\ 2 * Correction < SlotTime

\* Is the next slot of the gateway too close?
Skips(elapsed) == (elapsed % SlotTime) > (SlotTime \div 2)

\* Mutant of AsnCount: a slot that is skipped is not counted.
AsnCountUnskipped(elapsed) == (elapsed \div SlotTime) + 1

\* asn_count_since_beacon
AsnCount(elapsed) == (elapsed \div SlotTime) + 1 + (IF Skips(elapsed) THEN 1 ELSE 0)

\* time_dispatch_new_schedule
DispatchDelay(elapsed) ==
    (SlotTime - (elapsed % SlotTime)) + (IF Skips(elapsed) THEN SlotTime ELSE 0) - Correction
=============================================================================
