----------------------------- MODULE MCScanSync -----------------------------
EXTENDS ScanSync, TLC

CONSTANTS g1, g2, g3

\* The slots of the three gateways start at different times.
McPhase == g1 :> 0 @@ g2 :> 1 @@ g3 :> 3
=============================================================================
