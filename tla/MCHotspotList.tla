---------------------------- MODULE MCHotspotList ----------------------------
(* HotspotList with two hotspots, two strengths and three addresses. *)
EXTENDS HotspotList

CONSTANTS b1, b2, l1, l2, l3
TwoBssids  == {b1, b2}
TwoLevels  == {1, 2}
ThreeLists == {l1, l2, l3}

AllProcedures == {"start_scan", "connect", "disconnect", "info", "close"}
=============================================================================
