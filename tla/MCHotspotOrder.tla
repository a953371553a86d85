--------------------------- MODULE MCHotspotOrder ---------------------------
(* HotspotOrder with scans of up to MaxNumber hotspots and three strengths. *)
EXTENDS HotspotOrder

ThreeLevels == {30, 55, 80}
=============================================================================
