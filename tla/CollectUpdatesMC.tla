------------------------- MODULE CollectUpdatesMC -------------------------
(* CollectUpdates for TLC: the stop s1 is asked for by p and q, s2 is one of *)
(* its quays, which p only knows; p provides v1 and v2, q provides v3.      *)
EXTENDS CollectUpdates

CONSTANTS p, q, v1, v2, v3, s1, s2, j1, j3, l1, l3

MCProvides(c) == IF c = p THEN {v1, v2} ELSE {v3}
MCStopOf(v) == IF v = v2 THEN s2 ELSE s1
MCJourneyOf(v) == IF v = v3 THEN j3 ELSE j1
MCLineOf(j) == IF j = j1 THEN l1 ELSE l3
=============================================================================
