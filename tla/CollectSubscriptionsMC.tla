----------------------- MODULE CollectSubscriptionsMC -----------------------
(* CollectSubscriptions for TLC.                                           *)
EXTENDS CollectSubscriptions, TLC

\* stop areas and ids are only told apart by their resources
Symmetry == Permutations(StopAreas) \cup Permutations(Ids)
=============================================================================
