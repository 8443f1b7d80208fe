--------------------------- MODULE ModelStoresMC ---------------------------
(* ModelStores for TLC.                                                    *)
EXTENDS ModelStores, TLC

StoresSymmetry ==
  Permutations(Ids) \cup Permutations(Values) \cup Permutations(Keys)
    \cup Permutations(Threads)
=============================================================================
