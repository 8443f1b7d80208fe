-------------------------- MODULE AdministrationMC --------------------------
(* Administration for TLC: a partner with a broadcaster, and one without,   *)
(* which have a credential in common.                                       *)
EXTENDS Administration

CONSTANTS c1, c2, sl1, sl2

PtMCDefs == {[slug |-> sl1, creds |-> {c1}, types |-> {"broadcaster"}],
             [slug |-> sl2, creds |-> {c1, c2}, types |-> {"plain"}]}
=============================================================================
