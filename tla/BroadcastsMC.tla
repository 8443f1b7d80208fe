---------------------------- MODULE BroadcastsMC ----------------------------
(***************************************************************************)
(* The EstimatedTimetable and the GeneralMessage broadcasts share no state: *)
(* a behaviour runs one of them, chosen initially, and the other one stays  *)
(* as it is, instead of the product of the two.                             *)
(***************************************************************************)
EXTENDS ETBroadcast, GMBroadcast, TLC

CONSTANT l1

VARIABLE part

BcInit == EtInit /\ GmInit /\ part \in {"et", "gm"}

BcNext ==
  /\ UNCHANGED part
  /\ \/ part = "et" /\ EtNext /\ UNCHANGED gmVars
     \/ part = "gm" /\ GmNext /\ UNCHANGED etVars

BcSpec == BcInit /\ [][BcNext]_<<part, etVars, gmVars>>

BcEtLineOf(v) == l1

BcSymmetry == Permutations(EtVisits)

BcEtOnTime == [time |-> 3, status |-> "onTime", atStop |-> FALSE]
BcEtSaved == {BcEtOnTime, [BcEtOnTime EXCEPT !.status = "departed"],
              [BcEtOnTime EXCEPT !.time = 5]}

BcGmSaved == {[own |-> FALSE, channel |-> "Perturbation", validUntil |-> u,
               lines |-> {l1}] : u \in {0, GmHorizon}}
BcGmFilters == {[channels |-> {}, lines |-> {l1}],
                [channels |-> {"Information"}, lines |-> {}]}
=============================================================================
