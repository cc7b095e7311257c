----------------------------- MODULE MCEnsembles -----------------------------
(* Instances of Ensembles for TLC: an ensemble of two and the member of      *)
(* another loop's compete for two permits.                                   *)
EXTENDS Ensembles

CONSTANTS la, lb

TwoLoops == {la, lb}
TwoAndOne == <<la, la, lb>>
OneOfEach == [l \in TwoLoops |-> 1]
FirstRetries == <<1, 0, 0>>
=============================================================================
