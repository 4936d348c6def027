--------------------------- MODULE BuildManagerMC ---------------------------
(***************************************************************************)
(* Instances of BuildManager for TLC.                                      *)
(***************************************************************************)
EXTENDS BuildManager, TLC

OneStage == <<"resolve">>
ThreeStages == <<"resolve", "download", "package">>

Symmetry == Permutations(Workers) \cup Permutations(Clients) \cup Permutations(Dists)
=============================================================================
