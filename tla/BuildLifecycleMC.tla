-------------------------- MODULE BuildLifecycleMC --------------------------
(***************************************************************************)
(* Instances of the refinement for TLC.                                    *)
(***************************************************************************)
EXTENDS BuildLifecycle

OneStage == <<"resolve">>
=============================================================================
