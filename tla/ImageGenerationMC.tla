------------------------- MODULE ImageGenerationMC -------------------------
(***************************************************************************)
(* Instances of the image generation for TLC.                              *)
(***************************************************************************)
EXTENDS ImageGeneration

OneImageEach == [w \in Packagers |-> 1]
=============================================================================
