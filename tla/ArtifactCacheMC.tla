--------------------------- MODULE ArtifactCacheMC ---------------------------
(***************************************************************************)
(* Instances of the artifact cache for TLC.                                *)
(***************************************************************************)
EXTENDS ArtifactCache, TLC

CONSTANTS small, large

\* One artifact takes all of the cache, the others one part of it.
OneLarge == [a \in Artifacts |-> IF a = large THEN MaxSize ELSE 1]

Symmetry == Permutations(Procs) \cup Permutations(Dists)
=============================================================================
