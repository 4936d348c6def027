------------------------- MODULE DownloadManagerMC --------------------------
(***************************************************************************)
(* Instances of the download manager for TLC.                              *)
(***************************************************************************)
EXTENDS DownloadManager, TLC

CONSTANTS kernel, userland

\* A kernel source has priority 10 in the code and most others 0.
KernelFirst == [i \in Items |-> IF i = kernel THEN 1 ELSE 0]

Symmetry == Permutations(Workers) \cup Permutations(Clients) \cup Permutations(Dists)
=============================================================================
