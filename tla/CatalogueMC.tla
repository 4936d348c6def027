----------------------------- MODULE CatalogueMC -----------------------------
(***************************************************************************)
(* Three models of tables and the files beside them, checked in one run:   *)
(* the artifact cache, the deletion of a distribution, and the sources     *)
(* with the versions discovered for them.  They share no state.  A         *)
(* behaviour takes one of them, which the initial state chooses, and the   *)
(* others stay where they begin, so the states of the run are the sum of   *)
(* the three and not their product.                                        *)
(***************************************************************************)
EXTENDS ArtifactCache, DistributionDeletion, VersionSyncMC

VARIABLE part

catalogueVars == <<part, vars, deletionVars, syncVars>>

\* The cache has room for one artifact.
OneFills == [a \in Artifacts |-> MaxSize]

Symmetry == UNION {Permutations(alike) : alike \in {Procs, Dists, Handlers}}

OneOwner == [x \in Distributions \cup SourcesOfUsers |-> "owner"]

\* The state in which the sources stay when another part is taken.
SyncRest == SyncInit /\ \A s \in Sources : sources[s] = NotYet

\* The cache begins with one download completed and cached: the distribution and
\* the cache have one file by two names.  Of the other artifact there is nothing.
First == CHOOSE a \in Artifacts : TRUE
Downloaded(k) ==
  /\ file = [j \in Keys |-> IF j \in {k, Cached(k[2])} THEN 1 ELSE NoFile]
  /\ whole = {1} /\ entries = <<[id |-> 1, art |-> k[2]]>>
  /\ pending = {} /\ completed = {k}
  /\ mutex = Nobody /\ begun = 0
  /\ pc = [p \in Procs |-> "idle"] /\ loc = [p \in Procs |-> NoLoc]

CatalogueInit ==
  /\ part \in {"cache", "deletion", "sources"}
  /\ DeletionInit
  /\ IF part = "cache" THEN \E k \in DistKeys : k[2] = First /\ Downloaded(k) ELSE Init
  /\ IF part = "sources" THEN SyncInit ELSE SyncRest

CatalogueNext ==
  /\ UNCHANGED part
  /\ \/ part = "cache" /\ Next /\ UNCHANGED <<deletionVars, syncVars>>
     \/ part = "deletion" /\ DeletionNext /\ UNCHANGED <<vars, syncVars>>
     \/ part = "sources" /\ SyncNext /\ UNCHANGED <<vars, deletionVars>>

CatalogueSpec == CatalogueInit /\ [][CatalogueNext]_catalogueVars

\* The types of the parts, and what they say of the entries of the cache, of the
\* rows that name a distribution, and of the row of a sync job.
CatalogueTypeOK ==
  /\ part = "cache" => CacheTypeOK
  /\ part = "deletion" => DeletionTypeOK
  /\ part = "sources" => SyncTypeOK
=============================================================================
