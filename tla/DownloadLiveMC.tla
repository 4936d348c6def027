--------------------------- MODULE DownloadLiveMC ---------------------------
(***************************************************************************)
(* Three models of the download package in one run: the download manager,  *)
(* the limit on its bandwidth, and the discovery of versions.  They share  *)
(* no state.  A behaviour takes one of them, which the initial state       *)
(* chooses, and the others stay where they begin, so the states of the run *)
(* are the sum of the three and not their product.                         *)
(***************************************************************************)
EXTENDS DownloadManagerMC, Throttle, VersionSyncMC

VARIABLE part

liveVars == <<part, vars, throttleVars, syncVars>>

\* The state in which the sources stay when another part is taken.
SyncRest == SyncInit /\ \A s \in Sources : sources[s] = NotYet

LiveInit ==
  /\ part \in {"downloads", "bandwidth", "sources"}
  /\ Init /\ ThrottleInit
  /\ IF part = "sources" THEN SyncInit ELSE SyncRest

LiveNext ==
  /\ UNCHANGED part
  /\ \/ part = "downloads" /\ Next /\ UNCHANGED <<throttleVars, syncVars>>
     \/ part = "bandwidth" /\ ThrottleNext /\ UNCHANGED <<vars, syncVars>>
     \/ part = "sources" /\ SyncNext /\ UNCHANGED <<vars, throttleVars>>

\* Each part has the fairness it has alone: Fairness and ServersAnswer of
\* DownloadManager, ThrottleFairness and SyncFairness.
LiveFairness ==
  /\ WF_vars(part = "downloads" /\ DispatcherStep)
  /\ SF_vars(part = "downloads" /\ DispatchExit)
  /\ WF_vars(part = "downloads" /\ StopClose)
  /\ \A w \in Workers : /\ WF_vars(part = "downloads" /\ RunStep(w))
                        /\ WF_vars(part = "downloads" /\ Probe(w))
                        /\ WF_vars(part = "downloads" /\ Fetch(w))
  /\ \A r \in Readers : WF_throttleVars(part = "bandwidth" /\ ReaderStep(r))
  /\ WF_throttleVars(part = "bandwidth" /\ TimePasses)
  /\ \A j \in SyncIds : WF_syncVars(part = "sources" /\ SyncVersions(j))

LiveSpec == LiveInit /\ [][LiveNext]_liveVars /\ LiveFairness

\* The types of the parts, and what they say of the queue, of a bucket and of
\* the row of a sync job.
LiveTypeOK == /\ part = "downloads" => TypeOK
              /\ part = "bandwidth" => ThrottleTypeOK
              /\ part = "sources" => SyncTypeOK
=============================================================================
