----------------------- MODULE DistributionDeletion -----------------------
(***************************************************************************)
(* The deletion of a distribution (api/distributions, HandleDelete): its   *)
(* files, the rows that belong to it, the sources of its owner and its own *)
(* row go one after the other, in statements of their own.  Meanwhile      *)
(* other requests start downloads and builds of it or clear them, and the  *)
(* workers write its files.                                                *)
(***************************************************************************)
EXTENDS FiniteSets

CONSTANTS
  Distributions, SourcesOfUsers,
  Owner,      \* the owner of each distribution and of each source
  Handlers    \* requests served at a time

VARIABLES
  dist,       \* what is known of each distribution
  files,      \* the files stored for it
  fetches,    \* distributions with rows in download_jobs
  builds,     \* distributions with rows in build_jobs
  userSources, \* the sources of users
  writes,     \* files that a worker or a request is about to store
  request,    \* the requests
  excused     \* history: files that a deletion did not list or the storage did
              \* not delete, since they were last listed

deletionVars == <<dist, files, fetches, builds, userSources, writes, request, excused>>

Kinds == {"source", "image", "config"}
NoRequest == [op |-> "none", d |-> CHOOSE d \in Distributions : TRUE, step |-> "idle",
              todo |-> {}, raced |-> FALSE]

DeletionInit ==
  /\ dist = [d \in Distributions |-> "new"]
  /\ files = [d \in Distributions |-> {}]
  /\ fetches = {} /\ builds = {} /\ writes = {}
  /\ userSources = SourcesOfUsers
  /\ request = [h \in Handlers |-> NoRequest]
  /\ excused = [d \in Distributions |-> {}]

\* The row is inserted and the kernel configuration stored.
CreateDistribution(d) ==
  /\ dist[d] = "new"
  /\ dist' = [dist EXCEPT ![d] = "there"]
  /\ writes' = writes \cup {<<d, "config">>}
  /\ UNCHANGED <<files, fetches, builds, userSources, request, excused>>

\* Every handler loads the distribution first.
BeginRequest(h, d) ==
  /\ request[h].step = "idle"
  /\ dist[d] = "there"
  /\ \E op \in {"delete", "download", "build", "clear", "flush", "update"} :
       request' = [request EXCEPT ![h] = [NoRequest EXCEPT !.op = op, !.d = d, !.step = "loaded"]]
  /\ UNCHANGED <<dist, files, fetches, builds, userSources, writes, excused>>

AtStep(h, op, step) == request[h].op = op /\ request[h].step = step
StepTo(h, step) == request' = [request EXCEPT ![h].step = step]
Answered(h) == request' = [request EXCEPT ![h] = NoRequest]

\* Requests other than a deletion, after the load.  The foreign keys refuse
\* rows without a distribution.
StartFetches(h) ==
  /\ AtStep(h, "download", "loaded")
  /\ fetches' = IF dist[request[h].d] = "there" THEN fetches \cup {request[h].d} ELSE fetches
  /\ Answered(h)
  /\ UNCHANGED <<dist, files, builds, userSources, writes, excused>>

\* A deletion that has deleted the builds does not see this one.
Overtaken(d) == {h \in Handlers : request[h].op = "delete" /\ request[h].d = d
                                  /\ request[h].step \in {"sources", "row"}}

\* Mutant: a build without a distribution.
MUT_SubmitUnchecked(h) ==
  /\ AtStep(h, "build", "loaded")
  /\ builds' = builds \cup {request[h].d}
  /\ request' = [g \in Handlers |->
                   IF g = h THEN NoRequest
                   ELSE IF g \in Overtaken(request[h].d) THEN [request[g] EXCEPT !.raced = TRUE]
                   ELSE request[g]]
  /\ UNCHANGED <<dist, files, fetches, userSources, writes, excused>>

SubmitRequest(h) ==
  /\ AtStep(h, "build", "loaded")
  /\ builds' = IF dist[request[h].d] = "there" THEN builds \cup {request[h].d} ELSE builds
  /\ request' = [g \in Handlers |->
                   IF g = h THEN NoRequest
                   ELSE IF g \in Overtaken(request[h].d) THEN [request[g] EXCEPT !.raced = TRUE]
                   ELSE request[g]]
  /\ UNCHANGED <<dist, files, fetches, userSources, writes, excused>>

ClearBuilds(h) ==
  /\ AtStep(h, "clear", "loaded")
  /\ builds' = builds \ {request[h].d}
  /\ Answered(h)
  /\ UNCHANGED <<dist, files, fetches, userSources, writes, excused>>

FlushFetches(h) ==
  /\ AtStep(h, "flush", "loaded")
  /\ fetches' = fetches \ {request[h].d}
  /\ Answered(h)
  /\ UNCHANGED <<dist, files, builds, userSources, writes, excused>>

\* HandleUpdate stores the configuration when the row could be updated.
UpdateDistribution(h) ==
  /\ AtStep(h, "update", "loaded")
  /\ writes' = IF dist[request[h].d] = "there" THEN writes \cup {<<request[h].d, "config">>} ELSE writes
  /\ Answered(h)
  /\ UNCHANGED <<dist, files, fetches, builds, userSources, excused>>

\* HandleDelete, step by step.  The storage may fail to list.
ListFiles(h) ==
  LET d == request[h].d IN
  /\ AtStep(h, "delete", "loaded")
  /\ \/ /\ request' = [request EXCEPT ![h].step = "files", ![h].todo = files[d]]
        /\ excused' = [excused EXCEPT ![d] = {}]
     \/ /\ StepTo(h, "fetches")
        /\ excused' = [excused EXCEPT ![d] = files[d]]
  /\ UNCHANGED <<dist, files, fetches, builds, userSources, writes>>

\* Mutant: the first file that cannot be deleted ends the loop.
MUT_StopAtFailure(h) ==
  LET d == request[h].d IN
  /\ AtStep(h, "delete", "files")
  /\ \E f \in request[h].todo :
       \/ /\ files' = [files EXCEPT ![d] = @ \ {f}]
          /\ request' = [request EXCEPT ![h].todo = @ \ {f}]
          /\ UNCHANGED excused
       \/ /\ excused' = [excused EXCEPT ![d] = @ \cup {f}]
          /\ request' = [request EXCEPT ![h].todo = {}]
          /\ UNCHANGED files
  /\ UNCHANGED <<dist, fetches, builds, userSources, writes>>

\* "Log error but continue with other deletions"
DeleteFile(h) ==
  LET d == request[h].d IN
  /\ AtStep(h, "delete", "files")
  /\ \E f \in request[h].todo :
       /\ request' = [request EXCEPT ![h].todo = @ \ {f}]
       /\ \/ files' = [files EXCEPT ![d] = @ \ {f}] /\ UNCHANGED excused
          \/ excused' = [excused EXCEPT ![d] = @ \cup {f}] /\ UNCHANGED files
  /\ UNCHANGED <<dist, fetches, builds, userSources, writes>>

FilesDeleted(h) ==
  /\ AtStep(h, "delete", "files")
  /\ request[h].todo = {}
  /\ StepTo(h, "fetches")
  /\ UNCHANGED <<dist, files, fetches, builds, userSources, writes, excused>>

DeleteFetches(h) ==
  /\ AtStep(h, "delete", "fetches")
  /\ fetches' = fetches \ {request[h].d}
  /\ StepTo(h, "builds")
  /\ UNCHANGED <<dist, files, builds, userSources, writes, excused>>

\* Mutant: the builds are left to the foreign key, which does not cascade.
MUT_LeaveBuilds(h) ==
  /\ AtStep(h, "delete", "builds")
  /\ StepTo(h, "sources")
  /\ UNCHANGED <<dist, files, fetches, builds, userSources, writes, excused>>

DeleteBuilds(h) ==
  /\ AtStep(h, "delete", "builds")
  /\ builds' = builds \ {request[h].d}
  /\ StepTo(h, "sources")
  /\ UNCHANGED <<dist, files, fetches, userSources, writes, excused>>

\* All sources of the owner, those his other distributions use too.
DeleteSources(h) ==
  /\ AtStep(h, "delete", "sources")
  /\ userSources' = {s \in userSources : Owner[s] # Owner[request[h].d]}
  /\ StepTo(h, "row")
  /\ UNCHANGED <<dist, files, fetches, builds, writes, excused>>

\* The foreign key of build_jobs refuses the deletion; that of download_jobs
\* deletes the rows.  A second deletion finds no row.
DeleteRow(h) ==
  LET d == request[h].d IN
  /\ AtStep(h, "delete", "row")
  /\ IF dist[d] = "there" /\ d \notin builds
     THEN /\ dist' = [dist EXCEPT ![d] = "gone"]
          /\ fetches' = fetches \ {d}
          /\ Answered(h)
     ELSE /\ StepTo(h, "refused")
          /\ UNCHANGED <<dist, fetches>>
  /\ UNCHANGED <<files, builds, userSources, writes, excused>>

Refuse(h) ==
  /\ AtStep(h, "delete", "refused")
  /\ Answered(h)
  /\ UNCHANGED <<dist, files, fetches, builds, userSources, writes, excused>>

DeletionStep(h) == ListFiles(h) \/ DeleteFile(h) \/ FilesDeleted(h) \/ DeleteFetches(h) \/ DeleteBuilds(h)
                   \/ DeleteSources(h) \/ DeleteRow(h)

\* A worker has a row, and stores a file without looking at it again.
WorkerBegins(d) ==
  /\ \E f \in {"source", "image"} :
       /\ f = "source" => d \in fetches
       /\ f = "image" => d \in builds
       /\ writes' = writes \cup {<<d, f>>}
  /\ UNCHANGED <<dist, files, fetches, builds, userSources, request, excused>>

StoreFile(d, f) ==
  /\ <<d, f>> \in writes
  /\ writes' = writes \ {<<d, f>>}
  /\ files' = [files EXCEPT ![d] = @ \cup {f}]
  /\ excused' = [excused EXCEPT ![d] = @ \cup {f}]
  /\ UNCHANGED <<dist, fetches, builds, userSources, request>>

DeletionNext ==
  \/ \E d \in Distributions : CreateDistribution(d) \/ WorkerBegins(d)
  \/ \E d \in Distributions, f \in Kinds : StoreFile(d, f)
  \/ \E h \in Handlers, d \in Distributions : BeginRequest(h, d)
  \/ \E h \in Handlers : \/ StartFetches(h) \/ SubmitRequest(h) \/ ClearBuilds(h) \/ FlushFetches(h)
                         \/ UpdateDistribution(h) \/ DeletionStep(h) \/ Refuse(h)

DeletionSpec == DeletionInit /\ [][DeletionNext]_deletionVars

(****************************** properties *******************************)
\* Builds and downloads have the distribution they are for.
DeletionTypeOK ==
  /\ dist \in [Distributions -> {"new", "there", "gone"}]
  /\ files \in [Distributions -> SUBSET Kinds]
  /\ writes \subseteq Distributions \X Kinds
  /\ userSources \subseteq SourcesOfUsers
  /\ builds \cup fetches \subseteq {d \in Distributions : dist[d] = "there"}

\* What is left of a distribution that was deleted is what the storage refused
\* to delete, or what a worker or a request stored after the deletion had
\* listed the files; no third file is forgotten (HandleDelete and
\* StorageAdapter.DeleteByDistribution), however many deletions run at a time.
NothingForgotten ==
  \A d \in Distributions :
    dist[d] = "gone" =>
      files[d] \subseteq excused[d] \cup UNION {request[h].todo : h \in Handlers}

\* A deletion is refused at its last statement, with the files and the other
\* rows gone, only when another deletion was faster or a build was submitted
\* after it had deleted the builds (HandleDelete).
RefusedForABuild ==
  \A h \in Handlers : AtStep(h, "delete", "refused") => request[h].raced \/ dist[request[h].d] = "gone"

=============================================================================
