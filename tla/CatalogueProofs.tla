-------------------------- MODULE CatalogueProofs --------------------------
(***************************************************************************)
(* Proofs about the deletion of a distribution (DistributionDeletion), for *)
(* any number of distributions, owners and requests served at a time.      *)
(* With the artifact cache and the discovery of versions, which have their *)
(* proofs in ArtifactCacheProofs and SyncProofs, they give the types of    *)
(* CatalogueMC.                                                            *)
(***************************************************************************)
EXTENDS CatalogueMC, ArtifactCacheProofs, SyncProofs

-----------------------------------------------------------------------------
(***************************************************************************)
(* The deletion of a distribution.                                         *)
(***************************************************************************)

\* The requests about a distribution that the server serves,
Operations == {"delete", "download", "build", "clear", "flush", "update"}
\* and the steps of a deletion.
DeletionSteps == {"files", "fetches", "builds", "sources", "row", "refused"}
Requests == [op : Operations \cup {"none"}, d : Distributions \cup {NoRequest.d},
             step : DeletionSteps \cup {"idle", "loaded"}, todo : SUBSET Kinds, raced : BOOLEAN]

\* A request is for a distribution that was created, and only a deletion that
\* has listed files has some left to delete.
RequestsOK ==
  /\ request \in [Handlers -> Requests]
  /\ excused \in [Distributions -> SUBSET Kinds]
  /\ \A h \in Handlers :
       /\ request[h].step # "idle" => /\ request[h].d \in Distributions
                                      /\ dist[request[h].d] # "new"
       /\ request[h].todo # {} => request[h].op = "delete" /\ request[h].step = "files"

\* A deletion of d has listed its files.
Listed(d, h) == request[h].op = "delete" /\ request[h].d = d /\ request[h].step \in DeletionSteps

\* Every file of a distribution that is deleted, or whose files are listed, is
\* excused or still to be deleted by a request for it.
NoneForgotten ==
  \A d \in Distributions :
    dist[d] = "gone" \/ (\E h \in Handlers : Listed(d, h)) =>
      \A f \in files[d] : f \in excused[d] \/ \E h \in Handlers : request[h].d = d /\ f \in request[h].todo

\* A deletion that has deleted the builds finds none, unless one was submitted
\* since.
BuildsDeleted ==
  \A h \in Handlers :
    /\ request[h].op = "delete" /\ request[h].step \in {"sources", "row"}
         => request[h].raced \/ request[h].d \notin builds
    /\ request[h].op = "delete" /\ request[h].step = "refused"
         => request[h].raced \/ dist[request[h].d] = "gone"

DeletionInv == DeletionTypeOK /\ RequestsOK /\ NoneForgotten /\ BuildsDeleted

\* Nothing is there at the start.
LEMMA DeletionStart == DeletionInit => DeletionInv
  <1> SUFFICES ASSUME DeletionInit PROVE DeletionInv
    OBVIOUS
  <1>1. NoRequest \in Requests /\ NoRequest.op = "none" /\ NoRequest.step = "idle" /\ NoRequest.todo = {}
    BY DEF NoRequest, Requests, Operations
  <1>2. DeletionTypeOK
    BY DEF DeletionInit, DeletionTypeOK
  <1>3. RequestsOK
    BY <1>1 DEF DeletionInit, RequestsOK
  <1>4. NoneForgotten
    BY DEF DeletionInit, NoneForgotten
  <1>5. BuildsDeleted
    BY <1>1 DEF DeletionInit, BuildsDeleted
  <1> QED
    BY <1>2, <1>3, <1>4, <1>5 DEF DeletionInv

\* A deletion that raced a build is otherwise the same request.
LEMMA StaysRequest ==
  ASSUME NEW r \in Requests
  PROVE  LET late == [r EXCEPT !.raced = TRUE]
         IN late \in Requests /\ late.d = r.d /\ late.op = r.op /\ late.step = r.step /\ late.todo = r.todo
  BY DEF Requests

\* Every step keeps the types and what requests are for.
LEMMA TypesKept == DeletionInv /\ [DeletionNext]_deletionVars => (DeletionTypeOK /\ RequestsOK)'
  <1> SUFFICES ASSUME DeletionTypeOK, RequestsOK, [DeletionNext]_deletionVars
               PROVE  (DeletionTypeOK /\ RequestsOK)'
    BY DEF DeletionInv
  <1> USE DEF DeletionTypeOK, RequestsOK
  <1>0. NoRequest \in Requests /\ NoRequest.op = "none" /\ NoRequest.step = "idle" /\ NoRequest.todo = {}
    BY DEF NoRequest, Requests, Operations
  <1>1. ASSUME NEW d \in Distributions, CreateDistribution(d) PROVE (DeletionTypeOK /\ RequestsOK)'
    BY <1>1 DEF CreateDistribution, Kinds
  <1>2. ASSUME NEW d \in Distributions, WorkerBegins(d) PROVE (DeletionTypeOK /\ RequestsOK)'
    BY <1>2 DEF WorkerBegins, Kinds
  <1>3. ASSUME NEW d \in Distributions, NEW f \in Kinds, StoreFile(d, f) PROVE (DeletionTypeOK /\ RequestsOK)'
    BY <1>3 DEF StoreFile
  <1>4. ASSUME NEW h \in Handlers, NEW d \in Distributions, BeginRequest(h, d)
        PROVE (DeletionTypeOK /\ RequestsOK)'
    <2>1. PICK op \in Operations :
            request' = [request EXCEPT ![h] = [NoRequest EXCEPT !.op = op, !.d = d, !.step = "loaded"]]
      BY <1>4 DEF BeginRequest, Operations
    <2> DEFINE asked == [NoRequest EXCEPT !.op = op, !.d = d, !.step = "loaded"]
    <2>2. asked \in Requests /\ asked.d = d /\ asked.todo = {}
      BY <1>0 DEF Requests
    <2>3. dist[d] = "there" /\ UNCHANGED <<dist, files, fetches, builds, userSources, writes, excused>>
      BY <1>4 DEF BeginRequest
    <2> HIDE DEF asked
    <2>4. request' = [request EXCEPT ![h] = asked]
      BY <2>1 DEF asked
    <2> QED
      BY <2>2, <2>3, <2>4
  <1>5. ASSUME NEW h \in Handlers, StartFetches(h) PROVE (DeletionTypeOK /\ RequestsOK)'
    BY <1>0, <1>5 DEF StartFetches, Answered, AtStep
  <1>6. ASSUME NEW h \in Handlers, SubmitRequest(h) PROVE (DeletionTypeOK /\ RequestsOK)'
    <2> DEFINE late(g) == [request[g] EXCEPT !.raced = TRUE]
    <2>1. \A g \in Handlers : /\ late(g) \in Requests /\ late(g).d = request[g].d /\ late(g).op = request[g].op
                              /\ late(g).step = request[g].step /\ late(g).todo = request[g].todo
      BY StaysRequest
    <2>2. /\ request' = [g \in Handlers |-> IF g = h THEN NoRequest
                                            ELSE IF g \in Overtaken(request[h].d) THEN late(g) ELSE request[g]]
          /\ UNCHANGED <<dist, files, fetches, userSources, writes, excused>>
          /\ request[h].step = "loaded"
          /\ builds' = IF dist[request[h].d] = "there" THEN builds \cup {request[h].d} ELSE builds
      BY <1>6 DEF SubmitRequest, AtStep
    <2> HIDE DEF late
    <2>3. RequestsOK'
      BY <1>0, <2>1, <2>2
    <2>4. DeletionTypeOK'
      BY <2>2
    <2> QED
      BY <2>3, <2>4
  <1>7. ASSUME NEW h \in Handlers, ClearBuilds(h) PROVE (DeletionTypeOK /\ RequestsOK)'
    BY <1>0, <1>7 DEF ClearBuilds, Answered
  <1>8. ASSUME NEW h \in Handlers, FlushFetches(h) PROVE (DeletionTypeOK /\ RequestsOK)'
    BY <1>0, <1>8 DEF FlushFetches, Answered
  <1>9. ASSUME NEW h \in Handlers, UpdateDistribution(h) PROVE (DeletionTypeOK /\ RequestsOK)'
    BY <1>0, <1>9 DEF UpdateDistribution, Answered, AtStep, Kinds
  <1>10. ASSUME NEW h \in Handlers, ListFiles(h) PROVE (DeletionTypeOK /\ RequestsOK)'
    <2>1. /\ request[h].op = "delete" /\ request[h].step = "loaded" /\ request[h].todo = {}
          /\ request[h].d \in Distributions /\ dist[request[h].d] # "new" /\ files[request[h].d] \in SUBSET Kinds
          /\ UNCHANGED <<dist, files, fetches, builds, userSources, writes>>
      BY <1>10 DEF ListFiles, AtStep
    <2>2. excused' \in [Distributions -> SUBSET Kinds]
      BY <1>10, <2>1 DEF ListFiles
    <2>3. CASE request' = [request EXCEPT ![h].step = "files", ![h].todo = files[request[h].d]]
      <3>1. request[h] \in Requests /\ request'[h] = [request[h] EXCEPT !.step = "files", !.todo = files[request[h].d]]
        BY <2>3
      <3>2. \A i \in Handlers : i # h => request'[i] = request[i]
        BY <2>3
      <3>3. request' = [i \in Handlers |-> request'[i]]
        BY <2>3
      <3>4. /\ request'[h] \in Requests /\ request'[h].step = "files"
            /\ request'[h].op = "delete" /\ request'[h].d = request[h].d
        <4> DEFINE r == request[h]
                   S == files[r.d]
                   q == request'[h]
        <4>1. r \in Requests /\ S \in SUBSET Kinds /\ q = [r EXCEPT !.step = "files", !.todo = S] /\ r.op = "delete"
          BY <2>1, <3>1
        <4> HIDE DEF r, S, q
        <4>2. q \in Requests /\ q.step = "files" /\ q.op = "delete" /\ q.d = r.d
          BY <4>1 DEF Requests, DeletionSteps
        <4> QED
          BY <4>2 DEF q, r
      <3> QED
        BY <2>1, <2>2, <3>2, <3>3, <3>4
    <2>4. CASE StepTo(h, "fetches")
      BY <2>1, <2>2, <2>4 DEF StepTo, Requests, DeletionSteps
    <2> QED
      BY <1>10, <2>3, <2>4 DEF ListFiles
  <1>11. ASSUME NEW h \in Handlers, DeleteFile(h) PROVE (DeletionTypeOK /\ RequestsOK)'
    BY <1>11 DEF DeleteFile, AtStep, Requests
  <1>12. ASSUME NEW h \in Handlers, FilesDeleted(h) PROVE (DeletionTypeOK /\ RequestsOK)'
    BY <1>12 DEF FilesDeleted, AtStep, StepTo, Requests, DeletionSteps
  <1>13. ASSUME NEW h \in Handlers, DeleteFetches(h) PROVE (DeletionTypeOK /\ RequestsOK)'
    BY <1>13 DEF DeleteFetches, AtStep, StepTo, Requests, DeletionSteps
  <1>14. ASSUME NEW h \in Handlers, DeleteBuilds(h) PROVE (DeletionTypeOK /\ RequestsOK)'
    BY <1>14 DEF DeleteBuilds, AtStep, StepTo, Requests, DeletionSteps
  <1>15. ASSUME NEW h \in Handlers, DeleteSources(h) PROVE (DeletionTypeOK /\ RequestsOK)'
    BY <1>15 DEF DeleteSources, AtStep, StepTo, Requests, DeletionSteps
  <1>16. ASSUME NEW h \in Handlers, DeleteRow(h) PROVE (DeletionTypeOK /\ RequestsOK)'
    BY <1>0, <1>16 DEF DeleteRow, AtStep, StepTo, Answered, Requests, DeletionSteps
  <1>17. ASSUME NEW h \in Handlers, Refuse(h) PROVE (DeletionTypeOK /\ RequestsOK)'
    BY <1>0, <1>17 DEF Refuse, Answered
  <1>18. ASSUME UNCHANGED deletionVars PROVE (DeletionTypeOK /\ RequestsOK)'
    BY <1>18 DEF deletionVars
  <1> QED
    BY <1>1, <1>2, <1>3, <1>4, <1>5, <1>6, <1>7, <1>8, <1>9, <1>10, <1>11, <1>12, <1>13, <1>14, <1>15, <1>16,
       <1>17, <1>18 DEF DeletionNext, DeletionStep

\* Every step keeps what is left of a distribution excused or listed.
LEMMA FilesKept == DeletionInv /\ [DeletionNext]_deletionVars => NoneForgotten'
  <1> SUFFICES ASSUME DeletionTypeOK, RequestsOK, NoneForgotten, [DeletionNext]_deletionVars
               PROVE  NoneForgotten'
    BY DEF DeletionInv
  <1> USE DEF RequestsOK
  <1>0. NoRequest.op = "none" /\ NoRequest.step = "idle" /\ NoRequest.todo = {}
    BY DEF NoRequest
  <1>1. ASSUME NEW d \in Distributions, CreateDistribution(d) PROVE NoneForgotten'
    BY <1>1 DEF CreateDistribution, NoneForgotten, Listed, DeletionTypeOK
  <1>2. ASSUME NEW d \in Distributions, WorkerBegins(d) PROVE NoneForgotten'
    BY <1>2 DEF WorkerBegins, NoneForgotten, Listed
  <1>3. ASSUME NEW d \in Distributions, NEW f \in Kinds, StoreFile(d, f) PROVE NoneForgotten'
    BY <1>3 DEF StoreFile, NoneForgotten, Listed, DeletionTypeOK
  <1>4. ASSUME NEW h \in Handlers, NEW d \in Distributions, BeginRequest(h, d) PROVE NoneForgotten'
    <2>1. /\ request[h].step = "idle" /\ request[h].todo = {}
          /\ \A g \in Handlers \ {h} : request'[g] = request[g]
          /\ request'[h].step = "loaded"
          /\ UNCHANGED <<dist, files, excused>>
      BY <1>4 DEF BeginRequest, NoRequest
    <2> QED
      BY <2>1 DEF NoneForgotten, Listed, DeletionSteps
  <1>5. ASSUME NEW h \in Handlers, Answered(h), request[h].todo = {}, UNCHANGED <<dist, files, excused>>
        PROVE  NoneForgotten'
    BY <1>0, <1>5 DEF Answered, NoneForgotten, Listed
  <1>6. ASSUME NEW h \in Handlers,
               StartFetches(h) \/ ClearBuilds(h) \/ FlushFetches(h) \/ UpdateDistribution(h) \/ Refuse(h)
        PROVE  NoneForgotten'
    BY <1>5, <1>6 DEF StartFetches, ClearBuilds, FlushFetches, UpdateDistribution, Refuse, AtStep
  <1>7. ASSUME NEW h \in Handlers, SubmitRequest(h) PROVE NoneForgotten'
    <2>1. /\ request[h].todo = {} /\ request'[h] = NoRequest
          /\ \A g \in Handlers \ {h} : /\ request'[g].d = request[g].d /\ request'[g].op = request[g].op
                                        /\ request'[g].step = request[g].step /\ request'[g].todo = request[g].todo
          /\ UNCHANGED <<dist, files, excused>>
      BY <1>7 DEF SubmitRequest, AtStep, Requests
    <2> QED
      BY <1>0, <2>1 DEF NoneForgotten, Listed
  <1>8. ASSUME NEW h \in Handlers, ListFiles(h) PROVE NoneForgotten'
    <2> DEFINE d == request[h].d
    <2>1. /\ d \in Distributions /\ request[h].todo = {}
          /\ \A g \in Handlers \ {h} : request'[g] = request[g]
          /\ \A e \in Distributions \ {d} : excused'[e] = excused[e]
          /\ UNCHANGED <<dist, files>>
          /\ request'[h].d = d /\ request[h].op = "delete" /\ request'[h].op = "delete"
          /\ excused'[d] = files[d] \/ request'[h].todo = files[d]
      BY <1>8 DEF ListFiles, AtStep, StepTo, Requests
    <2> SUFFICES ASSUME NEW e \in Distributions, dist'[e] = "gone" \/ (\E g \in Handlers : Listed(e, g)'),
                        NEW f \in files'[e]
                 PROVE  f \in excused'[e] \/ \E g \in Handlers : request'[g].d = e /\ f \in request'[g].todo
      BY DEF NoneForgotten
    <2>2. CASE e = d
      BY <2>1, <2>2
    <2>3. CASE e # d
      BY <2>1, <2>3 DEF NoneForgotten, Listed
    <2> QED
      BY <2>2, <2>3
  <1>9. ASSUME NEW h \in Handlers, DeleteFile(h) PROVE NoneForgotten'
    <2> DEFINE d == request[h].d
    <2>1. PICK k \in request[h].todo :
            /\ request' = [request EXCEPT ![h].todo = @ \ {k}]
            /\ \/ files' = [files EXCEPT ![d] = @ \ {k}] /\ UNCHANGED excused
               \/ excused' = [excused EXCEPT ![d] = @ \cup {k}] /\ UNCHANGED files
      BY <1>9 DEF DeleteFile
    <2>2. /\ d \in Distributions /\ UNCHANGED dist
          /\ \A g \in Handlers \ {h} : request'[g] = request[g]
          /\ request'[h].d = d /\ request'[h].op = request[h].op /\ request'[h].step = request[h].step
          /\ request'[h].todo = request[h].todo \ {k}
          /\ \A e \in Distributions : files'[e] \subseteq files[e] /\ excused[e] \subseteq excused'[e]
          /\ k \notin files'[d] \/ k \in excused'[d]
      BY <1>9, <2>1 DEF DeleteFile, AtStep, Requests, DeletionTypeOK
    <2> QED
      BY <2>2 DEF NoneForgotten, Listed
  <1>10. ASSUME NEW h \in Handlers, NEW s \in DeletionSteps, StepTo(h, s), request[h].step \in DeletionSteps,
                UNCHANGED <<dist, files, excused>>
         PROVE  NoneForgotten'
    <2>1. /\ \A g \in Handlers : /\ request'[g].d = request[g].d /\ request'[g].op = request[g].op
                                  /\ request'[g].todo = request[g].todo
          /\ \A g \in Handlers \ {h} : request'[g].step = request[g].step
      BY <1>10 DEF StepTo, Requests
    <2> QED
      BY <1>10, <2>1 DEF NoneForgotten, Listed
  <1>11. ASSUME NEW h \in Handlers, FilesDeleted(h) \/ DeleteFetches(h) \/ DeleteBuilds(h) \/ DeleteSources(h)
         PROVE  NoneForgotten'
    BY <1>10, <1>11 DEF FilesDeleted, DeleteFetches, DeleteBuilds, DeleteSources, AtStep, DeletionSteps
  <1>12. ASSUME NEW h \in Handlers, DeleteRow(h) PROVE NoneForgotten'
    <2> DEFINE d == request[h].d
    <2>1. request[h].op = "delete" /\ request[h].step = "row" /\ request[h].todo = {} /\ d \in Distributions
      BY <1>12 DEF DeleteRow, AtStep
    <2>2. CASE dist[d] = "there" /\ d \notin builds
      <3>1. /\ dist' = [dist EXCEPT ![d] = "gone"] /\ Answered(h) /\ UNCHANGED <<files, excused>>
        BY <1>12, <2>2 DEF DeleteRow
      <3>2. Listed(d, h)
        BY <2>1 DEF Listed, DeletionSteps
      <3> QED
        BY <1>0, <2>1, <3>1, <3>2 DEF Answered, NoneForgotten, Listed, DeletionTypeOK
    <2>3. CASE ~(dist[d] = "there" /\ d \notin builds)
      BY <1>10, <1>12, <2>1, <2>3 DEF DeleteRow, DeletionSteps
    <2> QED
      BY <2>2, <2>3
  <1>13. ASSUME UNCHANGED deletionVars PROVE NoneForgotten'
    BY <1>13 DEF deletionVars, NoneForgotten, Listed
  <1> QED
    BY <1>1, <1>2, <1>3, <1>4, <1>6, <1>7, <1>8, <1>9, <1>11, <1>12, <1>13 DEF DeletionNext, DeletionStep

\* Every step keeps a deletion that has deleted the builds without one, or raced.
LEMMA BuildsKept == DeletionInv /\ [DeletionNext]_deletionVars => BuildsDeleted'
  <1> SUFFICES ASSUME DeletionTypeOK, RequestsOK, BuildsDeleted, [DeletionNext]_deletionVars
               PROVE  BuildsDeleted'
    BY DEF DeletionInv
  <1> USE DEF RequestsOK
  <1>0. NoRequest.op = "none" /\ NoRequest.step = "idle"
    BY DEF NoRequest
  <1>1. ASSUME NEW d \in Distributions, CreateDistribution(d) PROVE BuildsDeleted'
    BY <1>1 DEF CreateDistribution, BuildsDeleted, DeletionTypeOK
  <1>2. ASSUME UNCHANGED <<dist, builds, request>> PROVE BuildsDeleted'
    BY <1>2 DEF BuildsDeleted
  <1>3. ASSUME NEW d \in Distributions, WorkerBegins(d) PROVE BuildsDeleted'
    BY <1>2, <1>3 DEF WorkerBegins
  <1>4. ASSUME NEW d \in Distributions, NEW f \in Kinds, StoreFile(d, f) PROVE BuildsDeleted'
    BY <1>2, <1>4 DEF StoreFile
  <1>5. ASSUME NEW h \in Handlers, UNCHANGED dist, builds' \subseteq builds,
               \A g \in Handlers \ {h} : request'[g] = request[g],
               request'[h].op # "delete" \/ request'[h].step \notin {"sources", "row", "refused"}
        PROVE  BuildsDeleted'
    BY <1>5 DEF BuildsDeleted
  <1>6. ASSUME NEW h \in Handlers, NEW d \in Distributions, BeginRequest(h, d) PROVE BuildsDeleted'
    <2>1. UNCHANGED <<dist, builds>> /\ request'[h].step = "loaded"
          /\ \A g \in Handlers \ {h} : request'[g] = request[g]
      BY <1>6 DEF BeginRequest, NoRequest
    <2> QED
      BY <1>5, <2>1
  <1>7. ASSUME NEW h \in Handlers, Answered(h), UNCHANGED dist, builds' \subseteq builds PROVE BuildsDeleted'
    BY <1>0, <1>5, <1>7 DEF Answered
  <1>8. ASSUME NEW h \in Handlers,
               StartFetches(h) \/ ClearBuilds(h) \/ FlushFetches(h) \/ UpdateDistribution(h) \/ Refuse(h)
        PROVE  BuildsDeleted'
    BY <1>7, <1>8 DEF StartFetches, ClearBuilds, FlushFetches, UpdateDistribution, Refuse
  <1>9. ASSUME NEW h \in Handlers, SubmitRequest(h) PROVE BuildsDeleted'
    <2> DEFINE d == request[h].d
    <2>1. /\ request'[h] = NoRequest /\ UNCHANGED dist /\ builds' \subseteq builds \cup {d}
          /\ \A g \in Handlers \ {h} :
               /\ request'[g].op = request[g].op /\ request'[g].d = request[g].d
               /\ request'[g].step = request[g].step
               /\ request[g].raced \/ g \in Overtaken(d) => request'[g].raced
      BY <1>9 DEF SubmitRequest, Requests
    <2>2. \A g \in Handlers : request[g].op = "delete" /\ request[g].d = d /\ request[g].step \in {"sources", "row"}
                              => g \in Overtaken(d)
      BY DEF Overtaken
    <2> QED
      BY <1>0, <2>1, <2>2 DEF BuildsDeleted
  <1>10. ASSUME NEW h \in Handlers, ListFiles(h) PROVE BuildsDeleted'
    BY <1>5, <1>10 DEF ListFiles, StepTo, Requests
  <1>11. ASSUME NEW h \in Handlers, DeleteFile(h) PROVE BuildsDeleted'
    BY <1>5, <1>11 DEF DeleteFile, AtStep, Requests
  <1>12. ASSUME NEW h \in Handlers, FilesDeleted(h) \/ DeleteFetches(h) PROVE BuildsDeleted'
    BY <1>5, <1>12 DEF FilesDeleted, DeleteFetches, StepTo, Requests
  <1>13. ASSUME NEW h \in Handlers, DeleteBuilds(h) PROVE BuildsDeleted'
    <2>1. /\ UNCHANGED dist /\ builds' = builds \ {request[h].d} /\ request'[h].d = request[h].d
          /\ request'[h].step = "sources"
          /\ \A g \in Handlers \ {h} : request'[g] = request[g]
      BY <1>13 DEF DeleteBuilds, StepTo, Requests
    <2> QED
      BY <2>1 DEF BuildsDeleted
  <1>14. ASSUME NEW h \in Handlers, DeleteSources(h) PROVE BuildsDeleted'
    <2>1. /\ UNCHANGED <<dist, builds>> /\ request'[h].d = request[h].d /\ request'[h].step = "row"
          /\ request[h].op = "delete" /\ request[h].step = "sources" /\ request'[h].raced = request[h].raced
          /\ \A g \in Handlers \ {h} : request'[g] = request[g]
      BY <1>14 DEF DeleteSources, AtStep, StepTo, Requests
    <2> QED
      BY <2>1 DEF BuildsDeleted
  <1>15. ASSUME NEW h \in Handlers, DeleteRow(h) PROVE BuildsDeleted'
    <2> DEFINE d == request[h].d
    <2>1. request[h].op = "delete" /\ request[h].step = "row" /\ d \in Distributions /\ UNCHANGED builds
          /\ dist[d] \in {"there", "gone"}
      BY <1>15 DEF DeleteRow, AtStep, DeletionTypeOK
    <2>2. CASE dist[d] = "there" /\ d \notin builds
      <3>1. dist' = [dist EXCEPT ![d] = "gone"] /\ Answered(h)
        BY <1>15, <2>2 DEF DeleteRow
      <3>2. \A e \in Distributions : dist[e] = "gone" => dist'[e] = "gone"
        BY <3>1 DEF DeletionTypeOK
      <3>3. /\ request'[h] = NoRequest
            /\ \A g \in Handlers \ {h} : request'[g] = request[g]
        BY <3>1 DEF Answered
      <3> QED
        BY <1>0, <2>1, <3>2, <3>3 DEF BuildsDeleted
    <2>3. CASE ~(dist[d] = "there" /\ d \notin builds)
      <3>1. /\ UNCHANGED dist /\ request'[h].d = d /\ request'[h].step = "refused"
            /\ request'[h].raced = request[h].raced
            /\ \A g \in Handlers \ {h} : request'[g] = request[g]
        BY <1>15, <2>3 DEF DeleteRow, StepTo, Requests
      <3> QED
        BY <2>1, <2>3, <3>1 DEF BuildsDeleted
    <2> QED
      BY <2>2, <2>3
  <1>16. ASSUME UNCHANGED deletionVars PROVE BuildsDeleted'
    BY <1>2, <1>16 DEF deletionVars
  <1> QED
    BY <1>1, <1>3, <1>4, <1>6, <1>8, <1>9, <1>10, <1>11, <1>12, <1>13, <1>14, <1>15, <1>16
       DEF DeletionNext, DeletionStep

\* The invariant holds for ever.
LEMMA DeletionInvariant == DeletionSpec => []DeletionInv
  <1>1. DeletionInv /\ [DeletionNext]_deletionVars => DeletionInv'
    BY TypesKept, FilesKept, BuildsKept DEF DeletionInv
  <1> QED
    BY DeletionStart, <1>1, PTL DEF DeletionSpec

\* Builds and downloads have the distribution they are for.
THEOREM RowsHaveDistributions == DeletionSpec => []DeletionTypeOK
  BY DeletionInvariant, PTL DEF DeletionInv

\* What is left of a deleted distribution is excused, or on the list of a deletion.
THEOREM DeletionForgetsNothing == DeletionSpec => []NothingForgotten
  <1>1. DeletionInv => NothingForgotten
    BY DEF DeletionInv, NoneForgotten, NothingForgotten, DeletionTypeOK
  <1> QED
    BY DeletionInvariant, <1>1, PTL

\* A deletion is refused at its end only for a build that came in meanwhile, or
\* because another deletion was faster.
THEOREM RefusedForABuildOnly == DeletionSpec => []RefusedForABuild
  <1>1. DeletionInv => RefusedForABuild
    BY DEF DeletionInv, BuildsDeleted, RefusedForABuild, AtStep
  <1> QED
    BY DeletionInvariant, <1>1, PTL

-----------------------------------------------------------------------------
(***************************************************************************)
(* The three parts together.                                               *)
(***************************************************************************)

\* The state in which the cache of CatalogueMC begins.
LEMMA DownloadedStart ==
  ASSUME NEW k \in DistKeys, Downloaded(k)
  PROVE  CacheInv
  <1> USE DEF Downloaded
  <1> DEFINE a == k[2]
             row == [id |-> 1, art |-> k[2]]
  <1>1. a \in Artifacts /\ k \in Keys
    BY KeyFacts
  <1>2. 1 \in Files
    <2>1. IsFiniteSet(Dists \cup {Shared})
      BY SpaceAssumption, FS_AddElement
    <2>2. IsFiniteSet(Keys)
      BY <2>1, SpaceAssumption, FS_Product DEF Keys
    <2>3. Cardinality(Keys) \in Nat /\ Cardinality(Keys) # 0 /\ Cardinality(Procs) \in Nat
      BY <1>1, <2>2, ProcsAssumption, FS_CardinalityType, FS_EmptySet
    <2> QED
      BY <2>3 DEF Files
  <1>3. 1 \in Ids
    <2>1. /\ Cardinality(Artifacts) \in Nat /\ Cardinality(Artifacts) # 0
          /\ Cardinality(Procs) \in Nat
      BY <1>1, SpaceAssumption, ProcsAssumption, FS_CardinalityType, FS_EmptySet
    <2> QED
      BY <2>1 DEF Ids
  <1>4. row \in EntryType
    BY <1>1, <1>3 DEF EntryType
  <1> HIDE DEF row
  <1>5. entries = <<row>>
    BY DEF row
  <1>6. /\ entries \in Seq(EntryType) /\ DOMAIN entries = {1} /\ entries[1] = row
    <2> HIDE DEF Downloaded
    <2> QED
      BY <1>4, <1>5
  <1> HIDE DEF Downloaded
  <1>7. ToSet(entries) = {row} /\ TableOK
    BY <1>6 DEF ToSet, TableOK, Distinct
  <1>8. NoLoc \in LocType
    BY NoLocType
  <1>9. TypesOK
    <2>1. file \in [Keys -> Files \cup {NoFile}]
      BY <1>2 DEF Downloaded
    <2>2. 0 \in 0..MaxBegun
      BY SizeAssumption
    <2> QED
      BY <1>1, <1>2, <1>8, <2>1, <2>2 DEF Downloaded, TypesOK, Steps
  <1>10. UniqueOK
    BY <1>7 DEF UniqueOK
  <1>11. \A b \in Artifacts : Matches(b)
    <2> SUFFICES ASSUME NEW b \in Artifacts PROVE (file[Cached(b)] # NoFile) <=> (Entry(b) # {})
      BY DEF Matches
    <2>1. Cached(b) \in Keys /\ Cached(b) # k /\ (Cached(b) = Cached(a) <=> a = b)
      BY <1>1, KeyFacts
    <2>2. file[Cached(b)] # NoFile <=> a = b
      <3>1. file[Cached(b)] = IF a = b THEN 1 ELSE NoFile
        BY <2>1 DEF Downloaded
      <3> QED
        BY <3>1 DEF NoFile
    <2>3. row.art = a
      BY DEF row
    <2>4. Entry(b) = {r \in {row} : r.art = b}
      BY <1>7 DEF Entry
    <2> HIDE DEF a
    <2>5. Entry(b) # {} <=> a = b
      BY <2>3, <2>4
    <2> QED
      BY <2>2, <2>5
  <1>12. ASSUME NEW p \in Procs
         PROVE  LocalsOK(p) /\ LockOK(p) /\ BatchOK(p) /\ LookupOK(p) /\ StoreOK(p)
    <2>1. pc[p] = "idle" /\ loc[p] = NoLoc /\ mutex # p
      BY ProcsAssumption DEF Downloaded
    <2>2. LocalsOK(p)
      BY <2>1 DEF LocalsOK, NoLoc
    <2>3. LockOK(p)
      BY <2>1 DEF LockOK, Storing
    <2>4. BatchOK(p)
      BY <2>1 DEF BatchOK, NoLoc
    <2> QED
      BY <2>1, <2>2, <2>3, <2>4 DEF LookupOK, StoreOK
  <1> QED
    BY <1>7, <1>9, <1>10, <1>11, <1>12 DEF CacheInv, MatchesOK

\* A run of CatalogueMC is one of its parts.
CatalogueInv ==
  /\ part \in {"cache", "deletion", "sources"}
  /\ part = "cache" => CacheInv
  /\ part = "deletion" => DeletionInv
  /\ part = "sources" => SyncInv

\* Each part keeps its types beside the others.
THEOREM CatalogueTypes == CatalogueSpec => []CatalogueTypeOK
  <1>1. CatalogueInit => CatalogueInv
    BY DownloadedStart, DeletionStart, SyncStart DEF CatalogueInit, CatalogueInv
  <1>2. CatalogueInv /\ [CatalogueNext]_catalogueVars => CatalogueInv'
    <2> SUFFICES ASSUME CatalogueInv, [CatalogueNext]_catalogueVars PROVE CatalogueInv'
      OBVIOUS
    <2>1. part' = part
      BY DEF CatalogueNext, catalogueVars
    <2>2. part = "cache" => [Next]_vars
      BY DEF CatalogueNext, catalogueVars
    <2>3. part = "deletion" => [DeletionNext]_deletionVars
      BY DEF CatalogueNext, catalogueVars
    <2>4. part = "sources" => [SyncNext]_syncVars
      BY DEF CatalogueNext, catalogueVars
    <2>5. DeletionInv /\ [DeletionNext]_deletionVars => DeletionInv'
      BY TypesKept, FilesKept, BuildsKept DEF DeletionInv
    <2> QED
      BY <2>1, <2>2, <2>3, <2>4, <2>5, CacheStep, SyncStep DEF CatalogueInv
  <1>3. CatalogueInv => CatalogueTypeOK
    BY CacheInvTypes, SyncInvTypes DEF CatalogueInv, CatalogueTypeOK, DeletionInv
  <1> QED
    BY <1>1, <1>2, <1>3, PTL DEF CatalogueSpec
=============================================================================
