----------------------------- MODULE SyncProofs -----------------------------
(***************************************************************************)
(* Proofs about the sources and the discovery of their versions            *)
(* (VersionSync), for any number of sources, components, callers and       *)
(* syncs: the types, that a sync is refused while the last one runs, and   *)
(* that a version is counted as new once.                                  *)
(***************************************************************************)
EXTENDS VersionSync, FiniteSetTheorems, WellFoundedInduction, TLAPS

(***************************************************************************)
(* The inductive invariant.                                                *)
(***************************************************************************)
\* A row of upstream_sources, and what the version rules need of a component.
Rows == {r \in [is : {"here"}, system : BOOLEAN, owner : Callers \cup {"system"},
                comps : SUBSET Components, default : Versions \cup {None}, enabled : BOOLEAN] :
           r.system <=> r.owner = "system"}
\* The row of a component: the rule of its versions and its default.
CompRows == [rule : Rules, default : Versions \cup {None}]

\* The tables have rows of their types.
TablesOK ==
  /\ sources \in [Sources -> Rows \cup {NotYet, Gone}]
  /\ components \in [Components -> CompRows]
  /\ versions \in [Sources -> [Versions -> Nat]]
  /\ wiped \in [Sources -> Nat]
  /\ upstream \in Versions

\* What a goroutine has in its hands at each of its steps.
GoroutineOK(r) ==
  /\ r.pc \in {"none", "start", "discover", "save", "complete", "default", "components",
               "latest", "write", "done"}
  /\ r.pc = "none" => r = NoSync
  /\ r.pc \in {"start", "discover"} => r = [pc |-> r.pc, source |-> r.source, copy |-> r.copy]
  /\ r.pc = "save" => r = [pc |-> r.pc, source |-> r.source, copy |-> r.copy, found |-> r.found]
  /\ r.pc \in {"complete", "default"} =>
       r = [pc |-> r.pc, source |-> r.source, copy |-> r.copy, found |-> r.found, new |-> r.new]
  /\ r.pc \in {"start", "discover", "save", "complete", "default"} =>
       r.source \in Sources /\ r.copy \in Rows
  /\ r.pc \in {"save", "complete", "default"} => r.found \in SUBSET Versions
  /\ r.pc \in {"complete", "default"} => r.new <= Cardinality(r.found)
  /\ r.pc = "components" => r = [pc |-> r.pc, new |-> r.new, todo |-> r.todo]
  /\ r.pc \in {"latest", "write"} =>
       /\ r = [pc |-> r.pc, new |-> r.new, todo |-> r.todo, comp |-> r.comp, row |-> r.row]
       /\ r.comp \in Components /\ r.row \in CompRows
  /\ r.pc \in {"components", "latest", "write"} => r.todo \subseteq Components
  /\ r.pc = "done" => r = [pc |-> r.pc, new |-> r.new]
  /\ r.pc \in {"complete", "default", "components", "latest", "write", "done"} => r.new \in Nat

\* The row of its job says how far it is.
StatusAt(step) ==
  IF step = "none" THEN {"none"}
  ELSE IF step = "start" THEN {"pending"}
  ELSE IF step \in {"discover", "save", "complete"} THEN {"running"}
  ELSE IF step = "done" THEN {"completed", "failed"}
  ELSE {"completed"}

\* The row of a sync job belongs to its goroutine.
JobRowOK(r, job) ==
  /\ job = [source |-> job.source, status |-> job.status, found |-> job.found, new |-> job.new]
  /\ job.found \in Nat /\ job.new \in Nat /\ job.new <= job.found
  /\ job.status \in StatusAt(r.pc)
  /\ r.pc = "none" => job = NoSyncJob
  /\ r.pc \in {"start", "discover", "save", "complete", "default"} => job.source = r.source

\* The jobs and their goroutines.
JobsOK ==
  /\ sync = [j \in SyncIds |-> sync[j]] /\ syncJobs = [j \in SyncIds |-> syncJobs[j]]
  /\ \A j \in SyncIds : GoroutineOK(sync[j]) /\ JobRowOK(sync[j], syncJobs[j])

\* A request: the jobs that were open when it came are jobs of its source, and
\* when it goes on to create a job or to delete versions none of them is open.
RequestOK(h) ==
  /\ h.op \in {"idle", "save", "sync", "clear", "job", "wipe", "component"}
  /\ h.op = "idle" => h = AtRest
  /\ h.op \in {"save", "sync", "clear", "job", "wipe"} =>
       /\ h = [op |-> h.op, source |-> h.source, copy |-> h.copy, open |-> h.open]
       /\ h.source \in Sources /\ h.copy \in Rows /\ h.open \subseteq SyncIds
  /\ h.op = "component" => /\ h = [op |-> h.op, comp |-> h.comp, row |-> h.row]
                           /\ h.comp \in Components /\ h.row \in CompRows

\* The jobs that a request found open are jobs of its source, and have ended once
\* it goes on to create a job or to delete versions.
OpenOK(h) ==
  h.op \in {"save", "sync", "clear", "job", "wipe"} =>
    \A j \in h.open : /\ syncJobs[j].source = h.source /\ syncJobs[j].status # "none"
                      /\ h.op \in {"job", "wipe"} => syncJobs[j].status \notin Unfinished

\* The sync of all sources at the start.
StartupOK(h) ==
  /\ h.op \in {"idle", "list", "next", "latest", "job"}
  /\ h.op = "idle" => h = AtRest
  /\ h.op = "list" => h = [op |-> "list"]
  /\ h.op \in {"next", "latest", "job"} =>
       /\ h = [op |-> h.op, todo |-> h.todo, rows |-> h.rows, source |-> h.source,
               copy |-> h.copy, open |-> h.open]
       /\ h.todo \subseteq Sources /\ \A s \in h.todo : h.rows[s] \in Rows
  /\ h.op \in {"latest", "job"} => h.source \in Sources /\ h.copy \in Rows

\* The requests that are served and the sync at the start.
HandlersOK ==
  /\ handler = [c \in Callers \cup {Startup} |-> handler[c]]
  /\ \A c \in Callers : RequestOK(handler[c]) /\ OpenOK(handler[c])
  /\ StartupOK(handler[Startup])

\* What is inductive.
SyncInv == TablesOK /\ JobsOK /\ HandlersOK

-----------------------------------------------------------------------------
(***************************************************************************)
(* Least and greatest elements.                                            *)
(***************************************************************************)
\* A set of natural numbers that is not empty has a least element.
LEMMA SmallestExists ==
  ASSUME NEW S \in SUBSET Nat, S # {}
  PROVE  \E x \in S : \A y \in S : x <= y
  <1>1. PICK x \in S : \A y \in S : <<y, x>> \notin OpToRel(<, Nat)
    BY NatLessThanWellFounded, WFMin
  <1>2. \A y \in S : ~(y < x)
    BY <1>1, Zenon DEF OpToRel
  <1> QED
    BY <1>2

LEMMA MinIn == ASSUME NEW S \in SUBSET Nat, S # {} PROVE Min(S) \in S
  BY SmallestExists DEF Min

\* A finite set of numbers has a greatest: the smallest set without one would be
\* what the greatest of the rest was added to.
LEMMA GreatestExists ==
  ASSUME NEW S \in SUBSET Nat, IsFiniteSet(S), S # {}
  PROVE  \E z \in S : \A y \in S : y <= z
  <1> DEFINE Bad == {T \in FiniteSubsetsOf(Nat) : T # {} /\ ~\E z \in T : \A y \in T : y <= z}
  <1>1. ASSUME Bad # {} PROVE FALSE
    <2>1. PICK T \in Bad : \A U \in Bad : <<U, T>> \notin StrictSubsetOrdering(Nat)
      <3>1. Bad \subseteq FiniteSubsetsOf(Nat)
        OBVIOUS
      <3> HIDE DEF Bad
      <3> QED
        BY <1>1, <3>1, FS_StrictSubsetOrderingWellFounded, WFMin
    <2>2. PICK x : x \in T
      OBVIOUS
    <2> DEFINE U == T \ {x}
    <2>3. T \in SUBSET Nat /\ IsFiniteSet(T) /\ x \in Nat
      BY <2>2 DEF FiniteSubsetsOf
    <2>4. U # {}
      <3>1. ASSUME U = {} PROVE FALSE
        <4>1. T = {x}
          BY <2>2, <3>1
        <4> QED
          BY <2>3, <4>1
      <3> QED
        BY <3>1
    <2>5. U \in FiniteSubsetsOf(Nat)
      BY <2>3, FS_RemoveElement DEF FiniteSubsetsOf
    <2>6. <<U, T>> \in StrictSubsetOrdering(Nat)
      BY <2>2, <2>3 DEF StrictSubsetOrdering
    <2>7. PICK z \in U : \A y \in U : y <= z
      BY <2>1, <2>4, <2>5, <2>6
    <2>8. z \in T /\ z \in Nat /\ \A y \in T : y = x \/ y <= z
      BY <2>3, <2>7
    <2>9. IF x <= z THEN \A y \in T : y <= z ELSE \A y \in T : y <= x
      BY <2>3, <2>8
    <2> QED
      BY <2>2, <2>8, <2>9
  <1>2. S \in FiniteSubsetsOf(Nat)
    BY DEF FiniteSubsetsOf
  <1> QED
    BY <1>1, <1>2

\* So Max is defined.
LEMMA MaxIn ==
  ASSUME NEW S \in SUBSET Nat, IsFiniteSet(S), S # {}
  PROVE  Max(S) \in S /\ \A y \in S : y <= Max(S)
  <1>1. PICK z \in S : \A y \in S : z >= y
    BY GreatestExists
  <1>2. Max(S) \in S /\ \A y \in S : Max(S) >= y
    BY <1>1 DEF Max
  <1> QED
    BY <1>2

\* Upstream has finitely many versions.
LEMMA VersionsFinite == IsFiniteSet(Versions) /\ Versions \subseteq Nat
  <1>1. LastVersion \in Nat /\ LastVersion \in Int /\ 1 \in Int
    BY SyncAssumption DEF SyncAssumption
  <1> QED
    BY <1>1, FS_Interval DEF Versions

\* The newest versions are versions.
LEMMA NewestIn ==
  ASSUME NEW S \in SUBSET Versions, S # {}
  PROVE  Max(S) \in Versions
  <1>1. S \in SUBSET Nat /\ IsFiniteSet(S)
    BY VersionsFinite, FS_Subset
  <1>2. Max(S) \in S
    BY <1>1, MaxIn
  <1> QED
    BY <1>2

-----------------------------------------------------------------------------
(***************************************************************************)
(* Upstream.                                                               *)
(***************************************************************************)
LEMMA DiscoveredExist ==
  ASSUME TablesOK, NEW s
  PROVE  DiscoverVersions(s) \subseteq SUBSET Versions
  <1>1. Released \subseteq Versions
    BY SyncAssumption DEF TablesOK, Released, Versions, SyncAssumption
  <1>2. Pages(Released) \subseteq SUBSET Versions
    BY <1>1 DEF Pages
  <1>3. GitHubVersions \subseteq SUBSET Versions
    BY <1>2 DEF GitHubVersions
  <1>4. KernelOrgVersions \subseteq SUBSET Versions
    BY <1>1 DEF KernelOrgVersions
  <1>5. HTTPDirectoryVersions \subseteq SUBSET Versions
    BY <1>1 DEF HTTPDirectoryVersions
  <1> QED
    BY <1>3, <1>4, <1>5 DEF DiscoverVersions

\* What FindDefault returns is a version.
LEMMA DefaultsExist ==
  ASSUME TablesOK, NEW s, NEW found \in SUBSET Versions, found # {}
  PROVE  DefaultVersions(s, found) \subseteq Versions
  <1>1. Released \subseteq Versions
    BY SyncAssumption DEF TablesOK, Released, Versions, SyncAssumption
  <1>2. FirstStable(found) \in Versions
    <2>1. found \ Candidates # {} => Max(found \ Candidates) \in Versions
      BY NewestIn
    <2>2. Max(found) \in Versions
      BY NewestIn
    <2> QED
      BY <2>1, <2>2 DEF FirstStable
  <1>3. Released \ Candidates # {} => Max(Released \ Candidates) \in Versions
    BY <1>1, NewestIn
  <1> QED
    BY <1>2, <1>3 DEF DefaultVersions

\* The values of a function on a finite set are finitely many.
LEMMA ValuesFinite ==
  ASSUME NEW S, IsFiniteSet(S), NEW f, f = [x \in S |-> f[x]], NEW T, T \subseteq {f[x] : x \in S}
  PROVE  IsFiniteSet(T)
  <1> DEFINE R == {f[x] : x \in S}
  <1>1. f \in Surjection(S, R)
    BY DEF Surjection
  <1>2. IsFiniteSet(R)
    BY <1>1, FS_Surjection
  <1> QED
    BY <1>2, FS_Subset

\* The times at which versions were discovered are finitely many,
LEMMA TimesFinite ==
  ASSUME TablesOK
  PROVE  /\ IsFiniteSet(Sources \X Versions)
         /\ IsFiniteSet({versions[s][v] : s \in Sources, v \in Versions})
         /\ {versions[s][v] : s \in Sources, v \in Versions} \subseteq Nat
  <1> DEFINE S == Sources \X Versions
             f == [r \in S |-> versions[r[1]][r[2]]]
             T == {versions[s][v] : s \in Sources, v \in Versions}
  <1>1. IsFiniteSet(S)
    BY VersionsFinite, FS_Product, SyncAssumption DEF SyncAssumption
  <1>2. T \subseteq {f[r] : r \in S}
    <2> SUFFICES ASSUME NEW s \in Sources, NEW v \in Versions PROVE versions[s][v] \in {f[r] : r \in S}
      OBVIOUS
    <2>1. <<s, v>> \in S /\ f[<<s, v>>] = versions[s][v]
      OBVIOUS
    <2> HIDE DEF f, S
    <2> QED
      BY <2>1
  <1>3. f = [r \in S |-> f[r]]
    OBVIOUS
  <1> HIDE DEF f, S
  <1>4. IsFiniteSet(T)
    BY <1>1, <1>2, <1>3, ValuesFinite
  <1>5. T \subseteq Nat
    BY DEF TablesOK
  <1> QED
    BY <1>1, <1>4, <1>5 DEF S

\* so that there is a time after all of them.
LEMMA NowIsLater == ASSUME TablesOK PROVE Now \in Nat \ {None}
  <1> DEFINE T == {versions[s][v] : s \in Sources, v \in Versions}
  <1>1. IsFiniteSet({None} \cup T) /\ {None} \cup T \in SUBSET Nat
    <2>1. IsFiniteSet(T) /\ T \subseteq Nat
      BY TimesFinite
    <2> HIDE DEF T
    <2>2. IsFiniteSet(T \cup {None})
      BY <2>1, FS_AddElement
    <2>3. T \cup {None} = {None} \cup T
      OBVIOUS
    <2> QED
      BY <2>1, <2>2, <2>3 DEF None
  <1>2. Max({None} \cup T) \in Nat
    <2> HIDE DEF T
    <2> QED
      BY <1>1, MaxIn
  <1> QED
    BY <1>2 DEF Now, None

\* Of the versions there are for a component one is the latest.
LEMMA LatestExists ==
  ASSUME TablesOK, NEW k, NEW type
  PROVE  LatestVersion(k, type) \in Versions \cup {None}
  <1> DEFINE listed == {r \in Sources \X Versions :
                       /\ Here(r[1]) /\ k \in sources[r[1]].comps
                       /\ versions[r[1]][r[2]] # None /\ VersionType(r[1], r[2]) = type}
             time(r) == versions[r[1]][r[2]]
             Above(q, r) == \/ versions[q[1]][q[2]] > versions[r[1]][r[2]]
                            \/ /\ versions[q[1]][q[2]] = versions[r[1]][r[2]]
                               /\ Text[q[2]] > Text[r[2]]
  <1>1. LatestVersion(k, type) =
          IF listed = {} THEN None ELSE (CHOOSE r \in listed : \A q \in listed : ~Above(q, r))[2]
    BY DEF LatestVersion
  <1>2. \A r \in listed : r \in Sources \X Versions /\ r[2] \in Versions /\ time(r) \in Nat /\ Text[r[2]] \in Nat
    BY SyncAssumption DEF TablesOK, SyncAssumption
  <1>3. \A r \in listed : time(r) \in {versions[s][v] : s \in Sources, v \in Versions}
    OBVIOUS
  <1> HIDE DEF listed
  <1>4. ASSUME listed # {} PROVE \E r \in listed : \A q \in listed : ~Above(q, r)
    <2> DEFINE T == {time(r) : r \in listed}
    <2>1. T \in SUBSET Nat /\ IsFiniteSet(T) /\ T # {}
      BY <1>2, <1>3, <1>4, TimesFinite, FS_Subset
    <2>2. PICK t \in T : \A u \in T : u <= t
      BY <2>1, GreatestExists
    <2> DEFINE last == {r \in listed : time(r) = t}
               N == {Text[r[2]] : r \in last}
    <2>3. N \in SUBSET Nat /\ N # {}
      BY <1>2
    <2>4. IsFiniteSet(N)
      <3>1. Text = [v \in Versions |-> Text[v]]
        BY SyncAssumption DEF SyncAssumption
      <3>2. N \subseteq {Text[v] : v \in Versions}
        BY <1>2
      <3>3. IsFiniteSet(Versions)
        BY VersionsFinite
      <3> HIDE DEF N
      <3> QED
        BY <3>1, <3>2, <3>3, ValuesFinite
    <2>5. PICK n \in N : \A m \in N : m <= n
      BY <2>3, <2>4, GreatestExists
    <2>6. PICK r \in last : n = Text[r[2]]
      BY <2>5
    <2>7. ASSUME NEW q \in listed, Above(q, r) PROVE FALSE
      <3>1. time(q) <= time(r)
        BY <2>2, <2>6
      <3>2. time(q) = time(r) => Text[q[2]] <= Text[r[2]]
        BY <2>5, <2>6
      <3> QED
        BY <1>2, <2>6, <2>7, <3>1, <3>2
    <2> QED
      BY <2>6, <2>7
  <1>5. listed # {} => (CHOOSE r \in listed : \A q \in listed : ~Above(q, r)) \in listed
    BY <1>4
  <1> QED
    BY <1>1, <1>2, <1>5

-----------------------------------------------------------------------------
(***************************************************************************)
(* The goroutines.                                                         *)
(***************************************************************************)
\* A goroutine goes on, and its job with it.
LEMMA GoroutineMoves ==
  ASSUME JobsOK, NEW j \in SyncIds, NEW STATE r, NEW STATE job,
         sync' = [sync EXCEPT ![j] = r], syncJobs' = [syncJobs EXCEPT ![j] = job],
         GoroutineOK(r), JobRowOK(r, job)
  PROVE  JobsOK'
  <1>1. /\ sync' = [i \in SyncIds |-> sync'[i]] /\ syncJobs' = [i \in SyncIds |-> syncJobs'[i]]
        /\ sync'[j] = r /\ syncJobs'[j] = job
        /\ \A i \in SyncIds : i # j => sync'[i] = sync[i] /\ syncJobs'[i] = syncJobs[i]
    BY DEF JobsOK
  <1>2. ASSUME NEW i \in SyncIds PROVE GoroutineOK(sync'[i]) /\ JobRowOK(sync'[i], syncJobs'[i])
    BY <1>1 DEF JobsOK
  <1> QED
    BY <1>1, <1>2 DEF JobsOK

\* Jobs keep their sources, and one that is over is not opened again.
JobsGoOn ==
  \A j \in SyncIds : syncJobs[j].status # "none" =>
    /\ syncJobs'[j].source = syncJobs[j].source /\ syncJobs'[j].status # "none"
    /\ syncJobs[j].status \notin Unfinished => syncJobs'[j].status \notin Unfinished

\* A goroutine does not change what a request has in its hands.
LEMMA RequestsWait ==
  ASSUME HandlersOK, handler' = handler, JobsGoOn
  PROVE  HandlersOK'
  <1>1. ASSUME NEW c \in Callers PROVE OpenOK(handler[c])'
    <2>1. RequestOK(handler[c]) /\ OpenOK(handler[c])
      BY DEF HandlersOK
    <2>2. handler[c].op \in {"save", "sync", "clear", "job", "wipe"} => handler[c].open \subseteq SyncIds
      BY <2>1 DEF RequestOK
    <2> QED
      BY <2>1, <2>2 DEF OpenOK, JobsGoOn
  <1> QED
    BY <1>1 DEF HandlersOK

\* A step of one job keeps the source of the job and does not open it again.
LEMMA OneJobGoesOn ==
  ASSUME JobsOK, NEW j \in SyncIds, NEW STATE job, syncJobs' = [syncJobs EXCEPT ![j] = job],
         syncJobs[j].status # "none" =>
           /\ job.source = syncJobs[j].source /\ job.status # "none"
           /\ syncJobs[j].status \notin Unfinished => job.status \notin Unfinished
  PROVE  JobsGoOn
  BY DEF JobsOK, JobsGoOn

\* The job is running.
LEMMA MarkRunningKeeps ==
  ASSUME SyncInv, NEW j \in SyncIds, MarkRunning(j)
  PROVE  SyncInv'
  <1> DEFINE r == [sync[j] EXCEPT !.pc = "discover"]
             job == [syncJobs[j] EXCEPT !.status = "running"]
  <1>1. /\ sync[j].pc = "start" /\ sync' = [sync EXCEPT ![j] = r] /\ syncJobs' = [syncJobs EXCEPT ![j] = job]
        /\ UNCHANGED <<sources, components, versions, handler, upstream, wiped>>
    BY DEF MarkRunning, Go
  <1>2. GoroutineOK(sync[j]) /\ JobRowOK(sync[j], syncJobs[j]) /\ JobsOK
    BY DEF SyncInv, JobsOK
  <1>3. /\ sync[j] = [pc |-> sync[j].pc, source |-> sync[j].source, copy |-> sync[j].copy]
        /\ sync[j].source \in Sources /\ sync[j].copy \in Rows
    BY <1>1, <1>2 DEF GoroutineOK
  <1>4. r = [pc |-> "discover", source |-> sync[j].source, copy |-> sync[j].copy]
    BY <1>3
  <1>5. GoroutineOK(r)
    BY <1>3, <1>4 DEF GoroutineOK
  <1>6. job = [source |-> syncJobs[j].source, status |-> "running", found |-> syncJobs[j].found,
               new |-> syncJobs[j].new]
    BY <1>2 DEF JobRowOK
  <1>7. JobRowOK(r, job)
    BY <1>1, <1>2, <1>4, <1>6 DEF JobRowOK, StatusAt
  <1>8. syncJobs[j].status = "pending"
    BY <1>1, <1>2 DEF JobRowOK, StatusAt
  <1> HIDE DEF r, job
  <1>9. JobsOK'
    BY <1>1, <1>2, <1>5, <1>7, GoroutineMoves
  <1>10. JobsGoOn
    BY <1>1, <1>2, <1>6, <1>8, OneJobGoesOn DEF Unfinished
  <1> QED
    BY <1>1, <1>9, <1>10, RequestsWait DEF SyncInv, TablesOK

\* A step of a goroutine that leaves its job as it is.
LEMMA SameJob ==
  ASSUME SyncInv, NEW j \in SyncIds, NEW STATE r, sync' = [sync EXCEPT ![j] = r],
         GoroutineOK(r), JobRowOK(r, syncJobs[j]), UNCHANGED <<syncJobs, handler>>
  PROVE  JobsOK' /\ HandlersOK'
  <1>1. JobsOK /\ HandlersOK /\ syncJobs = [i \in SyncIds |-> syncJobs[i]]
    BY DEF SyncInv, JobsOK
  <1>2. syncJobs' = [syncJobs EXCEPT ![j] = syncJobs[j]]
    BY <1>1
  <1>3. JobsOK'
    BY <1>1, <1>2, GoroutineMoves
  <1>4. JobsGoOn
    BY DEF JobsGoOn
  <1> QED
    BY <1>1, <1>3, <1>4, RequestsWait

\* What the upstream lists.
LEMMA DiscoverKeeps ==
  ASSUME SyncInv, NEW j \in SyncIds, Discover(j)
  PROVE  SyncInv'
  <1>1. /\ sync[j].pc = "discover"
        /\ UNCHANGED <<sources, components, versions, syncJobs, handler, upstream, wiped>>
    BY DEF Discover
  <1>2. PICK found \in DiscoverVersions(sync[j].source) :
          sync' = [sync EXCEPT ![j] = [pc |-> "save", source |-> sync[j].source, copy |-> sync[j].copy,
                                       found |-> found]]
    BY DEF Discover
  <1> DEFINE r == [pc |-> "save", source |-> sync[j].source, copy |-> sync[j].copy, found |-> found]
  <1>3. GoroutineOK(sync[j]) /\ JobRowOK(sync[j], syncJobs[j]) /\ TablesOK
    BY DEF SyncInv, JobsOK
  <1>4. found \in SUBSET Versions
    BY <1>3, DiscoveredExist
  <1>5. GoroutineOK(r)
    BY <1>1, <1>3, <1>4 DEF GoroutineOK
  <1>6. JobRowOK(r, syncJobs[j])
    BY <1>1, <1>3 DEF JobRowOK, StatusAt
  <1>7. JobsOK' /\ HandlersOK'
    BY <1>1, <1>2, <1>5, <1>6, SameJob
  <1> QED
    BY <1>1, <1>3, <1>7 DEF SyncInv, TablesOK

\* The upstream does not answer.
LEMMA FailKeeps ==
  ASSUME SyncInv, NEW j \in SyncIds, Fail(j)
  PROVE  SyncInv'
  <1> DEFINE r == [pc |-> "done", new |-> 0]
             job == [syncJobs[j] EXCEPT !.status = "failed"]
  <1>1. /\ sync[j].pc \in {"discover", "save"}
        /\ sync' = [sync EXCEPT ![j] = r] /\ syncJobs' = [syncJobs EXCEPT ![j] = job]
        /\ UNCHANGED <<sources, components, versions, handler, upstream, wiped>>
    BY DEF Fail
  <1>2. GoroutineOK(sync[j]) /\ JobRowOK(sync[j], syncJobs[j]) /\ JobsOK
    BY DEF SyncInv, JobsOK
  <1>3. GoroutineOK(r)
    BY DEF GoroutineOK
  <1>4. job = [source |-> syncJobs[j].source, status |-> "failed", found |-> syncJobs[j].found,
               new |-> syncJobs[j].new]
    BY <1>2 DEF JobRowOK
  <1>5. JobRowOK(r, job)
    BY <1>1, <1>2, <1>4 DEF JobRowOK, StatusAt
  <1> HIDE DEF r, job
  <1>6. JobsOK'
    BY <1>1, <1>2, <1>3, <1>5, GoroutineMoves
  <1>7. JobsGoOn
    BY <1>1, <1>2, <1>4, OneJobGoesOn DEF Unfinished
  <1> QED
    BY <1>1, <1>6, <1>7, RequestsWait DEF SyncInv, TablesOK

\* At most all that was found is new.
LEMMA NewAreFinite ==
  ASSUME NEW s \in Sources, NEW found \in SUBSET Versions
  PROVE  /\ IsFiniteSet(found) /\ IsFiniteSet(NewVersions(s, found)) /\ IsFiniteSet(Stored(s))
         /\ Cardinality(found) \in Nat /\ Cardinality(NewVersions(s, found)) \in Nat
         /\ Cardinality(Stored(s)) \in Nat
         /\ Cardinality(NewVersions(s, found)) <= Cardinality(found)
  <1>1. IsFiniteSet(found) /\ NewVersions(s, found) \subseteq found
    BY VersionsFinite, FS_Subset DEF NewVersions
  <1>2. IsFiniteSet(NewVersions(s, found)) /\ Cardinality(NewVersions(s, found)) <= Cardinality(found)
    BY <1>1, FS_Subset
  <1>3. Stored(s) \subseteq Versions
    BY DEF Stored
  <1>4. IsFiniteSet(Stored(s))
    BY <1>3, VersionsFinite, FS_Subset
  <1> QED
    BY <1>1, <1>2, <1>4, FS_CardinalityType

\* The versions are stored and those that were new counted.
LEMMA BulkUpsertKeeps ==
  ASSUME SyncInv, NEW j \in SyncIds, BulkUpsert(j)
  PROVE  SyncInv'
  <1> DEFINE s == sync[j].source
             found == sync[j].found
             n == Cardinality(NewVersions(s, found))
             r == [pc |-> "complete", source |-> s, copy |-> sync[j].copy, found |-> found, new |-> n]
             row == [v \in Versions |-> IF v \in NewVersions(s, found) THEN Now ELSE versions[s][v]]
  <1>1. /\ sync[j].pc = "save" /\ sync' = [sync EXCEPT ![j] = r]
        /\ UNCHANGED <<sources, components, syncJobs, handler, upstream, wiped>>
    BY DEF BulkUpsert
  <1>2. versions' = [versions EXCEPT ![s] = row]
    BY DEF BulkUpsert
  <1>3. GoroutineOK(sync[j]) /\ JobRowOK(sync[j], syncJobs[j]) /\ TablesOK
    BY DEF SyncInv, JobsOK
  <1>4. s \in Sources /\ sync[j].copy \in Rows /\ found \in SUBSET Versions
    BY <1>1, <1>3 DEF GoroutineOK
  <1>5. n \in Nat /\ n <= Cardinality(found)
    BY <1>4, NewAreFinite
  <1>6. GoroutineOK(r)
    <2> HIDE DEF n
    <2> QED
      BY <1>4, <1>5 DEF GoroutineOK
  <1>7. JobRowOK(r, syncJobs[j])
    BY <1>1, <1>3 DEF JobRowOK, StatusAt
  <1>8. JobsOK' /\ HandlersOK'
    <2> HIDE DEF r
    <2> QED
      BY <1>1, <1>6, <1>7, SameJob
  <1>9. row \in [Versions -> Nat]
    BY <1>3, <1>4, NowIsLater DEF TablesOK
  <1>10. versions' \in [Sources -> [Versions -> Nat]]
    <2> HIDE DEF row, s
    <2> QED
      BY <1>2, <1>3, <1>9 DEF TablesOK
  <1> QED
    BY <1>1, <1>3, <1>8, <1>10 DEF SyncInv, TablesOK

\* The job has ended with its counts.
LEMMA SyncCompletedKeeps ==
  ASSUME SyncInv, NEW j \in SyncIds, SyncCompleted(j)
  PROVE  SyncInv'
  <1> DEFINE r == [sync[j] EXCEPT !.pc = "default"]
             n == Cardinality(sync[j].found)
             job == [source |-> syncJobs[j].source, status |-> "completed", found |-> n, new |-> sync[j].new]
  <1>1. /\ sync[j].pc = "complete" /\ sync' = [sync EXCEPT ![j] = r] /\ syncJobs' = [syncJobs EXCEPT ![j] = job]
        /\ UNCHANGED <<sources, components, versions, handler, upstream, wiped>>
    BY DEF SyncCompleted, Go
  <1>2. GoroutineOK(sync[j]) /\ JobRowOK(sync[j], syncJobs[j]) /\ JobsOK
    BY DEF SyncInv, JobsOK
  <1>3. /\ sync[j] = [pc |-> sync[j].pc, source |-> sync[j].source, copy |-> sync[j].copy,
                      found |-> sync[j].found, new |-> sync[j].new]
        /\ sync[j].source \in Sources /\ sync[j].copy \in Rows /\ sync[j].found \in SUBSET Versions
        /\ sync[j].new <= n /\ sync[j].new \in Nat
    BY <1>1, <1>2 DEF GoroutineOK
  <1>4. n \in Nat
    BY <1>3, NewAreFinite
  <1> HIDE DEF n
  <1>5. r = [pc |-> "default", source |-> sync[j].source, copy |-> sync[j].copy,
             found |-> sync[j].found, new |-> sync[j].new]
    BY <1>3
  <1>6. GoroutineOK(r)
    BY <1>3, <1>5 DEF GoroutineOK, n
  <1>7. job.source = syncJobs[j].source /\ job.status = "completed"
    OBVIOUS
  <1>8. JobRowOK(r, job)
    BY <1>1, <1>2, <1>3, <1>4, <1>5 DEF JobRowOK, StatusAt
  <1> HIDE DEF r, job
  <1>9. JobsOK'
    BY <1>1, <1>2, <1>6, <1>8, GoroutineMoves
  <1>10. JobsGoOn
    BY <1>1, <1>2, <1>7, OneJobGoesOn DEF Unfinished
  <1> QED
    BY <1>1, <1>9, <1>10, RequestsWait DEF SyncInv, TablesOK

\* The default of the source.
LEMMA SetDefaultKeeps ==
  ASSUME SyncInv, NEW j \in SyncIds, SetDefault(j)
  PROVE  SyncInv'
  <1> DEFINE s == sync[j].source
             old == sync[j].copy
             r == [pc |-> "components", new |-> sync[j].new, todo |-> sync[j].copy.comps]
             defaults == IF old.default = None /\ sync[j].found # {}
                        THEN DefaultVersions(s, sync[j].found) ELSE {old.default}
  <1>1. /\ sync[j].pc = "default" /\ sync' = [sync EXCEPT ![j] = r]
        /\ UNCHANGED <<components, versions, syncJobs, handler, upstream, wiped>>
    BY DEF SetDefault
  <1>2. PICK d \in defaults :
          sources' = IF d # old.default /\ Here(s) THEN [sources EXCEPT ![s] = [old EXCEPT !.default = d]]
                     ELSE sources
    BY DEF SetDefault
  <1>3. GoroutineOK(sync[j]) /\ JobRowOK(sync[j], syncJobs[j]) /\ TablesOK
    BY DEF SyncInv, JobsOK
  <1>4. s \in Sources /\ old \in Rows /\ sync[j].found \in SUBSET Versions /\ sync[j].new \in Nat
    BY <1>1, <1>3 DEF GoroutineOK
  <1>5. old.comps \subseteq Components /\ old.default \in Versions \cup {None}
    BY <1>4 DEF Rows
  <1>6. d \in Versions \cup {None}
    BY <1>3, <1>4, <1>5, DefaultsExist
  <1> HIDE DEF defaults
  <1>7. [old EXCEPT !.default = d] \in Rows
    BY <1>4, <1>6 DEF Rows
  <1>8. sources' \in [Sources -> Rows \cup {NotYet, Gone}]
    <2> HIDE DEF s, old
    <2> QED
      BY <1>2, <1>3, <1>7 DEF TablesOK
  <1>9. GoroutineOK(r)
    BY <1>4, <1>5 DEF GoroutineOK
  <1>10. JobRowOK(r, syncJobs[j])
    BY <1>1, <1>3 DEF JobRowOK, StatusAt
  <1>11. JobsOK' /\ HandlersOK'
    <2> HIDE DEF r
    <2> QED
      BY <1>1, <1>9, <1>10, SameJob
  <1> QED
    BY <1>1, <1>3, <1>8, <1>11 DEF SyncInv, TablesOK

\* A component of the source is read,
LEMMA ReadComponentKeeps ==
  ASSUME SyncInv, NEW j \in SyncIds, NEW k \in Components, ReadComponent(j, k)
  PROVE  SyncInv'
  <1> DEFINE todo == sync[j].todo \ {k}
             skip == [pc |-> "components", new |-> sync[j].new, todo |-> todo]
             read == [pc |-> "latest", new |-> sync[j].new, todo |-> todo, comp |-> k, row |-> components[k]]
             r == IF components[k].rule = "pinned" THEN skip ELSE read
  <1>1. /\ sync[j].pc = "components" /\ sync' = [sync EXCEPT ![j] = r]
        /\ UNCHANGED <<sources, components, versions, syncJobs, handler, upstream, wiped>>
    <2>1. CASE components[k].rule = "pinned"
      BY <2>1 DEF ReadComponent
    <2>2. CASE components[k].rule # "pinned"
      BY <2>2 DEF ReadComponent
    <2> QED
      BY <2>1, <2>2
  <1>2. GoroutineOK(sync[j]) /\ JobRowOK(sync[j], syncJobs[j]) /\ TablesOK
    BY DEF SyncInv, JobsOK
  <1>3. /\ sync[j] = [pc |-> "components", new |-> sync[j].new, todo |-> sync[j].todo]
        /\ sync[j].new \in Nat /\ sync[j].todo \subseteq Components
    BY <1>1, <1>2 DEF GoroutineOK
  <1>5. GoroutineOK(skip)
    BY <1>3 DEF GoroutineOK
  <1>6. GoroutineOK(read)
    <2>1. components[k] \in CompRows
      BY <1>2 DEF TablesOK
    <2> QED
      BY <1>3, <2>1 DEF GoroutineOK
  <1>7. r.pc \in {"components", "latest"}
    OBVIOUS
  <1> HIDE DEF skip, read
  <1>8. GoroutineOK(r)
    BY <1>5, <1>6
  <1> HIDE DEF r
  <1>9. JobRowOK(r, syncJobs[j])
    BY <1>1, <1>2, <1>7 DEF JobRowOK, StatusAt
  <1>10. JobsOK' /\ HandlersOK'
    BY <1>1, <1>8, <1>9, SameJob
  <1> QED
    BY <1>1, <1>2, <1>10 DEF SyncInv, TablesOK

\* its default found
LEMMA ResolveLatestKeeps ==
  ASSUME SyncInv, NEW j \in SyncIds, ResolveLatest(j)
  PROVE  SyncInv'
  <1> DEFINE v == LatestVersion(sync[j].comp, TypeOf(sync[j].row.rule))
             row == [rule |-> sync[j].row.rule, default |-> v]
             write == [pc |-> "write", new |-> sync[j].new, todo |-> sync[j].todo, comp |-> sync[j].comp, row |-> row]
             r == IF v \in {None, sync[j].row.default} THEN Done(sync[j]) ELSE write
  <1>1. /\ sync[j].pc = "latest" /\ sync' = [sync EXCEPT ![j] = r]
        /\ UNCHANGED <<sources, components, versions, syncJobs, handler, upstream, wiped>>
    BY DEF ResolveLatest
  <1>2. GoroutineOK(sync[j]) /\ JobRowOK(sync[j], syncJobs[j]) /\ TablesOK
    BY DEF SyncInv, JobsOK
  <1>3. /\ sync[j] = [pc |-> "latest", new |-> sync[j].new, todo |-> sync[j].todo, comp |-> sync[j].comp,
                      row |-> sync[j].row]
        /\ sync[j].new \in Nat /\ sync[j].todo \subseteq Components
        /\ sync[j].comp \in Components /\ sync[j].row \in CompRows
    BY <1>1, <1>2 DEF GoroutineOK
  <1>4. v \in Versions \cup {None}
    BY <1>2, LatestExists
  <1> HIDE DEF v
  <1>5. row \in CompRows
    BY <1>3, <1>4 DEF CompRows
  <1> HIDE DEF row
  <1>7. GoroutineOK(write)
    BY <1>3, <1>5 DEF GoroutineOK
  <1>8. GoroutineOK(Done(sync[j])) /\ Done(sync[j]).pc = "components"
    BY <1>3 DEF GoroutineOK, Done
  <1>9. write.pc = "write"
    OBVIOUS
  <1> HIDE DEF write
  <1>10. GoroutineOK(r) /\ r.pc \in {"components", "write"}
    BY <1>7, <1>8, <1>9
  <1> HIDE DEF r
  <1>11. JobRowOK(r, syncJobs[j])
    BY <1>1, <1>2, <1>10 DEF JobRowOK, StatusAt
  <1>12. JobsOK' /\ HandlersOK'
    BY <1>1, <1>10, <1>11, SameJob
  <1> QED
    BY <1>1, <1>2, <1>12 DEF SyncInv, TablesOK

\* and written.
LEMMA WriteComponentKeeps ==
  ASSUME SyncInv, NEW j \in SyncIds, WriteComponent(j)
  PROVE  SyncInv'
  <1> DEFINE r == Done(sync[j])
  <1>1. /\ sync[j].pc = "write" /\ sync' = [sync EXCEPT ![j] = r]
        /\ components' = [components EXCEPT ![sync[j].comp] = sync[j].row]
        /\ UNCHANGED <<sources, versions, syncJobs, handler, upstream, wiped>>
    BY DEF WriteComponent
  <1>2. GoroutineOK(sync[j]) /\ JobRowOK(sync[j], syncJobs[j]) /\ TablesOK
    BY DEF SyncInv, JobsOK
  <1>3. /\ sync[j].new \in Nat /\ sync[j].todo \subseteq Components
        /\ sync[j].comp \in Components /\ sync[j].row \in CompRows
    BY <1>1, <1>2 DEF GoroutineOK
  <1>4. GoroutineOK(r) /\ r.pc = "components"
    BY <1>3 DEF GoroutineOK, Done
  <1> HIDE DEF r
  <1>5. JobRowOK(r, syncJobs[j])
    BY <1>1, <1>2, <1>4 DEF JobRowOK, StatusAt
  <1>6. JobsOK' /\ HandlersOK'
    BY <1>1, <1>4, <1>5, SameJob
  <1>7. components' \in [Components -> CompRows]
    BY <1>1, <1>2, <1>3 DEF TablesOK
  <1> QED
    BY <1>1, <1>2, <1>6, <1>7 DEF SyncInv, TablesOK

\* The goroutine has nothing left to do.
LEMMA FinishKeeps ==
  ASSUME SyncInv, NEW j \in SyncIds, Finish(j)
  PROVE  SyncInv'
  <1> DEFINE r == [pc |-> "done", new |-> sync[j].new]
  <1>1. /\ sync[j].pc = "components" /\ sync' = [sync EXCEPT ![j] = r]
        /\ UNCHANGED <<sources, components, versions, syncJobs, handler, upstream, wiped>>
    BY DEF Finish
  <1>2. GoroutineOK(sync[j]) /\ JobRowOK(sync[j], syncJobs[j]) /\ TablesOK
    BY DEF SyncInv, JobsOK
  <1>3. sync[j].new \in Nat
    BY <1>1, <1>2 DEF GoroutineOK
  <1>4. GoroutineOK(r) /\ r.pc = "done"
    BY <1>3 DEF GoroutineOK
  <1> HIDE DEF r
  <1>5. JobRowOK(r, syncJobs[j])
    BY <1>1, <1>2, <1>4 DEF JobRowOK, StatusAt
  <1>6. JobsOK' /\ HandlersOK'
    BY <1>1, <1>4, <1>5, SameJob
  <1> QED
    BY <1>1, <1>2, <1>6 DEF SyncInv, TablesOK

-----------------------------------------------------------------------------
(***************************************************************************)
(* Requests, and the sync at the start.                                    *)
(***************************************************************************)
LEMMA RequestMoves ==
  ASSUME HandlersOK, NEW c \in Callers, NEW STATE h, handler' = [handler EXCEPT ![c] = h],
         RequestOK(h), OpenOK(h), syncJobs' = syncJobs
  PROVE  HandlersOK'
  <1>1. c # Startup
    BY SyncAssumption DEF SyncAssumption
  <1>2. /\ handler' = [d \in Callers \cup {Startup} |-> handler'[d]]
        /\ handler'[c] = h /\ \A d \in Callers \cup {Startup} : d # c => handler'[d] = handler[d]
    BY DEF HandlersOK
  <1>3. ASSUME NEW d \in Callers PROVE RequestOK(handler'[d]) /\ OpenOK(handler[d])'
    <2>1. CASE d = c
      <3>1. OpenOK(h) /\ handler'[d] = h
        BY <1>2, <2>1
      <3> QED
        BY <3>1 DEF OpenOK
    <2>2. CASE d # c
      <3>1. OpenOK(handler[d]) /\ RequestOK(handler[d]) /\ handler'[d] = handler[d]
        BY <1>2, <2>2 DEF HandlersOK
      <3> QED
        BY <3>1 DEF OpenOK
    <2> QED
      BY <2>1, <2>2
  <1> QED
    BY <1>1, <1>2, <1>3 DEF HandlersOK

\* A request is answered after a job was created.
LEMMA CallerRests ==
  ASSUME HandlersOK, NEW c \in Callers, handler' = [handler EXCEPT ![c] = AtRest], JobsGoOn
  PROVE  HandlersOK'
  <1>1. c # Startup
    BY SyncAssumption DEF SyncAssumption
  <1>2. /\ handler' = [d \in Callers \cup {Startup} |-> handler'[d]]
        /\ handler'[c] = AtRest /\ \A d \in Callers \cup {Startup} : d # c => handler'[d] = handler[d]
    BY DEF HandlersOK
  <1>3. ASSUME NEW d \in Callers PROVE RequestOK(handler'[d]) /\ OpenOK(handler[d])'
    <2>1. CASE d = c
      <3>1. RequestOK(AtRest) /\ handler'[d] = AtRest
        BY <1>2, <2>1 DEF RequestOK, AtRest
      <3> QED
        BY <3>1 DEF OpenOK, AtRest
    <2>2. CASE d # c
      <3>1. OpenOK(handler[d]) /\ RequestOK(handler[d]) /\ handler'[d] = handler[d]
        BY <1>2, <2>2 DEF HandlersOK
      <3>2. handler[d].op \in {"save", "sync", "clear", "job", "wipe"} => handler[d].open \subseteq SyncIds
        BY <3>1 DEF RequestOK
      <3> QED
        BY <3>1, <3>2 DEF OpenOK, JobsGoOn
    <2> QED
      BY <2>1, <2>2
  <1> QED
    BY <1>1, <1>2, <1>3 DEF HandlersOK

\* The sync at the start moves alone.
LEMMA StartupMoves ==
  ASSUME HandlersOK, NEW STATE h, handler' = [handler EXCEPT ![Startup] = h], StartupOK(h),
         JobsGoOn
  PROVE  HandlersOK'
  <1>1. Startup \notin Callers
    BY SyncAssumption DEF SyncAssumption
  <1>2. /\ handler' = [d \in Callers \cup {Startup} |-> handler'[d]]
        /\ handler'[Startup] = h /\ \A d \in Callers : handler'[d] = handler[d]
    BY <1>1 DEF HandlersOK
  <1>3. ASSUME NEW d \in Callers PROVE RequestOK(handler'[d]) /\ OpenOK(handler[d])'
    <2>1. OpenOK(handler[d]) /\ RequestOK(handler[d]) /\ handler'[d] = handler[d]
      BY <1>2 DEF HandlersOK
    <2>2. handler[d].op \in {"save", "sync", "clear", "job", "wipe"} => handler[d].open \subseteq SyncIds
      BY <2>1 DEF RequestOK
    <2> QED
      BY <2>1, <2>2 DEF OpenOK, JobsGoOn
  <1> QED
    BY <1>2, <1>3 DEF HandlersOK

\* A new source.
LEMMA CreateSourceKeeps ==
  ASSUME SyncInv, NEW c \in Callers, NEW s \in Sources, NEW system \in BOOLEAN,
         NEW owner \in Callers \cup {"system"}, system <=> owner = "system",
         CreateSource(c, s, system, owner)
  PROVE  SyncInv'
  <1>1. PICK comps \in SUBSET Components, enabled \in BOOLEAN :
          /\ sources' = [sources EXCEPT ![s] = Source(system, owner, comps, None, enabled)]
          /\ handler' = [handler EXCEPT ![c] =
                [op |-> "job", source |-> s, copy |-> Source(system, owner, comps, None, enabled), open |-> {}]]
    BY DEF CreateSource
  <1> DEFINE row == Source(system, owner, comps, None, enabled)
             h == [op |-> "job", source |-> s, copy |-> row, open |-> {}]
  <1>2. row \in Rows
    BY DEF Source, Rows
  <1>3. UNCHANGED <<components, versions, syncJobs, sync, upstream, wiped>>
    BY DEF CreateSource, Quiet
  <1> HIDE DEF row
  <1>4. RequestOK(h) /\ OpenOK(h)
    BY <1>2 DEF RequestOK, OpenOK
  <1> HIDE DEF h
  <1>5. HandlersOK'
    BY <1>1, <1>3, <1>4, RequestMoves DEF SyncInv, row, h
  <1>6. sources' \in [Sources -> Rows \cup {NotYet, Gone}]
    BY <1>1, <1>2 DEF SyncInv, TablesOK, row
  <1> QED
    BY <1>3, <1>5, <1>6 DEF SyncInv, TablesOK, JobsOK

\* A source that is there has a row.
LEMMA HereIsRow == ASSUME TablesOK, NEW s \in Sources, Here(s) PROVE sources[s] \in Rows
  <1>1. sources[s] \in Rows \cup {NotYet, Gone}
    BY DEF TablesOK
  <1>2. NotYet.is # "here" /\ Gone.is # "here"
    BY DEF NotYet, Gone
  <1> QED
    BY <1>1, <1>2 DEF Here

\* A request is received that reads the row of a source.
LEMMA AskKeeps ==
  ASSUME SyncInv, NEW c \in Callers, NEW s \in Sources, Here(s), NEW op \in {"save", "sync", "clear"},
         Ask(c, s, op), UNCHANGED <<sources, components, versions, syncJobs, sync, upstream, wiped>>
  PROVE  SyncInv'
  <1> DEFINE h == [op |-> op, source |-> s, copy |-> sources[s], open |-> RunningSyncJobs(s)]
  <1>1. sources[s] \in Rows
    BY HereIsRow DEF SyncInv
  <1>2. \A j \in RunningSyncJobs(s) : j \in SyncIds /\ syncJobs[j].source = s /\ syncJobs[j].status # "none"
    BY DEF RunningSyncJobs, Unfinished
  <1>3. RequestOK(h)
    BY <1>1, <1>2 DEF RequestOK
  <1>4. OpenOK(h)
    BY <1>2 DEF OpenOK
  <1>5. handler' = [handler EXCEPT ![c] = h]
    BY DEF Ask
  <1> HIDE DEF h
  <1>6. HandlersOK'
    BY <1>3, <1>4, <1>5, RequestMoves DEF SyncInv
  <1> QED
    BY <1>6 DEF SyncInv, TablesOK, JobsOK

\* A deleted source takes its versions along; the jobs go on.
LEMMA RemoveSourceKeeps ==
  ASSUME SyncInv, NEW c \in Callers, NEW s \in Sources, RemoveSource(c, s)
  PROVE  SyncInv'
  <1>1. /\ sources' = [sources EXCEPT ![s] = Gone]
        /\ UNCHANGED <<components, versions, syncJobs, sync, handler, upstream, wiped>>
    BY DEF RemoveSource, Quiet
  <1>2. sources' \in [Sources -> Rows \cup {NotYet, Gone}]
    BY <1>1 DEF SyncInv, TablesOK
  <1>3. HandlersOK'
    BY <1>1, RequestsWait DEF SyncInv, JobsGoOn
  <1> QED
    BY <1>1, <1>2, <1>3 DEF SyncInv, TablesOK, JobsOK

\* A request reads the source and the jobs that are open.
LEMMA SourceRequestKeeps ==
  ASSUME SyncInv, NEW c \in Callers, NEW s \in Sources, SourceRequest(c, s)
  PROVE  SyncInv'
  <1>1. "system" \notin Callers
    BY SyncAssumption DEF SyncAssumption
  <1>2. CASE CreateDefault(c, s)
    BY <1>2, CreateSourceKeeps DEF CreateDefault
  <1>3. CASE CreateUserSource(c, s)
    <2>1. FALSE <=> c = "system"
      BY <1>1
    <2> QED
      BY <1>3, <2>1, CreateSourceKeeps DEF CreateUserSource
  <1>4. CASE UpdateDefault(c, s) \/ UpdateUserSource(c, s) \/ UpdateSource(c, s)
    <2>1. Here(s) /\ AskUpdate(c, s)
      BY <1>4 DEF UpdateDefault, UpdateUserSource, UpdateSource, FindDefault, FindUser, Find
    <2> QED
      BY <2>1, AskKeeps DEF AskUpdate, Quiet
  <1>5. CASE DeleteDefault(c, s) \/ DeleteUserSource(c, s) \/ DeleteSource(c, s)
    BY <1>5, RemoveSourceKeeps DEF DeleteDefault, DeleteUserSource, DeleteSource
  <1>6. CASE SyncDefaultVersions(c, s) \/ SyncUserVersions(c, s) \/ Sync(c, s)
    <2>1. Here(s) /\ AskSync(c, s)
      BY <1>6 DEF SyncDefaultVersions, SyncUserVersions, Sync, FindDefault, FindUser, Find
    <2> QED
      BY <2>1, AskKeeps DEF AskSync, Quiet
  <1>7. CASE ClearDefaultVersions(c, s) \/ ClearUserVersions(c, s) \/ ClearVersions(c, s)
    <2>1. Here(s) /\ AskClear(c, s)
      BY <1>7 DEF ClearDefaultVersions, ClearUserVersions, ClearVersions, FindDefault, FindUser, Find
    <2> QED
      BY <2>1, AskKeeps DEF AskClear, Quiet
  <1> QED
    BY <1>2, <1>3, <1>4, <1>5, <1>6, <1>7 DEF SourceRequest

\* An update writes back the source that it read.
LEMMA SaveKeeps ==
  ASSUME SyncInv, NEW c \in Callers, Save(c)
  PROVE  SyncInv'
  <1> DEFINE s == handler[c].source
             old == handler[c].copy
  <1>1. /\ handler[c].op = "save" /\ handler' = [handler EXCEPT ![c] = AtRest]
        /\ UNCHANGED <<components, versions, syncJobs, sync, upstream, wiped>>
    BY DEF Save, Quiet
  <1>2. PICK row \in Edits(old) : sources' = IF Here(s) THEN [sources EXCEPT ![s] = row] ELSE sources
    BY DEF Save
  <1>3. RequestOK(handler[c]) /\ TablesOK
    BY DEF SyncInv, HandlersOK
  <1>4. s \in Sources /\ old \in Rows
    BY <1>1, <1>3 DEF RequestOK
  <1>5. row \in Rows
    <2>1. \A v \in Versions : [old EXCEPT !.default = v] \in Rows
      BY <1>4 DEF Rows
    <2>2. \A C \in SUBSET Components : [old EXCEPT !.comps = C] \in Rows
      BY <1>4 DEF Rows
    <2>3. [old EXCEPT !.enabled = ~@] \in Rows
      BY <1>4, Zenon DEF Rows
    <2> HIDE DEF old
    <2> QED
      BY <1>2, <2>1, <2>2, <2>3 DEF Edits
  <1>6. sources' \in [Sources -> Rows \cup {NotYet, Gone}]
    <2> HIDE DEF s
    <2> QED
      BY <1>2, <1>3, <1>5 DEF TablesOK
  <1>7. RequestOK(AtRest) /\ OpenOK(AtRest)
    BY DEF RequestOK, OpenOK, AtRest
  <1>8. HandlersOK'
    BY <1>1, <1>7, RequestMoves DEF SyncInv
  <1> QED
    BY <1>1, <1>3, <1>6, <1>8 DEF SyncInv, TablesOK, JobsOK

\* Only when every open job has ended the request goes on.
LEMMA CheckRunningKeeps ==
  ASSUME SyncInv, NEW c \in Callers \cup {Startup}, CheckRunning(c)
  PROVE  SyncInv'
  <1> DEFINE go == [op |-> IF handler[c].op = "sync" THEN "job" ELSE "wipe", source |-> handler[c].source,
                    copy |-> handler[c].copy, open |-> handler[c].open]
             h == IF RunningSyncJobs(handler[c].source) # {} THEN AtRest ELSE go
  <1>1. /\ handler[c].op \in {"sync", "clear"} /\ handler' = [handler EXCEPT ![c] = h]
        /\ UNCHANGED <<sources, components, versions, syncJobs, sync, upstream, wiped>>
    BY DEF CheckRunning, Quiet
  <1>2. c \in Callers
    BY <1>1 DEF SyncInv, HandlersOK, StartupOK
  <1>3. RequestOK(handler[c]) /\ OpenOK(handler[c])
    BY <1>2 DEF SyncInv, HandlersOK
  <1>4. /\ handler[c].source \in Sources /\ handler[c].copy \in Rows /\ handler[c].open \subseteq SyncIds
        /\ \A j \in handler[c].open : syncJobs[j].source = handler[c].source /\ syncJobs[j].status # "none"
    BY <1>1, <1>3 DEF RequestOK, OpenOK
  <1>5. RequestOK(AtRest) /\ OpenOK(AtRest)
    BY DEF RequestOK, OpenOK, AtRest
  <1>6. RequestOK(go)
    BY <1>4 DEF RequestOK
  <1>7. ASSUME RunningSyncJobs(handler[c].source) = {} PROVE OpenOK(go)
    <2>1. \A j \in handler[c].open : syncJobs[j].status \notin Unfinished
      BY <1>4, <1>7 DEF RunningSyncJobs
    <2> QED
      BY <1>4, <2>1 DEF OpenOK
  <1> HIDE DEF go
  <1>8. RequestOK(h) /\ OpenOK(h)
    BY <1>5, <1>6, <1>7
  <1> HIDE DEF h
  <1>9. HandlersOK'
    BY <1>1, <1>2, <1>8, RequestMoves DEF SyncInv
  <1> QED
    BY <1>1, <1>9 DEF SyncInv, TablesOK, JobsOK

\* The start goes on to the next source.
LEMMA GoOnOK ==
  ASSUME NEW h, h.todo \subseteq Sources, \A s \in h.todo : h.rows[s] \in Rows
  PROVE  StartupOK(GoOn(h))
  BY DEF StartupOK, GoOn, AtRest

\* A free job gets a row and a goroutine.
LEMMA CreateJobKeeps ==
  ASSUME SyncInv, NEW c \in Callers \cup {Startup}, CreateJob(c)
  PROVE  SyncInv'
  <1> DEFINE s == handler[c].source
             free == {j \in SyncIds : syncJobs[j] = NoSyncJob}
             j == Min(free)
             job == [source |-> s, status |-> "pending", found |-> 0, new |-> 0]
             r == [pc |-> "start", source |-> s, copy |-> handler[c].copy]
             h == IF c = Startup THEN GoOn(handler[c]) ELSE AtRest
  <1>1. /\ handler[c].op = "job" /\ free # {}
        /\ syncJobs' = [syncJobs EXCEPT ![j] = job] /\ sync' = [sync EXCEPT ![j] = r]
        /\ handler' = [handler EXCEPT ![c] = h]
        /\ UNCHANGED <<sources, components, versions, upstream, wiped>>
    BY DEF CreateJob
  <1>2. j \in free
    <2>1. free \in SUBSET Nat
      BY SyncAssumption DEF SyncIds, SyncAssumption
    <2> HIDE DEF free
    <2> QED
      BY <1>1, <2>1, MinIn
  <1>3. j \in SyncIds /\ syncJobs[j] = NoSyncJob
    BY <1>2
  <1> HIDE DEF j
  <1>4. JobsOK /\ HandlersOK
    BY DEF SyncInv
  <1>5. s \in Sources /\ handler[c].copy \in Rows
    BY <1>1, <1>4 DEF HandlersOK, RequestOK, StartupOK
  <1>6. GoroutineOK(r) /\ JobRowOK(r, job)
    BY <1>5 DEF GoroutineOK, JobRowOK, StatusAt
  <1>7. syncJobs[j].status = "none"
    BY <1>3 DEF NoSyncJob
  <1> HIDE DEF r, job
  <1>8. JobsOK'
    BY <1>1, <1>3, <1>4, <1>6, GoroutineMoves
  <1>9. JobsGoOn
    BY <1>1, <1>3, <1>4, <1>7, OneJobGoesOn
  <1>10. HandlersOK'
    <2>1. CASE c = Startup
      <3>1. StartupOK(handler[Startup])
        BY <1>4 DEF HandlersOK
      <3>2. StartupOK(GoOn(handler[Startup]))
        BY <1>1, <2>1, <3>1, GoOnOK DEF StartupOK
      <3>3. handler' = [handler EXCEPT ![Startup] = GoOn(handler[Startup])]
        BY <1>1, <2>1
      <3> QED
        BY <1>4, <1>9, <3>2, <3>3, StartupMoves
    <2>2. CASE c # Startup
      <3>1. c \in Callers /\ handler' = [handler EXCEPT ![c] = AtRest]
        BY <1>1, <2>2
      <3> QED
        BY <1>4, <1>9, <3>1, CallerRests
    <2> QED
      BY <2>1, <2>2
  <1> QED
    BY <1>1, <1>8, <1>10 DEF SyncInv, TablesOK

\* The versions of the source are deleted.
LEMMA WipeKeeps ==
  ASSUME SyncInv, NEW c \in Callers, Wipe(c)
  PROVE  SyncInv'
  <1> DEFINE s == handler[c].source
             n == Cardinality(Stored(s))
             none == [v \in Versions |-> None]
  <1>1. /\ handler[c].op = "wipe" /\ handler' = [handler EXCEPT ![c] = AtRest]
        /\ versions' = [versions EXCEPT ![s] = none] /\ wiped' = [wiped EXCEPT ![s] = wiped[s] + n]
        /\ UNCHANGED <<sources, components, syncJobs, sync, upstream>>
    BY DEF Wipe
  <1>2. RequestOK(handler[c]) /\ TablesOK
    BY DEF SyncInv, HandlersOK
  <1>3. s \in Sources
    BY <1>1, <1>2 DEF RequestOK
  <1>4. n \in Nat
    <2>1. {} \in SUBSET Versions
      OBVIOUS
    <2> QED
      BY <1>3, <2>1, NewAreFinite
  <1>5. none \in [Versions -> Nat]
    BY DEF None
  <1> HIDE DEF n, none, s
  <1>6. versions' \in [Sources -> [Versions -> Nat]] /\ wiped' \in [Sources -> Nat]
    BY <1>1, <1>2, <1>3, <1>4, <1>5 DEF TablesOK
  <1>7. RequestOK(AtRest) /\ OpenOK(AtRest)
    BY DEF RequestOK, OpenOK, AtRest
  <1>8. HandlersOK'
    BY <1>1, <1>7, RequestMoves DEF SyncInv
  <1> QED
    BY <1>1, <1>2, <1>6, <1>8 DEF SyncInv, TablesOK, JobsOK

\* Updates of a component.
LEMMA ComponentRequestsKeep ==
  ASSUME SyncInv, NEW c \in Callers, (\E k \in Components : AskComponent(c, k)) \/ SaveComponent(c)
  PROVE  SyncInv'
  <1>1. TablesOK /\ HandlersOK /\ RequestOK(handler[c])
    BY DEF SyncInv, HandlersOK
  <1>2. CASE \E k \in Components : AskComponent(c, k)
    <2>1. PICK k \in Components : AskComponent(c, k)
      BY <1>2
    <2> DEFINE h == [op |-> "component", comp |-> k, row |-> components[k]]
    <2>2. handler' = [handler EXCEPT ![c] = h] /\ UNCHANGED <<sources, components, versions, syncJobs, sync, upstream, wiped>>
      BY <2>1 DEF AskComponent, Quiet
    <2>3. components[k] \in CompRows
      BY <1>1 DEF TablesOK
    <2>4. RequestOK(h) /\ OpenOK(h)
      BY <2>3 DEF RequestOK, OpenOK
    <2> HIDE DEF h
    <2>5. HandlersOK'
      BY <1>1, <2>2, <2>4, RequestMoves
    <2> QED
      BY <2>2, <2>5 DEF SyncInv, TablesOK, JobsOK
  <1>3. CASE SaveComponent(c)
    <2>1. /\ handler[c].op = "component" /\ handler' = [handler EXCEPT ![c] = AtRest]
          /\ UNCHANGED <<sources, versions, syncJobs, sync, upstream, wiped>>
      BY <1>3 DEF SaveComponent, Quiet
    <2>2. handler[c].comp \in Components /\ handler[c].row \in CompRows
      BY <1>1, <2>1 DEF RequestOK
    <2>3. PICK rule \in Rules, v \in Versions \cup {handler[c].row.default} :
            components' = [components EXCEPT ![handler[c].comp] = [rule |-> rule, default |-> v]]
      BY <1>3 DEF SaveComponent
    <2>4. [rule |-> rule, default |-> v] \in CompRows
      BY <2>2 DEF CompRows
    <2>5. components' \in [Components -> CompRows]
      BY <1>1, <2>2, <2>3, <2>4 DEF TablesOK
    <2>6. RequestOK(AtRest) /\ OpenOK(AtRest)
      BY DEF RequestOK, OpenOK, AtRest
    <2>7. HandlersOK'
      BY <1>1, <2>1, <2>6, RequestMoves
    <2> QED
      BY <1>1, <2>1, <2>5, <2>7 DEF SyncInv, TablesOK, JobsOK
  <1> QED
    BY <1>2, <1>3

\* The steps of the sync at the start.
LEMMA StartupKeeps ==
  ASSUME SyncInv, StartupList \/ StartupLatest \/ (\E s \in Sources : StartupNext(s))
  PROVE  SyncInv'
  <1>1. HandlersOK /\ TablesOK /\ StartupOK(handler[Startup])
    BY DEF SyncInv, HandlersOK
  <1>2. UNCHANGED <<sources, components, versions, syncJobs, sync, upstream, wiped>> /\ JobsGoOn
    BY DEF StartupList, StartupLatest, StartupNext, Quiet, JobsGoOn
  <1>3. \E h : handler' = [handler EXCEPT ![Startup] = h] /\ StartupOK(h)
    <2>1. CASE StartupList
      <3> DEFINE h == [op |-> "list", todo |-> {s \in Sources : Here(s) /\ sources[s].enabled},
                       rows |-> sources, source |-> "none", copy |-> NotYet, open |-> {}]
      <3>1. handler' = [handler EXCEPT ![Startup] = GoOn(h)]
        BY <2>1 DEF StartupList
      <3>2. h.todo \subseteq Sources /\ \A s \in h.todo : h.rows[s] \in Rows
        BY <1>1, HereIsRow
      <3> HIDE DEF h
      <3> QED
        BY <3>1, <3>2, GoOnOK
    <2>2. CASE StartupLatest
      <3>1. handler[Startup].op = "latest"
        BY <2>2 DEF StartupLatest
      <3> DEFINE o == handler[Startup]
      <3>2. /\ o = [op |-> "latest", todo |-> o.todo, rows |-> o.rows, source |-> o.source,
                   copy |-> o.copy, open |-> o.open]
            /\ o.todo \subseteq Sources /\ \A s \in o.todo : o.rows[s] \in Rows
            /\ o.source \in Sources /\ o.copy \in Rows
        BY <1>1, <3>1 DEF StartupOK
      <3>3. StartupOK(GoOn(o))
        BY <3>2, GoOnOK
      <3>4. [o EXCEPT !.op = "job"] = [op |-> "job", todo |-> o.todo, rows |-> o.rows, source |-> o.source,
                                      copy |-> o.copy, open |-> o.open]
        BY <3>2
      <3>5. StartupOK([o EXCEPT !.op = "job"])
        <4> DEFINE n == [o EXCEPT !.op = "job"]
        <4>1. /\ n.op = "job" /\ n.todo = o.todo /\ n.rows = o.rows /\ n.source = o.source /\ n.copy = o.copy
              /\ n = [op |-> n.op, todo |-> n.todo, rows |-> n.rows, source |-> n.source,
                      copy |-> n.copy, open |-> n.open]
          BY <3>4
        <4> HIDE DEF n
        <4>2. StartupOK(n)
          BY <3>2, <4>1 DEF StartupOK
        <4> QED
          BY <4>2 DEF n
      <3>6. \/ handler' = [handler EXCEPT ![Startup] = GoOn(o)]
            \/ handler' = [handler EXCEPT ![Startup] = [o EXCEPT !.op = "job"]]
        BY <2>2 DEF StartupLatest
      <3> QED
        BY <3>3, <3>5, <3>6
    <2>3. CASE \E s \in Sources : StartupNext(s)
      <3>1. PICK s \in Sources : StartupNext(s)
        BY <2>3
      <3> DEFINE o == handler[Startup]
                 h == [op |-> "latest", todo |-> o.todo \ {s}, rows |-> o.rows,
                       source |-> s, copy |-> o.rows[s], open |-> {}]
      <3>2. /\ o.op = "next" /\ s \in o.todo
            /\ handler' = [handler EXCEPT ![Startup] = IF RunningSyncJobs(s) # {} THEN GoOn(h) ELSE h]
        BY <3>1 DEF StartupNext
      <3>3. o.todo \subseteq Sources /\ \A u \in o.todo : o.rows[u] \in Rows
        BY <1>1, <3>2 DEF StartupOK
      <3>4. StartupOK(h)
        BY <3>2, <3>3 DEF StartupOK
      <3>5. StartupOK(GoOn(h))
        <4>1. h.todo \subseteq Sources /\ \A u \in h.todo : h.rows[u] \in Rows
          BY <3>3
        <4> HIDE DEF h
        <4> QED
          BY <4>1, GoOnOK
      <3> HIDE DEF h
      <3> QED
        BY <3>2, <3>4, <3>5
    <2> QED
      BY <2>1, <2>2, <2>3
  <1>4. HandlersOK'
    BY <1>1, <1>2, <1>3, StartupMoves
  <1> QED
    BY <1>1, <1>2, <1>4 DEF SyncInv, TablesOK, JobsOK

-----------------------------------------------------------------------------
(***************************************************************************)
(* The invariant holds.                                                    *)
(***************************************************************************)
LEMMA SyncStart == SyncInit => SyncInv
  <1> SUFFICES ASSUME SyncInit PROVE SyncInv
    OBVIOUS
  <1>1. TablesOK
    <2>1. Source(TRUE, "system", Components, None, TRUE) \in Rows
      BY DEF Source, Rows
    <2>2. sources \in [Sources -> Rows \cup {NotYet, Gone}]
      <3>1. sources \in [Sources -> {NotYet, Source(TRUE, "system", Components, None, TRUE)}]
        BY DEF SyncInit
      <3> QED
        BY <2>1, <3>1
    <2>3. components \in [Components -> CompRows]
      BY DEF SyncInit, CompRows, Rules
    <2>4. upstream \in Versions
      BY SyncAssumption DEF SyncInit, Versions, SyncAssumption
    <2> QED
      BY <2>2, <2>3, <2>4 DEF SyncInit, TablesOK, None
  <1>2. JobsOK
    <2>1. GoroutineOK(NoSync) /\ JobRowOK(NoSync, NoSyncJob)
      BY DEF GoroutineOK, JobRowOK, StatusAt, NoSync, NoSyncJob
    <2> QED
      BY <2>1 DEF SyncInit, JobsOK
  <1>3. HandlersOK
    <2>1. Startup \notin Callers
      BY SyncAssumption DEF SyncAssumption
    <2>2. RequestOK(AtRest) /\ OpenOK(AtRest)
      BY DEF RequestOK, OpenOK, AtRest
    <2>3. StartupOK([op |-> "list"])
      BY DEF StartupOK
    <2>4. handler[Startup] = [op |-> "list"] /\ \A c \in Callers : handler[c] = AtRest
      BY <2>1 DEF SyncInit
    <2> QED
      BY <2>2, <2>3, <2>4 DEF SyncInit, HandlersOK
  <1> QED
    BY <1>1, <1>2, <1>3 DEF SyncInv

\* A step of a goroutine.
LEMMA SyncVersionsKeeps ==
  ASSUME SyncInv, NEW j \in SyncIds, SyncVersions(j)
  PROVE  SyncInv'
  BY MarkRunningKeeps, DiscoverKeeps, FailKeeps, BulkUpsertKeeps, SyncCompletedKeeps,
     SetDefaultKeeps, ReadComponentKeeps, ResolveLatestKeeps, WriteComponentKeeps, FinishKeeps
  DEF SyncVersions

\* Every step keeps the invariant.
LEMMA SyncStep == SyncInv /\ [SyncNext]_syncVars => SyncInv'
  <1> SUFFICES ASSUME SyncInv, [SyncNext]_syncVars PROVE SyncInv'
    OBVIOUS
  <1>1. ASSUME NEW c \in Callers,
               \/ \E s \in Sources : SourceRequest(c, s)
               \/ \E k \in Components : AskComponent(c, k)
               \/ Save(c) \/ Wipe(c) \/ SaveComponent(c)
        PROVE  SyncInv'
    BY <1>1, SourceRequestKeeps, ComponentRequestsKeep, SaveKeeps, WipeKeeps
  <1>2. ASSUME NEW c \in Callers \cup {Startup}, CheckRunning(c) \/ CreateJob(c)
        PROVE  SyncInv'
    BY <1>2, CheckRunningKeeps, CreateJobKeeps
  <1>3. CASE StartupList \/ StartupLatest \/ \E s \in Sources : StartupNext(s)
    BY <1>3, StartupKeeps
  <1>4. CASE Release
    <2>1. upstream \in 1..LastVersion /\ upstream < LastVersion /\ upstream' = upstream + 1
      BY <1>4 DEF Release, SyncInv, TablesOK, Versions
    <2>2. upstream' \in Versions
      BY <2>1, SyncAssumption DEF Versions, SyncAssumption
    <2>3. UNCHANGED <<sources, components, versions, syncJobs, sync, handler, wiped>>
      BY <1>4 DEF Release
    <2>4. HandlersOK'
      BY <2>3, RequestsWait DEF SyncInv, JobsGoOn
    <2> QED
      BY <2>2, <2>3, <2>4 DEF SyncInv, TablesOK, JobsOK
  <1>5. ASSUME NEW j \in SyncIds, SyncVersions(j) PROVE SyncInv'
    BY <1>5, SyncVersionsKeeps
  <1>6. CASE UNCHANGED syncVars
    <2>1. HandlersOK'
      BY <1>6, RequestsWait DEF SyncInv, JobsGoOn, syncVars
    <2> QED
      BY <1>6, <2>1 DEF SyncInv, TablesOK, JobsOK, syncVars
  <1> QED
    BY <1>1, <1>2, <1>3, <1>4, <1>5, <1>6 DEF SyncNext

\* The tables, the jobs with their goroutines and the requests belong together in
\* every state of the discovery: what the theorems below rest on.
THEOREM SyncInvariant == SyncSpec => []SyncInv
  BY SyncStart, SyncStep, PTL DEF SyncSpec

\* The invariant gives the types of the runs.
LEMMA SyncInvTypes == SyncInv => SyncTypeOK
  <1> SUFFICES ASSUME SyncInv PROVE SyncTypeOK
    OBVIOUS
  <1>1. \A s \in Sources : Here(s) => /\ sources[s].comps \subseteq Components
                                      /\ sources[s].default \in Versions \cup {None}
                                      /\ sources[s].system <=> sources[s].owner = "system"
    BY HereIsRow DEF SyncInv, Rows
  <1>2. components \in [Components -> [rule : Rules, default : Versions \cup {None}]]
    BY DEF SyncInv, TablesOK, CompRows
  <1>3. ASSUME NEW j \in SyncIds
        PROVE  /\ syncJobs[j].status \in {"none", "pending", "running", "completed", "failed"}
               /\ syncJobs[j].status = "pending" <=> sync[j].pc = "start"
               /\ syncJobs[j].status = "running" <=> sync[j].pc \in {"discover", "save", "complete"}
               /\ syncJobs[j].new <= syncJobs[j].found
    <2>1. GoroutineOK(sync[j]) /\ JobRowOK(sync[j], syncJobs[j])
      BY DEF SyncInv, JobsOK
    <2>2. syncJobs[j].status \in StatusAt(sync[j].pc) /\ syncJobs[j].new <= syncJobs[j].found
      BY <2>1 DEF JobRowOK
    <2> QED
      BY <2>2 DEF StatusAt
  <1> QED
    BY <1>1, <1>2, <1>3 DEF SyncTypeOK

\* The types, and the row of a sync job says how far its goroutine is.
THEOREM SyncTypes == SyncSpec => []SyncTypeOK
  BY SyncInvTypes, SyncInvariant, PTL

\* A request that goes on to create a sync job or to clear the versions of a
\* source does so only when every sync it found open has ended: OpenOK.
THEOREM SyncsRefuse == SyncSpec => RefusedWhileSyncing
  <1>1. SyncInv => \A c \in Callers : handler[c].op \in {"job", "wipe"} =>
                     \A j \in handler[c].open : syncJobs[j].status \notin Unfinished
    BY DEF SyncInv, HandlersOK, OpenOK
  <1>2. SyncInv /\ [SyncNext]_syncVars =>
          [\A c \in Callers :
             handler[c].op \in {"job", "wipe"} /\ handler'[c] # handler[c] =>
               \A j \in handler[c].open : syncJobs[j].status \notin Unfinished]_syncVars
    BY <1>1
  <1> QED
    BY <1>2, SyncInvariant, PTL DEF SyncSpec, RefusedWhileSyncing
-----------------------------------------------------------------------------
(***************************************************************************)
(* Sums over the sync jobs.                                                *)
(***************************************************************************)
\* u[n] is the sum of the first n values of f.
IsTotal(u, f) == u = [n \in 0..MaxSyncs |-> IF n = 0 THEN 0 ELSE u[n - 1] + f[n]]

\* The recursive function of the sum has a value for every job.
LEMMA TotalExists ==
  ASSUME NEW f \in [SyncIds -> Nat]
  PROVE  \E u : IsTotal(u, f)
  <1> DEFINE UpTo(m, u) == u = [n \in 0..m |-> IF n = 0 THEN 0 ELSE u[n - 1] + f[n]]
             Bad == {m \in 0..MaxSyncs : ~\E u : UpTo(m, u)}
  <1>1. MaxSyncs \in Nat /\ MaxSyncs \in 0..MaxSyncs
    BY SyncAssumption DEF SyncAssumption
  <1>2. ASSUME Bad # {} PROVE FALSE
    <2>1. PICK m \in Bad : \A n \in Bad : m <= n
      <3>1. Bad \in SUBSET Nat
        OBVIOUS
      <3> HIDE DEF Bad
      <3> QED
        BY <1>2, <3>1, SmallestExists
    <2>2. m \in 0..MaxSyncs
      OBVIOUS
    <2>3. m # 0
      <3> DEFINE z == [n \in 0..0 |-> 0]
      <3>1. ASSUME m = 0 PROVE UpTo(m, z)
        BY <3>1
      <3> QED
        BY <3>1
    <2>4. m - 1 \in 0..MaxSyncs /\ m - 1 \notin Bad
      <3>1. m - 1 \in 0..MaxSyncs /\ ~(m <= m - 1)
        BY <1>1, <2>2, <2>3
      <3> HIDE DEF Bad
      <3> QED
        BY <2>1, <3>1
    <2>5. PICK u : UpTo(m - 1, u)
      BY <2>4
    <2> DEFINE w == [n \in 0..m |-> IF n = m THEN u[m - 1] + f[m] ELSE u[n]]
    <2>6. \A n \in 0..(m - 1) : u[n] = IF n = 0 THEN 0 ELSE u[n - 1] + f[n]
      BY <2>5
    <2>7. \A n \in 0..m : w[n] = IF n = 0 THEN 0 ELSE w[n - 1] + f[n]
      <3> SUFFICES ASSUME NEW n \in 0..m PROVE w[n] = IF n = 0 THEN 0 ELSE w[n - 1] + f[n]
        OBVIOUS
      <3>1. CASE n = m
        BY <1>1, <2>2, <2>3, <3>1
      <3>2. CASE n # m
        <4>1. n \in 0..(m - 1) /\ (n # 0 => n - 1 \in 0..m /\ n - 1 # m)
          BY <1>1, <2>2, <3>2
        <4> QED
          BY <2>6, <3>2, <4>1
      <3> QED
        BY <3>1, <3>2
    <2>8. UpTo(m, w)
      <3>1. w = [n \in 0..m |-> w[n]]
        OBVIOUS
      <3> HIDE DEF w
      <3> QED
        BY <2>7, <3>1
    <2> QED
      BY <2>1, <2>8
  <1> QED
    BY <1>1, <1>2 DEF IsTotal

\* One value more is one more in the sum.
LEMMA TotalGrows ==
  ASSUME NEW f \in [SyncIds -> Nat], NEW g \in [SyncIds -> Nat], NEW u, NEW w,
         IsTotal(u, f), IsTotal(w, g), NEW j \in SyncIds, NEW d \in Nat,
         \A i \in SyncIds : i # j => g[i] = f[i], g[j] = f[j] + d
  PROVE  u[MaxSyncs] \in Nat /\ w[MaxSyncs] = u[MaxSyncs] + d
  <1> DEFINE More(n) == IF n < j THEN 0 ELSE d
             Bad == {n \in 0..MaxSyncs : ~(u[n] \in Nat /\ w[n] = u[n] + More(n))}
  <1>1. MaxSyncs \in Nat /\ MaxSyncs \in 0..MaxSyncs /\ j \in 1..MaxSyncs /\ SyncIds = 1..MaxSyncs
    BY SyncAssumption DEF SyncAssumption, SyncIds
  <1>2. \A n \in 0..MaxSyncs : /\ u[n] = IF n = 0 THEN 0 ELSE u[n - 1] + f[n]
                               /\ w[n] = IF n = 0 THEN 0 ELSE w[n - 1] + g[n]
    BY DEF IsTotal
  <1>3. ASSUME Bad # {} PROVE FALSE
    <2>1. PICK m \in Bad : \A n \in Bad : m <= n
      <3>1. Bad \in SUBSET Nat
        OBVIOUS
      <3> HIDE DEF Bad
      <3> QED
        BY <1>3, <3>1, SmallestExists
    <2>2. m \in 0..MaxSyncs /\ ~(u[m] \in Nat /\ w[m] = u[m] + More(m))
      OBVIOUS
    <2>3. m # 0
      <3>1. u[0] = 0 /\ w[0] = 0 /\ More(0) = 0
        BY <1>1, <1>2
      <3> QED
        BY <2>2, <3>1
    <2>4. m - 1 \in 0..MaxSyncs /\ m \in SyncIds /\ m - 1 \notin Bad
      BY <1>1, <2>1, <2>2, <2>3
    <2>5. u[m - 1] \in Nat /\ w[m - 1] = u[m - 1] + More(m - 1)
      BY <2>4
    <2>6. u[m] = u[m - 1] + f[m] /\ w[m] = w[m - 1] + g[m]
      BY <1>2, <2>2, <2>3
    <2>7. f[m] \in Nat /\ g[m] = f[m] + (IF m = j THEN d ELSE 0)
      BY <2>4
    <2>8. More(m) = More(m - 1) + (IF m = j THEN d ELSE 0)
      BY <1>1, <2>2, <2>3
    <2> QED
      <3>1. More(m - 1) \in Nat
        OBVIOUS
      <3> HIDE DEF More
      <3> QED
        BY <2>2, <2>5, <2>6, <2>7, <2>8, <3>1
  <1>4. u[MaxSyncs] \in Nat /\ w[MaxSyncs] = u[MaxSyncs] + More(MaxSyncs)
    BY <1>1, <1>3
  <1> QED
    BY <1>1, <1>4

-----------------------------------------------------------------------------
(***************************************************************************)
(* What the jobs have reported.                                            *)
(***************************************************************************)
NewIn(r) == IF "new" \in DOMAIN r THEN r.new ELSE 0

\* A goroutine has a count once it has stored its versions.
LEMMA NewInHands ==
  ASSUME NEW r, GoroutineOK(r)
  PROVE  /\ NewIn(r) \in Nat
         /\ r.pc \in {"none", "start", "discover", "save"} => NewIn(r) = 0
         /\ r.pc \notin {"none", "start", "discover", "save"} => NewIn(r) = r.new
  <1>1. CASE r.pc = "none"
    BY <1>1 DEF GoroutineOK, NewIn, NoSync
  <1>2. CASE r.pc \in {"start", "discover", "save"}
    BY <1>2 DEF GoroutineOK, NewIn
  <1>3. CASE r.pc \in {"complete", "default"}
    BY <1>3 DEF GoroutineOK, NewIn
  <1>4. CASE r.pc \in {"components", "latest", "write", "done"}
    BY <1>4 DEF GoroutineOK, NewIn
  <1> QED
    BY <1>1, <1>2, <1>3, <1>4 DEF GoroutineOK

\* What every job has reported as new of a source.
NewBy(s) == [j \in SyncIds |-> NewOf(j, s)]

\* These are numbers.
LEMMA NewByType == JobsOK => \A s \in Sources : NewBy(s) \in [SyncIds -> Nat]
  <1> SUFFICES ASSUME JobsOK, NEW s \in Sources, NEW j \in SyncIds PROVE NewOf(j, s) \in Nat
    BY DEF NewBy
  <1>1. NewIn(sync[j]) \in Nat
    BY NewInHands DEF JobsOK
  <1> QED
    BY <1>1 DEF NewOf, NewIn

\* Reported is their sum.
LEMMA ReportedIsTotal ==
  JobsOK => \A s \in Sources : \E u : IsTotal(u, NewBy(s)) /\ Reported(s) = u[MaxSyncs]
  <1> SUFFICES ASSUME JobsOK, NEW s \in Sources
               PROVE  \E u : IsTotal(u, NewBy(s)) /\ Reported(s) = u[MaxSyncs]
    OBVIOUS
  <1> DEFINE Sum(u) == u = [n \in 0..MaxSyncs |-> IF n = 0 THEN 0 ELSE u[n - 1] + NewOf(n, s)]
  <1>1. Reported(s) = (CHOOSE u : Sum(u))[MaxSyncs]
    BY DEF Reported
  <1>2. \A u : Sum(u) <=> IsTotal(u, NewBy(s))
    <2>1. \A n \in 0..MaxSyncs : n # 0 => NewBy(s)[n] = NewOf(n, s)
      BY SyncAssumption DEF NewBy, SyncIds, SyncAssumption
    <2> QED
      BY <2>1 DEF IsTotal
  <1>3. \E u : Sum(u)
    BY <1>2, NewByType, TotalExists
  <1> HIDE DEF Sum
  <1> QED
    BY <1>1, <1>2, <1>3

\* The same in the next state.
LEMMA NewByTypeNext == (JobsOK => \A s \in Sources : NewBy(s) \in [SyncIds -> Nat])'
  BY NewByType, PTL

\* The same of the next state.
LEMMA ReportedIsTotalNext ==
  (JobsOK => \A s \in Sources : \E u : IsTotal(u, NewBy(s)) /\ Reported(s) = u[MaxSyncs])'
  BY ReportedIsTotal, PTL

\* When no job reports more or less, the sum stays; when one reports d versions
\* more, it grows by d.
LEMMA ReportedGrows ==
  ASSUME JobsOK, JobsOK', NEW s \in Sources, NEW j \in SyncIds, NEW d \in Nat,
         \A i \in SyncIds : i # j => NewOf(i, s)' = NewOf(i, s), NewOf(j, s)' = NewOf(j, s) + d
  PROVE  Reported(s) \in Nat /\ Reported(s)' = Reported(s) + d
  <1>1. PICK u : IsTotal(u, NewBy(s)) /\ Reported(s) = u[MaxSyncs]
    BY ReportedIsTotal
  <1>2. PICK w : IsTotal(w, NewBy(s)') /\ Reported(s)' = w[MaxSyncs]
    BY ReportedIsTotalNext
  <1>3. NewBy(s) \in [SyncIds -> Nat]
    BY NewByType
  <1>4. NewBy(s)' \in [SyncIds -> Nat]
    BY NewByTypeNext
  <1>5. (\A i \in SyncIds : i # j => NewBy(s)'[i] = NewBy(s)[i]) /\ NewBy(s)'[j] = NewBy(s)[j] + d
    BY DEF NewBy
  <1> DEFINE f == NewBy(s)
             g == NewBy(s)'
  <1> HIDE DEF f, g
  <1>6. u[MaxSyncs] \in Nat /\ w[MaxSyncs] = u[MaxSyncs] + d
    <2>1. f \in [SyncIds -> Nat] /\ g \in [SyncIds -> Nat] /\ IsTotal(u, f) /\ IsTotal(w, g)
      BY <1>1, <1>2, <1>3, <1>4 DEF f, g
    <2>2. (\A i \in SyncIds : i # j => g[i] = f[i]) /\ g[j] = f[j] + d
      BY <1>5 DEF f, g
    <2> QED
      BY <2>1, <2>2, TotalGrows
  <1> QED
    BY <1>1, <1>2, <1>6

-----------------------------------------------------------------------------
(***************************************************************************)
(* Every new version is counted once.                                      *)
(***************************************************************************)
ReportsStay == \A s \in Sources : \A i \in SyncIds : NewOf(i, s)' = NewOf(i, s)

\* A step that reports nothing and stores nothing keeps the counts.
LEMMA CountsStay ==
  ASSUME SyncInv, SyncInv', NewVersionsCountedOnce, ReportsStay, UNCHANGED <<versions, wiped>>
  PROVE  NewVersionsCountedOnce'
  <1>1. ASSUME NEW s \in Sources PROVE (Cardinality(Stored(s)) + wiped[s] = Reported(s))'
    <2>1. 1 \in SyncIds /\ 0 \in Nat
      BY SyncAssumption DEF SyncIds, SyncAssumption
    <2>2. NewOf(1, s)' = NewOf(1, s) + 0
      <3>1. NewOf(1, s) \in Nat
        BY <2>1, NewByType DEF SyncInv, NewBy
      <3> QED
        BY <2>1, <3>1 DEF ReportsStay
    <2>3. Reported(s) \in Nat /\ Reported(s)' = Reported(s) + 0
      BY <2>1, <2>2, ReportedGrows DEF SyncInv, ReportsStay
    <2>4. Stored(s)' = Stored(s)
      BY DEF Stored
    <2> QED
      BY <2>3, <2>4 DEF NewVersionsCountedOnce
  <1> QED
    BY <1>1 DEF NewVersionsCountedOnce

\* A step of one goroutine that changes neither its count nor the source of its
\* job, or that has no count to report.
LEMMA ReportStays ==
  ASSUME NEW j \in SyncIds,
         \A i \in SyncIds : i # j => sync'[i] = sync[i] /\ syncJobs'[i] = syncJobs[i],
         NewIn(sync'[j]) = NewIn(sync[j]),
         syncJobs'[j].source = syncJobs[j].source \/ NewIn(sync[j]) = 0
  PROVE  ReportsStay
  <1> SUFFICES ASSUME NEW s \in Sources, NEW i \in SyncIds PROVE NewOf(i, s)' = NewOf(i, s)
    BY DEF ReportsStay
  <1>1. CASE i # j
    BY <1>1 DEF NewOf
  <1>2. CASE i = j
    BY <1>2 DEF NewOf, NewIn
  <1> QED
    BY <1>1, <1>2

\* No job reports.
LEMMA JobsStay == ASSUME UNCHANGED <<sync, syncJobs>> PROVE ReportsStay
  BY DEF ReportsStay, NewOf

\* A goroutine that does not store versions.
LEMMA GoroutineReports ==
  ASSUME SyncInv, SyncInv', NEW j \in SyncIds, SyncVersions(j), ~BulkUpsert(j)
  PROVE  ReportsStay /\ UNCHANGED <<versions, wiped>>
  <1> DEFINE Early == {"none", "start", "discover", "save"}
  <1>1. sync = [i \in SyncIds |-> sync[i]] /\ syncJobs = [i \in SyncIds |-> syncJobs[i]]
    BY DEF SyncInv, JobsOK
  <1>2. /\ GoroutineOK(sync[j]) /\ GoroutineOK(sync'[j])
        /\ JobRowOK(sync[j], syncJobs[j])
    BY DEF SyncInv, JobsOK
  <1>3. /\ UNCHANGED <<versions, wiped>>
        /\ \A i \in SyncIds : i # j => sync'[i] = sync[i] /\ syncJobs'[i] = syncJobs[i]
        /\ syncJobs'[j].source = syncJobs[j].source
        /\ \/ sync[j].pc \in Early /\ sync'[j].pc \in Early
           \/ sync[j].pc \in Early /\ sync'[j].pc = "done" /\ sync'[j].new = 0
           \/ sync[j].pc \notin Early /\ sync'[j].pc \notin Early /\ sync'[j].new = sync[j].new
    <2>1. CASE MarkRunning(j)
      BY <1>1, <1>2, <2>1 DEF MarkRunning, Go, GoroutineOK, JobRowOK
    <2>2. CASE Discover(j)
      BY <1>1, <2>2 DEF Discover
    <2>3. CASE Fail(j)
      BY <1>1, <1>2, <2>3 DEF Fail, JobRowOK
    <2>4. CASE SyncCompleted(j)
      BY <1>1, <1>2, <2>4 DEF SyncCompleted, Go, GoroutineOK
    <2>5. CASE SetDefault(j)
      BY <1>1, <2>5 DEF SetDefault
    <2>6. CASE \E k \in Components : ReadComponent(j, k)
      BY <1>1, <2>6 DEF ReadComponent
    <2>7. CASE ResolveLatest(j)
      <3>1. \/ sync'[j] = Done(sync[j])
            \/ sync'[j].pc = "write" /\ sync'[j].new = sync[j].new
        BY <1>1, <2>7 DEF ResolveLatest
      <3> QED
        BY <1>1, <2>7, <3>1 DEF ResolveLatest, Done
    <2>8. CASE WriteComponent(j)
      BY <1>1, <2>8 DEF WriteComponent, Done
    <2>9. CASE Finish(j)
      BY <1>1, <2>9 DEF Finish
    <2> QED
      BY <2>1, <2>2, <2>3, <2>4, <2>5, <2>6, <2>7, <2>8, <2>9 DEF SyncVersions
  <1>4. NewIn(sync'[j]) = NewIn(sync[j])
    <2>1. sync[j].pc \in Early => NewIn(sync[j]) = 0
      BY <1>2, NewInHands
    <2>2. sync[j].pc \notin Early => NewIn(sync[j]) = sync[j].new
      BY <1>2, NewInHands
    <2>3. sync'[j].pc \in Early => NewIn(sync'[j]) = 0
      BY <1>2, NewInHands
    <2>4. sync'[j].pc \notin Early => NewIn(sync'[j]) = sync'[j].new
      BY <1>2, NewInHands
    <2> QED
      BY <1>3, <2>1, <2>2, <2>3, <2>4
  <1> QED
    BY <1>3, <1>4, ReportStays

\* The rest: nothing is stored or cleared, and a new job has reported nothing.
LEMMA RequestReports ==
  ASSUME SyncInv, NEW c \in Callers \cup {Startup}, CheckRunning(c) \/ CreateJob(c)
  PROVE  ReportsStay /\ UNCHANGED <<versions, wiped>>
  <1>1. CASE CheckRunning(c)
    BY <1>1, JobsStay DEF CheckRunning, Quiet
  <1>2. CASE CreateJob(c)
    <2> DEFINE s == handler[c].source
               free == {j \in SyncIds : syncJobs[j] = NoSyncJob}
               j == Min(free)
               job == [source |-> s, status |-> "pending", found |-> 0, new |-> 0]
               r == [pc |-> "start", source |-> s, copy |-> handler[c].copy]
    <2>1. /\ free # {} /\ UNCHANGED <<versions, wiped>>
          /\ syncJobs' = [syncJobs EXCEPT ![j] = job] /\ sync' = [sync EXCEPT ![j] = r]
      BY <1>2 DEF CreateJob
    <2>2. j \in free
      <3>1. free \in SUBSET Nat
        BY SyncAssumption DEF SyncIds, SyncAssumption
      <3> HIDE DEF free
      <3> QED
        BY <2>1, <3>1, MinIn
    <2>3. j \in SyncIds /\ syncJobs[j] = NoSyncJob
      BY <2>2
    <2> HIDE DEF j
    <2>4. JobRowOK(sync[j], syncJobs[j]) /\ GoroutineOK(sync[j])
      BY <2>3 DEF SyncInv, JobsOK
    <2>5. sync[j].pc = "none"
      BY <2>3, <2>4 DEF JobRowOK, StatusAt, NoSyncJob, GoroutineOK
    <2>6. NewIn(sync[j]) = 0
      BY <2>4, <2>5, NewInHands
    <2>7. NewIn(r) = 0
      BY DEF NewIn
    <2> HIDE DEF r, job
    <2>8. /\ sync'[j] = r
          /\ \A i \in SyncIds : i # j => sync'[i] = sync[i] /\ syncJobs'[i] = syncJobs[i]
      BY <2>1, <2>3 DEF SyncInv, JobsOK
    <2> QED
      BY <2>1, <2>3, <2>6, <2>7, <2>8, ReportStays
  <1> QED
    BY <1>1, <1>2

\* The versions that BulkUpsert stores are those it counts.
LEMMA BulkUpsertCounts ==
  ASSUME SyncInv, SyncInv', NewVersionsCountedOnce, NEW j \in SyncIds, BulkUpsert(j)
  PROVE  NewVersionsCountedOnce'
  <1>0. PICK s \in Sources, found \in SUBSET Versions : s = sync[j].source /\ found = sync[j].found
    <2>1. GoroutineOK(sync[j]) /\ sync[j].pc = "save"
      BY DEF SyncInv, JobsOK, BulkUpsert
    <2> QED
      BY <2>1 DEF GoroutineOK
  <1> DEFINE new == NewVersions(s, found)
             r == [pc |-> "complete", source |-> s, copy |-> sync[j].copy, found |-> found,
                   new |-> Cardinality(new)]
  <1>1. /\ sync[j].pc = "save" /\ sync' = [sync EXCEPT ![j] = r]
        /\ UNCHANGED <<syncJobs, wiped>>
    BY <1>0 DEF BulkUpsert
  <1>2. GoroutineOK(sync[j]) /\ JobRowOK(sync[j], syncJobs[j]) /\ TablesOK
    BY DEF SyncInv, JobsOK
  <1>3. syncJobs[j].source = s /\ NewIn(sync[j]) = 0
    BY <1>0, <1>1, <1>2, NewInHands DEF GoroutineOK, JobRowOK
  <1>4. Now # None
    BY <1>2, NowIsLater
  <1>5. \A t \in Sources : \A v \in Versions :
          versions'[t][v] = IF t = s /\ v \in new THEN Now ELSE versions[t][v]
    BY <1>0, <1>2 DEF BulkUpsert, TablesOK
  <1>6. Stored(s)' = Stored(s) \cup new /\ Stored(s) \cap new = {}
    BY <1>3, <1>4, <1>5 DEF Stored, NewVersions
  <1>7. \A t \in Sources : t # s => Stored(t)' = Stored(t)
    BY <1>5 DEF Stored
  <1>8. /\ IsFiniteSet(Stored(s)) /\ Cardinality(Stored(s)) \in Nat
        /\ IsFiniteSet(new) /\ Cardinality(new) \in Nat
    BY <1>3, NewAreFinite
  <1>9. Cardinality(Stored(s)') = Cardinality(Stored(s)) + Cardinality(new)
    <2>1. Cardinality(Stored(s) \cup new) =
            Cardinality(Stored(s)) + Cardinality(new) - Cardinality(Stored(s) \cap new)
      BY <1>8, FS_Union
    <2>2. Cardinality(Stored(s) \cap new) = 0
      BY <1>6, FS_EmptySet
    <2> QED
      BY <1>6, <1>8, <2>1, <2>2
  <1>10. NewIn(r) = Cardinality(new)
    BY DEF NewIn
  <1>11. /\ sync'[j] = r
         /\ \A i \in SyncIds : i # j => sync'[i] = sync[i]
    <2> HIDE DEF r
    <2> QED
      BY <1>1 DEF SyncInv, JobsOK
  <1> HIDE DEF r, new
  <1>12. \A t \in Sources : \A i \in SyncIds : i # j => NewOf(i, t)' = NewOf(i, t)
    BY <1>1, <1>11 DEF NewOf
  <1>13. \A t \in Sources : /\ NewOf(j, t) = 0
                            /\ NewOf(j, t)' = IF t = s THEN Cardinality(new) ELSE 0
    <2> SUFFICES ASSUME NEW t \in Sources
                 PROVE  NewOf(j, t) = 0 /\ NewOf(j, t)' = IF t = s THEN Cardinality(new) ELSE 0
      OBVIOUS
    <2>1. NewOf(j, t) = IF syncJobs[j].source = t THEN NewIn(sync[j]) ELSE 0
      BY DEF NewOf, NewIn
    <2>2. NewOf(j, t)' = IF syncJobs[j].source = t THEN NewIn(r) ELSE 0
      BY <1>1, <1>11 DEF NewOf, NewIn
    <2> QED
      BY <1>3, <1>10, <2>1, <2>2
  <1>14. ASSUME NEW t \in Sources PROVE (Cardinality(Stored(t)) + wiped[t] = Reported(t))'
    <2>1. CASE t = s
      <3>1. NewOf(j, s)' = NewOf(j, s) + Cardinality(new)
        BY <1>3, <1>8, <1>13
      <3>2. Reported(s) \in Nat /\ Reported(s)' = Reported(s) + Cardinality(new)
        BY <1>3, <1>8, <1>12, <3>1, ReportedGrows DEF SyncInv
      <3>3. Cardinality(Stored(s)) + wiped[s] = Reported(s) /\ wiped[s] \in Nat
        BY <1>2, <1>3 DEF NewVersionsCountedOnce, TablesOK
      <3>4. Cardinality(Stored(s)') + wiped'[s] = Reported(s)'
        BY <1>1, <1>8, <1>9, <3>2, <3>3
      <3> QED
        BY <2>1, <3>4
    <2>2. CASE t # s
      <3>1. NewOf(j, t)' = NewOf(j, t) + 0 /\ 0 \in Nat
        BY <1>13, <2>2
      <3>2. Reported(t) \in Nat /\ Reported(t)' = Reported(t) + 0
        BY <1>12, <3>1, ReportedGrows DEF SyncInv
      <3>3. Cardinality(Stored(t)) + wiped[t] = Reported(t)
        BY DEF NewVersionsCountedOnce
      <3> QED
        BY <1>1, <1>7, <2>2, <3>2, <3>3
    <2> QED
      BY <2>1, <2>2
  <1> QED
    BY <1>14 DEF NewVersionsCountedOnce

\* What is cleared was stored.
LEMMA WipeCounts ==
  ASSUME SyncInv, SyncInv', NewVersionsCountedOnce, NEW c \in Callers, Wipe(c)
  PROVE  NewVersionsCountedOnce'
  <1>0. PICK s \in Sources : s = handler[c].source
    <2>1. RequestOK(handler[c]) /\ handler[c].op = "wipe"
      BY DEF SyncInv, HandlersOK, Wipe
    <2> QED
      BY <2>1 DEF RequestOK
  <1> DEFINE n == Cardinality(Stored(s))
             none == [v \in Versions |-> None]
  <1>1. /\ handler[c].op = "wipe"
        /\ versions' = [versions EXCEPT ![s] = none] /\ wiped' = [wiped EXCEPT ![s] = wiped[s] + n]
        /\ UNCHANGED <<syncJobs, sync>>
    BY <1>0 DEF Wipe
  <1>2. TablesOK
    BY DEF SyncInv
  <1>4. n \in Nat
    <2>1. {} \in SUBSET Versions
      OBVIOUS
    <2> QED
      BY <2>1, NewAreFinite
  <1>5. Stored(s)' = {} /\ \A t \in Sources : t # s => Stored(t)' = Stored(t)
    <2>1. versions'[s] = none /\ \A t \in Sources : t # s => versions'[t] = versions[t]
      <3> HIDE DEF none
      <3> QED
        BY <1>1, <1>2 DEF TablesOK
    <2>2. \A v \in Versions : versions'[s][v] = None
      BY <2>1
    <2> QED
      BY <2>1, <2>2 DEF Stored
  <1> HIDE DEF none
  <1>6. wiped'[s] = wiped[s] + n /\ \A t \in Sources : t # s => wiped'[t] = wiped[t]
    <2> HIDE DEF n
    <2> QED
      BY <1>1, <1>2 DEF TablesOK
  <1>7. 1 \in SyncIds /\ 0 \in Nat
    BY SyncAssumption DEF SyncIds, SyncAssumption
  <1>8. ReportsStay
    BY <1>1, JobsStay
  <1>9. ASSUME NEW t \in Sources PROVE (Cardinality(Stored(t)) + wiped[t] = Reported(t))'
    <2>1. NewOf(1, t)' = NewOf(1, t) + 0
      <3>1. NewOf(1, t) \in Nat
        BY <1>7, NewByType DEF SyncInv, NewBy
      <3> QED
        BY <1>7, <1>8, <3>1 DEF ReportsStay
    <2>2. Reported(t) \in Nat /\ Reported(t)' = Reported(t) + 0
      BY <1>7, <1>8, <2>1, ReportedGrows DEF SyncInv, ReportsStay
    <2>3. Cardinality(Stored(t)) + wiped[t] = Reported(t) /\ wiped[t] \in Nat
      BY <1>2 DEF NewVersionsCountedOnce, TablesOK
    <2>4. CASE t = s
      <3>1. Cardinality(Stored(s)') = 0
        BY <1>5, FS_EmptySet
      <3>2. n + wiped[s] = Reported(s) /\ wiped[s] \in Nat /\ Reported(s)' = Reported(s)
        BY <2>2, <2>3, <2>4 DEF n
      <3>3. Cardinality(Stored(s)') + wiped'[s] = Reported(s)'
        BY <1>4, <1>6, <3>1, <3>2
      <3> QED
        BY <2>4, <3>3
    <2>5. CASE t # s
      BY <1>5, <1>6, <2>2, <2>3, <2>5
    <2> QED
      BY <2>4, <2>5
  <1> QED
    BY <1>9 DEF NewVersionsCountedOnce

\* Nothing is stored and nothing reported.
LEMMA CountsStart == SyncInit => NewVersionsCountedOnce
  <1> SUFFICES ASSUME SyncInit, NEW s \in Sources PROVE Cardinality(Stored(s)) + wiped[s] = Reported(s)
    BY DEF NewVersionsCountedOnce
  <1>1. JobsOK
    BY SyncStart DEF SyncInv
  <1>2. Cardinality(Stored(s)) = 0 /\ wiped[s] = 0
    <2>1. Stored(s) = {}
      BY DEF SyncInit, Stored
    <2> QED
      BY <2>1, FS_EmptySet DEF SyncInit
  <1>3. PICK u : IsTotal(u, NewBy(s)) /\ Reported(s) = u[MaxSyncs]
    BY <1>1, ReportedIsTotal
  <1>4. \A n \in SyncIds : NewBy(s)[n] = 0
    BY DEF NewBy, NewOf, SyncInit, NoSync
  <1> DEFINE Bad == {n \in 0..MaxSyncs : u[n] # 0}
  <1>5. ASSUME Bad # {} PROVE FALSE
    <2>1. PICK m \in Bad : \A n \in Bad : m <= n
      <3>1. Bad \in SUBSET Nat
        OBVIOUS
      <3> HIDE DEF Bad
      <3> QED
        BY <1>5, <3>1, SmallestExists
    <2>2. m \in 0..MaxSyncs /\ u[m] = IF m = 0 THEN 0 ELSE u[m - 1] + NewBy(s)[m]
      BY <1>3 DEF IsTotal
    <2>3. m # 0 => m - 1 \in 0..MaxSyncs /\ ~(m <= m - 1) /\ m \in SyncIds
      BY <2>2, SyncAssumption DEF SyncIds, SyncAssumption
    <2>4. m # 0 => u[m - 1] = 0
      BY <2>1, <2>3
    <2> QED
      BY <1>4, <2>1, <2>2, <2>3, <2>4
  <1>6. u[MaxSyncs] = 0
    BY <1>5, SyncAssumption DEF SyncAssumption
  <1> QED
    BY <1>2, <1>3, <1>6

\* Only BulkUpsert stores versions and it reports them; a deletion of versions
\* counts what it takes.
LEMMA CountsStep ==
  SyncInv /\ SyncInv' /\ NewVersionsCountedOnce /\ [SyncNext]_syncVars => NewVersionsCountedOnce'
  <1> SUFFICES ASSUME SyncInv, SyncInv', NewVersionsCountedOnce, [SyncNext]_syncVars
               PROVE  NewVersionsCountedOnce'
    OBVIOUS
  <1>1. ASSUME UNCHANGED <<versions, wiped, sync, syncJobs>> PROVE NewVersionsCountedOnce'
    BY <1>1, JobsStay, CountsStay
  <1>2. ASSUME NEW c \in Callers, Wipe(c) PROVE NewVersionsCountedOnce'
    BY <1>2, WipeCounts
  <1>3. ASSUME NEW c \in Callers \cup {Startup}, CheckRunning(c) \/ CreateJob(c)
        PROVE  NewVersionsCountedOnce'
    BY <1>3, RequestReports, CountsStay
  <1>4. ASSUME NEW j \in SyncIds, SyncVersions(j) PROVE NewVersionsCountedOnce'
    BY <1>4, BulkUpsertCounts, GoroutineReports, CountsStay
  <1>5. ASSUME NEW c \in Callers, NEW s \in Sources, SourceRequest(c, s)
        PROVE  UNCHANGED <<versions, wiped, sync, syncJobs>>
    <2>1. CASE CreateDefault(c, s) \/ CreateUserSource(c, s)
      BY <2>1 DEF CreateDefault, CreateUserSource, CreateSource, Quiet
    <2>2. CASE UpdateDefault(c, s) \/ UpdateUserSource(c, s) \/ UpdateSource(c, s)
      BY <2>2 DEF UpdateDefault, UpdateUserSource, UpdateSource, AskUpdate, Quiet
    <2>3. CASE DeleteDefault(c, s) \/ DeleteUserSource(c, s) \/ DeleteSource(c, s)
      BY <2>3 DEF DeleteDefault, DeleteUserSource, DeleteSource, RemoveSource, Quiet
    <2>4. CASE SyncDefaultVersions(c, s) \/ SyncUserVersions(c, s) \/ Sync(c, s)
      BY <2>4 DEF SyncDefaultVersions, SyncUserVersions, Sync, AskSync, Quiet
    <2>5. CASE ClearDefaultVersions(c, s) \/ ClearUserVersions(c, s) \/ ClearVersions(c, s)
      BY <2>5 DEF ClearDefaultVersions, ClearUserVersions, ClearVersions, AskClear, Quiet
    <2> QED
      BY <1>5, <2>1, <2>2, <2>3, <2>4, <2>5 DEF SourceRequest
  <1>6. ASSUME NEW c \in Callers, (\E k \in Components : AskComponent(c, k)) \/ Save(c) \/ SaveComponent(c)
        PROVE  UNCHANGED <<versions, wiped, sync, syncJobs>>
    BY <1>6 DEF AskComponent, Save, SaveComponent, Quiet
  <1>7. StartupList \/ StartupLatest \/ (\E s \in Sources : StartupNext(s)) \/ Release
          => UNCHANGED <<versions, wiped, sync, syncJobs>>
    BY DEF StartupList, StartupLatest, StartupNext, Release, Quiet
  <1>8. UNCHANGED syncVars => UNCHANGED <<versions, wiped, sync, syncJobs>>
    BY DEF syncVars
  <1> QED
    BY <1>1, <1>2, <1>3, <1>4, <1>5, <1>6, <1>7, <1>8 DEF SyncNext

\* However the syncs and the clears of a source interleave, the counts that the
\* sync jobs report add up to the versions that are stored and those that were
\* cleared: BulkUpsert counts what it stores in the transaction that stores it.
THEOREM VersionsCounted == SyncSpec => []NewVersionsCountedOnce
  <1>1. SyncInit => NewVersionsCountedOnce
    BY CountsStart
  <1>2. SyncInv /\ SyncInv' /\ NewVersionsCountedOnce /\ [SyncNext]_syncVars => NewVersionsCountedOnce'
    BY CountsStep
  <1> QED
    BY <1>1, <1>2, SyncInvariant, PTL DEF SyncSpec
=============================================================================
