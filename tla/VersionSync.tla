------------------------------ MODULE VersionSync ------------------------------
(***************************************************************************)
(* Upstream sources and the discovery of their versions: the handlers that *)
(* create, edit, delete, sync and clear sources, the sync of all sources   *)
(* when the server starts, and the goroutine every sync runs in, which     *)
(* fetches the versions that exist upstream, stores them, and fills in the *)
(* default versions of the source and of the components linked to it.      *)
(*                                                                         *)
(* A version is a number: the greater, the newer.  The database orders     *)
(* them by their text, where 6.9 comes after 6.12.  A statement of the     *)
(* database is one step; nothing holds between two of them.                *)
(***************************************************************************)
EXTENDS Naturals, FiniteSets, FiniteSetsExt

CONSTANTS
  Sources, Components,   \* upstream sources; the components they are for
  Callers,               \* those who send requests, one at a time each
  Admins,                \* the callers with admin access
  LastVersion,           \* the newest version that is ever released
  Text,                  \* the place of every version in the order of texts
  Lts, Candidates,       \* the versions of longterm series; release candidates
  Method,                \* the discovery method for the URL of every source
  MaxSyncs,              \* bound on the sync jobs
  MaxRequests            \* bound on the requests

Versions == 1..LastVersion
SyncIds  == 1..MaxSyncs
None     == 0
Startup  == "startup"    \* the sync of all sources 2 s after the start
Rules    == {"pinned", "latest-stable", "latest-lts"}

ASSUME SyncAssumption ==
  /\ LastVersion \in Nat \ {0} /\ MaxSyncs \in Nat \ {0} /\ MaxRequests \in Nat
  /\ Text \in [Versions -> Nat] /\ Lts \cup Candidates \subseteq Versions
  /\ Admins \subseteq Callers /\ Startup \notin Callers /\ "system" \notin Callers
  /\ IsFiniteSet(Sources)
  /\ Method \in [Sources -> {"github", "kernel.org", "http-directory"}]

VARIABLES
  sources,     \* table upstream_sources
  components,  \* table components: what the version rules need
  versions,    \* table source_versions: when each version was discovered
  syncJobs,    \* table version_sync_jobs
  sync,        \* the goroutine of every sync job
  handler,     \* the requests in progress, and the sync at the start
  requests,    \* requests received so far
  upstream,    \* how many versions have been released
  wiped        \* history: versions removed from source_versions

syncVars == <<sources, components, versions, syncJobs, sync, handler, requests, upstream, wiped>>

-----------------------------------------------------------------------------
NotYet == [is |-> "not yet"]
Gone   == [is |-> "gone"]
Source(system, owner, comps, default, enabled) ==
  [is |-> "here", system |-> system, owner |-> owner, comps |-> comps,
   default |-> default, enabled |-> enabled]

NoSyncJob  == [source |-> "none", status |-> "none", found |-> 0, new |-> 0]
Unfinished == {"pending", "running"}
NoSync == [pc |-> "none"]
AtRest   == [op |-> "idle"]

SyncInit ==
  /\ sources \in [Sources -> {NotYet, Source(TRUE, "system", Components, None, TRUE)}]
  /\ components = [c \in Components |-> [rule |-> "latest-stable", default |-> None]]
  /\ versions = [s \in Sources |-> [v \in Versions |-> None]]
  /\ syncJobs = [j \in SyncIds |-> NoSyncJob]
  /\ sync = [j \in SyncIds |-> NoSync]
  /\ handler = [c \in Callers \cup {Startup} |-> IF c = Startup THEN [op |-> "list"] ELSE AtRest]
  /\ requests = 0
  /\ upstream = 1
  /\ wiped = [s \in Sources |-> 0]

Here(s) == sources[s].is = "here"

(* GetRunningSyncJob: the jobs of the source that are pending or running.  *)
RunningSyncJobs(s) == {j \in SyncIds : syncJobs[j].source = s /\ syncJobs[j].status \in Unfinished}

-----------------------------------------------------------------------------
(* What a request finds under an id: the handlers for system sources, whose*)
(* routes are for admins, those for sources of users, and the later ones   *)
(* for both.                                                               *)
FindDefault(c, s) == Here(s) /\ sources[s].system /\ c \in Admins
FindUser(c, s)    == Here(s) /\ ~sources[s].system
                     /\ (sources[s].owner = c \/ c \in Admins)
Find(c, s)        == Here(s) /\ (c \in Admins \/ (~sources[s].system /\ sources[s].owner = c))

Ask(c, s, op) ==
  handler' = [handler EXCEPT ![c] =
                [op |-> op, source |-> s, copy |-> sources[s], open |-> RunningSyncJobs(s)]]

ReceiveRequest(c) == handler[c] = AtRest /\ requests < MaxRequests /\ requests' = requests + 1

Quiet == UNCHANGED <<versions, syncJobs, sync, upstream, wiped>>

(* Create: the row, and an automatic sync next.                            *)
CreateSource(c, s, system, owner) ==
  /\ ReceiveRequest(c) /\ sources[s] = NotYet
  /\ \E comps \in SUBSET Components : \E enabled \in BOOLEAN :
       LET row == Source(system, owner, comps, None, enabled)
       IN  /\ sources' = [sources EXCEPT ![s] = row]
           /\ handler' = [handler EXCEPT ![c] =
                            [op |-> "job", source |-> s, copy |-> row, open |-> {}]]
  /\ UNCHANGED components /\ Quiet

CreateDefault(c, s)    == c \in Admins /\ CreateSource(c, s, TRUE, "system")
CreateUserSource(c, s) == CreateSource(c, s, FALSE, c)

(* Update: the row is read, changed, and written as a whole.               *)
AskUpdate(c, s) ==
  /\ ReceiveRequest(c) /\ Ask(c, s, "save")
  /\ UNCHANGED <<sources, components>> /\ Quiet

UpdateDefault(c, s)    == FindDefault(c, s) /\ AskUpdate(c, s)
UpdateUserSource(c, s) == FindUser(c, s) /\ AskUpdate(c, s)
UpdateSource(c, s)           == Find(c, s) /\ AskUpdate(c, s)

Edits(row) ==
  {[row EXCEPT !.default = v] : v \in Versions} \cup {[row EXCEPT !.enabled = ~@]}
  \cup {[row EXCEPT !.comps = C] : C \in SUBSET Components}

Save(c) ==
  /\ handler[c].op = "save"
  /\ LET s == handler[c].source
     IN  \E row \in Edits(handler[c].copy) :
           sources' = IF Here(s) THEN [sources EXCEPT ![s] = row] ELSE sources
  /\ handler' = [handler EXCEPT ![c] = AtRest]
  /\ UNCHANGED <<components, requests>> /\ Quiet

(* Delete: the versions and the sync jobs of the source stay.              *)
RemoveSource(c, s) ==
  /\ ReceiveRequest(c)
  /\ sources' = [sources EXCEPT ![s] = Gone]
  /\ UNCHANGED <<components, handler>> /\ Quiet

DeleteDefault(c, s)    == FindDefault(c, s) /\ RemoveSource(c, s)
DeleteUserSource(c, s) == FindUser(c, s) /\ RemoveSource(c, s)
DeleteSource(c, s)     == Find(c, s) /\ RemoveSource(c, s)

(* Sync and clear: the row is read, then the running job looked for, and   *)
(* only then the job is created or the versions are deleted.               *)
AskSync(c, s) ==
  /\ ReceiveRequest(c) /\ Ask(c, s, "sync")
  /\ UNCHANGED <<sources, components>> /\ Quiet

SyncDefaultVersions(c, s) == FindDefault(c, s) /\ AskSync(c, s)
SyncUserVersions(c, s)    == FindUser(c, s) /\ AskSync(c, s)
Sync(c, s)                == Find(c, s) /\ AskSync(c, s)

AskClear(c, s) ==
  /\ ReceiveRequest(c) /\ Ask(c, s, "clear")
  /\ UNCHANGED <<sources, components>> /\ Quiet

ClearDefaultVersions(c, s) == FindDefault(c, s) /\ AskClear(c, s)
ClearUserVersions(c, s)    == FindUser(c, s) /\ AskClear(c, s)
ClearVersions(c, s)        == Find(c, s) /\ AskClear(c, s)

MUT_CheckStarted(c) ==
  /\ handler[c].op \in {"sync", "clear"}
  /\ handler' = [handler EXCEPT ![c] =
       IF \E j \in RunningSyncJobs(@.source) : syncJobs[j].status = "running" THEN AtRest
       ELSE [op |-> IF @.op = "sync" THEN "job" ELSE "wipe",
             source |-> @.source, copy |-> @.copy, open |-> @.open]]
  /\ UNCHANGED <<sources, components, requests>> /\ Quiet

CheckRunning(c) ==
  /\ handler[c].op \in {"sync", "clear"}
  /\ handler' = [handler EXCEPT ![c] =
       IF RunningSyncJobs(@.source) # {} THEN AtRest        \* 409 Conflict
       ELSE [op |-> IF @.op = "sync" THEN "job" ELSE "wipe",
             source |-> @.source, copy |-> @.copy, open |-> @.open]]
  /\ UNCHANGED <<sources, components, requests>> /\ Quiet

(* The start goes on to the next source, or is done.                       *)
GoOn(h) == IF h.todo = {} THEN AtRest
           ELSE [op |-> "next", todo |-> h.todo, rows |-> h.rows,
                 source |-> "none", copy |-> NotYet, open |-> {}]

(* CreateSyncJob, and the goroutine with the row that was read.            *)
CreateJob(c) ==
  /\ handler[c].op = "job"
  /\ LET s == handler[c].source
         free == {j \in SyncIds : syncJobs[j] = NoSyncJob}
     IN  /\ free # {}
         /\ syncJobs' = [syncJobs EXCEPT ![Min(free)] =
                           [source |-> s, status |-> "pending", found |-> 0, new |-> 0]]
         /\ sync' = [sync EXCEPT ![Min(free)] =
                       [pc |-> "start", source |-> s, copy |-> handler[c].copy]]
  /\ handler' = [handler EXCEPT ![c] = IF c = Startup THEN GoOn(@) ELSE AtRest]
  /\ UNCHANGED <<sources, components, versions, requests, upstream, wiped>>

(* DeleteBySource.                                                         *)
Stored(s) == {v \in Versions : versions[s][v] # None}

Wipe(c) ==
  /\ handler[c].op = "wipe"
  /\ LET s == handler[c].source
     IN  /\ versions' = [versions EXCEPT ![s] = [v \in Versions |-> None]]
         /\ wiped' = [wiped EXCEPT ![s] = @ + Cardinality(Stored(s))]
  /\ handler' = [handler EXCEPT ![c] = AtRest]
  /\ UNCHANGED <<sources, components, syncJobs, sync, requests, upstream>>

(* The handler for components writes back the whole row it read, too.      *)
AskComponent(c, k) ==
  /\ ReceiveRequest(c) /\ c \in Admins
  /\ handler' = [handler EXCEPT ![c] = [op |-> "component", comp |-> k, row |-> components[k]]]
  /\ UNCHANGED <<sources, components>> /\ Quiet

SaveComponent(c) ==
  /\ handler[c].op = "component"
  /\ \E rule \in Rules : \E v \in Versions \cup {handler[c].row.default} :
       components' = [components EXCEPT ![handler[c].comp] = [rule |-> rule, default |-> v]]
  /\ handler' = [handler EXCEPT ![c] = AtRest]
  /\ UNCHANGED <<sources, requests>> /\ Quiet

-----------------------------------------------------------------------------
(* SyncAllSources at the start: the list of the sources; for every enabled *)
(* one the running job, then the latest job, which is enough if it was     *)
(* completed not long ago, and then a new job.                             *)
StartupList ==
  /\ handler[Startup].op = "list"
  /\ handler' = [handler EXCEPT ![Startup] =
       GoOn([op |-> "list", todo |-> {s \in Sources : Here(s) /\ sources[s].enabled},
             rows |-> sources, source |-> "none", copy |-> NotYet, open |-> {}])]
  /\ UNCHANGED <<sources, components, requests>> /\ Quiet

StartupNext(s) ==
  /\ handler[Startup].op = "next" /\ s \in handler[Startup].todo
  /\ LET h == [op |-> "latest", todo |-> handler[Startup].todo \ {s}, rows |-> handler[Startup].rows,
               source |-> s, copy |-> handler[Startup].rows[s], open |-> {}]
     IN  handler' = [handler EXCEPT ![Startup] = IF RunningSyncJobs(s) # {} THEN GoOn(h) ELSE h]
  /\ UNCHANGED <<sources, components, requests>> /\ Quiet

LatestCompleted(s) ==
  LET jobs == {j \in SyncIds : syncJobs[j].source = s}
  IN  jobs # {} /\ syncJobs[Max(jobs)].status = "completed"

StartupLatest ==
  /\ handler[Startup].op = "latest"
  /\ \E recent \in BOOLEAN :
       handler' = [handler EXCEPT ![Startup] =
         IF recent /\ LatestCompleted(@.source) THEN GoOn(@) ELSE [@ EXCEPT !.op = "job"]]
  /\ UNCHANGED <<sources, components, requests>> /\ Quiet

-----------------------------------------------------------------------------
(* Upstream.                                                               *)
Release ==
  /\ upstream < LastVersion
  /\ upstream' = upstream + 1
  /\ UNCHANGED <<sources, components, versions, syncJobs, sync, handler, requests, wiped>>

(* A listing that comes in pages, newest first, may end early: at the rate *)
(* limit what was collected counts.                                        *)
Released == 1..upstream
Pages(S) == {{v \in S : v >= first} : first \in Versions}

(* Releases are needed, from one page at least; tags are extra.            *)
GitHubVersions == {r \cup t : r \in Pages(Released) \ {{}}, t \in {{}} \cup Pages(Released)}

(* The directories of the series, each of which may fail to list.          *)
KernelOrgVersions ==
  {UNION dirs : dirs \in SUBSET {Released \cap Lts, Released \ Lts}}

HTTPDirectoryVersions == {Released}

DiscoverVersions(s) ==
  IF Method[s] = "github" THEN GitHubVersions
  ELSE IF Method[s] = "kernel.org" THEN KernelOrgVersions
  ELSE HTTPDirectoryVersions

(* determineKernelVersionType, determineGitHubVersionType.                 *)
VersionType(s, v) ==
  IF v \in Candidates THEN "mainline"
  ELSE IF Method[s] = "kernel.org" /\ v \in Lts THEN "longterm"
  ELSE "stable"

(* findFirstStableVersion, of versions in descending order.                *)
FirstStable(found) == LET stable == found \ Candidates
                      IN  IF stable # {} THEN Max(stable) ELSE Max(found)

(* detectDefaultVersion: what GitHub calls its latest release, if it says. *)
DefaultVersions(s, found) ==
  LET stable == Released \ Candidates
  IN  {FirstStable(found)}
      \cup (IF Method[s] = "github" /\ stable # {} THEN {Max(stable)} ELSE {})

-----------------------------------------------------------------------------
(* SyncVersions.                                                           *)
Go(j, pc) == sync' = [sync EXCEPT ![j].pc = pc]

MarkRunning(j) ==
  /\ sync[j].pc = "start"
  /\ syncJobs' = [syncJobs EXCEPT ![j].status = "running"]
  /\ Go(j, "discover")
  /\ UNCHANGED <<sources, components, versions, handler, requests, upstream, wiped>>

Discover(j) ==
  /\ sync[j].pc = "discover"
  /\ \E found \in DiscoverVersions(sync[j].source) :
       sync' = [sync EXCEPT ![j] =
                  [pc |-> "save", source |-> @.source, copy |-> @.copy, found |-> found]]
  /\ UNCHANGED <<sources, components, versions, syncJobs, handler, requests, upstream, wiped>>

MUT_FetchAgain(j) ==
  /\ sync[j].pc = "save"
  /\ Go(j, "discover")
  /\ UNCHANGED <<sources, components, versions, syncJobs, handler, requests, upstream, wiped>>

(* Upstream does not answer, not in 5 minutes, or the versions cannot be   *)
(* stored.                                                                 *)
Fail(j) ==
  /\ sync[j].pc \in {"discover", "save"}
  /\ syncJobs' = [syncJobs EXCEPT ![j].status = "failed"]
  /\ sync' = [sync EXCEPT ![j] = [pc |-> "done", new |-> 0]]
  /\ UNCHANGED <<sources, components, versions, handler, requests, upstream, wiped>>

(* BulkUpsert: one transaction.  A version that is there keeps the time it *)
(* was discovered, and the others get the same one.                        *)
Now == 1 + Max({None} \cup {versions[s][v] : s \in Sources, v \in Versions})

MUT_AllNew(s, found) == found

NewVersions(s, found) == found \ Stored(s)

BulkUpsert(j) ==
  /\ sync[j].pc = "save"
  /\ LET s == sync[j].source
         found == sync[j].found
     IN  /\ versions' = [versions EXCEPT ![s] =
                           [v \in Versions |-> IF v \in NewVersions(s, found) THEN Now ELSE @[v]]]
         /\ sync' = [sync EXCEPT ![j] =
                       [pc |-> "complete", source |-> s, copy |-> @.copy, found |-> found,
                        new |-> Cardinality(NewVersions(s, found))]]
  /\ UNCHANGED <<sources, components, syncJobs, handler, requests, upstream, wiped>>

SyncCompleted(j) ==
  /\ sync[j].pc = "complete"
  /\ syncJobs' = [syncJobs EXCEPT ![j] =
                    [source |-> @.source, status |-> "completed",
                     found |-> Cardinality(sync[j].found), new |-> sync[j].new]]
  /\ Go(j, "default")
  /\ UNCHANGED <<sources, components, versions, handler, requests, upstream, wiped>>

(* The default version of the source, if the row that was read before the  *)
(* sync had none; that whole row is written back, if there still is one.   *)
SetDefault(j) ==
  /\ sync[j].pc = "default"
  /\ LET s == sync[j].source
         old == sync[j].copy
     IN  \E d \in IF old.default = None /\ sync[j].found # {}
                   THEN DefaultVersions(s, sync[j].found) ELSE {old.default} :
           sources' = IF d # old.default /\ Here(s)
                      THEN [sources EXCEPT ![s] = [old EXCEPT !.default = d]] ELSE sources
  /\ sync' = [sync EXCEPT ![j] = [pc |-> "components", new |-> @.new, todo |-> @.copy.comps]]
  /\ UNCHANGED <<components, versions, syncJobs, handler, requests, upstream, wiped>>

-----------------------------------------------------------------------------
(* updateComponentDefaultVersions: for every component of the row that was *)
(* read, the component, then its latest version, then the component again. *)
ReadComponent(j, k) ==
  /\ sync[j].pc = "components" /\ k \in sync[j].todo
  /\ sync' = [sync EXCEPT ![j] =
       IF components[k].rule = "pinned"
       THEN [pc |-> "components", new |-> @.new, todo |-> @.todo \ {k}]
       ELSE [pc |-> "latest", new |-> @.new, todo |-> @.todo \ {k}, comp |-> k, row |-> components[k]]]
  /\ UNCHANGED <<sources, components, versions, syncJobs, handler, requests, upstream, wiped>>

(* GetLatestByComponentAndType: over the sources there are that list the   *)
(* component, the version discovered last, and then the one whose text     *)
(* comes last.  0 if there is none.                                        *)
LatestVersion(k, type) ==
  LET rows == {r \in Sources \X Versions :
                 /\ Here(r[1]) /\ k \in sources[r[1]].comps
                 /\ versions[r[1]][r[2]] # None /\ VersionType(r[1], r[2]) = type}
      Above(q, r) == \/ versions[q[1]][q[2]] > versions[r[1]][r[2]]
                     \/ /\ versions[q[1]][q[2]] = versions[r[1]][r[2]]
                        /\ Text[q[2]] > Text[r[2]]
  IN  IF rows = {} THEN None
      ELSE (CHOOSE r \in rows : \A q \in rows : ~Above(q, r))[2]

TypeOf(rule) == IF rule = "latest-lts" THEN "longterm" ELSE "stable"

Done(r) == [pc |-> "components", new |-> r.new, todo |-> r.todo]

ResolveLatest(j) ==
  /\ sync[j].pc = "latest"
  /\ LET v == LatestVersion(sync[j].comp, TypeOf(sync[j].row.rule))
     IN  sync' = [sync EXCEPT ![j] =
           IF v \in {None, @.row.default} THEN Done(@)
           ELSE [pc |-> "write", new |-> @.new, todo |-> @.todo, comp |-> @.comp,
                 row |-> [rule |-> @.row.rule, default |-> v]]]
  /\ UNCHANGED <<sources, components, versions, syncJobs, handler, requests, upstream, wiped>>

WriteComponent(j) ==
  /\ sync[j].pc = "write"
  /\ components' = [components EXCEPT ![sync[j].comp] = sync[j].row]
  /\ sync' = [sync EXCEPT ![j] = Done(@)]
  /\ UNCHANGED <<sources, versions, syncJobs, handler, requests, upstream, wiped>>

Finish(j) ==
  /\ sync[j].pc = "components" /\ sync[j].todo = {}
  /\ sync' = [sync EXCEPT ![j] = [pc |-> "done", new |-> @.new]]
  /\ UNCHANGED <<sources, components, versions, syncJobs, handler, requests, upstream, wiped>>

SyncVersions(j) ==
  \/ MarkRunning(j) \/ Discover(j) \/ Fail(j) \/ BulkUpsert(j) \/ SyncCompleted(j)
  \/ SetDefault(j) \/ (\E k \in Components : ReadComponent(j, k)) \/ ResolveLatest(j)
  \/ WriteComponent(j) \/ Finish(j)

SourceRequest(c, s) ==
  \/ CreateDefault(c, s) \/ CreateUserSource(c, s)
  \/ UpdateDefault(c, s) \/ UpdateUserSource(c, s) \/ UpdateSource(c, s)
  \/ DeleteDefault(c, s) \/ DeleteUserSource(c, s) \/ DeleteSource(c, s)
  \/ SyncDefaultVersions(c, s) \/ SyncUserVersions(c, s) \/ Sync(c, s)
  \/ ClearDefaultVersions(c, s) \/ ClearUserVersions(c, s) \/ ClearVersions(c, s)

SyncNext ==
  \/ \E c \in Callers : \/ \E s \in Sources : SourceRequest(c, s)
                        \/ \E k \in Components : AskComponent(c, k)
                        \/ Save(c) \/ Wipe(c) \/ SaveComponent(c)
  \/ \E c \in Callers \cup {Startup} : CheckRunning(c) \/ CreateJob(c)
  \/ StartupList \/ StartupLatest \/ \E s \in Sources : StartupNext(s)
  \/ Release
  \/ \E j \in SyncIds : SyncVersions(j)

(* A goroutine runs on, and every fetch has its timeout.                   *)
SyncFairness == \A j \in SyncIds : WF_syncVars(SyncVersions(j))

SyncSpec == SyncInit /\ [][SyncNext]_syncVars /\ SyncFairness

-----------------------------------------------------------------------------
(* Types; and the row of a sync job says how far its goroutine is.         *)
SyncTypeOK ==
  /\ \A s \in Sources : Here(s) => /\ sources[s].comps \subseteq Components
                                   /\ sources[s].default \in Versions \cup {None}
                                   /\ sources[s].system <=> sources[s].owner = "system"
  /\ components \in [Components -> [rule : Rules, default : Versions \cup {None}]]
  /\ \A j \in SyncIds :
       /\ syncJobs[j].status \in {"none", "pending", "running", "completed", "failed"}
       /\ syncJobs[j].status = "pending" <=> sync[j].pc = "start"
       /\ syncJobs[j].status = "running" <=> sync[j].pc \in {"discover", "save", "complete"}
       /\ syncJobs[j].new <= syncJobs[j].found

(* What the jobs of a source have reported as new.                         *)
NewOf(j, s) == IF syncJobs[j].source = s /\ "new" \in DOMAIN sync[j] THEN sync[j].new ELSE 0
Reported(s) == LET upTo[n \in 0..MaxSyncs] == IF n = 0 THEN 0 ELSE upTo[n - 1] + NewOf(n, s)
               IN  upTo[MaxSyncs]

(* However many syncs of a source run at once, every version stored for it *)
(* is reported as new by exactly one of them: the counts of the jobs add up*)
(* to what is stored and what was cleared.                                 *)
NewVersionsCountedOnce ==
  \A s \in Sources : Cardinality(Stored(s)) + wiped[s] = Reported(s)

(* A sync that was pending or running when a request came in, and still is,*)
(* makes the request fail (409): neither is a second sync started over it, *)
(* nor are the versions cleared under it.                                  *)
RefusedWhileSyncing ==
  [][\A c \in Callers :
       handler[c].op \in {"job", "wipe"} /\ handler'[c] # handler[c] =>
         \A j \in handler[c].open : syncJobs[j].status \notin Unfinished]_syncVars

(* Every sync ends, however its upstream behaves: no source is left with a *)
(* running job, which would refuse every later sync and clear of it.       *)
SyncsEnd == \A j \in SyncIds : syncJobs[j].status = "pending" ~>
              syncJobs[j].status \in {"completed", "failed"}
=============================================================================
