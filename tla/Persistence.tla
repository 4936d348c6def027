------------------------------ MODULE Persistence ------------------------------
(***************************************************************************)
(* The database of the server over its restarts: an in-memory SQLite       *)
(* database whose schema the migrations build at every start, the file it  *)
(* is saved to when the server stops, and the load, table by table, of a   *)
(* file that an older release may have written.                            *)
(*                                                                         *)
(* A row is the set of the migrations whose columns hold values that were  *)
(* written into it; the migration that created its table is always among   *)
(* them, and {} stands for no row.  The key of a row is the migration that *)
(* seeded it, or User.                                                     *)
(***************************************************************************)
EXTENDS Naturals, Sequences, FiniteSets

CONSTANTS Tables,      \* the tables that are followed
          OldVersions, \* the schemas of the files a first start may find
          MaxWrites,   \* bound on the statements of users and workers
          MaxBoots    \* bound on the starts of the server

User   == 0
System == 1            \* a source for everybody, which an administrator made

(* What a migration does to the tables: those it creates, adds columns to, *)
(* seeds with rows, and drops.                                             *)
Migration(creates, adds, seeds, drops) ==
  [creates |-> creates, adds |-> adds, seeds |-> seeds, drops |-> drops]

InitialTables ==
  {"settings", "roles", "users", "revoked_tokens", "components", "distributions",
   "distribution_logs", "source_defaults", "user_sources", "distribution_source_overrides",
   "download_jobs", "source_versions", "version_sync_jobs", "language_packs"}
SeedRoles      == {"roles"}
SeedComponents == {"components"}
InitialSchema  == Migration(InitialTables, {}, SeedRoles \cup SeedComponents, {})

AddVersionType              == Migration({}, {"source_versions"}, {}, {})
MultiComponentSources       == Migration({}, {"source_defaults", "user_sources"}, {}, {})
MergeSources                == Migration({"upstream_sources"}, {}, {}, {"source_defaults", "user_sources"})
RemoveDistributionOverrides == Migration({}, {}, {}, {"distribution_source_overrides"})
RefreshTokens               == Migration({"refresh_tokens"}, {}, {}, {})
ComponentVersions           == Migration({}, {"components"}, {}, {})
ComponentBuildTypes         == Migration({}, {"components"}, {}, {})
ForgeTypeVersionFilter      == Migration({}, {"upstream_sources"}, {}, {})
DownloadJobSourceDedup      == Migration({}, {"download_jobs"}, {}, {})
SourceDefaultVersion        == Migration({}, {"upstream_sources"}, {}, {})
BuildJobs                   == Migration({"build_jobs", "build_stages", "build_logs"}, {}, {}, {})
BuildClearCache             == Migration({}, {"build_jobs"}, {}, {})
BoardProfiles               == Migration({"board_profiles"}, {}, {"board_profiles"}, {})
ArchSupport                 == Migration({}, {"components"}, {}, {})
DownloadCache               == Migration({"artifact_cache", "mirror_configs"}, {"download_jobs"}, {}, {})
ToolchainProfiles           == Migration({"toolchain_profiles"}, {}, {"toolchain_profiles"}, {})
ToolchainComponents         == Migration({}, {}, {"components"}, {})
ToolchainComponentsCross    == Migration({}, {}, {"components"}, {})
ProfileUUIDIDs              == Migration({}, {}, {}, {})   \* new keys for the same rows

(* registerAll.                                                            *)
Schema ==
  <<InitialSchema, AddVersionType, MultiComponentSources, MergeSources,
    RemoveDistributionOverrides, RefreshTokens, ComponentVersions, ComponentBuildTypes,
    ForgeTypeVersionFilter, DownloadJobSourceDedup, SourceDefaultVersion, BuildJobs,
    BuildClearCache, BoardProfiles, ArchSupport, DownloadCache, ToolchainProfiles,
    ToolchainComponents, ToolchainComponentsCross, ProfileUUIDIDs>>

Newest   == Len(Schema)
AllTables == UNION {Schema[m].creates : m \in 1..Newest}
Created  == [t \in AllTables |-> CHOOSE m \in 1..Newest : t \in Schema[m].creates]
Added    == [t \in AllTables |-> {m \in 1..Newest : t \in Schema[m].adds}]
SeededBy == [t \in AllTables |-> {m \in 1..Newest : t \in Schema[m].seeds}]
Dropped  == [t \in AllTables |-> {m \in 1..Newest : t \in Schema[m].drops}]

(* Migration 4 merges the two tables of sources and drops them.            *)
Merged == MergeSources.drops

(* The foreign keys that a save, a load or a deletion may break.           *)
ForeignKeys ==
  {<<"revoked_tokens", "users">>, <<"refresh_tokens", "users">>, <<"components", "users">>,
   <<"upstream_sources", "users">>, <<"user_sources", "users">>,
   <<"distribution_logs", "distributions">>, <<"download_jobs", "distributions">>,
   <<"download_jobs", "components">>, <<"distribution_source_overrides", "distributions">>,
   <<"distribution_source_overrides", "components">>, <<"build_jobs", "distributions">>,
   <<"build_stages", "build_jobs">>, <<"build_logs", "build_jobs">>}
Parents(t) == {p \in Tables : <<t, p>> \in ForeignKeys}

(* The rows that the migrations seed get the number as their key.          *)
RowKeys(t) == {User} \cup SeededBy[t]
           \cup (IF t \in {"source_defaults", "upstream_sources"} THEN {System} ELSE {})

(* The sources of migration 1 that nobody owns have a table of their own.  *)
Owned(t, k) == t = "source_defaults" => k = System

ASSUME PersistenceAssumption ==
  /\ Tables \subseteq AllTables
  /\ OldVersions \subseteq 1..Newest
  /\ MaxWrites \in Nat /\ MaxBoots \in Nat

VARIABLES
  memory,   \* the database in memory: its schema and its rows
  disk,     \* the file at persistPath
  temp,     \* the file beside it that a save writes first
  phase,    \* where the process is
  loaded,   \* how far in its order LoadFromDisk has come
  statements, \* statements executed so far
  starts    \* starts so far

persistVars == <<memory, disk, temp, phase, loaded, statements, starts>>

Exists(t, v)  == Created[t] <= v /\ \A m \in Dropped[t] : v < m
Columns(t, v) == {c \in {Created[t]} \cup Added[t] : c <= v}
NoRows        == [t \in Tables |-> [k \in RowKeys(t) |-> {}]]
Fresh         == [version |-> 0, rows |-> NoRows]
NoSave        == Fresh
Torn          == [version |-> Newest + 1, rows |-> NoRows]   \* not written to its end

MUT_StagesFirst ==
  <<"settings", "roles", "users", "distributions", "components", "upstream_sources",
    "build_stages", "build_jobs">>

(* The tables that LoadFromDisk copies, in its order.                      *)
LoadOrder ==
  <<"settings", "roles", "users", "distributions", "distribution_logs", "revoked_tokens",
    "components", "upstream_sources", "download_jobs", "artifact_cache", "mirror_configs",
    "board_profiles", "toolchain_profiles", "build_jobs", "build_stages", "build_logs",
    "refresh_tokens">>

-----------------------------------------------------------------------------
(* The files a first start may find: what an earlier release saved.        *)
OldRows(v) ==
  {[t \in Tables |-> [k \in RowKeys(t) |->
      IF ~Exists(t, v) \/ (k # User /\ k > v) \/ ~Owned(t, k) THEN {}
      ELSE IF k = User \/ t \in Merged \cup {"upstream_sources"} THEN full[t]
      ELSE {Created[t]}]] :
    full \in {[t \in Tables |-> Columns(t, v)], [t \in Tables |-> {}]}}

OldFiles == UNION {{[version |-> v, rows |-> r] : r \in OldRows(v)} : v \in OldVersions}

PersistInit ==
  /\ memory = Fresh
  /\ disk \in {NoSave} \cup OldFiles
  /\ temp = NoSave
  /\ phase = "down"
  /\ loaded = 0
  /\ statements = 0
  /\ starts = 0

-----------------------------------------------------------------------------
(* db.New: an empty database in memory, whatever the last process held.    *)
Open ==
  /\ phase = "down" /\ starts < MaxBoots
  /\ memory' = Fresh
  /\ phase' = "migrating"
  /\ starts' = starts + 1
  /\ UNCHANGED <<disk, temp, loaded, statements>>

(* The rows of table t after migration m: new tables are empty but for     *)
(* what is seeded, and migration 4 moves the sources of the old tables.    *)
Merge(k) == LET t == IF k = System THEN "source_defaults" ELSE "user_sources"
            IN  IF t \in Tables /\ memory.rows[t][k] # {} THEN {4} ELSE {}

Migrated(m, t) ==
  [k \in RowKeys(t) |->
     IF t \in Schema[m].drops THEN {}
     ELSE IF m = 4 /\ t = "upstream_sources" THEN Merge(k)
     ELSE IF m \in SeededBy[t] /\ k = m THEN {Created[t]}
     ELSE memory.rows[t][k]]

MUT_MigrateOnceMore ==
  /\ phase \in {"migrating", "resetting"} /\ memory.version <= Newest
  /\ memory' = [memory EXCEPT !.version = @ + 1]
  /\ UNCHANGED <<disk, temp, phase, loaded, statements, starts>>

(* Runner.Run: the next migration that is not recorded, in a transaction   *)
(* that records it as well.                                                *)
Migrate ==
  /\ phase \in {"migrating", "resetting"} /\ memory.version < Newest
  /\ LET m == memory.version + 1
     IN  memory' = [version |-> m, rows |-> [t \in Tables |-> Migrated(m, t)]]
  /\ UNCHANGED <<disk, temp, phase, loaded, statements, starts>>

(* db.New goes on to load the file, if there is one.                       *)
Migrations ==
  /\ phase = "migrating" /\ memory.version = Newest
  /\ IF disk = NoSave
     THEN phase' = "serving"
     ELSE phase' = "loading"
  /\ UNCHANGED <<memory, disk, temp, loaded, statements, starts>>

-----------------------------------------------------------------------------
(* LoadFromDisk.  A statement that fails leaves its table as it is; the    *)
(* load goes on.                                                           *)
Referable(t, k) == k # User \/ \A p \in Parents(t) : memory.rows[p][User] # {}

MUT_InsertUnreferenced(t, r) == TRUE

Insertable(t, r) == \A k \in RowKeys(t) : r[k] # {} => Referable(t, k)

Replaced(t, r) == [k \in RowKeys(t) |-> IF r[k] = {} THEN memory.rows[t][k] ELSE r[k]]

(* INSERT OR REPLACE ... SELECT *: the columns must be the same.           *)
SameColumns(t) == Columns(t, disk.version) = Columns(t, Newest)

LoadWhole(t) == IF SameColumns(t) /\ Insertable(t, disk.rows[t])
                THEN Replaced(t, disk.rows[t]) ELSE memory.rows[t]

(* Only the roles that are not the system's.                               *)
LoadRoles == [memory.rows["roles"] EXCEPT ![User] =
                IF disk.rows["roles"][User] # {} THEN disk.rows["roles"][User] ELSE @]

(* The profiles seeded by the migrations give way to those of the file.    *)
LoadProfiles(t) == disk.rows[t]

(* So do the components; which columns are copied depends on whether the   *)
(* file has those of migration 8.  Without the owners a last statement     *)
(* inserts the oldest columns only.  The build types of the components of  *)
(* migration 1 are then set by their names.                                *)
LoadComponents ==
  LET r == disk.rows["components"]
      copied == IF Insertable("components", r) /\ disk.version >= 8 THEN {1, 7, 8} ELSE {1}
  IN  [k \in RowKeys("components") |-> (r[k] \cap copied) \ (IF k = 1 THEN {8} ELSE {})]

(* The columns of migration 4.                                             *)
LoadSources ==
  LET r == [k \in RowKeys("upstream_sources") |-> disk.rows["upstream_sources"][k] \cap {4}]
  IN  IF Insertable("upstream_sources", r) THEN Replaced("upstream_sources", r)
      ELSE memory.rows["upstream_sources"]

MUT_ForgetOldSources == memory.rows["upstream_sources"]

(* A file from before migration 4 has two tables instead.                  *)
LoadOldSources ==
  LET from(t, k) == IF t \in Tables /\ disk.rows[t][k] # {} /\ Referable("upstream_sources", k)
                    THEN {4} ELSE memory.rows["upstream_sources"][k]
  IN  [k \in RowKeys("upstream_sources") |->
         IF k = System THEN from("source_defaults", System) ELSE from("user_sources", User)]

(* The columns of migration 1.                                             *)
LoadDownloads ==
  LET r == [k \in RowKeys("download_jobs") |-> disk.rows["download_jobs"][k] \cap {1}]
  IN  IF Insertable("download_jobs", r) THEN Replaced("download_jobs", r)
      ELSE memory.rows["download_jobs"]

Loaded(t) ==
  IF ~Exists(t, disk.version)
  THEN IF t = "upstream_sources" THEN LoadOldSources ELSE memory.rows[t]
  ELSE IF t = "roles" THEN LoadRoles
  ELSE IF t = "components" THEN LoadComponents
  ELSE IF t = "upstream_sources" THEN LoadSources
  ELSE IF t = "download_jobs" THEN LoadDownloads
  ELSE IF t \in {"board_profiles", "toolchain_profiles"} THEN LoadProfiles(t)
  ELSE LoadWhole(t)

(* Where in the order the tables are that are followed and still to come.  *)
Left == {i \in (loaded + 1)..Len(LoadOrder) : LoadOrder[i] \in Tables}

LoadTable ==
  /\ phase = "loading"
  /\ \E i \in Left :
       /\ \A j \in Left : i <= j
       /\ memory' = [memory EXCEPT !.rows = [@ EXCEPT ![LoadOrder[i]] = Loaded(LoadOrder[i])]]
       /\ loaded' = i
  /\ UNCHANGED <<disk, temp, phase, statements, starts>>

(* New returns, and the server serves.                                     *)
Serve ==
  \/ /\ phase = "loading" /\ Left = {}
     /\ phase' = "serving" /\ loaded' = 0
     /\ UNCHANGED <<memory, disk, temp, statements, starts>>
  \/ /\ phase = "resetting" /\ memory.version = Newest
     /\ phase' = "serving"
     /\ UNCHANGED <<memory, disk, temp, loaded, statements, starts>>

-----------------------------------------------------------------------------
(* Statements of handlers and workers.  They run in every phase in which   *)
(* the process serves or its workers have not been stopped: nothing stops  *)
(* the workers before the database is saved and closed.                    *)
Open4Writes == phase \in {"serving", "closing", "saving", "saved", "resetting"}

InsertRow(t, k) ==
  /\ Open4Writes /\ statements < MaxWrites
  /\ Exists(t, memory.version) /\ k \in {User, System} /\ Owned(t, k)
  /\ memory.rows[t][k] = {} /\ Referable(t, k)
  /\ memory' = [memory EXCEPT !.rows[t][k] = {Created[t]}]
  /\ statements' = statements + 1
  /\ UNCHANGED <<disk, temp, phase, loaded, starts>>

(* An edit fills the columns that a new row leaves at their defaults.      *)
EditRow(t, k) ==
  /\ Open4Writes /\ statements < MaxWrites
  /\ memory.rows[t][k] # {} /\ (t = "roles" => k = User)
  /\ memory' = [memory EXCEPT !.rows[t][k] = Columns(t, memory.version)]
  /\ statements' = statements + 1
  /\ UNCHANGED <<disk, temp, phase, loaded, starts>>

(* A deletion takes the rows along that refer to the row, but for builds:  *)
(* a distribution that has some is not deleted.                            *)
Children(T) == {t \in Tables : Parents(t) \cap T # {}}

Orphaned(t) == LET D1 == Children({t}) D2 == Children(D1) IN D1 \cup D2

DeleteRows(t, k) ==
  /\ Open4Writes /\ statements < MaxWrites
  /\ memory.rows[t][k] # {} /\ (t = "roles" => k = User)
  /\ t \notin {"board_profiles", "toolchain_profiles"} \/ k = User
  /\ t = "distributions" /\ "build_jobs" \in Tables => memory.rows["build_jobs"][User] = {}
  /\ memory' = [memory EXCEPT !.rows =
       [u \in Tables |-> IF u = t THEN [@[t] EXCEPT ![k] = {}]
                         ELSE IF k = User /\ u \in Orphaned(t)
                         THEN [@[u] EXCEPT ![User] = {}] ELSE @[u]]]
  /\ statements' = statements + 1
  /\ UNCHANGED <<disk, temp, phase, loaded, starts>>

-----------------------------------------------------------------------------
(* A signal: the HTTP server is shut down, within 30 seconds or with an    *)
(* error; either way the database is saved next.                           *)
Signal ==
  /\ phase = "serving"
  /\ phase' = "closing"
  /\ UNCHANGED <<memory, disk, temp, loaded, statements, starts>>

MUT_SaveInPlace ==
  /\ phase = "closing"
  /\ disk' = Torn /\ temp' = Torn
  /\ phase' = "saving"
  /\ UNCHANGED <<memory, loaded, statements, starts>>

(* persistToDisk: an older temporary file goes, and VACUUM INTO writes a   *)
(* new one, which takes time; it may fail.                                 *)
SaveBegin ==
  /\ phase = "closing"
  /\ temp' = Torn
  /\ phase' = "saving"
  /\ UNCHANGED <<memory, disk, loaded, statements, starts>>

SaveVacuum ==
  /\ phase = "saving"
  /\ temp' = memory
  /\ phase' = "saved"
  /\ UNCHANGED <<memory, disk, loaded, statements, starts>>

SaveFails ==
  /\ phase \in {"saving", "saved"}
  /\ temp' = NoSave
  /\ phase' = "down"
  /\ UNCHANGED <<memory, disk, loaded, statements, starts>>

(* The rename; the database is closed and the process ends.                *)
SaveRename ==
  /\ phase = "saved"
  /\ disk' = temp
  /\ temp' = NoSave
  /\ phase' = "down"
  /\ UNCHANGED <<memory, loaded, statements, starts>>

Crash ==
  /\ phase # "down"
  /\ phase' = "down"
  /\ loaded' = 0
  /\ UNCHANGED <<memory, disk, temp, statements, starts>>

-----------------------------------------------------------------------------
(* ResetToDefaults: the file goes first, then every table, then the        *)
(* migrations run again, all while the server serves.                      *)
ResetRemove ==
  /\ phase = "serving" /\ statements < MaxWrites
  /\ disk' = NoSave
  /\ phase' = "dropping"
  /\ statements' = statements + 1
  /\ UNCHANGED <<memory, temp, loaded, starts>>

ResetDrop ==
  /\ phase = "dropping"
  /\ memory' = Fresh
  /\ phase' = "resetting"
  /\ UNCHANGED <<disk, temp, loaded, statements, starts>>

PersistNext ==
  \/ Open \/ Migrate \/ Migrations \/ LoadTable \/ Serve
  \/ \E t \in Tables : \E k \in RowKeys(t) : InsertRow(t, k) \/ EditRow(t, k) \/ DeleteRows(t, k)
  \/ Signal \/ SaveBegin \/ SaveVacuum \/ SaveFails \/ SaveRename
  \/ Crash \/ ResetRemove \/ ResetDrop

PersistSpec == PersistInit /\ [][PersistNext]_persistVars

-----------------------------------------------------------------------------
(* The tables LoadFromDisk does not know.                                  *)
Unsaved == {"source_versions", "version_sync_jobs", "language_packs"}

References(m) == \A t \in Tables : m.rows[t][User] # {} =>
                   \A p \in Parents(t) : m.rows[p][User] # {}

(* Types.                                                                  *)
PersistTypeOK ==
  /\ memory.version \in 0..Newest /\ temp.version \in 0..(Newest + 1)
  /\ \A t \in Tables : memory.rows[t] \in [RowKeys(t) -> SUBSET Columns(t, Newest)]
  /\ phase \in {"down", "migrating", "loading", "serving", "closing", "saving", "saved",
                "dropping", "resetting"}
  /\ phase \in {"loading", "serving", "closing", "saving", "saved"} => memory.version = Newest

(* The file is at every moment a whole save of a consistent database, or   *)
(* not there: a crash or an error in the middle of a save leaves the last  *)
(* one (persistToDisk writes beside it and renames).  That its rows refer  *)
(* only to rows it has is what the next load relies on.                    *)
FileIsWhole == disk.version <= Newest /\ References(disk)

(* What is in memory refers only to what is in memory, whatever tables of  *)
(* an old file failed to load, and while tables are dropped and made again.*)
MemoryReferences == References(memory)

(* A restart of the same release restores the rows of every table it       *)
(* loads, no fewer and no more: rows that were deleted, seeded ones too,   *)
(* do not come back, and no column gets a value it did not have.           *)
RestartRestores ==
  phase = "loading" /\ Left = {} /\ disk.version = Newest =>
    \A t \in Tables \ Unsaved : \A k \in RowKeys(t) :
      /\ memory.rows[t][k] = {} <=> disk.rows[t][k] = {}
      /\ memory.rows[t][k] \subseteq disk.rows[t][k]

(* A file of any older release loses none of its users, distributions,     *)
(* components, sources and downloads, which are copied by their columns.   *)
UpgradeKeepsRows ==
  phase = "loading" /\ Left = {} =>
    /\ \A t \in Tables \cap {"users", "distributions", "components", "download_jobs",
                             "upstream_sources"} :
         \A k \in RowKeys(t) : disk.rows[t][k] # {} => memory.rows[t][k] # {}
    /\ "upstream_sources" \in Tables =>
         \A t \in Tables, k \in {User, System} :
           /\ <<t, k>> \in {<<"user_sources", User>>, <<"source_defaults", System>>}
           /\ disk.rows[t][k] # {} /\ Exists(t, disk.version)
           => memory.rows["upstream_sources"][k] # {}
=============================================================================
