-------------------------- MODULE PersistenceProofs --------------------------
(***************************************************************************)
(* Proofs about the database: the migrations, the load of a file by        *)
(* LoadFromDisk, the statements of a server and the save through a         *)
(* temporary file, with a crash at any step.  Every database that there    *)
(* is, in memory or on disk, is Sound: its rows are in tables that its     *)
(* version has, have columns that some migration makes, and refer to rows  *)
(* that are there.  The theorems hold for any set of tables that is closed *)
(* under the foreign keys and any number of restarts; the schema itself is *)
(* that of the source.                                                     *)
(***************************************************************************)
EXTENDS Persistence, TLAPS

(***************************************************************************)
(* The schema.                                                             *)
(***************************************************************************)
CreatesAt(m) ==
  IF m = 1 THEN InitialTables
  ELSE IF m = 4 THEN {"upstream_sources"}
  ELSE IF m = 6 THEN {"refresh_tokens"}
  ELSE IF m = 12 THEN {"build_jobs", "build_stages", "build_logs"}
  ELSE IF m = 14 THEN {"board_profiles"}
  ELSE IF m = 16 THEN {"artifact_cache", "mirror_configs"}
  ELSE IF m = 17 THEN {"toolchain_profiles"}
  ELSE {}
\* The tables to which a migration adds columns,
AddsAt(m) ==
  IF m = 2 THEN {"source_versions"}
  ELSE IF m = 3 THEN {"source_defaults", "user_sources"}
  ELSE IF m \in {7, 8, 15} THEN {"components"}
  ELSE IF m \in {9, 11} THEN {"upstream_sources"}
  ELSE IF m \in {10, 16} THEN {"download_jobs"}
  ELSE IF m = 13 THEN {"build_jobs"}
  ELSE {}
\* in which it inserts rows,
SeedsAt(m) ==
  IF m = 1 THEN {"roles", "components"}
  ELSE IF m = 14 THEN {"board_profiles"}
  ELSE IF m = 17 THEN {"toolchain_profiles"}
  ELSE IF m \in {18, 19} THEN {"components"}
  ELSE {}
\* and which it drops.
DropsAt(m) ==
  IF m = 4 THEN {"source_defaults", "user_sources"}
  ELSE IF m = 5 THEN {"distribution_source_overrides"}
  ELSE {}

\* The schema by migration is the schema by table.
LEMMA SchemaParts ==
  /\ Newest = 20
  /\ \A m \in 1..20 : /\ Schema[m].creates = CreatesAt(m) /\ Schema[m].adds = AddsAt(m)
                      /\ Schema[m].seeds = SeedsAt(m) /\ Schema[m].drops = DropsAt(m)
  <1>1. Newest = 20
    BY DEF Newest, Schema
  <1> USE DEF Migration, CreatesAt, AddsAt, SeedsAt, DropsAt
  <1> DEFINE P(m) == /\ Schema[m].creates = CreatesAt(m) /\ Schema[m].adds = AddsAt(m)
                     /\ Schema[m].seeds = SeedsAt(m) /\ Schema[m].drops = DropsAt(m)
  <1>a. P(1)
    BY DEF Schema, InitialSchema, SeedRoles, SeedComponents
  <1>b. P(2)
    BY DEF Schema, AddVersionType
  <1>c. P(3)
    BY DEF Schema, MultiComponentSources
  <1>d. P(4)
    BY DEF Schema, MergeSources
  <1>e. P(5)
    BY DEF Schema, RemoveDistributionOverrides
  <1>f. P(6)
    BY DEF Schema, RefreshTokens
  <1>g. P(7)
    BY DEF Schema, ComponentVersions
  <1>h. P(8)
    BY DEF Schema, ComponentBuildTypes
  <1>i. P(9)
    BY DEF Schema, ForgeTypeVersionFilter
  <1>j. P(10)
    BY DEF Schema, DownloadJobSourceDedup
  <1>k. P(11)
    BY DEF Schema, SourceDefaultVersion
  <1>l. P(12)
    BY DEF Schema, BuildJobs
  <1>m. P(13)
    BY DEF Schema, BuildClearCache
  <1>n. P(14)
    BY DEF Schema, BoardProfiles
  <1>o. P(15)
    BY DEF Schema, ArchSupport
  <1>p. P(16)
    BY DEF Schema, DownloadCache
  <1>q. P(17)
    BY DEF Schema, ToolchainProfiles
  <1>r. P(18)
    BY DEF Schema, ToolchainComponents
  <1>s. P(19)
    BY DEF Schema, ToolchainComponentsCross
  <1>t. P(20)
    BY DEF Schema, ProfileUUIDIDs
  <1> HIDE DEF P
  <1>2. ASSUME NEW m \in 1..20 PROVE P(m)
    <2>1. m \in {1, 2, 3, 4, 5, 6, 7, 8, 9, 10, 11, 12, 13, 14, 15, 16, 17, 18, 19, 20}
      OBVIOUS
    <2> QED
      BY <2>1, <1>a, <1>b, <1>c, <1>d, <1>e, <1>f, <1>g, <1>h, <1>i, <1>j, <1>k, <1>l, <1>m,
         <1>n, <1>o, <1>p, <1>q, <1>r, <1>s, <1>t
  <1> QED
    BY <1>1, <1>2 DEF P

LaterTables == {"upstream_sources", "refresh_tokens", "build_jobs", "build_stages", "build_logs",
                "board_profiles", "artifact_cache", "mirror_configs", "toolchain_profiles"}

\* What the proofs need of the schema.
LEMMA SchemaFacts ==
  /\ AllTables = InitialTables \cup LaterTables
  /\ \A t \in AllTables : Created[t] \in 1..20
  /\ \A t \in InitialTables : Created[t] = 1
  /\ Created["upstream_sources"] = 4 /\ Created["refresh_tokens"] = 6
  /\ \A t \in {"build_jobs", "build_stages", "build_logs"} : Created[t] = 12
  /\ Created["board_profiles"] = 14 /\ Created["toolchain_profiles"] = 17
  <1>1. AllTables = UNION {CreatesAt(m) : m \in 1..20}
    BY SchemaParts DEF AllTables
  <1>2. \A t \in AllTables : Created[t] = CHOOSE m \in 1..20 : t \in CreatesAt(m)
    BY SchemaParts DEF Created
  <1>3. UNION {CreatesAt(m) : m \in 1..20} = InitialTables \cup LaterTables
    <2>1. \A m \in 1..20 : CreatesAt(m) \subseteq InitialTables \cup LaterTables
      BY DEF CreatesAt, LaterTables
    <2>2. \A t \in InitialTables : t \in CreatesAt(1)
      BY DEF CreatesAt
    <2>3. \A t \in LaterTables : \E m \in {4, 6, 12, 14, 16, 17} : t \in CreatesAt(m)
      BY DEF CreatesAt, LaterTables
    <2> QED
      BY <2>1, <2>2, <2>3
  <1>4. \A m, n \in 1..20 : \A t \in CreatesAt(m) : t \in CreatesAt(n) => m = n
    BY DEF CreatesAt, InitialTables
  <1>5. \A m \in 1..20 : \A t \in CreatesAt(m) : Created[t] = m
    BY <1>1, <1>2, <1>4
  <1>6. \A t \in AllTables : \E m \in 1..20 : t \in CreatesAt(m)
    BY <1>1
  <1> QED
    BY <1>1, <1>3, <1>5, <1>6 DEF CreatesAt

Profiles == {"board_profiles", "toolchain_profiles"}
\* The tables in which migrations insert rows.
Seeded == {"roles", "components"} \cup Profiles

\* What the migrations do with a table.
LEMMA TableFacts ==
  ASSUME NEW t \in AllTables
  PROVE  /\ Added[t] = {m \in 1..20 : t \in AddsAt(m)}
         /\ SeededBy[t] = {m \in 1..20 : t \in SeedsAt(m)}
         /\ Dropped[t] = {m \in 1..20 : t \in DropsAt(m)}
         /\ t \in {"users", "distributions"} => Added[t] = {}
         /\ t \notin Seeded => SeededBy[t] = {}
         /\ t = "roles" => SeededBy[t] = {1}
         /\ \A m \in SeededBy[t] : m \in 1..20 /\ Created[t] <= m
         /\ \A m \in Added[t] : m \in 1..20
         /\ \A m \in Dropped[t] : m \in {4, 5}
         /\ t \notin Merged \cup {"distribution_source_overrides"} => Dropped[t] = {}
         /\ t \in Merged => Dropped[t] = {4}
         /\ t = "distribution_source_overrides" => Dropped[t] = {5}
  <1>1. /\ Added[t] = {m \in 1..20 : t \in AddsAt(m)}
        /\ SeededBy[t] = {m \in 1..20 : t \in SeedsAt(m)}
        /\ Dropped[t] = {m \in 1..20 : t \in DropsAt(m)}
    BY SchemaParts DEF Added, SeededBy, Dropped
  <1>2. t \in {"users", "distributions"} => Added[t] = {}
    BY <1>1 DEF AddsAt
  <1>3. (t \notin Seeded => SeededBy[t] = {}) /\ (t = "roles" => SeededBy[t] = {1})
    BY <1>1 DEF SeedsAt, Seeded, Profiles
  <1>4. \A m \in SeededBy[t] : m \in 1..20 /\ Created[t] <= m
    <2>1. "roles" \in InitialTables /\ "components" \in InitialTables
      BY DEF InitialTables
    <2>2. Created["roles"] = 1 /\ Created["components"] = 1
      BY <2>1, SchemaFacts
    <2> QED
      BY <1>1, <2>2, SchemaFacts DEF SeedsAt
  <1>5. Merged = {"source_defaults", "user_sources"}
    BY DEF Merged, MergeSources, Migration
  <1> QED
    BY <1>1, <1>2, <1>3, <1>4, <1>5 DEF DropsAt

-----------------------------------------------------------------------------
(***************************************************************************)
(* The inductive invariant.                                                *)
(***************************************************************************)
\* A database: of each table that is followed, its rows.
Typed(d) ==
  /\ d = [version |-> d.version, rows |-> d.rows] /\ d.version \in 0..(Newest + 1)
  /\ d.rows = [t \in Tables |-> d.rows[t]]
  /\ \A t \in Tables : d.rows[t] \in [RowKeys(t) -> SUBSET Columns(t, Newest)]

\* Rows are in tables that there are, and have the values of a first insert.
RowsExist(d) ==
  \A t \in Tables : \A k \in RowKeys(t) :
    d.rows[t][k] # {} => Exists(t, d.version) /\ Created[t] \in d.rows[t][k]

\* The roles of the system are there from the first migration on.
HasRoles(d) == "roles" \in Tables /\ d.version >= 1 => d.rows["roles"][1] = {1}

\* A database that the server or a load may be given.
Sound(d) == Typed(d) /\ RowsExist(d) /\ HasRoles(d) /\ References(d)

\* No row but those that migrations seed.
Unfilled(t) == \A k \in RowKeys(t) : k \notin SeededBy[t] => memory.rows[t][k] = {}

\* The tables whose rows a load brings along from a file of any age,
Copied == {"users", "distributions", "components", "download_jobs", "upstream_sources"}
Kept(t) ==
  /\ t \in Copied => \A k \in RowKeys(t) : disk.rows[t][k] # {} => memory.rows[t][k] # {}
  /\ t = "upstream_sources" => \A u \in Tables, k \in {User, System} :
       /\ <<u, k>> \in {<<"user_sources", User>>, <<"source_defaults", System>>}
       /\ disk.rows[u][k] # {} /\ Exists(u, disk.version)
       => memory.rows[t][k] # {}
\* and what it restores of a file of this release.
Restored(t) ==
  disk.version = Newest => \A k \in RowKeys(t) : /\ memory.rows[t][k] = {} <=> disk.rows[t][k] = {}
                                                 /\ memory.rows[t][k] \subseteq disk.rows[t][k]

\* LoadFromDisk has come to a table.
Passed(t) == \E i \in 1..loaded : LoadOrder[i] = t

Phases == {"down", "migrating", "loading", "serving", "closing", "saving", "saved", "dropping", "resetting"}

\* Both databases are sound.  While tables are loaded, those that the load has
\* passed have the rows of the file, and the others those of the migrations only:
\* what a row refers to was loaded before it.
PersistInv ==
  /\ phase \in Phases /\ loaded \in 0..Len(LoadOrder)
  /\ memory.version \in 0..Newest /\ disk.version \in 0..Newest /\ temp.version \in 0..(Newest + 1)
  /\ Sound(memory) /\ Sound(disk)
  /\ phase = "saved" => temp.version = Newest /\ Sound(temp)
  /\ phase \in {"loading", "serving", "closing", "saving", "saved"} => memory.version = Newest
  /\ phase # "loading" => loaded = 0
  /\ phase = "migrating" => \A t \in Tables : Unfilled(t)
  /\ phase = "loading" => \A t \in Tables : IF Passed(t) THEN Kept(t) /\ Restored(t) ELSE Unfilled(t)

\* The tables that others refer to are as old as those, and never dropped.
LEMMA ParentFacts ==
  ASSUME NEW t \in Tables, NEW p \in Parents(t)
  PROVE  /\ p \in Tables /\ p \in {"users", "distributions", "components", "build_jobs"}
         /\ Created[p] <= Created[t] /\ Dropped[p] = {}
         /\ <<t, p>> \in ForeignKeys
  <1>1. p \in Tables /\ <<t, p>> \in ForeignKeys
    BY DEF Parents
  <1>2. t \in AllTables /\ p \in AllTables
    BY <1>1, PersistenceAssumption DEF PersistenceAssumption
  <1>3. p \in {"users", "distributions", "components", "build_jobs"}
        /\ (p = "build_jobs" => t \in {"build_stages", "build_logs"})
    BY <1>1 DEF ForeignKeys
  <1>4. p # "build_jobs" => p \in InitialTables
    BY <1>3 DEF InitialTables
  <1>5. Created[p] <= Created[t]
    BY <1>2, <1>3, <1>4, SchemaFacts
  <1>6. Dropped[p] = {}
    BY <1>2, <1>3, TableFacts DEF Merged, MergeSources, Migration
  <1> QED
    BY <1>1, <1>3, <1>5, <1>6

LEMMA KeyFacts ==
  ASSUME NEW t \in Tables
  PROVE  /\ t \in AllTables /\ Created[t] \in 1..20 /\ Newest = 20
         /\ User \in RowKeys(t) /\ User \notin SeededBy[t]
         /\ t \in {"source_defaults", "upstream_sources"} =>
              RowKeys(t) = {User, System} /\ System \notin SeededBy[t]
         /\ t = "roles" => 1 \in RowKeys(t)
         /\ Created[t] \in Columns(t, Newest)
         /\ \A c \in Columns(t, Newest) : c \in 1..20
  <1>1. t \in AllTables
    BY PersistenceAssumption DEF PersistenceAssumption
  <1>2. Created[t] \in 1..20 /\ Newest = 20
    BY <1>1, SchemaFacts, SchemaParts
  <1>3. SeededBy[t] \subseteq 1..20 /\ (t \notin Seeded => SeededBy[t] = {})
        /\ (t = "roles" => SeededBy[t] = {1}) /\ Added[t] \subseteq 1..20
    BY <1>1, TableFacts
  <1> QED
    BY <1>1, <1>2, <1>3 DEF User, System, RowKeys, Columns, Seeded, Profiles

\* The empty database is sound.
LEMMA FreshSound == Sound(Fresh) /\ \A t \in Tables : \A k \in RowKeys(t) : Fresh.rows[t][k] = {}
  <1>1. Fresh.version = 0 /\ Fresh.rows = NoRows /\ Fresh = [version |-> Fresh.version, rows |-> Fresh.rows]
    BY DEF Fresh
  <1>2. \A t \in Tables : NoRows[t] = [k \in RowKeys(t) |-> {}]
    BY DEF NoRows
  <1>3. NoRows = [t \in Tables |-> NoRows[t]]
    BY DEF NoRows
  <1>4. Typed(Fresh)
    BY <1>1, <1>2, <1>3, SchemaParts DEF Typed
  <1>5. \A t \in Tables : \A k \in RowKeys(t) : Fresh.rows[t][k] = {}
    BY <1>1, <1>2
  <1>6. References(Fresh)
    BY <1>5, KeyFacts DEF References
  <1> QED
    BY <1>1, <1>4, <1>5, <1>6 DEF Sound, RowsExist, HasRoles

\* So is a file that an older release has saved.
LEMMA OldFilesSound ==
  ASSUME NEW d \in OldFiles
  PROVE  Sound(d) /\ d.version \in 1..Newest
  <1>1. PICK v \in OldVersions : \E r \in OldRows(v) : d = [version |-> v, rows |-> r]
    BY DEF OldFiles
  <1>2. PICK r \in OldRows(v) : d = [version |-> v, rows |-> r]
    BY <1>1
  <1>3. v \in 1..20 /\ d.version = v /\ d.rows = r /\ Newest = 20
    BY <1>2, SchemaParts, PersistenceAssumption DEF PersistenceAssumption
  <1>4. PICK full \in {[t \in Tables |-> Columns(t, v)], [t \in Tables |-> {}]} :
          r = [t \in Tables |-> [k \in RowKeys(t) |->
                IF ~Exists(t, v) \/ (k # User /\ k > v) \/ ~Owned(t, k) THEN {}
                ELSE IF k = User \/ t \in Merged \cup {"upstream_sources"} THEN full[t]
                ELSE {Created[t]}]]
    BY DEF OldRows
  <1>5. \A t \in Tables : \A k \in RowKeys(t) :
          r[t][k] = IF ~Exists(t, v) \/ (k # User /\ k > v) \/ ~Owned(t, k) THEN {}
                    ELSE IF k = User \/ t \in Merged \cup {"upstream_sources"} THEN full[t]
                    ELSE {Created[t]}
    BY <1>4
  <1>6. (\A t \in Tables : full[t] = Columns(t, v)) \/ (\A t \in Tables : full[t] = {})
    BY <1>4
  <1>7. ASSUME NEW t \in Tables
        PROVE  /\ Columns(t, v) \subseteq Columns(t, Newest)
               /\ Exists(t, v) => Created[t] \in Columns(t, v)
    BY <1>3, KeyFacts, TableFacts DEF Columns, Exists
  <1>a. ASSUME NEW t \in Tables, NEW k \in RowKeys(t)
        PROVE  /\ r[t][k] \in {{}, {Created[t]}, Columns(t, v)}
               /\ r[t][k] # {} => Exists(t, v)
    BY <1>5, <1>6
  <1>8. Typed(d)
    <2>1. ASSUME NEW t \in Tables, NEW k \in RowKeys(t) PROVE r[t][k] \subseteq Columns(t, Newest)
      <3>1. {Created[t]} \subseteq Columns(t, Newest) /\ Columns(t, v) \subseteq Columns(t, Newest)
        BY <1>7, KeyFacts
      <3> QED
        BY <1>a, <3>1
    <2>2. r = [t \in Tables |-> r[t]] /\ \A t \in Tables : r[t] = [k \in RowKeys(t) |-> r[t][k]]
      BY <1>4
    <2>3. \A t \in Tables : r[t] \in [RowKeys(t) -> SUBSET Columns(t, Newest)]
      BY <2>1, <2>2
    <2> QED
      BY <1>2, <1>3, <2>2, <2>3 DEF Typed
  <1>9. RowsExist(d)
    BY <1>3, <1>7, <1>a DEF RowsExist
  <1>10. HasRoles(d)
    <2>1. SUFFICES ASSUME "roles" \in Tables PROVE r["roles"][1] = {1}
      BY <1>3 DEF HasRoles
    <2>2. "roles" \in AllTables /\ "roles" \in InitialTables /\ "roles" \notin Merged
      BY <2>1, KeyFacts DEF InitialTables, Merged, MergeSources, Migration
    <2>3. Created["roles"] = 1 /\ Dropped["roles"] = {} /\ 1 \in RowKeys("roles")
      BY <2>1, <2>2, SchemaFacts, TableFacts, KeyFacts
    <2>4. Exists("roles", v)
      BY <1>3, <2>3 DEF Exists
    <2>5. r["roles"][1] = IF ~Exists("roles", v) \/ (1 # User /\ 1 > v) \/ ~Owned("roles", 1) THEN {}
                          ELSE IF 1 = User \/ "roles" \in Merged \cup {"upstream_sources"} THEN full["roles"]
                          ELSE {Created["roles"]}
      BY <1>5, <2>1, <2>3
    <2> QED
      BY <1>3, <2>2, <2>3, <2>4, <2>5 DEF User, Owned
  <1>11. References(d)
    <2> SUFFICES ASSUME NEW t \in Tables, r[t][User] # {}, NEW p \in Parents(t)
                 PROVE  r[p][User] # {}
      BY <1>3 DEF References
    <2>1. p \in Tables /\ Created[p] <= Created[t] /\ Dropped[p] = {} /\ Created[p] \in 1..20 /\ Created[t] \in 1..20
      BY ParentFacts, KeyFacts
    <2>2. Exists(t, v) /\ full[t] # {}
      BY <1>5, KeyFacts
    <2>3. Exists(p, v)
      BY <1>3, <2>1, <2>2 DEF Exists
    <2>4. r[p][User] = full[p] /\ full[p] = Columns(p, v)
      <3>1. Owned(p, User)
        BY ParentFacts DEF Owned
      <3> QED
        BY <1>5, <1>6, <2>1, <2>2, <2>3, <3>1, KeyFacts
    <2> QED
      BY <1>7, <2>1, <2>3, <2>4
  <1> QED
    BY <1>3, <1>8, <1>9, <1>10, <1>11 DEF Sound

\* The server starts with any of them.
LEMMA PersistStart == PersistInit => PersistInv
  <1> SUFFICES ASSUME PersistInit PROVE PersistInv
    OBVIOUS
  <1>1. /\ memory = Fresh /\ disk \in {NoSave} \cup OldFiles /\ temp = NoSave /\ phase = "down"
        /\ loaded = 0 /\ Newest = 20 /\ Fresh.version = 0
    BY SchemaParts DEF PersistInit, Fresh
  <1>2. Sound(disk) /\ disk.version \in 0..Newest
    BY <1>1, OldFilesSound, FreshSound DEF NoSave
  <1>3. Len(LoadOrder) = 17
    BY DEF LoadOrder
  <1> QED
    BY <1>1, <1>2, <1>3, FreshSound DEF PersistInv, Phases, NoSave

\* What a migration makes of a row.
LEMMA MigratedRow ==
  ASSUME PersistInv, NEW t \in Tables, NEW k \in RowKeys(t), memory.version < Newest
  PROVE  LET m == memory.version + 1
             r == Migrated(m, t)[k]
         IN  /\ r \subseteq Columns(t, Newest)
             /\ r # {} => Exists(t, m) /\ Created[t] \in r
             /\ k = User /\ r # {} =>
                  \/ memory.rows[t][User] # {}
                  \/ /\ t = "upstream_sources" /\ "user_sources" \in Tables
                     /\ memory.rows["user_sources"][User] # {}
             /\ k \notin SeededBy[t] /\ (\A u \in Tables : Unfilled(u)) => r = {}
  <1> DEFINE m == memory.version + 1
             r == Migrated(m, t)[k]
  <1>1. m \in 1..20 /\ memory.version \in 0..19 /\ Newest = 20
    <2>1. memory.version \in 0..Newest
      BY DEF PersistInv
    <2> QED
      BY <2>1, SchemaParts
  <1>2. r = IF t \in Schema[m].drops THEN {}
            ELSE IF m = 4 /\ t = "upstream_sources" THEN Merge(k)
            ELSE IF m \in SeededBy[t] /\ k = m THEN {Created[t]}
            ELSE memory.rows[t][k]
    BY DEF Migrated
  <1>3. memory.rows[t][k] \subseteq Columns(t, Newest)
        /\ (memory.rows[t][k] # {} => Exists(t, memory.version) /\ Created[t] \in memory.rows[t][k])
    BY DEF PersistInv, Sound, Typed, RowsExist
  <1>4. t \in AllTables /\ Created[t] \in 1..20 /\ Created[t] \in Columns(t, Newest) /\ User \notin SeededBy[t]
    BY KeyFacts
  <1>5. Dropped[t] = {n \in 1..20 : t \in Schema[n].drops}
    BY <1>1, <1>4, SchemaParts DEF Dropped
  <1> HIDE DEF m, r
  <1>6. CASE t \in Schema[m].drops
    BY <1>2, <1>6 DEF m, r
  <1>7. CASE t \notin Schema[m].drops /\ m = 4 /\ t = "upstream_sources"
    <2>1. RowKeys(t) = {User, System} /\ Created[t] = 4 /\ Dropped[t] = {}
      BY <1>4, <1>7, KeyFacts, SchemaFacts, TableFacts DEF Merged, MergeSources, Migration
    <2> DEFINE u == IF k = System THEN "source_defaults" ELSE "user_sources"
    <2>2. r = IF u \in Tables /\ memory.rows[u][k] # {} THEN {4} ELSE {}
      BY <1>2, <1>7 DEF Merge
    <2>3. Exists(t, m)
      BY <1>7, <2>1 DEF Exists
    <2>4. u \in Tables => k \in RowKeys(u) /\ SeededBy[u] = {}
      BY <2>1, KeyFacts, TableFacts DEF Seeded, Profiles
    <2>5. k \notin SeededBy[t] /\ (\A w \in Tables : Unfilled(w)) => r = {}
      BY <2>2, <2>4 DEF Unfilled
    <2>6. k = User => u = "user_sources"
      BY DEF User, System
    <2> QED
      BY <1>4, <1>7, <2>1, <2>2, <2>3, <2>5, <2>6 DEF m, r
  <1>8. CASE t \notin Schema[m].drops /\ ~(m = 4 /\ t = "upstream_sources") /\ m \in SeededBy[t] /\ k = m
    <2>1. r = {Created[t]} /\ k # User
      BY <1>2, <1>4, <1>8
    <2>2. Created[t] <= m /\ Dropped[t] = {}
      BY <1>4, <1>8, TableFacts DEF Merged, MergeSources, Migration, Seeded, Profiles
    <2>3. Exists(t, m)
      BY <2>2 DEF Exists
    <2> QED
      BY <1>4, <1>8, <2>1, <2>3 DEF m, r
  <1>9. CASE t \notin Schema[m].drops /\ ~(m = 4 /\ t = "upstream_sources") /\ ~(m \in SeededBy[t] /\ k = m)
    <2>1. r = memory.rows[t][k]
      BY <1>2, <1>9
    <2>2. Exists(t, memory.version) => Exists(t, m)
      BY <1>1, <1>4, <1>5, <1>9 DEF Exists, m
    <2> QED
      BY <1>3, <2>1, <2>2 DEF m, r, Unfilled
  <1> QED
    BY <1>6, <1>7, <1>8, <1>9 DEF m, r

\* A migration adds the columns of its version to every row, moves the two tables
\* of sources into one, and deletes with a table its rows.
LEMMA MigrateKeeps ==
  ASSUME PersistInv, Migrate
  PROVE  PersistInv'
  <1> DEFINE m == memory.version + 1
  <1>1. /\ phase \in {"migrating", "resetting"} /\ memory.version \in 0..19 /\ Newest = 20 /\ m \in 1..20
        /\ memory' = [version |-> m, rows |-> [t \in Tables |-> Migrated(m, t)]]
        /\ UNCHANGED <<disk, temp, phase, loaded, statements, starts>>
    <2>1. memory.version \in 0..Newest
      BY DEF PersistInv
    <2> QED
      BY <2>1, SchemaParts DEF Migrate
  <1>2. /\ memory'.version = m /\ memory' = [version |-> memory'.version, rows |-> memory'.rows]
        /\ memory'.rows = [t \in Tables |-> memory'.rows[t]]
        /\ \A t \in Tables : memory'.rows[t] = Migrated(m, t)
    BY <1>1
  <1>3. \A t \in Tables : Migrated(m, t) = [k \in RowKeys(t) |-> Migrated(m, t)[k]]
    BY DEF Migrated
  <1>4. ASSUME NEW t \in Tables, NEW k \in RowKeys(t)
        PROVE  LET r == memory'.rows[t][k]
               IN  /\ r \subseteq Columns(t, Newest)
                   /\ r # {} => Exists(t, m) /\ Created[t] \in r
                   /\ k = User /\ r # {} =>
                        \/ memory.rows[t][User] # {}
                        \/ /\ t = "upstream_sources" /\ "user_sources" \in Tables
                           /\ memory.rows["user_sources"][User] # {}
                   /\ k \notin SeededBy[t] /\ (\A u \in Tables : Unfilled(u)) => r = {}
    BY <1>1, <1>2, MigratedRow
  <1> HIDE DEF m
  <1>5. Typed(memory')
    <2>1. \A t \in Tables : memory'.rows[t] \in [RowKeys(t) -> SUBSET Columns(t, Newest)]
      BY <1>2, <1>3, <1>4
    <2> QED
      BY <1>1, <1>2, <2>1 DEF Typed
  <1>6. RowsExist(memory')
    BY <1>2, <1>4 DEF RowsExist
  <1>7. HasRoles(memory')
    <2> SUFFICES ASSUME "roles" \in Tables PROVE memory'.rows["roles"][1] = {1}
      BY DEF HasRoles
    <2>1. "roles" \in AllTables /\ "roles" \in InitialTables /\ 1 \in RowKeys("roles")
      BY KeyFacts DEF InitialTables
    <2>2. Created["roles"] = 1 /\ SeededBy["roles"] = {1} /\ Dropped["roles"] = {}
      BY <2>1, SchemaFacts, TableFacts DEF Merged, MergeSources, Migration
    <2>3. "roles" \notin Schema[m].drops
      BY <1>1, SchemaParts DEF DropsAt
    <2>a. Migrated(m, "roles")[1] =
            IF "roles" \in Schema[m].drops THEN {}
            ELSE IF m = 4 /\ "roles" = "upstream_sources" THEN Merge(1)
            ELSE IF m \in SeededBy["roles"] /\ 1 = m THEN {Created["roles"]}
            ELSE memory.rows["roles"][1]
      BY <2>1 DEF Migrated
    <2>4. memory'.rows["roles"][1] = IF m = 1 THEN {1} ELSE memory.rows["roles"][1]
      BY <1>1, <1>2, <2>2, <2>3, <2>a
    <2>5. m # 1 => memory.version >= 1
      BY <1>1 DEF m
    <2> QED
      BY <2>4, <2>5 DEF PersistInv, Sound, HasRoles
  <1>8. References(memory')
    <2> SUFFICES ASSUME NEW t \in Tables, memory'.rows[t][User] # {}, NEW p \in Parents(t)
                 PROVE  memory'.rows[p][User] # {}
      BY DEF References
    <2>1. p \in Tables /\ p \in {"users", "distributions", "components", "build_jobs"} /\ <<t, p>> \in ForeignKeys
      BY ParentFacts
    <2>2. memory.rows[p][User] # {}
      <3>1. CASE memory.rows[t][User] # {}
        BY <3>1 DEF PersistInv, Sound, References
      <3>2. CASE t = "upstream_sources" /\ "user_sources" \in Tables /\ memory.rows["user_sources"][User] # {}
        <4>1. p = "users"
          BY <2>1, <3>2 DEF ForeignKeys
        <4>2. p \in Parents("user_sources")
          BY <2>1, <4>1 DEF Parents, ForeignKeys
        <4> QED
          BY <3>2, <4>2 DEF PersistInv, Sound, References
      <3> QED
        BY <1>4, <3>1, <3>2, KeyFacts
    <2>3. memory'.rows[p][User] = memory.rows[p][User]
      <3>1. p \notin Schema[m].drops
        BY <1>1, <2>1, SchemaParts DEF DropsAt
      <3>2. User \in RowKeys(p) /\ User # m
        BY <1>1, <2>1, KeyFacts DEF User
      <3>3. Migrated(m, p)[User] =
              IF p \in Schema[m].drops THEN {}
              ELSE IF m = 4 /\ p = "upstream_sources" THEN Merge(User)
              ELSE IF m \in SeededBy[p] /\ User = m THEN {Created[p]}
              ELSE memory.rows[p][User]
        BY <3>2 DEF Migrated
      <3> QED
        BY <1>2, <2>1, <3>1, <3>2, <3>3
    <2> QED
      BY <2>2, <2>3
  <1>9. phase = "migrating" => \A t \in Tables : Unfilled(t)'
    BY <1>4 DEF PersistInv, Unfilled
  <1> QED
    BY <1>1, <1>2, <1>5, <1>6, <1>7, <1>8, <1>9 DEF PersistInv, Sound, Phases

-----------------------------------------------------------------------------
(***************************************************************************)
(* Statements.                                                             *)
(***************************************************************************)
\* A database whose rows have changed to others that are as sound.
LEMMA SoundAgain ==
  ASSUME Sound(memory), NEW STATE rows,
         memory' = [version |-> memory.version, rows |-> rows],
         rows = [t \in Tables |-> rows[t]],
         \A t \in Tables : rows[t] = [k \in RowKeys(t) |-> rows[t][k]],
         \A t \in Tables : \A k \in RowKeys(t) :
           \/ rows[t][k] = memory.rows[t][k]
           \/ rows[t][k] \subseteq Columns(t, Newest)
              /\ (rows[t][k] # {} => Exists(t, memory.version) /\ Created[t] \in rows[t][k]),
         "roles" \in Tables /\ memory.version >= 1 => rows["roles"][1] = memory.rows["roles"][1],
         \A t \in Tables : rows[t][User] # {} => \A p \in Parents(t) : rows[p][User] # {}
  PROVE  Sound(memory')
  <1>1. memory'.version = memory.version /\ memory'.rows = rows
        /\ memory' = [version |-> memory'.version, rows |-> memory'.rows]
    OBVIOUS
  <1>2. Typed(memory')
    <2>1. \A t \in Tables : \A k \in RowKeys(t) : rows[t][k] \subseteq Columns(t, Newest)
      BY DEF Sound, Typed
    <2>2. \A t \in Tables : rows[t] \in [RowKeys(t) -> SUBSET Columns(t, Newest)]
      BY <2>1
    <2> QED
      BY <1>1, <2>2 DEF Sound, Typed
  <1>3. RowsExist(memory')
    BY <1>1 DEF Sound, RowsExist
  <1>4. HasRoles(memory')
    BY <1>1 DEF Sound, HasRoles
  <1>5. References(memory')
    BY <1>1 DEF References
  <1> QED
    BY <1>2, <1>3, <1>4, <1>5 DEF Sound

\* A statement that keeps the database in memory sound keeps the rest.
LEMMA StatementKeeps ==
  ASSUME PersistInv, Open4Writes, Sound(memory'), memory'.version = memory.version,
         UNCHANGED <<disk, temp, phase, loaded, starts>>
  PROVE  PersistInv'
  <1>1. phase \in Phases \ {"migrating", "loading"}
    BY DEF Open4Writes, Phases
  <1> QED
    BY <1>1 DEF PersistInv, Phases

\* A new row refers to rows that there are.
LEMMA InsertKeeps ==
  ASSUME PersistInv, NEW t \in Tables, NEW k \in RowKeys(t), InsertRow(t, k)
  PROVE  PersistInv'
  <1> DEFINE row == [memory.rows[t] EXCEPT ![k] = {Created[t]}]
             rows == [memory.rows EXCEPT ![t] = row]
  <1>1. Sound(memory) /\ Typed(memory) /\ Exists(t, memory.version) /\ Referable(t, k)
    BY DEF PersistInv, Sound, InsertRow
  <1>2. memory = [version |-> memory.version, rows |-> memory.rows] /\ memory.rows = [u \in Tables |-> memory.rows[u]]
        /\ \A u \in Tables : memory.rows[u] = [j \in RowKeys(u) |-> memory.rows[u][j]]
    BY <1>1 DEF Typed
  <1>3. memory' = [version |-> memory.version, rows |-> rows]
    BY <1>2 DEF InsertRow
  <1>4. row[k] = {Created[t]} /\ (\A j \in RowKeys(t) : j # k => row[j] = memory.rows[t][j])
        /\ row = [j \in RowKeys(t) |-> row[j]]
    BY <1>2
  <1> HIDE DEF row
  <1>5. rows[t] = row /\ (\A u \in Tables : u # t => rows[u] = memory.rows[u])
        /\ rows = [u \in Tables |-> rows[u]]
    BY <1>2
  <1> HIDE DEF rows
  <1>6. \A u \in Tables : rows[u] = [j \in RowKeys(u) |-> rows[u][j]]
    BY <1>2, <1>4, <1>5
  <1>7. {Created[t]} \subseteq Columns(t, Newest)
    BY KeyFacts
  <1>8. \A u \in Tables : \A j \in RowKeys(u) :
           \/ rows[u][j] = memory.rows[u][j]
           \/ rows[u][j] \subseteq Columns(u, Newest)
              /\ (rows[u][j] # {} => Exists(u, memory.version) /\ Created[u] \in rows[u][j])
    BY <1>1, <1>4, <1>5, <1>7
  <1>9. "roles" \in Tables /\ memory.version >= 1 => rows["roles"][1] = memory.rows["roles"][1]
    <2>1. ASSUME t = "roles", k = 1, memory.version >= 1 PROVE FALSE
      BY <1>1, <2>1 DEF Sound, HasRoles, InsertRow
    <2> QED
      BY <1>4, <1>5, <2>1, KeyFacts
  <1>10. \A u \in Tables : rows[u][User] # {} => \A p \in Parents(u) : rows[p][User] # {}
    <2> SUFFICES ASSUME NEW u \in Tables, rows[u][User] # {}, NEW p \in Parents(u)
                 PROVE  rows[p][User] # {}
      OBVIOUS
    <2>1. p \in Tables /\ User \in RowKeys(p) /\ User \in RowKeys(u)
      BY ParentFacts, KeyFacts
    <2>2. memory.rows[p][User] # {}
      BY <1>1, <1>4, <1>5, <2>1 DEF Sound, References, Referable
    <2> QED
      BY <1>4, <1>5, <2>1, <2>2
  <1>11. Sound(memory')
    BY <1>1, <1>3, <1>5, <1>6, <1>8, <1>9, <1>10, SoundAgain
  <1> QED
    BY <1>3, <1>11, StatementKeeps DEF InsertRow

\* An update changes no key.
LEMMA EditKeeps ==
  ASSUME PersistInv, NEW t \in Tables, NEW k \in RowKeys(t), EditRow(t, k)
  PROVE  PersistInv'
  <1> DEFINE row == [memory.rows[t] EXCEPT ![k] = Columns(t, memory.version)]
             rows == [memory.rows EXCEPT ![t] = row]
  <1>1. Sound(memory) /\ Typed(memory) /\ memory.rows[t][k] # {} /\ (t = "roles" => k = User)
    BY DEF PersistInv, Sound, EditRow
  <1>2. memory = [version |-> memory.version, rows |-> memory.rows] /\ memory.rows = [u \in Tables |-> memory.rows[u]]
        /\ \A u \in Tables : memory.rows[u] = [j \in RowKeys(u) |-> memory.rows[u][j]]
    BY <1>1 DEF Typed
  <1>3. memory' = [version |-> memory.version, rows |-> rows]
    BY <1>2 DEF EditRow
  <1>4. row[k] = Columns(t, memory.version) /\ (\A j \in RowKeys(t) : j # k => row[j] = memory.rows[t][j])
        /\ row = [j \in RowKeys(t) |-> row[j]]
    BY <1>2
  <1> HIDE DEF row
  <1>5. rows[t] = row /\ (\A u \in Tables : u # t => rows[u] = memory.rows[u])
        /\ rows = [u \in Tables |-> rows[u]]
    BY <1>2
  <1> HIDE DEF rows
  <1>6. \A u \in Tables : rows[u] = [j \in RowKeys(u) |-> rows[u][j]]
    BY <1>2, <1>4, <1>5
  <1>7. /\ Exists(t, memory.version) /\ Created[t] \in Columns(t, memory.version)
        /\ Columns(t, memory.version) \subseteq Columns(t, Newest)
    <2>1. Exists(t, memory.version) /\ memory.version \in 0..Newest
      BY <1>1 DEF Sound, RowsExist, PersistInv
    <2>2. Added[t] \subseteq 1..20 /\ Created[t] \in 1..20 /\ Newest = 20
      BY KeyFacts, TableFacts
    <2> QED
      BY <2>1, <2>2 DEF Columns, Exists
  <1>8. \A u \in Tables : \A j \in RowKeys(u) :
           \/ rows[u][j] = memory.rows[u][j]
           \/ rows[u][j] \subseteq Columns(u, Newest)
              /\ (rows[u][j] # {} => Exists(u, memory.version) /\ Created[u] \in rows[u][j])
    BY <1>4, <1>5, <1>7
  <1>9. "roles" \in Tables /\ memory.version >= 1 => rows["roles"][1] = memory.rows["roles"][1]
    BY <1>1, <1>4, <1>5, KeyFacts DEF User
  <1>10. \A u \in Tables : rows[u][User] # {} => \A p \in Parents(u) : rows[p][User] # {}
    <2> SUFFICES ASSUME NEW u \in Tables, rows[u][User] # {}, NEW p \in Parents(u)
                 PROVE  rows[p][User] # {}
      OBVIOUS
    <2>1. p \in Tables /\ User \in RowKeys(p) /\ User \in RowKeys(u)
      BY ParentFacts, KeyFacts
    <2>2. memory.rows[p][User] # {}
      BY <1>1, <1>4, <1>5, <2>1 DEF Sound, References
    <2> QED
      BY <1>4, <1>5, <1>7, <2>1, <2>2
  <1>11. Sound(memory')
    BY <1>1, <1>3, <1>5, <1>6, <1>8, <1>9, <1>10, SoundAgain
  <1> QED
    BY <1>3, <1>11, StatementKeeps DEF EditRow

\* No row refers to one that refers to one that refers to a third.
LEMMA ShortChains ==
  ASSUME NEW a \in Tables, NEW b \in Tables, NEW c \in Tables, NEW d \in Tables,
         b \in Parents(a), c \in Parents(b), d \in Parents(c)
  PROVE  FALSE
  BY DEF Parents, ForeignKeys

\* A deletion cascades to the rows that refer to the deleted one.
LEMMA DeleteKeeps ==
  ASSUME PersistInv, NEW t \in Tables, NEW k \in RowKeys(t), DeleteRows(t, k)
  PROVE  PersistInv'
  <1> DEFINE gone(u) == k = User /\ u \in Orphaned(t)
             rows == [u \in Tables |-> IF u = t THEN [memory.rows[t] EXCEPT ![k] = {}]
                                       ELSE IF gone(u) THEN [memory.rows[u] EXCEPT ![User] = {}]
                                       ELSE memory.rows[u]]
  <1>1. Sound(memory) /\ Typed(memory) /\ (t = "roles" => k = User)
    BY DEF PersistInv, Sound, DeleteRows
  <1>2. memory = [version |-> memory.version, rows |-> memory.rows] /\ memory.rows = [u \in Tables |-> memory.rows[u]]
        /\ \A u \in Tables : memory.rows[u] = [j \in RowKeys(u) |-> memory.rows[u][j]]
    BY <1>1 DEF Typed
  <1>3. memory' = [version |-> memory.version, rows |-> rows]
    BY <1>2 DEF DeleteRows
  <1>4. /\ rows = [u \in Tables |-> rows[u]]
        /\ \A u \in Tables : rows[u] = IF u = t THEN [memory.rows[t] EXCEPT ![k] = {}]
                                       ELSE IF gone(u) THEN [memory.rows[u] EXCEPT ![User] = {}]
                                       ELSE memory.rows[u]
    OBVIOUS
  <1> HIDE DEF rows
  <1>5. ASSUME NEW u \in Tables
        PROVE  /\ rows[u] = [j \in RowKeys(u) |-> rows[u][j]]
               /\ \A j \in RowKeys(u) :
                    rows[u][j] = IF (u = t /\ j = k) \/ (u # t /\ gone(u) /\ j = User) THEN {}
                                 ELSE memory.rows[u][j]
    <2> HIDE DEF gone
    <2> QED
      BY <1>2, <1>4
  <1>6. \A u \in Tables : \A j \in RowKeys(u) :
           \/ rows[u][j] = memory.rows[u][j]
           \/ rows[u][j] \subseteq Columns(u, Newest)
              /\ (rows[u][j] # {} => Exists(u, memory.version) /\ Created[u] \in rows[u][j])
    <2> HIDE DEF gone
    <2> QED
      BY <1>5
  <1>7. "roles" \in Tables /\ memory.version >= 1 => rows["roles"][1] = memory.rows["roles"][1]
    <2> HIDE DEF gone
    <2>1. "roles" \in Tables => 1 \in RowKeys("roles")
      BY KeyFacts
    <2>2. "roles" \in Tables =>
            rows["roles"][1] = IF ("roles" = t /\ 1 = k) \/ ("roles" # t /\ gone("roles") /\ 1 = User) THEN {}
                               ELSE memory.rows["roles"][1]
      BY <1>5, <2>1
    <2> QED
      BY <1>1, <2>2 DEF User
  <1>8. ASSUME NEW u \in Tables, rows[u][User] # {}, NEW p \in Parents(u) PROVE rows[p][User] # {}
    <2>1. p \in Tables /\ User \in RowKeys(p) /\ User \in RowKeys(u)
      BY ParentFacts, KeyFacts
    <2>2. /\ memory.rows[u][User] # {} /\ ~(u = t /\ User = k) /\ ~(u # t /\ gone(u))
      <3> HIDE DEF gone
      <3> QED
        BY <1>5, <1>8, <2>1
    <2>3. memory.rows[p][User] # {}
      BY <1>1, <2>2 DEF Sound, References
    <2>4. ASSUME k = User, p = t \/ p \in Orphaned(t) PROVE FALSE
      <3>1. u \notin Orphaned(t) /\ u # t
        BY <2>2, <2>4
      <3>2. p # t
        BY <2>1, <3>1 DEF Orphaned, Children
      <3>3. p \notin Children({t})
        BY <2>1, <3>1 DEF Orphaned, Children
      <3>4. PICK q \in Children({t}) : q \in Parents(p)
        BY <2>4, <3>2, <3>3 DEF Orphaned, Children
      <3>5. q \in Tables /\ t \in Parents(q)
        BY <3>4 DEF Children
      <3> QED
        BY <2>1, <3>4, <3>5, ShortChains
    <2> QED
      <3> HIDE DEF gone
      <3>1. ~(p = t /\ User = k) /\ ~gone(p)
        BY <2>4 DEF gone
      <3> QED
        BY <1>5, <2>1, <2>3, <3>1
  <1>9. Sound(memory')
    <2> HIDE DEF gone
    <2> QED
      BY <1>1, <1>3, <1>4, <1>5, <1>6, <1>7, <1>8, SoundAgain
  <1> QED
    BY <1>3, <1>9, StatementKeeps DEF DeleteRows

-----------------------------------------------------------------------------
(***************************************************************************)
(* The load.                                                               *)
(***************************************************************************)
\* The place of a table in the order of the load.
Place(t) ==
  IF t = "settings" THEN 1 ELSE IF t = "roles" THEN 2 ELSE IF t = "users" THEN 3
  ELSE IF t = "distributions" THEN 4 ELSE IF t = "distribution_logs" THEN 5
  ELSE IF t = "revoked_tokens" THEN 6 ELSE IF t = "components" THEN 7
  ELSE IF t = "upstream_sources" THEN 8 ELSE IF t = "download_jobs" THEN 9
  ELSE IF t = "artifact_cache" THEN 10 ELSE IF t = "mirror_configs" THEN 11
  ELSE IF t = "board_profiles" THEN 12 ELSE IF t = "toolchain_profiles" THEN 13
  ELSE IF t = "build_jobs" THEN 14 ELSE IF t = "build_stages" THEN 15
  ELSE IF t = "build_logs" THEN 16 ELSE 17

\* The tables of the current schema that are loaded.
Loadable == AllTables \ (Unsaved \cup Merged \cup {"distribution_source_overrides"})

\* The load comes to every table once, and to a table after those it refers to.
LEMMA OrderFacts ==
  /\ Len(LoadOrder) = 17
  /\ \A i \in 1..17 : LoadOrder[i] \in Loadable /\ Place(LoadOrder[i]) = i
  /\ \A t \in Loadable : Place(t) \in 1..17 /\ LoadOrder[Place(t)] = t
  /\ \A t \in Loadable : \A p : <<t, p>> \in ForeignKeys => p \in Loadable /\ Place(p) < Place(t)
  <1>1. Len(LoadOrder) = 17
    BY DEF LoadOrder
  <1>2. Loadable = {"settings", "roles", "users", "distributions", "distribution_logs", "revoked_tokens",
                    "components", "upstream_sources", "download_jobs", "artifact_cache", "mirror_configs",
                    "board_profiles", "toolchain_profiles", "build_jobs", "build_stages", "build_logs",
                    "refresh_tokens"}
    <2>1. AllTables = InitialTables \cup LaterTables
      BY SchemaFacts
    <2> QED
      BY <2>1 DEF Loadable, InitialTables, LaterTables, Unsaved, Merged, MergeSources, Migration
  <1>3. \A t \in Loadable : Place(t) \in 1..17
    BY <1>2 DEF Place
  <1>4. \A t \in Loadable : LoadOrder[Place(t)] = t
    BY <1>2 DEF Place, LoadOrder
  <1>5. \A i \in 1..17 : LoadOrder[i] \in Loadable
    <2>1. \A i \in 1..17 : i \in {1, 2, 3, 4, 5, 6, 7, 8, 9, 10, 11, 12, 13, 14, 15, 16, 17}
      OBVIOUS
    <2> QED
      BY <1>2, <2>1 DEF LoadOrder
  <1>6. \A i \in 1..17 : Place(LoadOrder[i]) = i
    <2>1. \A i \in 1..17 : i \in {1, 2, 3, 4, 5, 6, 7, 8, 9, 10, 11, 12, 13, 14, 15, 16, 17}
      OBVIOUS
    <2> QED
      BY <2>1 DEF LoadOrder, Place
  <1>7. \A t \in Loadable : \A p : <<t, p>> \in ForeignKeys => p \in Loadable
    BY <1>2 DEF ForeignKeys
  <1>8. \A t \in Loadable : \A p : <<t, p>> \in ForeignKeys => Place(p) < Place(t)
    BY <1>2 DEF ForeignKeys, Place
  <1> QED
    BY <1>1, <1>3, <1>4, <1>5, <1>6, <1>7, <1>8

\* What a step of the load makes of the rows of its table.
Good(t, row) ==
  /\ row = [k \in RowKeys(t) |-> row[k]]
  /\ \A k \in RowKeys(t) : /\ row[k] \subseteq Columns(t, Newest)
                           /\ row[k] # {} => Created[t] \in row[k]
  /\ t = "roles" => row[1] = memory.rows["roles"][1]
  /\ row[User] # {} => \A p \in Parents(t) : memory.rows[p][User] # {}
  /\ t \in Copied => \A k \in RowKeys(t) : disk.rows[t][k] # {} => row[k] # {}
  /\ t = "upstream_sources" => \A u \in Tables, k \in {User, System} :
       /\ <<u, k>> \in {<<"user_sources", User>>, <<"source_defaults", System>>}
       /\ disk.rows[u][k] # {} /\ Exists(u, disk.version)
       => row[k] # {}
  /\ disk.version = Newest => \A k \in RowKeys(t) : /\ row[k] = {} <=> disk.rows[t][k] = {}
                                                   /\ row[k] \subseteq disk.rows[t][k]

\* The load has come to table t, whose rows are those of the migrations.
Loading(t) ==
  /\ PersistInv /\ phase = "loading" /\ t \in Tables
  /\ \E i \in Left : t = LoadOrder[i] /\ \A j \in Left : i <= j

\* A table that is loaded has only the rows of the migrations yet, and those it
\* refers to are loaded.
LEMMA LoadFacts ==
  ASSUME NEW t, Loading(t)
  PROVE  /\ t \in Loadable /\ ~Passed(t) /\ Unfilled(t)
         /\ Dropped[t] = {} /\ Created[t] \in 1..20
         /\ memory.version = 20 /\ Newest = 20 /\ Exists(t, Newest)
         /\ disk.version \in 0..20 /\ Sound(memory) /\ Sound(disk)
         /\ \A u \in Tables \cap Loadable : Place(u) < Place(t) => Passed(u)
  <1>1. PICK i \in Left : t = LoadOrder[i] /\ \A j \in Left : i <= j
    BY DEF Loading
  <1>2. loaded \in 0..17 /\ i \in 1..17 /\ i > loaded /\ t \in Loadable /\ Place(t) = i
    BY <1>1, OrderFacts DEF Loading, PersistInv, Left
  <1>3. ~Passed(t)
    BY <1>2, OrderFacts DEF Passed
  <1>4. Unfilled(t)
    BY <1>3 DEF Loading, PersistInv
  <1>5. t \in AllTables /\ Dropped[t] = {} /\ Created[t] \in 1..20 /\ Newest = 20
    BY <1>2, TableFacts, KeyFacts DEF Loadable, Loading
  <1>6. Exists(t, Newest)
    BY <1>5 DEF Exists
  <1>7. memory.version = 20 /\ disk.version \in 0..20 /\ Sound(memory) /\ Sound(disk)
    BY <1>5 DEF Loading, PersistInv
  <1>8. ASSUME NEW u \in Tables \cap Loadable, Place(u) < Place(t) PROVE Passed(u)
    <2>1. Place(u) \in 1..17 /\ LoadOrder[Place(u)] = u
      BY OrderFacts
    <2>2. Place(u) \notin Left
      BY <1>1, <1>2, <1>8, <2>1
    <2>3. Place(u) <= loaded
      BY <1>2, <2>1, <2>2, OrderFacts DEF Left
    <2> QED
      BY <1>2, <2>1, <2>3 DEF Passed
  <1> QED
    BY <1>2, <1>3, <1>4, <1>5, <1>6, <1>7, <1>8

\* What a row of the file refers to has been loaded.
LEMMA ParentsLoaded ==
  ASSUME NEW t, Loading(t), NEW u \in Tables, disk.rows[u][User] # {}, NEW p \in Parents(t), p \in Parents(u),
         p # "build_jobs" \/ disk.version = Newest
  PROVE  memory.rows[p][User] # {}
  <1>1. p \in Tables /\ <<t, p>> \in ForeignKeys /\ p \in {"users", "distributions", "components", "build_jobs"}
        /\ User \in RowKeys(p)
    BY ParentFacts, KeyFacts DEF Loading
  <1>2. Passed(p)
    BY <1>1, LoadFacts, OrderFacts
  <1>3. disk.rows[p][User] # {}
    BY LoadFacts DEF Sound, References
  <1>4. Kept(p) /\ Restored(p)
    BY <1>1, <1>2 DEF Loading, PersistInv
  <1> QED
    BY <1>1, <1>3, <1>4 DEF Kept, Restored, Copied

\* The rows of a sound database, by table.
LEMMA RowFacts ==
  ASSUME NEW STATE d, Sound(d), NEW t \in Tables
  PROVE  /\ d.rows[t] = [k \in RowKeys(t) |-> d.rows[t][k]]
         /\ \A k \in RowKeys(t) : /\ d.rows[t][k] \subseteq Columns(t, Newest)
                                  /\ d.rows[t][k] # {} => Exists(t, d.version) /\ Created[t] \in d.rows[t][k]
  <1>1. d.rows[t] \in [RowKeys(t) -> SUBSET Columns(t, Newest)]
    BY DEF Sound, Typed
  <1>2. \A k \in RowKeys(t) : d.rows[t][k] # {} => Exists(t, d.version) /\ Created[t] \in d.rows[t][k]
    BY DEF Sound, RowsExist
  <1> QED
    BY <1>1, <1>2

\* A table that the file does not have.
LEMMA LoadsNothing ==
  ASSUME NEW t, Loading(t), ~Exists(t, disk.version), t # "upstream_sources"
  PROVE  Good(t, memory.rows[t])
  <1>1. /\ memory.rows[t] = [k \in RowKeys(t) |-> memory.rows[t][k]]
        /\ \A k \in RowKeys(t) : memory.rows[t][k] \subseteq Columns(t, Newest)
    BY LoadFacts, RowFacts DEF Loading
  <1>2. \A k \in RowKeys(t) : memory.rows[t][k] # {} => Created[t] \in memory.rows[t][k]
    BY LoadFacts DEF Sound, RowsExist, Loading
  <1>3. \A k \in RowKeys(t) : disk.rows[t][k] = {}
    BY LoadFacts DEF Sound, RowsExist, Loading
  <1>4. memory.rows[t][User] = {}
    BY LoadFacts, KeyFacts DEF Unfilled, Loading
  <1>5. disk.version # Newest
    BY LoadFacts
  <1> QED
    BY <1>1, <1>2, <1>3, <1>4, <1>5 DEF Good

\* The roles of users come beside those of the system.
LEMMA LoadsRoles ==
  ASSUME Loading("roles"), Exists("roles", disk.version)
  PROVE  Good("roles", LoadRoles)
  <1> DEFINE row == LoadRoles
  <1>1. "roles" \in Tables /\ "roles" \in InitialTables /\ Created["roles"] = 1 /\ RowKeys("roles") = {0, 1}
    <2>1. "roles" \in Tables /\ "roles" \in InitialTables
      BY DEF Loading, InitialTables
    <2>2. "roles" \in AllTables
      BY <2>1, KeyFacts
    <2> QED
      BY <2>1, <2>2, SchemaFacts, TableFacts DEF RowKeys, User
  <1>2. /\ memory.rows["roles"] = [k \in {0, 1} |-> memory.rows["roles"][k]]
        /\ disk.rows["roles"] = [k \in {0, 1} |-> disk.rows["roles"][k]]
        /\ \A k \in {0, 1} : /\ memory.rows["roles"][k] \subseteq Columns("roles", Newest)
                             /\ disk.rows["roles"][k] \subseteq Columns("roles", Newest)
    <2>1. Sound(memory) /\ Sound(disk)
      BY LoadFacts
    <2> QED
      BY <1>1, <2>1, RowFacts
  <1>3. memory.rows["roles"][0] = {}
    BY <1>1, LoadFacts, KeyFacts DEF Unfilled, User
  <1>4. row = [k \in {0, 1} |-> row[k]] /\ row[0] = disk.rows["roles"][0] /\ row[1] = memory.rows["roles"][1]
    <2> DEFINE m == memory.rows["roles"]
               d == disk.rows["roles"]
               x == IF d[0] # {} THEN d[0] ELSE m[0]
    <2>1. row = [m EXCEPT ![0] = x]
      BY DEF LoadRoles, User
    <2>2. x = d[0]
      BY <1>3
    <2> HIDE DEF row, x, m
    <2>3. DOMAIN m = {0, 1}
      BY <1>2 DEF m
    <2>4. row = [k \in {0, 1} |-> IF k = 0 THEN x ELSE m[k]]
      BY <2>1, <2>3
    <2> QED
      BY <2>2, <2>4 DEF m
  <1>5. memory.rows["roles"][1] = {1} /\ disk.rows["roles"][1] = {1}
    BY <1>1, LoadFacts DEF Sound, HasRoles, Exists
  <1>6. disk.rows["roles"][0] # {} => 1 \in disk.rows["roles"][0]
    BY <1>1, LoadFacts DEF Sound, RowsExist
  <1>7. Parents("roles") = {}
    BY DEF Parents, ForeignKeys
  <1>8. row[User] = row[0]
    BY DEF User
  <1> HIDE DEF row
  <1>9. \A k \in RowKeys("roles") : row[k] = disk.rows["roles"][k] /\ (row[k] # {} => 1 \in row[k])
    BY <1>1, <1>4, <1>5, <1>6
  <1>10. \A k \in RowKeys("roles") : row[k] \subseteq Columns("roles", Newest)
    BY <1>1, <1>2, <1>9
  <1>11. row = [k \in RowKeys("roles") |-> row[k]]
    BY <1>1, <1>4
  <1>12. "roles" \notin Copied /\ "roles" # "upstream_sources"
    BY DEF Copied
  <1>13. row[1] = memory.rows["roles"][1] /\ Created["roles"] = 1
    BY <1>1, <1>4
  <1>14. ASSUME NEW t, t = "roles" PROVE Good(t, row)
    BY <1>7, <1>9, <1>10, <1>11, <1>12, <1>13, <1>14 DEF Good
  <1> QED
    BY <1>14 DEF row

\* A profile of the migrations is replaced by that of the file.
LEMMA LoadsProfiles ==
  ASSUME NEW t \in Profiles, Loading(t)
  PROVE  Good(t, LoadProfiles(t))
  <1>1. Parents(t) = {} /\ t \in Tables /\ t \notin Copied
    BY DEF Parents, ForeignKeys, Profiles, Loading, Copied
  <1>2. /\ disk.rows[t] = [k \in RowKeys(t) |-> disk.rows[t][k]]
        /\ \A k \in RowKeys(t) : disk.rows[t][k] \subseteq Columns(t, Newest)
    BY <1>1, LoadFacts, RowFacts
  <1>3. \A k \in RowKeys(t) : disk.rows[t][k] # {} => Created[t] \in disk.rows[t][k]
    BY <1>1, LoadFacts DEF Sound, RowsExist
  <1> QED
    BY <1>1, <1>2, <1>3 DEF Good, LoadProfiles, Profiles

\* Components are replaced by those of the file, whatever its age.
LEMMA LoadsComponents ==
  ASSUME Loading("components")
  PROVE  Good("components", LoadComponents)
  <1> DEFINE t == "components"
             row == LoadComponents
  <1>1. t \in Tables /\ t \in AllTables /\ Created[t] = 1
    <2>1. t \in Tables /\ t \in InitialTables
      BY DEF Loading, InitialTables
    <2> QED
      BY <2>1, KeyFacts, SchemaFacts
  <1>2. /\ row = [k \in RowKeys(t) |-> row[k]]
        /\ \A k \in RowKeys(t) : /\ row[k] \subseteq disk.rows[t][k]
                                 /\ 1 \in disk.rows[t][k] => 1 \in row[k]
    BY DEF LoadComponents
  <1> HIDE DEF row
  <1>3. \A k \in RowKeys(t) : /\ disk.rows[t][k] \subseteq Columns(t, Newest)
                              /\ disk.rows[t][k] # {} => 1 \in disk.rows[t][k]
    BY <1>1, LoadFacts, RowFacts
  <1>4. \A k \in RowKeys(t) : disk.rows[t][k] # {} => 1 \in row[k]
    BY <1>2, <1>3
  <1>5. ASSUME row[User] # {}, NEW p \in Parents(t) PROVE memory.rows[p][User] # {}
    <2>1. User \in RowKeys(t) /\ disk.rows[t][User] # {}
      BY <1>1, <1>2, <1>5, KeyFacts
    <2>2. p # "build_jobs"
      BY DEF Parents, ForeignKeys
    <2> QED
      BY <1>1, <2>1, <2>2, ParentsLoaded
  <1>6. /\ t # "roles" /\ t # "upstream_sources"
    OBVIOUS
  <1>7. \A k \in RowKeys(t) : row[k] \subseteq Columns(t, Newest) /\ (row[k] # {} => 1 \in row[k])
    BY <1>2, <1>3
  <1>8. \A k \in RowKeys(t) : (row[k] = {} <=> disk.rows[t][k] = {}) /\ row[k] \subseteq disk.rows[t][k]
    BY <1>2, <1>4
  <1> HIDE DEF t
  <1>9. Good(t, row)
    BY <1>1, <1>2, <1>4, <1>5, <1>6, <1>7, <1>8 DEF Good
  <1> QED
    BY <1>9 DEF t, row

\* A table whose oldest columns are copied: a row of the file is loaded with column c.
LEMMA LoadsColumn ==
  ASSUME NEW t \in {"upstream_sources", "download_jobs"}, Loading(t),
         NEW CONSTANT c, c = Created[t], NEW STATE r,
         r = [k \in RowKeys(t) |-> disk.rows[t][k] \cap {c}]
  PROVE  /\ Insertable(t, r)
         /\ Replaced(t, r) = [k \in RowKeys(t) |-> Replaced(t, r)[k]]
         /\ \A k \in RowKeys(t) : Replaced(t, r)[k] = IF disk.rows[t][k] = {} THEN {} ELSE {c}
  <1>1. t \in Tables /\ t \in AllTables /\ SeededBy[t] = {}
    BY KeyFacts, TableFacts DEF Loading, Seeded, Profiles
  <1>2. \A k \in RowKeys(t) : disk.rows[t][k] # {} => c \in disk.rows[t][k]
    BY <1>1, LoadFacts DEF Sound, RowsExist
  <1>3. \A k \in RowKeys(t) : r[k] = IF disk.rows[t][k] = {} THEN {} ELSE {c}
    BY <1>2
  <1>4. \A k \in RowKeys(t) : memory.rows[t][k] = {}
    BY <1>1, LoadFacts DEF Unfilled
  <1>5. Insertable(t, r)
    <2>1. ASSUME r[User] # {}, NEW p \in Parents(t) PROVE memory.rows[p][User] # {}
      <3>1. p # "build_jobs"
        BY DEF Parents, ForeignKeys
      <3> QED
        BY <1>1, <1>3, <2>1, <3>1, KeyFacts, ParentsLoaded
    <2> QED
      BY <2>1 DEF Insertable, Referable
  <1>6. Replaced(t, r) = [k \in RowKeys(t) |-> Replaced(t, r)[k]]
    BY DEF Replaced
  <1>7. \A k \in RowKeys(t) : Replaced(t, r)[k] = IF r[k] = {} THEN memory.rows[t][k] ELSE r[k]
    BY DEF Replaced
  <1> QED
    BY <1>3, <1>4, <1>5, <1>6, <1>7

\* Sources of a file that has them in one table,
LEMMA LoadsSources ==
  ASSUME Loading("upstream_sources"), Exists("upstream_sources", disk.version)
  PROVE  Good("upstream_sources", LoadSources)
  <1> DEFINE t == "upstream_sources"
             r == [k \in RowKeys(t) |-> disk.rows[t][k] \cap {4}]
             row == Replaced(t, r)
  <1>1. t \in Tables /\ Created[t] = 4 /\ RowKeys(t) = {User, System} /\ User \in RowKeys(t)
    BY SchemaFacts, KeyFacts DEF Loading
  <1>a. Created[t] = 4
    BY <1>1
  <1>2. /\ Insertable(t, r) /\ row = [k \in RowKeys(t) |-> row[k]]
        /\ \A k \in RowKeys(t) : row[k] = IF disk.rows[t][k] = {} THEN {} ELSE {4}
    BY <1>a, LoadsColumn
  <1>3. LoadSources = row
    BY <1>2 DEF LoadSources
  <1> HIDE DEF row
  <1>4. \A k \in RowKeys(t) : /\ disk.rows[t][k] \subseteq Columns(t, Newest)
                              /\ disk.rows[t][k] # {} => 4 \in disk.rows[t][k]
    BY <1>1, LoadFacts, RowFacts
  <1>5. \A k \in RowKeys(t) : /\ row[k] \subseteq disk.rows[t][k] /\ row[k] \subseteq Columns(t, Newest)
                              /\ row[k] = {} <=> disk.rows[t][k] = {}
                              /\ row[k] # {} => 4 \in row[k]
    BY <1>2, <1>4
  <1>6. ASSUME row[User] # {}, NEW p \in Parents(t) PROVE memory.rows[p][User] # {}
    <2>1. p # "build_jobs"
      BY DEF Parents, ForeignKeys
    <2> QED
      BY <1>1, <1>5, <1>6, <2>1, ParentsLoaded
  <1>7. \A u \in Tables : u \in Merged => ~Exists(u, disk.version)
    <2>1. ASSUME NEW u \in Tables, u \in Merged PROVE ~Exists(u, disk.version)
      <3>1. Dropped[u] = {4}
        BY <2>1, KeyFacts, TableFacts
      <3>2. disk.version >= 4
        BY <1>1 DEF Exists
      <3>3. disk.version \in 0..20
        BY LoadFacts
      <3> QED
        BY <3>1, <3>2, <3>3 DEF Exists
    <2> QED
      BY <2>1
  <1>8. {"user_sources", "source_defaults"} \subseteq Merged
    BY DEF Merged, MergeSources, Migration
  <1>9. \A u \in Tables, k \in {User, System} :
          <<u, k>> \in {<<"user_sources", User>>, <<"source_defaults", System>>} => u \in Merged
    BY <1>8
  <1>10. t # "roles"
    OBVIOUS
  <1> HIDE DEF t
  <1>11. Good(t, row)
    BY <1>1, <1>2, <1>5, <1>6, <1>7, <1>9, <1>10 DEF Good
  <1> QED
    BY <1>3, <1>11 DEF t

\* A file from before migration 4: the sources of both tables are loaded.
LEMMA LoadsOldSources ==
  ASSUME Loading("upstream_sources"), ~Exists("upstream_sources", disk.version)
  PROVE  Good("upstream_sources", LoadOldSources)
  <1> DEFINE t == "upstream_sources"
             row == LoadOldSources
             full(u, k) == u \in Tables /\ disk.rows[u][k] # {} /\ Referable(t, k)
  <1>1. t \in Tables /\ t \in AllTables /\ Created[t] = 4 /\ RowKeys(t) = {0, 1} /\ 4 \in Columns(t, Newest)
    BY SchemaFacts, KeyFacts DEF Loading, User, System
  <1>2. \A k \in RowKeys(t) : memory.rows[t][k] = {} /\ disk.rows[t][k] = {}
    <2>1. Unfilled(t) /\ SeededBy[t] = {}
      BY <1>1, LoadFacts, TableFacts DEF Seeded, Profiles
    <2>2. Sound(disk)
      BY LoadFacts
    <2> QED
      BY <1>1, <2>1, <2>2, RowFacts DEF Unfilled
  <1>3. /\ row = [k \in {0, 1} |-> row[k]]
        /\ row[0] = IF full("user_sources", 0) THEN {4} ELSE {}
        /\ row[1] = IF full("source_defaults", 1) THEN {4} ELSE {}
    <2> HIDE DEF full
    <2>1. row = [k \in {0, 1} |-> IF k = 1 THEN IF full("source_defaults", 1) THEN {4} ELSE memory.rows[t][1]
                                  ELSE IF full("user_sources", 0) THEN {4} ELSE memory.rows[t][0]]
      BY <1>1 DEF LoadOldSources, System, User, full
    <2> HIDE DEF row
    <2>2. row = [k \in {0, 1} |-> row[k]]
      BY <2>1
    <2>3. row[0] = IF full("user_sources", 0) THEN {4} ELSE memory.rows[t][0]
      BY <2>1
    <2>4. row[1] = IF full("source_defaults", 1) THEN {4} ELSE memory.rows[t][1]
      BY <2>1
    <2>5. memory.rows[t][0] = {} /\ memory.rows[t][1] = {}
      BY <1>1, <1>2
    <2> QED
      BY <2>2, <2>3, <2>4, <2>5
  <1> HIDE DEF row
  <1>4. \A k \in RowKeys(t) : row[k] \subseteq Columns(t, Newest) /\ (row[k] # {} => 4 \in row[k])
    <2> HIDE DEF full
    <2> QED
      BY <1>1, <1>3
  <1>5. row[User] # {} => \A p \in Parents(t) : memory.rows[p][User] # {}
    BY <1>3 DEF User, Referable
  <1>6. disk.version # Newest
    BY LoadFacts
  <1>7. ASSUME NEW u \in Tables, NEW k \in {User, System},
               <<u, k>> \in {<<"user_sources", User>>, <<"source_defaults", System>>},
               disk.rows[u][k] # {}
        PROVE  row[k] # {}
    <2>1. Referable(t, k)
      <3>1. CASE k = System
        BY <3>1 DEF Referable, User, System
      <3>2. CASE k = User /\ u = "user_sources"
        <4> SUFFICES ASSUME NEW p \in Parents(t) PROVE memory.rows[p][User] # {}
          BY <3>2 DEF Referable
        <4>1. p = "users" /\ p \in Tables
          BY DEF Parents, ForeignKeys
        <4>2. p \in Parents(u)
          BY <3>2, <4>1 DEF Parents, ForeignKeys
        <4> QED
          BY <1>7, <3>2, <4>1, <4>2, ParentsLoaded
      <3> QED
        BY <1>7, <3>1, <3>2 DEF User, System
    <2>2. full(u, k)
      BY <1>7, <2>1
    <2> HIDE DEF full
    <2>3. (u = "user_sources" /\ k = 0) \/ (u = "source_defaults" /\ k = 1)
      BY <1>7 DEF User, System
    <2> QED
      BY <1>3, <2>2, <2>3
  <1>8. t # "roles"
    OBVIOUS
  <1>9. row = [k \in RowKeys(t) |-> row[k]] /\ \A k \in RowKeys(t) : disk.rows[t][k] = {}
    BY <1>1, <1>2, <1>3
  <1> HIDE DEF t, full
  <1>10. Good(t, row)
    BY <1>1, <1>4, <1>5, <1>6, <1>7, <1>8, <1>9 DEF Good
  <1> QED
    BY <1>10 DEF t, row

\* Download jobs, from version 1 on.
LEMMA LoadsDownloads ==
  ASSUME Loading("download_jobs"), Exists("download_jobs", disk.version)
  PROVE  Good("download_jobs", LoadDownloads)
  <1> DEFINE t == "download_jobs"
             r == [k \in RowKeys(t) |-> disk.rows[t][k] \cap {1}]
             row == Replaced(t, r)
  <1>1. t \in Tables /\ Created[t] = 1 /\ User \in RowKeys(t)
    <2>1. t \in Tables /\ t \in InitialTables
      BY DEF Loading, InitialTables
    <2> QED
      BY <2>1, SchemaFacts, KeyFacts
  <1>2. /\ Insertable(t, r) /\ row = [k \in RowKeys(t) |-> row[k]]
        /\ \A k \in RowKeys(t) : row[k] = IF disk.rows[t][k] = {} THEN {} ELSE {1}
    BY <1>1, LoadsColumn
  <1>3. LoadDownloads = row
    BY <1>2 DEF LoadDownloads
  <1> HIDE DEF row
  <1>4. \A k \in RowKeys(t) : /\ disk.rows[t][k] \subseteq Columns(t, Newest)
                              /\ disk.rows[t][k] # {} => 1 \in disk.rows[t][k]
    BY <1>1, LoadFacts, RowFacts
  <1>5. \A k \in RowKeys(t) : /\ row[k] \subseteq disk.rows[t][k] /\ row[k] \subseteq Columns(t, Newest)
                              /\ row[k] = {} <=> disk.rows[t][k] = {}
                              /\ row[k] # {} => 1 \in row[k]
    BY <1>2, <1>4
  <1>6. ASSUME row[User] # {}, NEW p \in Parents(t) PROVE memory.rows[p][User] # {}
    <2>1. p # "build_jobs"
      BY DEF Parents, ForeignKeys
    <2> QED
      BY <1>1, <1>5, <1>6, <2>1, ParentsLoaded
  <1>7. t # "roles" /\ t # "upstream_sources"
    OBVIOUS
  <1> HIDE DEF t
  <1>8. Good(t, row)
    BY <1>1, <1>2, <1>5, <1>6, <1>7 DEF Good
  <1> QED
    BY <1>3, <1>8 DEF t

\* The other tables, whole or not at all; users and distributions have had their
\* columns from the first.
LEMMA LoadsWhole ==
  ASSUME NEW t, Loading(t), Exists(t, disk.version),
         t \notin Seeded \cup {"upstream_sources", "download_jobs"}
  PROVE  Good(t, LoadWhole(t))
  <1> DEFINE row == LoadWhole(t)
             copied == SameColumns(t) /\ Insertable(t, disk.rows[t])
  <1>1. t \in Tables /\ User \in RowKeys(t) /\ SeededBy[t] = {} /\ t \in AllTables
    BY KeyFacts, TableFacts DEF Loading
  <1>2. \A k \in RowKeys(t) : memory.rows[t][k] = {}
    BY <1>1, LoadFacts DEF Unfilled
  <1>3. /\ disk.rows[t] = [k \in RowKeys(t) |-> disk.rows[t][k]]
        /\ memory.rows[t] = [k \in RowKeys(t) |-> memory.rows[t][k]]
        /\ \A k \in RowKeys(t) : /\ disk.rows[t][k] \subseteq Columns(t, Newest)
                                 /\ disk.rows[t][k] # {} => Created[t] \in disk.rows[t][k]
    <2>1. Sound(memory) /\ Sound(disk)
      BY LoadFacts
    <2> QED
      BY <1>1, <2>1, RowFacts
  <1>4. /\ row = [k \in RowKeys(t) |-> row[k]]
        /\ \A k \in RowKeys(t) : row[k] = IF copied THEN disk.rows[t][k] ELSE {}
    <2>1. CASE copied
      <3>1. row = [k \in RowKeys(t) |-> IF disk.rows[t][k] = {} THEN memory.rows[t][k] ELSE disk.rows[t][k]]
        BY <2>1 DEF LoadWhole, Replaced
      <3> HIDE DEF row, copied
      <3> QED
        BY <1>2, <2>1, <3>1
    <2>2. CASE ~copied
      <3>1. row = memory.rows[t]
        BY <2>2 DEF LoadWhole
      <3> HIDE DEF row, copied
      <3> QED
        BY <1>2, <1>3, <2>2, <3>1
    <2> QED
      BY <2>1, <2>2
  <1>5. ASSUME disk.version = Newest \/ t \in Copied PROVE copied
    <2>1. ASSUME disk.rows[t][User] # {}, NEW p \in Parents(t) PROVE memory.rows[p][User] # {}
      <3>1. t \in Copied => p # "build_jobs"
        BY DEF Parents, ForeignKeys, Copied
      <3> QED
        BY <1>1, <1>5, <2>1, <3>1, ParentsLoaded
    <2>2. Insertable(t, disk.rows[t])
      BY <2>1 DEF Insertable, Referable
    <2>3. SameColumns(t)
      <3>1. CASE disk.version = Newest
        BY <3>1 DEF SameColumns
      <3>2. CASE t \in Copied
        <4>1. Added[t] = {}
          BY <1>1, <3>2, TableFacts DEF Copied, Seeded
        <4>2. Created[t] <= disk.version /\ Created[t] <= Newest
          BY LoadFacts DEF Exists
        <4> QED
          BY <4>1, <4>2 DEF SameColumns, Columns
      <3> QED
        BY <1>5, <3>1, <3>2
    <2> QED
      BY <2>2, <2>3
  <1>6. copied => \A p \in Parents(t) : disk.rows[t][User] # {} => memory.rows[p][User] # {}
    BY <1>1 DEF Insertable, Referable
  <1>7. t # "roles" /\ t # "upstream_sources"
    BY DEF Seeded
  <1> HIDE DEF row, copied
  <1>8. \A k \in RowKeys(t) : row[k] \subseteq Columns(t, Newest) /\ (row[k] # {} => Created[t] \in row[k])
    BY <1>3, <1>4
  <1>9. row[User] # {} => \A p \in Parents(t) : memory.rows[p][User] # {}
    BY <1>1, <1>4, <1>6
  <1>10. disk.version = Newest \/ t \in Copied => \A k \in RowKeys(t) : row[k] = disk.rows[t][k]
    BY <1>4, <1>5
  <1>11. Good(t, row)
    BY <1>4, <1>7, <1>8, <1>9, <1>10 DEF Good
  <1> QED
    BY <1>11 DEF row

\* Every table is loaded well, from a file of any age.
LEMMA LoadedIsGood ==
  ASSUME NEW t, Loading(t)
  PROVE  Good(t, Loaded(t))
  <1>1. CASE ~Exists(t, disk.version)
    <2>1. CASE t = "upstream_sources"
      <3>1. Loaded(t) = LoadOldSources
        BY <1>1, <2>1 DEF Loaded
      <3> QED
        BY <1>1, <2>1, <3>1, LoadsOldSources
    <2>2. CASE t # "upstream_sources"
      <3>1. Loaded(t) = memory.rows[t]
        BY <1>1, <2>2 DEF Loaded
      <3> QED
        BY <1>1, <2>2, <3>1, LoadsNothing
    <2> QED
      BY <2>1, <2>2
  <1>2. CASE Exists(t, disk.version)
    <2>1. CASE t = "roles"
      <3>1. Loaded(t) = LoadRoles
        BY <1>2, <2>1 DEF Loaded
      <3> QED
        BY <1>2, <2>1, <3>1, LoadsRoles
    <2>2. CASE t = "components"
      <3>1. Loaded(t) = LoadComponents
        BY <1>2, <2>2 DEF Loaded
      <3> QED
        BY <2>2, <3>1, LoadsComponents
    <2>3. CASE t = "upstream_sources"
      <3>1. Loaded(t) = LoadSources
        BY <1>2, <2>3 DEF Loaded
      <3> QED
        BY <1>2, <2>3, <3>1, LoadsSources
    <2>4. CASE t = "download_jobs"
      <3>1. Loaded(t) = LoadDownloads
        BY <1>2, <2>4 DEF Loaded
      <3> QED
        BY <1>2, <2>4, <3>1, LoadsDownloads
    <2>5. CASE t \in Profiles
      <3>1. Loaded(t) = LoadProfiles(t)
        BY <1>2, <2>5 DEF Loaded, Profiles
      <3> QED
        BY <2>5, <3>1, LoadsProfiles
    <2>6. CASE t \notin Seeded \cup {"upstream_sources", "download_jobs"}
      <3>1. Loaded(t) = LoadWhole(t)
        BY <1>2, <2>6 DEF Loaded, Seeded, Profiles
      <3> QED
        BY <1>2, <2>6, <3>1, LoadsWhole
    <2> QED
      BY <2>1, <2>2, <2>3, <2>4, <2>5, <2>6 DEF Seeded
  <1> QED
    BY <1>1, <1>2

\* When no table is left the load has come to all of them.
LEMMA AllPassed ==
  ASSUME PersistInv, Left = {}, NEW t \in Tables \cap Loadable
  PROVE  Passed(t)
  <1>1. Place(t) \in 1..17 /\ LoadOrder[Place(t)] = t /\ loaded \in 0..17
    BY OrderFacts DEF PersistInv
  <1>2. Place(t) <= loaded
    BY <1>1, OrderFacts DEF Left
  <1> QED
    BY <1>1, <1>2 DEF Passed

\* The load of a table keeps what the load of others has brought.
LEMMA LoadKeeps ==
  ASSUME PersistInv, LoadTable
  PROVE  PersistInv'
  <1>p. PICK i \in Left : /\ \A j \in Left : i <= j
                         /\ memory' = [memory EXCEPT !.rows = [@ EXCEPT ![LoadOrder[i]] = Loaded(LoadOrder[i])]]
                         /\ loaded' = i
    BY DEF LoadTable
  <1>q. PICK t : t = LoadOrder[i]
    OBVIOUS
  <1>a. /\ phase = "loading" /\ phase' = phase /\ loaded \in 0..17 /\ i \in 1..17 /\ i > loaded /\ loaded' = i
        /\ disk' = disk /\ temp' = temp /\ Len(LoadOrder) = 17 /\ memory.version = Newest
        /\ memory' = [memory EXCEPT !.rows = [@ EXCEPT ![t] = Loaded(t)]]
    BY <1>p, <1>q, OrderFacts DEF PersistInv, LoadTable, Left
  <1>c. t \in Tables
    BY <1>q DEF Left
  <1>b. \A u \in Tables : Passed(u)' <=> Passed(u) \/ u = t
    <2> TAKE u \in Tables
    <2>1. ASSUME NEW j \in 1..i, LoadOrder[j] = u, j > loaded PROVE u = t
      BY <1>a, <1>p, <1>q, <2>1 DEF Left
    <2> QED
      BY <1>a, <1>q, <2>1 DEF Passed
  <1> DEFINE row == Loaded(t)
             rows == [memory.rows EXCEPT ![t] = row]
  <1>1. Loading(t)
    BY <1>a, <1>c, <1>p, <1>q DEF Loading
  <1>2. Good(t, row)
    BY <1>1, LoadedIsGood
  <1>3. Sound(memory) /\ Typed(memory) /\ ~Passed(t) /\ Exists(t, memory.version)
    BY <1>a, <1>1, LoadFacts DEF Sound
  <1>4. memory = [version |-> memory.version, rows |-> memory.rows] /\ memory.rows = [u \in Tables |-> memory.rows[u]]
        /\ \A u \in Tables : memory.rows[u] = [j \in RowKeys(u) |-> memory.rows[u][j]]
    BY <1>3 DEF Typed
  <1>5. memory' = [version |-> memory.version, rows |-> rows]
    BY <1>a, <1>c, <1>4
  <1> HIDE DEF row
  <1>6. rows[t] = row /\ (\A u \in Tables : u # t => rows[u] = memory.rows[u])
        /\ rows = [u \in Tables |-> rows[u]]
    BY <1>c, <1>4
  <1> HIDE DEF rows
  <1>7. row = [k \in RowKeys(t) |-> row[k]]
    BY <1>2 DEF Good
  <1>8. \A u \in Tables : rows[u] = [j \in RowKeys(u) |-> rows[u][j]]
    BY <1>4, <1>6, <1>7
  <1>9. \A u \in Tables : \A j \in RowKeys(u) :
           \/ rows[u][j] = memory.rows[u][j]
           \/ rows[u][j] \subseteq Columns(u, Newest)
              /\ (rows[u][j] # {} => Exists(u, memory.version) /\ Created[u] \in rows[u][j])
    BY <1>2, <1>3, <1>6 DEF Good
  <1>10. "roles" \in Tables /\ memory.version >= 1 => rows["roles"][1] = memory.rows["roles"][1]
    BY <1>2, <1>6 DEF Good
  <1>11. memory.rows[t][User] = {}
    BY <1>c, <1>1, LoadFacts, KeyFacts DEF Unfilled
  <1>12. \A u \in Tables : rows[u][User] # {} => \A p \in Parents(u) : rows[p][User] # {}
    <2> SUFFICES ASSUME NEW u \in Tables, rows[u][User] # {}, NEW p \in Parents(u)
                 PROVE  rows[p][User] # {}
      OBVIOUS
    <2>1. p \in Tables
      BY ParentFacts
    <2>2. memory.rows[p][User] # {}
      <3>1. CASE u = t
        BY <1>2, <1>6, <3>1 DEF Good
      <3>2. CASE u # t
        BY <1>3, <1>6, <3>2 DEF Sound, References
      <3> QED
        BY <3>1, <3>2
    <2> QED
      BY <1>6, <1>11, <2>1, <2>2
  <1>13. Sound(memory')
    BY <1>3, <1>5, <1>6, <1>8, <1>9, <1>10, <1>12, SoundAgain
  <1>14. ASSUME NEW u \in Tables PROVE IF Passed(u)' THEN Kept(u)' /\ Restored(u)' ELSE Unfilled(u)'
    <2>1. CASE u = t
      <3>1. memory'.rows[u] = row /\ Good(u, row)
        BY <1>2, <1>5, <1>6, <2>1
      <3>2. Kept(u)' /\ Restored(u)'
        BY <1>a, <3>1 DEF Good, Kept, Restored
      <3>3. Passed(u)'
        BY <1>b, <2>1
      <3> QED
        BY <3>2, <3>3
    <2>2. CASE u # t
      <3>1. memory'.rows[u] = memory.rows[u] /\ (Passed(u)' <=> Passed(u))
        BY <1>b, <1>5, <1>6, <2>2
      <3>2. (Kept(u)' <=> Kept(u)) /\ (Restored(u)' <=> Restored(u)) /\ (Unfilled(u)' <=> Unfilled(u))
        BY <1>a, <3>1 DEF Kept, Restored, Unfilled
      <3> QED
        BY <1>a, <3>1, <3>2 DEF PersistInv
    <2> QED
      BY <2>1, <2>2
  <1>15. memory'.version = memory.version
    BY <1>5
  <1> QED
    BY <1>a, <1>13, <1>14, <1>15 DEF PersistInv

-----------------------------------------------------------------------------
(***************************************************************************)
(* The other steps.                                                        *)
(***************************************************************************)
LEMMA OpenKeeps ==
  ASSUME PersistInv, Open
  PROVE  PersistInv'
  <1>1. memory' = Fresh /\ phase' = "migrating" /\ UNCHANGED <<disk, temp, loaded>> /\ phase = "down"
    BY DEF Open
  <1>2. Sound(memory') /\ memory'.version = 0
    BY <1>1, FreshSound DEF Fresh
  <1>3. \A t \in Tables : Unfilled(t)'
    BY <1>1, FreshSound DEF Unfilled
  <1>4. Newest = 20
    BY SchemaParts
  <1> QED
    BY <1>1, <1>2, <1>3, <1>4 DEF PersistInv, Phases

\* After the last migration the load begins, or the server serves.
LEMMA MigrationsKeep ==
  ASSUME PersistInv, Migrations
  PROVE  PersistInv'
  <1>1. /\ phase = "migrating" /\ memory.version = Newest /\ phase' \in {"serving", "loading"}
        /\ UNCHANGED <<memory, disk, temp, loaded>> /\ loaded = 0
    BY DEF PersistInv, Migrations
  <1>2. \A t : ~Passed(t)'
    BY <1>1 DEF Passed
  <1>3. \A t \in Tables : Unfilled(t)'
    BY <1>1 DEF PersistInv, Unfilled
  <1> QED
    BY <1>1, <1>2, <1>3 DEF PersistInv, Phases

\* A save writes a file beside the saved one and renames it.
LEMMA SaveKeeps ==
  ASSUME PersistInv, SaveBegin \/ SaveVacuum \/ SaveFails \/ SaveRename
  PROVE  PersistInv'
  <1>1. UNCHANGED <<memory, loaded>> /\ Newest = 20
    BY SchemaParts DEF SaveBegin, SaveVacuum, SaveFails, SaveRename
  <1>2. Torn.version = Newest + 1 /\ NoSave.version = 0
    BY DEF Torn, NoSave, Fresh
  <1>3. CASE SaveBegin
    BY <1>1, <1>2, <1>3 DEF SaveBegin, PersistInv, Phases
  <1>4. CASE SaveVacuum
    BY <1>1, <1>4 DEF SaveVacuum, PersistInv, Phases
  <1>5. CASE SaveFails
    BY <1>1, <1>2, <1>5 DEF SaveFails, PersistInv, Phases
  <1>6. CASE SaveRename
    BY <1>1, <1>2, <1>6 DEF SaveRename, PersistInv, Phases
  <1> QED
    BY <1>3, <1>4, <1>5, <1>6

\* A signal, a crash, and the two steps of a reset.
LEMMA ProcessKeeps ==
  ASSUME PersistInv, Serve \/ Signal \/ Crash \/ ResetRemove \/ ResetDrop
  PROVE  PersistInv'
  <1>1. Newest = 20 /\ temp' = temp
    BY SchemaParts DEF Serve, Signal, Crash, ResetRemove, ResetDrop
  <1>2. CASE Serve
    BY <1>1, <1>2 DEF Serve, PersistInv, Phases
  <1>3. CASE Signal
    BY <1>1, <1>3 DEF Signal, PersistInv, Phases
  <1>4. CASE Crash
    BY <1>1, <1>4 DEF Crash, PersistInv, Phases
  <1>5. Sound(Fresh) /\ Fresh.version = 0
    BY FreshSound DEF Fresh
  <1>6. CASE ResetRemove
    BY <1>1, <1>5, <1>6 DEF ResetRemove, NoSave, PersistInv, Phases
  <1>7. CASE ResetDrop
    BY <1>1, <1>5, <1>7 DEF ResetDrop, PersistInv, Phases
  <1> QED
    BY <1>2, <1>3, <1>4, <1>6, <1>7

\* Every step keeps the invariant.
LEMMA PersistStep ==
  ASSUME PersistInv, [PersistNext]_persistVars
  PROVE  PersistInv'
  <1>1. CASE UNCHANGED persistVars
    <2>1. UNCHANGED <<memory, disk, temp, phase, loaded>>
      BY <1>1 DEF persistVars
    <2>2. \A t : /\ Passed(t)' <=> Passed(t)
                 /\ Kept(t)' <=> Kept(t)
                 /\ Restored(t)' <=> Restored(t)
                 /\ Unfilled(t)' <=> Unfilled(t)
      BY <2>1 DEF Passed, Kept, Restored, Unfilled
    <2> QED
      BY <2>1, <2>2 DEF PersistInv
  <1>2. CASE \E t \in Tables : \E k \in RowKeys(t) : InsertRow(t, k) \/ EditRow(t, k) \/ DeleteRows(t, k)
    BY <1>2, InsertKeeps, EditKeeps, DeleteKeeps
  <1> QED
    BY <1>1, <1>2, OpenKeeps, MigrateKeeps, MigrationsKeep, LoadKeeps, SaveKeeps, ProcessKeeps DEF PersistNext

\* The invariant holds.
LEMMA PersistInductive == PersistSpec => []PersistInv
  BY PersistStart, PersistStep, PTL DEF PersistSpec

\* and it implies the types,
LEMMA PersistInvTypes == PersistInv => PersistTypeOK
  BY DEF PersistInv, PersistTypeOK, Sound, Typed, Phases

-----------------------------------------------------------------------------
(* The types: a database that serves has every migration, and no row has   *)
(* a column that no migration makes.                                       *)
THEOREM PersistTypes == PersistSpec => []PersistTypeOK
  BY PersistInvTypes, PersistInductive, PTL

(* Whatever crashes, fails or is written meanwhile, the file is a whole    *)
(* save whose rows refer to rows it has, or there is none: a save writes   *)
(* beside it and renames (persistToDisk).                                  *)
THEOREM SavesAreWhole == PersistSpec => []FileIsWhole
  <1>1. PersistInv => FileIsWhole
    BY DEF PersistInv, FileIsWhole, Sound
  <1> QED
    BY <1>1, PersistInductive, PTL

(* Through migrations, loads of old files, statements, deletions that      *)
(* cascade and resets, a row in memory refers only to rows in memory.      *)
THEOREM MemoryIsConsistent == PersistSpec => []MemoryReferences
  <1>1. PersistInv => MemoryReferences
    BY DEF PersistInv, MemoryReferences, Sound
  <1> QED
    BY <1>1, PersistInductive, PTL

(* LoadFromDisk restores what a server of the same release has saved:      *)
(* the rows of every table it knows, no fewer and no more.                 *)
THEOREM RestartsRestore == PersistSpec => []RestartRestores
  <1>1. ASSUME PersistInv, phase = "loading", Left = {}, disk.version = Newest,
               NEW t \in Tables \ Unsaved, NEW k \in RowKeys(t)
        PROVE  /\ memory.rows[t][k] = {} <=> disk.rows[t][k] = {}
               /\ memory.rows[t][k] \subseteq disk.rows[t][k]
    <2>1. t \in AllTables /\ Newest = 20
      BY KeyFacts
    <2>2. CASE t \in Loadable
      <3>1. Passed(t)
        BY <1>1, <2>2, AllPassed
      <3> QED
        BY <1>1, <3>1 DEF PersistInv, Restored
    <2>3. CASE t \notin Loadable
      <3>1. Dropped[t] = {4} \/ Dropped[t] = {5}
        BY <1>1, <2>1, <2>3, TableFacts DEF Loadable
      <3>2. ~Exists(t, Newest)
        BY <2>1, <3>1 DEF Exists
      <3>3. memory.version = Newest /\ Sound(memory) /\ Sound(disk)
        BY <1>1 DEF PersistInv
      <3>4. memory.rows[t][k] = {} /\ disk.rows[t][k] = {}
        BY <1>1, <3>2, <3>3 DEF Sound, RowsExist
      <3> QED
        BY <3>4
    <2> QED
      BY <2>2, <2>3
  <1>2. PersistInv => RestartRestores
    BY <1>1 DEF RestartRestores
  <1> QED
    BY <1>2, PersistInductive, PTL

(* A file of any older release loses none of its users, distributions,     *)
(* components, sources and downloads, nor the sources of the two tables    *)
(* that migration 4 has merged.                                            *)
THEOREM UpgradesKeepRows == PersistSpec => []UpgradeKeepsRows
  <1>1. ASSUME PersistInv, phase = "loading", Left = {}, NEW t \in Tables, t \in Copied
        PROVE  Kept(t)
    <2>1. t \in Loadable
      <3>1. t \in AllTables /\ t \notin Unsaved \cup Merged \cup {"distribution_source_overrides"}
        BY <1>1, KeyFacts DEF Copied, Unsaved, Merged, MergeSources, Migration
      <3> QED
        BY <3>1 DEF Loadable
    <2>2. Passed(t)
      BY <1>1, <2>1, AllPassed
    <2> QED
      BY <1>1, <2>2 DEF PersistInv
  <1>2. PersistInv => UpgradeKeepsRows
    BY <1>1 DEF UpgradeKeepsRows, Kept, Copied
  <1> QED
    BY <1>2, PersistInductive, PTL

=============================================================================
