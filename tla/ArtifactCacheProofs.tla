------------------------ MODULE ArtifactCacheProofs ------------------------
(***************************************************************************)
(* Proofs about the artifact cache, for any number of distributions,       *)
(* artifacts, jobs and workers and any sizes.  What the steps share is the *)
(* lock of Store: under it a file is in the cache exactly when its         *)
(* artifact has an entry, but for the artifact that Store is between the   *)
(* two of, and no artifact has two entries.  Every handler step is shown   *)
(* to keep what it has in its hands true of the tables (Own), and what all *)
(* others have in theirs (OwnKept).  The limit needs the sum of a sequence *)
(* of rows, which is a recursive function: what appending a row to it or   *)
(* removing one changes is proved by the least counterexample.             *)
(***************************************************************************)
EXTENDS ArtifactCache, FiniteSetTheorems, SequenceTheorems, WellFoundedInduction, TLAPS

\* RemoveAt closes the gap: the rows before stay, those after move up by one.
LEMMA Removal ==
  ASSUME NEW S, NEW s \in Seq(S), NEW i \in DOMAIN s
  PROVE  /\ RemoveAt(s, i) \in Seq(S)
         /\ Len(RemoveAt(s, i)) = Len(s) - 1
         /\ \A j \in 1..(Len(s) - 1) : RemoveAt(s, i)[j] = IF j < i THEN s[j] ELSE s[j + 1]
  <1>1. i \in 1..Len(s) /\ Len(s) \in Nat
    OBVIOUS
  <1> DEFINE a == SubSeq(s, 1, i - 1)
             b == SubSeq(s, i + 1, Len(s))
  <1>2. a \in Seq(S) /\ Len(a) = i - 1 /\ \A j \in 1..(i - 1) : a[j] = s[j]
    BY <1>1
  <1>3. b \in Seq(S) /\ Len(b) = Len(s) - i /\ \A j \in 1..(Len(s) - i) : b[j] = s[i + j]
    BY <1>1
  <1>4. RemoveAt(s, i) = a \o b
    BY DEF RemoveAt
  <1> HIDE DEF a, b
  <1>5. a \o b \in Seq(S) /\ Len(a \o b) = Len(s) - 1
    BY <1>1, <1>2, <1>3
  <1>6. ASSUME NEW j \in 1..(Len(s) - 1)
        PROVE  (a \o b)[j] = IF j < i THEN s[j] ELSE s[j + 1]
    <2>1. CASE j < i
      BY <1>1, <1>2, <1>3, <2>1
    <2>2. CASE ~(j < i)
      <3>1. j \in Nat /\ j - (i - 1) \in 1..(Len(s) - i) /\ i + (j - (i - 1)) = j + 1
        BY <1>1, <2>2
      <3>2. b[j - (i - 1)] = s[j + 1]
        BY <1>3, <3>1
      <3>3. j \in 1..(Len(a) + Len(b)) /\ ~(j <= Len(a))
        BY <1>1, <1>2, <1>3, <2>2
      <3>5. (a \o b)[j] = b[j - Len(a)]
        BY <1>2, <1>3, <3>3, ConcatProperties
      <3> QED
        BY <1>2, <2>2, <3>2, <3>5
    <2> QED
      BY <2>1, <2>2
  <1> QED
    BY <1>4, <1>5, <1>6

\* The rows of the table.
EntryType == [id: Ids, art: Artifacts]
\* No two rows have the same id.
Distinct(s) == \A i, j \in DOMAIN s : s[i].id = s[j].id => i = j
TableOK == entries \in Seq(EntryType) /\ Distinct(entries)

\* Without one of its rows the table has the rows of all other ids.
LEMMA RemovedRow ==
  ASSUME NEW s \in Seq(EntryType), Distinct(s), NEW i \in DOMAIN s
  PROVE  /\ RemoveAt(s, i) \in Seq(EntryType)
         /\ Distinct(RemoveAt(s, i))
         /\ ToSet(RemoveAt(s, i)) = {e \in ToSet(s) : e.id # s[i].id}
  <1> DEFINE t == RemoveAt(s, i)
  <1>1. /\ t \in Seq(EntryType) /\ Len(t) = Len(s) - 1
        /\ \A j \in 1..(Len(s) - 1) : t[j] = IF j < i THEN s[j] ELSE s[j + 1]
    BY Removal
  <1> HIDE DEF t
  <1>2. i \in 1..Len(s) /\ Len(s) \in Nat /\ DOMAIN s = 1..Len(s) /\ DOMAIN t = 1..(Len(s) - 1)
    BY <1>1
  <1> DEFINE From(j) == IF j < i THEN j ELSE j + 1
  <1>a. \A j \in DOMAIN t : From(j) \in DOMAIN s /\ From(j) # i
    BY <1>2
  <1>b. \A j \in DOMAIN t : t[j] = s[From(j)]
    BY <1>1, <1>2
  <1>c. \A j, k \in DOMAIN t : From(j) = From(k) => j = k
    BY <1>2
  <1> HIDE DEF From
  <1>3. Distinct(t)
    BY <1>a, <1>b, <1>c DEF Distinct
  <1>4. ASSUME NEW j \in DOMAIN t PROVE t[j] \in ToSet(s) /\ t[j].id # s[i].id
    BY <1>a, <1>b DEF Distinct, ToSet
  <1>5. ASSUME NEW k \in DOMAIN s, k # i PROVE s[k] \in ToSet(t)
    <2>1. CASE k < i
      BY <1>1, <1>2, <2>1 DEF ToSet
    <2>2. CASE k > i
      <3>1. k - 1 \in DOMAIN t /\ t[k - 1] = s[k]
        BY <1>1, <1>2, <2>2
      <3> QED
        BY <3>1 DEF ToSet
    <2> QED
      BY <1>2, <1>5, <2>1, <2>2
  <1>6. ToSet(t) = {e \in ToSet(s) : e.id # s[i].id}
    BY <1>4, <1>5 DEF ToSet
  <1> QED
    BY <1>1, <1>3, <1>6 DEF t

\* A row with an id of its own makes no duplicate.
LEMMA AddedRow ==
  ASSUME NEW s \in Seq(EntryType), Distinct(s), NEW e \in EntryType,
         \A x \in ToSet(s) : x.id # e.id
  PROVE  /\ Append(s, e) \in Seq(EntryType)
         /\ Distinct(Append(s, e))
         /\ ToSet(Append(s, e)) = ToSet(s) \cup {e}
  <1> DEFINE t == Append(s, e)
  <1>1. /\ t \in Seq(EntryType) /\ DOMAIN t = 1..(Len(s) + 1) /\ DOMAIN s = 1..Len(s)
        /\ t[Len(s) + 1] = e /\ \A j \in DOMAIN s : t[j] = s[j]
        /\ Len(s) \in Nat
    OBVIOUS
  <1> HIDE DEF t
  <1>2. \A j \in DOMAIN t : j \in DOMAIN s \/ j = Len(s) + 1
    BY <1>1
  <1>3. Distinct(t)
    BY <1>1, <1>2 DEF Distinct, ToSet
  <1>4. ToSet(t) = ToSet(s) \cup {e}
    BY <1>1, <1>2 DEF ToSet
  <1> QED
    BY <1>1, <1>3, <1>4 DEF t

\* DELETE by id takes one row, or none when it is gone.
LEMMA DeletedEntry ==
  ASSUME NEW STATE id, TableOK, DeleteEntry(id)
  PROVE  /\ TableOK'
         /\ ToSet(entries)' = {e \in ToSet(entries) : e.id # id}
  <1>1. CASE NoEntry(id)
    BY <1>1 DEF NoEntry, TableOK, ToSet
  <1>2. ASSUME NEW i \in DOMAIN entries, entries[i].id = id, entries' = RemoveAt(entries, i)
        PROVE  /\ TableOK'
               /\ ToSet(entries)' = {e \in ToSet(entries) : e.id # id}
    BY <1>2, RemovedRow DEF TableOK
  <1> QED
    BY <1>1, <1>2 DEF DeleteEntry

\* A touched row moves to the end of the order of use and stays.
LEMMA TouchedEntry ==
  ASSUME NEW STATE id, TableOK, Touch(id)
  PROVE  TableOK' /\ ToSet(entries)' = ToSet(entries)
  <1>1. CASE NoEntry(id)
    BY <1>1 DEF NoEntry, TableOK, ToSet
  <1>2. ASSUME NEW i \in DOMAIN entries, entries[i].id = id,
               entries' = Append(RemoveAt(entries, i), entries[i])
        PROVE  TableOK' /\ ToSet(entries)' = ToSet(entries)
    <2> DEFINE t == RemoveAt(entries, i)
    <2>1. t \in Seq(EntryType) /\ Distinct(t) /\ ToSet(t) = {e \in ToSet(entries) : e.id # entries[i].id}
      BY RemovedRow DEF TableOK
    <2>2. entries[i] \in EntryType /\ entries[i] \in ToSet(entries)
      BY DEF TableOK, ToSet
    <2>3. \A e \in ToSet(entries) : e.id = entries[i].id => e = entries[i]
      BY DEF TableOK, ToSet, Distinct
    <2> HIDE DEF t
    <2>4. Append(t, entries[i]) \in Seq(EntryType) /\ Distinct(Append(t, entries[i]))
          /\ ToSet(Append(t, entries[i])) = ToSet(t) \cup {entries[i]}
      BY <2>1, <2>2, AddedRow
    <2>5. entries' = Append(t, entries[i])
      BY <1>2 DEF t
    <2>6. ToSet(t) \cup {entries[i]} = ToSet(entries)
      BY <2>1, <2>2, <2>3
    <2> QED
      BY <2>4, <2>5, <2>6 DEF TableOK
  <1> QED
    BY <1>1, <1>2 DEF Touch

-----------------------------------------------------------------------------
(***************************************************************************)
(* The inductive invariant.                                                *)
(***************************************************************************)
Steps == {"idle", "lookup", "exists", "stale", "touch", "copy", "create", "data", "cross", "row",
          "pend", "upload", "write", "mark", "reread", "lock", "insert", "evict", "evictFile",
          "evictRow", "unlock"}

LocType == [key: DistKeys \cup {<<>>}, run: BOOLEAN, id: Ids \cup {NoId},
            why: {"none", "hit", "cross", "store"}, src: Keys \cup {<<>>}, dst: Keys \cup {<<>>},
            in: Files \cup {NoFile}, out: Files \cup {NoFile}, batch: Seq(EntryType)]

\* The storage, the tables beside the cache and the steps.
TypesOK ==
  /\ file \in [Keys -> Files \cup {NoFile}] /\ whole \subseteq Files
  /\ pending \subseteq DistKeys /\ completed \subseteq DistKeys
  /\ mutex \in Procs \cup {Nobody} /\ begun \in 0..MaxBegun
  /\ pc \in [Procs -> Steps] /\ loc \in [Procs -> LocType]

\* What a goroutine has in its hands at each of its steps.
LocalsOK(p) ==
  /\ pc[p] = "idle" => loc[p] = NoLoc
  /\ pc[p] # "idle" => loc[p].key \in DistKeys
  /\ pc[p] \in {"copy", "create", "data"} => loc[p].why # "none" /\ loc[p].src \in Keys
  /\ pc[p] \in {"create", "data"} \/ (pc[p] = "copy" /\ loc[p].why # "store") =>
       loc[p].why # "store" /\ loc[p].dst \in DistKeys
  /\ pc[p] = "copy" /\ loc[p].why = "store" => loc[p].dst = Cached(Art(p))
  /\ pc[p] \in {"copy", "create", "data"} /\ loc[p].why = "cross" => loc[p].src \in DistKeys
  /\ pc[p] = "lock" => loc[p].src \in DistKeys
  /\ pc[p] \in {"data", "write"} => loc[p].out \in Files
  /\ pc[p] \notin {"exists", "stale", "touch"} => loc[p].id = NoId
  /\ pc[p] \in {"evictFile", "evictRow"} => loc[p].batch # <<>>
  /\ pc[p] \notin {"evict", "evictFile", "evictRow"} => loc[p].batch = <<>>

\* The steps of Store, which are those under the lock.
Storing(p) ==
  \/ pc[p] \in {"insert", "evict", "evictFile", "evictRow", "unlock"}
  \/ pc[p] = "copy" /\ loc[p].why = "store"
\* The lock is held by the goroutine that is within Store.
LockOK(p) == Storing(p) <=> mutex = p

\* The entry of a listed artifact is the one that was listed, while it is there.
BatchOK(p) ==
  \A i \in DOMAIN loc[p].batch : \A e \in ToSet(entries) :
    e.art = loc[p].batch[i].art <=> e.id = loc[p].batch[i].id

\* An entry that Lookup has read is of the artifact that it looks for, and one that
\* it is about to delete, if it is still there, has no file.
LookupOK(p) ==
  /\ pc[p] \in {"exists", "touch"} => \A e \in ToSet(entries) : e.id = loc[p].id => e.art = Art(p)
  /\ pc[p] = "stale" =>
       \A e \in ToSet(entries) : e.id = loc[p].id => file[Cached(e.art)] = NoFile

\* Where a goroutine is between the file and the entry of an artifact.
Inserting(p, a) == pc[p] = "insert" /\ Art(p) = a
Evicting(p, a) == pc[p] = "evictRow" /\ Head(loc[p].batch).art = a

\* Store and the eviction know what they have checked: no entry before the insert,
\* the file before the row.
StoreOK(p) ==
  /\ pc[p] = "copy" /\ loc[p].why = "store" => Entry(Art(p)) = {}
  /\ pc[p] = "insert" => Entry(Art(p)) = {} /\ file[Cached(Art(p))] # NoFile
  /\ pc[p] = "evictRow" => file[Cached(Head(loc[p].batch).art)] = NoFile

\* The file of an artifact is in the cache exactly when its entry is in the table,
\* or a goroutine under the lock is between the two.
Matches(a) == (file[Cached(a)] # NoFile) <=> (Entry(a) # {})
MatchesOK == \A a \in Artifacts : Matches(a) \/ \E p \in Procs : Inserting(p, a) \/ Evicting(p, a)

\* An artifact has one entry.
UniqueOK == \A d, e \in ToSet(entries) : d.art = e.art => d = e

CacheInv ==
  /\ TypesOK /\ TableOK /\ UniqueOK /\ MatchesOK
  /\ \A p \in Procs : LocalsOK(p) /\ LockOK(p) /\ BatchOK(p) /\ LookupOK(p) /\ StoreOK(p)

\* The cache keeps one file per artifact, apart from those of the distributions.
LEMMA KeyFacts ==
  /\ \A a \in Artifacts : Cached(a) \in Keys /\ Cached(a) \notin DistKeys /\ Cached(a)[2] = a
  /\ DistKeys \subseteq Keys
  /\ \A k \in DistKeys : k[2] \in Artifacts
  /\ \A a, b \in Artifacts : Cached(a) = Cached(b) => a = b
  BY SpaceAssumption DEF Keys, DistKeys, Cached

\* Nothing is in the cache at the start.
LEMMA CacheStart == Init => CacheInv
  <1> SUFFICES ASSUME Init PROVE CacheInv
    OBVIOUS
  <1> USE DEF Init
  <1>1. NoLoc \in LocType
    BY DEF NoLoc, LocType
  <1>2. TypesOK
    BY <1>1, SizeAssumption DEF TypesOK, Steps
  <1>3. ToSet(entries) = {} /\ TableOK
    BY DEF ToSet, TableOK, Distinct
  <1>4. UniqueOK
    BY <1>3 DEF UniqueOK
  <1>5. MatchesOK
    BY <1>3, KeyFacts DEF MatchesOK, Matches, Entry
  <1>6. ASSUME NEW p \in Procs
        PROVE  LocalsOK(p) /\ LockOK(p) /\ BatchOK(p) /\ LookupOK(p) /\ StoreOK(p)
    <2>1. pc[p] = "idle" /\ loc[p] = NoLoc /\ mutex # p
      BY ProcsAssumption
    <2>2. LocalsOK(p)
      BY <2>1 DEF LocalsOK, NoLoc
    <2>3. LockOK(p)
      BY <2>1 DEF LockOK, Storing
    <2>4. BatchOK(p)
      BY <1>3 DEF BatchOK
    <2> QED
      BY <2>1, <2>2, <2>3, <2>4 DEF LookupOK, StoreOK
  <1> QED
    BY <1>2, <1>3, <1>4, <1>5, <1>6 DEF CacheInv

\* What a goroutine keeps true of itself.
Own(p) == LocalsOK(p) /\ LockOK(p) /\ BatchOK(p) /\ LookupOK(p) /\ StoreOK(p)
\* The other goroutines do not move.
Others(p) == \A q \in Procs \ {p} : pc'[q] = pc[q] /\ loc'[q] = loc[q]
\* The shared state of the cache stays as it is.
TablesStay ==
  /\ TableOK' /\ ToSet(entries)' = ToSet(entries)
  /\ mutex' = mutex /\ \A a \in Artifacts : file'[Cached(a)] = file[Cached(a)]

\* Rows are rows, and an eviction has the row that it is at.
LEMMA EntryFacts ==
  ASSUME CacheInv
  PROVE  /\ \A e \in ToSet(entries) : e \in EntryType /\ e.id \in Ids /\ e.art \in Artifacts
         /\ \A p \in Procs : pc[p] \in {"evictFile", "evictRow"} =>
              /\ 1 \in DOMAIN loc[p].batch /\ Head(loc[p].batch) = loc[p].batch[1]
              /\ Head(loc[p].batch) \in EntryType
              /\ Head(loc[p].batch).id \in Ids /\ Head(loc[p].batch).art \in Artifacts
  <1>1. ASSUME NEW e \in ToSet(entries) PROVE e \in EntryType
    <2>1. PICK i \in DOMAIN entries : e = entries[i]
      BY DEF ToSet
    <2> QED
      BY <2>1 DEF CacheInv, TableOK
  <1>2. ASSUME NEW p \in Procs, pc[p] \in {"evictFile", "evictRow"}
        PROVE  /\ 1 \in DOMAIN loc[p].batch /\ Head(loc[p].batch) = loc[p].batch[1]
               /\ Head(loc[p].batch) \in EntryType
    <2>1. loc[p].batch \in Seq(EntryType) /\ loc[p].batch # <<>>
      BY <1>2 DEF CacheInv, TypesOK, LocType, LocalsOK
    <2> HIDE DEF EntryType
    <2> QED
      BY <2>1
  <1> QED
    BY <1>1, <1>2 DEF EntryType

\* A goroutine that does not move keeps its part while the tables stay.
LEMMA OwnKept ==
  ASSUME CacheInv, NEW q \in Procs, TablesStay, pc'[q] = pc[q], loc'[q] = loc[q]
  PROVE  Own(q)'
  <1>1. Own(q) /\ pc[q] \in Steps /\ loc[q] \in LocType
    BY DEF CacheInv, Own, TypesOK
  <1>2. LocalsOK(q)'
    BY <1>1 DEF Own, LocalsOK, Art
  <1>3. LockOK(q)'
    BY <1>1 DEF Own, LockOK, Storing, TablesStay
  <1>4. BatchOK(q)'
    BY <1>1 DEF Own, BatchOK, TablesStay
  <1>5. \A e \in ToSet(entries) : e.art \in Artifacts
    BY EntryFacts
  <1>6. LookupOK(q)'
    BY <1>1, <1>5 DEF Own, LookupOK, TablesStay, Art
  <1>7. pc[q] # "idle" => Art(q) \in Artifacts
    BY <1>1, KeyFacts DEF Own, LocalsOK, Art
  <1>8. pc[q] = "evictRow" => Head(loc[q].batch).art \in Artifacts
    BY EntryFacts
  <1>9. StoreOK(q)'
    BY <1>1, <1>7, <1>8 DEF Own, StoreOK, TablesStay, Art, Entry
  <1> QED
    BY <1>2, <1>3, <1>4, <1>6, <1>9 DEF Own

\* A step that leaves the tables alone has only its own part to show.
LEMMA LocalStep ==
  ASSUME CacheInv, NEW p \in Procs, TypesOK', TablesStay, Others(p), Own(p)',
         pc[p] \notin {"insert", "evictRow"}, pc'[p] \notin {"insert", "evictRow"}
  PROVE  CacheInv'
  <1>1. \A q \in Procs : Own(q)'
    BY OwnKept DEF Others
  <1>2. UniqueOK'
    BY DEF CacheInv, UniqueOK, TablesStay
  <1>3. ASSUME NEW a \in Artifacts
        PROVE  Matches(a)' \/ \E q \in Procs : (Inserting(q, a) \/ Evicting(q, a))'
    <2>1. Matches(a) => Matches(a)'
      BY DEF Matches, TablesStay, Entry
    <2>2. ASSUME NEW q \in Procs, Inserting(q, a) \/ Evicting(q, a)
          PROVE  (Inserting(q, a) \/ Evicting(q, a))'
      <3>1. q # p
        BY <2>2 DEF Inserting, Evicting
      <3> QED
        BY <2>2, <3>1 DEF Inserting, Evicting, Others, Art
    <2> QED
      BY <2>1, <2>2 DEF CacheInv, MatchesOK
  <1>4. MatchesOK'
    BY <1>3 DEF MatchesOK
  <1> QED
    BY <1>1, <1>2, <1>4 DEF CacheInv, TablesStay, Own

-----------------------------------------------------------------------------
(***************************************************************************)
(* The steps that leave the shared state of the cache alone.               *)
(***************************************************************************)
LEMMA NoLocType == NoLoc \in LocType
  BY DEF NoLoc, LocType

\* The files of the distributions are not those of the cache.
LEMMA StaysQuiet ==
  ASSUME CacheInv, entries' = entries, mutex' = mutex,
         \A k \in Keys \ DistKeys : file'[k] = file[k]
  PROVE  TablesStay
  BY KeyFacts DEF CacheInv, TableOK, TablesStay, ToSet

\* A family of things has no more members than it has indices.
LEMMA FamilySize ==
  ASSUME NEW S, IsFiniteSet(S), NEW f
  PROVE  /\ IsFiniteSet({f[x] : x \in S}) /\ Cardinality({f[x] : x \in S}) \in Nat
         /\ Cardinality({f[x] : x \in S}) <= Cardinality(S)
  <1> DEFINE T == {f[x] : x \in S}
             g == [x \in S |-> f[x]]
  <1>1. g \in Surjection(S, T)
    BY DEF Surjection
  <1> QED
    BY <1>1, FS_Surjection, FS_CardinalityType

\* There is a file that no key and no goroutine has.
LEMMA FreshFile ==
  ASSUME CacheInv, NEW k \in Keys, file[k] = NoFile
  PROVE  \E g \in Files : g \notin Used
  <1> SUFFICES ASSUME \A g \in Files : g \in Used PROVE FALSE
    OBVIOUS
  <1> DEFINE ins == [p \in Procs |-> loc[p].in]
             outs == [p \in Procs |-> loc[p].out]
             A == {file[j] : j \in Keys}
             B == {ins[p] : p \in Procs}
             C == {outs[p] : p \in Procs}
             m == Cardinality(Keys)
             n == Cardinality(Procs)
  <1>1. IsFiniteSet(Keys) /\ IsFiniteSet(Procs) /\ m \in Nat /\ n \in Nat
    <2>1. IsFiniteSet(Dists \cup {Shared})
      BY SpaceAssumption, FS_AddElement
    <2> QED
      BY <2>1, SpaceAssumption, ProcsAssumption, FS_Product, FS_CardinalityType DEF Keys
  <1>2. /\ IsFiniteSet(A) /\ IsFiniteSet(B) /\ IsFiniteSet(C)
        /\ Cardinality(A) \in Nat /\ Cardinality(B) \in Nat /\ Cardinality(C) \in Nat
        /\ Cardinality(A) <= m /\ Cardinality(B) <= n /\ Cardinality(C) <= n
    BY <1>1, FamilySize
  <1>3. /\ IsFiniteSet(A \cup B \cup C) /\ Cardinality(A \cup B \cup C) \in Nat
        /\ Cardinality(A \cup B \cup C) <= m + 2 * n
    <2> HIDE DEF A, B, C, m, n
    <2>1. /\ IsFiniteSet(A \cup B) /\ Cardinality(A \cap B) \in Nat
          /\ Cardinality(A \cup B) = Cardinality(A) + Cardinality(B) - Cardinality(A \cap B)
      BY <1>2, FS_Union, FS_Intersection, FS_CardinalityType
    <2>2. /\ IsFiniteSet(A \cup B \cup C) /\ Cardinality((A \cup B) \cap C) \in Nat
          /\ Cardinality(A \cup B \cup C) =
               Cardinality(A \cup B) + Cardinality(C) - Cardinality((A \cup B) \cap C)
      BY <1>2, <2>1, FS_Union, FS_Intersection, FS_CardinalityType
    <2>3. Cardinality(A \cup B \cup C) \in Nat
      BY <2>2, FS_CardinalityType
    <2> QED
      BY <1>1, <1>2, <2>1, <2>2, <2>3
  <1>4. 0..(m + 2 * n) \subseteq A \cup B \cup C
    <2>1. Used \subseteq A \cup B \cup C
      BY DEF Used
    <2>2. 0 \in A
      BY DEF NoFile
    <2>3. \A i \in 0..(m + 2 * n) : i = 0 \/ i \in Files
      BY <1>1 DEF Files
    <2> QED
      BY <2>1, <2>2, <2>3
  <1>5. Cardinality(0..(m + 2 * n)) = m + 2 * n + 1
    <2> HIDE DEF m, n
    <2> QED
      BY <1>1, FS_Interval
  <1>6. Cardinality(0..(m + 2 * n)) <= Cardinality(A \cup B \cup C)
    BY <1>3, <1>4, FS_Subset
  <1> QED
    <2> HIDE DEF A, B, C, m, n
    <2> QED
      BY <1>1, <1>3, <1>5, <1>6

\* Create makes a file of a distribution.
LEMMA CreateQuiet ==
  ASSUME CacheInv, NEW p \in Procs, NEW STATE k, k \in DistKeys, Create(p, k)
  PROVE  /\ file' \in [Keys -> Files \cup {NoFile}] /\ whole' \subseteq Files
         /\ loc' \in [Procs -> LocType] /\ \A q \in Procs \ {p} : loc'[q] = loc[q]
         /\ \E f \in Files : loc' = [loc EXCEPT ![p].out = f]
         /\ \A j \in Keys \ DistKeys : file'[j] = file[j]
  <1> DEFINE f == IF file[k] # NoFile THEN file[k] ELSE CHOOSE g \in Files : g \notin Used
  <1>1. k \in Keys /\ file \in [Keys -> Files \cup {NoFile}] /\ whole \subseteq Files
        /\ loc \in [Procs -> LocType] /\ loc[p] \in LocType
    BY KeyFacts DEF CacheInv, TypesOK
  <1>2. f \in Files
    BY <1>1, FreshFile
  <1>3. /\ file' = [file EXCEPT ![k] = f] /\ whole' = whole \ {f}
        /\ loc' = [loc EXCEPT ![p].out = f]
    BY DEF Create
  <1> HIDE DEF f
  <1>4. loc'[p] = [loc[p] EXCEPT !.out = f] /\ loc' = [loc EXCEPT ![p] = loc'[p]]
    BY <1>1, <1>3
  <1>5. loc'[p] \in LocType
    BY <1>1, <1>2, <1>4 DEF LocType
  <1> QED
    BY <1>1, <1>2, <1>3, <1>4, <1>5

LEMMA StartKeeps ==
  ASSUME CacheInv, NEW p \in Procs, NEW k \in DistKeys, Start(p, k)
  PROVE  CacheInv'
  <1> USE DEF Start, Goto
  <1>1. pc[p] = "idle" /\ loc[p] = NoLoc /\ loc \in [Procs -> LocType] /\ pc \in [Procs -> Steps]
    BY DEF CacheInv, TypesOK, LocalsOK
  <1>2. pc'[p] = "lookup" /\ Others(p)
    BY <1>1 DEF Others
  <1>3. loc'[p] = [NoLoc EXCEPT !.key = k] /\ loc' = [loc EXCEPT ![p] = loc'[p]]
    BY <1>1
  <1>4. loc'[p] \in LocType /\ loc'[p].key = k /\ loc'[p].id = NoId /\ loc'[p].batch = <<>>
    <2>1. NoLoc.id = NoId /\ NoLoc.batch = <<>>
      BY DEF NoLoc
    <2> QED
      BY <1>3, <2>1, NoLocType DEF LocType
  <1>a. begun' \in 0..MaxBegun
    BY SizeAssumption DEF CacheInv, TypesOK, Begin
  <1>b. loc' \in [Procs -> LocType] /\ pc' \in [Procs -> Steps]
    BY <1>1, <1>3, <1>4 DEF Steps
  <1>5. TypesOK'
    BY <1>a, <1>b DEF CacheInv, TypesOK, storage, rows
  <1>6. TablesStay
    BY StaysQuiet DEF storage
  <1>7. Own(p)'
    <2>1. mutex # p
      BY <1>1 DEF CacheInv, LockOK, Storing
    <2> QED
      BY <1>2, <1>4, <2>1 DEF Own, LocalsOK, LockOK, Storing, BatchOK, LookupOK, StoreOK
  <1> QED
    BY <1>1, <1>2, <1>5, <1>6, <1>7, LocalStep

\* What the proofs of the steps know of the goroutine that takes one.
LEMMA Hands ==
  ASSUME CacheInv, NEW p \in Procs
  PROVE  /\ loc \in [Procs -> LocType] /\ pc \in [Procs -> Steps] /\ loc[p] \in LocType
         /\ pc[p] # "idle" => loc[p].key \in DistKeys /\ Art(p) \in Artifacts
         /\ mutex = p <=> Storing(p)
  BY KeyFacts DEF CacheInv, TypesOK, LocalsOK, LockOK, Art

\* Run begins an upload.
LEMMA RunKeeps ==
  ASSUME CacheInv, NEW p \in Procs, NEW k \in DistKeys, Run(p, k)
  PROVE  CacheInv'
  <1> USE DEF Run, Goto
  <1>1. pc[p] = "idle" /\ loc[p] = NoLoc /\ loc \in [Procs -> LocType] /\ pc \in [Procs -> Steps]
    BY DEF CacheInv, TypesOK, LocalsOK
  <1>2. pc'[p] = "upload" /\ Others(p)
    BY <1>1 DEF Others
  <1>3. loc'[p] = [NoLoc EXCEPT !.key = k, !.run = TRUE] /\ loc' = [loc EXCEPT ![p] = loc'[p]]
    BY <1>1
  <1>4. loc'[p] \in LocType /\ loc'[p].key = k /\ loc'[p].id = NoId /\ loc'[p].batch = <<>>
    <2>1. NoLoc.id = NoId /\ NoLoc.batch = <<>>
      BY DEF NoLoc
    <2>2. ASSUME NEW b \in BOOLEAN, NEW r, r = [NoLoc EXCEPT !.key = k, !.run = b]
          PROVE  r \in LocType /\ r.key = k /\ r.id = NoId /\ r.batch = <<>>
      BY <2>1, <2>2, NoLocType DEF LocType
    <2> QED
      BY <1>3, <2>2
  <1>a. begun' \in 0..MaxBegun
    BY SizeAssumption DEF CacheInv, TypesOK, Begin
  <1>b. loc' \in [Procs -> LocType] /\ pc' \in [Procs -> Steps]
    BY <1>1, <1>3, <1>4 DEF Steps
  <1>5. TypesOK'
    BY <1>a, <1>b DEF CacheInv, TypesOK, storage, rows
  <1>6. TablesStay
    BY StaysQuiet DEF storage
  <1>7. Own(p)'
    <2>1. mutex # p
      BY <1>1 DEF CacheInv, LockOK, Storing
    <2>2. LocalsOK(p)'
      BY <1>2, <1>4 DEF LocalsOK
    <2>3. LockOK(p)' /\ LookupOK(p)' /\ StoreOK(p)'
      BY <1>2, <2>1 DEF LockOK, Storing, LookupOK, StoreOK
    <2>4. BatchOK(p)'
      BY <1>4 DEF BatchOK
    <2> QED
      BY <2>2, <2>3, <2>4 DEF Own
  <1> QED
    BY <1>1, <1>2, <1>5, <1>6, <1>7, LocalStep

LEMMA LookupGetKeeps ==
  ASSUME CacheInv, NEW p \in Procs, LookupGet(p)
  PROVE  CacheInv'
  <1> USE DEF Goto
  <1>1. /\ loc \in [Procs -> LocType] /\ pc \in [Procs -> Steps] /\ loc[p] \in LocType
        /\ pc[p] = "lookup" /\ loc[p].key \in DistKeys /\ mutex # p /\ UNCHANGED <<storage, entries, rows, mutex, begun>>
        /\ loc[p].batch = <<>> /\ loc[p].id = NoId
    BY Hands DEF LookupGet, Storing, CacheInv, LocalsOK
  <1>2. TablesStay
    BY <1>1, StaysQuiet DEF storage
  <1>3. CASE Entry(Art(p)) = {} /\ Goto(p, "lookup", "cross") /\ UNCHANGED loc
    <2>1. pc'[p] = "cross" /\ Others(p) /\ TypesOK'
      BY <1>1, <1>3 DEF Others, CacheInv, TypesOK, storage, rows, Steps
    <2>2. Own(p)'
      BY <1>1, <1>3, <2>1 DEF Own, LocalsOK, LockOK, Storing, BatchOK, LookupOK, StoreOK
    <2> QED
      BY <1>1, <1>2, <2>1, <2>2, LocalStep
  <1>4. ASSUME NEW e \in Entry(Art(p)), Goto(p, "lookup", "exists"), loc' = [loc EXCEPT ![p].id = e.id]
        PROVE  CacheInv'
    <2>1. e \in ToSet(entries) /\ e.id \in Ids /\ e.art = Art(p)
      BY EntryFacts DEF Entry
    <2>2. loc'[p] = [loc[p] EXCEPT !.id = e.id] /\ loc' = [loc EXCEPT ![p] = loc'[p]]
      BY <1>1, <1>4
    <2>3. loc'[p] \in LocType /\ loc'[p].id = e.id /\ loc'[p].key = loc[p].key /\ loc'[p].batch = <<>>
      BY <1>1, <2>1, <2>2 DEF LocType
    <2>4. pc'[p] = "exists" /\ Others(p) /\ TypesOK'
      BY <1>1, <1>4, <2>2, <2>3 DEF Others, CacheInv, TypesOK, storage, rows, Steps
    <2>5. \A d \in ToSet(entries) : d.id = e.id => d.art = e.art
      <3>1. PICK i \in DOMAIN entries : e = entries[i]
        BY <2>1 DEF ToSet
      <3> QED
        BY <3>1 DEF CacheInv, TableOK, Distinct, ToSet
    <2>6. LookupOK(p)'
      BY <1>2, <2>1, <2>3, <2>4, <2>5 DEF LookupOK, TablesStay, Art
    <2>7. Own(p)'
      BY <1>1, <2>3, <2>4, <2>6 DEF Own, LocalsOK, LockOK, Storing, BatchOK, StoreOK
    <2> QED
      BY <1>1, <1>2, <2>4, <2>7, LocalStep
  <1> QED
    BY <1>3, <1>4 DEF LookupGet

LEMMA LookupExistsKeeps ==
  ASSUME CacheInv, NEW p \in Procs, LookupExists(p)
  PROVE  CacheInv'
  <1> USE DEF Goto
  <1>1. /\ loc \in [Procs -> LocType] /\ pc \in [Procs -> Steps] /\ loc[p] \in LocType
        /\ pc[p] = "exists" /\ loc[p].key \in DistKeys /\ mutex # p /\ loc[p].batch = <<>>
    BY Hands DEF LookupExists, Storing, CacheInv, LocalsOK
  <1>2. TablesStay
    BY StaysQuiet DEF storage, LookupExists
  <1>3. pc'[p] = (IF file[Cached(Art(p))] # NoFile THEN "touch" ELSE "stale") /\ Others(p) /\ loc' = loc
    BY <1>1 DEF Others, LookupExists
  <1>4. TypesOK'
    BY <1>1, <1>3 DEF CacheInv, TypesOK, storage, rows, Steps, LookupExists
  <1>5. \A e \in ToSet(entries) : e.id = loc[p].id => e.art = Art(p)
    BY <1>1 DEF CacheInv, LookupOK
  <1>6. LookupOK(p)'
    BY <1>2, <1>3, <1>5, EntryFacts DEF LookupOK, TablesStay, Art
  <1>7. Own(p)'
    BY <1>1, <1>2, <1>3, <1>6 DEF Own, LocalsOK, LockOK, Storing, BatchOK, StoreOK, TablesStay
  <1> QED
    BY <1>1, <1>2, <1>3, <1>4, <1>7, LocalStep

LEMMA LookupTouchKeeps ==
  ASSUME CacheInv, NEW p \in Procs, LookupTouch(p)
  PROVE  CacheInv'
  <1> USE DEF Goto
  <1>1. /\ loc \in [Procs -> LocType] /\ pc \in [Procs -> Steps] /\ loc[p] \in LocType
        /\ pc[p] = "touch" /\ loc[p].key \in DistKeys /\ Art(p) \in Artifacts
        /\ mutex # p /\ loc[p].batch = <<>>
    BY Hands DEF LookupTouch, Storing, CacheInv, LocalsOK
  <1>2. TablesStay
    BY TouchedEntry DEF storage, LookupTouch, CacheInv, TablesStay
  <1>3. pc'[p] = "copy" /\ Others(p) /\ loc' = [loc EXCEPT ![p] = loc'[p]]
        /\ loc'[p] = [loc[p] EXCEPT !.id = NoId, !.why = "hit", !.src = Cached(Art(p)), !.dst = loc[p].key]
    BY <1>1 DEF Others, LookupTouch
  <1>4. /\ loc'[p] \in LocType /\ loc'[p].id = NoId /\ loc'[p].why = "hit" /\ loc'[p].src \in Keys
        /\ loc'[p].dst = loc[p].key /\ loc'[p].key = loc[p].key /\ loc'[p].batch = <<>>
    <2>1. Cached(Art(p)) \in Keys /\ loc[p].key \in Keys
      BY <1>1, KeyFacts
    <2> HIDE DEF Cached
    <2> QED
      BY <1>1, <1>3, <2>1 DEF LocType
  <1>5. TypesOK'
    BY <1>1, <1>3, <1>4 DEF CacheInv, TypesOK, storage, rows, Steps, LookupTouch
  <1>6. Own(p)'
    BY <1>1, <1>2, <1>3, <1>4 DEF Own, LocalsOK, LockOK, Storing, BatchOK, StoreOK, LookupOK, TablesStay
  <1> QED
    BY <1>1, <1>2, <1>3, <1>5, <1>6, LocalStep

LEMMA CrossDistKeeps ==
  ASSUME CacheInv, NEW p \in Procs, CrossDist(p)
  PROVE  CacheInv'
  <1> USE DEF Goto
  <1>1. /\ loc \in [Procs -> LocType] /\ pc \in [Procs -> Steps] /\ loc[p] \in LocType
        /\ pc[p] = "cross" /\ loc[p].key \in DistKeys /\ mutex # p /\ UNCHANGED <<storage, entries, rows, mutex, begun>>
        /\ loc[p].batch = <<>> /\ loc[p].id = NoId
    BY Hands DEF CrossDist, Storing, CacheInv, LocalsOK
  <1>2. TablesStay
    BY <1>1, StaysQuiet DEF storage
  <1>3. CASE Goto(p, "cross", "pend") /\ UNCHANGED loc
    <2>1. pc'[p] = "pend" /\ Others(p) /\ TypesOK'
      BY <1>1, <1>3 DEF Others, CacheInv, TypesOK, storage, rows, Steps
    <2>2. Own(p)'
      BY <1>1, <1>3, <2>1 DEF Own, LocalsOK, LockOK, Storing, BatchOK, LookupOK, StoreOK
    <2> QED
      BY <1>1, <1>2, <2>1, <2>2, LocalStep
  <1>4. ASSUME NEW k \in completed, Goto(p, "cross", "copy"), Copy(p, "cross", k, loc[p].key)
        PROVE  CacheInv'
    <2>1. k \in DistKeys /\ k \in Keys
      BY KeyFacts DEF CacheInv, TypesOK
    <2>2. loc'[p] = [loc[p] EXCEPT !.why = "cross", !.src = k, !.dst = loc[p].key]
          /\ loc' = [loc EXCEPT ![p] = loc'[p]]
      BY <1>1, <1>4 DEF Copy
    <2>3. /\ loc'[p] \in LocType /\ loc'[p].id = NoId /\ loc'[p].why = "cross" /\ loc'[p].src = k
          /\ loc'[p].dst = loc[p].key /\ loc'[p].key = loc[p].key /\ loc'[p].batch = <<>>
      BY <1>1, <2>1, <2>2, KeyFacts DEF LocType
    <2>4. pc'[p] = "copy" /\ Others(p) /\ TypesOK'
      BY <1>1, <1>4, <2>2, <2>3 DEF Others, CacheInv, TypesOK, storage, rows, Steps
    <2>5. Own(p)'
      BY <1>1, <2>1, <2>3, <2>4 DEF Own, LocalsOK, LockOK, Storing, BatchOK, StoreOK, LookupOK
    <2> QED
      BY <1>1, <1>2, <2>4, <2>5, LocalStep
  <1> QED
    BY <1>3, <1>4 DEF CrossDist

\* A goroutine that is done has nothing in its hands.
LEMMA BackToIdle ==
  ASSUME CacheInv, NEW p \in Procs, NEW STATE s, Return(p, s), s \in Steps \ {"insert", "evictRow"},
         TablesStay, mutex # p, TypesOK'
  PROVE  CacheInv'
  <1> USE DEF Goto, Return
  <1>1. loc \in [Procs -> LocType] /\ pc \in [Procs -> Steps] /\ pc[p] = s
    BY Hands
  <1>2. pc'[p] = "idle" /\ loc'[p] = NoLoc /\ Others(p)
    BY <1>1 DEF Others
  <1>3. loc'[p].batch = <<>>
    BY <1>2 DEF NoLoc
  <1>4. Own(p)'
    BY <1>2, <1>3 DEF Own, LocalsOK, LockOK, Storing, BatchOK, StoreOK, LookupOK, TablesStay, NoLoc
  <1> QED
    BY <1>1, <1>2, <1>4, LocalStep

\* A goroutine that returns has nothing in its hands.
LEMMA DoneTypes ==
  ASSUME CacheInv, NEW p \in Procs, NEW STATE s, Return(p, s)
  PROVE  loc' \in [Procs -> LocType] /\ pc' \in [Procs -> Steps]
  BY Hands, NoLocType DEF Return, Goto, Steps

\* The row of a download job, with the job or before it.
LEMMA CreateRowKeeps ==
  ASSUME CacheInv, NEW p \in Procs, CreateRow(p)
  PROVE  CacheInv'
  <1>1. pc[p] \in {"row", "pend"} /\ mutex # p /\ loc[p].key \in DistKeys
    BY Hands DEF CreateRow, Storing, Return, Goto
  <1>2. TablesStay
    BY StaysQuiet DEF storage, CreateRow
  <1>3. CASE Return(p, "row") /\ completed' = completed \cup {loc[p].key} /\ UNCHANGED pending
    <2>1. TypesOK'
      BY <1>1, <1>3, DoneTypes DEF CacheInv, TypesOK, CreateRow, storage
    <2> QED
      BY <1>1, <1>2, <1>3, <2>1, BackToIdle DEF Steps
  <1>4. CASE Return(p, "pend") /\ pending' = pending \cup {loc[p].key} /\ UNCHANGED completed
    <2>1. TypesOK'
      BY <1>1, <1>4, DoneTypes DEF CacheInv, TypesOK, CreateRow, storage
    <2> QED
      BY <1>1, <1>2, <1>4, <2>1, BackToIdle DEF Steps
  <1> QED
    BY <1>3, <1>4 DEF CreateRow

LEMMA UploadCreateKeeps ==
  ASSUME CacheInv, NEW p \in Procs, UploadCreate(p)
  PROVE  CacheInv'
  <1> USE DEF Goto
  <1>1. /\ pc \in [Procs -> Steps] /\ loc[p] \in LocType /\ loc \in [Procs -> LocType]
        /\ pc[p] = "upload" /\ loc[p].key \in DistKeys /\ mutex # p /\ loc[p].batch = <<>> /\ loc[p].id = NoId
    BY Hands DEF UploadCreate, Storing, CacheInv, LocalsOK
  <1>2. /\ file' \in [Keys -> Files \cup {NoFile}] /\ whole' \subseteq Files
        /\ loc' \in [Procs -> LocType] /\ \A q \in Procs \ {p} : loc'[q] = loc[q]
        /\ \E f \in Files : loc' = [loc EXCEPT ![p].out = f]
        /\ \A j \in Keys \ DistKeys : file'[j] = file[j]
    BY <1>1, CreateQuiet DEF UploadCreate
  <1>3. loc'[p].key = loc[p].key /\ loc'[p].batch = <<>> /\ loc'[p].id = NoId /\ loc'[p].out \in Files
    BY <1>1, <1>2 DEF LocType
  <1>4. pc'[p] = "write" /\ Others(p) /\ TypesOK' /\ TablesStay
    BY <1>1, <1>2, StaysQuiet DEF Others, CacheInv, TypesOK, rows, Steps, UploadCreate
  <1>5. Own(p)'
    BY <1>1, <1>3, <1>4 DEF Own, LocalsOK, LockOK, Storing, BatchOK, StoreOK, LookupOK, TablesStay
  <1> QED
    BY <1>1, <1>4, <1>5, LocalStep

\* The copies of Lookup and CrossDist: into a new file of the distribution.
LEMMA CopyCreateKeeps ==
  ASSUME CacheInv, NEW p \in Procs, CopyCreate(p)
  PROVE  CacheInv'
  <1> USE DEF Goto
  <1>1. /\ pc \in [Procs -> Steps] /\ loc[p] \in LocType /\ loc \in [Procs -> LocType]
        /\ pc[p] = "create" /\ loc[p].key \in DistKeys /\ mutex # p /\ loc[p].batch = <<>> /\ loc[p].id = NoId
        /\ loc[p].why \notin {"store", "none"} /\ loc[p].dst \in DistKeys /\ loc[p].src \in Keys
        /\ loc[p].why = "cross" => loc[p].src \in DistKeys
    BY Hands DEF CopyCreate, Storing, CacheInv, LocalsOK
  <1>2. /\ file' \in [Keys -> Files \cup {NoFile}] /\ whole' \subseteq Files
        /\ loc' \in [Procs -> LocType] /\ \A q \in Procs \ {p} : loc'[q] = loc[q]
        /\ \E f \in Files : loc' = [loc EXCEPT ![p].out = f]
        /\ \A j \in Keys \ DistKeys : file'[j] = file[j]
    BY <1>1, CreateQuiet DEF CopyCreate
  <1>3. /\ loc'[p].key = loc[p].key /\ loc'[p].batch = <<>> /\ loc'[p].id = NoId
        /\ loc'[p].why = loc[p].why /\ loc'[p].dst = loc[p].dst /\ loc'[p].src = loc[p].src
        /\ loc'[p].out \in Files
    BY <1>1, <1>2 DEF LocType
  <1>4. pc'[p] = "data" /\ Others(p) /\ TypesOK' /\ TablesStay
    BY <1>1, <1>2, StaysQuiet DEF Others, CacheInv, TypesOK, rows, Steps, CopyCreate
  <1>5. Own(p)'
    BY <1>1, <1>3, <1>4 DEF Own, LocalsOK, LockOK, Storing, BatchOK, StoreOK, LookupOK, TablesStay
  <1> QED
    BY <1>1, <1>4, <1>5, LocalStep

LEMMA CopyDataKeeps ==
  ASSUME CacheInv, NEW p \in Procs, CopyData(p)
  PROVE  CacheInv'
  <1> USE DEF Goto
  <1>1. /\ pc \in [Procs -> Steps] /\ loc[p] \in LocType /\ loc \in [Procs -> LocType]
        /\ pc[p] = "data" /\ loc[p].key \in DistKeys /\ mutex # p /\ loc[p].batch = <<>> /\ loc[p].id = NoId
        /\ loc[p].why \in {"hit", "cross"} /\ loc[p].dst \in DistKeys /\ loc[p].src \in Keys
        /\ loc[p].why = "cross" => loc[p].src \in DistKeys
        /\ loc[p].out \in Files
    BY Hands DEF CopyData, Storing, CacheInv, LocalsOK, LocType
  <1>2. loc'[p] = [loc[p] EXCEPT !.in = NoFile, !.out = NoFile] /\ loc' = [loc EXCEPT ![p] = loc'[p]]
    BY <1>1 DEF CopyData
  <1>3. /\ loc'[p] \in LocType /\ loc'[p].key = loc[p].key /\ loc'[p].batch = <<>> /\ loc'[p].id = NoId
        /\ loc'[p].why = loc[p].why /\ loc'[p].dst = loc[p].dst /\ loc'[p].src = loc[p].src
    BY <1>1, <1>2 DEF LocType
  <1>4. /\ file' \in [Keys -> Files \cup {NoFile}] /\ whole' \subseteq Files
        /\ \A j \in Keys \ DistKeys : file'[j] = file[j]
    <2>1. file' = file \/ file' = [file EXCEPT ![loc[p].dst] = NoFile]
      BY DEF CopyData, RemoveKey
    <2>2. whole' \subseteq whole \cup {loc[p].out} /\ (whole' = whole \/ whole' = whole \cup {loc[p].out})
      BY DEF CopyData
    <2>3. whole' \subseteq Files
      BY <1>1, <2>2 DEF CacheInv, TypesOK
    <2> QED
      BY <1>1, <2>1, <2>3 DEF CacheInv, TypesOK
  <1>5. pc'[p] \in {"row", "lock", "cross", "pend"} /\ (pc'[p] = "lock" => loc[p].why = "cross") /\ Others(p)
    BY <1>1, <1>2 DEF CopyData, Copied, NotCopied, Others
  <1>6. TypesOK' /\ TablesStay
    BY <1>1, <1>2, <1>3, <1>4, <1>5, StaysQuiet DEF CacheInv, TypesOK, rows, Steps, CopyData
  <1>7. Own(p)'
    BY <1>1, <1>3, <1>5, <1>6 DEF Own, LocalsOK, LockOK, Storing, BatchOK, StoreOK, LookupOK, TablesStay
  <1> QED
    BY <1>1, <1>5, <1>6, <1>7, LocalStep

LEMMA UploadDataKeeps ==
  ASSUME CacheInv, NEW p \in Procs, UploadData(p)
  PROVE  CacheInv'
  <1>1. /\ pc \in [Procs -> Steps] /\ loc[p] \in LocType /\ loc \in [Procs -> LocType]
        /\ pc[p] = "write" /\ loc[p].key \in DistKeys /\ mutex # p /\ loc[p].batch = <<>> /\ loc[p].id = NoId
        /\ loc[p].out \in Files
    BY Hands DEF UploadData, Storing, CacheInv, LocalsOK, Goto, Return
  <1>2. /\ file' \in [Keys -> Files \cup {NoFile}] /\ whole' \subseteq Files
        /\ \A j \in Keys \ DistKeys : file'[j] = file[j]
    <2>1. file' = file \/ file' = [file EXCEPT ![loc[p].key] = NoFile]
      BY DEF UploadData, RemoveKey
    <2>2. whole' = whole \/ whole' = whole \cup {loc[p].out}
      BY DEF UploadData
    <2> QED
      BY <1>1, <2>1, <2>2 DEF CacheInv, TypesOK
  <1>3. TablesStay
    BY <1>2, StaysQuiet DEF UploadData
  <1>4. ASSUME NEW t \in {"mark", "upload"}, Goto(p, "write", t), loc' = [loc EXCEPT ![p].out = NoFile]
        PROVE  CacheInv'
    <2>1. loc'[p] = [loc[p] EXCEPT !.out = NoFile] /\ loc' = [loc EXCEPT ![p] = loc'[p]]
      BY <1>1, <1>4
    <2>2. loc'[p] \in LocType /\ loc'[p].key = loc[p].key /\ loc'[p].batch = <<>> /\ loc'[p].id = NoId
      BY <1>1, <2>1 DEF LocType
    <2>3. pc'[p] = t /\ Others(p) /\ TypesOK'
      BY <1>1, <1>2, <1>4, <2>1, <2>2 DEF Others, Goto, CacheInv, TypesOK, rows, Steps, UploadData
    <2>4. Own(p)'
      BY <1>1, <1>3, <2>2, <2>3 DEF Own, LocalsOK, LockOK, Storing, BatchOK, StoreOK, LookupOK, TablesStay
    <2> QED
      BY <1>1, <1>3, <2>3, <2>4, LocalStep
  <1>5. CASE Return(p, "write")
    <2>1. TypesOK'
      BY <1>2, <1>5, DoneTypes DEF CacheInv, TypesOK, rows, UploadData
    <2> QED
      BY <1>1, <1>3, <1>5, <2>1, BackToIdle DEF Steps
  <1> QED
    BY <1>4, <1>5 DEF UploadData

LEMMA MarkCompletedKeeps ==
  ASSUME CacheInv, NEW p \in Procs, MarkCompleted(p)
  PROVE  CacheInv'
  <1>1. /\ pc \in [Procs -> Steps] /\ loc[p] \in LocType /\ loc \in [Procs -> LocType]
        /\ pc[p] = "mark" /\ loc[p].key \in DistKeys /\ mutex # p /\ loc[p].batch = <<>> /\ loc[p].id = NoId
    BY Hands DEF MarkCompleted, Storing, CacheInv, LocalsOK
  <1>2. TablesStay
    BY StaysQuiet DEF MarkCompleted, storage
  <1>3. pending' \subseteq DistKeys /\ completed' \subseteq DistKeys
    BY <1>1 DEF MarkCompleted, CacheInv, TypesOK, rows
  <1>4. ASSUME NEW t \in {"reread", "upload"}, Goto(p, "mark", t), loc' = loc
        PROVE  CacheInv'
    <2>1. pc'[p] = t /\ Others(p) /\ TypesOK'
      BY <1>1, <1>3, <1>4 DEF Others, Goto, CacheInv, TypesOK, Steps, MarkCompleted, storage
    <2>2. Own(p)'
      BY <1>1, <1>2, <1>4, <2>1 DEF Own, LocalsOK, LockOK, Storing, BatchOK, StoreOK, LookupOK, TablesStay
    <2> QED
      BY <1>1, <1>2, <2>1, <2>2, LocalStep
  <1>5. CASE Return(p, "mark")
    <2>1. TypesOK'
      BY <1>3, <1>5, DoneTypes DEF CacheInv, TypesOK, storage, MarkCompleted
    <2> QED
      BY <1>1, <1>2, <1>5, <2>1, BackToIdle DEF Steps
  <1> QED
    BY <1>4, <1>5 DEF MarkCompleted

LEMMA RereadKeeps ==
  ASSUME CacheInv, NEW p \in Procs, Reread(p)
  PROVE  CacheInv'
  <1>1. /\ pc \in [Procs -> Steps] /\ loc[p] \in LocType /\ loc \in [Procs -> LocType]
        /\ pc[p] = "reread" /\ loc[p].key \in DistKeys /\ mutex # p /\ loc[p].batch = <<>> /\ loc[p].id = NoId
    BY Hands DEF Reread, Storing, CacheInv, LocalsOK, Goto, Return
  <1>2. TablesStay
    BY StaysQuiet DEF Reread, storage
  <1>3. CASE Goto(p, "reread", "lock") /\ loc' = [loc EXCEPT ![p].src = loc[p].key]
    <2>1. loc'[p] = [loc[p] EXCEPT !.src = loc[p].key] /\ loc' = [loc EXCEPT ![p] = loc'[p]]
      BY <1>1, <1>3
    <2>2. /\ loc'[p] \in LocType /\ loc'[p].key = loc[p].key /\ loc'[p].batch = <<>> /\ loc'[p].id = NoId
          /\ loc'[p].src = loc[p].key
      BY <1>1, <2>1, KeyFacts DEF LocType
    <2>3. pc'[p] = "lock" /\ Others(p) /\ TypesOK'
      BY <1>1, <1>3, <2>1, <2>2 DEF Others, Goto, CacheInv, TypesOK, rows, storage, Steps, Reread
    <2>4. Own(p)'
      BY <1>1, <1>2, <2>2, <2>3 DEF Own, LocalsOK, LockOK, Storing, BatchOK, StoreOK, LookupOK, TablesStay
    <2> QED
      BY <1>1, <1>2, <2>3, <2>4, LocalStep
  <1>4. CASE Return(p, "reread")
    <2>1. TypesOK'
      BY <1>4, DoneTypes DEF CacheInv, TypesOK, rows, storage, Reread
    <2> QED
      BY <1>1, <1>2, <1>4, <2>1, BackToIdle DEF Steps
  <1> QED
    BY <1>3, <1>4 DEF Reread

LEMMA EvictCheckKeeps ==
  ASSUME CacheInv, NEW p \in Procs, EvictCheck(p)
  PROVE  CacheInv'
  <1> DEFINE done == Fits \/ (loc[p].batch = <<>> /\ entries = <<>>)
             first == SubSeq(entries, 1, IF Len(entries) < Batch THEN Len(entries) ELSE Batch)
             listed == IF done THEN <<>> ELSE IF loc[p].batch # <<>> THEN loc[p].batch ELSE first
  <1>1. /\ pc \in [Procs -> Steps] /\ loc[p] \in LocType /\ loc \in [Procs -> LocType]
        /\ pc[p] = "evict" /\ loc[p].key \in DistKeys /\ mutex = p /\ loc[p].id = NoId
        /\ entries \in Seq(EntryType)
    BY Hands DEF EvictCheck, Storing, CacheInv, LocalsOK, TableOK, Goto
  <1>2. TablesStay
    BY StaysQuiet DEF EvictCheck, storage
  <1>3. first \in Seq(EntryType) /\ \A i \in DOMAIN first : first[i] \in ToSet(entries)
    <2> HIDE DEF EntryType
    <2>1. DOMAIN entries = 1..Len(entries) /\ Len(entries) \in Nat /\ Batch \in Nat
      BY <1>1, SizeAssumption
    <2> DEFINE n == IF Len(entries) < Batch THEN Len(entries) ELSE Batch
    <2>2. n \in Nat /\ n <= Len(entries)
      BY <2>1
    <2>3. first = SubSeq(entries, 1, n)
      OBVIOUS
    <2> HIDE DEF n, first
    <2>4. first \in Seq(EntryType) /\ DOMAIN first = 1..n /\ \A i \in 1..n : first[i] = entries[i]
      BY <1>1, <2>1, <2>2, <2>3
    <2> QED
      BY <2>1, <2>2, <2>4 DEF ToSet
  <1>4. ~done /\ loc[p].batch = <<>> => first # <<>>
    <2> HIDE DEF EntryType
    <2>1. ASSUME entries # <<>> PROVE Len(entries) \in Nat \ {0}
      BY <1>1, <2>1
    <2>2. entries # <<>> => Len(first) # 0
      BY <1>1, <2>1, SizeAssumption
    <2> QED
      BY <2>2
  <1>5. /\ pc'[p] = (IF done THEN "unlock" ELSE "evictFile") /\ Others(p)
        /\ loc'[p] = [loc[p] EXCEPT !.batch = listed] /\ loc' = [loc EXCEPT ![p] = loc'[p]]
    BY <1>1 DEF EvictCheck, Goto, Others
  <1>6. listed \in Seq(EntryType) /\ (~done => listed # <<>>) /\ (done => listed = <<>>)
    <2> HIDE DEF first, done
    <2>1. loc[p].batch \in Seq(EntryType) /\ <<>> \in Seq(EntryType)
      BY <1>1 DEF LocType
    <2> QED
      BY <1>3, <1>4, <2>1
  <1>7. \A i \in DOMAIN listed : \A e \in ToSet(entries) : e.art = listed[i].art <=> e.id = listed[i].id
    <2>1. CASE listed = first
      <3>1. \A d, e \in ToSet(entries) : d.id = e.id => d = e
        BY DEF CacheInv, TableOK, Distinct, ToSet
      <3> HIDE DEF first, listed, done
      <3> QED
        BY <1>3, <2>1, <3>1 DEF CacheInv, UniqueOK
    <2>2. CASE listed = loc[p].batch
      <3> HIDE DEF first, listed, done
      <3> QED
        BY <2>2 DEF CacheInv, BatchOK
    <2>3. CASE listed = <<>>
      <3> HIDE DEF first, listed, done
      <3> QED
        BY <2>3
    <2> QED
      BY <2>1, <2>2, <2>3
  <1> HIDE DEF listed, done, first
  <1>8. loc'[p] \in LocType /\ loc'[p].key = loc[p].key /\ loc'[p].batch = listed /\ loc'[p].id = NoId
    BY <1>1, <1>5, <1>6 DEF LocType
  <1>9. TypesOK'
    <2>1. loc' \in [Procs -> LocType] /\ pc' \in [Procs -> Steps]
      BY <1>1, <1>5, <1>8 DEF EvictCheck, Goto, Steps
    <2> QED
      BY <2>1 DEF CacheInv, TypesOK, storage, rows, EvictCheck
  <1>a. BatchOK(p)'
    BY <1>2, <1>7, <1>8 DEF BatchOK, TablesStay
  <1>b. Own(p)'
    BY <1>1, <1>2, <1>5, <1>6, <1>8, <1>a DEF Own, LocalsOK, LockOK, Storing, StoreOK, LookupOK, TablesStay
  <1> QED
    BY <1>1, <1>2, <1>5, <1>9, <1>b, LocalStep

\* A request that is served in one step leaves every goroutine where it is.
LEMMA ElsewhereKeeps ==
  ASSUME CacheInv, TablesStay, pc' = pc, loc' = loc, TypesOK'
  PROVE  CacheInv'
  <1>1. \A q \in Procs : Own(q)'
    BY OwnKept
  <1>2. UniqueOK'
    BY DEF CacheInv, UniqueOK, TablesStay
  <1>3. \A a \in Artifacts : Matches(a) => Matches(a)'
    BY DEF Matches, TablesStay, Entry
  <1>4. MatchesOK'
    BY <1>3 DEF CacheInv, MatchesOK, Inserting, Evicting, Art
  <1> QED
    BY <1>1, <1>2, <1>4 DEF CacheInv, Own, TablesStay

LEMMA FlushKeeps ==
  ASSUME CacheInv, NEW d \in Dists, Flush(d)
  PROVE  CacheInv'
  <1>1. TablesStay
    BY StaysQuiet DEF Flush, storage
  <1>2. TypesOK'
    BY DEF Flush, CacheInv, TypesOK, storage
  <1> QED
    BY <1>1, <1>2, ElsewhereKeeps DEF Flush

LEMMA DeleteArtifactKeeps ==
  ASSUME CacheInv, NEW k \in DistKeys, DeleteArtifact(k)
  PROVE  CacheInv'
  <1>1. begun' \in 0..MaxBegun
    BY SizeAssumption DEF CacheInv, TypesOK, Begin, DeleteArtifact
  <1>2. file' \in [Keys -> Files \cup {NoFile}] /\ \A j \in Keys \ DistKeys : file'[j] = file[j]
    BY DEF CacheInv, TypesOK, RemoveKey, DeleteArtifact
  <1>3. TablesStay
    BY <1>2, StaysQuiet DEF DeleteArtifact
  <1>4. TypesOK'
    BY <1>1, <1>2 DEF DeleteArtifact, CacheInv, TypesOK, rows
  <1> QED
    BY <1>3, <1>4, ElsewhereKeeps DEF DeleteArtifact

-----------------------------------------------------------------------------
(***************************************************************************)
(* The steps that change what is cached: all are under the lock, except    *)
(* the deletion of a stale entry.                                          *)
(***************************************************************************)

\* The lock keeps two Stores from being under way.
LEMMA OneStores ==
  ASSUME CacheInv, NEW p \in Procs, Storing(p)
  PROVE  /\ mutex = p
         /\ \A q \in Procs \ {p} : ~Storing(q) /\ pc[q] \notin {"insert", "evictRow"} /\ loc[q].batch = <<>>
  BY DEF CacheInv, LockOK, Storing, LocalsOK

\* The copy of Store puts a whole file at the place of the artifact; what it
\* replaces had no entry.
LEMMA CopyLinkKeeps ==
  ASSUME CacheInv, NEW p \in Procs, CopyLink(p)
  PROVE  CacheInv'
  <1>1. /\ pc \in [Procs -> Steps] /\ loc[p] \in LocType /\ loc \in [Procs -> LocType]
        /\ pc[p] = "copy" /\ loc[p].key \in DistKeys /\ Art(p) \in Artifacts
        /\ loc[p].batch = <<>> /\ loc[p].id = NoId /\ loc[p].src \in Keys
        /\ file \in [Keys -> Files \cup {NoFile}]
        /\ loc[p].why \in {"hit", "cross", "store"}
        /\ loc[p].why = "cross" => loc[p].src \in DistKeys
        /\ UNCHANGED <<whole, entries, rows, mutex, begun>>
    BY Hands DEF CopyLink, CacheInv, LocalsOK, LocType, TypesOK
  <1> DEFINE src == file[loc[p].src]
             dst == file[loc[p].dst]
  <1>2. CASE loc[p].why # "store"
    <2>1. mutex # p /\ loc[p].dst \in DistKeys
      BY <1>1, <1>2, Hands DEF Storing, CacheInv, LocalsOK
    <2>2. /\ file' \in [Keys -> Files \cup {NoFile}] /\ \A j \in Keys \ DistKeys : file'[j] = file[j]
          /\ whole' = whole
      BY <1>1, <2>1 DEF CopyLink
    <2>3. TablesStay
      BY <1>1, <2>2, StaysQuiet
    <2>4. ASSUME NEW t \in {"row", "lock", "cross", "pend"}, Goto(p, "copy", t), loc' = loc,
                 t = "lock" => loc[p].why = "cross"
          PROVE  CacheInv'
      <3>1. pc'[p] = t /\ Others(p) /\ TypesOK'
        BY <1>1, <2>2, <2>4 DEF Others, Goto, CacheInv, TypesOK, rows, Steps
      <3>2. Own(p)'
        BY <1>1, <2>1, <2>3, <2>4, <3>1 DEF Own, LocalsOK, LockOK, Storing, BatchOK, StoreOK, LookupOK, TablesStay
      <3> QED
        BY <1>1, <2>3, <3>1, <3>2, LocalStep
    <2>5. CASE Goto(p, "copy", "create") /\ loc' = [loc EXCEPT ![p].in = src]
      <3>1. loc'[p] = [loc[p] EXCEPT !.in = src] /\ loc' = [loc EXCEPT ![p] = loc'[p]]
        BY <1>1, <2>5
      <3>2. /\ loc'[p] \in LocType /\ loc'[p].key = loc[p].key /\ loc'[p].batch = <<>> /\ loc'[p].id = NoId
            /\ loc'[p].why = loc[p].why /\ loc'[p].dst = loc[p].dst /\ loc'[p].src = loc[p].src
        <4>1. src \in Files \cup {NoFile}
          BY <1>1
        <4> HIDE DEF src
        <4> QED
          BY <1>1, <3>1, <4>1 DEF LocType
      <3>3. pc'[p] = "create" /\ Others(p) /\ TypesOK'
        BY <1>1, <2>2, <2>5, <3>1, <3>2 DEF Others, Goto, CacheInv, TypesOK, rows, Steps
      <3>4. Own(p)'
        BY <1>1, <1>2, <2>1, <2>3, <3>2, <3>3
           DEF Own, LocalsOK, LockOK, Storing, BatchOK, StoreOK, LookupOK, TablesStay
      <3> QED
        BY <1>1, <2>3, <3>3, <3>4, LocalStep
    <2> QED
      BY <1>1, <1>2, <2>4, <2>5 DEF CopyLink, Copied, NotCopied
  <1>3. CASE loc[p].why = "store"
    <2>1. Storing(p) /\ loc[p].dst = Cached(Art(p)) /\ Entry(Art(p)) = {}
      BY <1>1, <1>3 DEF Storing, CacheInv, LocalsOK, StoreOK
    <2>2. file[Cached(Art(p))] = NoFile
      <3>1. \A q \in Procs : ~Inserting(q, Art(p)) /\ ~Evicting(q, Art(p))
        BY <1>1, <2>1, OneStores DEF Inserting, Evicting
      <3> QED
        BY <1>1, <2>1, <3>1 DEF CacheInv, MatchesOK, Matches
    <2>3. CASE src = NoFile /\ Goto(p, "copy", "unlock") /\ UNCHANGED <<file, loc>>
      <3>1. TablesStay
        BY <1>1, <2>3, StaysQuiet
      <3>2. pc'[p] = "unlock" /\ Others(p) /\ TypesOK'
        BY <1>1, <2>3 DEF Others, Goto, CacheInv, TypesOK, rows, Steps
      <3>3. Own(p)'
        BY <1>1, <2>1, <2>3, <3>1, <3>2, OneStores
           DEF Own, LocalsOK, LockOK, Storing, BatchOK, StoreOK, LookupOK, TablesStay
      <3> QED
        BY <1>1, <3>1, <3>2, <3>3, LocalStep
    <2>4. CASE src # NoFile /\ Goto(p, "copy", "insert") /\ file' = [file EXCEPT ![loc[p].dst] = src]
               /\ UNCHANGED loc
      <3>1. /\ file'[Cached(Art(p))] # NoFile
            /\ \A a \in Artifacts \ {Art(p)} : file'[Cached(a)] = file[Cached(a)]
            /\ file' \in [Keys -> Files \cup {NoFile}]
        BY <1>1, <2>1, <2>4, KeyFacts
      <3>2. pc'[p] = "insert" /\ Others(p) /\ TypesOK'
        BY <1>1, <2>4, <3>1 DEF Others, Goto, CacheInv, TypesOK, rows, Steps
      <3>3. Own(p)'
        <4>1. LocalsOK(p)' /\ LockOK(p)' /\ LookupOK(p)' /\ BatchOK(p)'
          BY <1>1, <2>1, <2>4, <3>2, OneStores DEF LocalsOK, LockOK, Storing, BatchOK, LookupOK
        <4>2. StoreOK(p)'
          BY <1>1, <2>1, <2>4, <3>1, <3>2 DEF StoreOK, Entry, Art
        <4> QED
          BY <4>1, <4>2 DEF Own
      <3>4. ASSUME NEW q \in Procs \ {p} PROVE Own(q)'
        <4>1. Own(q) /\ ~Storing(q) /\ pc[q] \notin {"insert", "evictRow"}
          BY <2>1, OneStores DEF CacheInv, Own
        <4>2. pc'[q] = pc[q] /\ loc'[q] = loc[q]
          BY <3>2 DEF Others
        <4>3. LocalsOK(q)'
          BY <4>1, <4>2 DEF Own, LocalsOK, Art
        <4>4. LockOK(q)' /\ BatchOK(q)'
          BY <1>1, <4>1, <4>2 DEF Own, LockOK, Storing, BatchOK
        <4>5. LookupOK(q)'
          BY <1>1, <2>1, <3>1, <4>1, <4>2, EntryFacts DEF Own, LookupOK, Entry, Art
        <4>6. StoreOK(q)'
          BY <4>1, <4>2 DEF StoreOK, Storing
        <4> QED
          BY <4>3, <4>4, <4>5, <4>6 DEF Own
      <3>5. MatchesOK'
        <4>1. Inserting(p, Art(p))'
          BY <2>4, <3>2 DEF Inserting, Art
        <4>2. ASSUME NEW a \in Artifacts \ {Art(p)} PROVE Matches(a)'
          <5>1. Matches(a)
            BY <1>1, <2>1, OneStores DEF CacheInv, MatchesOK, Inserting, Evicting
          <5> QED
            BY <1>1, <3>1, <5>1 DEF Matches, Entry
        <4>3. Art(p)' = Art(p)
          BY <2>4 DEF Art
        <4> QED
          BY <4>1, <4>2, <4>3 DEF MatchesOK
      <3>6. TableOK' /\ UniqueOK'
        BY <1>1 DEF CacheInv, TableOK, UniqueOK
      <3> QED
        BY <3>2, <3>3, <3>4, <3>5, <3>6 DEF CacheInv, Own
    <2> QED
      BY <1>3, <2>1, <2>2, <2>3, <2>4 DEF CopyLink, Copied, NotCopied
  <1> QED
    BY <1>2, <1>3

\* What a goroutine that is not in a Store keeps when entries go and keys of
\* the cache lose their files.
LEMMA OwnBelow ==
  ASSUME CacheInv, NEW q \in Procs, ~Storing(q), pc'[q] = pc[q], loc'[q] = loc[q], mutex' # q,
         ToSet(entries)' \subseteq ToSet(entries),
         \A a \in Artifacts : file[Cached(a)] = NoFile => file'[Cached(a)] = NoFile
  PROVE  Own(q)'
  <1>1. Own(q) /\ pc[q] \notin {"insert", "evictRow"} /\ ~(pc[q] = "copy" /\ loc[q].why = "store")
    BY DEF CacheInv, Own, Storing
  <1>2. LocalsOK(q)'
    BY <1>1 DEF Own, LocalsOK, Art
  <1>3. LockOK(q)'
    BY <1>1 DEF LockOK, Storing
  <1>4. BatchOK(q)'
    BY <1>1 DEF Own, BatchOK
  <1>5. LookupOK(q)'
    BY <1>1, EntryFacts DEF Own, LookupOK, Art
  <1>6. StoreOK(q)'
    BY <1>1 DEF StoreOK
  <1> QED
    BY <1>2, <1>3, <1>4, <1>5, <1>6 DEF Own

\* Store has the lock and looks for the entry: with one it only touches it.
LEMMA StoreLockKeeps ==
  ASSUME CacheInv, NEW p \in Procs, StoreLock(p)
  PROVE  CacheInv'
  <1>1. /\ pc \in [Procs -> Steps] /\ loc[p] \in LocType /\ loc \in [Procs -> LocType]
        /\ pc[p] = "lock" /\ loc[p].key \in DistKeys /\ Art(p) \in Artifacts
        /\ loc[p].batch = <<>> /\ loc[p].id = NoId /\ loc[p].src \in DistKeys
        /\ mutex = Nobody /\ mutex' = p /\ UNCHANGED <<storage, rows, begun>>
    BY Hands DEF StoreLock, CacheInv, LocalsOK
  <1>2. \A q \in Procs : ~Storing(q)
    BY <1>1, ProcsAssumption DEF CacheInv, LockOK
  <1>3. TableOK' /\ ToSet(entries)' = ToSet(entries)
    <2>1. CASE UNCHANGED entries
      BY <2>1 DEF CacheInv, TableOK, ToSet
    <2>2. ASSUME NEW e \in Entry(Art(p)), Touch(e.id)
          PROVE  TableOK' /\ ToSet(entries)' = ToSet(entries)
      BY <2>2, TouchedEntry DEF CacheInv
    <2> QED
      BY <2>1, <2>2 DEF StoreLock
  <1>4. Others(p) /\ pc'[p] \in {"copy", "unlock"}
    BY <1>1 DEF StoreLock, Goto, Copy, Others
  <1>5. \A q \in Procs \ {p} : Own(q)'
    BY <1>1, <1>2, <1>3, <1>4, OwnBelow DEF Others, storage
  <1>6. UniqueOK' /\ MatchesOK'
    <2>1. ASSUME NEW a \in Artifacts PROVE Matches(a)'
      BY <1>1, <1>2, <1>3 DEF CacheInv, MatchesOK, Inserting, Evicting, Storing, Matches, Entry, storage
    <2> QED
      BY <1>3, <2>1 DEF CacheInv, UniqueOK, MatchesOK
  <1>7. CASE Entry(Art(p)) = {} /\ Goto(p, "lock", "copy") /\ Copy(p, "store", loc[p].src, Cached(Art(p)))
    <2>1. loc'[p] = [loc[p] EXCEPT !.why = "store", !.src = loc[p].src, !.dst = Cached(Art(p))]
          /\ loc' = [loc EXCEPT ![p] = loc'[p]]
      BY <1>1, <1>7 DEF Copy
    <2>2. /\ loc'[p] \in LocType /\ loc'[p].key = loc[p].key /\ loc'[p].batch = <<>> /\ loc'[p].id = NoId
          /\ loc'[p].why = "store" /\ loc'[p].dst = Cached(Art(p)) /\ loc'[p].src = loc[p].src
      <3>1. Cached(Art(p)) \in Keys /\ loc[p].src \in Keys
        BY <1>1, KeyFacts
      <3> HIDE DEF Cached
      <3> QED
        BY <1>1, <2>1, <3>1 DEF LocType
    <2>3. pc'[p] = "copy" /\ TypesOK'
      BY <1>1, <1>7, <2>1, <2>2 DEF Goto, CacheInv, TypesOK, rows, storage, Steps
    <2>4. LocalsOK(p)'
      BY <1>1, <2>2, <2>3, KeyFacts DEF LocalsOK, Art
    <2>5. LockOK(p)' /\ BatchOK(p)' /\ LookupOK(p)'
      BY <1>1, <2>2, <2>3 DEF LockOK, Storing, BatchOK, LookupOK
    <2>6. StoreOK(p)'
      BY <1>3, <1>7, <2>2, <2>3 DEF StoreOK, Entry, Art
    <2> QED
      BY <1>3, <1>5, <1>6, <2>3, <2>4, <2>5, <2>6 DEF CacheInv, Own
  <1>8. CASE Goto(p, "lock", "unlock") /\ UNCHANGED loc
    <2>1. pc'[p] = "unlock" /\ TypesOK'
      BY <1>1, <1>8 DEF Goto, CacheInv, TypesOK, rows, storage, Steps
    <2>2. Own(p)'
      BY <1>1, <1>8, <2>1 DEF Own, LocalsOK, LockOK, Storing, BatchOK, LookupOK, StoreOK
    <2> QED
      BY <1>3, <1>5, <1>6, <2>1, <2>2 DEF CacheInv, Own
  <1> QED
    BY <1>7, <1>8 DEF StoreLock

LEMMA StoreUnlockKeeps ==
  ASSUME CacheInv, NEW p \in Procs, StoreUnlock(p)
  PROVE  CacheInv'
  <1>1. /\ pc \in [Procs -> Steps] /\ loc[p] \in LocType /\ loc \in [Procs -> LocType]
        /\ pc[p] = "unlock" /\ loc[p].key \in DistKeys /\ Storing(p)
        /\ loc[p].batch = <<>> /\ loc[p].id = NoId
        /\ mutex' = Nobody /\ UNCHANGED <<storage, entries, rows, begun>>
    BY Hands DEF StoreUnlock, CacheInv, LocalsOK, Storing
  <1>2. Others(p) /\ pc'[p] \in {"idle", "row"} /\ TypesOK'
    <2>1. CASE Return(p, "unlock")
      BY <1>1, <2>1, DoneTypes DEF Return, Goto, Others, CacheInv, TypesOK, rows, storage
    <2>2. CASE Goto(p, "unlock", "row") /\ UNCHANGED loc
      BY <1>1, <2>2 DEF Goto, Others, CacheInv, TypesOK, rows, storage, Steps
    <2> QED
      BY <2>1, <2>2 DEF StoreUnlock
  <1>3. \A q \in Procs \ {p} : Own(q)'
    BY <1>1, <1>2, OneStores, OwnBelow, ProcsAssumption DEF Others, storage
  <1>4. Own(p)'
    <2>1. CASE Return(p, "unlock")
      <3>1. pc'[p] = "idle" /\ loc'[p] = NoLoc /\ NoLoc.batch = <<>>
        BY <1>1, <2>1 DEF Return, Goto, NoLoc
      <3> QED
        BY <1>1, <3>1, ProcsAssumption DEF Own, LocalsOK, LockOK, Storing, BatchOK, LookupOK, StoreOK, NoLoc
    <2>2. CASE Goto(p, "unlock", "row") /\ UNCHANGED loc
      BY <1>1, <2>2, ProcsAssumption DEF Goto, Own, LocalsOK, LockOK, Storing, BatchOK, LookupOK, StoreOK
    <2> QED
      BY <2>1, <2>2 DEF StoreUnlock
  <1>5. TableOK' /\ UniqueOK'
    BY <1>1 DEF CacheInv, TableOK, UniqueOK
  <1>6. ASSUME NEW a \in Artifacts PROVE Matches(a)'
    <2>1. Matches(a)
      BY <1>1, OneStores DEF CacheInv, MatchesOK, Inserting, Evicting
    <2> QED
      BY <1>1, <2>1 DEF Matches, Entry, storage
  <1> QED
    BY <1>2, <1>3, <1>4, <1>5, <1>6 DEF CacheInv, Own, MatchesOK

\* Lookup deletes, without the lock, the entry whose file it did not find: by now
\* it may be gone, and is never that of another file.
LEMMA LookupStaleKeeps ==
  ASSUME CacheInv, NEW p \in Procs, LookupStale(p)
  PROVE  CacheInv'
  <1>1. /\ pc \in [Procs -> Steps] /\ loc[p] \in LocType /\ loc \in [Procs -> LocType]
        /\ pc[p] = "stale" /\ loc[p].key \in DistKeys /\ ~Storing(p) /\ mutex # p
        /\ loc[p].batch = <<>>
        /\ loc' = [loc EXCEPT ![p].id = NoId]
        /\ DeleteEntry(loc[p].id) /\ UNCHANGED <<storage, rows, mutex, begun>>
    BY Hands DEF LookupStale, CacheInv, LocalsOK, Storing, Goto
  <1>2. TableOK' /\ ToSet(entries)' = {e \in ToSet(entries) : e.id # loc[p].id}
    BY <1>1, DeletedEntry DEF CacheInv
  <1>3. loc'[p] = [loc[p] EXCEPT !.id = NoId] /\ loc' = [loc EXCEPT ![p] = loc'[p]]
    BY <1>1
  <1>4. loc'[p] \in LocType /\ loc'[p].key = loc[p].key /\ loc'[p].batch = <<>> /\ loc'[p].id = NoId
    BY <1>1, <1>3 DEF LocType
  <1>5. pc'[p] = "cross" /\ Others(p) /\ TypesOK'
    BY <1>1, <1>3, <1>4 DEF LookupStale, Others, Goto, CacheInv, TypesOK, rows, storage, Steps
  <1>6. Own(p)'
    BY <1>1, <1>4, <1>5 DEF Own, LocalsOK, LockOK, Storing, BatchOK, LookupOK, StoreOK
  <1>7. ASSUME NEW q \in Procs \ {p} PROVE Own(q)'
    <2>1. Own(q) /\ pc'[q] = pc[q] /\ loc'[q] = loc[q]
      BY <1>5 DEF CacheInv, Own, Others
    <2>2. LocalsOK(q)' /\ LockOK(q)' /\ BatchOK(q)'
      BY <1>1, <1>2, <2>1 DEF Own, LocalsOK, Art, LockOK, Storing, BatchOK
    <2>3. LookupOK(q)' /\ StoreOK(q)'
      BY <1>1, <1>2, <2>1 DEF Own, LookupOK, StoreOK, Art, Entry, storage
    <2> QED
      BY <2>2, <2>3 DEF Own
  <1>8. UniqueOK'
    BY <1>2 DEF CacheInv, UniqueOK
  <1>9. ASSUME NEW a \in Artifacts
        PROVE  Matches(a)' \/ \E q \in Procs : (Inserting(q, a) \/ Evicting(q, a))'
    <2>1. ASSUME NEW q \in Procs, Inserting(q, a) \/ Evicting(q, a)
          PROVE  (Inserting(q, a) \/ Evicting(q, a))'
      <3>1. q # p
        BY <1>1, <2>1 DEF Inserting, Evicting
      <3> QED
        BY <1>5, <2>1, <3>1 DEF Others, Inserting, Evicting, Art
    <2>2. ASSUME Matches(a) PROVE Matches(a)'
      <3>1. \A e \in ToSet(entries) : e.id = loc[p].id => file[Cached(e.art)] = NoFile
        BY <1>1 DEF CacheInv, LookupOK
      <3>2. \A e \in ToSet(entries) : e.art = a => e.id # loc[p].id
        BY <2>2, <3>1 DEF Matches, Entry
      <3> QED
        BY <1>1, <1>2, <2>2, <3>2 DEF Matches, Entry, storage
    <2> QED
      BY <2>1, <2>2 DEF CacheInv, MatchesOK
  <1>10. MatchesOK'
    BY <1>9 DEF MatchesOK
  <1> QED
    BY <1>2, <1>5, <1>6, <1>7, <1>8, <1>10 DEF CacheInv, Own

\* There is an identifier that nothing has, when no goroutine has a list.
LEMMA FreshId ==
  ASSUME CacheInv, \A p \in Procs : loc[p].batch = <<>>, Artifacts # {}
  PROVE  NewId \in Ids /\ NewId \notin Held
  <1> SUFFICES ASSUME \A i \in Ids : i \in Held PROVE FALSE
    BY DEF NewId
  <1> DEFINE idOf == [a \in Artifacts |-> CHOOSE i : \E e \in ToSet(entries) : e.art = a /\ i = e.id]
             ids == [p \in Procs |-> loc[p].id]
             A == {idOf[a] : a \in Artifacts}
             B == {ids[p] : p \in Procs}
             m == Cardinality(Artifacts)
             n == Cardinality(Procs)
  <1>1. IsFiniteSet(Artifacts) /\ IsFiniteSet(Procs) /\ m \in Nat \ {0} /\ n \in Nat
    BY SpaceAssumption, ProcsAssumption, FS_CardinalityType, FS_EmptySet
  <1>2. /\ IsFiniteSet(A) /\ IsFiniteSet(B) /\ Cardinality(A) \in Nat /\ Cardinality(B) \in Nat
        /\ Cardinality(A) <= m /\ Cardinality(B) <= n
    <2> HIDE DEF idOf, ids
    <2> QED
      BY <1>1, FamilySize
  <1>3. /\ IsFiniteSet(A \cup B) /\ Cardinality(A \cup B) \in Nat
        /\ Cardinality(A \cup B) <= m + n
    <2> HIDE DEF A, B, m, n
    <2>1. /\ IsFiniteSet(A \cup B) /\ Cardinality(A \cap B) \in Nat /\ Cardinality(A \cup B) \in Nat
          /\ Cardinality(A \cup B) = Cardinality(A) + Cardinality(B) - Cardinality(A \cap B)
      BY <1>2, FS_Union, FS_Intersection, FS_CardinalityType
    <2> QED
      BY <1>1, <1>2, <2>1
  <1>4. Held \subseteq A \cup B
    <2>1. ASSUME NEW e \in ToSet(entries) PROVE e.id \in A
      <3>1. e.art \in Artifacts
        BY EntryFacts
      <3>2. \A d \in ToSet(entries) : d.art = e.art => d.id = e.id
        BY DEF CacheInv, UniqueOK
      <3>3. idOf[e.art] = e.id
        BY <3>1, <3>2
      <3> QED
        BY <3>1, <3>3
    <2>2. \A p \in Procs : loc[p].id \in B
      OBVIOUS
    <2>3. \A p \in Procs : ToSet(loc[p].batch) = {}
      BY DEF ToSet
    <2> HIDE DEF A, B
    <2> QED
      BY <2>1, <2>2, <2>3 DEF Held
  <1>5. Ids \subseteq A \cup B
    BY <1>4
  <1>6. Cardinality(Ids) = 2 * m + n
    <2> HIDE DEF m, n
    <2>1. Ids = 1..(2 * m + n)
      BY DEF Ids, m, n
    <2> QED
      BY <1>1, <2>1, FS_Interval
  <1>7. Cardinality(Ids) <= Cardinality(A \cup B)
    BY <1>3, <1>5, FS_Subset
  <1> QED
    <2> HIDE DEF A, B, m, n
    <2> QED
      BY <1>1, <1>3, <1>6, <1>7

\* The entry comes after the file.
LEMMA StoreInsertKeeps ==
  ASSUME CacheInv, NEW p \in Procs, StoreInsert(p)
  PROVE  CacheInv'
  <1> DEFINE new == [id |-> NewId, art |-> Art(p)]
  <1>1. /\ pc \in [Procs -> Steps] /\ loc[p] \in LocType /\ loc \in [Procs -> LocType]
        /\ pc[p] = "insert" /\ loc[p].key \in DistKeys /\ Art(p) \in Artifacts /\ Storing(p) /\ mutex = p
        /\ loc[p].batch = <<>> /\ loc[p].id = NoId
        /\ UNCHANGED <<storage, rows, mutex, loc, begun>>
        /\ entries' = Append(entries, new)
    BY Hands DEF StoreInsert, CacheInv, LocalsOK, Storing, Goto
  <1>2. \A q \in Procs : loc[q].batch = <<>>
    BY <1>1, OneStores
  <1>3. NewId \in Ids /\ NewId \notin Held
    BY <1>1, <1>2, FreshId
  <1>4. /\ \A e \in ToSet(entries) : e.id # NewId
        /\ \A q \in Procs : loc[q].id # NewId
    BY <1>3 DEF Held
  <1>5. new \in EntryType /\ new.id = NewId /\ new.art = Art(p)
    BY <1>1, <1>3 DEF EntryType
  <1> HIDE DEF new
  <1>6. TableOK' /\ ToSet(entries)' = ToSet(entries) \cup {new}
    BY <1>1, <1>4, <1>5, AddedRow DEF CacheInv, TableOK
  <1>7. Entry(Art(p)) = {} /\ file[Cached(Art(p))] # NoFile
    BY <1>1 DEF CacheInv, StoreOK
  <1>8. UniqueOK'
    BY <1>5, <1>6, <1>7 DEF CacheInv, UniqueOK, Entry
  <1>9. pc'[p] = "evict" /\ Others(p) /\ TypesOK'
    BY <1>1 DEF StoreInsert, Goto, Others, CacheInv, TypesOK, storage, rows, Steps
  <1>10. Own(p)'
    BY <1>1, <1>9 DEF Own, LocalsOK, LockOK, Storing, BatchOK, LookupOK, StoreOK
  <1>11. ASSUME NEW q \in Procs \ {p} PROVE Own(q)'
    <2>1. Own(q) /\ ~Storing(q) /\ pc'[q] = pc[q] /\ loc'[q] = loc[q] /\ loc[q].id # NewId
          /\ loc[q].batch = <<>>
      BY <1>1, <1>2, <1>4, <1>9, OneStores DEF CacheInv, Own, Others
    <2>2. LocalsOK(q)' /\ LockOK(q)' /\ BatchOK(q)'
      BY <1>1, <2>1 DEF Own, LocalsOK, Art, LockOK, Storing, BatchOK
    <2>3. LookupOK(q)'
      BY <1>1, <1>5, <1>6, <2>1 DEF Own, LookupOK, Art, storage
    <2>4. StoreOK(q)'
      BY <2>1 DEF StoreOK, Storing
    <2> QED
      BY <2>2, <2>3, <2>4 DEF Own
  <1>12. ASSUME NEW a \in Artifacts PROVE Matches(a)'
    <2>1. CASE a = Art(p)
      BY <1>1, <1>5, <1>6, <1>7, <2>1 DEF Matches, Entry, storage
    <2>2. CASE a # Art(p)
      <3>1. Matches(a)
        BY <1>1, <2>2, OneStores DEF CacheInv, MatchesOK, Inserting, Evicting
      <3> QED
        BY <1>1, <1>5, <1>6, <2>2, <3>1 DEF Matches, Entry, storage
    <2> QED
      BY <2>1, <2>2
  <1> QED
    BY <1>6, <1>8, <1>9, <1>10, <1>11, <1>12 DEF CacheInv, Own, MatchesOK

\* The file goes first,
LEMMA EvictFileKeeps ==
  ASSUME CacheInv, NEW p \in Procs, EvictFile(p)
  PROVE  CacheInv'
  <1> DEFINE b == Head(loc[p].batch)
  <1>1. /\ pc \in [Procs -> Steps] /\ loc[p] \in LocType /\ loc \in [Procs -> LocType]
        /\ pc[p] = "evictFile" /\ loc[p].key \in DistKeys /\ Storing(p) /\ mutex = p
        /\ loc[p].batch # <<>> /\ loc[p].id = NoId
        /\ UNCHANGED <<whole, entries, rows, mutex, loc, begun>>
        /\ file' = [file EXCEPT ![Cached(b.art)] = NoFile]
    BY Hands DEF EvictFile, CacheInv, LocalsOK, Storing, Goto, RemoveKey
  <1>2. b.art \in Artifacts
    BY <1>1, EntryFacts
  <1>3. /\ file' \in [Keys -> Files \cup {NoFile}] /\ file'[Cached(b.art)] = NoFile
        /\ \A a \in Artifacts \ {b.art} : file'[Cached(a)] = file[Cached(a)]
    BY <1>1, <1>2, KeyFacts DEF CacheInv, TypesOK
  <1> HIDE DEF b
  <1>4. pc'[p] = "evictRow" /\ Others(p) /\ TypesOK'
    BY <1>1, <1>3 DEF EvictFile, Goto, Others, CacheInv, TypesOK, rows, Steps
  <1>5. TableOK' /\ UniqueOK'
    BY <1>1 DEF CacheInv, TableOK, UniqueOK
  <1>6. Own(p)'
    <2>1. LocalsOK(p)' /\ LockOK(p)' /\ LookupOK(p)'
      BY <1>1, <1>4 DEF LocalsOK, LockOK, Storing, LookupOK
    <2>2. BatchOK(p)'
      BY <1>1 DEF CacheInv, BatchOK
    <2>3. StoreOK(p)'
      BY <1>1, <1>3, <1>4 DEF StoreOK, b
    <2> QED
      BY <2>1, <2>2, <2>3 DEF Own
  <1>7. \A q \in Procs \ {p} : Own(q)'
    <2>1. \A a \in Artifacts : file[Cached(a)] = NoFile => file'[Cached(a)] = NoFile
      BY <1>2, <1>3
    <2> QED
      BY <1>1, <1>4, <2>1, OneStores, OwnBelow DEF Others
  <1>8. ASSUME NEW a \in Artifacts
        PROVE  Matches(a)' \/ Evicting(p, a)'
    <2>1. CASE a = b.art
      BY <1>1, <1>4, <2>1 DEF Evicting, b
    <2>2. CASE a # b.art
      <3>1. Matches(a)
        BY <1>1, OneStores DEF CacheInv, MatchesOK, Inserting, Evicting
      <3> QED
        BY <1>1, <1>3, <2>2, <3>1 DEF Matches, Entry
    <2> QED
      BY <2>1, <2>2
  <1>9. MatchesOK'
    BY <1>8 DEF MatchesOK
  <1> QED
    BY <1>4, <1>5, <1>6, <1>7, <1>9 DEF CacheInv, Own

\* then the entry; both under the lock.
LEMMA EvictRowKeeps ==
  ASSUME CacheInv, NEW p \in Procs, EvictRow(p)
  PROVE  CacheInv'
  <1> DEFINE b == Head(loc[p].batch)
  <1>1. /\ pc \in [Procs -> Steps] /\ loc[p] \in LocType /\ loc \in [Procs -> LocType]
        /\ pc[p] = "evictRow" /\ loc[p].key \in DistKeys /\ Storing(p) /\ mutex = p
        /\ loc[p].batch # <<>> /\ loc[p].id = NoId /\ loc[p].batch \in Seq(EntryType)
        /\ UNCHANGED <<storage, rows, mutex, begun>>
        /\ loc' = [loc EXCEPT ![p].batch = Tail(@)]
    BY Hands DEF EvictRow, CacheInv, LocalsOK, Storing, Goto, LocType
  <1>2. b.art \in Artifacts /\ 1 \in DOMAIN loc[p].batch /\ b = loc[p].batch[1]
    BY <1>1, EntryFacts
  <1>3. TableOK' /\ ToSet(entries)' = {e \in ToSet(entries) : e.id # b.id}
    BY DeletedEntry DEF EvictRow, CacheInv
  <1>4. \A e \in ToSet(entries) : e.art = b.art <=> e.id = b.id
    BY <1>2 DEF CacheInv, BatchOK
  <1>5. file[Cached(b.art)] = NoFile
    BY <1>1 DEF CacheInv, StoreOK
  <1>6. /\ Tail(loc[p].batch) \in Seq(EntryType)
        /\ \A i \in DOMAIN Tail(loc[p].batch) :
             i + 1 \in DOMAIN loc[p].batch /\ Tail(loc[p].batch)[i] = loc[p].batch[i + 1]
    <2> HIDE DEF EntryType
    <2> QED
      BY <1>1
  <1>7. loc'[p] = [loc[p] EXCEPT !.batch = Tail(loc[p].batch)] /\ loc' = [loc EXCEPT ![p] = loc'[p]]
    BY <1>1
  <1>8. /\ loc'[p] \in LocType /\ loc'[p].key = loc[p].key /\ loc'[p].batch = Tail(loc[p].batch)
        /\ loc'[p].id = NoId
    BY <1>1, <1>6, <1>7 DEF LocType
  <1> HIDE DEF b
  <1>9. pc'[p] = "evict" /\ Others(p) /\ TypesOK'
    BY <1>1, <1>7, <1>8 DEF EvictRow, Goto, Others, CacheInv, TypesOK, storage, rows, Steps
  <1>10. UniqueOK'
    BY <1>3 DEF CacheInv, UniqueOK
  <1>11. Own(p)'
    <2>1. LocalsOK(p)' /\ LockOK(p)' /\ LookupOK(p)' /\ StoreOK(p)'
      BY <1>1, <1>8, <1>9 DEF LocalsOK, LockOK, Storing, LookupOK, StoreOK
    <2>2. BatchOK(p)'
      BY <1>3, <1>6, <1>8 DEF CacheInv, BatchOK
    <2> QED
      BY <2>1, <2>2 DEF Own
  <1>12. \A q \in Procs \ {p} : Own(q)'
    BY <1>1, <1>3, <1>9, OneStores, OwnBelow DEF Others, storage
  <1>13. ASSUME NEW a \in Artifacts PROVE Matches(a)'
    <2>1. CASE a = b.art
      BY <1>1, <1>3, <1>4, <1>5, <2>1 DEF Matches, Entry, storage
    <2>2. CASE a # b.art
      <3>1. Matches(a)
        BY <1>1, <2>2, OneStores DEF CacheInv, MatchesOK, Inserting, Evicting, b
      <3> QED
        BY <1>1, <1>3, <1>4, <2>2, <3>1 DEF Matches, Entry, storage
    <2> QED
      BY <2>1, <2>2
  <1> QED
    BY <1>3, <1>9, <1>10, <1>11, <1>12, <1>13 DEF CacheInv, Own, MatchesOK

-----------------------------------------------------------------------------
(***************************************************************************)
(* The theorems.                                                           *)
(***************************************************************************)
LEMMA CacheStep == CacheInv /\ [Next]_vars => CacheInv'
  <1> SUFFICES ASSUME CacheInv, [Next]_vars PROVE CacheInv'
    OBVIOUS
  <1>1. CASE UNCHANGED vars
    <2>1. TypesOK' /\ TablesStay
      BY <1>1 DEF CacheInv, TypesOK, TableOK, TablesStay, ToSet, vars, storage, rows
    <2> QED
      BY <1>1, <2>1, ElsewhereKeeps DEF vars
  <1>2. ASSUME NEW p \in Procs, NEW k \in DistKeys, Start(p, k) \/ Run(p, k) PROVE CacheInv'
    BY <1>2, StartKeeps, RunKeeps
  <1>3. ASSUME NEW p \in Procs, StartStep(p) PROVE CacheInv'
    BY <1>3, LookupGetKeeps, LookupExistsKeeps, LookupStaleKeeps, LookupTouchKeeps, CrossDistKeeps,
       CreateRowKeeps DEF StartStep
  <1>4. ASSUME NEW p \in Procs, RunStep(p) PROVE CacheInv'
    BY <1>4, UploadCreateKeeps, UploadDataKeeps, MarkCompletedKeeps, RereadKeeps DEF RunStep
  <1>5. ASSUME NEW p \in Procs, CopyStep(p) PROVE CacheInv'
    BY <1>5, CopyLinkKeeps, CopyCreateKeeps, CopyDataKeeps DEF CopyStep
  <1>6. ASSUME NEW p \in Procs, StoreStep(p) PROVE CacheInv'
    BY <1>6, StoreLockKeeps, StoreInsertKeeps, EvictCheckKeeps, EvictFileKeeps, EvictRowKeeps,
       StoreUnlockKeeps DEF StoreStep
  <1> QED
    BY <1>1, <1>2, <1>3, <1>4, <1>5, <1>6, FlushKeeps, DeleteArtifactKeeps DEF Next

\* The invariant holds.
LEMMA CacheSafe == Spec => []CacheInv
  BY CacheStart, CacheStep, PTL DEF Spec

\* The invariant gives the types of the runs.
LEMMA CacheInvTypes == CacheInv => CacheTypeOK
  <1> SUFFICES ASSUME CacheInv PROVE CacheTypeOK
    OBVIOUS
  <1>1. \A i \in DOMAIN entries : entries[i].id \in Ids /\ entries[i].art \in Artifacts
    BY EntryFacts DEF ToSet
  <1> QED
    BY <1>1 DEF CacheInv, TypesOK, TableOK, Distinct, LocalsOK, CacheTypeOK

\* The types of the model, and what its locals hold: in particular there is
\* always a file for a new key and an identifier for a new entry.
THEOREM CacheTypes == Spec => []CacheTypeOK
  BY CacheInvTypes, CacheSafe, PTL

\* An artifact never has two entries: Store looks for one under the lock that it
\* still holds when it creates one.
THEOREM OneEntry == Spec => []OneEntryPerArtifact
  <1>1. CacheInv => OneEntryPerArtifact
    <2> SUFFICES ASSUME CacheInv, NEW a \in Artifacts PROVE Cardinality(Entry(a)) <= 1
      BY DEF OneEntryPerArtifact
    <2>1. CASE Entry(a) = {}
      BY <2>1, FS_EmptySet
    <2>2. ASSUME NEW e \in Entry(a) PROVE Cardinality(Entry(a)) <= 1
      <3>1. Entry(a) = {e}
        BY <2>2 DEF CacheInv, UniqueOK, Entry
      <3> QED
        BY <3>1, FS_Singleton
    <2> QED
      BY <2>1, <2>2
  <1> QED
    BY <1>1, CacheSafe, PTL

\* The cache and its table agree whenever no Store is under way, although Lookup
\* takes no lock when it deletes an entry that it has found without a file.
THEOREM CacheAgrees == Spec => []CacheMatchesTable
  <1>1. CacheInv => CacheMatchesTable
    <2> SUFFICES ASSUME CacheInv, mutex = Nobody, NEW a \in Artifacts
                 PROVE  (file[Cached(a)] # NoFile) <=> (Entry(a) # {})
      BY DEF CacheMatchesTable
    <2>1. \A p \in Procs : ~Storing(p)
      BY ProcsAssumption DEF CacheInv, LockOK
    <2> QED
      BY <2>1 DEF CacheInv, MatchesOK, Matches, Inserting, Evicting, Storing
  <1> QED
    BY <1>1, CacheSafe, PTL

-----------------------------------------------------------------------------
(***************************************************************************)
(* The size of the cache.                                                  *)
(***************************************************************************)
LEMMA LeastExists ==
  ASSUME NEW S \in SUBSET Nat, S # {}
  PROVE  \E x \in S : \A y \in S : x <= y
  <1>1. PICK x \in S : \A y \in S : <<y, x>> \notin OpToRel(<, Nat)
    BY NatLessThanWellFounded, WFMin
  <1>2. \A y \in S : ~(y < x)
    BY <1>1, Zenon DEF OpToRel
  <1> QED
    BY <1>2

\* u[n] is the size of the first n rows of s.
IsSum(u, s) == u = [n \in 0..Len(s) |-> IF n = 0 THEN 0 ELSE u[n - 1] + Size[s[n].art]]

\* Every row has a size.
LEMMA RowSizes ==
  ASSUME NEW s \in Seq(EntryType)
  PROVE  /\ Len(s) \in Nat /\ Len(s) \in 0..Len(s)
         /\ \A n \in 1..Len(s) : s[n] \in EntryType /\ Size[s[n].art] \in Nat
  <1>1. \A n \in 1..Len(s) : s[n] \in EntryType
    OBVIOUS
  <1>2. \A e \in EntryType : Size[e.art] \in Nat
    BY SizeAssumption DEF EntryType
  <1> QED
    BY <1>1, <1>2

\* The recursive function of the sum has a value on every prefix: the least prefix
\* without one would have its value from the prefix before it.
LEMMA SumExists ==
  ASSUME NEW s \in Seq(EntryType)
  PROVE  \E u : IsSum(u, s)
  <1> DEFINE UpTo(m, u) == u = [n \in 0..m |-> IF n = 0 THEN 0 ELSE u[n - 1] + Size[s[n].art]]
             Bad == {m \in 0..Len(s) : ~\E u : UpTo(m, u)}
  <1>1. Len(s) \in Nat /\ Len(s) \in 0..Len(s)
    BY RowSizes
  <1>2. ASSUME Bad # {} PROVE FALSE
    <2>1. PICK m \in Bad : \A n \in Bad : m <= n
      <3>1. Bad \in SUBSET Nat
        OBVIOUS
      <3> HIDE DEF Bad
      <3> QED
        BY <1>2, <3>1, LeastExists
    <2>2. m \in 0..Len(s)
      OBVIOUS
    <2>3. m # 0
      <3> DEFINE z == [n \in 0..0 |-> 0]
      <3>1. ASSUME m = 0 PROVE UpTo(m, z)
        BY <3>1
      <3> QED
        BY <3>1
    <2>4. m - 1 \in 0..Len(s) /\ m - 1 \notin Bad
      <3>1. m - 1 \in 0..Len(s) /\ ~(m <= m - 1)
        BY <1>1, <2>2, <2>3
      <3> HIDE DEF Bad
      <3> QED
        BY <2>1, <3>1
    <2>5. PICK u : UpTo(m - 1, u)
      BY <2>4
    <2> DEFINE w == [n \in 0..m |-> IF n = m THEN u[m - 1] + Size[s[m].art] ELSE u[n]]
    <2>6. \A n \in 0..(m - 1) : u[n] = IF n = 0 THEN 0 ELSE u[n - 1] + Size[s[n].art]
      BY <2>5
    <2>7. \A n \in 0..m : w[n] = IF n = 0 THEN 0 ELSE w[n - 1] + Size[s[n].art]
      <3> SUFFICES ASSUME NEW n \in 0..m PROVE w[n] = IF n = 0 THEN 0 ELSE w[n - 1] + Size[s[n].art]
        OBVIOUS
      <3>1. CASE n = m
        BY <1>1, <2>2, <2>3, <3>1
      <3>2. CASE n # m
        <4>1. n \in 0..(m - 1) /\ (n # 0 => n - 1 \in 0..m /\ n - 1 # m)
          BY <1>1, <2>2, <3>2
        <4> QED
          BY <2>6, <3>2, <4>1
      <3> QED
        BY <3>1, <3>2
    <2>8. UpTo(m, w)
      <3>1. w = [n \in 0..m |-> w[n]]
        OBVIOUS
      <3> HIDE DEF w
      <3> QED
        BY <2>7, <3>1
    <2> QED
      BY <2>1, <2>8
  <1> QED
    BY <1>1, <1>2 DEF IsSum

\* Two lists of rows of which one has the same first rows.
LEMMA SumOfPrefix ==
  ASSUME NEW s \in Seq(EntryType), NEW t \in Seq(EntryType), NEW u, NEW w, IsSum(u, s), IsSum(w, t),
         NEW k \in 0..Len(s), k <= Len(t), \A n \in 1..k : t[n] = s[n]
  PROVE  u[k] \in Nat /\ w[k] = u[k]
  <1> DEFINE Bad == {n \in 0..k : ~(u[n] \in Nat /\ w[n] = u[n])}
  <1>1. Len(s) \in Nat /\ Len(t) \in Nat /\ \A n \in 1..Len(s) : Size[s[n].art] \in Nat
    BY RowSizes
  <1>2. \A n \in 0..k : /\ u[n] = IF n = 0 THEN 0 ELSE u[n - 1] + Size[s[n].art]
                        /\ w[n] = IF n = 0 THEN 0 ELSE w[n - 1] + Size[t[n].art]
    <2>1. \A n \in 0..Len(s) : u[n] = IF n = 0 THEN 0 ELSE u[n - 1] + Size[s[n].art]
      BY DEF IsSum
    <2>2. \A n \in 0..Len(t) : w[n] = IF n = 0 THEN 0 ELSE w[n - 1] + Size[t[n].art]
      BY DEF IsSum
    <2>3. \A n \in 0..k : n \in 0..Len(s) /\ n \in 0..Len(t)
      BY <1>1
    <2> QED
      BY <2>1, <2>2, <2>3
  <1>3. ASSUME Bad # {} PROVE FALSE
    <2>1. PICK m \in Bad : \A n \in Bad : m <= n
      <3>1. Bad \in SUBSET Nat
        OBVIOUS
      <3> HIDE DEF Bad
      <3> QED
        BY <1>3, <3>1, LeastExists
    <2>2. m \in 0..k /\ ~(u[m] \in Nat /\ w[m] = u[m])
      OBVIOUS
    <2>3. m # 0
      BY <1>2, <2>2
    <2>4. m - 1 \in 0..k /\ m \in 1..k /\ m - 1 \notin Bad
      <3>1. m - 1 \in 0..k /\ m \in 1..k /\ ~(m <= m - 1)
        BY <2>2, <2>3
      <3> HIDE DEF Bad
      <3> QED
        BY <2>1, <3>1
    <2>5. u[m - 1] \in Nat /\ w[m - 1] = u[m - 1]
      BY <2>4
    <2>6. u[m] = u[m - 1] + Size[s[m].art] /\ w[m] = w[m - 1] + Size[t[m].art] /\ t[m] = s[m]
      BY <1>2, <2>2, <2>3, <2>4
    <2>7. Size[s[m].art] \in Nat
      BY <1>1, <2>4
    <2> QED
      BY <2>2, <2>5, <2>6, <2>7
  <1> QED
    BY <1>3

\* A row at the end adds its size.
LEMMA SumAppended ==
  ASSUME NEW s \in Seq(EntryType), NEW e \in EntryType, NEW u, NEW w, IsSum(u, s), IsSum(w, Append(s, e))
  PROVE  /\ u[Len(s)] \in Nat
         /\ w[Len(Append(s, e))] = u[Len(s)] + Size[e.art]
  <1> DEFINE t == Append(s, e)
  <1>1. /\ t \in Seq(EntryType) /\ Len(t) = Len(s) + 1 /\ Len(s) \in Nat
        /\ t[Len(t)] = e /\ \A n \in 1..Len(s) : t[n] = s[n]
    <2> HIDE DEF EntryType
    <2> QED
      OBVIOUS
  <1> HIDE DEF t
  <1>2. IsSum(w, t)
    BY DEF t
  <1>3. u[Len(s)] \in Nat /\ w[Len(s)] = u[Len(s)]
    BY <1>1, <1>2, SumOfPrefix
  <1>4. w[Len(t)] = w[Len(t) - 1] + Size[t[Len(t)].art]
    BY <1>1, <1>2 DEF IsSum
  <1> QED
    BY <1>1, <1>3, <1>4 DEF t

\* Without one of its rows the sum is less by the size of that row.
LEMMA SumRemoved ==
  ASSUME NEW s \in Seq(EntryType), NEW i \in DOMAIN s, NEW u, NEW w,
         IsSum(u, s), IsSum(w, RemoveAt(s, i))
  PROVE  /\ u[Len(s)] \in Nat /\ w[Len(RemoveAt(s, i))] \in Nat
         /\ u[Len(s)] = w[Len(RemoveAt(s, i))] + Size[s[i].art]
  <1> DEFINE t == RemoveAt(s, i)
             Bad == {n \in i..Len(s) : ~(w[n - 1] \in Nat /\ u[n] = w[n - 1] + Size[s[i].art])}
  <1>1. /\ t \in Seq(EntryType) /\ Len(t) = Len(s) - 1
        /\ \A j \in 1..(Len(s) - 1) : t[j] = IF j < i THEN s[j] ELSE s[j + 1]
    BY Removal
  <1>2. IsSum(w, t)
    OBVIOUS
  <1> HIDE DEF t
  <1>3. /\ i \in 1..Len(s) /\ Len(s) \in Nat
        /\ \A n \in 1..Len(s) : Size[s[n].art] \in Nat
    BY RowSizes
  <1>4. u[i - 1] \in Nat /\ w[i - 1] = u[i - 1]
    <2>1. i - 1 \in 0..Len(s) /\ i - 1 <= Len(t)
      BY <1>1, <1>3
    <2>2. \A n \in 1..(i - 1) : n \in 1..(Len(s) - 1) /\ n < i
      BY <1>3
    <2>3. \A n \in 1..(i - 1) : t[n] = s[n]
      BY <1>1, <2>2
    <2> DEFINE k == i - 1
    <2>4. k \in 0..Len(s) /\ k <= Len(t) /\ \A n \in 1..k : t[n] = s[n]
      BY <2>1, <2>3
    <2> HIDE DEF k
    <2>5. u[k] \in Nat /\ w[k] = u[k]
      BY <1>1, <1>2, <2>4, SumOfPrefix
    <2> QED
      BY <2>5 DEF k
  <1>5. \A n \in 1..Len(s) : /\ u[n] = u[n - 1] + Size[s[n].art]
                             /\ n # Len(s) => w[n] = w[n - 1] + Size[t[n].art]
    <2>1. \A n \in 0..Len(s) : u[n] = IF n = 0 THEN 0 ELSE u[n - 1] + Size[s[n].art]
      BY DEF IsSum
    <2>2. \A n \in 0..Len(t) : w[n] = IF n = 0 THEN 0 ELSE w[n - 1] + Size[t[n].art]
      BY <1>2 DEF IsSum
    <2> QED
      BY <1>1, <1>3, <2>1, <2>2
  <1>6. ASSUME Bad # {} PROVE FALSE
    <2>1. PICK m \in Bad : \A n \in Bad : m <= n
      <3>1. Bad \in SUBSET Nat
        BY <1>3
      <3> HIDE DEF Bad
      <3> QED
        BY <1>6, <3>1, LeastExists
    <2>2. m \in i..Len(s) /\ ~(w[m - 1] \in Nat /\ u[m] = w[m - 1] + Size[s[i].art])
      OBVIOUS
    <2>3. m # i
      BY <1>3, <1>4, <1>5, <2>2
    <2>4. m - 1 \in i..Len(s) /\ m - 1 \notin Bad
      <3>1. m - 1 \in i..Len(s) /\ ~(m <= m - 1)
        BY <1>3, <2>2, <2>3
      <3> HIDE DEF Bad
      <3> QED
        BY <2>1, <3>1
    <2>5. w[m - 2] \in Nat /\ u[m - 1] = w[m - 2] + Size[s[i].art]
      <3>1. (m - 1) - 1 = m - 2
        BY <1>3, <2>2
      <3> QED
        BY <2>4, <3>1
    <2>6. /\ u[m] = u[m - 1] + Size[s[m].art] /\ w[m - 1] = w[m - 2] + Size[t[m - 1].art]
          /\ t[m - 1] = s[m]
      <3>1. m - 1 \in 1..Len(s) /\ m - 1 # Len(s) /\ (m - 1) - 1 = m - 2 /\ (m - 1) + 1 = m /\ ~(m - 1 < i)
            /\ m - 1 \in 1..(Len(s) - 1) /\ m \in 1..Len(s)
        BY <1>3, <2>2, <2>3
      <3>2. t[m - 1] = s[(m - 1) + 1]
        BY <1>1, <3>1
      <3>3. w[m - 1] = w[(m - 1) - 1] + Size[t[m - 1].art]
        BY <1>5, <3>1
      <3> QED
        BY <1>5, <3>1, <3>2, <3>3
    <2>7. Size[s[m].art] \in Nat /\ Size[s[i].art] \in Nat
      BY <1>3, <2>2
    <2> QED
      BY <2>2, <2>5, <2>6, <2>7
  <1>7. w[Len(s) - 1] \in Nat /\ u[Len(s)] = w[Len(s) - 1] + Size[s[i].art]
    <2>1. Len(s) \in i..Len(s)
      BY <1>3
    <2> QED
      BY <1>6, <2>1
  <1>8. u[Len(s)] \in Nat
    BY <1>3, <1>7
  <1> QED
    BY <1>1, <1>7, <1>8 DEF t

\* TotalSize is that sum.
LEMMA TotalIsSum == TableOK => \E u : IsSum(u, entries) /\ TotalSize = u[Len(entries)]
  <1> SUFFICES ASSUME TableOK PROVE \E u : IsSum(u, entries) /\ TotalSize = u[Len(entries)]
    OBVIOUS
  <1>1. TotalSize = (CHOOSE u : IsSum(u, entries))[Len(entries)]
    BY DEF TotalSize, IsSum
  <1>2. \E u : IsSum(u, entries)
    BY SumExists DEF TableOK
  <1> QED
    BY <1>1, <1>2

\* The same of the next state.
LEMMA TotalIsSumNext == (TableOK => \E u : IsSum(u, entries) /\ TotalSize = u[Len(entries)])'
  BY TotalIsSum, PTL

\* The size grows by no deletion, and a touch does not change it.
LEMMA SizeShrinks ==
  ASSUME TableOK, TableOK', NEW STATE id, DeleteEntry(id) \/ Touch(id)
  PROVE  TotalSize \in Nat /\ TotalSize' \in Nat /\ TotalSize' <= TotalSize
  <1>1. PICK u : IsSum(u, entries) /\ TotalSize = u[Len(entries)]
    BY TotalIsSum
  <1>2. PICK w : IsSum(w, entries') /\ TotalSize' = w[Len(entries')]
    BY TotalIsSumNext
  <1>3. entries \in Seq(EntryType) /\ entries' \in Seq(EntryType)
    BY DEF TableOK
  <1>4. PICK s, t : s = entries /\ t = entries'
    OBVIOUS
  <1>5. /\ s \in Seq(EntryType) /\ t \in Seq(EntryType) /\ IsSum(u, s) /\ IsSum(w, t)
        /\ TotalSize = u[Len(s)] /\ TotalSize' = w[Len(t)]
    BY <1>1, <1>2, <1>3, <1>4
  <1>6. \/ t = s
        \/ \E i \in DOMAIN s : t = RemoveAt(s, i) \/ t = Append(RemoveAt(s, i), s[i])
    BY <1>4 DEF DeleteEntry, Touch, NoEntry
  <1>7. u[Len(s)] \in Nat /\ w[Len(t)] \in Nat /\ w[Len(t)] <= u[Len(s)]
    <2>1. CASE t = s
      <3>1. Len(s) \in 0..Len(s) /\ Len(s) <= Len(t) /\ \A n \in 1..Len(s) : t[n] = s[n]
        BY <1>5, <2>1, RowSizes
      <3>2. u[Len(s)] \in Nat /\ w[Len(s)] = u[Len(s)]
        BY <1>5, <3>1, SumOfPrefix
      <3> QED
        BY <2>1, <3>2
    <2>2. ASSUME NEW i \in DOMAIN s, t = RemoveAt(s, i)
          PROVE  u[Len(s)] \in Nat /\ w[Len(t)] \in Nat /\ w[Len(t)] <= u[Len(s)]
      <3>1. Size[s[i].art] \in Nat
        BY <1>5, RowSizes
      <3>2. u[Len(s)] \in Nat /\ w[Len(t)] \in Nat /\ u[Len(s)] = w[Len(t)] + Size[s[i].art]
        BY <1>5, <2>2, SumRemoved
      <3> QED
        BY <3>1, <3>2
    <2>3. ASSUME NEW i \in DOMAIN s, t = Append(RemoveAt(s, i), s[i])
          PROVE  u[Len(s)] \in Nat /\ w[Len(t)] \in Nat /\ w[Len(t)] <= u[Len(s)]
      <3> DEFINE r == RemoveAt(s, i)
      <3>1. r \in Seq(EntryType)
        BY <1>5, Removal
      <3>2. s[i] \in EntryType
        BY <1>5, RowSizes
      <3>3. PICK v : IsSum(v, r)
        BY <3>1, SumExists
      <3>4. u[Len(s)] \in Nat /\ v[Len(r)] \in Nat /\ u[Len(s)] = v[Len(r)] + Size[s[i].art]
        BY <1>5, <3>3, SumRemoved
      <3> HIDE DEF r
      <3>5. w[Len(t)] = v[Len(r)] + Size[s[i].art]
        <4>1. t = Append(r, s[i])
          BY <2>3 DEF r
        <4> QED
          BY <1>5, <3>1, <3>2, <3>3, <4>1, SumAppended
      <3> QED
        BY <3>4, <3>5
    <2> QED
      BY <1>6, <2>1, <2>2, <2>3
  <1> QED
    BY <1>5, <1>7

\* The cache has more than it may only while a Store is evicting.
EvictSteps == {"evict", "evictFile", "evictRow"}
SizeOK == Fits \/ \E p \in Procs : pc[p] \in EvictSteps

\* An empty cache is within its limit.
LEMMA EmptyFits == ASSUME entries = <<>> PROVE Fits
  <1>1. TableOK
    BY DEF TableOK, Distinct
  <1>2. PICK u : IsSum(u, entries) /\ TotalSize = u[Len(entries)]
    BY <1>1, TotalIsSum
  <1>3. TotalSize = 0
    <2>1. Len(entries) = 0 /\ 0 \in 0..0
      OBVIOUS
    <2>2. u = [n \in 0..0 |-> IF n = 0 THEN 0 ELSE u[n - 1] + Size[entries[n].art]]
      BY <1>2, <2>1 DEF IsSum
    <2> QED
      BY <1>2, <2>1, <2>2
  <1> QED
    BY <1>3, SizeAssumption DEF Fits

\* A step that adds nothing to the cache keeps it within the limit.
LEMMA SizeStays ==
  ASSUME SizeOK, entries' = entries \/ (Fits => Fits'),
         \A q \in Procs : pc[q] \in EvictSteps => pc'[q] \in EvictSteps
  PROVE  SizeOK'
  <1>1. entries' = entries => (Fits => Fits')
    BY DEF Fits, TotalSize
  <1> QED
    BY <1>1 DEF SizeOK

\* Neither a deletion nor a touch adds to the sum.
LEMMA SmallerFits ==
  ASSUME CacheInv, CacheInv', NEW STATE id, DeleteEntry(id) \/ Touch(id), Fits
  PROVE  Fits'
  <1>1. TotalSize \in Nat /\ TotalSize' \in Nat /\ TotalSize' <= TotalSize
    BY SizeShrinks DEF CacheInv
  <1> QED
    BY <1>1, SizeAssumption DEF Fits

\* StoreInsert may go over the limit and is then evicting; EvictCheck stops only
\* within the limit.
LEMMA SizeStep == CacheInv /\ CacheInv' /\ SizeOK /\ [Next]_vars => SizeOK'
  <1> SUFFICES ASSUME CacheInv, CacheInv', SizeOK, [Next]_vars PROVE SizeOK'
    OBVIOUS
  <1>1. CASE UNCHANGED vars
    BY <1>1, SizeStays DEF vars
  <1> DEFINE Moves(p) == pc[p] \notin EvictSteps /\ pc' = [pc EXCEPT ![p] = pc'[p]]
  <1>2. ASSUME NEW p \in Procs, Moves(p), entries' = entries \/ (Fits => Fits') PROVE SizeOK'
    <2>1. \A q \in Procs : pc[q] \in EvictSteps => pc'[q] = pc[q]
      BY <1>2 DEF CacheInv, TypesOK
    <2> QED
      BY <1>2, <2>1, SizeStays
  <1>3. ASSUME NEW p \in Procs, NEW k \in DistKeys, Start(p, k) \/ Run(p, k) PROVE SizeOK'
    <2>1. Moves(p) /\ entries' = entries
      BY <1>3 DEF Start, Run, Goto, EvictSteps, CacheInv, TypesOK
    <2> QED
      BY <1>2, <2>1
  <1>4. ASSUME NEW p \in Procs, StartStep(p) PROVE SizeOK'
    <2>1. Moves(p)
      BY <1>4 DEF StartStep, LookupGet, LookupExists, LookupStale, LookupTouch, CrossDist, CreateRow,
                  Return, Goto, EvictSteps, CacheInv, TypesOK
    <2>2. entries' = entries \/ DeleteEntry(loc[p].id) \/ Touch(loc[p].id)
      BY <1>4 DEF StartStep, LookupGet, LookupExists, LookupStale, LookupTouch, CrossDist, CreateRow
    <2>3. entries' = entries \/ (Fits => Fits')
      BY <2>2, SmallerFits
    <2> QED
      BY <1>2, <2>1, <2>3
  <1>5. ASSUME NEW p \in Procs, RunStep(p) PROVE SizeOK'
    <2>1. Moves(p) /\ entries' = entries
      BY <1>5 DEF RunStep, UploadCreate, UploadData, MarkCompleted, Reread, Return, Goto, EvictSteps,
                  CacheInv, TypesOK
    <2> QED
      BY <1>2, <2>1
  <1>6. ASSUME NEW p \in Procs, CopyStep(p) PROVE SizeOK'
    <2>1. Moves(p) /\ entries' = entries
      BY <1>6 DEF CopyStep, CopyLink, CopyCreate, CopyData, Goto, EvictSteps, CacheInv, TypesOK
    <2> QED
      BY <1>2, <2>1
  <1>7. ASSUME NEW p \in Procs, StoreStep(p) PROVE SizeOK'
    <2>1. CASE StoreLock(p)
      <3>1. Moves(p)
        BY <2>1 DEF StoreLock, Goto, EvictSteps, CacheInv, TypesOK
      <3>2. entries' = entries \/ \E e \in Entry(Art(p)) : Touch(e.id)
        BY <2>1 DEF StoreLock
      <3>3. entries' = entries \/ (Fits => Fits')
        BY <3>2, SmallerFits
      <3> QED
        BY <1>2, <3>1, <3>3
    <2>2. CASE StoreInsert(p) \/ EvictFile(p) \/ EvictRow(p)
      <3>1. pc'[p] \in EvictSteps
        BY <2>2 DEF StoreInsert, EvictFile, EvictRow, Goto, EvictSteps, CacheInv, TypesOK
      <3> QED
        BY <3>1 DEF SizeOK
    <2>3. CASE EvictCheck(p)
      <3>1. CASE Fits \/ (loc[p].batch = <<>> /\ entries = <<>>)
        <4>1. Fits /\ entries' = entries
          BY <2>3, <3>1, EmptyFits DEF EvictCheck
        <4> QED
          BY <4>1 DEF SizeOK, Fits, TotalSize
      <3>2. CASE ~(Fits \/ (loc[p].batch = <<>> /\ entries = <<>>))
        <4>1. pc'[p] = "evictFile"
          BY <2>3, <3>2 DEF EvictCheck, Goto, CacheInv, TypesOK
        <4> QED
          BY <4>1 DEF SizeOK, EvictSteps
      <3> QED
        BY <3>1, <3>2
    <2>4. CASE StoreUnlock(p)
      <3>1. Moves(p) /\ entries' = entries
        BY <2>4 DEF StoreUnlock, Return, Goto, EvictSteps, CacheInv, TypesOK
      <3> QED
        BY <1>2, <3>1
    <2> QED
      BY <1>7, <2>1, <2>2, <2>3, <2>4 DEF StoreStep
  <1>8. ASSUME (\E d \in Dists : Flush(d)) \/ (\E k \in DistKeys : DeleteArtifact(k)) PROVE SizeOK'
    BY <1>8, SizeStays DEF Flush, DeleteArtifact
  <1> QED
    BY <1>1, <1>3, <1>4, <1>5, <1>6, <1>7, <1>8 DEF Next

\* Whenever no Store is under way the cache is within its limit: Store evicts,
\* under its lock, until it is, and nothing else adds to the cache.
THEOREM CacheLimited == Spec => []CacheWithinLimit
  <1>1. Init => SizeOK
    BY EmptyFits DEF Init, SizeOK
  <1>2. CacheInv /\ SizeOK => CacheWithinLimit
    <2> SUFFICES ASSUME CacheInv, SizeOK, mutex = Nobody PROVE Fits
      BY DEF CacheWithinLimit
    <2>1. \A p \in Procs : pc[p] \notin EvictSteps
      BY ProcsAssumption DEF CacheInv, LockOK, Storing, EvictSteps
    <2> QED
      BY <2>1 DEF SizeOK
  <1> QED
    BY <1>1, <1>2, SizeStep, CacheSafe, PTL DEF Spec
=============================================================================
