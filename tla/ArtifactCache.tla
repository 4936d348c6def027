---------------------------- MODULE ArtifactCache ----------------------------
(***************************************************************************)
(* The artifact cache of the download manager (src/ldfd/download/cache.go, *)
(* the artifact_cache table behind db/artifact_cache.go) over the local    *)
(* storage backend (storage/local.go), with the parts of                   *)
(* download/manager.go, worker.go and downloader.go that read and write    *)
(* artifacts.                                                              *)
(*                                                                         *)
(* A storage key is a name for a file, and a copy is a hard link where the *)
(* destination is new: several keys may be one file.  What a file holds is *)
(* all of its artifact or, while it is being written and after a write     *)
(* that went wrong, less than that.                                        *)
(***************************************************************************)
EXTENDS Naturals, Sequences, FiniteSets, SequencesExt

CONSTANTS
    Dists,          \* distributions
    Artifacts,      \* source+version pairs
    Procs,          \* goroutines: download workers and HTTP requests
    Shared,         \* the cache's own part of the key space
    Size,           \* size_bytes of an artifact
    MaxSize,        \* CacheConfig.MaxSizeGB, where 0 is no limit
    Batch,          \* how many entries evict lists at once (5 in the code)
    Nobody,         \* no goroutine
    MaxBegun        \* bound: starts, runs and deletions of artifacts

ASSUME SpaceAssumption == Shared \notin Dists /\ IsFiniteSet(Dists) /\ IsFiniteSet(Artifacts)
ASSUME ProcsAssumption == Nobody \notin Procs /\ IsFiniteSet(Procs)
ASSUME SizeAssumption ==
    /\ Size \in [Artifacts -> Nat \ {0}]
    /\ MaxSize \in Nat /\ MaxBegun \in Nat /\ Batch \in Nat \ {0}

\* Keys: distribution/<owner>/<dist>/... and cache/artifacts/...
Keys == (Dists \cup {Shared}) \X Artifacts
DistKeys == Dists \X Artifacts
Cached(a) == <<Shared, a>>

\* Enough files for all keys and all open descriptors, and enough identifiers
\* for all entries, listed entries and entries that Lookup holds.
Files == 1 .. Cardinality(Keys) + 2 * Cardinality(Procs)
NoFile == 0
Ids == 1 .. 2 * Cardinality(Artifacts) + Cardinality(Procs)
NoId == 0

VARIABLES
    file,       \* the storage directory: the file a key names
    whole,      \* the files that hold all of their artifact
    entries,    \* artifact_cache, the least recently used first
    pending,    \* download_jobs: artifacts with a row that is not completed
    completed,  \* download_jobs: artifacts with a row that is completed
    mutex,      \* Cache.mu: the goroutine that holds it
    pc,         \* goroutine: its next step
    loc,        \* goroutine: its local variables
    begun       \* how many starts, runs and deletions there were

storage == <<file, whole>>
rows == <<pending, completed>>
vars == <<storage, entries, rows, mutex, pc, loc, begun>>

NoLoc == [key |-> <<>>, run |-> FALSE, id |-> NoId, why |-> "none", src |-> <<>>,
          dst |-> <<>>, in |-> NoFile, out |-> NoFile, batch |-> <<>>]

Init ==
    /\ file = [k \in Keys |-> NoFile]
    /\ whole = {}
    /\ entries = <<>>
    /\ pending = {}
    /\ completed = {}
    /\ mutex = Nobody
    /\ pc = [p \in Procs |-> "idle"]
    /\ loc = [p \in Procs |-> NoLoc]
    /\ begun = 0

Goto(p, from, to) == pc[p] = from /\ pc' = [pc EXCEPT ![p] = to]

Art(p) == loc[p].key[2]

\* The request or the run is over.
Return(p, from) == Goto(p, from, "idle") /\ loc' = [loc EXCEPT ![p] = NoLoc]

\* The bound on what goroutines set out to do.
Begin == begun < MaxBegun /\ begun' = begun + 1

-----------------------------------------------------------------------------
(***************************************************************************)
(* Storage.                                                                *)
(***************************************************************************)
Used == {file[k] : k \in Keys} \cup UNION {{loc[p].in, loc[p].out} : p \in Procs}

\* os.Create: a new file, or the one that the key names, emptied in place.
Create(p, k) ==
    LET f == IF file[k] # NoFile
               THEN file[k]
               ELSE CHOOSE g \in Files : g \notin Used
    IN /\ file' = [file EXCEPT ![k] = f]
       /\ whole' = whole \ {f}
       /\ loc' = [loc EXCEPT ![p].out = f]

\* os.Remove: the key goes, other keys of the same file stay.
RemoveKey(k) == file' = [file EXCEPT ![k] = NoFile]

\* What the callers of Copy do next.
Copied == [hit |-> "row", cross |-> "lock", store |-> "insert"]
NotCopied == [hit |-> "cross", cross |-> "pend", store |-> "unlock"]

\* Calls Copy.
Copy(p, why, src, dst) ==
    loc' = [loc EXCEPT ![p].why = why, ![p].src = src, ![p].dst = dst]

\* LocalBackend.Copy: a hard link where nothing has the name of the destination,
\* an error where nothing has that of the source, ...
CopyLink(p) ==
    /\ pc[p] = "copy"
    /\ LET src == file[loc[p].src]
           dst == file[loc[p].dst]
       IN \/ /\ src # NoFile /\ dst = NoFile
             /\ Goto(p, "copy", Copied[loc[p].why])
             /\ file' = [file EXCEPT ![loc[p].dst] = src]
             /\ UNCHANGED loc
          \/ /\ src = NoFile
             /\ Goto(p, "copy", NotCopied[loc[p].why])
             /\ UNCHANGED <<file, loc>>
          \/ /\ src # NoFile /\ dst # NoFile
             /\ Goto(p, "copy", "create")
             /\ loc' = [loc EXCEPT ![p].in = src]
             /\ UNCHANGED file
    /\ UNCHANGED <<whole, entries, rows, mutex, begun>>

\* ... and otherwise the destination is created, which empties it if it exists, ...
CopyCreate(p) ==
    /\ Goto(p, "create", "data")
    /\ Create(p, loc[p].dst)
    /\ UNCHANGED <<entries, rows, mutex, begun>>

\* ... and gets what is left in the source, or is removed after an error.
CopyData(p) ==
    /\ \/ /\ Goto(p, "data", Copied[loc[p].why])
          /\ whole' = IF loc[p].in \in whole THEN whole \cup {loc[p].out} ELSE whole
          /\ UNCHANGED file
       \/ /\ Goto(p, "data", NotCopied[loc[p].why])
          /\ RemoveKey(loc[p].dst)
          /\ UNCHANGED whole
    /\ loc' = [loc EXCEPT ![p].in = NoFile, ![p].out = NoFile]
    /\ UNCHANGED <<entries, rows, mutex, begun>>

-----------------------------------------------------------------------------
(***************************************************************************)
(* The artifact_cache table.                                               *)
(***************************************************************************)
Entry(a) == {e \in ToSet(entries) : e.art = a}

\* Nothing happens to an entry that is gone.
NoEntry(id) == (\A i \in DOMAIN entries : entries[i].id # id) /\ UNCHANGED entries

DeleteEntry(id) ==
    \/ \E i \in DOMAIN entries : entries[i].id = id /\ entries' = RemoveAt(entries, i)
    \/ NoEntry(id)

\* TouchLastUsed.
Touch(id) ==
    \/ \E i \in DOMAIN entries :
         entries[i].id = id /\ entries' = Append(RemoveAt(entries, i), entries[i])
    \/ NoEntry(id)

\* A new identifier is one that no goroutine has in its hands.
Held == {e.id : e \in ToSet(entries)} \cup {loc[p].id : p \in Procs}
          \cup UNION {{e.id : e \in ToSet(loc[p].batch)} : p \in Procs}
NewId == CHOOSE i \in Ids : i \notin Held

TotalSize ==
    LET upTo[n \in 0..Len(entries)] ==
          IF n = 0 THEN 0 ELSE upTo[n - 1] + Size[entries[n].art]
    IN upTo[Len(entries)]
Fits == MaxSize = 0 \/ TotalSize <= MaxSize

-----------------------------------------------------------------------------
(***************************************************************************)
(* A start of the downloads of a distribution: CreateJobsForDistribution   *)
(* for one artifact that has no row yet.                                   *)
(***************************************************************************)
Start(p, k) ==
    /\ Begin
    /\ k \notin pending \cup completed
    /\ Goto(p, "idle", "lookup")
    /\ loc' = [loc EXCEPT ![p].key = k]
    /\ UNCHANGED <<storage, entries, rows, mutex>>

\* Lookup, which takes no lock: the entry is read, ...
LookupGet(p) ==
    /\ pc[p] = "lookup"
    /\ \/ /\ Entry(Art(p)) = {}
          /\ Goto(p, "lookup", "cross")
          /\ UNCHANGED loc
       \/ \E e \in Entry(Art(p)) :
          /\ Goto(p, "lookup", "exists")
          /\ loc' = [loc EXCEPT ![p].id = e.id]
    /\ UNCHANGED <<storage, entries, rows, mutex, begun>>

\* ... its file looked for, ...
LookupExists(p) ==
    /\ pc[p] = "exists"
    /\ Goto(p, "exists", IF file[Cached(Art(p))] # NoFile THEN "touch" ELSE "stale")
    /\ UNCHANGED <<storage, entries, rows, mutex, loc, begun>>

\* ... and the entry that was read is deleted when it has none ...
MUT_StaleByArtifact(p) ==
    /\ Goto(p, "stale", "cross")
    /\ entries' = SelectSeq(entries, LAMBDA e : e.art # Art(p))
    /\ loc' = [loc EXCEPT ![p].id = NoId]
    /\ UNCHANGED <<storage, rows, mutex, begun>>
LookupStale(p) ==
    /\ Goto(p, "stale", "cross")
    /\ DeleteEntry(loc[p].id)
    /\ loc' = [loc EXCEPT ![p].id = NoId]
    /\ UNCHANGED <<storage, rows, mutex, begun>>

\* ... or touched, and the file copied to the distribution (CopyToDistribution).
LookupTouch(p) ==
    /\ Goto(p, "touch", "copy")
    /\ Touch(loc[p].id)
    /\ loc' = [loc EXCEPT ![p].id = NoId, ![p].why = "hit",
                          ![p].src = Cached(Art(p)), ![p].dst = loc[p].key]
    /\ UNCHANGED <<storage, rows, mutex, begun>>

\* Without a hit, GetCompletedBySourceAndVersion finds the row of any
\* distribution, and its artifact is copied and then stored in the cache.
CrossDist(p) ==
    /\ pc[p] = "cross"
    /\ \/ /\ \A k \in completed : k[2] # Art(p)
          /\ Goto(p, "cross", "pend")
          /\ UNCHANGED loc
       \/ \E k \in completed :
          /\ k[2] = Art(p)
          /\ Goto(p, "cross", "copy")
          /\ Copy(p, "cross", k, loc[p].key)
    /\ UNCHANGED <<storage, entries, rows, mutex, begun>>

\* A row is created: completed after a copy, and pending otherwise.
CreateRow(p) ==
    /\ \/ Return(p, "row") /\ completed' = completed \cup {loc[p].key} /\ UNCHANGED pending
       \/ Return(p, "pend") /\ pending' = pending \cup {loc[p].key} /\ UNCHANGED completed
    /\ UNCHANGED <<storage, entries, mutex, begun>>

-----------------------------------------------------------------------------
(***************************************************************************)
(* The run of a download, from its upload on.                              *)
(***************************************************************************)

\* Two workers may run one download, and the queue may hold one that is completed
\* (DownloadManager); without a row nothing is uploaded.
Run(p, k) ==
    /\ Begin
    /\ k \in pending \cup completed
    /\ Goto(p, "idle", "upload")
    /\ loc' = [loc EXCEPT ![p].key = k, ![p].run = TRUE]
    /\ UNCHANGED <<storage, entries, rows, mutex>>

\* LocalBackend.Upload writes the key in place ...
UploadCreate(p) ==
    /\ Goto(p, "upload", "write")
    /\ Create(p, loc[p].key)
    /\ UNCHANGED <<entries, rows, mutex, begun>>

\* ... and removes it after an error, which another try may follow.
UploadData(p) ==
    /\ \/ /\ Goto(p, "write", "mark")
          /\ whole' = whole \cup {loc[p].out}
          /\ loc' = [loc EXCEPT ![p].out = NoFile]
          /\ UNCHANGED file
       \/ /\ Goto(p, "write", "upload")
          /\ RemoveKey(loc[p].key)
          /\ loc' = [loc EXCEPT ![p].out = NoFile]
          /\ UNCHANGED whole
       \/ /\ Return(p, "write")
          /\ RemoveKey(loc[p].key)
          /\ UNCHANGED whole
    /\ UNCHANGED <<entries, rows, mutex, begun>>

\* MarkCompleted fails when the row is gone, and the run ends sooner or later.
MarkCompleted(p) ==
    /\ pc[p] = "mark"
    /\ IF loc[p].key \in pending \cup completed
         THEN /\ Goto(p, "mark", "reread")
              /\ pending' = pending \ {loc[p].key}
              /\ completed' = completed \cup {loc[p].key}
              /\ UNCHANGED loc
         ELSE /\ \/ Goto(p, "mark", "upload") /\ UNCHANGED loc
                 \/ Return(p, "mark")
              /\ UNCHANGED rows
    /\ UNCHANGED <<storage, entries, mutex, begun>>

\* GetByID, and then Store with what the row says.
Reread(p) ==
    /\ IF loc[p].key \in pending \cup completed
         THEN /\ Goto(p, "reread", "lock")
              /\ loc' = [loc EXCEPT ![p].src = loc[p].key]
         ELSE Return(p, "reread")
    /\ UNCHANGED <<storage, entries, rows, mutex, begun>>

-----------------------------------------------------------------------------
(***************************************************************************)
(* Store and evict, under the lock.                                        *)
(***************************************************************************)

\* An artifact that has an entry is touched, and any other copied.
MUT_StoreUnlocked(p) ==
    /\ pc[p] = "lock"
    /\ Goto(p, "lock", IF Entry(Art(p)) = {} THEN "copy" ELSE "unlock")
    /\ Copy(p, "store", loc[p].src, Cached(Art(p)))
    /\ UNCHANGED <<storage, rows, entries, mutex, begun>>
StoreLock(p) ==
    /\ pc[p] = "lock"
    /\ mutex = Nobody
    /\ mutex' = p
    /\ \/ /\ Entry(Art(p)) = {}
          /\ Goto(p, "lock", "copy")
          /\ Copy(p, "store", loc[p].src, Cached(Art(p)))
          /\ UNCHANGED entries
       \/ \E e \in Entry(Art(p)) :
          /\ Goto(p, "lock", "unlock")
          /\ Touch(e.id)
          /\ UNCHANGED loc
    /\ UNCHANGED <<storage, rows, begun>>

\* The entry of the copy is created.
MUT_StoreWithoutEvict(p) ==
    /\ Goto(p, "insert", "unlock")
    /\ entries' = Append(entries, [id |-> NewId, art |-> Art(p)])
    /\ UNCHANGED <<storage, rows, mutex, loc, begun>>
StoreInsert(p) ==
    /\ Goto(p, "insert", "evict")
    /\ entries' = Append(entries, [id |-> NewId, art |-> Art(p)])
    /\ UNCHANGED <<storage, rows, mutex, loc, begun>>

\* evict: the size is summed up before and after every deletion; while it is too
\* large the listed entries go in their order, and then others are listed.
EvictCheck(p) ==
    /\ LET done == Fits \/ (loc[p].batch = <<>> /\ entries = <<>>)
       IN /\ Goto(p, "evict", IF done THEN "unlock" ELSE "evictFile")
          /\ loc' = [loc EXCEPT ![p].batch =
                       IF done THEN <<>>
                       ELSE IF @ # <<>> THEN @
                       ELSE SubSeq(entries, 1, IF Len(entries) < Batch THEN Len(entries)
                                                                       ELSE Batch)]
    /\ UNCHANGED <<storage, entries, rows, mutex, begun>>

EvictFile(p) ==
    /\ Goto(p, "evictFile", "evictRow")
    /\ RemoveKey(Cached(Head(loc[p].batch).art))
    /\ UNCHANGED <<whole, entries, rows, mutex, loc, begun>>

EvictRow(p) ==
    /\ Goto(p, "evictRow", "evict")
    /\ DeleteEntry(Head(loc[p].batch).id)
    /\ loc' = [loc EXCEPT ![p].batch = Tail(@)]
    /\ UNCHANGED <<storage, rows, mutex, begun>>

\* A start goes on to its row, and a run is over.
StoreUnlock(p) ==
    /\ pc[p] = "unlock"
    /\ mutex' = Nobody
    /\ IF loc[p].run THEN Return(p, "unlock")
                     ELSE Goto(p, "unlock", "row") /\ UNCHANGED loc
    /\ UNCHANGED <<storage, entries, rows, begun>>

-----------------------------------------------------------------------------
(***************************************************************************)
(* Other requests.                                                         *)
(***************************************************************************)

\* DeleteByDistribution of the downloads: the files stay.
Flush(d) ==
    /\ pending' = {k \in pending : k[1] # d}
    /\ completed' = {k \in completed : k[1] # d}
    /\ UNCHANGED <<storage, entries, mutex, pc, loc, begun>>

\* The deletion of an artifact, or of all of a distribution one by one: the
\* rows stay.
DeleteArtifact(k) ==
    /\ Begin
    /\ RemoveKey(k)
    /\ UNCHANGED <<whole, entries, rows, mutex, pc, loc>>

StartStep(p) ==
    \/ LookupGet(p) \/ LookupExists(p) \/ LookupStale(p) \/ LookupTouch(p)
    \/ CrossDist(p) \/ CreateRow(p)

RunStep(p) == UploadCreate(p) \/ UploadData(p) \/ MarkCompleted(p) \/ Reread(p)

CopyStep(p) == CopyLink(p) \/ CopyCreate(p) \/ CopyData(p)

StoreStep(p) ==
    \/ StoreLock(p) \/ StoreInsert(p) \/ EvictCheck(p) \/ EvictFile(p)
    \/ EvictRow(p) \/ StoreUnlock(p)

Next ==
    \/ \E p \in Procs :
         \/ \E k \in DistKeys : Start(p, k) \/ Run(p, k)
         \/ StartStep(p) \/ RunStep(p) \/ CopyStep(p) \/ StoreStep(p)
    \/ \E d \in Dists : Flush(d)
    \/ \E k \in DistKeys : DeleteArtifact(k)

Spec == Init /\ [][Next]_vars

-----------------------------------------------------------------------------
(***************************************************************************)
(* Properties.                                                             *)
(***************************************************************************)

\* Types; no two entries have one identifier, and a goroutine that is done holds
\* nothing.
CacheTypeOK ==
    /\ file \in [Keys -> Files \cup {NoFile}] /\ whole \subseteq Files
    /\ \A i \in DOMAIN entries : entries[i].id \in Ids /\ entries[i].art \in Artifacts
    /\ pending \cup completed \subseteq DistKeys
    /\ mutex \in Procs \cup {Nobody} /\ begun \in 0..MaxBegun
    /\ \A i, j \in DOMAIN entries : entries[i].id = entries[j].id => i = j
    /\ \A p \in Procs : pc[p] = "idle" => loc[p] = NoLoc

\* Whenever no Store is going on, the cache has a file for exactly those
\* artifacts that have an entry: the unlocked Lookup, which deletes an entry
\* that it read earlier, never takes the entry of a file that was stored since.
CacheMatchesTable ==
    mutex = Nobody =>
        \A a \in Artifacts : (file[Cached(a)] # NoFile) <=> (Entry(a) # {})

\* UNIQUE(source_id, version) is never at risk: no two Stores create an entry for
\* one artifact, although Store looks for one long before it creates one, and
\* downloads of the artifact end in several distributions at once.
OneEntryPerArtifact == \A a \in Artifacts : Cardinality(Entry(a)) <= 1

\* "evict removes old cache entries to keep total size under MaxSizeGB"
\* (download/cache.go:143): it does, whenever no Store is going on.
CacheWithinLimit == mutex = Nobody => Fits

\* "CopyToDistribution copies a cached artifact to a distribution's artifact
\* path" (download/cache.go:138): after a copy from the cache that is about to be
\* shown as a completed download, what the distribution has is all of the
\* artifact, unless it was deleted since.
HitIsWhole ==
    \A p \in Procs :
        pc[p] = "row" /\ loc[p].why = "hit" => file[loc[p].key] \in whole \cup {NoFile}

=============================================================================
