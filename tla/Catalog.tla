------------------------------ MODULE Catalog ------------------------------
(***************************************************************************)
(* The model catalog and the metadata cache behind it: model_catalog.rs,   *)
(* model_cache.rs, model_scan.rs and the file commands of model_files.rs.  *)
(* Catalog merges, header scans, finished downloads and file commands work *)
(* on one cache file, each change a load, an edit and a save under a lock; *)
(* readers take no lock.  A file is known by the version of its contents,  *)
(* which is also its time stamp; header facts are the version read.        *)
(***************************************************************************)
EXTENDS Naturals, Sequences, FiniteSets, SequencesExt

CONSTANTS LibFiles,      \* model files, numbered in directory order
          ModelFiles,    \* [model -> its files]: the shards its names declare
          Shelves,       \* possible [model -> number of its library path]
          CatKey,        \* [model -> author|name|quant]
          OnHub,         \* models two folders deep, which name a repository
          ScanJobs,      \* scan commands, numbered from 1
          PendingLimit,  \* scans held back before they are written: 32
          MaxVersions, MaxLibOps   \* bounds: versions; operations begun
LibModels == DOMAIN ModelFiles
ASSUME CatalogBounds ==
    /\ LibFiles \subseteq Nat \ {0} /\ ScanJobs \subseteq Nat \ {0} /\ IsFiniteSet(LibModels)
    /\ {PendingLimit, MaxVersions} \subseteq Nat \ {0}
    /\ \A s \in Shelves : s \in [LibModels -> Nat]
    /\ \A m \in LibModels : ModelFiles[m] \subseteq LibFiles /\ ModelFiles[m] # {} /\ IsFiniteSet(ModelFiles[m])
    /\ \A m, n \in LibModels : m # n => ModelFiles[m] \cap ModelFiles[n] = {}

VARIABLES
    shelf,        \* the library path of each model
    libFiles,     \* contents of each file: its version, 0 when there is none
    libParts,     \* files with a .part beside them
    versions,     \* versions handed out
    fetches,      \* downloads: what the batch of each model does
    modelCache,   \* model_cache.json
    cacheWriter,  \* CACHE_WRITE_LOCK: its holder and the map it has loaded
    pendingScans, \* PENDING_SCANS
    scans,        \* scan_model_metadata_cmd; job 0 is flush_cached
    fileJob,      \* delete_model_file_cmd, rename_model_file_cmd
    merge,        \* merge_catalogs
    catalogRows, catalogConflicts,   \* its result
    libOps,       \* operations begun
    \* history: the scan last stored for each file; files that changed
    \* between the read and the store; what the last merge could see
    lastStored, racedScans, walked

diskVarsOfLib == <<shelf, libFiles, libParts, versions, fetches>>
cacheVars == <<modelCache, cacheWriter, lastStored, racedScans>>
mergeVars == <<merge, catalogRows, catalogConflicts, walked>>
catalogVars == <<diskVarsOfLib, cacheVars, pendingScans, scans, fileJob, mergeVars, libOps>>

NoEntry == [meta |-> 0, mtime |-> 0, shape |-> 0, hf |-> "none"]
EmptyCache == [f \in LibFiles |-> NoEntry]
NoWriter == [who |-> "nobody", id |-> 0, held |-> EmptyCache]
NoFetch == [pc |-> "none", file |-> 0]
NoScan == [pc |-> "idle", file |-> 0, version |-> 0, items |-> <<>>]
NoFileJob == [pc |-> "idle", file |-> 0, to |-> 0]
NoMerge == [pc |-> "idle", excluded |-> {}, kept |-> {}, heals |-> <<>>, snap |-> EmptyCache, due |-> {}]

CatalogInit ==
    /\ shelf \in Shelves
    /\ libFiles \in [LibFiles -> 0..1] /\ \A f \in LibFiles : libFiles[f] = 1 => \A m \in LibModels :
           f \in ModelFiles[m] => \A g \in ModelFiles[m] : libFiles[g] = 1
    /\ libParts = {} /\ versions = 1 /\ fetches = [m \in LibModels |-> NoFetch]
    /\ modelCache = EmptyCache /\ cacheWriter = NoWriter /\ pendingScans = <<>>
    /\ scans = [j \in ScanJobs \cup {0} |-> NoScan] /\ fileJob = NoFileJob
    /\ merge = NoMerge /\ catalogRows = {} /\ catalogConflicts = {}
    /\ libOps = 0
    /\ lastStored = [f \in LibFiles |-> 0] /\ racedScans = {} /\ walked = {}

OpBegins == libOps < MaxLibOps /\ libOps' = libOps + 1

-----------------------------------------------------------------------------
(* model_cache.rs *)

\* with_cache_write: the lock and the load; the file is rewritten in place.
TakesCache(who, id) ==
    /\ cacheWriter = NoWriter
    /\ cacheWriter' = [who |-> who, id |-> id, held |-> modelCache]
Holds(who, id) == cacheWriter # NoWriter /\ cacheWriter.who = who /\ cacheWriter.id = id
SavesCache(new) == modelCache' = new /\ cacheWriter' = NoWriter

\* A reader takes no lock: while the file is rewritten it may find no map.
Reads(cache) == cache = modelCache \/ (cacheWriter # NoWriter /\ cache = EmptyCache)

Fresh(cache, f) == cache[f].meta # 0 /\ (libFiles[f] # 0 => libFiles[f] = cache[f].mtime)

\* A scan's metadata with the time stamp the file has now; the rest stays.
\* Of several scans of a file the last one counts; 0: there is none.
LastOf(items, f) == LET of == {k \in DOMAIN items : items[k][1] = f} IN IF of = {} THEN 0 ELSE Max(of)
InsertAll(cache, items) ==
    [f \in LibFiles |-> LET k == LastOf(items, f) IN
        IF k = 0 THEN cache[f] ELSE [cache[f] EXCEPT !.meta = items[k][2], !.mtime = libFiles[f]]]
WithHf(cache, f, hf) == [cache EXCEPT ![f].hf = hf]
\* Only entries that are still there get the shapes: heals is [file -> shape].
WithShapes(cache, heals) ==
    [f \in LibFiles |-> IF f \in DOMAIN heals /\ cache[f] # NoEntry THEN [cache[f] EXCEPT !.shape = heals[f]]
                        ELSE cache[f]]

ClearCache ==
    /\ OpBegins /\ modelCache # EmptyCache
    /\ modelCache' = EmptyCache /\ lastStored' = [f \in LibFiles |-> 0]
    /\ UNCHANGED <<diskVarsOfLib, cacheWriter, racedScans, pendingScans, scans, fileJob, mergeVars>>

-----------------------------------------------------------------------------
(* Scans *)

ScanAt(j, pc) == scans' = [scans EXCEPT ![j].pc = pc]

ScanReads(j, f) ==
    /\ j \in ScanJobs /\ scans[j] = NoScan /\ libFiles[f] # 0 /\ OpBegins
    /\ scans' = [scans EXCEPT ![j] = [NoScan EXCEPT !.pc = "read", !.file = f, !.version = libFiles[f]]]
    /\ UNCHANGED <<diskVarsOfLib, cacheVars, pendingScans, fileJob, mergeVars>>

ScanBuffers(j) ==   \* set_cached_buffered, set_cached
    /\ scans[j].pc = "read"
    /\ LET item == <<scans[j].file, scans[j].version>>
           all  == Append(pendingScans, item) IN
       \/ /\ Len(all) < PendingLimit
          /\ pendingScans' = all /\ ScanAt(j, "back")
       \/ /\ Len(all) = PendingLimit
          /\ pendingScans' = <<>> /\ scans' = [scans EXCEPT ![j].pc = "storing", ![j].items = all]
       \/ /\ scans' = [scans EXCEPT ![j].pc = "storing", ![j].items = <<item>>]
          /\ UNCHANGED pendingScans
    /\ UNCHANGED <<diskVarsOfLib, cacheVars, fileJob, mergeVars, libOps>>

Flush ==   \* flush_cached: the end of a library scan, begin_shutdown
    /\ scans[0] = NoScan /\ pendingScans # <<>>
    /\ scans' = [scans EXCEPT ![0].pc = "storing", ![0].items = pendingScans]
    /\ pendingScans' = <<>>
    /\ UNCHANGED <<diskVarsOfLib, cacheVars, fileJob, mergeVars, libOps>>

ScanTakes(j) ==
    /\ scans[j].pc \in {"storing", "healing"} /\ TakesCache("scan", j)
    /\ UNCHANGED <<diskVarsOfLib, modelCache, lastStored, racedScans, pendingScans, scans, fileJob, mergeVars, libOps>>

ScanStores(j) ==   \* set_cached_batch
    /\ scans[j].pc = "storing" /\ Holds("scan", j)
    /\ SavesCache(InsertAll(cacheWriter.held, scans[j].items))
    /\ LET items == scans[j].items
           last(f) == LastOf(items, f) IN
       /\ lastStored' = [f \in LibFiles |-> IF last(f) = 0 THEN lastStored[f] ELSE items[last(f)][2]]
       /\ racedScans' = {f \in LibFiles : IF last(f) = 0 THEN f \in racedScans ELSE libFiles[f] # items[last(f)][2]}
    /\ scans' = [scans EXCEPT ![j] = IF j = 0 THEN NoScan ELSE [@ EXCEPT !.pc = "back", !.items = <<>>]]
    /\ UNCHANGED <<diskVarsOfLib, pendingScans, fileJob, mergeVars, libOps>>

\* get_cached_with_shape of the scan's own row.
ScanReadsBack(j) ==
    /\ scans[j].pc = "back"
    /\ \E cache \in {modelCache, EmptyCache} :
          /\ Reads(cache)
          /\ LET f == scans[j].file IN
             IF Fresh(cache, f) /\ cache[f].shape = 0 /\ libFiles[f] # 0
             THEN scans' = [scans EXCEPT ![j].pc = "healing", ![j].version = libFiles[f]]
             ELSE scans' = [scans EXCEPT ![j] = NoScan]
    /\ UNCHANGED <<diskVarsOfLib, cacheVars, pendingScans, fileJob, mergeVars, libOps>>

ScanHeals(j) ==   \* apply_shapes
    /\ scans[j].pc = "healing" /\ Holds("scan", j)
    /\ SavesCache(WithShapes(cacheWriter.held, [f \in {scans[j].file} |-> scans[j].version]))
    /\ scans' = [scans EXCEPT ![j] = NoScan]
    /\ UNCHANGED <<diskVarsOfLib, lastStored, racedScans, pendingScans, fileJob, mergeVars, libOps>>

-----------------------------------------------------------------------------
(* The library's files *)

Version == versions < MaxVersions /\ versions' = versions + 1

\* A download has a .part beside each of its files; once all are ready they
\* are renamed one by one, each followed by its repository's metadata.
FetchBegins(m) ==
    /\ fetches[m] = NoFetch /\ OpBegins /\ Cardinality(ModelFiles[m]) <= MaxVersions - versions
    /\ fetches' = [fetches EXCEPT ![m].pc = "loading"] /\ libParts' = libParts \cup ModelFiles[m]
    /\ UNCHANGED <<shelf, libFiles, versions, cacheVars, pendingScans, scans, fileJob, mergeVars>>

FetchLands(m) ==   \* finalize_part_on_disk
    /\ fetches[m].pc = "loading" /\ Version
    /\ LET f == Min(libParts \cap ModelFiles[m]) IN
       /\ libFiles' = [libFiles EXCEPT ![f] = versions'] /\ libParts' = libParts \ {f}
       /\ fetches' = [fetches EXCEPT ![m] = [pc |-> "storing", file |-> f]]
    /\ UNCHANGED <<shelf, cacheVars, pendingScans, scans, fileJob, mergeVars, libOps>>

FetchTakes(m) ==
    /\ fetches[m].pc = "storing" /\ TakesCache("fetch", Min(ModelFiles[m]))
    /\ UNCHANGED <<diskVarsOfLib, modelCache, lastStored, racedScans, pendingScans, scans, fileJob, mergeVars, libOps>>

FetchPairs(m) ==   \* set_hf_metadata
    /\ fetches[m].pc = "storing" /\ Holds("fetch", Min(ModelFiles[m]))
    /\ SavesCache(WithHf(cacheWriter.held, fetches[m].file, "hub"))
    /\ fetches' = [fetches EXCEPT ![m] = IF libParts \cap ModelFiles[m] = {} THEN NoFetch
                                         ELSE [pc |-> "loading", file |-> 0]]
    /\ UNCHANGED <<shelf, libFiles, libParts, versions, lastStored, racedScans, pendingScans, scans, fileJob, mergeVars, libOps>>

\* The metadata editor rewrites a file in place.
FilePatched(f) ==
    /\ libFiles[f] # 0 /\ Version /\ OpBegins
    /\ libFiles' = [libFiles EXCEPT ![f] = versions']
    /\ UNCHANGED <<shelf, libParts, fetches, cacheVars, pendingScans, scans, fileJob, mergeVars>>

\* delete_model_file_cmd (no new name) and rename_model_file_cmd.
FileMoves(f, to) ==
    /\ fileJob = NoFileJob /\ libFiles[f] # 0 /\ OpBegins
    /\ to # 0 => libFiles[to] = 0
    /\ libFiles' = [g \in LibFiles |-> CASE g = f -> 0 [] g = to -> libFiles[f] [] OTHER -> libFiles[g]]
    /\ fileJob' = [pc |-> "storing", file |-> f, to |-> to]
    /\ UNCHANGED <<shelf, libParts, versions, fetches, cacheVars, pendingScans, scans, mergeVars>>

FileJobTakes ==
    /\ fileJob # NoFileJob /\ TakesCache("file", 0)
    /\ UNCHANGED <<diskVarsOfLib, modelCache, lastStored, racedScans, pendingScans, scans, fileJob, mergeVars, libOps>>

\* remove_cached and rename_cached_path: an unknown file leaves the target's entry.
EntryMoves(of, f, to, none) ==
    [g \in LibFiles |-> IF g = f THEN none ELSE IF g = to THEN of[f] ELSE of[g]]
FileJobStores ==
    /\ Holds("file", 0)
    /\ LET f == fileJob.file
           to == fileJob.to
           moves == to = 0 \/ cacheWriter.held[f] # NoEntry IN
       IF moves
       THEN /\ SavesCache(EntryMoves(cacheWriter.held, f, to, NoEntry))
            /\ lastStored' = EntryMoves(lastStored, f, to, 0)
            /\ racedScans' = (racedScans \ {f, to}) \cup (IF f \in racedScans /\ to # 0 THEN {to} ELSE {})
       ELSE SavesCache(cacheWriter.held) /\ UNCHANGED <<lastStored, racedScans>>
    /\ fileJob' = NoFileJob
    /\ UNCHANGED <<diskVarsOfLib, pendingScans, scans, mergeVars, libOps>>

-----------------------------------------------------------------------------
(* The merge *)

\* list_models passes the active downloads, every other caller nothing.
MergeBegins(excludes) ==
    /\ merge = NoMerge /\ OpBegins
    /\ merge' = [NoMerge EXCEPT !.pc = "walk",
                     !.excluded = IF excludes THEN {m \in LibModels : fetches[m] # NoFetch} ELSE {}]
    /\ UNCHANGED <<diskVarsOfLib, cacheVars, pendingScans, scans, fileJob, catalogRows, catalogConflicts, walked>>

\* collect_gguf_files passes over a file with a .part beside it.
Visible(m) == {f \in ModelFiles[m] : libFiles[f] # 0 /\ f \notin libParts}
\* drop_incomplete_shard_sets, drop_in_progress_downloads
Listable == {m \in LibModels : Visible(m) = ModelFiles[m] /\ m \notin merge.excluded}

\* The models in the order of the merge: paths in order, each path's in any.
Orders(models) == {s \in SetToSeqs(models) : \A i, j \in DOMAIN s : i < j => shelf[s[i]] <= shelf[s[j]]}
\* Of one key the first path stays, and in a path the larger; a model of
\* another path is reported.
Bytes(m) == Cardinality(ModelFiles[m])
AddModel(acc, m) ==
    LET rivals == {k \in acc.kept : CatKey[k] = CatKey[m]}
        rival  == CHOOSE k \in rivals : TRUE IN
    CASE rivals = {} -> [acc EXCEPT !.kept = @ \cup {m}]
      [] rivals # {} /\ shelf[rival] # shelf[m] -> [acc EXCEPT !.conflicts = @ \cup {<<rival, m>>}]
      [] rivals # {} /\ shelf[rival] = shelf[m] /\ Bytes(m) > Bytes(rival) ->
             [acc EXCEPT !.kept = (@ \ {rival}) \cup {m}]
      [] OTHER -> acc

Merged(order) ==
    LET first[i \in 0..Len(order)] == IF i = 0 THEN [kept |-> {}, conflicts |-> {}]
                                      ELSE AddModel(first[i - 1], order[i])
    IN first[Len(order)]

MergeWalks ==
    /\ merge.pc = "walk"
    /\ \E order \in Orders(Listable) :
          /\ merge' = [merge EXCEPT !.pc = "read", !.kept = Merged(order).kept]
          /\ catalogConflicts' = Merged(order).conflicts
    /\ walked' = Listable
    /\ UNCHANGED <<diskVarsOfLib, cacheVars, pendingScans, scans, fileJob, catalogRows, libOps>>

Row(m) == Min(ModelFiles[m])   \* a model goes by its first shard
\* ensure_shape_in_cache
ShapeOf(cache, f) == IF cache[f].shape # 0 \/ cache[f].meta = 0 THEN cache[f].shape ELSE libFiles[f]

\* The cache is loaded once; rows get their metadata from that map.
MergeReads ==
    /\ merge.pc = "read"
    /\ \E cache \in {modelCache, EmptyCache} :
          /\ Reads(cache)
          /\ LET files == {Row(m) : m \in merge.kept}
                 heals == {f \in files : ShapeOf(cache, f) # 0 /\ ~(Fresh(cache, f) /\ cache[f].shape # 0)} IN
             /\ merge' = [merge EXCEPT
                    !.pc = IF heals = {} THEN "pair" ELSE "heal",
                    !.snap = cache,
                    !.heals = [f \in heals |-> ShapeOf(cache, f)],
                    !.due = {Row(m) : m \in {n \in merge.kept \cap OnHub : cache[Row(n)].hf = "none"}}]
             /\ catalogRows' = {[model |-> m, meta |-> IF Fresh(cache, Row(m)) THEN cache[Row(m)].meta ELSE 0,
                                 hf |-> cache[Row(m)].hf] : m \in merge.kept}
    /\ UNCHANGED <<diskVarsOfLib, cacheVars, pendingScans, scans, fileJob, catalogConflicts, walked, libOps>>

MergeTakes ==
    /\ merge.pc = "heal" \/ (merge.pc = "pair" /\ merge.due # {})
    /\ TakesCache("merge", 0)
    /\ UNCHANGED <<diskVarsOfLib, modelCache, lastStored, racedScans, pendingScans, scans, fileJob, mergeVars, libOps>>

MergeHealsItsCopy ==   \* variant: the map of the merge is written back
    /\ merge.pc = "heal" /\ Holds("merge", 0)
    /\ SavesCache(WithShapes(merge.snap, merge.heals)) /\ merge' = [merge EXCEPT !.pc = "pair"]
    /\ UNCHANGED <<diskVarsOfLib, lastStored, racedScans, pendingScans, scans, fileJob, catalogRows, catalogConflicts, walked, libOps>>
MergeHeals ==   \* apply_shapes
    /\ merge.pc = "heal" /\ Holds("merge", 0)
    /\ SavesCache(WithShapes(cacheWriter.held, merge.heals)) /\ merge' = [merge EXCEPT !.pc = "pair"]
    /\ UNCHANGED <<diskVarsOfLib, lastStored, racedScans, pendingScans, scans, fileJob, catalogRows, catalogConflicts, walked, libOps>>

\* The pairing by folder replaces whatever the cache has come to hold.
MergePairs(f) ==
    /\ merge.pc = "pair" /\ f \in merge.due /\ Holds("merge", 0)
    /\ SavesCache(WithHf(cacheWriter.held, f, "folder")) /\ merge' = [merge EXCEPT !.due = @ \ {f}]
    /\ UNCHANGED <<diskVarsOfLib, lastStored, racedScans, pendingScans, scans, fileJob, catalogRows, catalogConflicts, walked, libOps>>

MergeEnds ==
    /\ merge.pc = "pair" /\ merge.due = {} /\ merge' = NoMerge
    /\ UNCHANGED <<diskVarsOfLib, cacheVars, pendingScans, scans, fileJob, catalogRows, catalogConflicts, walked, libOps>>

-----------------------------------------------------------------------------
(* check_hf_files_against_disk, for the first file of a model *)

NamedAs(m) == {n \in LibModels : Visible(n) # {} /\ Min(Visible(n)) = Row(m)}
LabelledAs(m) == {n \in LibModels : Visible(n) # {} /\ CatKey[n] = CatKey[m]}
DiskCheck(m) ==
    CASE modelCache[Row(m)].hf = "hub" -> "lfs"
      [] modelCache[Row(m)].hf # "hub" /\ NamedAs(m) # {} ->
             IF Visible(m) = ModelFiles[m] THEN "size" ELSE "mismatch"
      [] modelCache[Row(m)].hf # "hub" /\ NamedAs(m) = {} /\ LabelledAs(m) # {} ->
             IF \E n \in LabelledAs(m) : Cardinality(Visible(n)) = Bytes(m) THEN "size" ELSE "mismatch"
      [] OTHER -> "none"

-----------------------------------------------------------------------------
MergeStep == \/ \E excludes \in BOOLEAN : MergeBegins(excludes)
             \/ MergeWalks \/ MergeReads \/ MergeTakes \/ MergeHeals \/ MergeEnds
             \/ \E f \in LibFiles : MergePairs(f)
ScanStep == \/ \E j \in ScanJobs, f \in LibFiles : ScanReads(j, f)
            \/ \E j \in ScanJobs : ScanBuffers(j) \/ ScanReadsBack(j) \/ ScanHeals(j)
            \/ \E j \in ScanJobs \cup {0} : ScanTakes(j) \/ ScanStores(j)
            \/ Flush
FileStep == \/ \E m \in LibModels : FetchBegins(m) \/ FetchLands(m) \/ FetchTakes(m) \/ FetchPairs(m)
            \/ \E f \in LibFiles : FilePatched(f)
            \/ \E f \in LibFiles, to \in LibFiles \cup {0} : FileMoves(f, to)
            \/ FileJobTakes \/ FileJobStores
CatalogNext == MergeStep \/ ScanStep \/ FileStep \/ ClearCache
CatalogSpec == CatalogInit /\ [][CatalogNext]_catalogVars

-----------------------------------------------------------------------------
(* Types and promises *)

CatalogTypeOK ==
    /\ libFiles \in [LibFiles -> 0..MaxVersions] /\ libParts \subseteq LibFiles
    /\ modelCache \in [LibFiles -> [meta : 0..MaxVersions, mtime : 0..MaxVersions,
                                    shape : 0..MaxVersions, hf : {"none", "folder", "hub"}]]
    /\ Len(pendingScans) < PendingLimit

\* A stored scan stays until its file is scanned again, moved or deleted or
\* the cache is cleared, whatever merges and downloads do meanwhile.
ScansAreKept == \A f \in LibFiles : lastStored[f] # 0 => modelCache[f].meta = lastStored[f]

\* A fresh entry describes the file that is there, across downloads, edits
\* and renames, unless the file changed between its scan and the store.
FreshIsCurrent ==
    \A f \in LibFiles : libFiles[f] # 0 /\ Fresh(modelCache, f) =>
        modelCache[f].meta = libFiles[f] \/ f \in racedScans

\* A complete model the merge could see is in the catalog, or one with its
\* key is: from the same path, or the two are reported.
DuplicatesAreTold ==
    merge.pc # "walk" => \A m \in walked : \/ merge.pc = "read" /\ m \in merge.kept
                                           \/ merge.pc # "read" /\ \E r \in catalogRows : r.model = m
                                           \/ \E k \in walked : /\ k # m /\ CatKey[k] = CatKey[m]
                                                                /\ \/ shelf[k] = shelf[m] /\ Bytes(k) >= Bytes(m)
                                                                   \/ <<k, m>> \in catalogConflicts

\* The check of a repository calls no complete model missing.
PresentIsNotMissing == \A m \in LibModels : Visible(m) = ModelFiles[m] => DiskCheck(m) \in {"lfs", "size"}

CatalogInv == CatalogTypeOK /\ ScansAreKept /\ FreshIsCurrent /\ DuplicatesAreTold /\ PresentIsNotMissing
=============================================================================
