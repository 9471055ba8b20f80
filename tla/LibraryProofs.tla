--------------------------- MODULE LibraryProofs ---------------------------
(***************************************************************************)
(* Proofs about the model library of MCStores, for every set of files,     *)
(* versions and scans, and every set of revisions of the Hub, header and   *)
(* weight lengths and concurrent patches: the catalog and its cache stay   *)
(* true to the files (CatalogInd), and a file updated by its header alone  *)
(* keeps its weights behind a whole header (PatchInd).                     *)
(***************************************************************************)
EXTENDS MCStores, WellFoundedInduction, SequenceTheorems, FiniteSetTheorems, TLAPS

-----------------------------------------------------------------------------
(* The model catalog *)

Stamps == 0 .. MaxVersions
CacheEntries == [meta : Stamps, mtime : Stamps, shape : Stamps, hf : {"none", "folder", "hub"}]
Caches == [LibFiles -> CacheEntries]
Scanned == LibFiles \X (Stamps \ {0})
ScanItems == Seq(Scanned)
ScanRecs == [pc : {"idle", "read", "storing", "back", "healing"}, file : LibFiles \cup {0}, version : Stamps,
             items : ScanItems]

ScansHaveFiles == \A j \in ScanJobs :
    /\ scans[j].pc # "idle" => scans[j].file \in LibFiles
    /\ scans[j].pc = "read" => scans[j].version # 0
FileJobHasFile ==
    /\ fileJob.file \in LibFiles \cup {0} /\ fileJob.to \in LibFiles \cup {0}
    /\ fileJob # NoFileJob \/ cacheWriter.who = "file" => fileJob.file \in LibFiles
CatalogTypes ==
    /\ shelf \in Shelves /\ libFiles \in [LibFiles -> Stamps] /\ libParts \subseteq LibFiles /\ versions \in Stamps
    /\ modelCache \in Caches /\ cacheWriter.held \in Caches
    /\ pendingScans \in Seq(Scanned) /\ Len(pendingScans) < PendingLimit
    /\ scans \in [ScanJobs \cup {0} -> ScanRecs]
    /\ ScansHaveFiles
    /\ FileJobHasFile
    /\ \A f \in LibFiles \cap DOMAIN merge.heals : merge.heals[f] \in Stamps
    /\ DOMAIN merge = {"pc", "excluded", "kept", "heals", "snap", "due"}
    /\ lastStored \in [LibFiles -> Stamps] /\ racedScans \subseteq LibFiles

\* What the cache file holds, and what a writer has loaded and will save.
HoldsScans(map) == \A f \in LibFiles : lastStored[f] # 0 => map[f].meta = lastStored[f]
HoldsItsTime(map) ==
    \A f \in LibFiles : map[f].mtime # 0 => map[f].meta = map[f].mtime \/ f \in racedScans
HoldsTrue(map) == HoldsScans(map) /\ HoldsItsTime(map)

CatalogInd ==
    /\ CatalogTypes /\ HoldsTrue(modelCache) /\ (cacheWriter # NoWriter => HoldsTrue(cacheWriter.held))
    /\ DuplicatesAreTold

\* A nonempty set of numbers up to n has a greatest one.
LEMMA Greatest ==
    ASSUME NEW n \in Nat, NEW S, S \subseteq 1 .. n, S # {}
    PROVE  Max(S) \in S
<1> DEFINE U == {u \in Nat : \A x \in S : x <= u}
<1>1. n \in U OBVIOUS
<1>2. U \subseteq Nat /\ U # {} BY <1>1
<1> HIDE DEF U
<1>3. PICK u \in U : \A y \in U : ~(<<y, u>> \in OpToRel(<, Nat)) BY <1>2, NatLessThanWellFounded, WFMin
<1>4. u \in Nat /\ \A x \in S : x <= u BY <1>3 DEF U
<1>5. u \in S
  <2>1. SUFFICES ASSUME u \notin S PROVE FALSE OBVIOUS
  <2>2. PICK z \in S : TRUE OBVIOUS
  <2>3. u >= 1 BY <1>4, <2>2
  <2>4. u - 1 \in U
    <3>1. \A x \in S : x \in Nat /\ x <= u /\ x # u BY <1>4, <2>1
    <3>2. \A x \in S : x <= u - 1 BY <3>1, <1>4
    <3> QED BY <3>2, <2>3, <1>4 DEF U
  <2>5. <<u - 1, u>> \in OpToRel(<, Nat) BY <2>3, <1>4 DEF OpToRel
  <2> QED BY <1>3, <2>4, <2>5
<1>6. \A x \in S : u >= x BY <1>4
<1> QED BY <1>5, <1>6 DEF Max

\* The last scan of a file among several is one of them, and of that file.
LEMMA LastIsOne ==
    \A items \in Seq(Scanned), f \in LibFiles : LastOf(items, f) # 0 =>
        LET k == LastOf(items, f) IN
        k \in DOMAIN items /\ items[k][1] = f /\ items[k][2] \in Stamps \ {0}
<1> TAKE items \in Seq(Scanned), f \in LibFiles
<1> DEFINE S == {k \in DOMAIN items : items[k][1] = f}
<1>1. LastOf(items, f) = IF S = {} THEN 0 ELSE Max(S) BY DEF LastOf
<1>2. S # {} => Max(S) \in S
  <2>1. Len(items) \in Nat /\ S \subseteq 1 .. Len(items) OBVIOUS
  <2> HIDE DEF S
  <2> QED BY <2>1, Greatest
<1>3. \A k \in DOMAIN items : items[k] \in Scanned OBVIOUS
<1>4. \A x \in Scanned : x[2] \in Stamps \ {0} BY DEF Scanned
<1> QED BY <1>1, <1>2, <1>3, <1>4

LEMMA CatalogValues == Stamps \subseteq Nat /\ 0 \in Stamps /\ 1 \in Stamps
BY CatalogBounds DEF Stamps

LEMMA CacheValues == EmptyCache \in Caches /\ NoScan \in ScanRecs /\ NoWriter.held = EmptyCache
<1>1. <<>> \in ScanItems BY DEF ScanItems
<1> QED BY CatalogValues, <1>1 DEF EmptyCache, Caches, NoEntry, CacheEntries, NoScan, ScanRecs, NoWriter

\* What the edits of the cache make of a map.
LEMMA InsertsAll ==
    ASSUME NEW map \in Caches, NEW items \in Seq(Scanned), libFiles \in [LibFiles -> Stamps]
    PROVE  /\ InsertAll(map, items) \in Caches
           /\ \A f \in LibFiles : LET k == LastOf(items, f)  e == InsertAll(map, items)[f] IN
                IF k = 0 THEN e = map[f] ELSE e.meta = items[k][2] /\ e.mtime = libFiles[f]
<1> DEFINE new == InsertAll(map, items)
<1>1. \A f \in LibFiles : LET k == LastOf(items, f) IN
         new[f] = IF k = 0 THEN map[f] ELSE [map[f] EXCEPT !.meta = items[k][2], !.mtime = libFiles[f]]
  BY DEF InsertAll
<1>2. new = [f \in LibFiles |-> new[f]] BY DEF InsertAll
<1> HIDE DEF new
<1>3. ASSUME NEW f \in LibFiles
      PROVE  /\ new[f] \in CacheEntries
             /\ LET k == LastOf(items, f) IN
                IF k = 0 THEN new[f] = map[f] ELSE new[f].meta = items[k][2] /\ new[f].mtime = libFiles[f]
  <2>1. map[f] \in CacheEntries /\ libFiles[f] \in Stamps BY DEF Caches
  <2>2. CASE LastOf(items, f) = 0 BY <2>1, <2>2, <1>1
  <2>3. CASE LastOf(items, f) # 0
    <3>1. PICK k : k = LastOf(items, f) OBVIOUS
    <3>2. items[k][2] \in Stamps BY <3>1, <2>3, LastIsOne
    <3>3. new[f] = [map[f] EXCEPT !.meta = items[k][2], !.mtime = libFiles[f]] BY <3>1, <2>3, <1>1
    <3>4. k # 0 BY <3>1, <2>3
    <3> QED BY <3>1, <3>2, <3>3, <3>4, <2>1 DEF CacheEntries
  <2> QED BY <2>2, <2>3
<1>4. new \in Caches BY <1>2, <1>3 DEF Caches
<1> QED BY <1>3, <1>4 DEF new

LEMMA PairsWith ==
    ASSUME NEW map \in Caches, NEW f, NEW hf \in {"folder", "hub"}
    PROVE  /\ WithHf(map, f, hf) \in Caches
           /\ \A g \in LibFiles : /\ WithHf(map, f, hf)[g].meta = map[g].meta
                                  /\ WithHf(map, f, hf)[g].mtime = map[g].mtime
<1>1. \A g \in LibFiles : map[g] \in CacheEntries BY DEF Caches
<1>2. WithHf(map, f, hf) = [g \in LibFiles |-> IF g = f THEN [map[g] EXCEPT !.hf = hf] ELSE map[g]]
  BY DEF WithHf, Caches
<1> QED BY <1>1, <1>2 DEF Caches, CacheEntries

LEMMA ShapesWith ==
    ASSUME NEW map \in Caches, NEW heals, \A f \in LibFiles \cap DOMAIN heals : heals[f] \in Stamps
    PROVE  /\ WithShapes(map, heals) \in Caches
           /\ \A g \in LibFiles : /\ WithShapes(map, heals)[g].meta = map[g].meta
                                  /\ WithShapes(map, heals)[g].mtime = map[g].mtime
<1>1. \A g \in LibFiles : map[g] \in CacheEntries BY DEF Caches
<1>2. \A g \in LibFiles : g \in DOMAIN heals => heals[g] \in Stamps OBVIOUS
<1>3. WithShapes(map, heals) = [g \in LibFiles |-> IF g \in DOMAIN heals /\ map[g] # NoEntry
                                                   THEN [map[g] EXCEPT !.shape = heals[g]] ELSE map[g]]
  BY DEF WithShapes
<1> QED BY <1>1, <1>2, <1>3 DEF Caches, CacheEntries

LEMMA CatalogStarts == CatalogInit => CatalogInd
<1> SUFFICES ASSUME CatalogInit PROVE CatalogInd OBVIOUS
<1>1. CatalogTypes
  <2>1. libFiles \in [LibFiles -> Stamps] BY CatalogValues DEF CatalogInit, Stamps
  <2>2. <<>> \in Seq(Scanned) /\ Len(<<>>) = 0 /\ 0 < PendingLimit BY CatalogBounds
  <2>3. lastStored \in [LibFiles -> Stamps] BY CatalogValues DEF CatalogInit
  <2> QED BY <2>1, <2>2, <2>3, CatalogValues, CacheValues
          DEF CatalogInit, CatalogTypes, FileJobHasFile, ScansHaveFiles, NoScan, NoWriter, NoFileJob, NoMerge
<1>2. HoldsTrue(modelCache) BY DEF CatalogInit, HoldsTrue, HoldsScans, HoldsItsTime, EmptyCache, NoEntry
<1>3. DuplicatesAreTold BY DEF CatalogInit, DuplicatesAreTold
<1> QED BY <1>1, <1>2, <1>3 DEF CatalogInd, CatalogInit

\* What the invariant says implies the promises about the cache.
LEMMA CatalogPromises == CatalogInd => CatalogInv
<1> SUFFICES ASSUME CatalogInd PROVE CatalogInv OBVIOUS
<1>1. CatalogTypeOK BY DEF CatalogInd, CatalogTypes, CatalogTypeOK, Stamps, Caches, CacheEntries
<1>2. ScansAreKept BY DEF CatalogInd, HoldsTrue, HoldsScans, ScansAreKept
<1>3. FreshIsCurrent BY DEF CatalogInd, HoldsTrue, HoldsItsTime, FreshIsCurrent, Fresh
<1>4. PresentIsNotMissing
  <2> SUFFICES ASSUME NEW m \in LibModels, Visible(m) = ModelFiles[m] PROVE DiskCheck(m) \in {"lfs", "size"}
    BY DEF PresentIsNotMissing
  <2>1. ModelFiles[m] # {} BY CatalogBounds
  <2>2. m \in NamedAs(m) BY <2>1 DEF NamedAs, Row
  <2>3. NamedAs(m) # {} BY <2>2
  <2>4. CASE modelCache[Row(m)].hf = "hub" BY <2>4, <2>3 DEF DiskCheck
  <2>5. CASE modelCache[Row(m)].hf # "hub" BY <2>5, <2>3 DEF DiskCheck
  <2> QED BY <2>4, <2>5
<1> QED BY <1>1, <1>2, <1>3, <1>4 DEF CatalogInd, CatalogInv

\* A step that leaves the cache, its writer and the rows of the merge alone
\* keeps what is said of them.
LEMMA CacheUntouched ==
    ASSUME CatalogInd, UNCHANGED <<cacheVars, catalogRows, catalogConflicts, walked, shelf>>, CatalogTypes',
           merge'.pc = merge.pc, merge'.kept = merge.kept
    PROVE  CatalogInd'
<1>1. HoldsTrue(modelCache)' BY DEF CatalogInd, HoldsTrue, HoldsScans, HoldsItsTime, cacheVars
<1>2. cacheWriter' # NoWriter => HoldsTrue(cacheWriter.held)'
  BY DEF CatalogInd, HoldsTrue, HoldsScans, HoldsItsTime, cacheVars
<1>3. DuplicatesAreTold' BY DEF CatalogInd, DuplicatesAreTold, cacheVars
<1> QED BY <1>1, <1>2, <1>3 DEF CatalogInd

\* The same of one that takes the lock and loads the map, or saves a map.
LEMMA CacheTaken ==
    ASSUME CatalogInd, NEW who, NEW id, TakesCache(who, id),
           UNCHANGED <<diskVarsOfLib, modelCache, lastStored, racedScans, pendingScans, scans, fileJob, mergeVars>>,
           who = "file" => fileJob # NoFileJob
    PROVE  CatalogInd'
<1>1. cacheWriter'.held = modelCache /\ cacheWriter'.who = who BY DEF TakesCache
<1>2. CatalogTypes'
  BY <1>1 DEF CatalogInd, CatalogTypes, FileJobHasFile, ScansHaveFiles, diskVarsOfLib, mergeVars
<1>3. HoldsTrue(modelCache)' BY DEF CatalogInd, HoldsTrue, HoldsScans, HoldsItsTime
<1>4. HoldsTrue(cacheWriter.held)' BY <1>1 DEF CatalogInd, HoldsTrue, HoldsScans, HoldsItsTime
<1>5. DuplicatesAreTold' BY DEF CatalogInd, DuplicatesAreTold, mergeVars, diskVarsOfLib
<1> QED BY <1>2, <1>3, <1>4, <1>5 DEF CatalogInd

LEMMA CacheSaved ==
    ASSUME CatalogInd, cacheWriter # NoWriter, NEW new \in Caches, SavesCache(new),
           UNCHANGED <<lastStored, racedScans, catalogRows, catalogConflicts, walked, shelf>>,
           \A f \in LibFiles : new[f].meta = cacheWriter.held[f].meta /\ new[f].mtime = cacheWriter.held[f].mtime,
           UNCHANGED <<libFiles, libParts, versions, pendingScans>>,
           scans' \in [ScanJobs \cup {0} -> ScanRecs],
           ScansHaveFiles',
           UNCHANGED fileJob,
           merge'.pc = "walk" <=> merge.pc = "walk", merge'.pc = "read" <=> merge.pc = "read",
           merge'.heals = merge.heals, merge'.kept = merge.kept, DOMAIN merge' = DOMAIN merge
    PROVE  CatalogInd'
<1>1. modelCache' = new /\ cacheWriter' = NoWriter BY DEF SavesCache
<1>2. CatalogTypes'
  BY <1>1, CacheValues DEF CatalogInd, CatalogTypes, FileJobHasFile, ScansHaveFiles, NoWriter
<1>3. HoldsTrue(modelCache)' BY <1>1 DEF CatalogInd, HoldsTrue, HoldsScans, HoldsItsTime
<1>4. DuplicatesAreTold' BY DEF CatalogInd, DuplicatesAreTold
<1> QED BY <1>1, <1>2, <1>3, <1>4 DEF CatalogInd

LEMMA ClearKeeps == CatalogInd /\ ClearCache => CatalogInd'
<1> SUFFICES ASSUME CatalogInd, ClearCache PROVE CatalogInd' OBVIOUS
<1> USE DEF ClearCache
<1>1. lastStored' \in [LibFiles -> Stamps] BY CatalogValues
<1>2. CatalogTypes' BY <1>1, CacheValues DEF CatalogInd, CatalogTypes, FileJobHasFile, ScansHaveFiles, diskVarsOfLib, mergeVars
<1>3. HoldsTrue(modelCache)' BY DEF HoldsTrue, HoldsScans, HoldsItsTime, EmptyCache, NoEntry
<1>4. cacheWriter' # NoWriter => HoldsTrue(cacheWriter.held)'
  BY DEF CatalogInd, HoldsTrue, HoldsScans, HoldsItsTime
<1>5. DuplicatesAreTold' BY DEF CatalogInd, DuplicatesAreTold, mergeVars, diskVarsOfLib
<1> QED BY <1>2, <1>3, <1>4, <1>5 DEF CatalogInd

-----------------------------------------------------------------------------
(* Scans *)

\* A step of a scan that moves only the scans and what they hold back.
LEMMA ScansMove ==
    ASSUME CatalogInd, UNCHANGED <<diskVarsOfLib, cacheVars, fileJob, mergeVars>>,
           scans' \in [ScanJobs \cup {0} -> ScanRecs],
           ScansHaveFiles',
           pendingScans' \in Seq(Scanned), Len(pendingScans') < PendingLimit
    PROVE  CatalogInd'
<1>1. CatalogTypes' BY DEF CatalogInd, CatalogTypes, FileJobHasFile, diskVarsOfLib, mergeVars, cacheVars
<1> QED BY <1>1, CacheUntouched DEF diskVarsOfLib, mergeVars, cacheVars

LEMMA ScanReadsKeeps == ASSUME CatalogInd, NEW j, NEW f \in LibFiles, ScanReads(j, f) PROVE CatalogInd'
<1> USE DEF ScanReads
<1>1. libFiles[f] \in Stamps \ {0} /\ f \in LibFiles \cup {0} BY DEF CatalogInd, CatalogTypes
<1>2. scans \in [ScanJobs \cup {0} -> ScanRecs] BY DEF CatalogInd, CatalogTypes
<1>3. [NoScan EXCEPT !.pc = "read", !.file = f, !.version = libFiles[f]] \in ScanRecs
  BY <1>1, CacheValues DEF ScanRecs
<1>4. scans' \in [ScanJobs \cup {0} -> ScanRecs] BY <1>2, <1>3
<1>5. ScansHaveFiles'
  BY <1>1, <1>2 DEF CatalogInd, CatalogTypes, FileJobHasFile, ScansHaveFiles, NoScan
<1> QED BY <1>4, <1>5, ScansMove DEF CatalogInd, CatalogTypes

LEMMA ScanBuffersKeeps == ASSUME CatalogInd, NEW j \in ScanJobs, ScanBuffers(j) PROVE CatalogInd'
<1> DEFINE item == <<scans[j].file, scans[j].version>>
           all == Append(pendingScans, item)
<1>1. item \in Scanned
  BY DEF ScanBuffers, CatalogInd, CatalogTypes, FileJobHasFile, ScansHaveFiles, Scanned, ScanRecs
<1>2. scans \in [ScanJobs \cup {0} -> ScanRecs] /\ pendingScans \in Seq(Scanned) /\ Len(pendingScans) < PendingLimit
  BY DEF CatalogInd, CatalogTypes
<1>3. all \in Seq(Scanned) /\ <<item>> \in Seq(Scanned) /\ <<>> \in Seq(Scanned) /\ Len(<<>>) = 0 /\ 0 < PendingLimit
  BY <1>1, <1>2, CatalogBounds
<1> HIDE DEF item
<1>4. \E pc \in {"back", "storing"}, items \in Seq(Scanned) :
         scans' = [scans EXCEPT ![j].pc = pc, ![j].items = items]
  <2>1. CASE scans' = [scans EXCEPT ![j].pc = "back"]
    <3>1. scans[j].items \in Seq(Scanned) BY <1>2 DEF ScanRecs, ScanItems
    <3>2. scans' = [scans EXCEPT ![j].pc = "back", ![j].items = scans[j].items] BY <2>1, <1>2 DEF ScanRecs
    <3> QED BY <3>1, <3>2
  <2>2. CASE scans' # [scans EXCEPT ![j].pc = "back"] BY <2>2, <1>3 DEF ScanBuffers, ScanAt, item
  <2> QED BY <2>1, <2>2
<1>5. pendingScans' \in {all, <<>>, pendingScans} /\ (pendingScans' = all => Len(all) < PendingLimit)
  <2>1. all # <<>> /\ all # pendingScans BY <1>2, <1>3
  <2> QED BY <2>1, <1>3, <1>2 DEF ScanBuffers, ScanAt, item
<1>6. PICK pc \in {"back", "storing"}, items \in Seq(Scanned) :
         scans' = [scans EXCEPT ![j].pc = pc, ![j].items = items] BY <1>4
<1>7. scans' \in [ScanJobs \cup {0} -> ScanRecs]
  <2>1. [scans[j] EXCEPT !.pc = pc, !.items = items] \in ScanRecs
    <3>1. items \in ScanItems /\ scans[j] \in ScanRecs BY <1>6, <1>2 DEF ScanItems
    <3> QED BY <3>1 DEF ScanRecs
  <2>2. scans' = [scans EXCEPT ![j] = [scans[j] EXCEPT !.pc = pc, !.items = items]] BY <1>6, <1>2
  <2> QED BY <2>1, <2>2, <1>2
<1>8. ScansHaveFiles'
  BY <1>6, <1>2 DEF CatalogInd, CatalogTypes, ScanBuffers, ScansHaveFiles
<1>9. pendingScans' \in Seq(Scanned) /\ Len(pendingScans') < PendingLimit BY <1>5, <1>3, <1>2
<1> QED BY <1>7, <1>8, <1>9, ScansMove DEF ScanBuffers

LEMMA FlushKeeps == CatalogInd /\ Flush => CatalogInd'
<1> SUFFICES ASSUME CatalogInd, Flush PROVE CatalogInd' OBVIOUS
<1> USE DEF Flush
<1>1. scans \in [ScanJobs \cup {0} -> ScanRecs] /\ pendingScans \in Seq(Scanned) BY DEF CatalogInd, CatalogTypes
<1>2. scans' \in [ScanJobs \cup {0} -> ScanRecs]
  <2>1. [scans[0] EXCEPT !.pc = "storing", !.items = pendingScans] \in ScanRecs
    <3>1. pendingScans \in ScanItems /\ scans[0] \in ScanRecs BY <1>1 DEF ScanItems
    <3> QED BY <3>1 DEF ScanRecs
  <2>2. scans' = [scans EXCEPT ![0] = [scans[0] EXCEPT !.pc = "storing", !.items = pendingScans]] BY <1>1
  <2> QED BY <2>1, <2>2, <1>1
<1>3. ScansHaveFiles'
  BY <1>1, CatalogBounds DEF CatalogInd, CatalogTypes, FileJobHasFile, ScansHaveFiles
<1>4. <<>> \in Seq(Scanned) /\ Len(<<>>) = 0 /\ 0 < PendingLimit BY CatalogBounds
<1> QED BY <1>2, <1>3, <1>4, ScansMove

LEMMA ScanReadsBackKeeps == ASSUME CatalogInd, NEW j \in ScanJobs, ScanReadsBack(j) PROVE CatalogInd'
<1>1. scans \in [ScanJobs \cup {0} -> ScanRecs] /\ libFiles \in [LibFiles -> Stamps]
      /\ scans[j].file \in LibFiles \cup {0} BY DEF CatalogInd, CatalogTypes, ScanRecs
<1>2. \/ scans' = [scans EXCEPT ![j] = NoScan]
      \/ \E v \in Stamps : scans' = [scans EXCEPT ![j].pc = "healing", ![j].version = v]
  <2>1. PICK map \in {modelCache, EmptyCache} :
           LET f == scans[j].file IN
             IF Fresh(map, f) /\ map[f].shape = 0 /\ libFiles[f] # 0
             THEN scans' = [scans EXCEPT ![j].pc = "healing", ![j].version = libFiles[f]]
             ELSE scans' = [scans EXCEPT ![j] = NoScan] BY DEF ScanReadsBack
  <2>2. CASE scans' = [scans EXCEPT ![j] = NoScan] BY <2>2
  <2>3. CASE scans' # [scans EXCEPT ![j] = NoScan]
    <3>1. scans' = [scans EXCEPT ![j].pc = "healing", ![j].version = libFiles[scans[j].file]] BY <2>1, <2>3
    <3>2. scans[j].file \in LibFiles BY DEF ScanReadsBack, CatalogInd, CatalogTypes, FileJobHasFile, ScansHaveFiles
    <3> QED BY <3>1, <3>2, <1>1
  <2> QED BY <2>2, <2>3
<1>3. scans' \in [ScanJobs \cup {0} -> ScanRecs]
  <2>1. CASE scans' = [scans EXCEPT ![j] = NoScan] BY <2>1, <1>1, CacheValues
  <2>2. ASSUME NEW v \in Stamps, scans' = [scans EXCEPT ![j].pc = "healing", ![j].version = v]
        PROVE  scans' \in [ScanJobs \cup {0} -> ScanRecs]
    <3>1. [scans[j] EXCEPT !.pc = "healing", !.version = v] \in ScanRecs
      <4>1. scans[j] \in ScanRecs /\ v \in Stamps BY <1>1, <2>2
      <4> QED BY <4>1 DEF ScanRecs
    <3>2. scans' = [scans EXCEPT ![j] = [scans[j] EXCEPT !.pc = "healing", !.version = v]] BY <2>2, <1>1
    <3> QED BY <3>1, <3>2, <1>1
  <2> QED BY <2>1, <2>2, <1>2
<1>4. ScansHaveFiles'
  <2> SUFFICES ASSUME NEW i \in ScanJobs
               PROVE  /\ scans'[i].pc # "idle" => scans'[i].file \in LibFiles
                      /\ scans'[i].pc = "read" => scans'[i].version # 0
    BY DEF ScansHaveFiles
  <2>1. /\ scans[i].pc # "idle" => scans[i].file \in LibFiles
        /\ scans[i].pc = "read" => scans[i].version # 0
    BY DEF CatalogInd, CatalogTypes, FileJobHasFile, ScansHaveFiles
  <2>2. CASE i # j BY <2>1, <2>2, <1>1, <1>2
  <2>3. CASE i = j
    <3>1. scans[j].pc = "back" /\ scans[j] \in ScanRecs BY <1>1 DEF ScanReadsBack
    <3>2. scans'[j] = NoScan \/ (scans'[j].pc = "healing" /\ scans'[j].file = scans[j].file)
      BY <1>1, <1>2, <3>1 DEF ScanRecs
    <3> QED BY <2>1, <2>3, <3>1, <3>2 DEF NoScan
  <2> QED BY <2>2, <2>3
<1> QED BY <1>3, <1>4, ScansMove DEF CatalogInd, CatalogTypes, ScanReadsBack

LEMMA ScanStoresKeeps == ASSUME CatalogInd, NEW j \in ScanJobs \cup {0}, ScanStores(j) PROVE CatalogInd'
<1> USE DEF ScanStores
<1>1. scans \in [ScanJobs \cup {0} -> ScanRecs] /\ scans[j] \in ScanRecs /\ libFiles \in [LibFiles -> Stamps]
      /\ cacheWriter.held \in Caches /\ lastStored \in [LibFiles -> Stamps]
  BY DEF CatalogInd, CatalogTypes
<1>2. PICK items \in Seq(Scanned) : items = scans[j].items BY <1>1 DEF ScanRecs, ScanItems
<1>3. PICK map \in Caches : map = cacheWriter.held BY <1>1
<1>4. HoldsTrue(map) BY <1>3 DEF CatalogInd, Holds, HoldsTrue, HoldsScans, HoldsItsTime
<1>5. PICK new : new = InsertAll(map, items) OBVIOUS
<1>6. new \in Caches /\ \A f \in LibFiles :
         IF LastOf(items, f) = 0 THEN new[f] = map[f]
         ELSE new[f].meta = items[LastOf(items, f)][2] /\ new[f].mtime = libFiles[f]
  BY <1>1, <1>5, InsertsAll
<1>7. modelCache' = new /\ cacheWriter' = NoWriter BY <1>2, <1>3, <1>5 DEF SavesCache
<1>8. lastStored' = [f \in LibFiles |-> IF LastOf(items, f) = 0 THEN lastStored[f] ELSE items[LastOf(items, f)][2]]
  BY <1>2
<1>9. racedScans' = {f \in LibFiles : IF LastOf(items, f) = 0 THEN f \in racedScans
                                      ELSE libFiles[f] # items[LastOf(items, f)][2]}
  BY <1>2
<1>10. \A f \in LibFiles : LastOf(items, f) # 0 => items[LastOf(items, f)][2] \in Stamps BY LastIsOne
<1>11. scans' \in [ScanJobs \cup {0} -> ScanRecs]
  <2>1. [scans[j] EXCEPT !.pc = "back", !.items = <<>>] \in ScanRecs
    <3>1. <<>> \in ScanItems BY DEF ScanItems
    <3> QED BY <3>1, <1>1 DEF ScanRecs
  <2>2. scans' = [scans EXCEPT ![j] = IF j = 0 THEN NoScan ELSE [scans[j] EXCEPT !.pc = "back", !.items = <<>>]]
    BY <1>1
  <2> QED BY <2>1, <2>2, <1>1, CacheValues
<1>12. ScansHaveFiles'
  <2> SUFFICES ASSUME NEW i \in ScanJobs
               PROVE  /\ scans'[i].pc # "idle" => scans'[i].file \in LibFiles
                      /\ scans'[i].pc = "read" => scans'[i].version # 0
    BY DEF ScansHaveFiles
  <2>1. /\ scans[i].pc # "idle" => scans[i].file \in LibFiles
        /\ scans[i].pc = "read" => scans[i].version # 0
    BY DEF CatalogInd, CatalogTypes, FileJobHasFile, ScansHaveFiles
  <2>2. CASE i # j BY <2>1, <2>2, <1>1
  <2>3. CASE i = j
    <3>1. scans'[j].pc = "back" /\ scans'[j].file = scans[j].file BY <2>3, <1>1, CatalogBounds DEF ScanRecs
    <3> QED BY <2>1, <2>3, <3>1
  <2> QED BY <2>2, <2>3
<1>13. lastStored' \in [LibFiles -> Stamps] BY <1>8, <1>10, <1>1
<1>14. CatalogTypes'
  BY <1>6, <1>7, <1>9, <1>11, <1>12, <1>13, CacheValues DEF CatalogInd, CatalogTypes, FileJobHasFile, ScansHaveFiles, NoWriter, diskVarsOfLib, mergeVars
<1>15. HoldsScans(modelCache)'
  BY <1>4, <1>6, <1>7, <1>8 DEF HoldsTrue, HoldsScans
<1>16. HoldsItsTime(modelCache)'
  BY <1>4, <1>6, <1>7, <1>9 DEF HoldsTrue, HoldsItsTime
<1>17. DuplicatesAreTold' BY DEF CatalogInd, DuplicatesAreTold, mergeVars, diskVarsOfLib
<1> QED BY <1>7, <1>14, <1>15, <1>16, <1>17 DEF CatalogInd, HoldsTrue

LEMMA ScanHealsKeeps == ASSUME CatalogInd, NEW j \in ScanJobs, ScanHeals(j) PROVE CatalogInd'
<1> USE DEF ScanHeals
<1>1. scans \in [ScanJobs \cup {0} -> ScanRecs] /\ scans[j] \in ScanRecs /\ cacheWriter.held \in Caches
  BY DEF CatalogInd, CatalogTypes
<1>2. PICK heals : heals = [f \in {scans[j].file} |-> scans[j].version] OBVIOUS
<1>3. \A f \in LibFiles \cap DOMAIN heals : heals[f] \in Stamps BY <1>1, <1>2 DEF ScanRecs
<1>4. PICK new : new = WithShapes(cacheWriter.held, heals) OBVIOUS
<1>5. new \in Caches /\ \A f \in LibFiles : new[f].meta = cacheWriter.held[f].meta /\ new[f].mtime = cacheWriter.held[f].mtime
  BY <1>1, <1>3, <1>4, ShapesWith
<1>6. SavesCache(new) BY <1>2, <1>4
<1>7. scans' \in [ScanJobs \cup {0} -> ScanRecs] BY <1>1, CacheValues
<1>8. ScansHaveFiles' BY <1>1 DEF CatalogInd, CatalogTypes, FileJobHasFile, ScansHaveFiles, NoScan
<1>9. cacheWriter # NoWriter BY DEF Holds
<1> QED BY <1>5, <1>6, <1>7, <1>8, <1>9, CacheSaved DEF CatalogInd, CatalogTypes, FileJobHasFile, ScansHaveFiles, NoWriter, diskVarsOfLib, mergeVars

LEMMA ScanKeeps == CatalogInd /\ ScanStep => CatalogInd'
<1> SUFFICES ASSUME CatalogInd, ScanStep PROVE CatalogInd' OBVIOUS
<1>1. ASSUME NEW j \in ScanJobs \cup {0}, ScanTakes(j) PROVE CatalogInd'
  BY <1>1, CacheTaken DEF ScanTakes
<1> QED BY <1>1, ScanReadsKeeps, ScanBuffersKeeps, ScanReadsBackKeeps, ScanHealsKeeps, ScanStoresKeeps, FlushKeeps
        DEF ScanStep

-----------------------------------------------------------------------------
(* The library's files *)

\* A step on the files alone.
LEMMA FilesMove ==
    ASSUME CatalogInd, UNCHANGED <<shelf, cacheVars, pendingScans, scans, mergeVars>>,
           libFiles' \in [LibFiles -> Stamps], libParts' \subseteq LibFiles, versions' \in Stamps,
           UNCHANGED fileJob \/ (fileJob'.file \in LibFiles /\ fileJob'.to \in LibFiles \cup {0})
    PROVE  CatalogInd'
<1>1. CatalogTypes' BY DEF CatalogInd, CatalogTypes, FileJobHasFile, ScansHaveFiles, mergeVars, cacheVars
<1> QED BY <1>1, CacheUntouched DEF mergeVars

LEMMA FileKeeps == CatalogInd /\ FileStep => CatalogInd'
<1> SUFFICES ASSUME CatalogInd, FileStep PROVE CatalogInd' OBVIOUS
<1>1. libFiles \in [LibFiles -> Stamps] /\ libParts \subseteq LibFiles /\ versions \in Stamps
      /\ fileJob.file \in LibFiles \cup {0} /\ fileJob.to \in LibFiles \cup {0} /\ cacheWriter.held \in Caches
  BY DEF CatalogInd, CatalogTypes, FileJobHasFile
<1>2. Version => versions' \in Stamps BY <1>1, CatalogBounds DEF Version, Stamps
<1>3. ASSUME NEW m \in LibModels, FetchBegins(m) PROVE CatalogInd'
  BY <1>1, <1>3, CatalogBounds, FilesMove DEF FetchBegins
<1>4. ASSUME NEW m \in LibModels, FetchLands(m) PROVE CatalogInd'
  BY <1>1, <1>2, <1>4, FilesMove DEF FetchLands
<1>5. ASSUME NEW m \in LibModels, FetchTakes(m) PROVE CatalogInd'
  BY <1>5, CacheTaken DEF FetchTakes
<1>6. ASSUME NEW m \in LibModels, FetchPairs(m) PROVE CatalogInd'
  <2>1. PICK new : new = WithHf(cacheWriter.held, fetches[m].file, "hub") OBVIOUS
  <2>2. new \in Caches /\ \A f \in LibFiles : new[f].meta = cacheWriter.held[f].meta /\ new[f].mtime = cacheWriter.held[f].mtime
    BY <1>1, <2>1, PairsWith
  <2>3. cacheWriter # NoWriter /\ SavesCache(new) BY <1>6, <2>1 DEF FetchPairs, Holds
  <2> QED BY <1>6, <2>2, <2>3, CacheSaved
          DEF FetchPairs, CatalogInd, CatalogTypes, FileJobHasFile, ScansHaveFiles, mergeVars
<1>7. ASSUME NEW f \in LibFiles, FilePatched(f) PROVE CatalogInd'
  BY <1>1, <1>2, <1>7, FilesMove DEF FilePatched
<1>8. ASSUME NEW f \in LibFiles, NEW to \in LibFiles \cup {0}, FileMoves(f, to) PROVE CatalogInd'
  <2>1. libFiles' \in [LibFiles -> Stamps] BY <1>1, <1>8, CatalogValues DEF FileMoves
  <2> QED BY <2>1, <1>1, <1>8, FilesMove DEF FileMoves
<1>9. ASSUME FileJobTakes PROVE CatalogInd'
  BY <1>9, CacheTaken DEF FileJobTakes
<1>10. ASSUME FileJobStores PROVE CatalogInd'
  <2>1. PICK f \in LibFiles \cup {0}, to \in LibFiles \cup {0} : f = fileJob.file /\ to = fileJob.to BY <1>1
  <2>2. PICK map \in Caches : map = cacheWriter.held BY <1>1
  <2>3. HoldsTrue(map) BY <1>10, <2>2 DEF FileJobStores, CatalogInd, Holds, HoldsTrue, HoldsScans, HoldsItsTime
  <2>4. cacheWriter # NoWriter /\ cacheWriter' = NoWriter BY <1>10 DEF FileJobStores, Holds, SavesCache
  <2>5. lastStored \in [LibFiles -> Stamps] /\ racedScans \subseteq LibFiles BY DEF CatalogInd, CatalogTypes
  <2>6. DuplicatesAreTold' BY <1>10 DEF FileJobStores, CatalogInd, DuplicatesAreTold, mergeVars, diskVarsOfLib
  <2>7. modelCache' \in Caches /\ lastStored' \in [LibFiles -> Stamps] /\ racedScans' \subseteq LibFiles
        /\ HoldsTrue(modelCache)'
    <3>1. CASE modelCache' = map /\ UNCHANGED <<lastStored, racedScans>>
      BY <2>3, <2>5, <3>1 DEF HoldsTrue, HoldsScans, HoldsItsTime
    <3>2. CASE /\ modelCache' = EntryMoves(map, f, to, NoEntry) /\ lastStored' = EntryMoves(lastStored, f, to, 0)
               /\ racedScans' = (racedScans \ {f, to}) \cup (IF f \in racedScans /\ to # 0 THEN {to} ELSE {})
               /\ (to # 0 => f # 0)
      <4>1. NoEntry \in CacheEntries /\ NoEntry.meta = 0 /\ NoEntry.mtime = 0
        BY CatalogValues DEF NoEntry, CacheEntries
      <4>2. to \in LibFiles => f \in LibFiles BY <3>2, CatalogBounds
      <4>3. modelCache' \in Caches BY <3>2, <4>1, <4>2 DEF EntryMoves, Caches
      <4>4. lastStored' \in [LibFiles -> Stamps] BY <3>2, <4>2, <2>5, CatalogValues DEF EntryMoves
      <4>5. racedScans' \subseteq LibFiles BY <3>2, <2>5
      <4>6. ASSUME NEW g \in LibFiles
            PROVE  /\ lastStored'[g] # 0 => modelCache'[g].meta = lastStored'[g]
                   /\ modelCache'[g].mtime # 0 => modelCache'[g].meta = modelCache'[g].mtime \/ g \in racedScans'
        <5>1. modelCache'[g] = (IF g = f THEN NoEntry ELSE IF g = to THEN map[f] ELSE map[g])
              /\ lastStored'[g] = (IF g = f THEN 0 ELSE IF g = to THEN lastStored[f] ELSE lastStored[g])
          BY <3>2 DEF EntryMoves
        <5>2. CASE g = f BY <5>1, <5>2, <4>1
        <5>3. CASE g # f /\ g = to
          <6>1. g # 0 /\ f \in LibFiles BY <5>3, <4>2, CatalogBounds
          <6> QED BY <5>1, <5>3, <6>1, <2>3, <3>2 DEF HoldsTrue, HoldsScans, HoldsItsTime
        <5>4. CASE g # f /\ g # to BY <5>1, <5>4, <2>3, <3>2 DEF HoldsTrue, HoldsScans, HoldsItsTime
        <5> QED BY <5>2, <5>3, <5>4
      <4> QED BY <4>3, <4>4, <4>5, <4>6 DEF HoldsTrue, HoldsScans, HoldsItsTime
    <3>3. f # 0 BY <1>10, <2>1, CatalogBounds DEF FileJobStores, Holds, CatalogInd, CatalogTypes, FileJobHasFile
    <3> QED BY <1>10, <2>1, <2>2, <3>1, <3>2, <3>3 DEF FileJobStores, SavesCache
  <2>8. fileJob' = NoFileJob BY <1>10 DEF FileJobStores
  <2>9. CatalogTypes'
    BY <1>10, <2>4, <2>7, <2>8, CacheValues
    DEF FileJobStores, NoFileJob, NoWriter, CatalogInd, CatalogTypes, FileJobHasFile, ScansHaveFiles, diskVarsOfLib, mergeVars
  <2> QED BY <2>4, <2>6, <2>7, <2>9 DEF CatalogInd
<1> QED BY <1>3, <1>4, <1>5, <1>6, <1>7, <1>8, <1>9, <1>10 DEF FileStep

-----------------------------------------------------------------------------
(* The merge *)

\* A list of a finite set's elements names each of them, and none twice.
LEMMA ListsAll ==
    ASSUME NEW S, IsFiniteSet(S), NEW order \in SetToSeqs(S)
    PROVE  /\ order \in Seq(S) /\ \A i, j \in 1 .. Len(order) : i # j => order[i] # order[j]
           /\ \A x \in S : \E i \in 1 .. Len(order) : order[i] = x
<1>1. Cardinality(S) \in Nat BY FS_CardinalityType
<1>2. PICK n \in Nat : n = Cardinality(S) BY <1>1
<1>3. order \in [1 .. n -> S] /\ \A i, j \in 1 .. n : i # j => order[i] # order[j] BY <1>2 DEF SetToSeqs
<1>4. order \in Seq(S) /\ Len(order) = n
  <2>1. order \in Seq(S) BY <1>3
  <2>2. DOMAIN order = 1 .. n BY <1>3
  <2> QED BY <2>1, <2>2
<1>5. order \in Injection(1 .. n, S) BY <1>3 DEF Injection, IsInjective
<1>6. Cardinality(1 .. n) = n BY FS_Interval
<1>7. order \in Surjection(1 .. n, S) BY <1>2, <1>5, <1>6, FS_Injection
<1>8. \A x \in S : \E i \in 1 .. n : order[i] = x BY <1>7 DEF Surjection
<1> QED BY <1>3, <1>4, <1>8

\* The fold over the list is there, and so is each of its steps.
NoRows == [kept |-> {}, conflicts |-> {}]
FoldsTo(g, order, n) == g = [i \in 0 .. n |-> IF i = 0 THEN NoRows ELSE AddModel(g[i - 1], order[i])]
LEMMA FoldExists == ASSUME NEW order, NEW n \in Nat PROVE \E g : FoldsTo(g, order, n)
<1> DEFINE Bad == {k \in Nat : ~ \E g : FoldsTo(g, order, k)}
<1>1. Bad = {}
  <2> SUFFICES ASSUME Bad # {} PROVE FALSE OBVIOUS
  <2>1. Bad \subseteq Nat OBVIOUS
  <2> HIDE DEF Bad
  <2>2. PICK k \in Bad : \A y \in Bad : ~(<<y, k>> \in OpToRel(<, Nat)) BY <2>1, NatLessThanWellFounded, WFMin
  <2>3. k \in Nat /\ ~ \E g : FoldsTo(g, order, k) BY <2>2 DEF Bad
  <2>4. CASE k = 0
    <3>1. FoldsTo([i \in 0 .. 0 |-> NoRows], order, 0) BY DEF FoldsTo
    <3> QED BY <2>3, <2>4, <3>1
  <2>5. CASE k # 0
    <3>1. k - 1 \in Nat /\ k - 1 < k BY <2>3, <2>5
    <3>2. k - 1 \notin Bad BY <2>2, <2>3, <3>1 DEF OpToRel
    <3>3. PICK h : FoldsTo(h, order, k - 1) BY <3>1, <3>2 DEF Bad
    <3> DEFINE g == [i \in 0 .. k |-> IF i = k THEN AddModel(h[k - 1], order[k]) ELSE h[i]]
    <3>4. \A i \in 0 .. (k - 1) : g[i] = h[i]
          /\ h[i] = IF i = 0 THEN NoRows ELSE AddModel(h[i - 1], order[i])
      BY <3>1, <3>3, <2>3 DEF FoldsTo
    <3>5. \A i \in 0 .. k : g[i] = IF i = 0 THEN NoRows ELSE AddModel(g[i - 1], order[i])
      <4> SUFFICES ASSUME NEW i \in 0 .. k PROVE g[i] = IF i = 0 THEN NoRows ELSE AddModel(g[i - 1], order[i])
        OBVIOUS
      <4>1. CASE i = k
        <5>1. g[k] = AddModel(h[k - 1], order[k]) BY <2>3
        <5>2. g[k - 1] = h[k - 1] BY <3>1, <3>4
        <5> QED BY <4>1, <5>1, <5>2, <2>5
      <4>2. CASE i # k /\ i # 0
        <5>1. i \in 0 .. (k - 1) /\ i - 1 \in 0 .. (k - 1) BY <4>2, <2>3
        <5>2. g[i - 1] = h[i - 1] BY <3>4, <5>1
        <5> QED BY <4>2, <5>1, <5>2, <3>4
      <4>3. CASE i # k /\ i = 0
        <5>1. i \in 0 .. (k - 1) BY <4>3, <2>3
        <5> QED BY <4>3, <5>1, <3>4
      <4> QED BY <4>1, <4>2, <4>3
    <3>6. FoldsTo(g, order, k)
      <4>1. g = [i \in 0 .. k |-> g[i]] OBVIOUS
      <4> HIDE DEF g
      <4>2. [i \in 0 .. k |-> g[i]] = [i \in 0 .. k |-> IF i = 0 THEN NoRows ELSE AddModel(g[i - 1], order[i])]
        BY <3>5
      <4> QED BY <4>1, <4>2 DEF FoldsTo
    <3> QED BY <2>3, <3>6
  <2> QED BY <2>4, <2>5
<1> QED BY <1>1

\* What the models of a list become, of which the first i have been added.
Told(acc, order, i) == \A n \in 1 .. i :
    \/ order[n] \in acc.kept
    \/ \E k \in 1 .. i : /\ order[k] # order[n] /\ CatKey[order[k]] = CatKey[order[n]]
                         /\ \/ shelf[order[k]] = shelf[order[n]] /\ Bytes(order[k]) >= Bytes(order[n])
                            \/ <<order[k], order[n]>> \in acc.conflicts
KeepsRows(acc, order, i) ==
    /\ DOMAIN acc = {"kept", "conflicts"} /\ \A m \in acc.kept : \E n \in 1 .. i : order[n] = m
    /\ Told(acc, order, i)

LEMMA AddsModel ==
    ASSUME NEW order \in Seq(LibModels), \A i, j \in 1 .. Len(order) : i # j => order[i] # order[j],
           NEW i \in 0 .. (Len(order) - 1), NEW acc, KeepsRows(acc, order, i)
    PROVE  KeepsRows(AddModel(acc, order[i + 1]), order, i + 1)
<1>0. PICK N \in Nat : N = Len(order) OBVIOUS
<1> DEFINE m == order[i + 1]
           rivals == {k \in acc.kept : CatKey[k] = CatKey[m]}
           rival == CHOOSE k \in rivals : TRUE
<1>1. i \in Nat /\ i + 1 \in 1 .. N /\ \A k \in 1 .. i : k \in 1 .. (i + 1) /\ k \in 1 .. N /\ k # i + 1 BY <1>0
<1>2. \A k \in 1 .. (i + 1) : k = i + 1 \/ k \in 1 .. i BY <1>1
<1>3. \A k \in 1 .. N : Bytes(order[k]) \in Nat /\ order[k] \in LibModels
  <2> SUFFICES ASSUME NEW k \in 1 .. N PROVE Bytes(order[k]) \in Nat /\ order[k] \in LibModels OBVIOUS
  <2>1. order[k] \in LibModels BY <1>0
  <2>2. IsFiniteSet(ModelFiles[order[k]]) BY <2>1, CatalogBounds
  <2> QED BY <2>1, <2>2, FS_CardinalityType DEF Bytes
<1>4. \A k \in 1 .. i : order[k] # m BY <1>0, <1>1
<1>5. PICK new : new = AddModel(acc, m) OBVIOUS
<1>6. CASE rivals = {}
  <2>1. new = [acc EXCEPT !.kept = @ \cup {m}] BY <1>5, <1>6 DEF AddModel
  <2>2. new.kept = acc.kept \cup {m} /\ new.conflicts = acc.conflicts /\ DOMAIN new = {"kept", "conflicts"}
    BY <2>1 DEF KeepsRows
  <2>3. Told(new, order, i + 1) BY <2>2, <1>1, <1>2 DEF KeepsRows, Told
  <2>4. \A x \in new.kept : \E n \in 1 .. (i + 1) : order[n] = x BY <2>2, <1>1 DEF KeepsRows
  <2> QED BY <2>2, <2>3, <2>4, <1>5 DEF KeepsRows
<1>7. CASE rivals # {}
  <2>1. rival \in rivals BY <1>7
  <2> HIDE DEF rival
  <2>2. PICK r \in 1 .. i : order[r] = rival BY <2>1 DEF KeepsRows
  <2>3. CatKey[rival] = CatKey[m] /\ rival # m /\ rival \in acc.kept BY <2>1, <2>2, <1>4
  <2>4. Bytes(rival) \in Nat /\ Bytes(m) \in Nat BY <1>1, <1>3, <2>2
  <2>5. CASE shelf[rival] # shelf[m]
    <3>1. new = [acc EXCEPT !.conflicts = @ \cup {<<rival, m>>}] BY <1>5, <1>7, <2>5 DEF AddModel, rival
    <3>2. new.kept = acc.kept /\ new.conflicts = acc.conflicts \cup {<<rival, m>>} /\ DOMAIN new = {"kept", "conflicts"}
      BY <3>1 DEF KeepsRows
    <3>3. Told(new, order, i + 1)
      <4> SUFFICES ASSUME NEW n \in 1 .. (i + 1), order[n] \notin new.kept
                   PROVE  \E k \in 1 .. (i + 1) :
                              /\ order[k] # order[n] /\ CatKey[order[k]] = CatKey[order[n]]
                              /\ \/ shelf[order[k]] = shelf[order[n]] /\ Bytes(order[k]) >= Bytes(order[n])
                                 \/ <<order[k], order[n]>> \in new.conflicts
        BY DEF Told
      <4>1. CASE n = i + 1 BY <4>1, <2>2, <2>3, <3>2, <1>1
      <4>2. CASE n \in 1 .. i BY <4>2, <3>2, <1>1 DEF KeepsRows, Told
      <4> QED BY <4>1, <4>2, <1>2
    <3>4. \A x \in new.kept : \E n \in 1 .. (i + 1) : order[n] = x BY <3>2, <1>1 DEF KeepsRows
    <3> QED BY <3>2, <3>3, <3>4, <1>5 DEF KeepsRows
  <2>6. CASE shelf[rival] = shelf[m] /\ Bytes(m) > Bytes(rival)
    <3>1. new = [acc EXCEPT !.kept = (@ \ {rival}) \cup {m}] BY <1>5, <1>7, <2>6 DEF AddModel, rival
    <3>2. new.kept = (acc.kept \ {rival}) \cup {m} /\ new.conflicts = acc.conflicts /\ DOMAIN new = {"kept", "conflicts"}
      BY <3>1 DEF KeepsRows
    <3>3. Told(new, order, i + 1)
      <4> SUFFICES ASSUME NEW n \in 1 .. (i + 1), order[n] \notin new.kept
                   PROVE  \E k \in 1 .. (i + 1) :
                              /\ order[k] # order[n] /\ CatKey[order[k]] = CatKey[order[n]]
                              /\ \/ shelf[order[k]] = shelf[order[n]] /\ Bytes(order[k]) >= Bytes(order[n])
                                 \/ <<order[k], order[n]>> \in new.conflicts
        BY DEF Told
      <4>1. n \in 1 .. i BY <3>2, <1>2
      <4>2. CASE order[n] = rival
        <5>1. Bytes(m) >= Bytes(rival) BY <2>4, <2>6
        <5> QED BY <4>2, <5>1, <2>3, <2>6, <1>1
      <4>3. CASE order[n] # rival
        <5>1. order[n] \notin acc.kept BY <4>3, <3>2
        <5> QED BY <5>1, <4>1, <3>2, <1>1 DEF KeepsRows, Told
      <4> QED BY <4>2, <4>3
    <3>4. \A x \in new.kept : \E n \in 1 .. (i + 1) : order[n] = x BY <3>2, <1>1 DEF KeepsRows
    <3> QED BY <3>2, <3>3, <3>4, <1>5 DEF KeepsRows
  <2>7. CASE shelf[rival] = shelf[m] /\ ~(Bytes(m) > Bytes(rival))
    <3>1. new = acc BY <1>5, <1>7, <2>7 DEF AddModel, rival
    <3>2. Bytes(rival) >= Bytes(m) BY <2>4, <2>7
    <3>3. Told(new, order, i + 1)
      <4> SUFFICES ASSUME NEW n \in 1 .. (i + 1), order[n] \notin new.kept
                   PROVE  \E k \in 1 .. (i + 1) :
                              /\ order[k] # order[n] /\ CatKey[order[k]] = CatKey[order[n]]
                              /\ \/ shelf[order[k]] = shelf[order[n]] /\ Bytes(order[k]) >= Bytes(order[n])
                                 \/ <<order[k], order[n]>> \in new.conflicts
        BY DEF Told
      <4>1. CASE n = i + 1 BY <4>1, <2>2, <2>3, <2>7, <3>2, <1>1
      <4>2. CASE n \in 1 .. i BY <4>2, <3>1, <1>1 DEF KeepsRows, Told
      <4> QED BY <4>1, <4>2, <1>2
    <3>4. \A x \in new.kept : \E n \in 1 .. (i + 1) : order[n] = x BY <3>1, <1>1 DEF KeepsRows
    <3> QED BY <3>1, <3>3, <3>4, <1>5 DEF KeepsRows
  <2> QED BY <2>5, <2>6, <2>7
<1> QED BY <1>6, <1>7

LEMMA MergeTells ==
    ASSUME NEW order \in Seq(LibModels), \A i, j \in 1 .. Len(order) : i # j => order[i] # order[j]
    PROVE  KeepsRows(Merged(order), order, Len(order))
<1>0. PICK N \in Nat : N = Len(order) OBVIOUS
<1> DEFINE first == CHOOSE g : FoldsTo(g, order, N)
<1>1. Merged(order) = first[N] BY <1>0 DEF Merged, FoldsTo, NoRows
<1>2. FoldsTo(first, order, N) BY FoldExists
<1> HIDE DEF first
<1>3. first[0] = NoRows /\ \A i \in 0 .. N : i # 0 => first[i] = AddModel(first[i - 1], order[i])
  BY <1>2 DEF FoldsTo
<1> DEFINE Bad == {i \in 0 .. N : ~KeepsRows(first[i], order, i)}
<1>4. Bad = {}
  <2> SUFFICES ASSUME Bad # {} PROVE FALSE OBVIOUS
  <2>1. Bad \subseteq Nat OBVIOUS
  <2> HIDE DEF Bad
  <2>2. PICK k \in Bad : \A y \in Bad : ~(<<y, k>> \in OpToRel(<, Nat)) BY <2>1, NatLessThanWellFounded, WFMin
  <2>3. k \in 0 .. N /\ ~KeepsRows(first[k], order, k) BY <2>2 DEF Bad
  <2>4. k # 0 BY <1>3, <2>3 DEF KeepsRows, Told, NoRows
  <2>5. k - 1 \in 0 .. (N - 1) /\ k - 1 \in Nat /\ k - 1 < k /\ (k - 1) + 1 = k BY <2>3, <2>4
  <2>6. KeepsRows(first[k - 1], order, k - 1)
    <3>1. k \in Nat BY <2>3
    <3>2. <<k - 1, k>> \in OpToRel(<, Nat) BY <2>5, <3>1 DEF OpToRel
    <3>3. k - 1 \notin Bad BY <2>2, <3>2
    <3>4. k - 1 \in 0 .. N BY <2>3, <2>4
    <3> QED BY <3>3, <3>4 DEF Bad
  <2>7. KeepsRows(AddModel(first[k - 1], order[(k - 1) + 1]), order, (k - 1) + 1) BY <1>0, <2>5, <2>6, AddsModel
  <2> QED BY <1>3, <2>3, <2>4, <2>5, <2>7
<1> QED BY <1>0, <1>1, <1>4

LEMMA MergeWalksKeeps == CatalogInd /\ MergeWalks => CatalogInd'
<1> SUFFICES ASSUME CatalogInd, MergeWalks PROVE CatalogInd' OBVIOUS
<1>1. PICK order \in Orders(Listable) :
         /\ merge' = [merge EXCEPT !.pc = "read", !.kept = Merged(order).kept]
         /\ catalogConflicts' = Merged(order).conflicts
  BY DEF MergeWalks
<1>2. Listable \subseteq LibModels BY DEF Listable
<1>3. IsFiniteSet(Listable) BY <1>2, CatalogBounds, FS_Subset
<1>4. order \in SetToSeqs(Listable) BY DEF Orders
<1>5. /\ order \in Seq(Listable) /\ \A i, j \in 1 .. Len(order) : i # j => order[i] # order[j]
      /\ \A x \in Listable : \E i \in 1 .. Len(order) : order[i] = x
  BY <1>3, <1>4, ListsAll
<1>6. order \in Seq(LibModels) BY <1>2, <1>5
<1>7. PICK acc : acc = Merged(order) OBVIOUS
<1>8. KeepsRows(acc, order, Len(order)) BY <1>5, <1>6, <1>7, MergeTells
<1>9. merge'.pc = "read" /\ merge'.kept = acc.kept /\ DOMAIN merge' = DOMAIN merge /\ merge'.heals = merge.heals
  BY <1>1, <1>7 DEF CatalogInd, CatalogTypes
<1>10. walked' = Listable /\ catalogConflicts' = acc.conflicts /\ UNCHANGED shelf
  BY <1>1, <1>7 DEF MergeWalks, diskVarsOfLib
<1>11. CatalogTypes'
  BY <1>9 DEF MergeWalks, CatalogInd, CatalogTypes, FileJobHasFile, ScansHaveFiles, diskVarsOfLib, cacheVars
<1>12. HoldsTrue(modelCache)' /\ (cacheWriter' # NoWriter => HoldsTrue(cacheWriter.held)')
  BY DEF MergeWalks, CatalogInd, HoldsTrue, HoldsScans, HoldsItsTime, cacheVars
<1>13. DuplicatesAreTold'
  <2>1. ASSUME NEW m \in Listable, m \notin acc.kept
        PROVE  \E k \in Listable : /\ k # m /\ CatKey[k] = CatKey[m]
                                   /\ \/ shelf[k] = shelf[m] /\ Bytes(k) >= Bytes(m)
                                      \/ <<k, m>> \in acc.conflicts
    <3>1. PICK n \in 1 .. Len(order) : order[n] = m BY <1>5
    <3>2. PICK k \in 1 .. Len(order) :
             /\ order[k] # order[n] /\ CatKey[order[k]] = CatKey[order[n]]
             /\ \/ shelf[order[k]] = shelf[order[n]] /\ Bytes(order[k]) >= Bytes(order[n])
                \/ <<order[k], order[n]>> \in acc.conflicts
      BY <1>8, <2>1, <3>1 DEF KeepsRows, Told
    <3>3. order[k] \in Listable BY <1>5
    <3> QED BY <3>1, <3>2, <3>3
  <2> QED BY <2>1, <1>9, <1>10 DEF DuplicatesAreTold
<1> QED BY <1>11, <1>12, <1>13 DEF CatalogInd

LEMMA MergeReadsKeeps == CatalogInd /\ MergeReads => CatalogInd'
<1> SUFFICES ASSUME CatalogInd, MergeReads PROVE CatalogInd' OBVIOUS
<1>1. PICK found \in {modelCache, EmptyCache}, heals \in SUBSET {Row(m) : m \in merge.kept} :
         /\ \E open : merge' = [merge EXCEPT !.pc = IF heals = {} THEN "pair" ELSE "heal", !.snap = found,
                                   !.heals = [f \in heals |-> ShapeOf(found, f)], !.due = open]
         /\ catalogRows' = {[model |-> m, meta |-> IF Fresh(found, Row(m)) THEN found[Row(m)].meta ELSE 0,
                             hf |-> found[Row(m)].hf] : m \in merge.kept}
  <2> DEFINE files == {Row(m) : m \in merge.kept}
             heals(found) == {f \in files : ShapeOf(found, f) # 0 /\ ~(Fresh(found, f) /\ found[f].shape # 0)}
             asks(found) == {Row(m) : m \in {n \in merge.kept \cap OnHub : found[Row(n)].hf = "none"}}
  <2>1. PICK found \in {modelCache, EmptyCache} :
           /\ merge' = [merge EXCEPT !.pc = IF heals(found) = {} THEN "pair" ELSE "heal", !.snap = found,
                                     !.heals = [f \in heals(found) |-> ShapeOf(found, f)], !.due = asks(found)]
           /\ catalogRows' = {[model |-> m, meta |-> IF Fresh(found, Row(m)) THEN found[Row(m)].meta ELSE 0,
                               hf |-> found[Row(m)].hf] : m \in merge.kept}
    BY DEF MergeReads
  <2>2. PICK h, open : h = heals(found) /\ open = asks(found) OBVIOUS
  <2>3. h \in SUBSET {Row(m) : m \in merge.kept} BY <2>2
  <2> HIDE DEF heals, asks
  <2> QED BY <2>1, <2>2, <2>3
<1>2. found \in Caches /\ libFiles \in [LibFiles -> Stamps] BY <1>1, CacheValues DEF CatalogInd, CatalogTypes
<1>3. DOMAIN merge = {"pc", "excluded", "kept", "heals", "snap", "due"} /\ merge.pc = "read"
  BY DEF MergeReads, CatalogInd, CatalogTypes
<1>4. merge'.heals = [f \in heals |-> ShapeOf(found, f)] /\ merge'.pc \notin {"read", "walk"} /\ DOMAIN merge' = DOMAIN merge
  BY <1>1, <1>3
<1>5. \A f \in LibFiles : ShapeOf(found, f) \in Stamps BY <1>2 DEF ShapeOf, Caches, CacheEntries
<1>6. \A f \in LibFiles \cap DOMAIN merge'.heals : merge'.heals[f] \in Stamps BY <1>4, <1>5
<1>7. CatalogTypes'
  BY <1>4, <1>6 DEF MergeReads, CatalogInd, CatalogTypes, FileJobHasFile, ScansHaveFiles, diskVarsOfLib, cacheVars
<1>0. UNCHANGED <<diskVarsOfLib, cacheVars, pendingScans, scans, fileJob, catalogConflicts, walked>> BY DEF MergeReads
<1>8. HoldsTrue(modelCache)' /\ (cacheWriter' # NoWriter => HoldsTrue(cacheWriter.held)')
  BY <1>0 DEF CatalogInd, HoldsTrue, HoldsScans, HoldsItsTime, cacheVars
<1>9. \A m \in merge.kept : \E r \in catalogRows' : r.model = m
  <2> SUFFICES ASSUME NEW m \in merge.kept PROVE \E r \in catalogRows' : r.model = m OBVIOUS
  <2> DEFINE row == [model |-> m, meta |-> IF Fresh(found, Row(m)) THEN found[Row(m)].meta ELSE 0,
                     hf |-> found[Row(m)].hf]
  <2>1. row \in catalogRows' BY <1>1
  <2>2. row.model = m OBVIOUS
  <2> QED BY <2>1, <2>2
<1>10. DuplicatesAreTold'
  <2>1. UNCHANGED <<walked, catalogConflicts, shelf>> BY DEF MergeReads, diskVarsOfLib
  <2> QED BY <2>1, <1>3, <1>4, <1>9 DEF CatalogInd, DuplicatesAreTold
<1> QED BY <1>7, <1>8, <1>10 DEF CatalogInd

\* A step of the merge that leaves the cache and the rows alone.
LEMMA MergeMoves ==
    ASSUME CatalogInd, UNCHANGED <<diskVarsOfLib, cacheVars, pendingScans, scans, fileJob, catalogRows, catalogConflicts, walked>>,
           DOMAIN merge' = DOMAIN merge, \A f \in LibFiles \cap DOMAIN merge'.heals : merge'.heals[f] \in Stamps,
           merge'.pc = "walk" \/ (merge'.pc # "read" /\ merge.pc \notin {"read", "walk"})
    PROVE  CatalogInd'
<1>1. CatalogTypes' BY DEF CatalogInd, CatalogTypes, FileJobHasFile, ScansHaveFiles, diskVarsOfLib, cacheVars
<1>2. HoldsTrue(modelCache)' /\ (cacheWriter' # NoWriter => HoldsTrue(cacheWriter.held)')
  BY DEF CatalogInd, HoldsTrue, HoldsScans, HoldsItsTime, cacheVars
<1>3. DuplicatesAreTold' BY DEF CatalogInd, DuplicatesAreTold, diskVarsOfLib
<1> QED BY <1>1, <1>2, <1>3 DEF CatalogInd

LEMMA MergeKeeps == CatalogInd /\ MergeStep => CatalogInd'
<1> SUFFICES ASSUME CatalogInd, MergeStep PROVE CatalogInd' OBVIOUS
<1>1. DOMAIN merge = {"pc", "excluded", "kept", "heals", "snap", "due"} /\ cacheWriter.held \in Caches
      /\ \A f \in LibFiles \cap DOMAIN merge.heals : merge.heals[f] \in Stamps
  BY DEF CatalogInd, CatalogTypes
<1>8. scans \in [ScanJobs \cup {0} -> ScanRecs] /\ ScansHaveFiles
  BY DEF CatalogInd, CatalogTypes
<1>2. DOMAIN NoMerge = {"pc", "excluded", "kept", "heals", "snap", "due"} /\ NoMerge.heals = <<>> /\ NoMerge.pc = "idle"
  BY DEF NoMerge
<1>3. ASSUME NEW excludes \in BOOLEAN, MergeBegins(excludes) PROVE CatalogInd'
  <2>1. merge'.pc = "walk" /\ merge'.heals = <<>> /\ DOMAIN merge' = DOMAIN merge BY <1>1, <1>2, <1>3 DEF MergeBegins
  <2> QED BY <2>1, <1>3, MergeMoves DEF MergeBegins
<1>4. ASSUME MergeTakes PROVE CatalogInd' BY <1>4, CacheTaken DEF MergeTakes
<1>5. ASSUME MergeHeals PROVE CatalogInd'
  <2>1. PICK new : new = WithShapes(cacheWriter.held, merge.heals) OBVIOUS
  <2>2. new \in Caches /\ \A f \in LibFiles : new[f].meta = cacheWriter.held[f].meta /\ new[f].mtime = cacheWriter.held[f].mtime
    BY <1>1, <2>1, ShapesWith
  <2>3. cacheWriter # NoWriter /\ SavesCache(new) BY <1>5, <2>1 DEF MergeHeals, Holds
  <2>4. /\ merge.pc = "heal" /\ merge'.pc = "pair" /\ merge'.heals = merge.heals /\ merge'.kept = merge.kept
        /\ DOMAIN merge' = DOMAIN merge
    BY <1>1, <1>5 DEF MergeHeals
  <2>5. UNCHANGED <<shelf, libFiles, libParts, versions, pendingScans, scans, fileJob, lastStored, racedScans,
                    catalogRows, catalogConflicts, walked>>
    BY <1>5 DEF MergeHeals, diskVarsOfLib
  <2>6. scans' \in [ScanJobs \cup {0} -> ScanRecs] /\ ScansHaveFiles'
    <3>1. scans' = scans BY <2>5
    <3> QED BY <3>1, <1>8 DEF ScansHaveFiles
  <2>7. (merge'.pc = "walk" <=> merge.pc = "walk") /\ (merge'.pc = "read" <=> merge.pc = "read") BY <2>4
  <2> QED BY <2>2, <2>3, <2>4, <2>5, <2>6, <2>7, CacheSaved
<1>6. ASSUME NEW f \in LibFiles, MergePairs(f) PROVE CatalogInd'
  <2>1. PICK new : new = WithHf(cacheWriter.held, f, "folder") OBVIOUS
  <2>2. new \in Caches /\ \A g \in LibFiles : new[g].meta = cacheWriter.held[g].meta /\ new[g].mtime = cacheWriter.held[g].mtime
    BY <1>1, <2>1, PairsWith
  <2>3. cacheWriter # NoWriter /\ SavesCache(new) BY <1>6, <2>1 DEF MergePairs, Holds
  <2>4. /\ merge'.pc = merge.pc /\ merge'.heals = merge.heals /\ merge'.kept = merge.kept
        /\ DOMAIN merge' = DOMAIN merge
    BY <1>1, <1>6 DEF MergePairs
  <2>5. UNCHANGED <<shelf, libFiles, libParts, versions, pendingScans, scans, fileJob, lastStored, racedScans,
                    catalogRows, catalogConflicts, walked>>
    BY <1>6 DEF MergePairs, diskVarsOfLib
  <2>6. scans' \in [ScanJobs \cup {0} -> ScanRecs] /\ ScansHaveFiles'
    <3>1. scans' = scans BY <2>5
    <3> QED BY <3>1, <1>8 DEF ScansHaveFiles
  <2>7. (merge'.pc = "walk" <=> merge.pc = "walk") /\ (merge'.pc = "read" <=> merge.pc = "read") BY <2>4
  <2> QED BY <2>2, <2>3, <2>4, <2>5, <2>6, <2>7, CacheSaved
<1>7. ASSUME MergeEnds PROVE CatalogInd'
  <2>1. merge.pc = "pair" /\ merge'.pc = "idle" /\ merge'.heals = <<>> /\ DOMAIN merge' = DOMAIN merge
    BY <1>1, <1>2, <1>7 DEF MergeEnds
  <2> QED BY <2>1, <1>7, MergeMoves DEF MergeEnds
<1> QED BY <1>3, <1>4, <1>5, <1>6, <1>7, MergeWalksKeeps, MergeReadsKeeps DEF MergeStep

LEMMA CatalogKeeps == CatalogInd /\ [CatalogNext]_catalogVars => CatalogInd'
<1> SUFFICES ASSUME CatalogInd, [CatalogNext]_catalogVars PROVE CatalogInd' OBVIOUS
<1>1. CASE UNCHANGED catalogVars
  <2>1. UNCHANGED <<cacheVars, catalogRows, catalogConflicts, walked, shelf, merge>>
    BY <1>1 DEF catalogVars, diskVarsOfLib, mergeVars
  <2>2. CatalogTypes'
    BY <1>1 DEF CatalogInd, CatalogTypes, FileJobHasFile, ScansHaveFiles, catalogVars, diskVarsOfLib, cacheVars, mergeVars
  <2> QED BY <2>1, <2>2, CacheUntouched
<1> QED BY <1>1, ClearKeeps, MergeKeeps, ScanKeeps, FileKeeps DEF CatalogNext

\* The catalog, its scans, downloads and file commands keep what they promise.
THEOREM CatalogKept == CatalogSpec => []CatalogInv
<1>1. CatalogInit => CatalogInd BY CatalogStarts
<1>2. CatalogInd /\ [CatalogNext]_catalogVars => CatalogInd' BY CatalogKeeps
<1>3. CatalogInd => CatalogInv BY CatalogPromises
<1> QED BY <1>1, <1>2, <1>3, PTL DEF CatalogSpec

-----------------------------------------------------------------------------
(* Updating a model by its header *)

WeightIds == DOMAIN WeightsLen
Cells == ({"header"} \X Revisions \X Nat) \cup ({"weights"} \X WeightIds \X Nat)
Files == Seq(Cells)
PatchRecs == [pc : {"idle", "probe", "compare", "extend", "copy", "rename", "splice"},
              size : Nat, len : Nat, end : Nat, base : Nat, bytes : Files, at : Int]
CheckRecs == [pc : {"idle", "probe", "classify"}, oid : Nat, size : Nat, len : Nat, end : Nat, base : Nat, bytes : Files]
KindRecs == [version : Nat, oid : Nat, kind : {"none", "current", "header", "full"}, mixed : BOOLEAN]

PatchTypes ==
    /\ gguf \in Files /\ ggufVersion \in 1 .. MaxGgufFiles /\ hubRevision \in Revisions
    /\ listing \in Revisions /\ listing \in 1 .. hubRevision /\ pairedOid \in 1 .. hubRevision
    /\ weights \in WeightIds /\ tainted \in BOOLEAN
    /\ patchers \in [Patchers -> PatchRecs] /\ updateCheck \in CheckRecs /\ kindFile \in KindRecs

\* A file ends in the weights that were downloaded last; before them is its
\* header, which can be read unless a write is just under way.
HeaderPart(bytes) == Len(bytes) - WeightsLen[weights]
EndsInWeights(bytes) ==
    /\ HeaderPart(bytes) >= 1
    /\ \A i \in 1 .. WeightsLen[weights] : bytes[HeaderPart(bytes) + i] = <<"weights", weights, i>>
FileIsWhole ==
    /\ EndsInWeights(gguf) /\ HeaderEnd(gguf) \in {0, HeaderPart(gguf)}
    /\ ~Splicing => HeaderEnd(gguf) = HeaderPart(gguf)

\* What a patch has read and fetched fits together, and while its version of
\* the file is the file's, it knows the file.
PatcherShape(c) ==
    /\ c.base <= ggufVersion /\ c.at >= -1 /\ (c.pc # "splice" => c.at >= 0)
    /\ c.pc # "idle" => c.end # 0
    /\ c.pc = "probe" => ProbeEnd(c.len, c.size, c.end) # 0
    /\ c.pc \in {"compare", "extend", "copy", "splice"} => c.bytes # <<>>
    /\ c.pc \in {"extend", "copy"} => Len(c.bytes) <= c.at
    /\ c.pc = "splice" /\ c.at # -1 => HeaderEnd(c.bytes) \in {0, c.end}
Mid(c) == c.pc = "splice" /\ c.at = -1
PatcherKnows(c) ==
    /\ c.base = ggufVersion /\ c.pc # "idle" /\ c.at # -1 => c.len = Len(gguf) /\ c.end = HeaderPart(gguf)
    /\ c.base = ggufVersion /\ c.pc = "rename" => EndsInWeights(c.bytes) /\ HeaderPart(c.bytes) <= c.at
    /\ Mid(c) => /\ c.base = ggufVersion /\ HeaderEnd(c.bytes) = Len(c.bytes) /\ Len(c.bytes) = HeaderPart(gguf)
                 /\ gguf[1] = c.bytes[1]
OneWriter == \A p, q \in Patchers : Mid(patchers[p]) /\ Mid(patchers[q]) => p = q

CheckKnows ==
    LET c == updateCheck IN
    c.pc # "idle" =>
        /\ c.end # 0 /\ c.oid \in Revisions /\ c.oid <= hubRevision /\ c.base <= ggufVersion
        /\ c.base = ggufVersion /\ ~tainted => c.len = Len(gguf) /\ c.end = HeaderPart(gguf)
        /\ c.pc = "classify" /\ c.oid = hubRevision => \E n \in Nat : c.bytes = Start(HubFile(c.oid), n)
KindKnows ==
    /\ kindFile.version <= ggufVersion
    /\ kindFile.kind = "current" /\ ~kindFile.mixed /\ kindFile.version = ggufVersion /\ ~tainted =>
          ~Splicing /\ HeaderEnd(gguf) = HeaderLen[kindFile.oid] /\ IsPrefix(HeaderCells(kindFile.oid), gguf)

PatchInd ==
    /\ PatchTypes /\ CheckKnows /\ KindKnows
    /\ \A p \in Patchers : PatcherShape(patchers[p])
    /\ ~tainted => FileIsWhole /\ OneWriter /\ \A p \in Patchers : PatcherKnows(patchers[p])

-----------------------------------------------------------------------------
(* Files as sequences of cells *)

LEMMA Cellwise ==
    /\ \A b \in Files : Len(b) \in Nat /\ (b # <<>> <=> Len(b) >= 1) /\ \A i \in 1 .. Len(b) : b[i] \in Cells
    /\ \A b, c \in Files : b = c <=> Len(b) = Len(c) /\ \A i \in 1 .. Len(b) : b[i] = c[i]
<1>1. ASSUME NEW b \in Files PROVE Len(b) \in Nat /\ (b # <<>> <=> Len(b) >= 1) /\ \A i \in 1 .. Len(b) : b[i] \in Cells
  <2>1. b \in Seq(Cells) BY DEF Files
  <2>2. Len(b) \in Nat /\ \A i \in 1 .. Len(b) : b[i] \in Cells BY <2>1
  <2>3. b # <<>> => Len(b) \in Nat \ {0} BY <2>1, EmptySeq
  <2>4. Len(<<>>) = 0 OBVIOUS
  <2> QED BY <2>2, <2>3, <2>4
<1>2. ASSUME NEW b \in Files, NEW c \in Files, Len(b) = Len(c), \A i \in 1 .. Len(b) : b[i] = c[i] PROVE b = c
  BY <1>2, SeqEqual DEF Files
<1> QED BY <1>1, <1>2

LEMMA StartOf ==
    ASSUME NEW b \in Files, NEW n \in Nat
    PROVE  /\ Start(b, n) \in Files /\ Len(Start(b, n)) = Smaller(n, Len(b))
           /\ \A i \in 1 .. Len(Start(b, n)) : Start(b, n)[i] = b[i]
<1>1. PICK k \in Nat : k = Smaller(n, Len(b)) /\ k <= Len(b) BY Cellwise DEF Smaller
<1>2. \A i \in 1 .. k : b[i] \in Cells BY <1>1, Cellwise
<1>3. /\ SubSeq(b, 1, k) \in Seq(Cells) /\ Len(SubSeq(b, 1, k)) = IF 1 <= k THEN k - 1 + 1 ELSE 0
      /\ \A i \in 1 .. k - 1 + 1 : SubSeq(b, 1, k)[i] = b[1 + i - 1]
  BY <1>2, SubSeqProperties
<1>4. Start(b, n) = SubSeq(b, 1, k) BY <1>1 DEF Start
<1>5. Len(SubSeq(b, 1, k)) = k BY <1>3, <1>1
<1>6. \A i \in 1 .. k : SubSeq(b, 1, k)[i] = b[i] BY <1>3, <1>1
<1> QED BY <1>1, <1>3, <1>4, <1>5, <1>6 DEF Files

LEMMA RestOf ==
    ASSUME NEW b \in Files, NEW m \in Nat \ {0}, NEW n \in Nat, n <= Len(b)
    PROVE  /\ SubSeq(b, m, n) \in Files /\ Len(SubSeq(b, m, n)) = IF m <= n THEN n - m + 1 ELSE 0
           /\ \A i \in 1 .. n - m + 1 : SubSeq(b, m, n)[i] = b[m + i - 1]
<1>1. \A i \in m .. n : b[i] \in Cells BY Cellwise
<1> QED BY <1>1, SubSeqProperties DEF Files

LEMMA JoinOf ==
    ASSUME NEW b \in Files, NEW c \in Files
    PROVE  /\ b \o c \in Files /\ Len(b \o c) = Len(b) + Len(c)
           /\ \A i \in 1 .. Len(b) + Len(c) : (b \o c)[i] = IF i <= Len(b) THEN b[i] ELSE c[i - Len(b)]
BY ConcatProperties DEF Files

LEMMA HubOf ==
    ASSUME NEW r \in Revisions
    PROVE  /\ HeaderCells(r) \in Files /\ Len(HeaderCells(r)) = HeaderLen[r]
           /\ \A i \in 1 .. HeaderLen[r] : HeaderCells(r)[i] = <<"header", r, i>>
           /\ HubFile(r) \in Files /\ Len(HubFile(r)) = HeaderLen[r] + WeightsLen[WeightsOf[r]]
           /\ \A i \in 1 .. HeaderLen[r] : HubFile(r)[i] = <<"header", r, i>>
           /\ \A i \in 1 .. WeightsLen[WeightsOf[r]] : HubFile(r)[HeaderLen[r] + i] = <<"weights", WeightsOf[r], i>>
           /\ HeaderLen[r] \in Nat \ {0} /\ WeightsOf[r] \in WeightIds /\ WeightsLen[WeightsOf[r]] \in Nat
<1>1. PICK h \in Nat \ {0} : h = HeaderLen[r] BY PatchBounds
<1>2. PICK w \in WeightIds : w = WeightsOf[r] BY PatchBounds DEF WeightIds
<1>3. PICK n \in Nat : n = WeightsLen[w] BY <1>2, PatchBounds DEF WeightIds
<1>4. HeaderCells(r) = [i \in 1 .. h |-> <<"header", r, i>>] BY <1>1 DEF HeaderCells
<1>5. WeightCells(w) = [i \in 1 .. n |-> <<"weights", w, i>>] BY <1>3 DEF WeightCells
<1>6. \A i \in 1 .. h : <<"header", r, i>> \in Cells BY DEF Cells
<1>7. \A i \in 1 .. n : <<"weights", w, i>> \in Cells BY DEF Cells
<1>8. HeaderCells(r) \in Files /\ Len(HeaderCells(r)) = h
  <2>1. HeaderCells(r) \in Seq(Cells) BY <1>4, <1>6
  <2>2. DOMAIN HeaderCells(r) = 1 .. h BY <1>4
  <2> QED BY <2>1, <2>2 DEF Files
<1>9. WeightCells(w) \in Files /\ Len(WeightCells(w)) = n
  <2>1. WeightCells(w) \in Seq(Cells) BY <1>5, <1>7
  <2>2. DOMAIN WeightCells(w) = 1 .. n BY <1>5
  <2> QED BY <2>1, <2>2 DEF Files
<1>10. HubFile(r) = HeaderCells(r) \o WeightCells(w) BY <1>2 DEF HubFile
<1>11. /\ HubFile(r) \in Files /\ Len(HubFile(r)) = h + n
       /\ \A i \in 1 .. h + n : HubFile(r)[i] = IF i <= h THEN HeaderCells(r)[i] ELSE WeightCells(w)[i - h]
  <2>1. PICK b \in Files : b = HeaderCells(r) /\ Len(b) = h BY <1>8
  <2>2. PICK c \in Files : c = WeightCells(w) /\ Len(c) = n BY <1>9
  <2>3. /\ b \o c \in Files /\ Len(b \o c) = h + n
        /\ \A i \in 1 .. h + n : (b \o c)[i] = IF i <= h THEN b[i] ELSE c[i - h]
    BY <2>1, <2>2, JoinOf
  <2> QED BY <2>1, <2>2, <2>3, <1>10
<1>12. \A i \in 1 .. h : HubFile(r)[i] = <<"header", r, i>>
  <2> SUFFICES ASSUME NEW i \in 1 .. h PROVE HubFile(r)[i] = <<"header", r, i>> OBVIOUS
  <2>1. i \in 1 .. h + n /\ i <= h BY <1>1
  <2>2. HubFile(r)[i] = HeaderCells(r)[i] BY <1>11, <2>1
  <2> QED BY <1>4, <2>2
<1>13. \A i \in 1 .. n : HubFile(r)[h + i] = <<"weights", w, i>>
  <2> SUFFICES ASSUME NEW i \in 1 .. n PROVE HubFile(r)[h + i] = <<"weights", w, i>> OBVIOUS
  <2>1. h + i \in 1 .. h + n /\ ~(h + i <= h) /\ h + i - h = i BY <1>1
  <2>2. HubFile(r)[h + i] = WeightCells(w)[i] BY <1>11, <2>1
  <2> QED BY <1>5, <2>2
<1> QED BY <1>1, <1>2, <1>3, <1>4, <1>8, <1>11, <1>12, <1>13

\* Where a header ends, by its cells.
Fits(b, r) == \A i \in 1 .. HeaderLen[r] - 1 : i <= Len(b) /\ b[i] = <<"header", r, i>>
LEMMA HeaderReads ==
    ASSUME NEW b \in Files
    PROVE  /\ HeaderEnd(b) \in Nat
           /\ b = <<>> \/ b[1][1] # "header" => HeaderEnd(b) = 0
           /\ b # <<>> /\ b[1][1] = "header" =>
                 /\ b[1][2] \in Revisions
                 /\ HeaderEnd(b) = IF Fits(b, b[1][2]) THEN HeaderLen[b[1][2]] ELSE 0
<1>1. CASE b = <<>> \/ b[1][1] # "header" BY <1>1 DEF HeaderEnd
<1>2. CASE b # <<>> /\ b[1][1] = "header"
  <2>1. b[1] \in Cells BY <1>2, Cellwise
  <2>2. PICK r \in Revisions : r = b[1][2] BY <1>2, <2>1 DEF Cells
  <2>3. PICK h \in Nat \ {0} : h = HeaderLen[r] BY PatchBounds
  <2>4. HeaderEnd(b) = IF IsPrefix(Start(HeaderCells(r), h - 1), b) THEN h ELSE 0 BY <1>2, <2>2, <2>3 DEF HeaderEnd
  <2>5. PICK s : s = Start(HeaderCells(r), h - 1) OBVIOUS
  <2>6. s \in Files /\ Len(s) = h - 1 /\ \A i \in 1 .. h - 1 : s[i] = <<"header", r, i>>
    <3>1. h - 1 \in Nat /\ HeaderCells(r) \in Files /\ Len(HeaderCells(r)) = h BY <2>3, HubOf
    <3>2. s \in Files /\ Len(s) = Smaller(h - 1, h) /\ \A i \in 1 .. Len(s) : s[i] = HeaderCells(r)[i]
      BY <2>5, <3>1, StartOf
    <3>3. Smaller(h - 1, h) = h - 1 BY DEF Smaller
    <3>4. \A i \in 1 .. h - 1 : i \in 1 .. h /\ i \in 1 .. Len(s) BY <3>2, <3>3
    <3>5. \A i \in 1 .. h : HeaderCells(r)[i] = <<"header", r, i>> BY <2>3, HubOf
    <3> QED BY <3>2, <3>3, <3>4, <3>5
  <2>7. IsPrefix(s, b) <=> Fits(b, r)
    <3>1. PICK n \in Nat : n = Len(b) BY Cellwise
    <3>2. CASE h - 1 <= n
      <4>1. SubSeq(b, 1, h - 1) \in Files /\ Len(SubSeq(b, 1, h - 1)) = h - 1
            /\ \A i \in 1 .. h - 1 : SubSeq(b, 1, h - 1)[i] = b[i]
        <5>1. h - 1 \in Nat /\ h - 1 <= Len(b) /\ 1 \in Nat \ {0} BY <3>1, <3>2
        <5>2. /\ SubSeq(b, 1, h - 1) \in Files /\ Len(SubSeq(b, 1, h - 1)) = IF 1 <= h - 1 THEN h - 1 - 1 + 1 ELSE 0
              /\ \A i \in 1 .. h - 1 - 1 + 1 : SubSeq(b, 1, h - 1)[i] = b[1 + i - 1]
          BY <5>1, RestOf
        <5>3. \A i \in 1 .. h - 1 : i \in 1 .. h - 1 - 1 + 1 /\ 1 + i - 1 = i BY <5>1
        <5> QED BY <5>1, <5>2, <5>3
      <4>2. SubSeq(s, 1, h - 1) = s BY <2>6, SubSeqFull DEF Files
      <4>3. SubSeq(s, 1, h - 1) = SubSeq(b, 1, h - 1) <=> \A i \in 1 .. h - 1 : s[i] = b[i]
        BY <2>6, <4>1, <4>2, Cellwise
      <4>4. \A i \in 1 .. h - 1 : i <= Len(b) BY <3>1, <3>2
      <4> QED BY <2>3, <2>6, <3>1, <3>2, <4>3, <4>4 DEF IsPrefix, Fits
    <3>3. CASE ~(h - 1 <= n)
      <4>1. h - 1 \in 1 .. h - 1 /\ ~(h - 1 <= Len(b)) BY <3>1, <3>3
      <4> QED BY <2>3, <2>6, <3>1, <3>3, <4>1 DEF IsPrefix, Fits
    <3> QED BY <3>2, <3>3
  <2> QED BY <1>2, <2>2, <2>3, <2>4, <2>5, <2>7
<1> QED BY <1>1, <1>2

\* Nothing behind the header matters, and files of one first cell have headers
\* of one length, when they can be read.
LEMMA HeaderStays ==
    ASSUME NEW b \in Files, NEW c \in Files, HeaderEnd(b) # 0, Len(b) <= Len(c), \A i \in 1 .. Len(b) : b[i] = c[i]
    PROVE  HeaderEnd(c) = HeaderEnd(b)
<1>1. b # <<>> /\ b[1][1] = "header" /\ Fits(b, b[1][2]) BY HeaderReads
<1>2. Len(b) >= 1 /\ Len(b) \in Nat /\ Len(c) \in Nat BY <1>1, Cellwise
<1>3. c # <<>> /\ c[1] = b[1] BY <1>2, Cellwise
<1>4. PICK r \in Revisions : r = b[1][2] BY <1>1, HeaderReads
<1>5. Fits(c, r)
  <2> SUFFICES ASSUME NEW i \in 1 .. HeaderLen[r] - 1 PROVE i <= Len(c) /\ c[i] = <<"header", r, i>> BY DEF Fits
  <2>1. i <= Len(b) /\ b[i] = <<"header", r, i>> BY <1>1, <1>4 DEF Fits
  <2>2. i \in Nat /\ 1 <= i BY PatchBounds
  <2> QED BY <2>1, <2>2, <1>2
<1> QED BY <1>1, <1>3, <1>4, <1>5, HeaderReads
LEMMA HeaderFirst ==
    ASSUME NEW b \in Files, NEW c \in Files, HeaderEnd(b) # 0, c # <<>>, b[1] = c[1]
    PROVE  HeaderEnd(c) \in {0, HeaderEnd(b)}
<1>1. b # <<>> /\ b[1][1] = "header" /\ Fits(b, b[1][2]) BY HeaderReads
<1> QED BY <1>1, HeaderReads
LEMMA HeaderOfHub == ASSUME NEW r \in Revisions PROVE HeaderEnd(HubFile(r)) = HeaderLen[r]
<1>1. HubFile(r) \in Files /\ Len(HubFile(r)) >= 1 BY HubOf
<1>2. HubFile(r)[1] = <<"header", r, 1>> BY HubOf
<1>3. Fits(HubFile(r), r) BY HubOf DEF Fits
<1>4. HubFile(r) # <<>> BY <1>1, Cellwise
<1> QED BY <1>1, <1>2, <1>3, <1>4, HeaderReads

LEMMA ProbesEnd == \A a, b, c \in Nat : ProbeEnd(a, b, c) \in Nat
<1> SUFFICES ASSUME NEW a \in Nat, NEW b \in Nat, NEW c \in Nat PROVE ProbeEnd(a, b, c) \in Nat OBVIOUS
<1>1. \A x, y \in Nat : Smaller(x, y) \in Nat /\ Delta(x, y) \in Nat BY DEF Smaller, Delta
<1>2. c + Delta(a, b) + ProbeSlack \in Nat /\ MaxProbe \in Nat BY <1>1, PatchBounds
<1> QED BY <1>1, <1>2 DEF ProbeEnd

LEMMA PatchStarts == PatchInit => PatchInd
<1> SUFFICES ASSUME PatchInit PROVE PatchInd OBVIOUS
<1> USE DEF PatchInit
<1>1. 1 \in Revisions /\ MaxGgufFiles \in Nat \ {0} BY PatchBounds
<1>2. gguf = HubFile(1) /\ weights = WeightsOf[1] /\ tainted = FALSE OBVIOUS
<1>3. <<>> \in Files BY DEF Files
<1>4. NoPatch \in PatchRecs BY <1>3 DEF NoPatch, PatchRecs
<1>5. NoCheck \in CheckRecs BY <1>3 DEF NoCheck, CheckRecs
<1>6. NoKind \in KindRecs BY DEF NoKind, KindRecs
<1>7. gguf \in Files /\ weights \in WeightIds BY <1>1, <1>2, HubOf
<1>8. PatchTypes
  <2>1. patchers \in [Patchers -> PatchRecs] /\ updateCheck \in CheckRecs /\ kindFile \in KindRecs BY <1>4, <1>5, <1>6
  <2>3. tainted \in BOOLEAN BY <1>2
  <2>2. /\ ggufVersion \in 1 .. MaxGgufFiles /\ hubRevision \in Revisions
        /\ listing \in Revisions /\ listing \in 1 .. hubRevision /\ pairedOid \in 1 .. hubRevision BY <1>1
  <2> QED BY <2>1, <2>2, <2>3, <1>7 DEF PatchTypes
<1>9. \A p \in Patchers : patchers[p].pc = "idle" /\ PatcherShape(patchers[p]) BY DEF PatcherShape, NoPatch
<1>10. ~Splicing /\ OneWriter BY <1>9 DEF Splicing, OneWriter, Mid
<1>11. \A p \in Patchers : PatcherKnows(patchers[p]) BY <1>9 DEF PatcherKnows, Mid
<1>12. FileIsWhole
  <2>1. PICK h \in Nat \ {0}, n \in Nat : h = HeaderLen[1] /\ n = WeightsLen[WeightsOf[1]] BY <1>1, HubOf
  <2>2. Len(gguf) = h + n /\ \A i \in 1 .. n : gguf[h + i] = <<"weights", WeightsOf[1], i>> BY <1>1, <1>2, <2>1, HubOf
  <2>3. HeaderPart(gguf) = h BY <1>2, <2>1, <2>2 DEF HeaderPart
  <2>4. HeaderEnd(gguf) = h BY <1>1, <1>2, <2>1, HeaderOfHub
  <2>5. EndsInWeights(gguf) BY <1>2, <2>1, <2>2, <2>3 DEF EndsInWeights
  <2> QED BY <2>3, <2>4, <2>5 DEF FileIsWhole
<1>13. CheckKnows BY DEF CheckKnows, NoCheck
<1>14. KindKnows BY DEF KindKnows, NoKind
<1> QED BY <1>8, <1>9, <1>10, <1>11, <1>12, <1>13, <1>14 DEF PatchInd

LEMMA PatchPromises == PatchInd => PatchInv
<1> SUFFICES ASSUME PatchInd PROVE PatchInv OBVIOUS
<1>1. PatchTypeOK BY PatchBounds DEF PatchInd, PatchTypes, PatchTypeOK, KindRecs
<1>2. CurrentIsCurrent BY DEF PatchInd, KindKnows, CurrentIsCurrent
<1>3. WeightsAreKept
  <2> SUFFICES ASSUME ~tainted, ~Splicing
               PROVE  HeaderEnd(gguf) # 0 /\ SubSeq(gguf, HeaderEnd(gguf) + 1, Len(gguf)) = WeightCells(weights)
    BY DEF WeightsAreKept
  <2>1. gguf \in Files /\ weights \in WeightIds BY DEF PatchInd, PatchTypes
  <2>2. PICK n \in Nat, len \in Nat : n = WeightsLen[weights] /\ len = Len(gguf) BY <2>1, Cellwise, PatchBounds DEF WeightIds
  <2>3. PICK h \in Nat \ {0} : h = HeaderPart(gguf) /\ len = h + n /\ HeaderEnd(gguf) = h
        /\ \A i \in 1 .. n : gguf[h + i] = <<"weights", weights, i>>
    <3>1. FileIsWhole BY DEF PatchInd
    <3>2. HeaderPart(gguf) = len - n BY <2>2 DEF HeaderPart
    <3>3. len - n >= 1 BY <3>1, <3>2 DEF FileIsWhole, EndsInWeights
    <3>4. len - n \in Nat \ {0} /\ len = (len - n) + n BY <3>3
    <3> QED BY <2>2, <3>1, <3>2, <3>4 DEF FileIsWhole, EndsInWeights
  <2>4. PICK s : s = SubSeq(gguf, h + 1, len) OBVIOUS
  <2>5. /\ s \in Files /\ Len(s) = IF h + 1 <= len THEN len - (h + 1) + 1 ELSE 0
        /\ \A i \in 1 .. len - (h + 1) + 1 : s[i] = gguf[h + 1 + i - 1]
    <3>1. h + 1 \in Nat \ {0} /\ len <= Len(gguf) BY <2>2
    <3> QED BY <2>1, <2>4, <3>1, RestOf
  <2>6. Len(s) = n BY <2>3, <2>5
  <2>7. \A i \in 1 .. n : s[i] = <<"weights", weights, i>>
    <3> SUFFICES ASSUME NEW i \in 1 .. n PROVE s[i] = <<"weights", weights, i>> OBVIOUS
    <3>1. i \in 1 .. len - (h + 1) + 1 /\ h + 1 + i - 1 = h + i BY <2>3
    <3>2. s[i] = gguf[h + i] BY <2>5, <3>1
    <3> QED BY <2>3, <3>2
  <2>8. WeightCells(weights) = [i \in 1 .. n |-> <<"weights", weights, i>>] BY <2>2 DEF WeightCells
  <2>9. s \in [1 .. n -> Cells] BY <2>5, <2>6, LenProperties DEF Files
  <2>10. s = WeightCells(weights) BY <2>7, <2>8, <2>9
  <2> QED BY <2>2, <2>3, <2>4, <2>10
<1> QED BY <1>1, <1>2, <1>3 DEF PatchInv

-----------------------------------------------------------------------------
(* Steps that leave the file alone *)

\* What is known of the file holds on while file and patches rest.
LEMMA FileRests ==
    ASSUME PatchInd, UNCHANGED <<gguf, ggufVersion, weights, tainted, patchers>>
    PROVE  /\ \A p \in Patchers : PatcherShape(patchers[p])'
           /\ ~tainted' => FileIsWhole' /\ OneWriter' /\ \A p \in Patchers : PatcherKnows(patchers[p])'
           /\ Splicing' <=> Splicing
<1>1. \A p \in Patchers : PatcherShape(patchers[p])' BY DEF PatchInd, PatcherShape
<1>2. Splicing' <=> Splicing BY DEF Splicing
<1>3. ~tainted' => FileIsWhole' BY <1>2 DEF PatchInd, FileIsWhole, EndsInWeights, HeaderPart
<1>4. ~tainted' => OneWriter' BY DEF PatchInd, OneWriter, Mid
<1>5. ~tainted' => \A p \in Patchers : PatcherKnows(patchers[p])' BY DEF PatchInd, PatcherKnows, Mid, HeaderPart, EndsInWeights
<1> QED BY <1>1, <1>2, <1>3, <1>4, <1>5

\* A step of one patch before its write.
LEMMA PatcherMoves ==
    ASSUME PatchInd, NEW p \in Patchers, NEW c \in PatchRecs, patchers' = [patchers EXCEPT ![p] = c],
           UNCHANGED <<hubVars, checkVars, ggufVars>>,
           ~Mid(c), ~Mid(patchers[p]), PatcherShape(c), ~tainted => PatcherKnows(c)
    PROVE  PatchInd'
<1>1. patchers \in [Patchers -> PatchRecs] BY DEF PatchInd, PatchTypes
<1>2. PatchTypes' BY <1>1 DEF PatchInd, PatchTypes, hubVars, checkVars, ggufVars
<1>3. UNCHANGED <<gguf, ggufVersion, weights, tainted>> BY DEF ggufVars
<1>4. \A q \in Patchers : patchers'[q] = IF q = p THEN c ELSE patchers[q] BY <1>1
<1>5. \A q \in Patchers : Mid(patchers[q])' <=> Mid(patchers[q]) BY <1>4 DEF Mid
<1>6. Splicing' <=> Splicing BY <1>5 DEF Splicing, Mid
<1>7. ASSUME NEW q \in Patchers PROVE PatcherShape(patchers[q])'
  <2>1. PatcherShape(patchers[q]) BY DEF PatchInd
  <2> QED BY <2>1, <1>3, <1>4 DEF PatcherShape
<1>8. ASSUME ~tainted', NEW q \in Patchers PROVE PatcherKnows(patchers[q])'
  <2>1. PatcherKnows(patchers[q]) BY <1>3, <1>8 DEF PatchInd
  <2>2. ~tainted BY <1>3, <1>8
  <2>3. CASE q = p BY <2>2, <2>3, <1>3, <1>4 DEF PatcherKnows, Mid, HeaderPart, EndsInWeights
  <2>4. CASE q # p BY <2>1, <2>4, <1>3, <1>4 DEF PatcherKnows, Mid, HeaderPart, EndsInWeights
  <2> QED BY <2>3, <2>4
<1>9. ~tainted' => FileIsWhole' BY <1>3, <1>6 DEF PatchInd, FileIsWhole, EndsInWeights, HeaderPart
<1>10. ~tainted' => OneWriter' BY <1>3, <1>5 DEF PatchInd, OneWriter
<1>11. CheckKnows' BY <1>3 DEF PatchInd, CheckKnows, HeaderPart, checkVars, hubVars
<1>12. KindKnows' BY <1>3, <1>6 DEF PatchInd, KindKnows, checkVars
<1> QED BY <1>2, <1>7, <1>8, <1>9, <1>10, <1>11, <1>12 DEF PatchInd

LEMMA PatchLooksKeeps == ASSUME PatchInd, NEW p \in Patchers, PatchLooks(p) PROVE PatchInd'
<1> DEFINE size == Len(HubFile(listing))
           c == [NoPatch EXCEPT !.pc = "probe", !.size = size, !.len = Len(gguf), !.end = HeaderEnd(gguf),
                                !.base = ggufVersion]
<1>1. gguf \in Files /\ listing \in Revisions /\ ggufVersion \in Nat /\ patchers[p] = NoPatch
  BY DEF PatchInd, PatchTypes, PatchLooks
<1>2. Len(gguf) \in Nat /\ HeaderEnd(gguf) \in Nat /\ size \in Nat BY <1>1, Cellwise, HeaderReads, HubOf
<1>3. <<>> \in Files BY DEF Files
<1>4. patchers' = [patchers EXCEPT ![p] = c] /\ HeaderEnd(gguf) # 0 /\ ProbeEnd(Len(gguf), size, HeaderEnd(gguf)) # 0
  BY DEF PatchLooks
<1> HIDE DEF size
<1>5. c \in PatchRecs
  <2>1. PICK s \in Nat, l \in Nat, e \in Nat, v \in Nat : s = size /\ l = Len(gguf) /\ e = HeaderEnd(gguf) /\ v = ggufVersion
    BY <1>1, <1>2
  <2>2. NoPatch \in PatchRecs BY <1>3 DEF NoPatch, PatchRecs
  <2>3. PICK d \in PatchRecs : d = NoPatch BY <2>2
  <2>4. c = [d EXCEPT !.pc = "probe", !.size = s, !.len = l, !.end = e, !.base = v] BY <2>1, <2>3
  <2> HIDE DEF c
  <2>5. c = [pc |-> "probe", size |-> s, len |-> l, end |-> e, base |-> v, bytes |-> d.bytes, at |-> d.at]
    BY <2>4 DEF PatchRecs
  <2>6. d.bytes \in Files /\ d.at \in Int BY DEF PatchRecs
  <2>7. "probe" \in {"idle", "probe", "compare", "extend", "copy", "rename", "splice"} OBVIOUS
  <2> QED BY <2>5, <2>6, <2>7 DEF PatchRecs
<1>6. c.pc = "probe" /\ c.at = 0 /\ c.len = Len(gguf) /\ c.size = size /\ c.end = HeaderEnd(gguf) /\ c.base = ggufVersion
  BY DEF NoPatch
<1> HIDE DEF c
<1>7. PatcherShape(c) BY <1>1, <1>4, <1>6 DEF PatcherShape
<1>8. ~Mid(c) /\ ~Mid(patchers[p]) BY <1>1, <1>6 DEF Mid, NoPatch
<1>9. ~tainted => PatcherKnows(c) BY <1>4, <1>6 DEF PatchInd, FileIsWhole, PatcherKnows, Mid
<1> QED BY <1>4, <1>5, <1>7, <1>8, <1>9, PatcherMoves DEF PatchLooks

LEMMA PatchFailsKeeps == ASSUME PatchInd, NEW p \in Patchers, PatchFails(p) PROVE PatchInd'
<1>1. <<>> \in Files BY DEF Files
<1>2. NoPatch \in PatchRecs BY <1>1 DEF NoPatch, PatchRecs
<1>3. ~Mid(NoPatch) /\ PatcherKnows(NoPatch) BY DEF Mid, NoPatch, PatcherKnows
<1>4. PatcherShape(NoPatch) BY DEF PatchInd, PatchTypes, NoPatch, PatcherShape
<1>5. ~Mid(patchers[p]) BY DEF PatchFails, Mid
<1> QED BY <1>2, <1>3, <1>4, <1>5, PatcherMoves DEF PatchFails

LEMMA PatchProbesKeeps == ASSUME PatchInd, NEW p \in Patchers, PatchProbes(p) PROVE PatchInd'
<1> DEFINE n == ProbeEnd(patchers[p].len, patchers[p].size, patchers[p].end)
           bytes == Start(HubFile(hubRevision), n)
           c == [patchers[p] EXCEPT !.pc = "compare", !.bytes = bytes]
<1>1. patchers \in [Patchers -> PatchRecs] /\ patchers[p] \in PatchRecs /\ patchers[p].pc = "probe" /\ hubRevision \in Revisions
  BY DEF PatchInd, PatchTypes, PatchProbes
<1>2. PatcherShape(patchers[p]) BY DEF PatchInd
<1>3. n \in Nat /\ n # 0 BY <1>1, <1>2, ProbesEnd DEF PatchRecs, PatcherShape
<1> HIDE DEF n
<1>4. HubFile(hubRevision) \in Files /\ Len(HubFile(hubRevision)) \in Nat /\ Len(HubFile(hubRevision)) >= 1
  BY <1>1, HubOf
<1>5. bytes \in Files /\ Len(bytes) = Smaller(n, Len(HubFile(hubRevision))) BY <1>3, <1>4, StartOf
<1>6. Len(bytes) >= 1 BY <1>3, <1>4, <1>5 DEF Smaller
<1>7. bytes # <<>> BY <1>5, <1>6, Cellwise
<1>8. patchers' = [patchers EXCEPT ![p] = c] BY <1>1 DEF PatchProbes, n
<1> HIDE DEF bytes
<1>9. c \in PatchRecs BY <1>1, <1>5 DEF PatchRecs
<1>10. /\ c.pc = "compare" /\ c.bytes = bytes /\ c.at = patchers[p].at /\ c.len = patchers[p].len
       /\ c.end = patchers[p].end /\ c.base = patchers[p].base
  BY <1>1 DEF PatchRecs
<1> HIDE DEF c
<1>11. PatcherShape(c) BY <1>1, <1>2, <1>7, <1>10 DEF PatcherShape
<1>12. ~Mid(c) /\ ~Mid(patchers[p]) BY <1>1, <1>10 DEF Mid
<1>13. ~tainted => PatcherKnows(c)
  <2>1. ~tainted => PatcherKnows(patchers[p]) BY DEF PatchInd
  <2> QED BY <2>1, <1>1, <1>10, <1>12 DEF PatcherKnows
<1> QED BY <1>8, <1>9, <1>11, <1>12, <1>13, PatcherMoves DEF PatchProbes

\* After the verdict: a patch that is given up, or one whose bytes are a
\* start of what was fetched.
LEMMA PatchComparesKeeps == ASSUME PatchInd, NEW p \in Patchers, PatchCompares(p) PROVE PatchInd'
<1>1. patchers \in [Patchers -> PatchRecs] /\ patchers[p] \in PatchRecs /\ patchers[p].pc = "compare"
  BY DEF PatchInd, PatchTypes, PatchCompares
<1>2. PICK d \in PatchRecs : d = patchers[p] BY <1>1
<1>3. PatcherShape(d) BY <1>2 DEF PatchInd
<1>4. d.bytes \in Files /\ d.bytes # <<>> /\ d.end \in Nat \ {0} /\ d.pc = "compare" /\ d.base \in Nat
  BY <1>1, <1>2, <1>3 DEF PatchRecs, PatcherShape
<1>5. PICK hubEnd \in Nat : hubEnd = HeaderEnd(d.bytes) BY <1>4, HeaderReads
<1>6. \A n \in Nat \ {0} : /\ Start(d.bytes, n) \in Files /\ Start(d.bytes, n) # <<>> /\ Start(d.bytes, n)[1] = d.bytes[1]
                           /\ Len(Start(d.bytes, n)) <= n
  <2> SUFFICES ASSUME NEW n \in Nat \ {0}
               PROVE  /\ Start(d.bytes, n) \in Files /\ Start(d.bytes, n) # <<>> /\ Start(d.bytes, n)[1] = d.bytes[1]
                      /\ Len(Start(d.bytes, n)) <= n
    OBVIOUS
  <2>1. /\ Start(d.bytes, n) \in Files /\ Len(Start(d.bytes, n)) = Smaller(n, Len(d.bytes))
        /\ \A i \in 1 .. Len(Start(d.bytes, n)) : Start(d.bytes, n)[i] = d.bytes[i]
    BY <1>4, StartOf
  <2>2. Len(d.bytes) \in Nat /\ Len(d.bytes) >= 1 BY <1>4, Cellwise
  <2>3. Len(Start(d.bytes, n)) >= 1 /\ Len(Start(d.bytes, n)) <= n BY <2>1, <2>2 DEF Smaller
  <2> QED BY <2>1, <2>3, Cellwise
<1>7. PICK c : /\ patchers' = [patchers EXCEPT ![p] = c]
               /\ \/ c = NoPatch
                  \/ c = [d EXCEPT !.pc = "splice", !.bytes = d.bytes, !.at = hubEnd] /\ hubEnd = 0
                  \/ c = [d EXCEPT !.pc = "splice", !.bytes = Start(d.bytes, d.end), !.at = hubEnd] /\ hubEnd = d.end
                  \/ /\ hubEnd # 0
                     /\ \E pc \in {"extend", "copy"} :
                          c = [d EXCEPT !.pc = pc, !.bytes = Start(d.bytes, hubEnd), !.at = hubEnd]
  <2> DEFINE same == Start(gguf, d.end) = Start(d.bytes, d.end) /\ d.len = d.size
             becomes(pc, bytes) == [d EXCEPT !.pc = pc, !.bytes = bytes, !.at = hubEnd]
             verdict == CASE same -> NoPatch
             [] ~same /\ hubEnd = 0 -> becomes("splice", d.bytes)
             [] ~same /\ hubEnd = d.end /\ d.len # d.size -> NoPatch
             [] ~same /\ hubEnd = d.end /\ d.len = d.size -> becomes("splice", Start(d.bytes, d.end))
             [] ~same /\ hubEnd \notin {0, d.end} ->
                    IF ClassifyFromHeaders(d.len, d.size, d.end, hubEnd, FALSE) = "full" THEN NoPatch
                    ELSE becomes(IF hubEnd > Len(d.bytes) THEN "extend" ELSE "copy", Start(d.bytes, hubEnd))
  <2>1. patchers' = [patchers EXCEPT ![p] = verdict] BY <1>2, <1>5 DEF PatchCompares
  <2> HIDE DEF same
  <2>2. CASE same
    <3>1. verdict = NoPatch BY <2>2
    <3> QED BY <2>1, <3>1
  <2>3. CASE ~same /\ hubEnd = 0
    <3>1. verdict = becomes("splice", d.bytes) BY <2>3, <1>4
    <3> QED BY <2>1, <2>3, <3>1
  <2>4. CASE ~same /\ hubEnd = d.end /\ d.len # d.size
    <3>1. verdict = NoPatch BY <2>4, <1>4
    <3> QED BY <2>1, <3>1
  <2>5. CASE ~same /\ hubEnd = d.end /\ d.len = d.size
    <3>1. verdict = becomes("splice", Start(d.bytes, d.end)) BY <2>5, <1>4
    <3> QED BY <2>1, <2>5, <3>1
  <2>6. CASE ~same /\ hubEnd \notin {0, d.end}
    <3>1. verdict = IF ClassifyFromHeaders(d.len, d.size, d.end, hubEnd, FALSE) = "full" THEN NoPatch
                    ELSE becomes(IF hubEnd > Len(d.bytes) THEN "extend" ELSE "copy", Start(d.bytes, hubEnd))
      BY <2>6
    <3>2. verdict = NoPatch \/ \E pc \in {"extend", "copy"} : verdict = becomes(pc, Start(d.bytes, hubEnd)) BY <3>1
    <3> HIDE DEF verdict
    <3> QED BY <2>1, <2>6, <3>2
  <2> QED BY <2>2, <2>3, <2>4, <2>5, <2>6
<1>8. ~Mid(patchers[p]) BY <1>1 DEF Mid
<1>9. c \in PatchRecs /\ ~Mid(c) /\ PatcherShape(c) /\ (~tainted => PatcherKnows(c))
  <2>1. CASE c = NoPatch
    <3>1. <<>> \in Files BY DEF Files
    <3>2. NoPatch \in PatchRecs BY <3>1 DEF NoPatch, PatchRecs
    <3>3. ~Mid(NoPatch) /\ PatcherKnows(NoPatch) BY DEF Mid, NoPatch, PatcherKnows
    <3>4. PatcherShape(NoPatch) BY DEF PatchInd, PatchTypes, NoPatch, PatcherShape
    <3> QED BY <2>1, <3>2, <3>3, <3>4
  <2>2. ASSUME NEW pc \in {"splice", "extend", "copy"}, NEW bytes \in Files, bytes # <<>>,
               c = [d EXCEPT !.pc = pc, !.bytes = bytes, !.at = hubEnd],
               pc # "splice" => Len(bytes) <= hubEnd, pc = "splice" => HeaderEnd(bytes) \in {0, d.end}
        PROVE  c \in PatchRecs /\ ~Mid(c) /\ PatcherShape(c) /\ (~tainted => PatcherKnows(c))
    <3>1. c \in PatchRecs
      <4>1. PICK k \in Int : k = hubEnd BY <1>5
      <4>2. pc \in {"idle", "probe", "compare", "extend", "copy", "rename", "splice"} BY <2>2
      <4>3. c = [pc |-> pc, size |-> d.size, len |-> d.len, end |-> d.end, base |-> d.base, bytes |-> bytes, at |-> k]
        BY <2>2, <4>1 DEF PatchRecs
      <4>4. d.size \in Nat /\ d.len \in Nat /\ d.end \in Nat /\ d.base \in Nat BY DEF PatchRecs
      <4> QED BY <2>2, <4>2, <4>3, <4>4 DEF PatchRecs
    <3>2. c.pc = pc /\ c.bytes = bytes /\ c.at = hubEnd /\ c.end = d.end /\ c.base = d.base /\ c.len = d.len
      BY <2>2 DEF PatchRecs
    <3>3. ~Mid(c) BY <3>2, <1>5 DEF Mid
    <3>4. PatcherShape(c) BY <3>2, <2>2, <1>3, <1>4, <1>5 DEF PatcherShape
    <3>5. ~tainted => PatcherKnows(d) BY <1>2 DEF PatchInd
    <3>6. d.at # -1 BY <1>3, <1>4 DEF PatcherShape
    <3>7. ~tainted => PatcherKnows(c) BY <3>2, <3>3, <3>5, <3>6, <1>4, <2>2 DEF PatcherKnows
    <3> QED BY <3>1, <3>3, <3>4, <3>7
  <2>3. CASE c = [d EXCEPT !.pc = "splice", !.bytes = d.bytes, !.at = hubEnd] /\ hubEnd = 0
    BY <2>2, <2>3, <1>4, <1>5
  <2>4. CASE c = [d EXCEPT !.pc = "splice", !.bytes = Start(d.bytes, d.end), !.at = hubEnd] /\ hubEnd = d.end
    <3>1. PICK bytes \in Files : bytes = Start(d.bytes, d.end) /\ bytes # <<>> /\ bytes[1] = d.bytes[1] BY <1>4, <1>6
    <3>2. HeaderEnd(bytes) \in {0, d.end} BY <3>1, <2>4, <1>4, <1>5, HeaderFirst
    <3> QED BY <2>2, <2>4, <3>1, <3>2
  <2>5. ASSUME NEW pc \in {"extend", "copy"}, hubEnd # 0,
               c = [d EXCEPT !.pc = pc, !.bytes = Start(d.bytes, hubEnd), !.at = hubEnd]
        PROVE  c \in PatchRecs /\ ~Mid(c) /\ PatcherShape(c) /\ (~tainted => PatcherKnows(c))
    <3>1. PICK bytes \in Files : bytes = Start(d.bytes, hubEnd) /\ bytes # <<>> /\ Len(bytes) <= hubEnd BY <2>5, <1>6
    <3> QED BY <2>2, <2>5, <3>1
  <2> QED BY <2>1, <2>3, <2>4, <2>5, <1>7
<1> QED BY <1>7, <1>8, <1>9, PatcherMoves DEF PatchCompares

\* New bytes in front of what follows cell k of the file: the weights stay
\* where they end.
LEMMA KeepsWeights ==
    ASSUME PatchInd, EndsInWeights(gguf), NEW k \in Nat, k <= HeaderPart(gguf), NEW b \in Files, b # <<>>
    PROVE  LET n == b \o SubSeq(gguf, k + 1, Len(gguf)) IN
           /\ n \in Files /\ EndsInWeights(n) /\ HeaderPart(n) = Len(b) + HeaderPart(gguf) - k /\ n # <<>>
           /\ \A i \in 1 .. Len(b) : n[i] = b[i]
<1>1. gguf \in Files /\ weights \in WeightIds BY DEF PatchInd, PatchTypes
<1>2. PICK w \in Nat, len \in Nat : w = WeightsLen[weights] /\ len = Len(gguf) BY <1>1, Cellwise, PatchBounds DEF WeightIds
<1>3. PICK L \in Nat \ {0} : /\ L = HeaderPart(gguf) /\ len = L + w
                             /\ \A i \in 1 .. w : gguf[L + i] = <<"weights", weights, i>>
  <2>1. HeaderPart(gguf) = len - w BY <1>2 DEF HeaderPart
  <2>2. len - w >= 1 BY <2>1 DEF EndsInWeights
  <2>3. len - w \in Nat \ {0} /\ len = (len - w) + w BY <2>2
  <2> QED BY <1>2, <2>1, <2>3 DEF EndsInWeights
<1>4. PICK s : s = SubSeq(gguf, k + 1, len) OBVIOUS
<1>5. k <= len /\ k <= L BY <1>3
<1>6. s \in Files /\ Len(s) = len - k /\ \A i \in 1 .. len - k : s[i] = gguf[k + i]
  <2>1. k + 1 \in Nat \ {0} /\ len <= Len(gguf) BY <1>2
  <2>2. /\ s \in Files /\ Len(s) = IF k + 1 <= len THEN len - (k + 1) + 1 ELSE 0
        /\ \A i \in 1 .. len - (k + 1) + 1 : s[i] = gguf[k + 1 + i - 1]
    BY <1>1, <1>4, <2>1, RestOf
  <2>3. \A i \in 1 .. len - k : i \in 1 .. len - (k + 1) + 1 /\ k + 1 + i - 1 = k + i OBVIOUS
  <2>4. Len(s) = len - k BY <2>2, <1>5
  <2> QED BY <2>2, <2>3, <2>4
<1>7. PICK m \in Nat : m = Len(b) /\ m >= 1 BY Cellwise
<1>8. PICK n : n = b \o s OBVIOUS
<1>9. PICK r \in Nat : r = Len(s) /\ r = len - k BY <1>5, <1>6
<1>10. n \in Files /\ Len(n) = m + r /\ \A i \in 1 .. m + r : n[i] = IF i <= m THEN b[i] ELSE s[i - m]
  <2>1. /\ b \o s \in Files /\ Len(b \o s) = Len(b) + Len(s)
        /\ \A i \in 1 .. Len(b) + Len(s) : (b \o s)[i] = IF i <= Len(b) THEN b[i] ELSE s[i - Len(b)]
    BY <1>6, JoinOf
  <2> QED BY <2>1, <1>7, <1>8, <1>9
<1>11. HeaderPart(n) = m + L - k
  <2>1. HeaderPart(n) = m + r - w BY <1>2, <1>10 DEF HeaderPart
  <2> QED BY <2>1, <1>9, <1>3
<1>12. \A i \in 1 .. m : n[i] = b[i]
  <2>1. \A i \in 1 .. m : i \in 1 .. m + r /\ i <= m OBVIOUS
  <2> QED BY <2>1, <1>10
<1>13. \A i \in 1 .. w : n[m + L - k + i] = <<"weights", weights, i>>
  <2> SUFFICES ASSUME NEW i \in 1 .. w PROVE n[m + L - k + i] = <<"weights", weights, i>> OBVIOUS
  <2>1. PICK j \in Nat : j = m + L - k + i BY <1>5
  <2>5. i \in Nat /\ i >= 1 /\ i <= w OBVIOUS
  <2>6. len = L + w /\ r = len - k /\ k <= L /\ m >= 1 BY <1>3, <1>5, <1>9, <1>7
  <2>2. j \in 1 .. m + r /\ ~(j <= m) /\ j - m \in 1 .. len - k /\ k + (j - m) = L + i BY <2>1, <2>5, <2>6
  <2>3. n[j] = s[j - m] BY <2>2, <1>10
  <2>4. s[j - m] = gguf[L + i] BY <2>2, <1>6
  <2> QED BY <2>1, <2>3, <2>4, <1>3
<1>14. EndsInWeights(n)
  <2>1. m + L - k >= 1 BY <1>5, <1>7
  <2> QED BY <1>2, <1>11, <1>13, <2>1 DEF EndsInWeights
<1>15. n # <<>>
  <2>1. Len(n) >= 1 BY <1>10, <1>7
  <2> QED BY <2>1, <1>10, Cellwise
<1> QED BY <1>2, <1>3, <1>4, <1>7, <1>8, <1>10, <1>11, <1>12, <1>14, <1>15

LEMMA PatchExtendsKeeps == ASSUME PatchInd, NEW p \in Patchers, PatchExtends(p) PROVE PatchInd'
<1>1. patchers \in [Patchers -> PatchRecs] /\ patchers[p] \in PatchRecs /\ patchers[p].pc = "extend" /\ hubRevision \in Revisions
  BY DEF PatchInd, PatchTypes, PatchExtends
<1>2. PICK d \in PatchRecs : d = patchers[p] BY <1>1
<1>3. PatcherShape(d) BY <1>2 DEF PatchInd
<1>4. d.bytes \in Files /\ d.bytes # <<>> /\ d.end \in Nat \ {0} /\ d.pc = "extend" /\ d.at \in Nat /\ Len(d.bytes) <= d.at
  BY <1>1, <1>2, <1>3 DEF PatchRecs, PatcherShape
<1>5. PICK hub \in Files : hub = HubFile(hubRevision) BY <1>1, HubOf
<1>6. PICK m \in Nat, l \in Nat, at \in Nat : m = Len(d.bytes) /\ m >= 1 /\ l = Len(hub) /\ at = d.at BY <1>4, Cellwise
<1>7. PICK k \in Nat : k = Smaller(d.at, Len(hub)) /\ m <= k /\ k <= at /\ k <= l
  <2>1. m < l BY <1>2, <1>5, <1>6 DEF PatchExtends
  <2> QED BY <2>1, <1>4, <1>6 DEF Smaller
<1>8. PICK s \in Files : s = SubSeq(hub, m + 1, k) /\ Len(s) = k - m
  <2>1. m + 1 \in Nat \ {0} /\ k <= Len(hub) BY <1>6, <1>7
  <2>2. PICK s : s = SubSeq(hub, m + 1, k) OBVIOUS
  <2>3. s \in Files /\ Len(s) = IF m + 1 <= k THEN k - (m + 1) + 1 ELSE 0 BY <2>1, <2>2, RestOf
  <2>4. (IF m + 1 <= k THEN k - (m + 1) + 1 ELSE 0) = k - m BY <1>7
  <2> QED BY <2>2, <2>3, <2>4
<1>9. PICK bytes \in Files : bytes = d.bytes \o s /\ Len(bytes) = k
  <2>1. PICK b \in Files : b = d.bytes /\ Len(b) = m BY <1>4, <1>6
  <2>2. b \o s \in Files /\ Len(b \o s) = Len(b) + Len(s) BY JoinOf
  <2>3. Len(b) + Len(s) = k BY <2>1, <1>8, <1>7
  <2> QED BY <2>1, <2>2, <2>3
<1>10. bytes # <<>> /\ Len(bytes) <= d.at BY <1>9, <1>7, <1>6, Cellwise
<1>11. PICK c : c = [d EXCEPT !.pc = "copy", !.bytes = bytes] /\ patchers' = [patchers EXCEPT ![p] = c]
  BY <1>1, <1>2, <1>5, <1>6, <1>7, <1>8, <1>9 DEF PatchExtends
<1>12. c \in PatchRecs
  <2>1. "copy" \in {"idle", "probe", "compare", "extend", "copy", "rename", "splice"} OBVIOUS
  <2> QED BY <1>11, <2>1 DEF PatchRecs
<1>13. c.pc = "copy" /\ c.bytes = bytes /\ c.at = d.at /\ c.len = d.len /\ c.end = d.end /\ c.base = d.base
  BY <1>11 DEF PatchRecs
<1>14. PatcherShape(c) BY <1>3, <1>4, <1>10, <1>13 DEF PatcherShape
<1>15. ~Mid(c) /\ ~Mid(patchers[p]) BY <1>1, <1>13 DEF Mid
<1>16. ~tainted => PatcherKnows(c)
  <2>1. ~tainted => PatcherKnows(d) BY <1>2 DEF PatchInd
  <2> QED BY <2>1, <1>4, <1>13, <1>15 DEF PatcherKnows
<1> QED BY <1>11, <1>12, <1>14, <1>15, <1>16, PatcherMoves DEF PatchExtends

LEMMA PatchCopiesKeeps == ASSUME PatchInd, NEW p \in Patchers, PatchCopies(p) PROVE PatchInd'
<1>1. patchers \in [Patchers -> PatchRecs] /\ patchers[p] \in PatchRecs /\ patchers[p].pc = "copy" /\ gguf \in Files
  BY DEF PatchInd, PatchTypes, PatchCopies
<1>2. PICK d \in PatchRecs : d = patchers[p] BY <1>1
<1>3. PatcherShape(d) BY <1>2 DEF PatchInd
<1>4. /\ d.bytes \in Files /\ d.bytes # <<>> /\ d.end \in Nat \ {0} /\ d.pc = "copy" /\ d.at \in Nat
      /\ Len(d.bytes) <= d.at /\ d.len \in Nat /\ d.at # -1
  BY <1>1, <1>2, <1>3 DEF PatchRecs, PatcherShape
<1>5. PICK k \in Nat : k = Smaller(Len(gguf), d.len) /\ k <= Len(gguf) BY <1>1, <1>4, Cellwise DEF Smaller
<1>6. PICK s \in Files : s = SubSeq(gguf, d.end + 1, k)
  <2>1. d.end + 1 \in Nat \ {0} BY <1>4
  <2> QED BY <2>1, <1>1, <1>5, RestOf
<1>7. PICK bytes \in Files : bytes = d.bytes \o s BY <1>4, JoinOf
<1>8. PICK c : c = [d EXCEPT !.pc = "rename", !.bytes = bytes] /\ patchers' = [patchers EXCEPT ![p] = c]
  BY <1>1, <1>2, <1>5, <1>6, <1>7 DEF PatchCopies, Shifted
<1>9. c \in PatchRecs
  <2>1. "rename" \in {"idle", "probe", "compare", "extend", "copy", "rename", "splice"} OBVIOUS
  <2> QED BY <1>8, <2>1 DEF PatchRecs
<1>10. c.pc = "rename" /\ c.bytes = bytes /\ c.at = d.at /\ c.len = d.len /\ c.end = d.end /\ c.base = d.base
  BY <1>8 DEF PatchRecs
<1>11. PatcherShape(c) BY <1>3, <1>4, <1>10 DEF PatcherShape
<1>12. ~Mid(c) /\ ~Mid(patchers[p]) BY <1>1, <1>10 DEF Mid
<1>13. ASSUME ~tainted PROVE PatcherKnows(c)
  <2>1. PatcherKnows(d) BY <1>2, <1>13 DEF PatchInd
  <2>2. ASSUME d.base = ggufVersion PROVE EndsInWeights(bytes) /\ HeaderPart(bytes) <= d.at
    <3>1. d.len = Len(gguf) /\ d.end = HeaderPart(gguf) BY <2>1, <2>2, <1>4 DEF PatcherKnows
    <3>2. EndsInWeights(gguf) BY <1>13 DEF PatchInd, FileIsWhole
    <3>3. k = Len(gguf) BY <3>1, <1>1, <1>5, Cellwise DEF Smaller
    <3>4. PICK e \in Nat : e = d.end /\ e <= HeaderPart(gguf) /\ e = HeaderPart(gguf) BY <3>1, <1>4
    <3>5. PICK b \in Files : b = d.bytes /\ b # <<>> BY <1>4
    <3>6. bytes = b \o SubSeq(gguf, e + 1, Len(gguf)) BY <1>6, <1>7, <3>3, <3>4, <3>5
    <3>7. EndsInWeights(bytes) /\ HeaderPart(bytes) = Len(b) + HeaderPart(gguf) - e BY <3>2, <3>4, <3>5, <3>6, KeepsWeights
    <3>8. PICK l \in Nat : l = Len(b) BY Cellwise
    <3>9. HeaderPart(bytes) = l BY <3>7, <3>4, <3>8
    <3> QED BY <3>5, <3>7, <3>8, <3>9, <1>4
  <2> QED BY <2>1, <2>2, <1>4, <1>10, <1>12 DEF PatcherKnows
<1> QED BY <1>8, <1>9, <1>11, <1>12, <1>13, PatcherMoves DEF PatchCopies

-----------------------------------------------------------------------------
(* Steps that write the file *)

\* A new version is none that a patch, a check or the cached kind has read.
LEMMA NewVersion ==
    ASSUME PatchInd, ggufVersion' = ggufVersion + 1, UNCHANGED <<updateCheck, kindFile, hubRevision>>
    PROVE  /\ CheckKnows' /\ KindKnows' /\ ggufVersion \in Nat
           /\ \A q \in Patchers : patchers[q].base # ggufVersion' /\ patchers[q].base \in Nat
<1>1. /\ ggufVersion \in Nat /\ patchers \in [Patchers -> PatchRecs] /\ updateCheck \in CheckRecs /\ kindFile \in KindRecs
  BY DEF PatchInd, PatchTypes
<1>2. kindFile.version # ggufVersion' /\ kindFile.version <= ggufVersion' BY <1>1 DEF PatchInd, KindKnows, KindRecs
<1>3. KindKnows' BY <1>2 DEF KindKnows
<1>4. updateCheck.pc # "idle" => updateCheck.base # ggufVersion' /\ updateCheck.base <= ggufVersion'
  BY <1>1 DEF PatchInd, CheckKnows, CheckRecs
<1>5. CheckKnows' BY <1>4 DEF PatchInd, CheckKnows
<1>6. ASSUME NEW q \in Patchers PROVE patchers[q].base # ggufVersion' /\ patchers[q].base \in Nat
  <2>1. patchers[q].base \in Nat BY <1>1 DEF PatchRecs
  <2>2. patchers[q].base <= ggufVersion BY DEF PatchInd, PatcherShape
  <2> QED BY <2>1, <2>2, <1>1
<1> QED BY <1>1, <1>3, <1>5, <1>6

LEMMA NoPatchFits ==
    /\ NoPatch \in PatchRecs /\ ~Mid(NoPatch) /\ NoPatch.pc = "idle"
    /\ (ggufVersion \in Nat => PatcherShape(NoPatch)) /\ PatcherKnows(NoPatch)
<1>1. <<>> \in Files BY DEF Files
<1>2. NoPatch \in PatchRecs BY <1>1 DEF NoPatch, PatchRecs
<1>3. ~Mid(NoPatch) /\ PatcherKnows(NoPatch) BY DEF Mid, NoPatch, PatcherKnows
<1>4. ggufVersion \in Nat => PatcherShape(NoPatch) BY DEF NoPatch, PatcherShape
<1> QED BY <1>2, <1>3, <1>4 DEF NoPatch

LEMMA PatchBeginsSpliceKeeps == ASSUME PatchInd, NEW p \in Patchers, PatchBeginsSplice(p) PROVE PatchInd'
<1>1. /\ patchers \in [Patchers -> PatchRecs] /\ patchers[p] \in PatchRecs /\ patchers[p].pc = "splice" /\ gguf \in Files
      /\ tainted \in BOOLEAN
  BY DEF PatchInd, PatchTypes, PatchBeginsSplice
<1>2. PICK d \in PatchRecs : d = patchers[p] BY <1>1
<1>3. PatcherShape(d) BY <1>2 DEF PatchInd
<1>4. d.bytes \in Files /\ d.bytes # <<>> /\ d.end \in Nat \ {0} /\ d.pc = "splice" /\ d.at \in Nat /\ d.base \in Nat
  BY <1>1, <1>2, <1>3 DEF PatchRecs, PatcherShape, PatchBeginsSplice
<1>5. UNCHANGED <<hubRevision, listing, pairedOid, updateCheck, kindFile, weights>> /\ ggufVersion' = ggufVersion + 1
  BY DEF PatchBeginsSplice, hubVars, checkVars
<1>6. CheckKnows' /\ KindKnows' /\ ggufVersion \in Nat
      /\ \A q \in Patchers : patchers[q].base # ggufVersion' /\ patchers[q].base \in Nat
  BY <1>5, NewVersion
<1>7. PICK b \in Files : b = Start(d.bytes, 1) /\ Len(b) = 1 /\ b[1] = d.bytes[1] /\ b # <<>>
  <2>1. PICK b : b = Start(d.bytes, 1) OBVIOUS
  <2>2. b \in Files /\ Len(b) = Smaller(1, Len(d.bytes)) /\ \A i \in 1 .. Len(b) : b[i] = d.bytes[i]
    BY <1>4, <2>1, StartOf
  <2>3. PICK m \in Nat : m = Len(d.bytes) /\ m >= 1 BY <1>4, Cellwise
  <2>4. \A n \in Nat : n >= 1 => Smaller(1, n) = 1 BY DEF Smaller
  <2>5. Len(b) = 1 BY <2>2, <2>3, <2>4
  <2>6. b # <<>> BY <2>2, <2>5, Cellwise
  <2>7. 1 \in 1 .. Len(b) BY <2>5
  <2>8. b[1] = d.bytes[1] BY <2>2, <2>7
  <2> QED BY <2>1, <2>2, <2>5, <2>6, <2>8
<1>8. gguf' = b \o SubSeq(gguf, 1 + 1, Len(gguf)) BY <1>2, <1>7 DEF PatchBeginsSplice
<1>9. gguf' \in Files
  <2>1. 1 + 1 \in Nat \ {0} /\ Len(gguf) \in Nat /\ Len(gguf) <= Len(gguf) BY <1>1, Cellwise
  <2>2. SubSeq(gguf, 1 + 1, Len(gguf)) \in Files BY <1>1, <2>1, RestOf
  <2> QED BY <1>8, <2>2, JoinOf
<1>10. PICK v \in Nat : v = ggufVersion' BY <1>5, <1>6
<1>11. PICK c : c = [d EXCEPT !.at = -1, !.base = v] /\ patchers' = [patchers EXCEPT ![p] = c]
  BY <1>1, <1>2, <1>10 DEF PatchBeginsSplice
<1>12. c \in PatchRecs
  <2>1. PICK k \in Int : k = -1 OBVIOUS
  <2>2. c = [pc |-> d.pc, size |-> d.size, len |-> d.len, end |-> d.end, base |-> v, bytes |-> d.bytes, at |-> k]
    BY <1>11, <2>1 DEF PatchRecs
  <2> QED BY <2>2, <1>10 DEF PatchRecs
<1>13. c.pc = "splice" /\ c.bytes = d.bytes /\ c.at = -1 /\ c.len = d.len /\ c.end = d.end /\ c.base = v
  BY <1>11, <1>4 DEF PatchRecs
<1>14. \A q \in Patchers : patchers'[q] = IF q = p THEN c ELSE patchers[q] BY <1>1, <1>11
<1>15. PatchTypes'
  <2>1. patchers' \in [Patchers -> PatchRecs] BY <1>1, <1>11, <1>12
  <2>2. tainted' \in BOOLEAN BY <1>1 DEF PatchBeginsSplice, Suspect
  <2>3. ggufVersion' \in 1 .. MaxGgufFiles BY PatchBounds DEF PatchInd, PatchTypes, PatchBeginsSplice
  <2> QED BY <2>1, <2>2, <2>3, <1>5, <1>9 DEF PatchInd, PatchTypes
<1>16. ASSUME NEW q \in Patchers PROVE PatcherShape(patchers[q])'
  <2>1. CASE q = p BY <2>1, <1>4, <1>10, <1>13, <1>14 DEF PatcherShape
  <2>2. CASE q # p
    <3>1. PatcherShape(patchers[q]) BY DEF PatchInd
    <3>2. patchers[q].base <= ggufVersion' BY <3>1, <1>5, <1>6 DEF PatcherShape
    <3> QED BY <2>2, <3>1, <3>2, <1>14 DEF PatcherShape
  <2> QED BY <2>1, <2>2
<1>17. ASSUME ~tainted' PROVE FileIsWhole' /\ OneWriter' /\ \A q \in Patchers : PatcherKnows(patchers[q])'
  <2>1. ~tainted /\ ~Suspect(p, d.bytes) BY <1>17, <1>2 DEF PatchBeginsSplice
  <2>2. /\ ggufVersion = d.base /\ HeaderEnd(d.bytes) = Len(d.bytes)
        /\ \A q \in Patchers \ {p} : patchers[q].pc # "splice"
    BY <2>1, <1>2 DEF Suspect
  <2>3. PatcherKnows(d) /\ FileIsWhole BY <2>1, <1>2 DEF PatchInd
  <2>4. d.at # -1 /\ d.pc # "idle" BY <1>4
  <2>5. d.end = HeaderPart(gguf) BY <2>2, <2>3, <2>4 DEF PatcherKnows
  <2>6. PICK L \in Nat \ {0} : L = d.end /\ L = HeaderPart(gguf) BY <2>5, <1>4
  <2>7. HeaderEnd(d.bytes) = L /\ Len(d.bytes) = L
    <3>1. HeaderEnd(d.bytes) \in {0, d.end} BY <1>3, <1>4, <2>4 DEF PatcherShape
    <3>2. Len(d.bytes) >= 1 /\ Len(d.bytes) \in Nat BY <1>4, Cellwise
    <3> QED BY <3>1, <3>2, <2>2, <2>6
  <2>8. gguf' # <<>> /\ EndsInWeights(gguf') /\ HeaderPart(gguf') = L /\ gguf'[1] = d.bytes[1]
    <3>1. EndsInWeights(gguf) /\ 1 <= HeaderPart(gguf) BY <2>3, <2>6 DEF FileIsWhole
    <3>2. /\ EndsInWeights(gguf') /\ HeaderPart(gguf') = Len(b) + HeaderPart(gguf) - 1 /\ gguf' # <<>>
          /\ \A i \in 1 .. Len(b) : gguf'[i] = b[i]
      BY <3>1, <1>7, <1>8, KeepsWeights
    <3>3. HeaderPart(gguf') = L BY <3>2, <1>7, <2>6
    <3>4. 1 \in 1 .. Len(b) BY <1>7
    <3>5. gguf'[1] = d.bytes[1] BY <3>2, <3>4, <1>7
    <3> QED BY <3>2, <3>3, <3>5
  <2>9. HeaderEnd(gguf') \in {0, L}
    <3>1. HeaderEnd(d.bytes) # 0 BY <2>7
    <3> QED BY <3>1, <1>4, <1>9, <2>7, <2>8, HeaderFirst
  <2>10. Splicing' BY <1>13, <1>14 DEF Splicing
  <2>11. FileIsWhole' BY <2>8, <2>9, <2>10, <1>5 DEF FileIsWhole, EndsInWeights, HeaderPart
  <2>12. OneWriter' BY <2>2, <1>14 DEF OneWriter, Mid
  <2>13. ASSUME NEW q \in Patchers PROVE PatcherKnows(patchers[q])'
    <3>1. CASE q = p
      <4>1. patchers'[q] = c BY <3>1, <1>14
      <4>2. HeaderPart(gguf)' = L BY <2>8, <1>5 DEF HeaderPart
      <4> QED BY <4>1, <4>2, <1>10, <1>13, <2>7, <2>8 DEF PatcherKnows, Mid
    <3>2. CASE q # p
      <4>1. patchers'[q] = patchers[q] /\ patchers[q].pc # "splice" /\ patchers[q].base # ggufVersion'
        BY <3>2, <1>6, <1>14, <2>2
      <4> QED BY <4>1 DEF PatcherKnows, Mid
    <3> QED BY <3>1, <3>2
  <2> QED BY <2>11, <2>12, <2>13
<1> QED BY <1>6, <1>15, <1>16, <1>17 DEF PatchInd

LEMMA PatchSplicesKeeps == ASSUME PatchInd, NEW p \in Patchers, PatchSplices(p) PROVE PatchInd'
<1>1. /\ patchers \in [Patchers -> PatchRecs] /\ patchers[p] \in PatchRecs /\ Mid(patchers[p]) /\ gguf \in Files
      /\ tainted \in BOOLEAN
  BY DEF PatchInd, PatchTypes, PatchSplices, Mid
<1>2. PICK d \in PatchRecs : d = patchers[p] BY <1>1
<1>3. d.bytes \in Files /\ d.bytes # <<>> /\ Mid(d) /\ d.pc = "splice"
  BY <1>1, <1>2 DEF PatchInd, PatcherShape, PatchRecs, Mid
<1>4. UNCHANGED <<hubRevision, listing, pairedOid, updateCheck, kindFile, weights, ggufVersion>>
  BY DEF PatchSplices, hubVars, checkVars
<1>5. PICK m \in Nat : m = Len(d.bytes) /\ m >= 1 BY <1>3, Cellwise
<1>6. gguf' = d.bytes \o SubSeq(gguf, m + 1, Len(gguf)) BY <1>2, <1>5 DEF PatchSplices
<1>7. gguf' \in Files
  <2>1. m + 1 \in Nat \ {0} /\ Len(gguf) \in Nat /\ Len(gguf) <= Len(gguf) BY <1>1, Cellwise
  <2>2. SubSeq(gguf, m + 1, Len(gguf)) \in Files BY <1>1, <2>1, RestOf
  <2> QED BY <1>3, <1>6, <2>2, JoinOf
<1>8. patchers' = [patchers EXCEPT ![p] = NoPatch] BY DEF PatchSplices
<1>9. \A q \in Patchers : patchers'[q] = IF q = p THEN NoPatch ELSE patchers[q] BY <1>1, <1>8
<1>10. PatchTypes'
  <2>1. patchers' \in [Patchers -> PatchRecs] BY <1>1, <1>8, NoPatchFits
  <2>2. tainted' \in BOOLEAN BY <1>1 DEF PatchSplices, Suspect
  <2> QED BY <2>1, <2>2, <1>4, <1>7 DEF PatchInd, PatchTypes
<1>11. ASSUME NEW q \in Patchers PROVE PatcherShape(patchers[q])'
  <2>1. ggufVersion \in Nat /\ PatcherShape(patchers[q]) BY DEF PatchInd, PatchTypes
  <2> QED BY <2>1, <1>4, <1>9, NoPatchFits DEF PatcherShape
<1>12. ASSUME ~tainted' PROVE ~tainted BY <1>12, <1>1 DEF PatchSplices
<1>13. ASSUME ~tainted' PROVE /\ EndsInWeights(gguf') /\ HeaderPart(gguf') = HeaderPart(gguf) /\ HeaderPart(gguf) \in Nat
                              /\ HeaderEnd(gguf') = HeaderPart(gguf') /\ Len(gguf') = Len(gguf)
  <2>1. PatcherKnows(d) /\ FileIsWhole BY <1>2, <1>12, <1>13 DEF PatchInd
  <2>2. HeaderEnd(d.bytes) = m /\ m = HeaderPart(gguf) BY <2>1, <1>3, <1>5 DEF PatcherKnows
  <2>3. EndsInWeights(gguf) /\ m <= HeaderPart(gguf) BY <2>1, <2>2 DEF FileIsWhole
  <2>4. PICK b \in Files : b = d.bytes /\ b # <<>> BY <1>3
  <2>5. gguf' = b \o SubSeq(gguf, m + 1, Len(gguf)) BY <1>6, <2>4
  <2>6. /\ EndsInWeights(gguf') /\ HeaderPart(gguf') = Len(b) + HeaderPart(gguf) - m
        /\ \A i \in 1 .. Len(b) : gguf'[i] = b[i]
    BY <2>3, <2>4, <2>5, KeepsWeights
  <2>7. HeaderPart(gguf') = m BY <2>6, <2>2, <2>4, <1>5
  <2>8. PICK w \in Nat, l \in Nat, n \in Nat : w = WeightsLen[weights] /\ l = Len(gguf) /\ n = Len(gguf')
    BY <1>1, <1>7, Cellwise, PatchBounds DEF PatchInd, PatchTypes, WeightIds
  <2>9. l = n BY <2>2, <2>7, <2>8 DEF HeaderPart
  <2>10. m <= n BY <2>7, <2>8 DEF HeaderPart
  <2>11. HeaderEnd(gguf') = m
    <3>1. HeaderEnd(b) # 0 /\ Len(b) <= Len(gguf') BY <2>2, <2>4, <2>8, <2>10, <1>5
    <3>2. HeaderEnd(gguf') = HeaderEnd(b) BY <3>1, <2>6, <1>7, HeaderStays
    <3> QED BY <3>2, <2>2, <2>4
  <2> QED BY <2>2, <2>6, <2>7, <2>8, <2>9, <2>11
<1>14. ASSUME ~tainted' PROVE FileIsWhole' /\ OneWriter' /\ \A q \in Patchers : PatcherKnows(patchers[q])'
  <2>1. OneWriter /\ \A q \in Patchers : PatcherKnows(patchers[q]) BY <1>12, <1>14 DEF PatchInd
  <2>2. \A q \in Patchers : ~Mid(patchers'[q]) BY <2>1, <1>1, <1>9, NoPatchFits DEF OneWriter
  <2>3. OneWriter' BY <2>2 DEF OneWriter, Mid
  <2>4. FileIsWhole' BY <1>13, <1>14, <1>4 DEF FileIsWhole, EndsInWeights, HeaderPart
  <2>5. ASSUME NEW q \in Patchers PROVE PatcherKnows(patchers[q])'
    <3>1. ~Mid(patchers'[q]) BY <2>2
    <3>2. HeaderPart(gguf)' = HeaderPart(gguf) BY <1>13, <1>14, <1>4 DEF HeaderPart
    <3>3. CASE q = p
      <4>1. patchers'[q] = NoPatch BY <3>3, <1>9
      <4> QED BY <4>1 DEF PatcherKnows, Mid, NoPatch
    <3>4. CASE q # p
      <4>1. patchers'[q] = patchers[q] /\ PatcherKnows(patchers[q]) BY <3>4, <1>9, <2>1
      <4> QED BY <4>1, <3>1, <3>2, <1>4, <1>13, <1>14 DEF PatcherKnows, Mid, HeaderPart, EndsInWeights
    <3> QED BY <3>3, <3>4
  <2> QED BY <2>3, <2>4, <2>5
<1>15. CheckKnows'
  <2>1. CheckKnows BY DEF PatchInd
  <2>2. ~tainted' => ~tainted /\ HeaderPart(gguf)' = HeaderPart(gguf) /\ Len(gguf') = Len(gguf)
    BY <1>4, <1>12, <1>13 DEF HeaderPart
  <2> QED BY <2>1, <2>2, <1>4 DEF CheckKnows
<1>16. KindKnows'
  <2>1. KindKnows BY DEF PatchInd
  <2>2. Splicing BY <1>2, <1>3 DEF Splicing, Mid
  <2> QED BY <2>1, <2>2, <1>4, <1>12 DEF KindKnows
<1> QED BY <1>10, <1>11, <1>14, <1>15, <1>16 DEF PatchInd

LEMMA PatchRenamesKeeps == ASSUME PatchInd, NEW p \in Patchers, PatchRenames(p) PROVE PatchInd'
<1>1. /\ patchers \in [Patchers -> PatchRecs] /\ patchers[p] \in PatchRecs /\ patchers[p].pc = "rename"
      /\ tainted \in BOOLEAN /\ weights \in WeightIds
  BY DEF PatchInd, PatchTypes, PatchRenames
<1>2. PICK d \in PatchRecs : d = patchers[p] BY <1>1
<1>3. d.bytes \in Files /\ d.at \in Nat /\ d.pc = "rename" BY <1>1, <1>2 DEF PatchInd, PatcherShape, PatchRecs
<1>4. UNCHANGED <<hubRevision, listing, pairedOid, updateCheck, kindFile, weights>> /\ ggufVersion' = ggufVersion + 1
  BY DEF PatchRenames, hubVars, checkVars
<1>5. CheckKnows' /\ KindKnows' /\ ggufVersion \in Nat
      /\ \A q \in Patchers : patchers[q].base # ggufVersion' /\ patchers[q].base \in Nat
  BY <1>4, NewVersion
<1>6. gguf' = d.bytes BY <1>2 DEF PatchRenames
<1>7. patchers' = [patchers EXCEPT ![p] = NoPatch] BY DEF PatchRenames
<1>8. \A q \in Patchers : patchers'[q] = IF q = p THEN NoPatch ELSE patchers[q] BY <1>1, <1>7
<1>9. PatchTypes'
  <2>1. patchers' \in [Patchers -> PatchRecs] BY <1>1, <1>7, NoPatchFits
  <2>2. tainted' \in BOOLEAN BY <1>1 DEF PatchRenames, Suspect
  <2>3. ggufVersion' \in 1 .. MaxGgufFiles BY PatchBounds DEF PatchInd, PatchTypes, PatchRenames
  <2> QED BY <2>1, <2>2, <2>3, <1>3, <1>4, <1>6 DEF PatchInd, PatchTypes
<1>10. ASSUME NEW q \in Patchers PROVE PatcherShape(patchers[q])'
  <2>1. PatcherShape(patchers[q]) BY DEF PatchInd
  <2>2. patchers[q].base <= ggufVersion' /\ ggufVersion' \in Nat BY <2>1, <1>4, <1>5 DEF PatcherShape
  <2>3. CASE q = p
    <3>1. patchers'[q] = NoPatch BY <2>3, <1>8
    <3> QED BY <3>1, <2>2 DEF PatcherShape, NoPatch
  <2>4. CASE q # p BY <2>1, <2>2, <2>4, <1>8 DEF PatcherShape
  <2> QED BY <2>3, <2>4
<1>11. ASSUME ~tainted' PROVE FileIsWhole' /\ OneWriter' /\ \A q \in Patchers : PatcherKnows(patchers[q])'
  <2>1. ~tainted /\ ~Suspect(p, Start(d.bytes, d.at)) BY <1>11, <1>2 DEF PatchRenames
  <2>2. PICK b : b = Start(d.bytes, d.at) OBVIOUS
  <2>3. /\ ggufVersion = d.base /\ HeaderEnd(b) = Len(b) /\ (Len(b) > 0 => b[Len(b)][1] = "header")
        /\ \A q \in Patchers \ {p} : patchers[q].pc # "splice"
    BY <2>1, <2>2, <1>2 DEF Suspect
  <2>4. PatcherKnows(d) BY <2>1, <1>2 DEF PatchInd
  <2>5. EndsInWeights(d.bytes) /\ HeaderPart(d.bytes) <= d.at BY <2>3, <2>4, <1>3 DEF PatcherKnows
  <2>6. PICK w \in Nat, n \in Nat : w = WeightsLen[weights] /\ n = Len(d.bytes)
    BY <1>1, <1>3, Cellwise, PatchBounds DEF WeightIds
  <2>7. PICK h \in Nat \ {0} : /\ h = HeaderPart(d.bytes) /\ n = h + w /\ h <= d.at
                               /\ \A i \in 1 .. w : d.bytes[h + i] = <<"weights", weights, i>>
    <3>1. HeaderPart(d.bytes) = n - w BY <2>6 DEF HeaderPart
    <3>2. n - w >= 1 BY <2>5, <3>1 DEF EndsInWeights
    <3>3. n - w \in Nat \ {0} /\ n = (n - w) + w BY <3>2
    <3> QED BY <2>5, <2>6, <3>1, <3>3 DEF EndsInWeights
  <2>8. b \in Files /\ Len(b) = Smaller(d.at, n) /\ \A i \in 1 .. Len(b) : b[i] = d.bytes[i] BY <2>2, <2>6, <1>3, StartOf
  <2>9. PICK l \in Nat : l = Len(b) /\ l >= h /\ l <= n BY <2>8, <2>7, <1>3 DEF Smaller
  <2>10. l = h
    <3> SUFFICES ASSUME l # h PROVE FALSE OBVIOUS
    <3>1. PICK i \in 1 .. w : l = h + i
      <4>1. l - h \in 1 .. w /\ l = h + (l - h) BY <2>7, <2>9
      <4> QED BY <4>1
    <3>2. l \in 1 .. Len(b) BY <2>7, <2>9
    <3>3. b[l] = <<"weights", weights, i>> BY <2>7, <2>8, <3>1, <3>2
    <3>4. b[l][1] = "weights" BY <3>3
    <3>5. b[l][1] = "header" BY <2>3, <2>7, <2>9
    <3> QED BY <3>4, <3>5
  <2>11. HeaderEnd(d.bytes) = h
    <3>1. HeaderEnd(b) # 0 /\ Len(b) <= Len(d.bytes) BY <2>3, <2>6, <2>9, <2>10
    <3>2. HeaderEnd(d.bytes) = HeaderEnd(b) BY <3>1, <2>8, <1>3, HeaderStays
    <3> QED BY <3>2, <2>3, <2>9, <2>10
  <2>12. FileIsWhole'
    <3>1. HeaderPart(gguf)' = h BY <2>7, <1>4, <1>6 DEF HeaderPart
    <3>2. EndsInWeights(gguf)' BY <2>5, <1>4, <1>6 DEF EndsInWeights, HeaderPart
    <3> QED BY <3>1, <3>2, <2>11, <1>6 DEF FileIsWhole
  <2>13. OneWriter' BY <2>3, <1>8 DEF OneWriter, Mid, NoPatch
  <2>14. ASSUME NEW q \in Patchers PROVE PatcherKnows(patchers[q])'
    <3>1. CASE q = p
      <4>1. patchers'[q] = NoPatch BY <3>1, <1>8
      <4> QED BY <4>1 DEF PatcherKnows, Mid, NoPatch
    <3>2. CASE q # p
      <4>1. patchers'[q] = patchers[q] /\ patchers[q].pc # "splice" /\ patchers[q].base # ggufVersion'
        BY <3>2, <1>5, <1>8, <2>3
      <4> QED BY <4>1 DEF PatcherKnows, Mid
    <3> QED BY <3>1, <3>2
  <2> QED BY <2>12, <2>13, <2>14
<1> QED BY <1>5, <1>9, <1>10, <1>11 DEF PatchInd

-----------------------------------------------------------------------------
(* The surroundings *)

LEMMA HubPublishesKeeps == ASSUME PatchInd, HubPublishes PROVE PatchInd'
<1>1. UNCHANGED <<gguf, ggufVersion, weights, tainted, patchers, listing, pairedOid, updateCheck, kindFile>>
  BY DEF HubPublishes, ggufVars, checkVars
<1>2. PICK r \in Revisions : r > hubRevision /\ hubRevision' = r BY DEF HubPublishes
<1>3. r \in Nat /\ hubRevision \in Nat BY <1>2, PatchBounds DEF PatchInd, PatchTypes
<1>4. PatchTypes' BY <1>1, <1>2, <1>3 DEF PatchInd, PatchTypes
<1>5. CheckKnows'
  <2>1. updateCheck.oid \in Nat BY DEF PatchInd, PatchTypes, CheckRecs
  <2>2. updateCheck.oid <= hubRevision => updateCheck.oid <= r /\ updateCheck.oid # r BY <2>1, <1>2, <1>3
  <2> QED BY <2>2, <1>1, <1>2 DEF PatchInd, CheckKnows, HeaderPart
<1>6. KindKnows' BY <1>1, FileRests DEF PatchInd, KindKnows
<1> QED BY <1>1, <1>4, <1>5, <1>6, FileRests DEF PatchInd

LEMMA ListRepositoryKeeps == ASSUME PatchInd, ListRepository PROVE PatchInd'
<1>1. UNCHANGED <<gguf, ggufVersion, weights, tainted, patchers, hubRevision, pairedOid, updateCheck, kindFile>>
      /\ listing' = hubRevision
  BY DEF ListRepository, ggufVars, checkVars
<1>2. hubRevision \in Revisions /\ hubRevision \in 1 .. hubRevision BY PatchBounds DEF PatchInd, PatchTypes
<1>3. PatchTypes' BY <1>1, <1>2 DEF PatchInd, PatchTypes
<1>4. CheckKnows' BY <1>1 DEF PatchInd, CheckKnows, HeaderPart
<1>5. KindKnows' BY <1>1, FileRests DEF PatchInd, KindKnows
<1> QED BY <1>1, <1>3, <1>4, <1>5, FileRests DEF PatchInd

LEMMA DownloadReplacesKeeps == ASSUME PatchInd, DownloadReplaces PROVE PatchInd'
<1>1. UNCHANGED <<hubRevision, listing, patchers, updateCheck, kindFile>> /\ ggufVersion' = ggufVersion + 1
  BY DEF DownloadReplaces, checkVars
<1>2. PICK r \in Revisions : r = hubRevision BY DEF PatchInd, PatchTypes
<1>3. gguf' = HubFile(r) /\ weights' = WeightsOf[r] /\ pairedOid' = r /\ tainted' = Splicing
  BY <1>2 DEF DownloadReplaces, Splicing
<1>4. CheckKnows' /\ KindKnows' /\ ggufVersion \in Nat
      /\ \A q \in Patchers : patchers[q].base # ggufVersion' /\ patchers[q].base \in Nat
  BY <1>1, NewVersion
<1>5. PatchTypes'
  <2>1. gguf' \in Files /\ weights' \in WeightIds BY <1>3, HubOf
  <2>2. pairedOid' \in 1 .. hubRevision BY <1>2, <1>3, PatchBounds
  <2>3. ggufVersion' \in 1 .. MaxGgufFiles BY PatchBounds DEF PatchInd, PatchTypes, DownloadReplaces
  <2>4. tainted' \in BOOLEAN BY <1>3 DEF Splicing
  <2> QED BY <2>1, <2>2, <2>3, <2>4, <1>1 DEF PatchInd, PatchTypes
<1>6. ASSUME NEW q \in Patchers PROVE PatcherShape(patchers[q])'
  <2>1. PatcherShape(patchers[q]) BY DEF PatchInd
  <2>2. patchers[q].base <= ggufVersion' BY <2>1, <1>1, <1>4 DEF PatcherShape
  <2> QED BY <2>1, <2>2, <1>1 DEF PatcherShape
<1>7. ASSUME ~tainted' PROVE FileIsWhole' /\ OneWriter' /\ \A q \in Patchers : PatcherKnows(patchers[q])'
  <2>1. \A q \in Patchers : ~Mid(patchers[q]) BY <1>3, <1>7 DEF Splicing, Mid
  <2>2. OneWriter' BY <2>1, <1>1 DEF OneWriter, Mid
  <2>3. FileIsWhole'
    <3>1. PICK h \in Nat \ {0}, n \in Nat : h = HeaderLen[r] /\ n = WeightsLen[WeightsOf[r]] BY HubOf
    <3>2. Len(HubFile(r)) = h + n /\ \A i \in 1 .. n : HubFile(r)[h + i] = <<"weights", WeightsOf[r], i>> BY <3>1, HubOf
    <3>3. HeaderPart(gguf)' = h BY <1>3, <3>1, <3>2 DEF HeaderPart
    <3>4. HeaderEnd(gguf') = h BY <1>3, <3>1, HeaderOfHub
    <3>5. EndsInWeights(gguf)'
      <4>1. \A i \in 1 .. n : gguf'[h + i] = <<"weights", weights', i>> BY <1>3, <3>2
      <4> QED BY <4>1, <1>3, <3>1, <3>3 DEF EndsInWeights
    <3> QED BY <3>3, <3>4, <3>5 DEF FileIsWhole
  <2>4. ASSUME NEW q \in Patchers PROVE PatcherKnows(patchers[q])'
    <3>1. patchers'[q] = patchers[q] /\ ~Mid(patchers[q]) /\ patchers[q].base # ggufVersion' BY <1>1, <1>4, <2>1
    <3> QED BY <3>1 DEF PatcherKnows, Mid
  <2> QED BY <2>2, <2>3, <2>4
<1> QED BY <1>4, <1>5, <1>6, <1>7 DEF PatchInd

LEMMA UpdaterCrashesKeeps == ASSUME PatchInd, UpdaterCrashes PROVE PatchInd'
<1>1. UNCHANGED <<hubRevision, listing, pairedOid, kindFile, gguf, ggufVersion, weights>>
      /\ updateCheck' = NoCheck /\ tainted' = (tainted \/ Splicing)
  BY DEF UpdaterCrashes, hubVars, Splicing
<1>2. patchers' = [q \in Patchers |-> NoPatch] BY DEF UpdaterCrashes
<1>3. ggufVersion \in Nat /\ tainted \in BOOLEAN BY DEF PatchInd, PatchTypes
<1>4. \A q \in Patchers : patchers'[q] = NoPatch BY <1>2
<1>5. <<>> \in Files BY DEF Files
<1>6. NoCheck \in CheckRecs BY <1>5 DEF NoCheck, CheckRecs
<1>7. PatchTypes'
  <2>1. patchers' \in [Patchers -> PatchRecs] BY <1>2, NoPatchFits
  <2>2. tainted' \in BOOLEAN BY <1>1, <1>3 DEF Splicing
  <2> QED BY <2>1, <2>2, <1>1, <1>6 DEF PatchInd, PatchTypes
<1>8. \A q \in Patchers : PatcherShape(patchers[q])' BY <1>1, <1>3, <1>4 DEF PatcherShape, NoPatch
<1>9. \A q \in Patchers : PatcherKnows(patchers[q])' BY <1>4 DEF PatcherKnows, Mid, NoPatch
<1>10. OneWriter' /\ ~Splicing' BY <1>4 DEF OneWriter, Mid, NoPatch, Splicing
<1>11. ~tainted' => FileIsWhole' BY <1>1, <1>3 DEF PatchInd, FileIsWhole, EndsInWeights, HeaderPart
<1>12. CheckKnows' BY <1>1 DEF CheckKnows, NoCheck
<1>13. KindKnows' BY <1>1, <1>3, <1>10 DEF PatchInd, KindKnows
<1> QED BY <1>7, <1>8, <1>9, <1>10, <1>11, <1>12, <1>13 DEF PatchInd

-----------------------------------------------------------------------------
(* The check of one model against the Hub *)

\* A step of the check: what is known of the file rests.
LEMMA CheckMoves ==
    ASSUME PatchInd, UNCHANGED <<gguf, ggufVersion, weights, tainted, patchers, hubRevision, pairedOid, kindFile>>,
           listing' \in {listing, hubRevision}, updateCheck' \in CheckRecs, CheckKnows'
    PROVE  PatchInd'
<1>1. hubRevision \in Revisions /\ hubRevision \in 1 .. hubRevision BY PatchBounds DEF PatchInd, PatchTypes
<1>2. PatchTypes' BY <1>1 DEF PatchInd, PatchTypes
<1>3. KindKnows' BY FileRests DEF PatchInd, KindKnows
<1> QED BY <1>2, <1>3, FileRests DEF PatchInd

LEMMA NoCheckFits == NoCheck \in CheckRecs /\ NoCheck.pc = "idle"
<1>1. <<>> \in Files BY DEF Files
<1> QED BY <1>1 DEF NoCheck, CheckRecs

LEMMA CheckAsksKeeps == ASSUME PatchInd, CheckAsks PROVE PatchInd'
<1>1. UNCHANGED <<gguf, ggufVersion, weights, tainted, patchers, hubRevision, pairedOid, kindFile>> /\ listing' = hubRevision
  BY DEF CheckAsks, ggufVars
<1>2. gguf \in Files /\ hubRevision \in Revisions /\ ggufVersion \in Nat /\ updateCheck \in CheckRecs
      /\ hubRevision \in Nat
  BY PatchBounds DEF PatchInd, PatchTypes
<1>3. PICK s \in Nat, l \in Nat, e \in Nat, v \in Nat, o \in Nat :
         s = Len(HubFile(hubRevision)) /\ l = Len(gguf) /\ e = HeaderEnd(gguf) /\ v = ggufVersion /\ o = hubRevision
  BY <1>2, Cellwise, HeaderReads, HubOf
<1>4. PICK n \in CheckRecs : n = NoCheck BY NoCheckFits
<1>5. \/ updateCheck' = updateCheck
      \/ e # 0 /\ updateCheck' = [n EXCEPT !.pc = "probe", !.oid = o, !.size = s, !.len = l, !.end = e, !.base = v]
  BY <1>3, <1>4 DEF CheckAsks
<1>6. CASE updateCheck' = updateCheck
  <2>1. CheckKnows' BY <1>1, <1>6 DEF PatchInd, CheckKnows, HeaderPart
  <2> QED BY <2>1, <1>1, <1>2, <1>6, CheckMoves
<1>7. CASE e # 0 /\ updateCheck' = [n EXCEPT !.pc = "probe", !.oid = o, !.size = s, !.len = l, !.end = e, !.base = v]
  <2>1. updateCheck' = [pc |-> "probe", oid |-> o, size |-> s, len |-> l, end |-> e, base |-> v, bytes |-> n.bytes]
    BY <1>7 DEF CheckRecs
  <2>2. n.bytes \in Files BY DEF CheckRecs
  <2>3. "probe" \in {"idle", "probe", "classify"} OBVIOUS
  <2>4. updateCheck' \in CheckRecs BY <2>1, <2>2, <2>3 DEF CheckRecs
  <2>5. ~tainted => e = HeaderPart(gguf) BY <1>3, <1>7 DEF PatchInd, FileIsWhole
  <2>6. updateCheck'.pc = "probe" /\ updateCheck'.oid = o /\ updateCheck'.end = e /\ updateCheck'.base = v /\ updateCheck'.len = l
    BY <2>1
  <2>7. CheckKnows' BY <1>1, <1>2, <1>3, <1>7, <2>5, <2>6 DEF CheckKnows, HeaderPart
  <2> QED BY <2>4, <2>7, <1>1, CheckMoves
<1> QED BY <1>5, <1>6, <1>7

LEMMA CheckProbesKeeps == ASSUME PatchInd, CheckProbes PROVE PatchInd'
<1>1. UNCHANGED <<gguf, ggufVersion, weights, tainted, patchers, hubRevision, pairedOid, kindFile, listing>>
      /\ updateCheck.pc = "probe"
  BY DEF CheckProbes, ggufVars, hubVars
<1>2. hubRevision \in Revisions /\ updateCheck \in CheckRecs BY DEF PatchInd, PatchTypes
<1>3. PICK d \in CheckRecs : d = updateCheck BY <1>2
<1>4. PICK k \in Nat : k = ProbeEnd(d.len, d.size, d.end)
  <2>1. d.len \in Nat /\ d.size \in Nat /\ d.end \in Nat BY DEF CheckRecs
  <2> QED BY <2>1, ProbesEnd
<1>5. PICK m \in Nat : m = Smaller(d.size, MaxProbe)
  <2>1. d.size \in Nat /\ MaxProbe \in Nat BY PatchBounds DEF CheckRecs
  <2> QED BY <2>1 DEF Smaller
<1>6. \E n \in {k, m} : updateCheck' = [d EXCEPT !.pc = "classify", !.bytes = Start(HubFile(hubRevision), n)]
  BY <1>3, <1>4, <1>5 DEF CheckProbes
<1>7. PICK n \in Nat : updateCheck' = [d EXCEPT !.pc = "classify", !.bytes = Start(HubFile(hubRevision), n)] BY <1>6
<1>8. PICK bytes \in Files : bytes = Start(HubFile(hubRevision), n) BY <1>2, HubOf, StartOf
<1>9. updateCheck' \in CheckRecs
  <2>1. "classify" \in {"idle", "probe", "classify"} OBVIOUS
  <2> QED BY <1>7, <1>8, <2>1 DEF CheckRecs
<1>10. /\ updateCheck'.pc = "classify" /\ updateCheck'.oid = d.oid /\ updateCheck'.end = d.end /\ updateCheck'.base = d.base
       /\ updateCheck'.len = d.len /\ updateCheck'.bytes = bytes
  BY <1>7, <1>8 DEF CheckRecs
<1>11. CheckKnows'
  <2>1. CheckKnows BY DEF PatchInd
  <2>2. /\ d.end # 0 /\ d.oid \in Revisions /\ d.oid <= hubRevision /\ d.base <= ggufVersion
        /\ (d.base = ggufVersion /\ ~tainted => d.len = Len(gguf) /\ d.end = HeaderPart(gguf))
    BY <2>1, <1>1, <1>3 DEF CheckKnows
  <2>3. d.oid = hubRevision => bytes = Start(HubFile(d.oid), n) BY <1>8
  <2> QED BY <2>2, <2>3, <1>1, <1>10 DEF CheckKnows, HeaderPart
<1> QED BY <1>1, <1>9, <1>11, CheckMoves

LEMMA CheckFailsKeeps == ASSUME PatchInd, CheckFails PROVE PatchInd'
<1>1. UNCHANGED <<gguf, ggufVersion, weights, tainted, patchers, hubRevision, pairedOid, kindFile, listing>>
      /\ updateCheck' = NoCheck
  BY DEF CheckFails, ggufVars, hubVars
<1>2. CheckKnows' BY <1>1, NoCheckFits DEF CheckKnows
<1> QED BY <1>1, <1>2, NoCheckFits, CheckMoves

LEMMA PrefixOf ==
    \A a, b \in Files : Len(a) <= Len(b) /\ (\A i \in 1 .. Len(a) : a[i] = b[i]) <=> IsPrefix(a, b)
<1> SUFFICES ASSUME NEW a \in Files, NEW b \in Files
             PROVE  Len(a) <= Len(b) /\ (\A i \in 1 .. Len(a) : a[i] = b[i]) <=> IsPrefix(a, b)
  OBVIOUS
<1>1. PICK m \in Nat, n \in Nat : m = Len(a) /\ n = Len(b) BY Cellwise
<1>2. SubSeq(a, 1, m) = a BY <1>1, SubSeqFull DEF Files
<1>3. CASE m <= n
  <2>1. PICK s : s = SubSeq(b, 1, m) OBVIOUS
  <2>2. s \in Files /\ Len(s) = m /\ \A i \in 1 .. m : s[i] = b[i]
    <3>1. /\ s \in Files /\ Len(s) = IF 1 <= m THEN m - 1 + 1 ELSE 0
          /\ \A i \in 1 .. m - 1 + 1 : s[i] = b[1 + i - 1]
      BY <1>1, <1>3, <2>1, RestOf
    <3>2. \A i \in 1 .. m : i \in 1 .. m - 1 + 1 /\ 1 + i - 1 = i OBVIOUS
    <3>3. Len(s) = m BY <3>1
    <3> QED BY <3>1, <3>2, <3>3
  <2>3. a = s <=> \A i \in 1 .. m : a[i] = b[i] BY <1>1, <2>2, Cellwise
  <2> QED BY <1>1, <1>2, <1>3, <2>1, <2>3 DEF IsPrefix
<1>4. CASE ~(m <= n) BY <1>1, <1>4 DEF IsPrefix
<1> QED BY <1>3, <1>4

\* A kind "current" was read off headers that agree cell by cell.
LEMMA CheckStoresKeeps == ASSUME PatchInd, CheckStores PROVE PatchInd'
<1>1. UNCHANGED <<gguf, ggufVersion, weights, tainted, patchers, hubRevision, pairedOid, listing>>
      /\ updateCheck' = NoCheck /\ updateCheck.pc = "classify"
  BY DEF CheckStores, ggufVars, hubVars
<1>2. gguf \in Files /\ hubRevision \in Revisions /\ ggufVersion \in Nat /\ updateCheck \in CheckRecs
  BY DEF PatchInd, PatchTypes
<1>3. PICK d \in CheckRecs : d = updateCheck /\ d.pc = "classify" BY <1>1, <1>2
<1>4. d.len \in Nat /\ d.size \in Nat /\ d.end \in Nat /\ d.oid \in Nat /\ d.bytes \in Files BY DEF CheckRecs
<1>5. PICK hubEnd : hubEnd = IF HeaderEnd(d.bytes) = 0 THEN d.end ELSE HeaderEnd(d.bytes) OBVIOUS
<1>6. PICK equal \in BOOLEAN : equal <=> Len(d.bytes) >= d.end /\ IsPrefix(Start(gguf, d.end), d.bytes) OBVIOUS
<1>7. PICK stale \in BOOLEAN : stale <=> d.base # ggufVersion \/ d.oid # hubRevision \/ \E p \in Patchers : patchers[p].pc = "splice"
  OBVIOUS
<1>8. PICK kind : kind = ClassifyFromHeaders(d.len, d.size, d.end, hubEnd, equal) OBVIOUS
<1>9. kind \in {"none", "current", "header", "full"} /\ (kind = "current" => equal) BY <1>8 DEF ClassifyFromHeaders
<1>10. kindFile' = [version |-> ggufVersion, oid |-> d.oid, kind |-> kind, mixed |-> stale]
  BY <1>3, <1>5, <1>6, <1>7, <1>8 DEF CheckStores
<1>11. kindFile' \in KindRecs BY <1>2, <1>4, <1>9, <1>10 DEF KindRecs
<1>12. PatchTypes' BY <1>1, <1>11, NoCheckFits DEF PatchInd, PatchTypes
<1>13. CheckKnows' BY <1>1, NoCheckFits DEF CheckKnows
<1>14. ASSUME kind = "current", ~stale, ~tainted
       PROVE  ~Splicing /\ HeaderEnd(gguf) = HeaderLen[d.oid] /\ IsPrefix(HeaderCells(d.oid), gguf)
  <2>1. ~Splicing /\ d.base = ggufVersion /\ d.oid = hubRevision BY <1>7, <1>14 DEF Splicing
  <2>2. FileIsWhole /\ CheckKnows BY <1>14 DEF PatchInd
  <2>3. d.end = HeaderPart(gguf) /\ d.end # 0 /\ \E n \in Nat : d.bytes = Start(HubFile(d.oid), n)
    BY <2>1, <2>2, <1>3, <1>14 DEF CheckKnows
  <2>4. PICK L \in Nat \ {0} : L = d.end /\ L = HeaderPart(gguf) /\ L = HeaderEnd(gguf)
    BY <2>1, <2>2, <2>3, <1>4 DEF FileIsWhole
  <2>5. PICK n \in Nat : d.bytes = Start(HubFile(d.oid), n) BY <2>3
  <2>6. PICK r \in Revisions : r = d.oid /\ HubFile(r) \in Files BY <2>1, <1>2, HubOf
  <2>7. Len(d.bytes) >= L /\ IsPrefix(Start(gguf, L), d.bytes) BY <1>6, <1>9, <1>14, <2>4
  <2>8. PICK w \in Nat, len \in Nat : w = WeightsLen[weights] /\ len = Len(gguf)
    BY <1>2, Cellwise, PatchBounds DEF PatchInd, PatchTypes, WeightIds
  <2>9. L <= len BY <2>4, <2>8 DEF HeaderPart
  <2>10. PICK s \in Files : s = Start(gguf, L) /\ Len(s) = L /\ \A i \in 1 .. L : s[i] = gguf[i]
    <3>1. Start(gguf, L) \in Files /\ Len(Start(gguf, L)) = Smaller(L, len)
          /\ \A i \in 1 .. Len(Start(gguf, L)) : Start(gguf, L)[i] = gguf[i]
      BY <1>2, <2>8, StartOf
    <3>2. Smaller(L, len) = L BY <2>9 DEF Smaller
    <3> QED BY <3>1, <3>2
  <2>11. \A i \in 1 .. L : gguf[i] = d.bytes[i]
    <3>1. \A i \in 1 .. Len(s) : s[i] = d.bytes[i] BY <2>7, <2>10, <1>4, PrefixOf
    <3> QED BY <3>1, <2>10
  <2>12. \A i \in 1 .. L : gguf[i] = HubFile(r)[i]
    <3>1. PICK m \in Nat : m = Len(d.bytes) /\ m >= L BY <1>4, <2>7, Cellwise
    <3>2. \A i \in 1 .. m : d.bytes[i] = HubFile(r)[i] BY <2>5, <2>6, <3>1, StartOf
    <3> QED BY <2>11, <3>1, <3>2
  <2>13. PICK h \in Nat \ {0} : h = HeaderLen[r] /\ \A i \in 1 .. h : HubFile(r)[i] = <<"header", r, i>> BY HubOf
  <2>14. gguf[1] = <<"header", r, 1>> BY <2>12, <2>13
  <2>15. L = h
    <3>1. gguf # <<>> BY <1>2, <2>8, <2>9, Cellwise
    <3>2. gguf[1][1] = "header" /\ gguf[1][2] = r BY <2>14
    <3>3. HeaderEnd(gguf) \in {HeaderLen[r], 0} BY <3>1, <3>2, <1>2, HeaderReads
    <3> QED BY <3>3, <2>4, <2>13
  <2>16. IsPrefix(HeaderCells(r), gguf)
    <3>1. HeaderCells(r) \in Files /\ Len(HeaderCells(r)) = h /\ \A i \in 1 .. h : HeaderCells(r)[i] = <<"header", r, i>>
      BY <2>13, HubOf
    <3>2. \A i \in 1 .. h : HeaderCells(r)[i] = gguf[i] BY <3>1, <2>12, <2>13, <2>15
    <3>3. Len(HeaderCells(r)) <= Len(gguf) BY <3>1, <2>8, <2>9, <2>15
    <3> QED BY <3>1, <3>2, <3>3, <1>2, PrefixOf
  <2> QED BY <2>1, <2>4, <2>6, <2>13, <2>15, <2>16
<1>15. KindKnows'
  <2>1. /\ kindFile'.version = ggufVersion /\ kindFile'.oid = d.oid /\ kindFile'.kind = kind /\ (kindFile'.mixed <=> stale)
    BY <1>10
  <2>2. Splicing' <=> Splicing BY <1>1 DEF Splicing
  <2>3. kindFile'.version <= ggufVersion BY <2>1, <1>2
  <2> QED BY <2>1, <2>2, <2>3, <1>1, <1>14 DEF KindKnows
<1> QED BY <1>1, <1>12, <1>13, <1>15, FileRests DEF PatchInd

-----------------------------------------------------------------------------
LEMMA PatchKeeps == PatchInd /\ [PatchNext]_patchVars => PatchInd'
<1> SUFFICES ASSUME PatchInd, [PatchNext]_patchVars PROVE PatchInd' OBVIOUS
<1>1. CASE CheckAsks BY <1>1, CheckAsksKeeps
<1>2. CASE CheckProbes BY <1>2, CheckProbesKeeps
<1>3. CASE CheckFails BY <1>3, CheckFailsKeeps
<1>4. CASE CheckStores BY <1>4, CheckStoresKeeps
<1>5. ASSUME NEW p \in Patchers, PatchStep(p) PROVE PatchInd'
  <2>1. CASE PatchLooks(p) BY <2>1, PatchLooksKeeps
  <2>2. CASE PatchFails(p) BY <2>2, PatchFailsKeeps
  <2>3. CASE PatchProbes(p) BY <2>3, PatchProbesKeeps
  <2>4. CASE PatchCompares(p) BY <2>4, PatchComparesKeeps
  <2>5. CASE PatchExtends(p) BY <2>5, PatchExtendsKeeps
  <2>6. CASE PatchBeginsSplice(p) BY <2>6, PatchBeginsSpliceKeeps
  <2>7. CASE PatchSplices(p) BY <2>7, PatchSplicesKeeps
  <2>8. CASE PatchCopies(p) BY <2>8, PatchCopiesKeeps
  <2>9. CASE PatchRenames(p) BY <2>9, PatchRenamesKeeps
  <2> QED BY <1>5, <2>1, <2>2, <2>3, <2>4, <2>5, <2>6, <2>7, <2>8, <2>9 DEF PatchStep
<1>6. CASE HubPublishes BY <1>6, HubPublishesKeeps
<1>7. CASE ListRepository BY <1>7, ListRepositoryKeeps
<1>8. CASE DownloadReplaces BY <1>8, DownloadReplacesKeeps
<1>9. CASE UpdaterCrashes BY <1>9, UpdaterCrashesKeeps
<1>10. CASE UNCHANGED patchVars
  <2>1. UNCHANGED <<gguf, ggufVersion, weights, tainted, patchers, hubRevision, pairedOid, kindFile, listing, updateCheck>>
    BY <1>10 DEF patchVars, hubVars, checkVars, ggufVars
  <2>2. updateCheck' \in CheckRecs BY <2>1 DEF PatchInd, PatchTypes
  <2>3. CheckKnows' BY <2>1 DEF PatchInd, CheckKnows, HeaderPart
  <2> QED BY <2>1, <2>2, <2>3, CheckMoves
<1> QED BY <1>1, <1>2, <1>3, <1>4, <1>5, <1>6, <1>7, <1>8, <1>9, <1>10 DEF PatchNext

\* An update by the header keeps the weights that were downloaded, whatever the
\* Hub publishes meanwhile, and a kind remembered as current is true.
THEOREM HeaderPatchKept == PatchSpec => []PatchInv
<1>1. PatchSpec => []PatchInd BY PatchStarts, PatchKeeps, PTL DEF PatchSpec
<1> QED BY <1>1, PatchPromises, PTL

-----------------------------------------------------------------------------
(* The library, as the composed specification runs it *)

LibraryInd == /\ part = "catalog" => CatalogInd
              /\ part = "patch" => PatchInd

\* Scans, downloads, merges and file commands, interleaved and interrupted,
\* leave the cache and the catalog true to the files, and a header update
\* leaves the weights that were downloaded behind a whole header.
THEOREM LibraryKept == Spec => []LibraryInv
<1>1. Init => LibraryInd BY CatalogStarts, PatchStarts DEF Init, LibraryInd
<1>2. LibraryInd /\ [Next]_<<part, components>> => LibraryInd'
  <2> SUFFICES ASSUME LibraryInd, [Next]_<<part, components>> PROVE LibraryInd' OBVIOUS
  <2>1. part' = part BY DEF Next
  <2>2. ASSUME part = "catalog" PROVE CatalogInd'
    <3>1. CatalogInd BY <2>2 DEF LibraryInd
    <3>2. [CatalogNext]_catalogVars BY <2>2 DEF Next, components
    <3> QED BY <3>1, <3>2, CatalogKeeps
  <2>3. ASSUME part = "patch" PROVE PatchInd'
    <3>1. PatchInd BY <2>3 DEF LibraryInd
    <3>2. [PatchNext]_patchVars BY <2>3 DEF Next, components
    <3> QED BY <3>1, <3>2, PatchKeeps
  <2> QED BY <2>1, <2>2, <2>3 DEF LibraryInd
<1>3. LibraryInd => LibraryInv BY CatalogPromises, PatchPromises DEF LibraryInd, LibraryInv
<1> QED BY <1>1, <1>2, <1>3, PTL DEF Spec
=============================================================================
