------------------------------ MODULE FitScan ------------------------------
(***************************************************************************)
(* The VRAM fit scans of fit_scanner.rs: a library scan with its tasks and *)
(* its stop flag, and the catalog's scans of single models, over one file  *)
(* of results with a partition per fit adapter.  A single scan reads the   *)
(* partition when it starts and again, under a lock, when it stores its    *)
(* result; the library scan keeps a map of its own that it writes whole.   *)
(*                                                                         *)
(* An entry of a model is stored under its canonical key ("k"); the end of *)
(* a library scan also stores results under the path as the catalog gives  *)
(* it ("p").  Lookups prefer the canonical key.                            *)
(***************************************************************************)
EXTENDS Naturals, FiniteSets

CONSTANTS FitModels, FitAdapters, FitLabels,   \* Labels: the points of SCAN_PLAN
          SkipPairs,       \* adapter and model that the adapter does not scan
          ScanIds,         \* single scans
          ScanPermits,        \* permits of the library scan
          MaxLibScans, MaxSingles, MaxProbeFails   \* bounds of a run
ASSUME FitScanBounds ==
    /\ FitLabels \subseteq Nat /\ ScanPermits \in Nat \ {0} /\ SkipPairs \subseteq FitAdapters \X FitModels
    /\ FitAdapters # {} /\ ScanIds \subseteq Nat \ {0}   \* a scan has an adapter; 0 is no scan

NoScan == [has |-> FALSE, pts |-> {}, err |-> FALSE, skip |-> FALSE]
ScanEntry(pts, err) == [has |-> TRUE, pts |-> pts, err |-> err, skip |-> FALSE]
SkippedEntry == [has |-> TRUE, pts |-> {}, err |-> FALSE, skip |-> TRUE]
EmptyPart == [m \in FitModels |-> [k |-> NoScan, p |-> NoScan]]

VARIABLES
    partitions,  \* fit_scan_full.json
    libScan,         \* the library scan: step, adapter, force, stop flag, whether it is installed
    sharedMap,         \* its shared map
    finalResults,       \* its final_results
    scanTask,        \* its task of each model: step, entry it found, points, failure
    singleScan,      \* the single scans
    persistLock, \* PARTITION_PERSIST_LOCK: the single scan that holds it, 0 for none
    libScans, singles, probeFails,
    \* history: what lookups told when the library scan began; whether a
    \* single scan stored since; the last result stored by a single scan
    \* and not followed by a library scan's write
    knownBefore, storedMeanwhile, lastStored

scanVars == <<partitions, libScan, sharedMap, finalResults, scanTask, singleScan, persistLock,
              libScans, singles, probeFails, knownBefore, storedMeanwhile, lastStored>>

scanBounds == <<libScans, singles, probeFails>>
scanHistory == <<knownBefore, storedMeanwhile, lastStored>>

NoLib == [pc |-> "idle", a |-> CHOOSE a \in FitAdapters : TRUE, force |-> FALSE, stop |-> FALSE, installed |-> FALSE]
NoTask == [pc |-> "none", found |-> NoScan, pts |-> {}, err |-> FALSE, tried |-> {}]
NoSingle == [pc |-> "idle", a |-> CHOOSE a \in FitAdapters : TRUE, m |-> CHOOSE m \in FitModels : TRUE,
             pts |-> {}, err |-> FALSE, todo |-> {}, read |-> [a \in FitAdapters |-> EmptyPart]]

ScanInit ==
    /\ partitions = [a \in FitAdapters |-> EmptyPart]
    /\ libScan = NoLib /\ sharedMap = EmptyPart /\ finalResults = EmptyPart
    /\ scanTask = [m \in FitModels |-> NoTask] /\ singleScan = [s \in ScanIds |-> NoSingle]
    /\ persistLock = 0 /\ libScans = 0 /\ singles = 0 /\ probeFails = 0
    /\ knownBefore = [m \in FitModels |-> {}] /\ storedMeanwhile = FALSE
    /\ lastStored = [a \in FitAdapters |-> [m \in FitModels |-> NoScan]]

-----------------------------------------------------------------------------
(* Entries *)

\* find_existing_scan, without its last resort to another path's file name
FindScan(part, m) == IF part[m].k.has THEN part[m].k ELSE part[m].p

\* missing_scan_labels
MissingLabels(e) == IF e.skip THEN {} ELSE FitLabels \ e.pts

\* insert_fit_scan_result: aliases of the canonical key go
InsertResult(part, m, e) == [part EXCEPT ![m] = [k |-> e, p |-> NoScan]]

FirstLabel(S) == CHOOSE x \in S : \A y \in S : x <= y

ProbeFails == probeFails < MaxProbeFails /\ probeFails' = probeFails + 1

-----------------------------------------------------------------------------
(* The library scan *)

\* fit_scan_library: FIT_SCAN_RUNNING admits one; the stop flag is installed
\* after the providers and the GPUs have been asked
LibStart(a, force) ==
    /\ libScan.pc = "idle" /\ libScans < MaxLibScans /\ libScans' = libScans + 1
    /\ libScan' = [NoLib EXCEPT !.pc = "begun", !.a = a, !.force = force]
    /\ UNCHANGED <<partitions, sharedMap, finalResults, scanTask, singleScan, persistLock,
                   singles, probeFails, scanHistory>>

LibInstall ==
    /\ libScan.pc = "begun"
    /\ libScan' = [libScan EXCEPT !.pc = "list", !.installed = TRUE]
    /\ partitions' = IF libScan.force THEN [partitions EXCEPT ![libScan.a] = EmptyPart] ELSE partitions
    /\ lastStored' = IF libScan.force THEN [lastStored EXCEPT ![libScan.a] = [m \in FitModels |-> NoScan]] ELSE lastStored
    /\ UNCHANGED <<sharedMap, finalResults, scanTask, singleScan, persistLock, knownBefore,
                   storedMeanwhile, scanBounds>>

\* fit_stop_scan sets the flag of the scan that installed one last
LibStop ==
    /\ libScan.pc # "idle" /\ libScan.installed /\ ~libScan.stop
    /\ libScan' = [libScan EXCEPT !.stop = TRUE]
    /\ UNCHANGED <<partitions, sharedMap, finalResults, scanTask, singleScan, persistLock,
                   scanBounds, scanHistory>>

\* a helper that crashed on the model left an error and no points
HelperCrashed(e) == e.has /\ e.err /\ e.pts = {}
\* scan_library up to its spawned tasks: crashed and finished models are only
\* stored again under the canonical key
LibList ==
    /\ libScan.pc = "list" /\ libScan' = [libScan EXCEPT !.pc = "spawned"]
    /\ LET part == partitions[libScan.a]
           kept == {m \in FitModels : FindScan(part, m).has
                                   /\ (HelperCrashed(FindScan(part, m)) \/ MissingLabels(FindScan(part, m)) = {})}
       IN  /\ sharedMap' = [m \in FitModels |-> IF ~libScan.stop /\ m \in kept
                                        THEN [k |-> FindScan(part, m), p |-> NoScan] ELSE part[m]]
           /\ scanTask' = [m \in FitModels |-> IF libScan.stop \/ m \in kept THEN NoTask ELSE [NoTask EXCEPT !.pc = "wait"]]
           /\ knownBefore' = [m \in FitModels |-> FindScan(part, m).pts]
    /\ storedMeanwhile' = FALSE
    /\ UNCHANGED <<partitions, finalResults, singleScan, persistLock, lastStored, scanBounds>>

\* final_results starts as the map is once all tasks have been spawned
LibClone ==
    /\ libScan.pc = "spawned" /\ libScan' = [libScan EXCEPT !.pc = "collect"] /\ finalResults' = sharedMap
    /\ UNCHANGED <<partitions, sharedMap, scanTask, singleScan, persistLock, scanBounds,
                   scanHistory>>

TasksWorking == {m \in FitModels : scanTask[m].pc \in {"probe", "persist"}}

TaskStart(m) ==
    /\ scanTask[m].pc = "wait" /\ (Cardinality(TasksWorking) < ScanPermits \/ libScan.stop)
    /\ LET e == FindScan(sharedMap, m) IN
       scanTask' = [scanTask EXCEPT ![m] =
            IF libScan.stop THEN [NoTask EXCEPT !.pc = "gone"]
            ELSE IF <<libScan.a, m>> \in SkipPairs THEN [NoTask EXCEPT !.pc = "persist", !.found = SkippedEntry]
            ELSE [pc |-> "probe", found |-> e, pts |-> e.pts, err |-> FALSE, tried |-> {}]]
    /\ UNCHANGED <<partitions, libScan, sharedMap, finalResults, singleScan, persistLock,
                   scanBounds, scanHistory>>

\* scan_single_model_full's loop: the stop flag is asked before each point
TaskProbe(m) ==
    LET left == MissingLabels(scanTask[m].found) \ scanTask[m].tried IN
    /\ scanTask[m].pc = "probe"
    /\ IF libScan.stop \/ left = {}
       THEN scanTask' = [scanTask EXCEPT ![m].pc = "persist"] /\ UNCHANGED probeFails
       ELSE LET l == FirstLabel(left) IN
            \/ scanTask' = [scanTask EXCEPT ![m].tried = @ \cup {l}, ![m].pts = @ \cup {l}] /\ UNCHANGED probeFails
            \/ scanTask' = [scanTask EXCEPT ![m].tried = @ \cup {l}, ![m].err = TRUE] /\ ProbeFails
    /\ UNCHANGED <<partitions, libScan, sharedMap, finalResults, singleScan, persistLock,
                   libScans, singles, scanHistory>>

TaskResult(m) == IF scanTask[m].found.skip THEN SkippedEntry ELSE ScanEntry(scanTask[m].pts, scanTask[m].err)

\* persist_single_model_scan with the shared map: the map becomes the
\* partition, whatever others stored in it since
TaskPersist(m) ==
    /\ scanTask[m].pc = "persist" /\ scanTask' = [scanTask EXCEPT ![m].pc = "done"]
    /\ sharedMap' = InsertResult(sharedMap, m, TaskResult(m))
    /\ partitions' = [partitions EXCEPT ![libScan.a] = sharedMap']
    /\ lastStored' = [lastStored EXCEPT ![libScan.a] = [n \in FitModels |-> NoScan]]
    /\ UNCHANGED <<libScan, finalResults, singleScan, persistLock, knownBefore, storedMeanwhile,
                   scanBounds>>

\* a finished task's result is added under its path
LibCollect(m) ==
    /\ libScan.pc = "collect" /\ scanTask[m].pc \in {"done", "gone"} /\ scanTask' = [scanTask EXCEPT ![m].pc = "none"]
    /\ finalResults' = IF scanTask[m].pc = "done" THEN [finalResults EXCEPT ![m].p = TaskResult(m)] ELSE finalResults
    /\ UNCHANGED <<partitions, libScan, sharedMap, singleScan, persistLock, scanBounds,
                   scanHistory>>

LibEnd ==
    /\ libScan.pc = "collect" /\ \A m \in FitModels : scanTask[m].pc = "none"
    /\ partitions' = IF \A m \in FitModels : ~FindScan(finalResults, m).has THEN partitions
                     ELSE [partitions EXCEPT ![libScan.a] = finalResults]
    /\ lastStored' = [lastStored EXCEPT ![libScan.a] = [m \in FitModels |-> NoScan]]
    /\ libScan' = NoLib /\ sharedMap' = EmptyPart /\ finalResults' = EmptyPart /\ scanTask' = [m \in FitModels |-> NoTask]
    /\ knownBefore' = [m \in FitModels |-> {}] /\ storedMeanwhile' = FALSE
    /\ UNCHANGED <<singleScan, persistLock, scanBounds>>

-----------------------------------------------------------------------------
(* Single scans *)

SingleStart(s, a, m, force) ==
    /\ singleScan[s].pc = "idle" /\ \A r \in ScanIds : r < s => singleScan[r].pc # "idle"
    /\ singles < MaxSingles /\ singles' = singles + 1
    /\ <<a, m>> \notin SkipPairs
    /\ LET e == IF force THEN NoScan ELSE FindScan(partitions[a], m) IN
       /\ ~(e.has /\ MissingLabels(e) = {})
       /\ singleScan' = [singleScan EXCEPT ![s] = [NoSingle EXCEPT !.pc = "probe", !.a = a, !.m = m,
                                                        !.pts = e.pts, !.todo = MissingLabels(e)]]
    /\ UNCHANGED <<partitions, libScan, sharedMap, finalResults, scanTask, persistLock,
                   libScans, probeFails, scanHistory>>

\* its stop flag is its own and never set: every missing point is probed, and
\* some fail
SingleProbe(s) ==
    /\ singleScan[s].pc = "probe"
    /\ \/ singleScan' = [singleScan EXCEPT ![s].pc = "lock", ![s].pts = @ \cup singleScan[s].todo, ![s].todo = {}]
          /\ UNCHANGED probeFails
       \/ /\ ProbeFails
          /\ \E l \in singleScan[s].todo :
                singleScan' = [singleScan EXCEPT ![s].pc = "lock", ![s].pts = @ \cup (singleScan[s].todo \ {l}),
                                         ![s].err = TRUE, ![s].todo = {}]
    /\ UNCHANGED <<partitions, libScan, sharedMap, finalResults, scanTask, persistLock,
                   libScans, singles, scanHistory>>

SingleReadsUnlocked(s) ==   \* variant: the read-modify-write is not serialized
    /\ singleScan[s].pc = "lock" /\ UNCHANGED persistLock
    /\ singleScan' = [singleScan EXCEPT ![s].pc = "store", ![s].read = partitions]
    /\ UNCHANGED <<partitions, libScan, sharedMap, finalResults, scanTask, scanBounds,
                   scanHistory>>
\* persist_single_model_scan without a shared map: read and write under the lock
SingleReads(s) ==
    /\ singleScan[s].pc = "lock" /\ persistLock = 0 /\ persistLock' = s
    /\ singleScan' = [singleScan EXCEPT ![s].pc = "store", ![s].read = partitions]
    /\ UNCHANGED <<partitions, libScan, sharedMap, finalResults, scanTask, scanBounds,
                   scanHistory>>

SingleStores(s) ==
    LET a == singleScan[s].a  m == singleScan[s].m  e == ScanEntry(singleScan[s].pts, singleScan[s].err) IN
    /\ singleScan[s].pc = "store" /\ persistLock' = 0
    /\ partitions' = [singleScan[s].read EXCEPT ![a] = InsertResult(@, m, e)]
    /\ storedMeanwhile' = (libScan.pc \in {"spawned", "collect"} \/ storedMeanwhile)
    /\ lastStored' = IF libScan.pc = "idle" THEN [lastStored EXCEPT ![a][m] = e]
                     ELSE [b \in FitAdapters |-> [n \in FitModels |-> NoScan]]
    /\ singleScan' = [singleScan EXCEPT ![s] = NoSingle]
    /\ UNCHANGED <<libScan, sharedMap, finalResults, scanTask, knownBefore, scanBounds>>

\* The app is closed: scans end, the file stays
ScanCrash ==
    /\ libScan.pc # "idle"
    /\ libScan' = NoLib /\ sharedMap' = EmptyPart /\ finalResults' = EmptyPart /\ scanTask' = [m \in FitModels |-> NoTask]
    /\ singleScan' = [s \in ScanIds |-> NoSingle] /\ persistLock' = 0
    /\ knownBefore' = [m \in FitModels |-> {}] /\ storedMeanwhile' = FALSE
    /\ UNCHANGED <<partitions, lastStored, scanBounds>>

ScanNext ==
    \/ \E a \in FitAdapters : \/ \E force \in BOOLEAN : LibStart(a, force)
                           \/ \E s \in ScanIds, m \in FitModels, force \in BOOLEAN : SingleStart(s, a, m, force)
    \/ LibInstall \/ LibStop \/ LibList \/ LibClone \/ LibEnd \/ ScanCrash
    \/ \E m \in FitModels : TaskStart(m) \/ TaskProbe(m) \/ TaskPersist(m) \/ LibCollect(m)
    \/ \E s \in ScanIds : SingleProbe(s) \/ SingleReads(s) \/ SingleStores(s)
ScanSpec == ScanInit /\ [][ScanNext]_scanVars

-----------------------------------------------------------------------------
(* Properties *)

ScanTypeOK ==
    /\ libScan.a \in FitAdapters /\ libScan.pc \in {"idle", "begun", "list", "spawned", "collect"}
    /\ persistLock \in ScanIds \cup {0}
    /\ \A m \in FitModels : scanTask[m].pc \in {"none", "wait", "probe", "persist", "done", "gone"}

\* What single scans stored stays until one of the same model stores again or
\* a library scan runs: scans of other models and of other adapters, however
\* they overlap, do not write their own older copy of the file over it.
SingleResultsStay ==
    \A a \in FitAdapters, m \in FitModels :
        lastStored[a][m].has => FindScan(partitions[a], m) = lastStored[a][m]

\* An incremental library scan, stopped or not, never loses a point that was
\* known when it began, neither while it runs nor when it ends.
KnownPointsStay ==
    (libScan.pc \in {"spawned", "collect"} /\ ~storedMeanwhile) =>
        \A m \in FitModels : knownBefore[m] \subseteq FindScan(partitions[libScan.a], m).pts
                          /\ (libScan.pc = "collect" => knownBefore[m] \subseteq FindScan(finalResults, m).pts)

\* The results a library scan is about to write hold, for every model its
\* task finished, one entry at least that has what the task found.
ResultsAreCollected ==
    libScan.pc = "collect" =>
        \A m \in FitModels : (scanTask[m].pc = "none" /\ scanTask[m].tried # {}) =>
            \/ finalResults[m].p.has /\ scanTask[m].pts \subseteq finalResults[m].p.pts
            \/ finalResults[m].k.has /\ scanTask[m].pts \subseteq finalResults[m].k.pts

ScanInv == ScanTypeOK /\ SingleResultsStay /\ KnownPointsStay /\ ResultsAreCollected

\* fit_scanner.rs:1744: the results of the scan are merged with the existing
\* data of the models that were skipped.  Of a model that was scanned, lookups
\* then find the new points.  (Violated: the model's old entry stays under its
\* canonical key, beside the new one under the path, and is found first.)
ScannedPointsAreFound ==
    (libScan.pc = "collect" /\ ~storedMeanwhile /\ \A m \in FitModels : scanTask[m].pc = "none") =>
        \A m \in FitModels : scanTask[m].tried # {} => scanTask[m].pts \subseteq FindScan(finalResults, m).pts
=============================================================================
