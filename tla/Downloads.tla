----------------------------- MODULE Downloads -----------------------------
(***************************************************************************)
(* The download manager: a queue of tasks behind one read/write lock, a    *)
(* worker per start or resume that appends to <dest>.part, the integrity   *)
(* gate, the joint renaming of the shards of a quant, the task rows and    *)
(* the batch file kept on disk for recovery, and the restart that reads    *)
(* them back.  A step is one hold of the lock or one file operation.       *)
(* A file f is Size[f] chunks, each "ok" or "bad" (a hole, or corrupted).      *)
(***************************************************************************)
EXTENDS Integers, Sequences, FiniteSets, Functions

CONSTANTS
    Shards,         \* the files of the one sharded quant
    Singles,        \* model files that are a quant of their own
    Packs,          \* archives that are extracted after the download
    Providers,      \* those of Packs that are engine packs
    Size,           \* chunks of each file (total_bytes)
    MaxConcurrent,  \* DEFAULT_MAX_CONCURRENT
    MaxTasks,       \* bound: tasks ever created
    MaxWorkers,     \* bound: workers at the same time
    Plans           \* bound: how often events of each kind may happen together

Kinds == {"start", "pause", "cancel", "crash", "fault", "bump", "recover"}

Files   == Shards \cup Singles \cup Packs

ASSUME DownloadsAssumption ==
    /\ Shards \cap (Singles \cup Packs) = {} /\ Singles \cap Packs = {} /\ Providers \subseteq Packs
    /\ IsFiniteSet(Files) /\ "none" \notin Files
    /\ Size \in [Files -> Nat \ {0}] /\ MaxConcurrent \in Nat \ {0}
    /\ MaxTasks \in Nat /\ MaxWorkers \in Nat
    /\ Plans \subseteq [Kinds -> Nat]

Ids     == 1 .. MaxTasks
Absent  == <<"absent">>
NoRow   == -1    \* rows[t] = NoRow: the manifest has no row of t

VARIABLES
    app,      \* "up", or "starting": after a restart, recovery has not run
    status,   \* DownloadTask.status by id, "none" when there is no such task
    job,      \* the file and batch a task is for (also in its manifest row)
    got,      \* downloaded_bytes, counted up to the size
    prio,     \* priority (1: default, 0: moved ahead)
    batches,  \* registered quant batches, in memory and in the batch file
    worker,   \* the running workers
    rows,     \* download_tasks.json: claimed bytes by task
    gathered, \* what the recovery read from the rows before it took the lock
    part,     \* the .part files
    final,    \* the finished files
    trash,    \* .part files a cancel is about to delete
    spent,    \* events used of Limit
    shared,   \* history: a worker set out to write a file that another one had in hand
    unvouched \* history: shards a batch renamed that no task of it had completed

vars == <<app, status, job, got, prio, batches, worker, rows, gathered,
          part, final, trash, spent, shared, unvouched>>
memory == <<app, status, job, got, prio, batches, gathered>>
disk == <<rows, part, final>>
history == <<shared, unvouched>>

Idle == [t |-> 0, pc |-> "gone", off |-> 0, pos |-> 0, fresh |-> 0,
         on |-> "none", seen |-> <<>>]
Writing(w) == worker[w].pc \in {"request", "stream"}
Live(t) == status[t] \in {"Queued", "Downloading", "Paused"}
FileOf(t) == job[t].file
Len0(f) == IF part[f] = Absent THEN 0 ELSE Len(part[f])
(* resume_offset(partial_len(dest), total): the file is never longer here  *)
Offset(f) == Len0(f)
Whole(f) == Len0(f) = Size[f] /\ \A i \in 1 .. Size[f] : part[f][i] = "ok"
Spend(k) ==
    /\ \E p \in Plans : \A j \in Kinds : p[j] >= spent[j] + (IF j = k THEN 1 ELSE 0)
    /\ spent' = [spent EXCEPT ![k] = @ + 1]

Init ==
    /\ app = "up" /\ status = [t \in Ids |-> "none"]
    /\ job = [t \in Ids |-> [file |-> "none", batch |-> 0]]
    /\ got = [t \in Ids |-> 0] /\ prio = [t \in Ids |-> 1] /\ batches = {}
    /\ worker = [w \in 1 .. MaxWorkers |-> Idle]
    /\ rows = [t \in Ids |-> NoRow] /\ gathered = {}
    /\ part = [f \in Files |-> Absent] /\ final = [f \in Files |-> "absent"]
    /\ trash = {} /\ spent = [k \in Kinds |-> 0] /\ shared = FALSE /\ unvouched = {}

-----------------------------------------------------------------------------
(* Commands *)

FreeWorkers == {w \in 1 .. MaxWorkers : worker[w].pc = "gone"}
(* tokio::spawn(download_worker) for the tasks of ts *)
Spawn(ts) ==
    LET at == CHOOSE h \in Injection(ts, FreeWorkers) : TRUE IN
    /\ ExistsInjection(ts, FreeWorkers)
    /\ worker' = [w \in 1 .. MaxWorkers |->
            IF \E t \in ts : at[t] = w
            THEN [Idle EXCEPT !.t = CHOOSE t \in ts : at[t] = w, !.pc = "wait"]
            ELSE worker[w]]

HasActiveTask(f) == \E t \in Ids : Live(t) /\ FileOf(t) = f

(* generate_task_id for each of the jobs: a function from fresh ids to them *)
FreshIds == {t \in Ids : job[t].file = "none"}
Fit(jobs) == ExistsInjection(jobs, FreshIds)
Named(jobs) ==
    LET id == CHOOSE h \in Injection(jobs, FreshIds) : TRUE
    IN  [t \in {id[j] : j \in jobs} |-> CHOOSE j \in jobs : id[j] = t]

(* start_download: queued at nothing (a pack: at what its .part holds),    *)
(* with a row and a worker                                                 *)
Create(jobs) ==
    /\ Fit(jobs)
    /\ LET new == Named(jobs)
           have(t) == IF new[t].file \in Packs THEN Offset(new[t].file) ELSE 0
       IN  /\ job' = [t \in Ids |-> IF t \in DOMAIN new THEN new[t] ELSE job[t]]
           /\ status' = [t \in Ids |-> IF t \in DOMAIN new THEN "Queued" ELSE status[t]]
           /\ got' = [t \in Ids |-> IF t \in DOMAIN new THEN have(t) ELSE got[t]]
           /\ rows' = [t \in Ids |-> IF t \in DOMAIN new THEN have(t) ELSE rows[t]]
           /\ Spawn(DOMAIN new)

(* has_active_toolchain_download and its like: also while extracting *)
PackBusy(f) == \E t \in Ids : FileOf(t) = f /\ (Live(t) \/ status[t] = "Scanning")

Enqueue(f) ==
    /\ Spend("start")
    /\ Create({[file |-> f, batch |-> 0]})
    /\ UNCHANGED <<app, prio, batches, gathered, part, final, trash, history>>

StartModel(f) == f \in Singles /\ ~HasActiveTask(f) /\ Enqueue(f)
StartArchive(f) == f \in Packs \ Providers /\ ~PackBusy(f) /\ Enqueue(f)
StartProvider(f) == f \in Providers /\ ~PackBusy(f) /\ Enqueue(f)

(* retry_toolchain_extract: the archive is there; older tasks are dropped    *)
(* and no row is written                                                    *)
Reextract(f) ==
    /\ f \in Packs \ Providers /\ ~PackBusy(f) /\ final[f] # "absent"
    /\ FreshIds # {} /\ FreeWorkers # {} /\ Spend("start")
    /\ LET new == CHOOSE t \in FreshIds : TRUE
           v == CHOOSE w \in FreeWorkers : TRUE
       IN  /\ job' = [job EXCEPT ![new] = [file |-> f, batch |-> 0]]
           /\ status' = [t \in Ids |-> IF t = new THEN "Scanning"
                                       ELSE IF FileOf(t) = f THEN "none" ELSE status[t]]
           /\ got' = [got EXCEPT ![new] = Size[f]]
           /\ worker' = [worker EXCEPT ![v].t = new, ![v].pc = "extract"]
    /\ UNCHANGED <<app, prio, batches, rows, gathered, part, final, trash, history>>

(* start_quant_download: the batch is registered first, then a task for     *)
(* each shard that is neither finished nor active                           *)
StartQuant ==
    /\ Shards # {} /\ Spend("start")
    /\ LET b == spent["start"] + 1
           todo == {f \in Shards : final[f] = "absent" /\ ~HasActiveTask(f)}
       IN  /\ batches' = batches \cup {b}
           /\ Create({[file |-> f, batch |-> b] : f \in todo})
    /\ UNCHANGED <<app, prio, gathered, part, final, trash, history>>

Pause(t) ==
    /\ status[t] = "Downloading" /\ Spend("pause")
    /\ status' = [status EXCEPT ![t] = "Paused"]
    /\ UNCHANGED <<app, job, got, prio, batches, worker, rows, gathered, part, final, trash, history>>

(* resume_download: a paused task, or a failed pack that kept its bytes *)
Resume(t) ==
    /\ \/ status[t] = "Paused"
       \/ status[t] = "Failed" /\ FileOf(t) \in Packs /\ (got[t] > 0 \/ Len0(FileOf(t)) > 0)
    /\ LET have == IF status[t] = "Paused" \/ Len0(FileOf(t)) > got[t] THEN Offset(FileOf(t)) ELSE got[t]
       IN  got' = [got EXCEPT ![t] = have] /\ rows' = [rows EXCEPT ![t] = have]
    /\ status' = [status EXCEPT ![t] = "Queued"]
    /\ Spawn({t})
    /\ UNCHANGED <<app, job, prio, batches, gathered, part, final, trash, spent, history>>

(* cancel_task: the whole batch, or the one task *)
Cancel(t) ==
    /\ status[t] # "none" /\ Spend("cancel")
    /\ LET b == job[t].batch
           hit == IF b = 0 THEN {t} ELSE {u \in Ids : status[u] # "none" /\ job[u].batch = b}
       IN  /\ status' = [u \in Ids |-> IF u \in hit THEN "Failed" ELSE status[u]]
           /\ rows' = [u \in Ids |-> IF u \in hit THEN NoRow ELSE rows[u]]
           /\ batches' = batches \ {b}
           /\ trash' = trash \cup {FileOf(u) : u \in hit}
                             \cup (IF b \in batches THEN Shards ELSE {})
    /\ UNCHANGED <<app, job, got, prio, worker, gathered, part, final, history>>

(* Windows drops the name of an open file: its writer keeps a nameless one *)
Unlink(f) ==
    [w \in 1 .. MaxWorkers |->
        IF Writing(w) /\ worker[w].on = "part" /\ FileOf(worker[w].t) = f
        THEN [worker[w] EXCEPT !.on = "lost"] ELSE worker[w]]

(* cancel_download 200 ms later: delete_partial_files *)
EmptyTrash(f) ==
    /\ f \in trash /\ trash' = trash \ {f}
    /\ part' = [part EXCEPT ![f] = Absent] /\ worker' = Unlink(f)
    /\ UNCHANGED <<memory, rows, final, spent, history>>

(* set_task_priority, bump_priority_up and bump_priority_down *)
Reprioritize(t, p) ==
    /\ status[t] \in {"Queued", "Paused"} /\ prio[t] # p /\ Spend("bump")
    /\ prio' = [prio EXCEPT ![t] = p]
    /\ UNCHANGED <<app, status, job, got, batches, worker, rows, gathered, part, final, trash, history>>

-----------------------------------------------------------------------------
(* Batches and recovery *)

ReadyPartOnly(f) == Len0(f) = Size[f]   \* variant: a renamed shard does not count
(* part_bytes_ready: finished, or a .part of full length *)
Ready(f) == final[f] # "absent" \/ Len0(f) = Size[f]

(* batch_has_in_flight under the statuses st and jobs jb *)
InFlight(b, st, jb) ==
    \E t \in Ids : /\ st[t] # "none" /\ jb[t].batch = b
                   /\ \/ st[t] \in {"Queued", "Downloading"}
                      \/ st[t] = "Paused" /\ ~Ready(jb[t].file)

(* a task of one of the batches bs has brought f through the gate *)
Vouched(bs, f, st, jb) ==
    \E t \in Ids : st[t] = "Completed" /\ jb[t].file = f /\ jb[t].batch \in bs

(* try_finalize_quant_batch_sync of the batches bs, under st and jb: every  *)
(* shard is renamed, or none                                                *)
FinalizeBatches(bs, st, jb, rs, ws) ==
    LET done == {b \in bs : ~InFlight(b, st, jb) /\ \A f \in Shards : Ready(f)}
        moved(f) == done # {} /\ f \in Shards /\ final[f] = "absent"
        closed(t) == st[t] # "none" /\ jb[t].batch \in done
    IN  /\ batches' = batches \ done
        /\ final' = [f \in Files |-> IF moved(f) THEN IF Whole(f) THEN "whole" ELSE "bad"
                                     ELSE final[f]]
        /\ part' = [f \in Files |-> IF moved(f) THEN Absent ELSE part[f]]
        /\ status' = [t \in Ids |-> IF closed(t) THEN "Completed" ELSE st[t]]
        /\ rows' = [t \in Ids |-> IF closed(t) THEN NoRow ELSE rs[t]]
        /\ worker' = [w \in 1 .. MaxWorkers |->
              IF ws[w].pc # "gone" /\ ws[w].on = "part" /\ moved(jb[ws[w].t].file)
              THEN [ws[w] EXCEPT !.on = "final"] ELSE ws[w]]
        /\ unvouched' = unvouched \cup {f \in Shards : moved(f) /\ ~Vouched(done, f, st, jb)}

ReconcileRowsOnly(found) ==     \* variant: shards without a row are not queued again
    LET back == {r.t : r \in found}
        st == [t \in Ids |-> IF t \in back THEN "Paused" ELSE status[t]]
    IN  /\ UNCHANGED <<job, got, prio>>
        /\ FinalizeBatches(batches, st, job, rows, worker)

(* insert_recovered_tasks of found, then requeue_orphaned_batch_parts, then *)
(* try_finalize_pending_batches, in one hold of the lock                    *)
Reconcile(found) ==
    LET back == {r.t : r \in found}
        st1 == [t \in Ids |-> IF t \in back THEN "Paused" ELSE status[t]]
        covered(b, f) == \E t \in Ids :
            /\ st1[t] \in {"Queued", "Downloading", "Paused", "Completed"}
            /\ job[t] = [file |-> f, batch |-> b]
        orphans == {[file |-> f, batch |-> b] : f \in {g \in Shards : ~Ready(g)}, b \in batches}
        lost == {j \in orphans : ~covered(j.batch, j.file)}
        new == Named(lost)
        isNew(t) == t \in DOMAIN new
        jb == [t \in Ids |-> IF isNew(t) THEN new[t] ELSE job[t]]
        st2 == [t \in Ids |-> IF isNew(t) THEN "Paused" ELSE st1[t]]
        rs == [t \in Ids |-> IF isNew(t) THEN Offset(new[t].file) ELSE rows[t]]
    IN  /\ Fit(lost)
        /\ job' = jb
        /\ got' = [t \in Ids |-> IF isNew(t) THEN Offset(new[t].file)
                                 ELSE IF t \in back THEN (CHOOSE r \in found : r.t = t).off
                                 ELSE got[t]]
        /\ prio' = [t \in Ids |-> IF t \in back THEN 1 ELSE prio[t]]
        /\ FinalizeBatches(batches, st2, jb, rs, worker)

(* recover_orphaned_batch_parts, asked for in the window *)
RecoverCommand ==
    /\ Spend("recover") /\ Reconcile({})
    /\ UNCHANGED <<app, gathered, trash, shared>>

(* The process dies at any point and is started again: the tasks are gone,  *)
(* the batch file is loaded, deletions still due are forgotten              *)
Restart ==
    /\ Spend("crash") /\ app' = "starting"
    /\ status' = [t \in Ids |-> "none"] /\ got' = [t \in Ids |-> 0]
    /\ prio' = [t \in Ids |-> 1] /\ gathered' = {} /\ trash' = {}
    /\ worker' = [w \in 1 .. MaxWorkers |-> Idle]
    /\ UNCHANGED <<job, batches, rows, part, final, history>>

(* ... also between two of the renames of a batch *)
RestartRenaming(b, some) ==
    /\ some \subseteq {f \in Shards : final[f] = "absent"}
    /\ \E w \in 1 .. MaxWorkers : worker[w].pc = "place" /\ job[worker[w].t].batch = b
    /\ b \in batches /\ ~InFlight(b, status, job) /\ \A f \in Shards : Ready(f)
    /\ Spend("crash") /\ app' = "starting"
    /\ status' = [t \in Ids |-> "none"] /\ got' = [t \in Ids |-> 0]
    /\ prio' = [t \in Ids |-> 1] /\ gathered' = {} /\ trash' = {}
    /\ worker' = [w \in 1 .. MaxWorkers |-> Idle]
    /\ final' = [f \in Files |-> IF f \notin some THEN final[f]
                                 ELSE IF Whole(f) THEN "whole" ELSE "bad"]
    /\ part' = [f \in Files |-> IF f \in some THEN Absent ELSE part[f]]
    /\ unvouched' = unvouched \cup {f \in some : ~Vouched({b}, f, status, job)}
    /\ UNCHANGED <<job, batches, rows, shared>>

(* gather_recovered_tasks, without the lock: a row of a task that never had *)
(* a byte is passed over (and stays in the manifest)                        *)
Gather ==
    /\ app = "starting" /\ app' = "gathered"
    /\ gathered' = {[t |-> t, off |-> Offset(FileOf(t))] :
            t \in {u \in Ids : rows[u] # NoRow /\ (rows[u] > 0 \/ Len0(FileOf(u)) > 0)}}
    /\ UNCHANGED <<status, job, got, prio, batches, worker, disk, trash, spent, history>>

Recover ==
    /\ app = "gathered" /\ app' = "up" /\ gathered' = {}
    /\ Reconcile(gathered)
    /\ UNCHANGED <<trash, spent, shared>>

-----------------------------------------------------------------------------
(* The worker: download_worker *)

Goto(w, pc) == worker' = [worker EXCEPT ![w].pc = pc]
Quit(w) == worker' = [worker EXCEPT ![w] = Idle]
Active == {t \in Ids : status[t] = "Downloading"}
HigherWaitsOnTie(t) == \E u \in Ids \ {t} : status[u] = "Queued" /\ prio[u] <= prio[t]  \* variant
HigherWaits(t) == \E u \in Ids \ {t} : status[u] = "Queued" /\ prio[u] < prio[t]
Stopped(t) == status[t] \in {"Paused", "Failed"}        \* should_stop_worker

(* The slot check, under the read lock only; a sleeping worker whose task   *)
(* was stopped leaves                                                       *)
SlotFree(w) == Cardinality(Active) < MaxConcurrent /\ ~HigherWaits(worker[w].t)
FindSlot(w) ==
    /\ worker[w].pc = "wait" /\ SlotFree(w) /\ Goto(w, "claim")
    /\ UNCHANGED <<memory, disk, trash, spent, history>>
GiveUpUnasked(w) ==     \* variant: a worker that finds no slot leaves
    /\ worker[w].pc = "wait" /\ ~SlotFree(w) /\ Quit(w)
    /\ UNCHANGED <<memory, disk, trash, spent, history>>
GiveUp(w) ==
    /\ worker[w].pc = "wait" /\ ~SlotFree(w) /\ Stopped(worker[w].t) /\ Quit(w)
    /\ UNCHANGED <<memory, disk, trash, spent, history>>

(* the workers between the claim of f and its rename *)
Hands(f) == {w \in 1 .. MaxWorkers : /\ worker[w].t # 0 /\ FileOf(worker[w].t) = f
                                     /\ worker[w].pc \in {"open", "request", "stream", "complete",
                                                          "verify", "accept", "unrow", "place"}}

(* The claim, under the write lock: the .part decides where to go on *)
Claim(w) ==
    LET t == worker[w].t
        off == Offset(FileOf(t)) IN
    /\ worker[w].pc = "claim"
    /\ IF status[t] = "Queued"
       THEN /\ status' = [status EXCEPT ![t] = "Downloading"] /\ got' = [got EXCEPT ![t] = off]
            /\ worker' = [worker EXCEPT ![w].off = off,
                                        ![w].pc = IF off >= Size[FileOf(t)] THEN "complete" ELSE "open"]
            /\ shared' = (shared \/ (off < Size[FileOf(t)] /\ Hands(FileOf(t)) # {}))
       ELSE Quit(w) /\ UNCHANGED <<status, got, shared>>
    /\ UNCHANGED <<app, job, prio, batches, gathered, disk, trash, spent, unvouched>>

Writers(f) == {w \in 1 .. MaxWorkers : Writing(w) /\ FileOf(worker[w].t) = f /\ worker[w].on # "lost"}

(* Open and set_len at the offset of the claim *)
Open(w) ==
    LET f == FileOf(worker[w].t)
        old == IF part[f] = Absent THEN <<>> ELSE part[f]
    IN  /\ worker[w].pc = "open"
        /\ part' = [part EXCEPT ![f] = [i \in 1 .. worker[w].off |->
                        IF i <= Len(old) THEN old[i] ELSE "bad"]]
        /\ worker' = [worker EXCEPT ![w].pc = "request", ![w].pos = worker[w].off, ![w].on = "part"]
        /\ UNCHANGED <<memory, rows, final, trash, spent, history>>

(* The answer: the rest of the file, or all of it when Range is ignored *)
Answered(w) ==
    /\ worker[w].pc = "request" /\ Goto(w, "stream")
    /\ UNCHANGED <<memory, disk, trash, spent, history>>
AnsweredWhole(w) ==
    LET t == worker[w].t IN
    /\ worker[w].pc = "request" /\ worker[w].off > 0 /\ Spend("fault")
    /\ got' = [got EXCEPT ![t] = 0]
    /\ part' = [part EXCEPT ![FileOf(t)] = <<>>]
    /\ worker' = [worker EXCEPT ![w].pc = "stream", ![w].pos = 0, ![w].on = "part"]
    /\ UNCHANGED <<app, status, job, prio, batches, gathered, rows, final, trash, history>>

(* flush_download_progress, then leave the task where the stop put it *)
Flush(w) == got' = [got EXCEPT ![worker[w].t] =
                        IF @ + worker[w].fresh > Size[FileOf(worker[w].t)]
                        THEN Size[FileOf(worker[w].t)] ELSE @ + worker[w].fresh]
StopAsked(w) ==
    /\ worker[w].pc = "stream" /\ Stopped(worker[w].t)
    /\ Flush(w) /\ Quit(w)
    /\ UNCHANGED <<app, status, job, prio, batches, gathered, disk, trash, spent, history>>
Tick(w) ==
    /\ worker[w].pc = "stream" /\ worker[w].fresh > 0 /\ ~Stopped(worker[w].t)
    /\ Flush(w) /\ worker' = [worker EXCEPT ![w].fresh = 0]
    /\ UNCHANGED <<app, status, job, prio, batches, gathered, disk, trash, spent, history>>

Put(s, i, c) == [j \in 1 .. (IF Len(s) < i THEN i ELSE Len(s)) |->
                    IF j = i THEN c ELSE IF j <= Len(s) THEN s[j] ELSE "bad"]
(* A chunk arrives and is written where this worker's handle stands *)
Chunk(w, c) ==
    LET f == FileOf(worker[w].t) IN
    /\ worker[w].pc = "stream" /\ ~Stopped(worker[w].t) /\ worker[w].pos < Size[f]
    /\ IF c = "ok" THEN UNCHANGED spent ELSE Spend("fault")
    /\ worker' = [worker EXCEPT ![w].pos = @ + 1, ![w].fresh = @ + 1]
    /\ part' = IF worker[w].on = "part"
               THEN [part EXCEPT ![f] = Put(IF @ = Absent THEN <<>> ELSE @, worker[w].pos + 1, c)] ELSE part
    /\ UNCHANGED <<memory, rows, final, trash, history>>
StreamEnds(w) ==
    /\ worker[w].pc = "stream" /\ ~Stopped(worker[w].t) /\ worker[w].pos = Size[FileOf(worker[w].t)]
    /\ Flush(w) /\ worker' = [worker EXCEPT ![w].pc = "complete", ![w].fresh = 0]
    /\ UNCHANGED <<app, status, job, prio, batches, gathered, disk, trash, spent, history>>
Trouble(w) ==
    /\ worker[w].pc \in {"open", "request", "stream"} /\ Spend("fault") /\ Goto(w, "failing")
    /\ UNCHANGED <<memory, disk, trash, history>>

(* mark_failed: the row of a pack or of a shard is kept (written again)     *)
Fail(w) ==
    LET t == worker[w].t  keep == FileOf(t) \in Packs \/ job[t].batch # 0 IN
    /\ worker[w].pc = "failing"
    /\ status' = [status EXCEPT ![t] = "Failed"]
    /\ rows' = IF keep THEN [rows EXCEPT ![t] = got[t]] ELSE rows
    /\ IF keep THEN Quit(w) ELSE Goto(w, "forget")
    /\ UNCHANGED <<app, job, got, prio, batches, gathered, part, final, trash, spent, history>>

(* remove_task_from_manifest outside the lock: load, then save what was read *)
AfterRemoval == [forget |-> "gone", unrow |-> "place", unpack |-> "extract"]
LoadRows(w) ==
    /\ worker[w].pc \in DOMAIN AfterRemoval /\ worker[w].seen = <<>>
    /\ worker' = [worker EXCEPT ![w].seen = rows]
    /\ UNCHANGED <<memory, disk, trash, spent, history>>
SaveRows(w) ==
    /\ worker[w].pc \in DOMAIN AfterRemoval /\ worker[w].seen # <<>>
    /\ rows' = [worker[w].seen EXCEPT ![worker[w].t] = NoRow]
    /\ IF worker[w].pc = "forget" THEN Quit(w)
       ELSE worker' = [worker EXCEPT ![w].seen = <<>>, ![w].pc = AfterRemoval[@]]
    /\ UNCHANGED <<memory, part, final, trash, spent, history>>

(* mark_completed_worker: the byte count, under the lock *)
Complete(w) ==
    LET t == worker[w].t IN
    /\ worker[w].pc = "complete"
    /\ CASE status[t] # "Downloading" -> Quit(w) /\ UNCHANGED <<status, rows>>
         [] status[t] = "Downloading" /\ got[t] < Size[FileOf(t)] ->
              /\ status' = [status EXCEPT ![t] = "Failed"] /\ rows' = [rows EXCEPT ![t] = NoRow]
              /\ Quit(w)
         [] OTHER -> Goto(w, "verify") /\ UNCHANGED <<status, rows>>
    /\ UNCHANGED <<app, job, got, prio, batches, gathered, part, final, trash, spent, history>>

VerifyLength(w) ==      \* variant: the length is taken for the digest
    /\ worker[w].pc = "verify" /\ Goto(w, "accept")
    /\ UNCHANGED <<memory, disk, trash, spent, history>>

(* The integrity gate, without the lock: a wrong file is deleted *)
Verify(w) ==
    LET f == FileOf(worker[w].t)
        good == IF part[f] # Absent THEN Whole(f) ELSE final[f] = "whole"
    IN  /\ worker[w].pc = "verify"
        /\ IF good THEN Goto(w, "accept") /\ UNCHANGED <<part, final>>
           ELSE /\ part' = [part EXCEPT ![f] = Absent]
                /\ final' = IF part[f] # Absent THEN final ELSE [final EXCEPT ![f] = "absent"]
                /\ worker' = [Unlink(f) EXCEPT ![w].pc = "failing"]
        /\ UNCHANGED <<memory, rows, trash, spent, history>>

(* Completed under the lock, whatever the status has become; an archive of  *)
(* the toolchain or the app waits for its extraction                        *)
Accept(w) ==
    LET t == worker[w].t IN
    /\ worker[w].pc = "accept"
    /\ IF FileOf(t) \in Packs \ Providers THEN UNCHANGED status /\ Goto(w, "place")
       ELSE status' = [status EXCEPT ![t] = "Completed"] /\ Goto(w, "unrow")
    /\ UNCHANGED <<app, job, got, prio, batches, gathered, disk, trash, spent, history>>

(* A shard asks for its batch to be finalized *)
PlaceShard(w) ==
    /\ worker[w].pc = "place" /\ job[worker[w].t].batch # 0
    /\ FinalizeBatches(batches \cap {job[worker[w].t].batch}, status, job, rows, [worker EXCEPT ![w] = Idle])
    /\ UNCHANGED <<app, job, got, prio, gathered, trash, spent, shared>>

(* A single file is renamed at once; a pack is then extracted *)
PlaceFile(w) ==
    LET t == worker[w].t  f == FileOf(t) IN
    /\ worker[w].pc = "place" /\ job[t].batch = 0
    /\ final' = [final EXCEPT ![f] = IF part[f] = Absent THEN "absent"
                                     ELSE IF Whole(f) THEN "whole" ELSE "bad"]
    /\ part' = [part EXCEPT ![f] = Absent]
    /\ status' = [status EXCEPT ![t] = IF part[f] = Absent THEN "Failed"
                                       ELSE IF f \in Packs THEN "Scanning" ELSE @]
    /\ worker' = [v \in 1 .. MaxWorkers |->
            IF v = w THEN IF part[f] # Absent /\ f \in Packs THEN [Idle EXCEPT !.t = t, !.pc = "unpack"] ELSE Idle
            ELSE IF worker[v].pc # "gone" /\ worker[v].on = "part" /\ FileOf(worker[v].t) = f
                 THEN [worker[v] EXCEPT !.on = "final"] ELSE worker[v]]
    /\ UNCHANGED <<app, job, got, prio, batches, gathered, rows, trash, spent, history>>

(* finalize_toolchain_extract_worker, finalize_app_install_worker *)
Extracted(w, ok) ==
    /\ worker[w].pc = "extract"
    /\ IF ok THEN UNCHANGED spent ELSE Spend("fault")
    /\ status' = [status EXCEPT ![worker[w].t] = IF ok THEN "Completed" ELSE "Failed"]
    /\ Quit(w)
    /\ UNCHANGED <<app, job, got, prio, batches, gathered, part, final, trash, history>>
ExtractArchive(w, ok) ==
    worker[w].pc = "extract" /\ FileOf(worker[w].t) \notin Providers /\ Extracted(w, ok) /\ UNCHANGED rows
(* finalize_provider_pack_worker extracts, activates and writes its row back *)
ActivateProvider(w, ok) ==
    LET t == worker[w].t IN
    worker[w].pc = "extract" /\ FileOf(t) \in Providers /\ Extracted(w, ok) /\ rows' = [rows EXCEPT ![t] = got[t]]

-----------------------------------------------------------------------------
Step(w) ==
    \/ FindSlot(w) \/ GiveUp(w) \/ Claim(w) \/ Open(w) \/ Answered(w) \/ AnsweredWhole(w)
    \/ StopAsked(w) \/ Tick(w) \/ Chunk(w, "ok") \/ Chunk(w, "bad") \/ StreamEnds(w) \/ Trouble(w)
    \/ Fail(w) \/ LoadRows(w) \/ SaveRows(w) \/ Complete(w) \/ Verify(w) \/ Accept(w)
    \/ PlaceShard(w) \/ PlaceFile(w)
    \/ \E ok \in BOOLEAN : ExtractArchive(w, ok) \/ ActivateProvider(w, ok)

User ==
    \/ \E f \in Files : StartModel(f) \/ StartArchive(f) \/ StartProvider(f) \/ Reextract(f) \/ EmptyTrash(f)
    \/ \E t \in Ids : Pause(t) \/ Resume(t) \/ Cancel(t) \/ \E p \in 0 .. 1 : Reprioritize(t, p)
    \/ StartQuant \/ RecoverCommand

Next == User \/ Restart \/ (\E b \in batches : \E some \in SUBSET Shards : RestartRenaming(b, some))
         \/ Gather \/ Recover \/ \E w \in 1 .. MaxWorkers : Step(w)

Spec == Init /\ [][Next]_vars
FairSpec ==
    /\ Spec
    /\ WF_vars(Gather) /\ WF_vars(Recover)
    /\ \A w \in 1 .. MaxWorkers :
          WF_vars(FindSlot(w) \/ Claim(w) \/ Open(w) \/ Answered(w) \/ StopAsked(w) \/ Chunk(w, "ok") \/ StreamEnds(w) \/ Fail(w)
                  \/ GiveUp(w) \/ LoadRows(w) \/ SaveRows(w) \/ Complete(w) \/ Verify(w) \/ Accept(w)
                  \/ PlaceShard(w) \/ PlaceFile(w) \/ ExtractArchive(w, TRUE) \/ ActivateProvider(w, TRUE))
-----------------------------------------------------------------------------
(* Properties *)

Statuses == {"none", "Queued", "Downloading", "Paused", "Scanning", "Completed", "Failed"}
Pcs == {"gone", "wait", "claim", "open", "request", "stream", "complete", "verify", "accept",
        "unrow", "place", "unpack", "extract", "failing", "forget"}
SizeOf(t) == IF FileOf(t) \in Files THEN Size[FileOf(t)] ELSE 0

(* Every variable keeps its shape; in particular a .part never grows past   *)
(* the size of its file and no counter passes it.                           *)
DownloadsTypeOK ==
    /\ app \in {"up", "starting", "gathered"}
    /\ status \in [Ids -> Statuses] /\ prio \in [Ids -> 0 .. 1]
    /\ job \in [Ids -> [file : Files \cup {"none"}, batch : Nat]]
    /\ \A t \in Ids : got[t] \in 0 .. SizeOf(t) /\ rows[t] \in -1 .. SizeOf(t)
    /\ \A w \in 1 .. MaxWorkers : worker[w].pc \in Pcs /\
          (worker[w].pc # "gone" => worker[w].t \in Ids /\ worker[w].pos \in 0 .. SizeOf(worker[w].t))
    /\ \A f \in Files : /\ part[f] \in Seq({"ok", "bad"}) \cup {Absent} /\ Len0(f) <= Size[f]
                         /\ final[f] \in {"absent", "whole", "bad"}

(* A task shown as waiting, running or extracting is in somebody's hands: a *)
(* worker will still move it.  Status and worker are set apart, by pauses,  *)
(* resumes, late failures, recovery and several workers of one task.        *)
ActiveTaskHasWorker ==
    \A t \in Ids : \A st \in {"Queued", "Downloading", "Scanning"} : status[t] = st =>
        \E w \in 1 .. MaxWorkers : /\ worker[w].t = t
            /\ worker[w].pc \in CASE st = "Queued" -> {"wait", "claim"}
                                  [] st = "Downloading" -> {"open", "request", "stream", "complete",
                                                            "verify", "accept", "failing", "place"}
                                  [] st = "Scanning" -> {"unpack", "extract"}

DownloadsInv == DownloadsTypeOK /\ ActiveTaskHasWorker

(* The integrity gate: a finished file holds what was published, unless two *)
(* workers wrote it or a batch renamed a shard that no task of the batch    *)
(* had brought through the gate (one that failed or was paused at full      *)
(* length, one another batch has in hand, one a restart found), or a cancel *)
(* deleted a shard that another batch counted as completed.                 *)
FinishedFilesAreVerified ==
    \A f \in Files : final[f] = "bad" =>
        shared \/ (f \in Shards /\ (f \in unvouched \/ spent["cancel"] > 0))

(* Shards become visible together, also when the process died between the   *)
(* renames: a model is never offered with some of its shards.               *)
ShardsFinishTogether ==
    (app = "up" /\ ~shared /\ spent["fault"] = 0 /\ spent["cancel"] = 0) =>
        \A f, g \in Shards : final[f] # "absent" => final[g] # "absent"

(* No shard of a registered batch drops out of the queue: it is on disk in  *)
(* full or some task shows it, whatever died between its row and its bytes, *)
(* unless a cancel met a batch of an earlier session.                       *)
NoShardVanishes ==
    app = "up" /\ (spent["crash"] = 0 \/ spent["cancel"] = 0) =>
        \A b \in batches : \A f \in Shards :
            Ready(f) \/ \E t \in Ids : status[t] # "none" /\ FileOf(t) = f

(* A queued task is eventually taken by a worker, or leaves the queue.      *)
QueuedIsServed == \A t \in Ids : status[t] = "Queued" ~> status[t] # "Queued"

(* The comment at the claim: "bail if another worker already owns it".      *)
OneWriterPerPart == \A f \in Files : Cardinality(Writers(f)) <= 1
=============================================================================
