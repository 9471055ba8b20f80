--------------------------- MODULE RuntimeProofs ---------------------------
(***************************************************************************)
(* The background workers for every value of their constants: the worker   *)
(* that builds an engine, for every set of profiles and requests, every    *)
(* number of builds and every pattern of faults, and the brains that watch *)
(* the engines.  The foundry's invariants the runs check are not           *)
(* inductive: what is published depends on what each stage of the only     *)
(* live worker may rely on, and a cancel takes the queue because the slot  *)
(* always carries the number of that worker.  Last, the packs of tools     *)
(* that worker builds with, for any number of jobs, faults and crashes.    *)
(***************************************************************************)
EXTENDS Brains, Foundry, Toolchain, FiniteSetTheorems, TLAPS

Stages == {"idle", "accepted", "enqueue", "begin", "sync", "syncing", "merge", "patch", "guard",
           "prepare", "configure", "configureTrack", "configuring", "gate", "ask", "wait",
           "compile", "compileTrack", "compiling", "validate", "publish", "rotate", "copy",
           "copied", "finish", "advance", "closing", "failed", "wipe", "expired", "wedged", "ended"}
Phases == {"Configuring", "Building", "WaitingForConfirm", "GitClone", "GitPull", "Validating",
           "Failed", "Complete"}
Batch  == {"none", "running", "ok", "bad", "killed"}
SlotRecord   == [id : 1 .. MaxBuild, prof : Profiles, phase : Phases, auto : BOOLEAN]
WorkerRecord == [pc : Stages, id : 0 .. MaxBuild, prof : Profiles \cup {""},
                 pr : PRs \cup {NoPR}, also : BOOLEAN, after : 0 .. MaxBuild]
Queued       == [prof : Profiles, pr : PRs \cup {NoPR}]
Tree         == [key : BOOLEAN, out : Content \cup {Absent}]
Shelved      == Content \cup {Absent, Empty}
Tracking     == {"configureTrack", "compileTrack", "configuring", "compiling"}

(***************************************************************************)
(* The inductive invariant.                                                *)
(***************************************************************************)
Types ==
    /\ slot \in SlotRecord \cup {NoSlot}
    /\ holder \in {0} \cup Sessions
    /\ pending \in Seq(Queued) /\ ids \in 0 .. MaxBuild
    /\ worker \in [Sessions -> WorkerRecord]
    /\ child \in [Sessions -> Batch] /\ tracked \subseteq Sessions
    /\ src \in Content \cup {Absent}
    /\ tree \in [Profiles -> Tree]
    /\ release \in [Profiles -> Shelved] /\ prev \in [Profiles -> Shelved]
    /\ restoring \in {<<>>} \cup ({"remove", "rename"} \X Profiles)
    /\ spent \in [Kinds -> Nat]
    /\ published \subseteq Profiles /\ faults \in Nat

\* a batch is known only where it was started and is polled
BatchesWatched == \A w \in Sessions : child[w] # "none" => worker[w].pc \in Tracking

\* the workers that have filled the queue, or read it
Started == {w \in Sessions : worker[w].pc \notin {"idle", "accepted", "enqueue"}}
QueueBounded == Len(pending) <= Cardinality(Started)

\* a build's number is given out once, and its worker has a profile
Numbered(w) ==
    LET k == worker[w] IN
    /\ k.pc = "idle" => k.after = 0
    /\ k.pc # "idle" => k.id \in 1 .. ids /\ k.prof \in Profiles
    /\ k.pc \notin {"idle", "advance", "failed", "ended"} => k.after < k.id
    /\ k.pc = "advance" => k.after = k.id
    /\ k.pc \in {"accepted", "enqueue"} /\ k.also => Others(k.prof) # {}
Numbers ==
    /\ \A w \in Sessions : Numbered(w)
    /\ slot.id <= ids /\ slot.id \notin aborted /\ aborted \subseteq 1 .. ids

\* no build is accepted while a worker lives, and the slot is that worker's
OneWorker == \A v, w \in Sessions : Alive(v) /\ Alive(w) => v = w
SlotIsAttended == slot.id # 0 => \E w \in Sessions : Alive(w) /\ worker[w].id = slot.id
AfterAborted(w) == worker[w].after \in aborted => worker[w].pc \in {"advance", "failed", "ended"}
Alone == OneWorker /\ SlotIsAttended /\ \A w \in Sessions : AfterAborted(w)

\* what a stage may rely on, of checkout, build tree and Release
Merged(w)  == [pr |-> worker[w].pr, patched |-> FALSE]
Wanted(w)  == [pr |-> worker[w].pr, patched |-> TRUE]
Patched    == {"guard", "prepare", "configure", "gate", "ask", "wait", "compile"} \cup Tracking
Built      == {"validate", "publish", "rotate", "copy"}
SourceHas(w) ==
    /\ worker[w].pc = "merge" => src = Clean
    /\ worker[w].pc = "patch" => src = Merged(w)
    /\ worker[w].pc \in Patched => src = Wanted(w)
TreeHas(w) ==
    worker[w].pc \in Built \/ (worker[w].pc \in {"compileTrack", "compiling"} /\ child[w] = "ok")
        => tree[worker[w].prof].out \in {Wanted(w), Absent}
ReleaseHas(w) == ~touched /\ worker[w].pc = "copied" => release[worker[w].prof] = Wanted(w)
StagesKnow == \A w \in Sessions : SourceHas(w) /\ TreeHas(w) /\ ReleaseHas(w)

\* the checkout exists where it is edited, whoever else works on it
CheckedOut == \A w \in Sessions : worker[w].pc \in {"merge", "patch"} => src # Absent
RestoreIsSeen == restoring # <<>> => touched

\* where the last complete build of a published profile is
Kept(p) ==
    /\ faults = 0 => IF Copying(p) THEN Good(prev[p]) ELSE Good(release[p])
    /\ faults = 1 => Replacing(p) \/ Good(release[p]) \/ Good(prev[p])
BuildsKept == ~touched => \A p \in published : Kept(p)

FoundryInd ==
    /\ Types /\ BatchesWatched /\ QueueBounded /\ Numbers /\ CheckedOut /\ RestoreIsSeen
    /\ ~Early => Alone /\ StagesKnow /\ BuildsKept


(***************************************************************************)
(* What a step of a worker does to its record.                             *)
(***************************************************************************)
\* it goes to a stage, and nobody else does anything
Moves(w) ==
    /\ worker' \in [Sessions -> WorkerRecord]
    /\ \A v \in Sessions \ {w} : worker'[v] = worker[v]
    /\ worker'[w].id = worker[w].id /\ worker'[w].prof = worker[w].prof
    /\ worker'[w].pr = worker[w].pr /\ worker'[w].after = worker[w].after
    /\ worker'[w].also = worker[w].also

LEMMA Moved ==
    ASSUME Types, NEW w \in Sessions, NEW pc \in Stages, Goto(w, pc)
    PROVE  Moves(w) /\ worker'[w].pc = pc
<1> DEFINE r == [worker[w] EXCEPT !.pc = pc]
<1>1. worker[w] \in WorkerRecord /\ worker \in [Sessions -> WorkerRecord]  BY DEF Types
<1>2. /\ r \in WorkerRecord
      /\ r.pc = pc /\ r.id = worker[w].id /\ r.prof = worker[w].prof
      /\ r.pr = worker[w].pr /\ r.also = worker[w].also /\ r.after = worker[w].after
    BY <1>1 DEF WorkerRecord
<1>3. worker' = [worker EXCEPT ![w] = r]  BY DEF Goto
<1> HIDE DEF r
<1> QED  BY <1>1, <1>2, <1>3 DEF Moves

\* it takes the queued profile, or a new number
TakesQueued(w) ==
    /\ pending # <<>> /\ At(w, "copied") /\ pending' = Tail(pending)
    /\ worker' = [worker EXCEPT ![w] = [@ EXCEPT !.pc = "advance", !.after = worker[w].id,
                      !.prof = Head(pending).prof, !.pr = Head(pending).pr]]
    /\ UNCHANGED <<slot, ids, aborted, spent>>
TakesNumber(w) ==
    /\ At(w, "advance") /\ slot # NoSlot /\ ids < MaxBuild
    /\ ids' = ids + 1 /\ slot'.id = ids + 1
    /\ worker' = [worker EXCEPT ![w].pc = "begin", ![w].id = ids + 1]
    /\ UNCHANGED <<pending, aborted, spent>>
\* it goes on to another stage of its build, or ends with the slot given up
Works(w) ==
    /\ Moves(w) /\ UNCHANGED <<ids, aborted>> /\ spent'["early"] = spent["early"]
    /\ slot'.id \in {0, slot.id}
    /\ worker[w].pc \notin {"idle", "ended"}
    /\ worker'[w].pc \notin {"idle", "accepted", "advance"}
    /\ worker'[w].pc = "enqueue" => worker[w].pc = "accepted"
    /\ worker[w].pc = "failed" => worker'[w].pc = "ended"
    /\ worker[w].pc = "advance" => worker'[w].pc = "failed"
    /\ worker'[w].pc = "ended" => slot'.id # worker[w].id
    /\ \/ pending' \in {pending, <<>>}
       \/ worker[w].pc = "enqueue" /\ worker'[w].pc = "begin" /\ \E q : pending' = Append(pending, q)
\* no worker moves, the slot stays whose it is
Calm == /\ UNCHANGED <<worker, ids, aborted>> /\ spent'["early"] = spent["early"]
        /\ slot'.id = slot.id /\ pending' \in {pending, <<>>}

LEMMA Spent ==
    ASSUME Types, NEW k \in Kinds, Spend(k)
    PROVE  /\ spent' \in [Kinds -> Nat]
           /\ k # "early" => spent'["early"] = spent["early"]
<1>1. spent \in [Kinds -> Nat] /\ "early" \in Kinds /\ spent[k] + 1 \in Nat  BY DEF Types, Kinds
<1>2. spent' = [spent EXCEPT ![k] = spent[k] + 1]  BY DEF Spend
<1> QED  BY <1>1, <1>2

LEMMA TookQueued ==
    ASSUME Types, Numbers, NEW w \in Sessions, TakesQueued(w)
    PROVE  /\ worker' \in [Sessions -> WorkerRecord]
           /\ \A v \in Sessions \ {w} : worker'[v] = worker[v]
           /\ worker'[w].pc = "advance" /\ worker'[w].id = worker[w].id
           /\ worker'[w].after = worker[w].id /\ worker'[w].prof \in Profiles
<1> DEFINE q == Head(pending)
           r == [worker[w] EXCEPT !.pc = "advance", !.after = worker[w].id,
                                  !.prof = q.prof, !.pr = q.pr]
<1>1. q \in Queued  BY DEF TakesQueued, Types
<1>2. worker \in [Sessions -> WorkerRecord] /\ worker[w] \in WorkerRecord  BY DEF Types
<1>3. worker' = [worker EXCEPT ![w] = r]  BY DEF TakesQueued
<1> HIDE DEF q
<1>4. /\ r \in WorkerRecord
      /\ r.pc = "advance" /\ r.id = worker[w].id /\ r.after = worker[w].id /\ r.prof \in Profiles
    BY <1>1, <1>2 DEF WorkerRecord, Queued, Stages
<1> HIDE DEF r
<1> QED  BY <1>2, <1>3, <1>4

LEMMA TookNumber ==
    ASSUME Types, NEW w \in Sessions, TakesNumber(w)
    PROVE  /\ worker' \in [Sessions -> WorkerRecord]
           /\ \A v \in Sessions \ {w} : worker'[v] = worker[v]
           /\ worker'[w].pc = "begin" /\ worker'[w].id = ids + 1
           /\ worker'[w].prof = worker[w].prof /\ worker'[w].after = worker[w].after
<1> DEFINE n == ids + 1
           r == [worker[w] EXCEPT !.pc = "begin", !.id = n]
<1>1. n \in 0 .. MaxBuild  BY FoundryAssumption DEF Types, TakesNumber
<1>2. worker \in [Sessions -> WorkerRecord] /\ worker[w] \in WorkerRecord  BY DEF Types
<1>3. worker' = [worker EXCEPT ![w] = r]  BY <1>2 DEF TakesNumber
<1> HIDE DEF n
<1>4. /\ r \in WorkerRecord /\ r.pc = "begin" /\ r.id = n
      /\ r.prof = worker[w].prof /\ r.after = worker[w].after
    BY <1>1, <1>2 DEF WorkerRecord, Stages
<1> HIDE DEF r
<1> QED  BY <1>2, <1>3, <1>4 DEF n

LEMMA WorkerMoves ==
    ASSUME Types, Numbers, NEW w \in Sessions, Work(w) \/ Expire(w) \/ BatchTimesOut(w)
    PROVE  Works(w) \/ Calm \/ TakesQueued(w) \/ TakesNumber(w)
<1>0. NoSlot.id = 0 /\ (worker[w].pc # "idle" => worker[w].id # 0)
    BY DEF NoSlot, Numbers, Numbered, Types
<1>1. CASE Disarm(w)
    BY <1>0, <1>1, Moved DEF Disarm, At, trees, shelf, others, past, Works,
       Stages
<1>2. CASE Enqueue(w)
    BY <1>0, <1>2, Moved DEF Enqueue, At, procs, trees, shelf, others, past,
       Works, Stages
<1>3. CASE Begin(w)
    BY <1>0, <1>3, Moved DEF Begin, At, NoSlot, Quiet, shelf, others, procs,
       trees, past, Works, Stages
<1>4. CASE SyncStart(w)
    BY <1>0, <1>4, Moved DEF SyncStart, At, SetPhase, NoSlot, Quiet, shelf,
       others, procs, trees, past, Works, Stages, Types, SlotRecord
<1>5. CASE Sync(w)
    BY <1>0, <1>5, Moved, Spent DEF Sync, At, SetPhase, NoSlot, RollsBack,
       Quiet, shelf, others, procs, past, Works, Stages, Kinds, Types, SlotRecord
<1>6. CASE Merge(w)
    BY <1>0, <1>6, Moved, Spent DEF Merge, At, RollsBack, NoSlot, Quiet,
       shelf, others, procs, past, Works, Stages, Kinds
<1>7. CASE Patch(w)
    BY <1>0, <1>7, Moved, Spent DEF Patch, At, Fails, Quiet, shelf, others,
       procs, past, Works, Stages, Kinds
<1>8. CASE Guard(w)
    BY <1>0, <1>8, Moved DEF Guard, At, NoSlot, Quiet, shelf, others, procs,
       trees, past, Works, Stages
<1>9. CASE Prepare(w)
    BY <1>0, <1>9, Moved DEF Prepare, At, Quiet, shelf, others, procs, past,
       Works, Stages
<1>10. CASE Spawn(w)
    BY <1>0, <1>10, Moved DEF Spawn, NoSlot, At, Quiet, shelf, others, trees,
       past, Works, Stages
<1>11. CASE Track(w)
    BY <1>0, <1>11, Moved DEF Track, At, Quiet, shelf, others, trees, past,
       Works, Stages
<1>12. CASE BatchEnds(w)
    BY <1>0, <1>12, Moved, Spent DEF BatchEnds, Calm, Quiet, Kinds, past
<1>13. CASE Configured(w)
    BY <1>0, <1>13, Moved DEF Configured, At, Polled, ClearsOwn, NoSlot,
       RollsBack, Quiet, shelf, others, past, Works, Stages
<1>14. CASE Wipe(w)
    BY <1>0, <1>14, Moved DEF Wipe, At, Fails, Quiet, shelf, others, procs,
       past, Works, Stages
<1>15. CASE Gate(w)
    BY <1>0, <1>15, Moved DEF Gate, At, ClearsOwn, NoSlot, Quiet, shelf,
       others, trees, past, Works, Stages
<1>16. CASE Ask(w)
    BY <1>0, <1>16, Moved DEF Ask, At, NoSlot, SetPhase, Quiet, shelf, others,
       procs, trees, past, Works, Stages, Types, SlotRecord
<1>17. CASE Waited(w)
    BY <1>0, <1>17, Moved DEF Waited, At, NoSlot, Quiet, shelf, others, trees,
       past, Works, Stages
<1>18. CASE GiveUpWaiting(w)
    BY <1>0, <1>18, Moved DEF GiveUpWaiting, At, SetPhase, NoSlot, shelf,
       others, procs, trees, past, Works, Stages, Types, SlotRecord
<1>19. CASE Compiled(w)
    BY <1>0, <1>19, Moved DEF Compiled, At, Polled, Fails, RollsBack, NoSlot,
       Quiet, shelf, others, trees, past, Works, Stages
<1>20. CASE Validate(w)
    BY <1>0, <1>20, Moved DEF Validate, At, SetPhase, NoSlot, RollsBack,
       Quiet, shelf, others, procs, trees, past, Works, Stages, Types, SlotRecord
<1>21. CASE DropPrevious(w)
    BY <1>0, <1>21, Moved DEF DropPrevious, At, PublishFails, NoSlot, shelf,
       Publishing, others, procs, trees, past, Works, Stages
<1>22. CASE Rotate(w)
    BY <1>0, <1>22, Moved, Spent DEF Rotate, At, shelf, Publishing, others,
       procs, trees, Works, Stages, Kinds
<1>23. CASE Copy(w)
    BY <1>0, <1>23, Moved, Spent DEF Copy, At, PublishFails, NoSlot,
       Publishing, others, procs, trees, Works, Stages, Kinds
<1>24. CASE Activate(w)
    BY <1>0, <1>24, Moved DEF Activate, At, Publishing, others, procs, trees,
       shelf, past, Works, Stages, TakesQueued
<1>25. CASE Advance(w)
    BY <1>0, <1>25, Moved DEF Advance, At, MayAdvance, NoSlot, trees, shelf,
       others, past, Works, Stages, TakesNumber
<1>26. CASE Finish(w)
    BY <1>0, <1>26, Moved DEF Finish, At, SetPhase, NoSlot, Publishing,
       others, procs, trees, shelf, past, Works, Stages, Types, SlotRecord
<1>27. CASE Close(w)
    BY <1>0, <1>27, Moved DEF Close, At, NoSlot, Quiet, shelf, others, trees,
       past, Works, Stages
<1>28. CASE Cleanup(w)
    BY <1>0, <1>28, Moved DEF Cleanup, At, NoSlot, procs, trees, shelf,
       others, past, Works, Stages
<1>29. CASE Expire(w)
    BY <1>0, <1>29, Moved, Spent DEF Expire, At, NoSlot, Quiet, shelf, others,
       procs, trees, past, Works, Stages, Kinds
<1>30. CASE BatchTimesOut(w)
    BY <1>0, <1>30, Moved, Spent DEF BatchTimesOut, At, ClearsOwn, NoSlot,
       Fails, Quiet, shelf, others, trees, past, Works, Stages, Kinds
<1>q. QED  BY <1>1, <1>2, <1>3, <1>4, <1>5, <1>6, <1>7, <1>8, <1>9, <1>10, <1>11, <1>12,
   <1>13, <1>14, <1>15, <1>16, <1>17, <1>18, <1>19, <1>20, <1>21, <1>22, <1>23,
   <1>24, <1>25, <1>26, <1>27, <1>28, <1>29, <1>30 DEF Work

LEMMA Contents ==
    /\ Clean \in Content
    /\ src \in Content => \A p \in PRs \cup {NoPR}, b \in BOOLEAN :
         /\ [src EXCEPT !.pr = p] \in Content
         /\ [src EXCEPT !.patched = b] = [pr |-> src.pr, patched |-> b]
         /\ [src EXCEPT !.patched = b] \in Content
BY DEF Clean, Content

LEMMA TreeEdits ==
    ASSUME Types, NEW p \in Profiles
    PROVE  LET t(x) == [tree EXCEPT ![p] = x]  IN
           /\ t([key |-> FALSE, out |-> Absent]) \in [Profiles -> Tree]
           /\ t(IF tree[p].key THEN tree[p] ELSE [key |-> FALSE, out |-> Absent]) \in [Profiles -> Tree]
           /\ [tree EXCEPT ![p].key = TRUE] \in [Profiles -> Tree]
           /\ [tree EXCEPT ![p].out = src] \in [Profiles -> Tree]
<1>1. tree[p] \in Tree /\ src \in Content \cup {Absent} /\ tree \in [Profiles -> Tree]  BY DEF Types
<1>2. /\ [tree[p] EXCEPT !.key = TRUE] \in Tree /\ [tree[p] EXCEPT !.out = src] \in Tree
      /\ [key |-> FALSE, out |-> Absent] \in Tree
    BY <1>1 DEF Tree
<1> QED  BY <1>1, <1>2

LEMMA WorkTypes ==
    ASSUME Types, CheckedOut, Numbers, NEW w \in Sessions, Work(w) \/ Expire(w) \/ BatchTimesOut(w)
    PROVE  Types'
<1>0. worker' \in [Sessions -> WorkerRecord] /\ <<>> \in Seq(Queued)
    BY WorkerMoves, TookQueued, TookNumber DEF Works, Calm, Moves, Types
<1> DEFINE p == worker[w].prof
<1>w. /\ worker[w].pc # "idle" => p \in Profiles
      /\ worker[w].pr \in PRs \cup {NoPR}
    BY DEF Types, WorkerRecord, Numbers, Numbered
<1>1. CASE Disarm(w)
    BY <1>0, <1>1, FoundryAssumption DEF Disarm, At, trees, shelf, others,
       past, Types
<1>2. CASE Enqueue(w)
    <2> DEFINE q == [prof |-> CHOOSE o \in Others(p) : TRUE, pr |-> worker[w].pr]
    <2>1. worker[w].also => q \in Queued
        <3>1. worker[w].also => \E o \in Profiles : o \in Others(p)
            BY <1>w, <1>2 DEF Enqueue, At, Numbers, Numbered, Others
        <3> QED  BY <1>w, <3>1 DEF Queued, Others
    <2>2. pending' = IF worker[w].also THEN Append(pending, q) ELSE pending  BY <1>2 DEF Enqueue
    <2> HIDE DEF q
    <2>3. pending' \in Seq(Queued)  BY <2>1, <2>2 DEF Types
    <2> QED  BY <1>0, <1>2, <2>3 DEF Enqueue, procs, trees, shelf, others, past, Types
<1>3. CASE Begin(w)
    BY <1>0, <1>3, FoundryAssumption DEF Begin, At, NoSlot, Quiet, shelf,
       others, procs, trees, past, Types
<1>4. CASE SyncStart(w)
    BY <1>0, <1>4, FoundryAssumption DEF SyncStart, At, SetPhase, NoSlot,
       Quiet, shelf, others, procs, trees, past, Types, SlotRecord, Phases
<1>5. CASE Sync(w)
    <2>1. src' \in Content \cup {Absent}  BY <1>5, Contents DEF Sync, Types
    <2>2. spent' \in [Kinds -> Nat]  BY <1>5, Spent DEF Sync, Types, Kinds
    <2>3. slot' \in SlotRecord \cup {NoSlot} /\ UNCHANGED pending
        BY <1>5, FoundryAssumption DEF Sync, SetPhase, RollsBack, NoSlot, SlotRecord, Phases, Types
    <2> QED  BY <1>0, <1>5, <2>1, <2>2, <2>3 DEF Sync, Quiet, shelf, others, procs, past, Types
<1>6. CASE Merge(w)
    <2>1. src \in Content  BY <1>6 DEF Types, CheckedOut, Merge, At
    <2>2. src' \in Content /\ spent' \in [Kinds -> Nat]
        BY <1>w, <1>6, <2>1, Spent, Contents DEF Merge, RollsBack, Types, Kinds
    <2> QED  BY <1>0, <1>6, <2>2 DEF Merge, RollsBack, Quiet, shelf, others, procs, past, Types
<1>7. CASE Patch(w)
    BY <1>0, <1>7, FoundryAssumption, Spent, Contents DEF Patch, At, Fails,
       Quiet, shelf, others, procs, past, Types, CheckedOut, Kinds
<1>8. CASE Guard(w)
    BY <1>0, <1>8, FoundryAssumption DEF Guard, At, NoSlot, Quiet, shelf,
       others, procs, trees, past, Types
<1>9. CASE Prepare(w)
    <2>1. p \in Profiles  BY <1>w, <1>9 DEF Prepare, At
    <2>2. tree' \in [Profiles -> Tree]  BY <1>9, <2>1, TreeEdits DEF Prepare
    <2> QED  BY <1>0, <1>9, <2>2 DEF Prepare, Quiet, shelf, others, procs, past, Types
<1>10. CASE Spawn(w)
    BY <1>0, <1>10, FoundryAssumption DEF Spawn, NoSlot, At, Quiet, shelf,
       others, trees, past, Types, Batch
<1>11. CASE Track(w)
    BY <1>0, <1>11, FoundryAssumption DEF Track, At, Quiet, shelf, others,
       trees, past, Types
<1>12. CASE BatchEnds(w)
    <2>1. p \in Profiles  BY <1>w, <1>12 DEF BatchEnds
    <2>2. tree' \in [Profiles -> Tree]  BY <1>12, <2>1, TreeEdits DEF BatchEnds, Types
    <2>3. child' \in [Sessions -> Batch] /\ spent' \in [Kinds -> Nat]
        BY <1>12, Spent DEF BatchEnds, Types, Batch, Kinds
    <2> QED  BY <1>0, <1>12, <2>2, <2>3 DEF BatchEnds, Quiet, shelf, others, past, Types
<1>13. CASE Configured(w)
    <2>1. p \in Profiles  BY <1>w, <1>13 DEF Configured, At
    <2>2. tree' \in [Profiles -> Tree]
        BY <1>13, <2>1, TreeEdits DEF Configured, ClearsOwn, RollsBack, Polled, Types
    <2>3. child' \in [Sessions -> Batch] /\ tracked' \subseteq Sessions
        BY <1>13 DEF Configured, Types, Batch
    <2>4. slot' \in {slot, NoSlot} /\ pending' \in {pending, <<>>}
        BY <1>13 DEF Configured, ClearsOwn, RollsBack, Polled
    <2> QED  BY <1>0, <1>13, <2>2, <2>3, <2>4 DEF Configured, Quiet, shelf, others, past, Types
<1>14. CASE Wipe(w)
    BY <1>0, <1>w, <1>14, FoundryAssumption, TreeEdits DEF Wipe, At, Fails,
       Quiet, shelf, others, procs, past, Types
<1>15. CASE Gate(w)
    BY <1>0, <1>15, FoundryAssumption DEF Gate, At, ClearsOwn, NoSlot, Quiet,
       shelf, others, trees, past, Types
<1>16. CASE Ask(w)
    BY <1>0, <1>16, FoundryAssumption DEF Ask, At, NoSlot, SetPhase, Quiet,
       shelf, others, procs, trees, past, Types, SlotRecord, Phases
<1>17. CASE Waited(w)
    BY <1>0, <1>17, FoundryAssumption DEF Waited, At, NoSlot, Quiet, shelf,
       others, trees, past, Types
<1>18. CASE GiveUpWaiting(w)
    BY <1>0, <1>18, FoundryAssumption DEF GiveUpWaiting, At, SetPhase, NoSlot,
       shelf, others, procs, trees, past, Types, SlotRecord, Phases
<1>19. CASE Compiled(w)
    BY <1>0, <1>19, FoundryAssumption DEF Compiled, At, Polled, Fails,
       RollsBack, NoSlot, Quiet, shelf, others, trees, past, Types, Batch
<1>20. CASE Validate(w)
    BY <1>0, <1>w, <1>20, FoundryAssumption DEF Validate, At, Good, SetPhase,
       NoSlot, RollsBack, Quiet, shelf, others, procs, trees, past, Types,
       SlotRecord, Phases
<1>21. CASE DropPrevious(w)
    <2>1. p \in Profiles  BY <1>w, <1>21 DEF DropPrevious, At
    <2>2. release' \in [Profiles -> Shelved] /\ prev' \in [Profiles -> Shelved]
        BY <1>21, <2>1 DEF DropPrevious, shelf, Types, Shelved
    <2>3. slot' \in {slot, NoSlot} /\ pending' \in {pending, <<>>}
        BY <1>21 DEF DropPrevious, PublishFails
    <2> QED  BY <1>0, <1>21, <2>2, <2>3 DEF DropPrevious, Publishing, procs, trees, others, past, Types
<1>22. CASE Rotate(w)
    <2>1. p \in Profiles  BY <1>w, <1>22 DEF Rotate, At
    <2>2. release' \in [Profiles -> Shelved] /\ prev' \in [Profiles -> Shelved]
        BY <1>22, <2>1 DEF Rotate, shelf, Types, Shelved
    <2>3. spent' \in [Kinds -> Nat]  BY <1>22, Spent DEF Rotate, Types, Kinds
    <2>4. faults' \in Nat  BY <1>22 DEF Rotate, Types
    <2> QED  BY <1>0, <1>22, <2>2, <2>3, <2>4 DEF Rotate, Publishing, procs, trees, others, Types
<1>23. CASE Copy(w)
    <2>1. p \in Profiles /\ tree[p].out \in Content \cup {Absent}
        BY <1>w, <1>23 DEF Copy, At, Types, Tree
    <2>2. release' \in [Profiles -> Shelved] /\ published' \subseteq Profiles
        BY <1>23, <2>1 DEF Copy, Types, Shelved
    <2>3. spent' \in [Kinds -> Nat]  BY <1>23, Spent DEF Copy, Types, Kinds
    <2>5. faults' \in Nat  BY <1>23 DEF Copy, Types
    <2>4. slot' \in {slot, NoSlot} /\ pending' \in {pending, <<>>}
        BY <1>23 DEF Copy, PublishFails
    <2> QED  BY <1>0, <1>23, <2>2, <2>3, <2>4, <2>5 DEF Copy, Publishing, procs, trees, others, Types
<1>24. CASE Activate(w)
    <2>1. pending' \in Seq(Queued)
        <3>1. CASE pending = <<>>  BY <1>24, <3>1 DEF Activate, Types
        <3>2. CASE pending # <<>>
            <4>1. pending' = Tail(pending)  BY <1>24, <3>2 DEF Activate
            <4> QED  BY <3>2, <4>1 DEF Types
        <3> QED  BY <3>1, <3>2
    <2> QED  BY <1>0, <1>24, <2>1 DEF Activate, Publishing, procs, trees, shelf, others, past, Types
<1>25. CASE Advance(w)
    <2>1. ids \in 0 .. MaxBuild /\ p \in Profiles
        BY <1>w, <1>25 DEF Advance, At, Types
    <2>2. slot' \in SlotRecord \cup {NoSlot} /\ ids' \in 0 .. MaxBuild
        <3>1. CASE ids < MaxBuild /\ ids' = ids + 1
                   /\ slot' = [id |-> ids', prof |-> p, phase |-> "Configuring", auto |-> TRUE]
            BY <2>1, <3>1, FoundryAssumption DEF SlotRecord, Phases
        <3>2. CASE UNCHANGED <<slot, ids>>  BY <3>2 DEF Types
        <3> QED  BY <1>25, <3>1, <3>2 DEF Advance
    <2>3. pending' \in {pending, <<>>} /\ tracked' \subseteq Sessions
        BY <1>25 DEF Advance, Types
    <2> QED  BY <1>0, <1>25, <2>2, <2>3 DEF Advance, trees, shelf, others, past, Types
<1>26. CASE Finish(w)
    BY <1>0, <1>26, FoundryAssumption DEF Finish, At, SetPhase, NoSlot,
       Publishing, others, procs, trees, shelf, past, Types, SlotRecord, Phases
<1>27. CASE Close(w)
    BY <1>0, <1>27, FoundryAssumption DEF Close, At, NoSlot, Quiet, shelf,
       others, trees, past, Types
<1>28. CASE Cleanup(w)
    BY <1>0, <1>28, FoundryAssumption DEF Cleanup, At, NoSlot, procs, trees,
       shelf, others, past, Types
<1>29. CASE Expire(w)
    BY <1>0, <1>29, FoundryAssumption, Spent DEF Expire, At, NoSlot, Quiet,
       shelf, others, procs, trees, past, Types, Kinds
<1>30. CASE BatchTimesOut(w)
    BY <1>0, <1>30, FoundryAssumption, Spent DEF BatchTimesOut, At, ClearsOwn,
       NoSlot, Fails, Quiet, shelf, others, trees, past, Types, Batch, Kinds
<1>q. QED  BY <1>1, <1>2, <1>3, <1>4, <1>5, <1>6, <1>7, <1>8, <1>9, <1>10, <1>11, <1>12,
   <1>13, <1>14, <1>15, <1>16, <1>17, <1>18, <1>19, <1>20, <1>21, <1>22, <1>23,
   <1>24, <1>25, <1>26, <1>27, <1>28, <1>29, <1>30 DEF Work

(***************************************************************************)
(* The commands.                                                           *)
(***************************************************************************)
LEMMA AcceptSteps ==
    ASSUME Types, NEW w \in Sessions, NEW r \in Requests, Accept(w, r)
    PROVE  /\ Types'
           /\ ~Early' => ~Early /\ \A v \in Sessions : ~Alive(v)
           /\ worker[w].pc = "idle" /\ worker'[w].pc = "accepted"
           /\ \A v \in Sessions \ {w} : worker'[v] = worker[v]
           /\ worker'[w].id = ids' /\ worker'[w].prof \in Profiles /\ worker'[w].after = 0
           /\ worker'[w].also => Others(worker'[w].prof) # {}
           /\ slot'.id = ids' /\ ids' = ids + 1
<1> DEFINE n == ids + 1
           k == [pc |-> "accepted", id |-> n, prof |-> r.prof, pr |-> r.pr, also |-> r.also, after |-> 0]
           s == [id |-> n, prof |-> r.prof, phase |-> "Configuring", auto |-> r.auto]
<1>1. /\ r.prof \in Profiles /\ r.pr \in PRs \cup {NoPR} /\ r.also \in BOOLEAN /\ r.auto \in BOOLEAN
      /\ r.also => Others(r.prof) # {}
    BY FoundryAssumption
<1>2. n \in 1 .. MaxBuild /\ n \in 0 .. MaxBuild /\ 0 \in 0 .. MaxBuild
    BY FoundryAssumption DEF Accept, Types
<1>3. ids' = n /\ slot' = s /\ worker' = [worker EXCEPT ![w] = k]  BY DEF Accept
<1>4. worker \in [Sessions -> WorkerRecord]  BY DEF Types
<1> HIDE DEF n
<1>5. /\ k \in WorkerRecord /\ k.pc = "accepted" /\ k.id = n /\ k.prof = r.prof /\ k.after = 0
      /\ k.also = r.also
    BY <1>1, <1>2 DEF WorkerRecord, Stages
<1>6. s \in SlotRecord /\ s.id = n  BY <1>1, <1>2 DEF SlotRecord, Phases
<1> HIDE DEF k, s
<1>7. /\ worker' \in [Sessions -> WorkerRecord] /\ worker'[w] = k
      /\ \A v \in Sessions \ {w} : worker'[v] = worker[v]
    BY <1>3, <1>4, <1>5
<1>8. spent' \in [Kinds -> Nat]  BY Spent DEF Accept, Kinds
<1>9. Types'
    BY <1>2, <1>3, <1>6, <1>7, <1>8, FoundryAssumption
    DEF Accept, Types, procs, trees, shelf, others
<1>10. ~Early' => ~Early /\ \A v \in Sessions : ~Alive(v)
    <2>1. spent["early"] \in Nat  BY DEF Types, Kinds
    <2>2. CASE \E v \in Sessions : Alive(v)
        <3>1. spent' = [spent EXCEPT !["early"] = spent["early"] + 1]  BY <2>2 DEF Accept, Spend
        <3> QED  BY <2>1, <3>1 DEF Early, Types, Kinds
    <2>3. CASE ~\E v \in Sessions : Alive(v)
        <3>1. spent'["early"] = spent["early"]  BY <2>3, Spent DEF Accept, Kinds
        <3> QED  BY <2>3, <3>1 DEF Early
    <2> QED  BY <2>2, <2>3
<1> QED  BY <1>1, <1>3, <1>5, <1>6, <1>7, <1>9, <1>10 DEF Accept, At, n

\* those that move no worker
Commands ==
    \/ CancelFlag \/ Confirm \/ ClearCheck \/ RestoreRemove \/ RestoreRename \/ ClearTrees
    \/ \E p \in Profiles : RestoreBegin(p)

LEMMA CommandSteps ==
    ASSUME Types, Commands
    PROVE  Types' /\ Calm
<1>0. <<>> \in Seq(Queued) /\ [key |-> FALSE, out |-> Absent] \in Tree  BY DEF Tree
<1>1. CASE CancelFlag
    BY <1>0, <1>1, Spent DEF CancelFlag, Types, Batch, Kinds, Calm, trees, shelf, others, past
<1>2. CASE Confirm
    <2>1. slot' \in SlotRecord \cup {NoSlot} /\ slot'.id = slot.id
        BY <1>2 DEF Confirm, Types, SlotRecord, Phases
    <2> QED  BY <1>2, <2>1 DEF Confirm, Types, Calm, procs, trees, shelf, others, past
<1>3. CASE ClearCheck
    BY <1>3, Spent DEF ClearCheck, Types, Calm, Kinds, slots, procs, trees, shelf, past
<1>4. CASE RestoreRemove
    <2>1. restoring \in {"remove", "rename"} \X Profiles  BY <1>4 DEF RestoreRemove, Types
    <2>2. PICK p \in Profiles : p = restoring[2]  BY <2>1
    <2>3. restoring' \in {"remove", "rename"} \X Profiles
        BY <1>4, <2>2 DEF RestoreRemove
    <2>4. release' \in [Profiles -> Shelved]  BY <1>4, <2>2 DEF RestoreRemove, Types, Shelved
    <2> QED  BY <1>4, <2>3, <2>4 DEF RestoreRemove, Types, Calm, slots, procs, trees, past
<1>5. CASE RestoreRename
    <2>1. restoring \in {"remove", "rename"} \X Profiles  BY <1>5 DEF RestoreRename, Types
    <2>2. PICK p \in Profiles : p = restoring[2]  BY <2>1
    <2>3. release' \in [Profiles -> Shelved] /\ prev' \in [Profiles -> Shelved]
        BY <1>5, <2>2 DEF RestoreRename, shelf, Types, Shelved
    <2> QED  BY <1>5, <2>3 DEF RestoreRename, Types, Calm, slots, procs, trees, past
<1>6. CASE ClearTrees
    BY <1>0, <1>6 DEF ClearTrees, Types, Calm, slots, procs, shelf, past
<1>7. CASE \E p \in Profiles : RestoreBegin(p)
    <2>1. PICK p \in Profiles : RestoreBegin(p)  BY <1>7
    <2>2. restoring' \in {"remove", "rename"} \X Profiles  BY <2>1 DEF RestoreBegin
    <2>3. spent' \in [Kinds -> Nat] /\ spent'["early"] = spent["early"]
        BY <2>1, Spent DEF RestoreBegin, Kinds
    <2> QED  BY <2>1, <2>2, <2>3 DEF RestoreBegin, Types, Calm, slots, procs, trees, shelf
<1> QED  BY <1>1, <1>2, <1>3, <1>4, <1>5, <1>6, <1>7 DEF Commands

LEMMA TakeSteps ==
    ASSUME Types, CancelTake
    PROVE  /\ Types' /\ UNCHANGED <<worker, ids, pending, spent>> /\ slot'.id = 0
           /\ aborted' = IF slot.id = 0 THEN aborted ELSE aborted \cup {slot.id}
<1>1. slot = NoSlot <=> slot.id = 0  BY DEF Types, SlotRecord, NoSlot
<1> QED  BY <1>1 DEF CancelTake, Types, NoSlot, procs, trees, shelf, others

LEMMA CrashSteps ==
    ASSUME Types, Crash
    PROVE  /\ Types' /\ slot'.id = 0 /\ pending' = <<>> /\ UNCHANGED <<ids, aborted>>
           /\ spent'["early"] = spent["early"]
           /\ \A w \in Sessions :
                /\ worker'[w].pc = IF Alive(w) THEN "ended" ELSE worker[w].pc
                /\ worker'[w].id = worker[w].id /\ worker'[w].prof = worker[w].prof
                /\ worker'[w].pr = worker[w].pr /\ worker'[w].after = worker[w].after
                /\ worker'[w].also = worker[w].also
<1> DEFINE k(w) == IF Alive(w) THEN [worker[w] EXCEPT !.pc = "ended"] ELSE worker[w]
<1>1. \A w \in Sessions :
        /\ k(w) \in WorkerRecord /\ k(w).pc = IF Alive(w) THEN "ended" ELSE worker[w].pc
        /\ k(w).id = worker[w].id /\ k(w).prof = worker[w].prof /\ k(w).pr = worker[w].pr
        /\ k(w).after = worker[w].after /\ k(w).also = worker[w].also
    <2> TAKE w \in Sessions
    <2>1. worker[w] \in WorkerRecord  BY DEF Types
    <2>2. CASE Alive(w)
        <3>1. k(w) = [worker[w] EXCEPT !.pc = "ended"]  BY <2>2
        <3> QED  BY <2>1, <2>2, <3>1 DEF WorkerRecord, Stages
    <2>3. CASE ~Alive(w)  BY <2>1, <2>3
    <2> QED  BY <2>2, <2>3
<1>2. worker' = [w \in Sessions |-> k(w)]  BY DEF Crash
<1> HIDE DEF k
<1>3. worker' \in [Sessions -> WorkerRecord] /\ \A w \in Sessions : worker'[w] = k(w)  BY <1>1, <1>2
<1>4. release' \in [Profiles -> Shelved]  BY DEF Crash, Types, Shelved
<1>5. faults' \in Nat  BY DEF Crash, Types
<1>6. spent' \in [Kinds -> Nat] /\ spent'["early"] = spent["early"]  BY Spent DEF Crash, Kinds
<1>7. Types'
    BY <1>3, <1>4, <1>5, <1>6 DEF Crash, Types, Batch, trees
<1> QED  BY <1>1, <1>3, <1>6, <1>7 DEF Crash, NoSlot

(***************************************************************************)
(* Every step is one of a few kinds, as far as slot, numbers and queue go. *)
(***************************************************************************)
LEMMA StepKinds ==
    ASSUME Types, CheckedOut, Numbers, [Next]_vars
    PROVE  /\ Types'
           /\ \/ Calm \/ CancelTake \/ Crash
              \/ \E w \in Sessions : Works(w) \/ TakesQueued(w) \/ TakesNumber(w)
              \/ \E w \in Sessions, r \in Requests : Accept(w, r)
<1>1. CASE UNCHANGED vars
    BY <1>1 DEF vars, slots, procs, trees, shelf, others, past, Types, Calm
<1>2. CASE Commands  BY <1>2, CommandSteps
<1>3. CASE CancelTake  BY <1>3, TakeSteps
<1>4. CASE Crash  BY <1>4, CrashSteps
<1>5. CASE \E w \in Sessions, r \in Requests : Accept(w, r)  BY <1>5, AcceptSteps
<1>6. CASE \E w \in Sessions : Work(w) \/ Expire(w) \/ BatchTimesOut(w)
    BY <1>6, WorkTypes, WorkerMoves
<1> QED  BY <1>1, <1>2, <1>3, <1>4, <1>5, <1>6 DEF Next, Command, Finishing, Commands

\* The numbers: given out once, kept by their worker, and never again the
\* slot's once a cancel has taken them.
LEMMA NumbersKept ==
    ASSUME Types, CheckedOut, Numbers, [Next]_vars
    PROVE  Numbers'
<1>0. /\ Types' /\ ids \in Nat
      /\ slot.id \in Nat /\ slot'.id \in Nat
    BY StepKinds DEF Types, SlotRecord, NoSlot
<1>1. CASE Calm  BY <1>0, <1>1 DEF Calm, Numbers, Numbered
<1>2. CASE CancelTake
    <2>1. /\ aborted' \subseteq aborted \cup {slot.id} /\ (slot.id = 0 => aborted' = aborted)
          /\ slot'.id = 0 /\ UNCHANGED <<worker, ids>>
        BY <1>2, TakeSteps
    <2>2. aborted' \subseteq 1 .. ids /\ 0 \notin aborted'  BY <1>0, <2>1 DEF Numbers
    <2> QED  BY <1>0, <2>1, <2>2 DEF Numbers, Numbered
<1>3. CASE Crash
    <2>1. slot'.id = 0 /\ UNCHANGED <<ids, aborted>>  BY <1>3, CrashSteps
    <2>2. ASSUME NEW w \in Sessions  PROVE Numbered(w)'
        <3>1. CASE Alive(w)
            <4>1. worker'[w].pc = "ended" /\ worker'[w].id = worker[w].id /\ worker'[w].prof = worker[w].prof
                BY <1>3, <3>1, CrashSteps
            <4> QED  BY <1>0, <2>1, <3>1, <4>1 DEF Numbers, Numbered, Alive
        <3>2. CASE ~Alive(w)
            <4>1. /\ worker'[w].pc = worker[w].pc /\ worker'[w].id = worker[w].id
                  /\ worker'[w].prof = worker[w].prof /\ worker'[w].after = worker[w].after
                BY <1>3, <3>2, CrashSteps
            <4> QED  BY <1>0, <2>1, <3>2, <4>1 DEF Numbers, Numbered, Alive
        <3> QED  BY <3>1, <3>2
    <2> QED  BY <1>0, <2>1, <2>2 DEF Numbers
<1>4. ASSUME NEW w \in Sessions, Works(w) PROVE Numbers'
    <2>1. Numbered(w)'  BY <1>0, <1>4 DEF Works, Moves, Numbers, Numbered
    <2>2. \A v \in Sessions \ {w} : Numbered(v)'
        BY <1>0, <1>4 DEF Works, Moves, Numbers, Numbered
    <2> QED  BY <1>0, <1>4, <2>1, <2>2 DEF Works, Numbers
<1>5. ASSUME NEW w \in Sessions, TakesQueued(w) PROVE Numbers'
    <2>1. /\ worker[w].id \in 1 .. ids /\ UNCHANGED <<slot, ids, aborted>>
        BY <1>5 DEF TakesQueued, At, Numbers, Numbered
    <2>2. Numbered(w)'  BY <1>0, <1>5, <2>1, TookQueued DEF Numbered
    <2>3. \A v \in Sessions \ {w} : Numbered(v)'
        BY <1>0, <1>5, <2>1, TookQueued DEF Numbers, Numbered
    <2> QED  BY <1>0, <2>1, <2>2, <2>3 DEF Numbers
<1>6. ASSUME NEW w \in Sessions, TakesNumber(w) PROVE Numbers'
    <2>1. /\ ids' = ids + 1 /\ slot'.id = ids + 1 /\ UNCHANGED aborted
          /\ worker[w].id \in 1 .. ids /\ worker[w].prof \in Profiles /\ worker[w].after = worker[w].id
        BY <1>6 DEF TakesNumber, At, Numbers, Numbered
    <2>2. Numbered(w)'  BY <1>0, <1>6, <2>1, TookNumber DEF Numbered
    <2>3. \A v \in Sessions \ {w} : Numbered(v)'
        BY <1>0, <1>6, <2>1, TookNumber DEF Numbers, Numbered
    <2> QED  BY <1>0, <2>1, <2>2, <2>3 DEF Numbers
<1>7. ASSUME NEW w \in Sessions, NEW r \in Requests, Accept(w, r) PROVE Numbers'
    <2>1. ids' = ids + 1 /\ slot'.id = ids + 1 /\ aborted' = aborted
        BY <1>7, AcceptSteps DEF Accept
    <2>2. Numbered(w)'  BY <1>0, <1>7, <2>1, AcceptSteps DEF Numbered
    <2>3. \A v \in Sessions \ {w} : Numbered(v)'
        BY <1>0, <1>7, <2>1, AcceptSteps DEF Numbers, Numbered
    <2> QED  BY <1>0, <2>1, <2>2, <2>3 DEF Numbers
<1> QED  BY <1>1, <1>2, <1>3, <1>4, <1>5, <1>6, <1>7, StepKinds

\* The queue: each entry is of a worker that has put it there, and no
\* worker ever goes back to before that.
LEMMA StartedGrows ==
    ASSUME Started \subseteq Started'
    PROVE  /\ Cardinality(Started) \in Nat /\ Cardinality(Started') \in Nat
           /\ Cardinality(Started) <= Cardinality(Started')
           /\ \A w \in Sessions \ Started : w \in Started' => Cardinality(Started) + 1 <= Cardinality(Started')
<1>1. PICK S : S = Started  OBVIOUS
<1>2. PICK T : T = Started'  OBVIOUS
<1>3. S \subseteq T /\ T \subseteq Sessions /\ IsFiniteSet(Sessions)
    BY <1>1, <1>2, FoundryAssumption DEF Started
<1>4. IsFiniteSet(T) /\ IsFiniteSet(S)  BY <1>3, FS_Subset
<1>5. Cardinality(S) \in Nat /\ Cardinality(T) \in Nat /\ Cardinality(S) <= Cardinality(T)
    BY <1>3, <1>4, FS_CardinalityType, FS_Subset
<1>6. ASSUME NEW w \in Sessions \ S, w \in T
      PROVE  Cardinality(S) + 1 <= Cardinality(T)
    <2>1. IsFiniteSet(S \cup {w}) /\ Cardinality(S \cup {w}) = Cardinality(S) + 1
        BY <1>4, <1>6, FS_AddElement
    <2>2. S \cup {w} \in SUBSET T  BY <1>3, <1>6
    <2> QED  BY <1>4, <2>1, <2>2, FS_Subset
<1> QED  BY <1>1, <1>2, <1>5, <1>6

LEMMA QueueKept ==
    ASSUME Types, CheckedOut, Numbers, QueueBounded, [Next]_vars
    PROVE  QueueBounded'
<1>1. CASE Started \subseteq Started' /\ pending' \in {pending, <<>>}
    <2>1. Len(<<>>) = 0 /\ Len(pending) \in Nat  BY DEF Types
    <2>2. PICK n : n = Cardinality(Started')  OBVIOUS
    <2> QED  BY <1>1, <2>1, <2>2, StartedGrows DEF QueueBounded
<1>2. CASE Calm
    BY <1>1, <1>2 DEF Calm, Started
<1>3. CASE CancelTake  BY <1>1, <1>3, TakeSteps DEF Started
<1>4. CASE Crash
    <2>1. Started \subseteq Started'  BY <1>4, CrashSteps DEF Started, Alive
    <2> QED  BY <1>1, <1>4, <2>1, CrashSteps
<1>5. ASSUME NEW w \in Sessions, Works(w) PROVE QueueBounded'
    <2>1. Started \subseteq Started'  BY <1>5 DEF Works, Moves, Started
    <2>2. CASE pending' \in {pending, <<>>}  BY <1>1, <1>5, <2>1, <2>2 DEF Works
    <2>3. CASE worker[w].pc = "enqueue" /\ worker'[w].pc = "begin" /\ \E q : pending' = Append(pending, q)
        <3>1. w \in Sessions \ Started /\ w \in Started'
            BY <1>5, <2>3 DEF Works, Moves, Started
        <3>2. pending' \in Seq(Queued)  BY StepKinds DEF Types
        <3>3. Len(pending') <= Len(pending) + 1
            <4>1. PICK q : pending' = Append(pending, q)  BY <2>3
            <4> QED  BY <4>1 DEF Types
        <3>4. Len(pending) \in Nat /\ Len(pending') \in Nat  BY <3>2 DEF Types
        <3>5. PICK m, n : m = Cardinality(Started) /\ n = Cardinality(Started')  OBVIOUS
        <3>6. m \in Nat /\ n \in Nat /\ m + 1 <= n  BY <2>1, <3>1, <3>5, StartedGrows
        <3> QED  BY <3>3, <3>4, <3>5, <3>6 DEF QueueBounded
    <2> QED  BY <1>5, <2>2, <2>3 DEF Works
<1>6. ASSUME NEW w \in Sessions, TakesQueued(w) PROVE QueueBounded'
    <2>1. Started \subseteq Started'
        BY <1>6, TookQueued DEF Started
    <2>2. Len(pending') <= Len(pending) /\ Len(pending) \in Nat /\ Len(pending') \in Nat
        BY <1>6 DEF TakesQueued, Types
    <2>3. PICK n : n = Cardinality(Started')  OBVIOUS
    <2> QED  BY <2>1, <2>2, <2>3, StartedGrows DEF QueueBounded
<1>7. ASSUME NEW w \in Sessions, TakesNumber(w) PROVE QueueBounded'
    <2>1. Started \subseteq Started'  BY <1>7, TookNumber DEF Started
    <2> QED  BY <1>1, <1>7, <2>1 DEF TakesNumber
<1>8. ASSUME NEW w \in Sessions, NEW r \in Requests, Accept(w, r) PROVE QueueBounded'
    <2>1. Started \subseteq Started'  BY <1>8, AcceptSteps DEF Started
    <2> QED  BY <1>1, <1>8, <2>1 DEF Accept
<1> QED  BY <1>2, <1>3, <1>4, <1>5, <1>6, <1>7, <1>8, StepKinds

\* Without a build accepted too early there is one live worker, and the slot
\* is that worker's; so a cancel takes its number, and it will not go on to
\* the queued profile.
LEMMA AloneKept ==
    ASSUME Types, CheckedOut, Numbers, ~Early => Alone, [Next]_vars, ~Early'
    PROVE  Alone' /\ ~Early
<1>0. /\ Types' /\ Numbers' /\ ids \in Nat /\ aborted \subseteq 1 .. ids /\ slot.id \in Nat /\ slot'.id \in Nat
      /\ slot.id \notin aborted
      /\ \A v \in Sessions : Numbered(v)
      /\ (slot = NoSlot <=> slot.id = 0)
    BY StepKinds, NumbersKept DEF Types, SlotRecord, NoSlot, Numbers
<1>e. ASSUME ~Early  PROVE  OneWorker /\ SlotIsAttended /\ \A v \in Sessions : AfterAborted(v)
    BY <1>e DEF Alone
<1>1. CASE Calm
    <2>1. ~Early  BY <1>1 DEF Calm, Early
    <2> QED  BY <1>1, <1>e, <2>1 DEF Calm, Alone, OneWorker, SlotIsAttended, AfterAborted, Alive
<1>2. CASE CancelTake
    <2>1. /\ aborted' \subseteq aborted \cup {slot.id} /\ (slot.id = 0 => aborted' = aborted)
          /\ slot'.id = 0 /\ UNCHANGED <<worker, ids, spent>>
        BY <1>2, TakeSteps
    <2>2. ~Early  BY <2>1 DEF Early
    <2>3. ASSUME NEW v \in Sessions  PROVE AfterAborted(v)'
        <3>1. CASE worker[v].after \in aborted \/ slot.id = 0
            BY <1>0, <1>e, <2>1, <2>2, <3>1 DEF AfterAborted
        <3>2. CASE slot.id # 0 /\ worker[v].after = slot.id /\ worker[v].pc \notin {"advance", "failed", "ended"}
            <4>1. PICK w \in Sessions : Alive(w) /\ worker[w].id = slot.id
                BY <1>e, <2>2, <3>2 DEF SlotIsAttended
            <4>2. Alive(v)  BY <1>0, <3>2 DEF Numbered, Alive
            <4>3. v = w  BY <1>e, <2>2, <4>1, <4>2 DEF OneWorker
            <4> QED  BY <1>0, <3>2, <4>1, <4>3 DEF Numbered, Alive
        <3> QED  BY <2>1, <3>1, <3>2 DEF AfterAborted
    <2> QED  BY <1>e, <2>1, <2>2, <2>3 DEF Alone, OneWorker, SlotIsAttended, Alive
<1>3. CASE Crash
    <2>1. ~Early  BY <1>3, CrashSteps DEF Early
    <2>2. \A v \in Sessions : ~Alive(v)'  BY <1>3, CrashSteps DEF Alive
    <2>3. \A v \in Sessions : AfterAborted(v)'
        BY <1>0, <1>3, <1>e, <2>1, CrashSteps DEF AfterAborted, Numbered, Alive
    <2> QED  BY <1>3, <2>1, <2>2, <2>3, CrashSteps DEF Alone, OneWorker, SlotIsAttended
<1>4. ASSUME NEW w \in Sessions, Works(w) PROVE Alone' /\ ~Early
    <2>1. ~Early /\ Alive(w)  BY <1>4 DEF Works, Early, Alive
    <2>2. \A v \in Sessions \ {w} : worker'[v] = worker[v] /\ ~Alive(v)
        BY <1>4, <1>e, <2>1 DEF Works, Moves, OneWorker
    <2>3. OneWorker'  BY <2>2 DEF OneWorker, Alive
    <2>4. SlotIsAttended'
        <3>1. slot'.id # 0 => slot.id # 0 /\ slot'.id = slot.id  BY <1>4 DEF Works
        <3>2. slot.id # 0 => worker[w].id = slot.id  BY <1>e, <2>1, <2>2 DEF SlotIsAttended
        <3>3. worker'[w].id = worker[w].id  BY <1>4 DEF Works, Moves
        <3>4. slot'.id = worker[w].id => Alive(w)'  BY <1>4 DEF Works, Alive
        <3> QED  BY <3>1, <3>2, <3>3, <3>4 DEF SlotIsAttended
    <2>5. \A v \in Sessions : AfterAborted(v)'
        BY <1>0, <1>4, <1>e, <2>1, <2>2 DEF Works, Moves, AfterAborted
    <2> QED  BY <2>1, <2>3, <2>4, <2>5 DEF Alone
<1>5. ASSUME NEW w \in Sessions, TakesQueued(w) PROVE Alone' /\ ~Early
    <2>1. /\ ~Early /\ Alive(w) /\ UNCHANGED <<slot, aborted>>
          /\ worker'[w].pc = "advance" /\ worker'[w].id = worker[w].id
          /\ \A v \in Sessions \ {w} : worker'[v] = worker[v]
        BY <1>0, <1>5, TookQueued DEF TakesQueued, Early, Alive, At
    <2> QED  BY <1>e, <2>1 DEF Alone, OneWorker, SlotIsAttended, AfterAborted, Alive
<1>6. ASSUME NEW w \in Sessions, TakesNumber(w) PROVE Alone' /\ ~Early
    <2>1. /\ ~Early /\ Alive(w) /\ slot.id # 0 /\ slot'.id = ids + 1 /\ UNCHANGED aborted
          /\ worker'[w].pc = "begin" /\ worker'[w].id = ids + 1 /\ worker'[w].after = worker[w].after
          /\ \A v \in Sessions \ {w} : worker'[v] = worker[v]
          /\ worker[w].pc = "advance"
        BY <1>0, <1>6, TookNumber DEF TakesNumber, Early, Alive, At
    <2>2. worker[w].id = slot.id  BY <1>e, <2>1 DEF OneWorker, SlotIsAttended
    <2>3. worker[w].after = slot.id  BY <1>0, <2>1, <2>2 DEF Numbered
    <2> QED  BY <1>0, <1>e, <2>1, <2>3 DEF Alone, OneWorker, SlotIsAttended, AfterAborted, Alive
<1>7. ASSUME NEW w \in Sessions, NEW r \in Requests, Accept(w, r) PROVE Alone' /\ ~Early
    <2>1. /\ ~Early /\ (\A v \in Sessions : ~Alive(v)) /\ slot'.id = worker'[w].id
          /\ worker'[w].pc = "accepted" /\ worker'[w].after = 0
          /\ \A v \in Sessions \ {w} : worker'[v] = worker[v]
        BY <1>7, AcceptSteps
    <2>2. aborted' = aborted  BY <1>7 DEF Accept
    <2> QED  BY <1>0, <1>e, <2>1, <2>2 DEF Alone, OneWorker, SlotIsAttended, AfterAborted, Alive
<1> QED  BY <1>1, <1>2, <1>3, <1>4, <1>5, <1>6, <1>7, StepKinds

(***************************************************************************)
(* The batches, and what each stage knows of checkout, tree and Release.   *)
(***************************************************************************)
LEMMA StageStep ==
    ASSUME Types, Numbers, CheckedOut, BatchesWatched, NEW w \in Sessions,
           Work(w) \/ Expire(w) \/ BatchTimesOut(w)
    PROVE  BatchesWatched' /\ CheckedOut' /\ UNCHANGED <<restoring, touched>>
<1>0. /\ \A v \in Sessions \ {w} : worker'[v] = worker[v]
      /\ TakesQueued(w) => worker'[w].pc = "advance"
      /\ TakesNumber(w) => worker'[w].pc = "begin"
    BY WorkerMoves, TookQueued, TookNumber DEF Works, Moves, Calm
<1>1. CASE Disarm(w)
    BY <1>0, <1>1, Moved DEF Disarm, At, trees, shelf, others, past,
       BatchesWatched, CheckedOut, Tracking, Stages
<1>2. CASE Enqueue(w)
    BY <1>0, <1>2, Moved DEF Enqueue, At, procs, trees, shelf, others, past,
       BatchesWatched, CheckedOut, Tracking, Stages
<1>3. CASE Begin(w)
    BY <1>0, <1>3, Moved DEF Begin, At, NoSlot, Quiet, shelf, others, procs,
       trees, past, BatchesWatched, CheckedOut, Tracking, Stages
<1>4. CASE SyncStart(w)
    BY <1>0, <1>4, Moved DEF SyncStart, At, SetPhase, NoSlot, Quiet, shelf,
       others, procs, trees, past, BatchesWatched, CheckedOut, Tracking, Stages
<1>5. CASE Sync(w)
    <2>1. src' = Clean \/ (UNCHANGED src /\ worker'[w].pc = "failed")
        BY <1>5, Moved DEF Sync, RollsBack, Stages
    <2>2. src # Absent => src' # Absent
        <3>1. src # Absent => src \in Content  BY DEF Types
        <3>2. src \in Content => src' \in Content  BY <2>1, Contents
        <3> QED  BY <3>1, <3>2, FoundryAssumption
    <2>3. worker'[w].pc \in {"merge", "patch"} => src' # Absent
        BY <1>5, <2>1, <2>2, Moved, Contents, FoundryAssumption DEF Sync, RollsBack, At, CheckedOut, Stages
    <2>4. child' = child /\ worker[w].pc \notin Tracking
        BY <1>5 DEF Sync, At, procs, Tracking
    <2>5. UNCHANGED <<restoring, touched>>  BY <1>5 DEF Sync, Quiet, others, past
    <2> QED  BY <1>0, <2>2, <2>3, <2>4, <2>5 DEF BatchesWatched, CheckedOut
<1>6. CASE Merge(w)
    <2>1. src' = src \/ \E q \in PRs \cup {NoPR} : src' = [src EXCEPT !.pr = q]
        BY <1>6, Moved DEF Merge, RollsBack, Types, WorkerRecord, Stages
    <2>2. src # Absent => src' # Absent
        <3>1. src # Absent => src \in Content  BY DEF Types
        <3>2. src \in Content => src' \in Content  BY <2>1, Contents
        <3> QED  BY <3>1, <3>2, FoundryAssumption
    <2>3. worker'[w].pc \in {"merge", "patch"} => src' # Absent
        BY <1>6, <2>1, <2>2, Moved, Contents, FoundryAssumption DEF Merge, RollsBack, Types, WorkerRecord, At, CheckedOut, Stages
    <2>4. child' = child /\ worker[w].pc \notin Tracking
        BY <1>6 DEF Merge, At, procs, Tracking
    <2>5. UNCHANGED <<restoring, touched>>  BY <1>6 DEF Merge, Quiet, others, past
    <2> QED  BY <1>0, <2>2, <2>3, <2>4, <2>5 DEF BatchesWatched, CheckedOut
<1>7. CASE Patch(w)
    <2>1. \E b \in BOOLEAN : src' = [src EXCEPT !.patched = b]
        BY <1>7, Moved DEF Patch, Fails, Stages
    <2>2. src # Absent => src' # Absent
        <3>1. src # Absent => src \in Content  BY DEF Types
        <3>2. src \in Content => src' \in Content  BY <2>1, Contents
        <3> QED  BY <3>1, <3>2, FoundryAssumption
    <2>3. worker'[w].pc \in {"merge", "patch"} => src' # Absent
        BY <1>7, <2>1, <2>2, Moved, Contents, FoundryAssumption DEF Patch, Fails, At, CheckedOut, Stages
    <2>4. child' = child /\ worker[w].pc \notin Tracking
        BY <1>7 DEF Patch, At, procs, Tracking
    <2>5. UNCHANGED <<restoring, touched>>  BY <1>7 DEF Patch, Quiet, others, past
    <2> QED  BY <1>0, <2>2, <2>3, <2>4, <2>5 DEF BatchesWatched, CheckedOut
<1>8. CASE Guard(w)
    BY <1>0, <1>8, Moved DEF Guard, At, NoSlot, Quiet, shelf, others, procs,
       trees, past, BatchesWatched, CheckedOut, Tracking, Stages
<1>9. CASE Prepare(w)
    BY <1>0, <1>9, Moved DEF Prepare, At, Quiet, shelf, others, procs, past,
       BatchesWatched, CheckedOut, Tracking, Stages
<1>10. CASE Spawn(w)
    BY <1>0, <1>10, Moved DEF Spawn, NoSlot, At, Quiet, shelf, others, trees,
       past, BatchesWatched, CheckedOut, Tracking, Stages, Types, Batch
<1>11. CASE Track(w)
    BY <1>0, <1>11, Moved DEF Track, At, Quiet, shelf, others, trees, past,
       BatchesWatched, CheckedOut, Tracking, Stages
<1>12. CASE BatchEnds(w)
    BY <1>0, <1>12, Moved DEF BatchEnds, At, Quiet, shelf, others, past,
       BatchesWatched, CheckedOut, Tracking, Stages, Types, Batch
<1>13. CASE Configured(w)
    BY <1>0, <1>13, Moved DEF Configured, At, Polled, ClearsOwn, NoSlot,
       RollsBack, Quiet, shelf, others, past, BatchesWatched, CheckedOut,
       Tracking, Stages, Types, Batch
<1>14. CASE Wipe(w)
    BY <1>0, <1>14, Moved DEF Wipe, At, Fails, Quiet, shelf, others, procs,
       past, BatchesWatched, CheckedOut, Tracking, Stages
<1>15. CASE Gate(w)
    BY <1>0, <1>15, Moved DEF Gate, At, ClearsOwn, NoSlot, Quiet, shelf,
       others, trees, past, BatchesWatched, CheckedOut, Tracking, Stages
<1>16. CASE Ask(w)
    BY <1>0, <1>16, Moved DEF Ask, At, NoSlot, SetPhase, Quiet, shelf, others,
       procs, trees, past, BatchesWatched, CheckedOut, Tracking, Stages
<1>17. CASE Waited(w)
    BY <1>0, <1>17, Moved DEF Waited, At, NoSlot, Quiet, shelf, others, trees,
       past, BatchesWatched, CheckedOut, Tracking, Stages
<1>18. CASE GiveUpWaiting(w)
    BY <1>0, <1>18, Moved DEF GiveUpWaiting, At, SetPhase, NoSlot, shelf,
       others, procs, trees, past, BatchesWatched, CheckedOut, Tracking, Stages
<1>19. CASE Compiled(w)
    BY <1>0, <1>19, Moved DEF Compiled, At, Polled, Fails, RollsBack, NoSlot,
       Quiet, shelf, others, trees, past, BatchesWatched, CheckedOut, Tracking,
       Stages, Types, Batch
<1>20. CASE Validate(w)
    BY <1>0, <1>20, Moved DEF Validate, At, SetPhase, NoSlot, RollsBack,
       Quiet, shelf, others, procs, trees, past, BatchesWatched, CheckedOut,
       Tracking, Stages
<1>21. CASE DropPrevious(w)
    BY <1>0, <1>21, Moved DEF DropPrevious, At, PublishFails, NoSlot, shelf,
       Publishing, others, procs, trees, past, BatchesWatched, CheckedOut,
       Tracking, Stages
<1>22. CASE Rotate(w)
    BY <1>0, <1>22, Moved DEF Rotate, At, shelf, Publishing, others, procs,
       trees, BatchesWatched, CheckedOut, Tracking, Stages
<1>23. CASE Copy(w)
    BY <1>0, <1>23, Moved DEF Copy, At, PublishFails, NoSlot, Publishing,
       others, procs, trees, BatchesWatched, CheckedOut, Tracking, Stages
<1>24. CASE Activate(w)
    BY <1>0, <1>24, Moved DEF Activate, At, Publishing, others, procs, trees,
       shelf, past, BatchesWatched, CheckedOut, Tracking, Stages, TakesQueued
<1>25. CASE Advance(w)
    BY <1>0, <1>25, Moved DEF Advance, At, MayAdvance, NoSlot, trees, shelf,
       others, past, BatchesWatched, CheckedOut, Tracking, Stages, TakesNumber
<1>26. CASE Finish(w)
    BY <1>0, <1>26, Moved DEF Finish, At, SetPhase, NoSlot, Publishing,
       others, procs, trees, shelf, past, BatchesWatched, CheckedOut, Tracking,
       Stages
<1>27. CASE Close(w)
    BY <1>0, <1>27, Moved DEF Close, At, NoSlot, Quiet, shelf, others, trees,
       past, BatchesWatched, CheckedOut, Tracking, Stages
<1>28. CASE Cleanup(w)
    BY <1>0, <1>28, Moved DEF Cleanup, At, NoSlot, procs, trees, shelf,
       others, past, BatchesWatched, CheckedOut, Tracking, Stages
<1>29. CASE Expire(w)
    BY <1>0, <1>29, Moved DEF Expire, At, NoSlot, Quiet, shelf, others, procs,
       trees, past, BatchesWatched, CheckedOut, Tracking, Stages
<1>30. CASE BatchTimesOut(w)
    BY <1>0, <1>30, Moved DEF BatchTimesOut, At, ClearsOwn, NoSlot, Fails,
       Quiet, shelf, others, trees, past, BatchesWatched, CheckedOut, Tracking,
       Stages, Types, Batch
<1>q. QED  BY <1>1, <1>2, <1>3, <1>4, <1>5, <1>6, <1>7, <1>8, <1>9, <1>10, <1>11, <1>12,
   <1>13, <1>14, <1>15, <1>16, <1>17, <1>18, <1>19, <1>20, <1>21, <1>22, <1>23,
   <1>24, <1>25, <1>26, <1>27, <1>28, <1>29, <1>30 DEF Work

LEMMA StageKnows ==
    ASSUME Types, Numbers, CheckedOut, BatchesWatched, NEW w \in Sessions,
           Work(w) \/ Expire(w) \/ BatchTimesOut(w),
           SourceHas(w), TreeHas(w), ReleaseHas(w)
    PROVE  (SourceHas(w) /\ TreeHas(w) /\ ReleaseHas(w))'
<1> DEFINE p == worker[w].prof
<1>0. /\ worker[w].pc # "idle" => worker[w].prof \in Profiles
      /\ TakesQueued(w) => worker'[w].pc = "advance"
      /\ TakesNumber(w) => worker'[w].pc = "begin"
      /\ Moves(w) => Wanted(w)' = Wanted(w) /\ Merged(w)' = Merged(w) /\ worker'[w].prof = worker[w].prof
    BY TookQueued, TookNumber DEF Numbers, Numbered, Moves, Wanted, Merged
<1>1. CASE Disarm(w)
    BY <1>0, <1>1, Moved DEF Disarm, At, trees, shelf, others, past,
       SourceHas, TreeHas, ReleaseHas, Stages, Patched, Tracking, Built
<1>2. CASE Enqueue(w)
    BY <1>0, <1>2, Moved DEF Enqueue, At, procs, trees, shelf, others, past,
       SourceHas, TreeHas, ReleaseHas, Stages, Patched, Tracking, Built
<1>3. CASE Begin(w)
    BY <1>0, <1>3, Moved DEF Begin, At, NoSlot, Quiet, shelf, others, procs,
       trees, past, SourceHas, TreeHas, ReleaseHas, Stages, Patched, Tracking,
       Built
<1>4. CASE SyncStart(w)
    BY <1>0, <1>4, Moved DEF SyncStart, At, SetPhase, NoSlot, Quiet, shelf,
       others, procs, trees, past, SourceHas, TreeHas, ReleaseHas, Stages,
       Patched, Tracking, Built
<1>5. CASE Sync(w)
    BY <1>0, <1>5, Moved, FoundryAssumption, Contents DEF Sync, At, SetPhase,
       NoSlot, RollsBack, Quiet, shelf, others, procs, past, SourceHas, TreeHas,
       ReleaseHas, Stages, Patched, Tracking, Built, Merged, Wanted, Types,
       CheckedOut, Clean
<1>6. CASE Merge(w)
    BY <1>0, <1>6, Moved, FoundryAssumption, Contents DEF Merge, At,
       RollsBack, NoSlot, Quiet, shelf, others, procs, past, SourceHas, TreeHas,
       ReleaseHas, Stages, Patched, Tracking, Built, Merged, Wanted, Types,
       CheckedOut, Clean
<1>7. CASE Patch(w)
    BY <1>0, <1>7, Moved, FoundryAssumption, Contents DEF Patch, At, Fails,
       Quiet, shelf, others, procs, past, SourceHas, TreeHas, ReleaseHas, Stages,
       Patched, Tracking, Built, Merged, Wanted, Types, CheckedOut, Clean
<1>8. CASE Guard(w)
    BY <1>0, <1>8, Moved DEF Guard, At, NoSlot, Quiet, shelf, others, procs,
       trees, past, SourceHas, TreeHas, ReleaseHas, Stages, Patched, Tracking,
       Built
<1>9. CASE Prepare(w)
    BY <1>0, <1>9, Moved DEF Prepare, At, Quiet, shelf, others, procs, past,
       SourceHas, TreeHas, ReleaseHas, Stages, Patched, Tracking, Built
<1>10. CASE Spawn(w)
    BY <1>0, <1>10, Moved DEF Spawn, NoSlot, At, Quiet, shelf, others, trees,
       past, SourceHas, TreeHas, ReleaseHas, Stages, Patched, Tracking, Built,
       BatchesWatched, Types
<1>11. CASE Track(w)
    BY <1>0, <1>11, Moved DEF Track, At, Quiet, shelf, others, trees, past,
       SourceHas, TreeHas, ReleaseHas, Stages, Patched, Tracking, Built,
       BatchesWatched, Types
<1>12. CASE BatchEnds(w)
    BY <1>0, <1>12, Moved, FoundryAssumption DEF BatchEnds, At, Quiet, shelf,
       others, past, SourceHas, TreeHas, ReleaseHas, Stages, Patched, Tracking,
       Built, Merged, Wanted, Types
<1>13. CASE Configured(w)
    BY <1>0, <1>13, Moved DEF Configured, At, Polled, ClearsOwn, NoSlot,
       RollsBack, Quiet, shelf, others, past, SourceHas, TreeHas, ReleaseHas,
       Stages, Patched, Tracking, Built
<1>14. CASE Wipe(w)
    BY <1>0, <1>14, Moved DEF Wipe, At, Fails, Quiet, shelf, others, procs,
       past, SourceHas, TreeHas, ReleaseHas, Stages, Patched, Tracking, Built
<1>15. CASE Gate(w)
    BY <1>0, <1>15, Moved DEF Gate, At, ClearsOwn, NoSlot, Quiet, shelf,
       others, trees, past, SourceHas, TreeHas, ReleaseHas, Stages, Patched,
       Tracking, Built
<1>16. CASE Ask(w)
    BY <1>0, <1>16, Moved DEF Ask, At, NoSlot, SetPhase, Quiet, shelf, others,
       procs, trees, past, SourceHas, TreeHas, ReleaseHas, Stages, Patched,
       Tracking, Built
<1>17. CASE Waited(w)
    BY <1>0, <1>17, Moved DEF Waited, At, NoSlot, Quiet, shelf, others, trees,
       past, SourceHas, TreeHas, ReleaseHas, Stages, Patched, Tracking, Built
<1>18. CASE GiveUpWaiting(w)
    BY <1>0, <1>18, Moved DEF GiveUpWaiting, At, SetPhase, NoSlot, shelf,
       others, procs, trees, past, SourceHas, TreeHas, ReleaseHas, Stages,
       Patched, Tracking, Built
<1>19. CASE Compiled(w)
    BY <1>0, <1>19, Moved DEF Compiled, At, Polled, Fails, RollsBack, NoSlot,
       Quiet, shelf, others, trees, past, SourceHas, TreeHas, ReleaseHas, Stages,
       Patched, Tracking, Built, BatchesWatched, Types
<1>20. CASE Validate(w)
    BY <1>0, <1>20, Moved, FoundryAssumption DEF Validate, At, Good, SetPhase,
       NoSlot, RollsBack, Quiet, shelf, others, procs, trees, past, SourceHas,
       TreeHas, ReleaseHas, Stages, Patched, Tracking, Built, Merged, Wanted,
       Types
<1>21. CASE DropPrevious(w)
    BY <1>0, <1>21, Moved DEF DropPrevious, At, PublishFails, NoSlot, shelf,
       Publishing, others, procs, trees, past, SourceHas, TreeHas, ReleaseHas,
       Stages, Patched, Tracking, Built
<1>22. CASE Rotate(w)
    BY <1>0, <1>22, Moved DEF Rotate, At, shelf, Publishing, others, procs,
       trees, SourceHas, TreeHas, ReleaseHas, Stages, Patched, Tracking, Built
<1>23. CASE Copy(w)
    <2>1. p \in Profiles /\ tree[p].out \in {Wanted(w), Absent}
        BY <1>0, <1>23 DEF Copy, At, TreeHas, Built
    <2>2. Moves(w) /\ worker'[w].pc \in {"copied", "failed"}
        BY <1>23, Moved DEF Copy, PublishFails, Stages
    <2>3. worker'[w].pc = "copied" => release' = [release EXCEPT ![p] = tree[p].out] /\ tree[p].out \in Content
        BY <1>23, Moved DEF Copy, PublishFails, Good, Stages
    <2>4. worker'[w].pc = "copied" => release'[p] = Wanted(w)
        BY <2>1, <2>3, FoundryAssumption DEF Types
    <2> QED  BY <1>0, <2>2, <2>4 DEF SourceHas, TreeHas, ReleaseHas, Patched, Tracking, Built
<1>24. CASE Activate(w)
    BY <1>0, <1>24, Moved DEF Activate, At, Publishing, others, procs, trees,
       shelf, past, SourceHas, TreeHas, ReleaseHas, Stages, Patched, Tracking,
       Built, TakesQueued
<1>25. CASE Advance(w)
    BY <1>0, <1>25, Moved DEF Advance, At, MayAdvance, NoSlot, trees, shelf,
       others, past, SourceHas, TreeHas, ReleaseHas, Stages, Patched, Tracking,
       Built, TakesNumber
<1>26. CASE Finish(w)
    BY <1>0, <1>26, Moved DEF Finish, At, SetPhase, NoSlot, Publishing,
       others, procs, trees, shelf, past, SourceHas, TreeHas, ReleaseHas, Stages,
       Patched, Tracking, Built
<1>27. CASE Close(w)
    BY <1>0, <1>27, Moved DEF Close, At, NoSlot, Quiet, shelf, others, trees,
       past, SourceHas, TreeHas, ReleaseHas, Stages, Patched, Tracking, Built
<1>28. CASE Cleanup(w)
    BY <1>0, <1>28, Moved DEF Cleanup, At, NoSlot, procs, trees, shelf,
       others, past, SourceHas, TreeHas, ReleaseHas, Stages, Patched, Tracking,
       Built
<1>29. CASE Expire(w)
    BY <1>0, <1>29, Moved DEF Expire, At, NoSlot, Quiet, shelf, others, procs,
       trees, past, SourceHas, TreeHas, ReleaseHas, Stages, Patched, Tracking,
       Built
<1>30. CASE BatchTimesOut(w)
    BY <1>0, <1>30, Moved DEF BatchTimesOut, At, ClearsOwn, NoSlot, Fails,
       Quiet, shelf, others, trees, past, SourceHas, TreeHas, ReleaseHas, Stages,
       Patched, Tracking, Built
<1>q. QED  BY <1>1, <1>2, <1>3, <1>4, <1>5, <1>6, <1>7, <1>8, <1>9, <1>10, <1>11, <1>12,
   <1>13, <1>14, <1>15, <1>16, <1>17, <1>18, <1>19, <1>20, <1>21, <1>22, <1>23,
   <1>24, <1>25, <1>26, <1>27, <1>28, <1>29, <1>30 DEF Work

LEMMA ShelfStep ==
    ASSUME Types, Numbers, NEW w \in Sessions, Work(w) \/ Expire(w) \/ BatchTimesOut(w),
           ~DropPrevious(w), ~Rotate(w), ~Copy(w)
    PROVE  /\ UNCHANGED <<release, prev, published, faults>>
           /\ worker[w].pc \notin {"rotate", "copy"} /\ worker'[w].pc \notin {"rotate", "copy"}
<1>0. /\ TakesQueued(w) => worker'[w].pc = "advance"
      /\ TakesNumber(w) => worker'[w].pc = "begin"
    BY TookQueued, TookNumber
<1>1. CASE Disarm(w)
    BY <1>0, <1>1, Moved DEF Disarm, At, trees, shelf, others, past, Stages
<1>2. CASE Enqueue(w)
    BY <1>0, <1>2, Moved DEF Enqueue, At, procs, trees, shelf, others, past,
       Stages
<1>3. CASE Begin(w)
    BY <1>0, <1>3, Moved DEF Begin, At, NoSlot, Quiet, shelf, others, procs,
       trees, past, Stages
<1>4. CASE SyncStart(w)
    BY <1>0, <1>4, Moved DEF SyncStart, At, SetPhase, NoSlot, Quiet, shelf,
       others, procs, trees, past, Stages
<1>5. CASE Sync(w)
    BY <1>0, <1>5, Moved DEF Sync, At, SetPhase, NoSlot, RollsBack, Quiet,
       shelf, others, procs, past, Stages
<1>6. CASE Merge(w)
    BY <1>0, <1>6, Moved DEF Merge, At, RollsBack, NoSlot, Quiet, shelf,
       others, procs, past, Stages
<1>7. CASE Patch(w)
    BY <1>0, <1>7, Moved DEF Patch, At, Fails, Quiet, shelf, others, procs,
       past, Stages
<1>8. CASE Guard(w)
    BY <1>0, <1>8, Moved DEF Guard, At, NoSlot, Quiet, shelf, others, procs,
       trees, past, Stages
<1>9. CASE Prepare(w)
    BY <1>0, <1>9, Moved DEF Prepare, At, Quiet, shelf, others, procs, past,
       Stages
<1>10. CASE Spawn(w)
    BY <1>0, <1>10, Moved DEF Spawn, NoSlot, At, Quiet, shelf, others, trees,
       past, Stages
<1>11. CASE Track(w)
    BY <1>0, <1>11, Moved DEF Track, At, Quiet, shelf, others, trees, past,
       Stages
<1>12. CASE BatchEnds(w)
    BY <1>0, <1>12, Moved DEF BatchEnds, At, Quiet, shelf, others, past,
       Stages
<1>13. CASE Configured(w)
    BY <1>0, <1>13, Moved DEF Configured, At, Polled, ClearsOwn, NoSlot,
       RollsBack, Quiet, shelf, others, past, Stages
<1>14. CASE Wipe(w)
    BY <1>0, <1>14, Moved DEF Wipe, At, Fails, Quiet, shelf, others, procs,
       past, Stages
<1>15. CASE Gate(w)
    BY <1>0, <1>15, Moved DEF Gate, At, ClearsOwn, NoSlot, Quiet, shelf,
       others, trees, past, Stages
<1>16. CASE Ask(w)
    BY <1>0, <1>16, Moved DEF Ask, At, NoSlot, SetPhase, Quiet, shelf, others,
       procs, trees, past, Stages
<1>17. CASE Waited(w)
    BY <1>0, <1>17, Moved DEF Waited, At, NoSlot, Quiet, shelf, others, trees,
       past, Stages
<1>18. CASE GiveUpWaiting(w)
    BY <1>0, <1>18, Moved DEF GiveUpWaiting, At, SetPhase, NoSlot, shelf,
       others, procs, trees, past, Stages
<1>19. CASE Compiled(w)
    BY <1>0, <1>19, Moved DEF Compiled, At, Polled, Fails, RollsBack, NoSlot,
       Quiet, shelf, others, trees, past, Stages
<1>20. CASE Validate(w)
    BY <1>0, <1>20, Moved DEF Validate, At, SetPhase, NoSlot, RollsBack,
       Quiet, shelf, others, procs, trees, past, Stages
<1>21. CASE DropPrevious(w)
    BY <1>21
<1>22. CASE Rotate(w)
    BY <1>22
<1>23. CASE Copy(w)
    BY <1>23
<1>24. CASE Activate(w)
    BY <1>0, <1>24, Moved DEF Activate, At, Publishing, others, procs, trees,
       shelf, past, Stages, TakesQueued
<1>25. CASE Advance(w)
    BY <1>0, <1>25, Moved DEF Advance, At, MayAdvance, NoSlot, trees, shelf,
       others, past, Stages, TakesNumber
<1>26. CASE Finish(w)
    BY <1>0, <1>26, Moved DEF Finish, At, SetPhase, NoSlot, Publishing,
       others, procs, trees, shelf, past, Stages
<1>27. CASE Close(w)
    BY <1>0, <1>27, Moved DEF Close, At, NoSlot, Quiet, shelf, others, trees,
       past, Stages
<1>28. CASE Cleanup(w)
    BY <1>0, <1>28, Moved DEF Cleanup, At, NoSlot, procs, trees, shelf,
       others, past, Stages
<1>29. CASE Expire(w)
    BY <1>0, <1>29, Moved DEF Expire, At, NoSlot, Quiet, shelf, others, procs,
       trees, past, Stages
<1>30. CASE BatchTimesOut(w)
    BY <1>0, <1>30, Moved DEF BatchTimesOut, At, ClearsOwn, NoSlot, Fails,
       Quiet, shelf, others, trees, past, Stages
<1>q. QED  BY <1>1, <1>2, <1>3, <1>4, <1>5, <1>6, <1>7, <1>8, <1>9, <1>10, <1>11, <1>12,
   <1>13, <1>14, <1>15, <1>16, <1>17, <1>18, <1>19, <1>20, <1>21, <1>22, <1>23,
   <1>24, <1>25, <1>26, <1>27, <1>28, <1>29, <1>30 DEF Work

LEMMA StepAlive ==
    ASSUME NEW w \in Sessions, Work(w) \/ Expire(w) \/ BatchTimesOut(w)
    PROVE  Alive(w)
<1>1. CASE Disarm(w)
    BY <1>1 DEF Disarm, At, Alive
<1>2. CASE Enqueue(w)
    BY <1>2 DEF Enqueue, At, Alive
<1>3. CASE Begin(w)
    BY <1>3 DEF Begin, At, Alive
<1>4. CASE SyncStart(w)
    BY <1>4 DEF SyncStart, At, Alive
<1>5. CASE Sync(w)
    BY <1>5 DEF Sync, At, Alive
<1>6. CASE Merge(w)
    BY <1>6 DEF Merge, At, Alive
<1>7. CASE Patch(w)
    BY <1>7 DEF Patch, At, Alive
<1>8. CASE Guard(w)
    BY <1>8 DEF Guard, At, Alive
<1>9. CASE Prepare(w)
    BY <1>9 DEF Prepare, At, Alive
<1>10. CASE Spawn(w)
    BY <1>10 DEF Spawn, At, Alive
<1>11. CASE Track(w)
    BY <1>11 DEF Track, At, Alive
<1>12. CASE BatchEnds(w)
    BY <1>12 DEF BatchEnds, At, Alive
<1>13. CASE Configured(w)
    BY <1>13 DEF Configured, At, Alive
<1>14. CASE Wipe(w)
    BY <1>14 DEF Wipe, At, Alive
<1>15. CASE Gate(w)
    BY <1>15 DEF Gate, At, Alive
<1>16. CASE Ask(w)
    BY <1>16 DEF Ask, At, Alive
<1>17. CASE Waited(w)
    BY <1>17 DEF Waited, At, Alive
<1>18. CASE GiveUpWaiting(w)
    BY <1>18 DEF GiveUpWaiting, At, Alive
<1>19. CASE Compiled(w)
    BY <1>19 DEF Compiled, At, Alive
<1>20. CASE Validate(w)
    BY <1>20 DEF Validate, At, Alive
<1>21. CASE DropPrevious(w)
    BY <1>21 DEF DropPrevious, At, Alive
<1>22. CASE Rotate(w)
    BY <1>22 DEF Rotate, At, Alive
<1>23. CASE Copy(w)
    BY <1>23 DEF Copy, At, Alive
<1>24. CASE Activate(w)
    BY <1>24 DEF Activate, At, Alive
<1>25. CASE Advance(w)
    BY <1>25 DEF Advance, At, Alive
<1>26. CASE Finish(w)
    BY <1>26 DEF Finish, At, Alive
<1>27. CASE Close(w)
    BY <1>27 DEF Close, At, Alive
<1>28. CASE Cleanup(w)
    BY <1>28 DEF Cleanup, At, Alive
<1>29. CASE Expire(w)
    BY <1>29 DEF Expire, At, Alive
<1>30. CASE BatchTimesOut(w)
    BY <1>30 DEF BatchTimesOut, At, Alive
<1>q. QED  BY <1>1, <1>2, <1>3, <1>4, <1>5, <1>6, <1>7, <1>8, <1>9, <1>10, <1>11, <1>12,
   <1>13, <1>14, <1>15, <1>16, <1>17, <1>18, <1>19, <1>20, <1>21, <1>22, <1>23,
   <1>24, <1>25, <1>26, <1>27, <1>28, <1>29, <1>30 DEF Work

(***************************************************************************)
(* The invariant is kept.                                                  *)
(***************************************************************************)
Known == Types /\ BatchesWatched /\ Numbers /\ CheckedOut /\ RestoreIsSeen

LEMMA KnownKept ==
    ASSUME Known, [Next]_vars
    PROVE  Known'
<1>0. Types' /\ Numbers'  BY StepKinds, NumbersKept DEF Known
<1>1. CASE UNCHANGED vars
    BY <1>0, <1>1 DEF vars, procs, trees, others, past, Known, BatchesWatched, CheckedOut, RestoreIsSeen
<1>2. CASE CancelFlag
    BY <1>0, <1>2
    DEF CancelFlag, trees, others, past, Known, Types, Batch, BatchesWatched, CheckedOut, RestoreIsSeen
<1>3. CASE Confirm \/ ClearCheck
    BY <1>0, <1>3
    DEF Confirm, ClearCheck, procs, trees, others, past, Known, BatchesWatched, CheckedOut, RestoreIsSeen
<1>4. CASE RestoreRemove \/ RestoreRename \/ ClearTrees
    BY <1>0, <1>4
    DEF RestoreRemove, RestoreRename, ClearTrees, procs, trees, past, Known, BatchesWatched,
        CheckedOut, RestoreIsSeen
<1>5. CASE \E p \in Profiles : RestoreBegin(p)
    BY <1>0, <1>5 DEF RestoreBegin, procs, trees, Known, BatchesWatched, CheckedOut, RestoreIsSeen
<1>6. CASE CancelTake
    BY <1>0, <1>6 DEF CancelTake, procs, trees, others, Known, BatchesWatched, CheckedOut, RestoreIsSeen
<1>7. CASE Crash
    <2>1. \A w \in Sessions : worker'[w].pc \in {"idle", "ended"}
        BY <1>7, CrashSteps DEF Known, Alive
    <2> QED  BY <1>0, <1>7, <2>1 DEF Crash, Known, BatchesWatched, CheckedOut, RestoreIsSeen
<1>8. ASSUME NEW w \in Sessions, NEW r \in Requests, Accept(w, r)  PROVE Known'
    <2>1. /\ worker[w].pc = "idle" /\ worker'[w].pc = "accepted"
          /\ \A v \in Sessions \ {w} : worker'[v] = worker[v]
        BY <1>8, AcceptSteps DEF Known
    <2> QED
        BY <1>0, <1>8, <2>1
        DEF Accept, procs, trees, others, Known, BatchesWatched, CheckedOut, RestoreIsSeen, Tracking
<1>9. ASSUME NEW w \in Sessions, Work(w) \/ Expire(w) \/ BatchTimesOut(w)  PROVE Known'
    BY <1>0, <1>9, StageStep DEF Known, RestoreIsSeen
<1> QED  BY <1>1, <1>2, <1>3, <1>4, <1>5, <1>6, <1>7, <1>8, <1>9 DEF Next, Command, Finishing

Knows(w) == SourceHas(w) /\ TreeHas(w) /\ ReleaseHas(w)

\* a worker that does not run knows nothing
LEMMA Resting ==
    \A w \in Sessions : worker[w].pc \in {"idle", "accepted", "ended"} => Knows(w)
BY DEF Knows, SourceHas, TreeHas, ReleaseHas, Patched, Tracking, Built

LEMMA KnowsKept ==
    ASSUME Known, ~Early => Alone /\ StagesKnow, [Next]_vars, ~Early'
    PROVE  StagesKnow'
<1>0. ~Early /\ Alone /\ StagesKnow /\ Types /\ Types'
    BY AloneKept, KnownKept DEF Known
<1> SUFFICES ASSUME NEW w \in Sessions  PROVE Knows(w)'  BY DEF Knows, StagesKnow
<1>k. Knows(w)  BY <1>0 DEF Knows, StagesKnow
<1>r. worker'[w].pc \in {"idle", "accepted", "ended"} => Knows(w)'
    BY DEF Knows, SourceHas, TreeHas, ReleaseHas, Patched, Tracking, Built
<1>u. UNCHANGED worker => UNCHANGED <<Wanted(w), Merged(w)>>  BY DEF Wanted, Merged
<1> DEFINE p == worker[w].prof
<1>p. worker[w].pc # "idle" => p \in Profiles  BY DEF Known, Numbers, Numbered
<1>1. CASE UNCHANGED vars
    BY <1>k, <1>u, <1>1 DEF vars, procs, trees, shelf, past, Knows, SourceHas, TreeHas, ReleaseHas
<1>2. CASE CancelFlag
    <2>1. child'[w] = "ok" => child[w] = "ok"  BY <1>2 DEF CancelFlag
    <2> QED
        BY <1>k, <1>u, <1>2, <2>1
        DEF CancelFlag, trees, shelf, past, Knows, SourceHas, TreeHas, ReleaseHas
<1>3. CASE Confirm \/ ClearCheck \/ CancelTake
    BY <1>k, <1>u, <1>3
    DEF Confirm, ClearCheck, CancelTake, procs, trees, shelf, past, Knows, SourceHas, TreeHas, ReleaseHas
<1>4. CASE RestoreRemove \/ RestoreRename \/ \E q \in Profiles : RestoreBegin(q)
    <2>1. touched'
        BY <1>4 DEF RestoreRemove, RestoreRename, RestoreBegin, past, Known, RestoreIsSeen
    <2>2. UNCHANGED <<worker, child, src, tree>>
        BY <1>4 DEF RestoreRemove, RestoreRename, RestoreBegin, procs, trees
    <2> QED  BY <1>k, <1>u, <2>1, <2>2 DEF Knows, SourceHas, TreeHas, ReleaseHas
<1>5. CASE ClearTrees
    <2>1. worker[w].pc # "idle" => tree'[p].out = Absent  BY <1>p, <1>5 DEF ClearTrees
    <2> QED
        BY <1>k, <1>u, <1>5, <2>1
        DEF ClearTrees, procs, shelf, past, Knows, SourceHas, TreeHas, ReleaseHas, Built
<1>6. CASE Crash  BY <1>0, <1>r, <1>6, CrashSteps DEF Alive
<1>7. ASSUME NEW v \in Sessions, NEW r \in Requests, Accept(v, r)  PROVE Knows(w)'
    BY <1>0, <1>r, <1>7, AcceptSteps DEF Alive
<1>8. ASSUME NEW v \in Sessions, Work(v) \/ Expire(v) \/ BatchTimesOut(v)  PROVE Knows(w)'
    <2>1. CASE v = w  BY <1>k, <1>8, <2>1, StageKnows DEF Knows, Known
    <2>2. CASE v # w
        <3>1. Alive(v) /\ worker'[w] = worker[w]
            BY <1>0, <1>8, <2>2, WorkerMoves, TookQueued, TookNumber, StepAlive
            DEF Known, Works, Calm, Moves, Alive
        <3>2. ~Alive(w)  BY <1>0, <2>2, <3>1 DEF Alone, OneWorker
        <3> QED  BY <1>r, <3>1, <3>2 DEF Alive
    <2> QED  BY <2>1, <2>2
<1> QED
    BY <1>1, <1>2, <1>3, <1>4, <1>5, <1>6, <1>7, <1>8 DEF Next, Command, Finishing

\* a build is kept by whatever leaves Release, its predecessor and the
\* publications alone
LEMMA ShelfAlone ==
    ASSUME NEW p \in Profiles, Kept(p), UNCHANGED <<release, prev, faults>>,
           Copying(p)' <=> Copying(p), Replacing(p)' <=> Replacing(p)
    PROVE  Kept(p)'
BY DEF Kept, Good

LEMMA BuildsKeptOn ==
    ASSUME Known, ~Early => Alone /\ StagesKnow /\ BuildsKept, [Next]_vars, ~Early'
    PROVE  BuildsKept'
<1>0. ~Early /\ Alone /\ BuildsKept /\ Types /\ Types'
    BY AloneKept, KnownKept DEF Known
<1>1. CASE UNCHANGED <<worker, release, prev, published, faults, touched>>
    <2>1. \A p : (Copying(p)' <=> Copying(p)) /\ (Replacing(p)' <=> Replacing(p))
        BY <1>1 DEF Copying, Replacing, At
    <2> QED  BY <1>0, <1>1, <2>1, ShelfAlone DEF BuildsKept, Types
<1>2. CASE UNCHANGED vars  BY <1>1, <1>2 DEF vars, shelf, past
<1>3. CASE CancelFlag \/ Confirm \/ ClearCheck \/ ClearTrees \/ CancelTake
    BY <1>1, <1>3 DEF CancelFlag, Confirm, ClearCheck, ClearTrees, CancelTake, shelf, past
<1>4. CASE RestoreRemove \/ RestoreRename \/ \E q \in Profiles : RestoreBegin(q)
    <2>1. touched'
        BY <1>4 DEF RestoreRemove, RestoreRename, RestoreBegin, past, Known, RestoreIsSeen
    <2> QED  BY <2>1 DEF BuildsKept
<1>5. CASE Crash
    <2>1. \A w \in Sessions : worker'[w].pc \in {"idle", "ended"}
        BY <1>0, <1>5, CrashSteps DEF Alive
    <2>2. \A p : ~Copying(p)' /\ ~Replacing(p)'  BY <2>1 DEF Copying, Replacing, At
    <2> SUFFICES ASSUME ~touched, NEW p \in published  PROVE Kept(p)'
        BY <1>5 DEF Crash, BuildsKept
    <2>3. Kept(p) /\ p \in Profiles /\ faults \in Nat  BY <1>0 DEF BuildsKept, Types
    <2>4. release'[p] = IF Copying(p) THEN Empty ELSE release[p]  BY <1>5, <2>3 DEF Crash
    <2>5. prev' = prev  BY <1>5 DEF Crash
    <2>6. CASE \E w \in Sessions : worker[w].pc \in {"rotate", "copy", "copied"}
        <3>1. faults' = faults + 1  BY <1>5, <2>6 DEF Crash
        <3>2. faults' # 0 /\ (faults' = 1 => faults = 0)  BY <2>3, <3>1
        <3> QED  BY <2>2, <2>3, <2>4, <2>5, <3>2 DEF Kept
    <2>7. CASE ~\E w \in Sessions : worker[w].pc \in {"rotate", "copy", "copied"}
        <3>1. faults' = faults  BY <1>5, <2>3, <2>7 DEF Crash
        <3>2. ~Copying(p) /\ ~Replacing(p)  BY <2>7 DEF Copying, Replacing, At
        <3> QED  BY <2>2, <2>3, <2>4, <2>5, <3>1, <3>2 DEF Kept
    <2> QED  BY <2>6, <2>7
<1>6. ASSUME NEW w \in Sessions, NEW r \in Requests, Accept(w, r)  PROVE BuildsKept'
    <2>1. /\ \A v \in Sessions : ~Alive(v)
          /\ \A v \in Sessions : worker'[v].pc \in {"idle", "accepted", "ended"}
        BY <1>0, <1>6, AcceptSteps DEF Alive
    <2>2. \A p : ~Copying(p)' /\ ~Replacing(p)' /\ ~Copying(p) /\ ~Replacing(p)
        BY <2>1 DEF Copying, Replacing, At, Alive
    <2>3. UNCHANGED <<release, prev, published, faults, touched>>  BY <1>6 DEF Accept, shelf
    <2> QED  BY <1>0, <2>2, <2>3, ShelfAlone DEF BuildsKept, Types
<1>7. ASSUME NEW w \in Sessions, Work(w) \/ Expire(w) \/ BatchTimesOut(w)  PROVE BuildsKept'
    <2> DEFINE p == worker[w].prof
    <2>1. /\ Alive(w) /\ p \in Profiles
          /\ \A v \in Sessions \ {w} : ~Alive(v) /\ worker'[v] = worker[v]
        <3>1. Alive(w)  BY <1>7, StepAlive
        <3>2. \A v \in Sessions \ {w} : worker'[v] = worker[v]
            BY <1>7, WorkerMoves, TookQueued, TookNumber DEF Known, Works, Calm, Moves
        <3> QED  BY <1>0, <3>1, <3>2 DEF Alone, OneWorker, Alive, Known, Numbers, Numbered
    <2>2. \A q : /\ Copying(q) <=> worker[w].pc = "copy" /\ p = q
                 /\ Replacing(q) <=> worker[w].pc \in {"rotate", "copy"} /\ p = q
        BY <2>1 DEF Copying, Replacing, At, Alive
    <2>3. \A q : /\ Copying(q)' <=> worker'[w].pc = "copy" /\ worker'[w].prof = q
                 /\ Replacing(q)' <=> worker'[w].pc \in {"rotate", "copy"} /\ worker'[w].prof = q
        BY <2>1 DEF Copying, Replacing, At, Alive
    <2>4. touched' = touched  BY <1>7, StageStep DEF Known
    <2>5. CASE ~DropPrevious(w) /\ ~Rotate(w) /\ ~Copy(w)
        <3>1. /\ UNCHANGED <<release, prev, published, faults>>
              /\ worker[w].pc \notin {"rotate", "copy"} /\ worker'[w].pc \notin {"rotate", "copy"}
            BY <1>7, <2>5, ShelfStep DEF Known
        <3> QED  BY <1>0, <2>2, <2>3, <2>4, <3>1, ShelfAlone DEF BuildsKept, Types
    <2>6. CASE DropPrevious(w) \/ Rotate(w) \/ Copy(w)
        <3> SUFFICES ASSUME ~touched, NEW q \in published'  PROVE Kept(q)'
            BY <2>4 DEF BuildsKept
        <3>0. /\ q \in Profiles /\ faults \in Nat
              /\ release \in [Profiles -> Shelved] /\ prev \in [Profiles -> Shelved]
              /\ q \in published => Kept(q)
            BY <1>0 DEF BuildsKept, Types
        <3>1. CASE DropPrevious(w)
            <4>1. /\ worker[w].pc = "publish" /\ worker'[w].pc \in {"rotate", "failed"}
                  /\ worker'[w].prof = p /\ UNCHANGED <<published, faults>>
                BY <3>1, Moved DEF DropPrevious, PublishFails, At, Moves, Stages, past, Known
            <4>2. CASE worker'[w].pc = "failed"
                <5>1. UNCHANGED <<release, prev>>
                    BY <3>1, <4>2, Moved DEF DropPrevious, shelf, Stages, Known
                <5> QED  BY <2>2, <2>3, <3>0, <4>1, <4>2, <5>1, ShelfAlone
            <4>3. CASE worker'[w].pc = "rotate"
                <5>1. /\ release' = [release EXCEPT ![p] = IF @ = Absent THEN Empty ELSE @]
                      /\ prev' = [prev EXCEPT ![p] = Absent]
                    BY <3>1, <4>3, Moved DEF DropPrevious, PublishFails, Stages, Known
                <5>2. Good(release[q]) => Good(release'[q])
                    BY <2>1, <3>0, <5>1, FoundryAssumption DEF Good
                <5>3. q # p => prev'[q] = prev[q]  BY <2>1, <3>0, <5>1
                <5> QED  BY <2>2, <2>3, <3>0, <4>1, <4>3, <5>2, <5>3 DEF Kept
            <4> QED  BY <4>1, <4>2, <4>3
        <3>2. CASE Rotate(w)
            <4>1. /\ worker[w].pc = "rotate" /\ worker'[w].pc = "copy"
                  /\ worker'[w].prof = p /\ published' = published
                BY <3>2, Moved DEF Rotate, At, Moves, Stages, Known
            <4>2. CASE /\ prev' = [prev EXCEPT ![p] = release[p]]
                       /\ release' = [release EXCEPT ![p] = Empty] /\ faults' = faults
                <5>1. /\ q = p => prev'[q] = release[q]
                      /\ q # p => release'[q] = release[q] /\ prev'[q] = prev[q]
                    BY <2>1, <3>0, <4>2
                <5> QED  BY <2>2, <2>3, <3>0, <4>1, <4>2, <5>1 DEF Kept, Good
            <4>3. CASE faults' = faults + 1 /\ UNCHANGED shelf
                <5>1. UNCHANGED <<release, prev>> /\ faults' # 0 /\ (faults' = 1 => faults = 0)
                    BY <3>0, <4>3 DEF shelf
                <5> QED  BY <2>2, <2>3, <3>0, <4>1, <5>1 DEF Kept, Good
            <4> QED  BY <3>2, <4>2, <4>3 DEF Rotate
        <3>3. CASE Copy(w)
            <4>1. /\ worker[w].pc = "copy" /\ worker'[w].pc \in {"copied", "failed"}
                  /\ worker'[w].prof = p /\ prev' = prev
                BY <3>3, Moved DEF Copy, PublishFails, At, Moves, Stages, Known
            <4>2. CASE /\ Good(tree[p].out) /\ release' = [release EXCEPT ![p] = tree[p].out]
                       /\ published' = published \cup {p} /\ faults' = faults
                <5>1. /\ q = p => Good(release'[q])
                      /\ q # p => release'[q] = release[q] /\ q \in published
                    BY <2>1, <3>0, <4>2
                <5> QED  BY <2>2, <2>3, <3>0, <4>1, <4>2, <5>1 DEF Kept, Good
            <4>3. CASE /\ faults' = faults + 1 /\ release' = [release EXCEPT ![p] = Empty]
                       /\ published' = published
                <5>1. /\ faults' # 0 /\ (faults' = 1 => faults = 0)
                      /\ q # p => release'[q] = release[q]
                    BY <2>1, <3>0, <4>3
                <5> QED  BY <2>2, <2>3, <3>0, <4>1, <4>3, <5>1 DEF Kept, Good
            <4> QED  BY <3>3, <4>2, <4>3 DEF Copy
        <3> QED  BY <2>6, <3>1, <3>2, <3>3
    <2> QED  BY <2>5, <2>6
<1> QED
    BY <1>2, <1>3, <1>4, <1>5, <1>6, <1>7 DEF Next, Command, Finishing

LEMMA InitInd == Init => FoundryInd
<1> SUFFICES ASSUME Init  PROVE FoundryInd  OBVIOUS
<1>1. /\ worker = [w \in Sessions |-> NoWorker] /\ ids = 0 /\ slot = NoSlot /\ pending = <<>>
      /\ aborted = {} /\ published = {}
    BY DEF Init
<1>2. NoWorker \in WorkerRecord
    BY FoundryAssumption DEF NoWorker, WorkerRecord, Stages
<1>3. \A w \in Sessions : worker[w].pc = "idle" /\ worker[w].after = 0
    BY <1>1 DEF NoWorker
<1>4. [key |-> FALSE, out |-> Absent] \in Tree  BY DEF Tree
<1>5. Types
    <2>1. worker \in [Sessions -> WorkerRecord]  BY <1>1, <1>2
    <2>2. tree \in [Profiles -> Tree]  BY <1>4 DEF Init
    <2>3. pending \in Seq(Queued)  BY <1>1
    <2>4. ids \in 0 .. MaxBuild /\ holder = 0 /\ slot \in {NoSlot} /\ restoring = <<>> /\ faults = 0
        BY FoundryAssumption DEF Init
    <2>5. /\ child \in [Sessions -> Batch] /\ spent \in [Kinds -> Nat]
          /\ release \in [Profiles -> Shelved] /\ prev \in [Profiles -> Shelved]
        BY DEF Init, Batch, Shelved
    <2>6. tracked = {} /\ src = Absent /\ published = {}  BY DEF Init
    <2> QED  BY <2>1, <2>2, <2>3, <2>4, <2>5, <2>6 DEF Types
<1>6. Started = {}  BY <1>3 DEF Started
<1>7. QueueBounded
    <2>1. Len(pending) = 0  BY <1>1
    <2>2. Cardinality({}) = 0  BY FS_EmptySet
    <2> QED  BY <1>6, <2>1, <2>2 DEF QueueBounded
<1>8. Numbers  BY <1>1, <1>3 DEF Numbers, Numbered, NoSlot
<1>9. BatchesWatched /\ CheckedOut /\ RestoreIsSeen
    BY <1>3 DEF Init, BatchesWatched, CheckedOut, RestoreIsSeen
<1>10. Alone
    BY <1>1, <1>3 DEF Alone, OneWorker, SlotIsAttended, AfterAborted, Alive, NoSlot
<1>11. StagesKnow
    BY <1>3 DEF StagesKnow, SourceHas, TreeHas, ReleaseHas, Patched, Tracking, Built
<1>12. BuildsKept  BY <1>1 DEF BuildsKept
<1> QED  BY <1>5, <1>7, <1>8, <1>9, <1>10, <1>11, <1>12 DEF FoundryInd

THEOREM FoundryIndHolds == Spec => []FoundryInd
<1>1. FoundryInd /\ [Next]_vars => FoundryInd'
    <2> SUFFICES ASSUME FoundryInd, [Next]_vars  PROVE FoundryInd'  OBVIOUS
    <2>1. Known /\ Known'  BY KnownKept DEF FoundryInd, Known
    <2>2. QueueBounded'  BY QueueKept DEF FoundryInd
    <2>3. ASSUME ~Early'  PROVE (Alone /\ StagesKnow /\ BuildsKept)'
        BY <2>1, <2>3, AloneKept, KnowsKept, BuildsKeptOn DEF FoundryInd
    <2> QED  BY <2>1, <2>2, <2>3 DEF FoundryInd, Known
<1> QED  BY <1>1, InitInd, PTL DEF Spec

(***************************************************************************)
(* The properties the runs check.                                          *)
(***************************************************************************)
\* Types, the queue's length, and: without a build accepted too early, the
\* number in CURRENT_BUILD is that of a live worker.
THEOREM FoundryIsSound == Spec => []FoundryInv
<1>1. FoundryInd => FoundryInv
    <2> SUFFICES ASSUME FoundryInd  PROVE FoundryInv  OBVIOUS
    <2>1. Len(pending) <= Cardinality(Sessions)
        <3>1. Started \in SUBSET Sessions  BY DEF Started
        <3>2. /\ Cardinality(Started) \in Nat /\ Cardinality(Sessions) \in Nat
              /\ Cardinality(Started) <= Cardinality(Sessions)
            BY <3>1, FS_Subset, FS_CardinalityType, FoundryAssumption
        <3>3. Len(pending) \in Nat  BY DEF FoundryInd, Types
        <3> QED  BY <3>2, <3>3 DEF FoundryInd, QueueBounded
    <2>2. \A p \in Profiles : /\ tree[p].out \in Content \cup {Absent}
                              /\ release[p] \in Shelved /\ prev[p] \in Shelved
        BY DEF FoundryInd, Types, Tree
    <2>3. FoundryTypeOK
        BY <2>1, <2>2
        DEF FoundryInd, Types, FoundryTypeOK, BatchesWatched, Tracking, SlotRecord, Shelved
    <2>4. SlotHasItsWorker
        BY DEF FoundryInd, Types, SlotRecord, NoSlot, Alone, SlotIsAttended, SlotHasItsWorker
    <2> QED  BY <2>3, <2>4 DEF FoundryInv
<1> QED  BY <1>1, FoundryIndHolds, PTL

\* The profile queued behind a build whose slot a cancel took never starts.
THEOREM CancelTakesAll == Spec => []CancelTakesTheQueue
<1>1. FoundryInd => CancelTakesTheQueue
    BY DEF FoundryInd, Alone, AfterAborted, CancelTakesTheQueue
<1> QED  BY <1>1, FoundryIndHolds, PTL

\* What a worker has just copied into Release is what it was asked to build.
THEOREM PublishesTheRequested == Spec => []PublishedIsRequested
<1>1. FoundryInd => PublishedIsRequested
    BY DEF FoundryInd, StagesKnow, ReleaseHas, Wanted, PublishedIsRequested, At
<1> QED  BY <1>1, FoundryIndHolds, PTL

\* One failed or interrupted publication never costs the last complete build.
THEOREM KeepsABuild == Spec => []ABuildIsKept
<1>1. FoundryInd => ABuildIsKept
    BY DEF FoundryInd, BuildsKept, Kept, ABuildIsKept
<1> QED  BY <1>1, FoundryIndHolds, PTL

-----------------------------------------------------------------------------
(* The brains of the engines *)

Brains0 == Launches \cup {0}
StartRecs == [pc : {"none", "probe", "await", "insert", "done"}, slot : BrainSlots \cup {0},
              port : BrainPorts \cup {0}, old : Brains0]
BrainRecs == [st : {"none", "spawned", "waiting", "polling", "ended"}, kind : Kind, cancelled : BOOLEAN]
StopRecs == [pc : {"idle", "await", "tail", "clear", "done"}, slot : BrainSlots \cup {0}, brain : Brains0]
Busy == {"probe", "await", "insert"}

BrainTypes ==
    /\ engine \in [BrainSlots -> Brains0] /\ registry \in [BrainSlots -> Brains0]
    /\ snaps \in [BrainSlots -> Brains0] /\ adapters \in SUBSET BrainSlots
    /\ start \in [Launches -> StartRecs] /\ brain \in [Launches -> BrainRecs]
    /\ stop \in [Stoppers -> StopRecs]
    /\ leaving \in [pc : {"idle", "await", "done"}, set : SUBSET Launches]
    /\ shuttingDown \in BOOLEAN /\ overlaps \in Nat

\* However starts and stops overlap: a brain comes with the insert of its start,
\* is in the registry of its slot only, and leaves it when it is cancelled.
Registered ==
    /\ \A g \in Launches :
          /\ start[g].pc # "none" => start[g].slot \in BrainSlots
          /\ start[g].pc = "done" <=> brain[g].st # "none"
          /\ brain[g].st = "none" => ~brain[g].cancelled
    /\ \A s \in BrainSlots : registry[s] # 0 =>
          /\ start[registry[s]].slot = s /\ ~brain[registry[s]].cancelled /\ brain[registry[s]].st # "none"
    /\ \A k \in Stoppers : stop[k].pc # "idle" => stop[k].slot \in BrainSlots
    /\ shuttingDown <=> leaving.pc # "idle"

\* As long as no stop of a slot overlapped a start or another stop of it, the
\* launch that owns the slot is the only one with a start or a brain there.
OwnerOnly(s) ==
    /\ engine[s] # 0 => start[engine[s]].slot = s /\ start[engine[s]].pc # "none"
    /\ \A g \in Launches : start[g].pc # "none" /\ start[g].slot = s /\ g # engine[s] =>
          start[g].pc = "done" /\ ~Live(g)
    /\ \A g \in Launches : start[g].pc \in Busy /\ start[g].slot = s => registry[s] = 0 /\ start[g].pc # "await"
    /\ registry[s] \in {0, engine[s]}

\* A stop of a slot is alone there: its start is over, the brain it waits for is
\* the slot's, and behind it there is none.
StopAlone(k) ==
    LET s == stop[k].slot IN
    stop[k].pc \in {"await", "tail", "clear"} =>
        /\ engine[s] # 0 /\ start[engine[s]].pc = "done" /\ registry[s] = 0
        /\ \A j \in Stoppers : stop[j].pc \in {"await", "tail", "clear"} /\ stop[j].slot = s => j = k
        /\ IF stop[k].pc = "await" THEN stop[k].brain = engine[s] ELSE ~Live(engine[s])
        /\ stop[k].pc = "clear" /\ leaving.pc = "idle" => snaps[s] = 0 /\ s \notin adapters

\* What the registries show of a slot before the application leaves.
Shown(s) ==
    LET g == engine[s] IN
    leaving.pc = "idle" =>
        /\ g = 0 => registry[s] = 0 /\ snaps[s] = 0 /\ s \notin adapters
        /\ g # 0 /\ start[g].pc = "done" /\ (\A k \in Stoppers : stop[k].slot = s => stop[k].pc \in {"idle", "done"}) =>
              registry[s] = g
        /\ g # 0 /\ brain[g].st \in {"waiting", "polling"} => snaps[s] = g /\ (brain[g].kind = "Poll" => s \in adapters)

OneAtATime == /\ \A s \in BrainSlots : OwnerOnly(s) /\ Shown(s)
              /\ \A k \in Stoppers : StopAlone(k)
BrainsInd == BrainTypes /\ Registered /\ (overlaps = 0 => OneAtATime)

\* What a step does to the record of a start, a brain or a stop.
LEMMA Edits ==
    /\ \A t \in StartRecs, pc \in {"probe", "await", "insert", "done"} : [t EXCEPT !.pc = pc] \in StartRecs
    /\ \A t \in StartRecs, pc \in {"await", "insert"}, old \in Brains0 : [t EXCEPT !.pc = pc, !.old = old] \in StartRecs
    /\ \A s \in BrainSlots, p \in BrainPorts : [pc |-> "probe", slot |-> s, port |-> p, old |-> 0] \in StartRecs
    /\ \A b \in BrainRecs, st \in {"spawned", "waiting", "polling", "ended"} : [b EXCEPT !.st = st] \in BrainRecs
    /\ \A b \in BrainRecs, kind \in Kind : [b EXCEPT !.kind = kind] \in BrainRecs
    /\ \A b \in BrainRecs : [b EXCEPT !.cancelled = TRUE] \in BrainRecs
    /\ \A k \in StopRecs, pc \in {"tail", "clear", "done"} : [k EXCEPT !.pc = pc] \in StopRecs
    /\ \A pc \in {"tail", "await"}, s \in BrainSlots, h \in Brains0 : [pc |-> pc, slot |-> s, brain |-> h] \in StopRecs
    /\ \A t \in StartRecs : t.slot \in BrainSlots \cup {0} /\ t.old \in Brains0
    /\ \A k \in StopRecs : k.slot \in BrainSlots \cup {0} /\ k.brain \in Brains0
    /\ {"Poll", "Sse"} \subseteq Kind
BY DEF StartRecs, BrainRecs, StopRecs, Brains0, Kind

\* Every step keeps the invariant.
LEMMA BrainsStep == BrainsInd /\ [BrainsNext]_brainVars => BrainsInd'
<1> SUFFICES ASSUME BrainsInd, [BrainsNext]_brainVars PROVE BrainsInd'
  OBVIOUS
<1> USE DEF BrainsInd
<1>1. ASSUME NEW g \in Launches, NEW s \in BrainSlots, NEW p \in BrainPorts, LaunchEngine(g, s, p)
      PROVE  BrainsInd'
  <2>1. BrainTypes'
    <3>1. start' \in [Launches -> StartRecs]
      BY <1>1, Edits DEF LaunchEngine, BrainTypes
    <3> QED
      BY <1>1, <3>1, Edits, BrainsAssumption DEF LaunchEngine, BrainTypes, Registered, Brains0
  <2>2. Registered'
    BY <1>1, BrainsAssumption DEF LaunchEngine, BrainTypes, Registered, StartRecs, BrainRecs, StopRecs, Kind, Brains0
  <2>3. overlaps' = 0 => overlaps = 0 /\ OneAtATime
    BY <1>1 DEF LaunchEngine, BrainTypes
  <2>4. ASSUME overlaps' = 0, NEW t \in BrainSlots PROVE OwnerOnly(t)'
    BY <1>1, <2>3, <2>4, BrainsAssumption DEF LaunchEngine, Live, BrainTypes, Registered, OneAtATime, OwnerOnly, StopAlone, Shown, Busy, StartRecs, BrainRecs, StopRecs, Kind, Brains0
  <2>5. ASSUME overlaps' = 0, NEW t \in BrainSlots PROVE Shown(t)'
    BY <1>1, <2>3, <2>5, BrainsAssumption DEF LaunchEngine, Live, BrainTypes, Registered, OneAtATime, OwnerOnly, StopAlone, Shown, Busy, StartRecs, BrainRecs, StopRecs, Kind, Brains0
  <2>6. ASSUME overlaps' = 0, NEW j \in Stoppers PROVE StopAlone(j)'
    BY <1>1, <2>3, <2>6, BrainsAssumption DEF LaunchEngine, Live, BrainTypes, Registered, OneAtATime, OwnerOnly, StopAlone, Shown, Busy, StartRecs, BrainRecs, StopRecs, Kind, Brains0
  <2> QED
    BY <2>1, <2>2, <2>4, <2>5, <2>6 DEF OneAtATime
<1>2. ASSUME NEW g \in Launches, NEW kind \in {"Poll", "Sse"}, StartTake(g, kind)
      PROVE  BrainsInd'
  <2>1. BrainTypes'
    <3>1. start' \in [Launches -> StartRecs]
      <4> DEFINE pc == IF registry[start[g].slot] = 0 THEN "insert" ELSE "await"
      <4>1. start[g] \in StartRecs /\ start[g].slot \in BrainSlots /\ registry[start[g].slot] \in Brains0
        BY <1>2 DEF StartTake, BrainTypes, Registered
      <4>2. [start[g] EXCEPT !.pc = pc, !.old = registry[start[g].slot]] \in StartRecs
        BY <4>1, Edits
      <4>3. start' = [start EXCEPT ![g] = [start[g] EXCEPT !.pc = pc, !.old = registry[start[g].slot]]]
        BY <1>2 DEF StartTake
      <4> QED
        BY <4>2, <4>3 DEF BrainTypes
    <3>2. brain' \in [Launches -> BrainRecs]
      BY <1>2, Edits DEF StartTake, BrainTypes
    <3> QED
      BY <1>2, <3>1, <3>2, Edits, BrainsAssumption DEF StartTake, BrainTypes, Registered, Brains0
  <2>2. Registered'
    BY <1>2, BrainsAssumption DEF StartTake, BrainTypes, Registered, StartRecs, BrainRecs, StopRecs, Kind, Brains0
  <2>3. overlaps' = 0 => overlaps = 0 /\ OneAtATime
    BY <1>2 DEF StartTake, BrainTypes
  <2>4. ASSUME overlaps' = 0, NEW t \in BrainSlots PROVE OwnerOnly(t)'
    BY <1>2, <2>3, <2>4, BrainsAssumption DEF StartTake, Live, BrainTypes, Registered, OneAtATime, OwnerOnly, StopAlone, Shown, Busy, StartRecs, BrainRecs, StopRecs, Kind, Brains0
  <2>5. ASSUME overlaps' = 0, NEW t \in BrainSlots PROVE Shown(t)'
    BY <1>2, <2>3, <2>5, BrainsAssumption DEF StartTake, Live, BrainTypes, Registered, OneAtATime, OwnerOnly, StopAlone, Shown, Busy, StartRecs, BrainRecs, StopRecs, Kind, Brains0
  <2>6. ASSUME overlaps' = 0, NEW j \in Stoppers PROVE StopAlone(j)'
    <3>1. \A h \in Launches : brain'[h].st = brain[h].st /\ (h # g => start'[h] = start[h])
      BY <1>2 DEF StartTake, BrainTypes, BrainRecs
    <3>2. start[g].slot \in BrainSlots /\ start[g].pc # "done" /\ start[g].pc # "none"
      BY <1>2 DEF StartTake, Registered
    <3>3. /\ UNCHANGED <<engine, adapters, snaps, stop, leaving>>
          /\ \A s \in BrainSlots : registry[s] = 0 => registry'[s] = 0
      BY <1>2 DEF StartTake, BrainTypes
    <3> QED
      BY <2>3, <2>6, <3>1, <3>2, <3>3 DEF Live, Registered, OneAtATime, StopAlone, BrainTypes, Brains0
  <2> QED
    BY <2>1, <2>2, <2>4, <2>5, <2>6 DEF OneAtATime
<1>3. ASSUME NEW g \in Launches, StartJoined(g)
      PROVE  BrainsInd'
  <2>1. BrainTypes'
    <3>1. start' \in [Launches -> StartRecs]
      BY <1>3, Edits DEF StartJoined, Step, Joined, Live, BrainTypes
    <3>2. brain' \in [Launches -> BrainRecs]
      BY <1>3, Edits DEF StartJoined, Step, Joined, Live, BrainTypes
    <3> QED
      BY <1>3, <3>1, <3>2, Edits, BrainsAssumption DEF StartJoined, Step, Joined, Live, BrainTypes, Registered, Brains0
  <2>2. Registered'
    BY <1>3, BrainsAssumption DEF StartJoined, Step, Joined, Live, BrainTypes, Registered, StartRecs, BrainRecs, StopRecs, Kind, Brains0
  <2>3. overlaps' = 0 => overlaps = 0 /\ OneAtATime
    BY <1>3 DEF StartJoined, Step, Joined, Live, BrainTypes
  <2>4. ASSUME overlaps' = 0, NEW t \in BrainSlots PROVE OwnerOnly(t)'
    BY <1>3, <2>3, <2>4, BrainsAssumption DEF StartJoined, Step, Joined, Live, BrainTypes, Registered, OneAtATime, OwnerOnly, StopAlone, Shown, Busy, StartRecs, BrainRecs, StopRecs, Kind, Brains0
  <2>5. ASSUME overlaps' = 0, NEW t \in BrainSlots PROVE Shown(t)'
    BY <1>3, <2>3, <2>5, BrainsAssumption DEF StartJoined, Step, Joined, Live, BrainTypes, Registered, OneAtATime, OwnerOnly, StopAlone, Shown, Busy, StartRecs, BrainRecs, StopRecs, Kind, Brains0
  <2>6. ASSUME overlaps' = 0, NEW j \in Stoppers PROVE StopAlone(j)'
    BY <1>3, <2>3, <2>6, BrainsAssumption DEF StartJoined, Step, Joined, Live, BrainTypes, Registered, OneAtATime, OwnerOnly, StopAlone, Shown, Busy, StartRecs, BrainRecs, StopRecs, Kind, Brains0
  <2> QED
    BY <2>1, <2>2, <2>4, <2>5, <2>6 DEF OneAtATime
<1>4. ASSUME NEW g \in Launches, StartInsert(g)
      PROVE  BrainsInd'
  <2>1. BrainTypes'
    <3>1. start' \in [Launches -> StartRecs]
      BY <1>4, Edits DEF StartInsert, Step, BrainTypes
    <3>2. brain' \in [Launches -> BrainRecs]
      BY <1>4, Edits DEF StartInsert, Step, BrainTypes
    <3> QED
      BY <1>4, <3>1, <3>2, Edits, BrainsAssumption DEF StartInsert, Step, BrainTypes, Registered, Brains0
  <2>2. Registered'
    BY <1>4, BrainsAssumption DEF StartInsert, Step, BrainTypes, Registered, StartRecs, BrainRecs, StopRecs, Kind, Brains0
  <2>3. overlaps' = 0 => overlaps = 0 /\ OneAtATime
    BY <1>4 DEF StartInsert, Step, BrainTypes
  <2>4. ASSUME overlaps' = 0, NEW t \in BrainSlots PROVE OwnerOnly(t)'
    BY <1>4, <2>3, <2>4, BrainsAssumption DEF StartInsert, Step, Live, BrainTypes, Registered, OneAtATime, OwnerOnly, StopAlone, Shown, Busy, StartRecs, BrainRecs, StopRecs, Kind, Brains0
  <2>5. ASSUME overlaps' = 0, NEW t \in BrainSlots PROVE Shown(t)'
    BY <1>4, <2>3, <2>5, BrainsAssumption DEF StartInsert, Step, Live, BrainTypes, Registered, OneAtATime, OwnerOnly, StopAlone, Shown, Busy, StartRecs, BrainRecs, StopRecs, Kind, Brains0
  <2>6. ASSUME overlaps' = 0, NEW j \in Stoppers PROVE StopAlone(j)'
    BY <1>4, <2>3, <2>6, BrainsAssumption DEF StartInsert, Step, Live, BrainTypes, Registered, OneAtATime, OwnerOnly, StopAlone, Shown, Busy, StartRecs, BrainRecs, StopRecs, Kind, Brains0
  <2> QED
    BY <2>1, <2>2, <2>4, <2>5, <2>6 DEF OneAtATime
<1>5. ASSUME NEW g \in Launches, BrainFirst(g)
      PROVE  BrainsInd'
  <2>1. BrainTypes'
    <3>1. brain' \in [Launches -> BrainRecs]
      BY <1>5, Edits DEF BrainFirst, BrainTypes
    <3>2. start[g].slot \in BrainSlots
      BY <1>5 DEF BrainFirst, Registered, BrainTypes, StartRecs
    <3>3. adapters' \in SUBSET BrainSlots /\ snaps' \in [BrainSlots -> Brains0]
      BY <1>5, <3>2 DEF BrainFirst, BrainTypes, Brains0
    <3> QED
      BY <1>5, <3>1, <3>3 DEF BrainFirst, BrainTypes
  <2>2. Registered'
    BY <1>5, BrainsAssumption DEF BrainFirst, BrainTypes, Registered, StartRecs, BrainRecs, StopRecs, Kind, Brains0
  <2>3. overlaps' = 0 => overlaps = 0 /\ OneAtATime
    BY <1>5 DEF BrainFirst, BrainTypes
  <2>4. ASSUME overlaps' = 0, NEW t \in BrainSlots PROVE OwnerOnly(t)'
    BY <1>5, <2>3, <2>4, BrainsAssumption DEF BrainFirst, Live, BrainTypes, Registered, OneAtATime, OwnerOnly, StopAlone, Shown, Busy, StartRecs, BrainRecs, StopRecs, Kind, Brains0
  <2>5. ASSUME overlaps' = 0, NEW t \in BrainSlots PROVE Shown(t)'
    BY <1>5, <2>3, <2>5, BrainsAssumption DEF BrainFirst, Live, BrainTypes, Registered, OneAtATime, OwnerOnly, StopAlone, Shown, Busy, StartRecs, BrainRecs, StopRecs, Kind, Brains0
  <2>6. ASSUME overlaps' = 0, NEW j \in Stoppers PROVE StopAlone(j)'
    BY <1>5, <2>3, <2>6, BrainsAssumption DEF BrainFirst, Live, BrainTypes, Registered, OneAtATime, OwnerOnly, StopAlone, Shown, Busy, StartRecs, BrainRecs, StopRecs, Kind, Brains0
  <2> QED
    BY <2>1, <2>2, <2>4, <2>5, <2>6 DEF OneAtATime
<1>6. ASSUME NEW g \in Launches, BrainPoll(g)
      PROVE  BrainsInd'
  <2>1. BrainTypes'
    <3>1. brain' \in [Launches -> BrainRecs]
      BY <1>6, Edits DEF BrainPoll, BrainTypes
    <3> QED
      BY <1>6, <3>1, Edits, BrainsAssumption DEF BrainPoll, BrainTypes, Registered, Brains0
  <2>2. Registered'
    BY <1>6, BrainsAssumption DEF BrainPoll, BrainTypes, Registered, StartRecs, BrainRecs, StopRecs, Kind, Brains0
  <2>3. overlaps' = 0 => overlaps = 0 /\ OneAtATime
    BY <1>6 DEF BrainPoll, BrainTypes
  <2>4. ASSUME overlaps' = 0, NEW t \in BrainSlots PROVE OwnerOnly(t)'
    BY <1>6, <2>3, <2>4, BrainsAssumption DEF BrainPoll, Live, BrainTypes, Registered, OneAtATime, OwnerOnly, StopAlone, Shown, Busy, StartRecs, BrainRecs, StopRecs, Kind, Brains0
  <2>5. ASSUME overlaps' = 0, NEW t \in BrainSlots PROVE Shown(t)'
    BY <1>6, <2>3, <2>5, BrainsAssumption DEF BrainPoll, Live, BrainTypes, Registered, OneAtATime, OwnerOnly, StopAlone, Shown, Busy, StartRecs, BrainRecs, StopRecs, Kind, Brains0
  <2>6. ASSUME overlaps' = 0, NEW j \in Stoppers PROVE StopAlone(j)'
    BY <1>6, <2>3, <2>6, BrainsAssumption DEF BrainPoll, Live, BrainTypes, Registered, OneAtATime, OwnerOnly, StopAlone, Shown, Busy, StartRecs, BrainRecs, StopRecs, Kind, Brains0
  <2> QED
    BY <2>1, <2>2, <2>4, <2>5, <2>6 DEF OneAtATime
<1>7. ASSUME NEW g \in Launches, BrainEmit(g)
      PROVE  BrainsInd'
  <2>1. BrainTypes'
    <3>1. brain' \in [Launches -> BrainRecs]
      BY <1>7, Edits DEF BrainEmit, BrainTypes
    <3> QED
      BY <1>7, <3>1, Edits, BrainsAssumption DEF BrainEmit, BrainTypes, Registered, Brains0
  <2>2. Registered'
    BY <1>7, BrainsAssumption DEF BrainEmit, BrainTypes, Registered, StartRecs, BrainRecs, StopRecs, Kind, Brains0
  <2>3. overlaps' = 0 => overlaps = 0 /\ OneAtATime
    BY <1>7 DEF BrainEmit, BrainTypes
  <2>4. ASSUME overlaps' = 0, NEW t \in BrainSlots PROVE OwnerOnly(t)'
    BY <1>7, <2>3, <2>4, BrainsAssumption DEF BrainEmit, Live, BrainTypes, Registered, OneAtATime, OwnerOnly, StopAlone, Shown, Busy, StartRecs, BrainRecs, StopRecs, Kind, Brains0
  <2>5. ASSUME overlaps' = 0, NEW t \in BrainSlots PROVE Shown(t)'
    BY <1>7, <2>3, <2>5, BrainsAssumption DEF BrainEmit, Live, BrainTypes, Registered, OneAtATime, OwnerOnly, StopAlone, Shown, Busy, StartRecs, BrainRecs, StopRecs, Kind, Brains0
  <2>6. ASSUME overlaps' = 0, NEW j \in Stoppers PROVE StopAlone(j)'
    BY <1>7, <2>3, <2>6, BrainsAssumption DEF BrainEmit, Live, BrainTypes, Registered, OneAtATime, OwnerOnly, StopAlone, Shown, Busy, StartRecs, BrainRecs, StopRecs, Kind, Brains0
  <2> QED
    BY <2>1, <2>2, <2>4, <2>5, <2>6 DEF OneAtATime
<1>8. ASSUME NEW g \in Launches, BrainCancelled(g)
      PROVE  BrainsInd'
  <2>1. BrainTypes'
    <3>1. brain' \in [Launches -> BrainRecs]
      BY <1>8, Edits DEF BrainCancelled, BrainTypes
    <3> QED
      BY <1>8, <3>1, Edits, BrainsAssumption DEF BrainCancelled, BrainTypes, Registered, Brains0
  <2>2. Registered'
    BY <1>8, BrainsAssumption DEF BrainCancelled, BrainTypes, Registered, StartRecs, BrainRecs, StopRecs, Kind, Brains0
  <2>3. overlaps' = 0 => overlaps = 0 /\ OneAtATime
    BY <1>8 DEF BrainCancelled, BrainTypes
  <2>4. ASSUME overlaps' = 0, NEW t \in BrainSlots PROVE OwnerOnly(t)'
    BY <1>8, <2>3, <2>4, BrainsAssumption DEF BrainCancelled, Live, BrainTypes, Registered, OneAtATime, OwnerOnly, StopAlone, Shown, Busy, StartRecs, BrainRecs, StopRecs, Kind, Brains0
  <2>5. ASSUME overlaps' = 0, NEW t \in BrainSlots PROVE Shown(t)'
    BY <1>8, <2>3, <2>5, BrainsAssumption DEF BrainCancelled, Live, BrainTypes, Registered, OneAtATime, OwnerOnly, StopAlone, Shown, Busy, StartRecs, BrainRecs, StopRecs, Kind, Brains0
  <2>6. ASSUME overlaps' = 0, NEW j \in Stoppers PROVE StopAlone(j)'
    BY <1>8, <2>3, <2>6, BrainsAssumption DEF BrainCancelled, Live, BrainTypes, Registered, OneAtATime, OwnerOnly, StopAlone, Shown, Busy, StartRecs, BrainRecs, StopRecs, Kind, Brains0
  <2> QED
    BY <2>1, <2>2, <2>4, <2>5, <2>6 DEF OneAtATime
<1>9. ASSUME NEW g \in Launches, BrainLeaves(g)
      PROVE  BrainsInd'
  <2>1. BrainTypes'
    <3>1. brain' \in [Launches -> BrainRecs]
      BY <1>9, Edits DEF BrainLeaves, BrainTypes
    <3> QED
      BY <1>9, <3>1, Edits, BrainsAssumption DEF BrainLeaves, BrainTypes, Registered, Brains0
  <2>2. Registered'
    BY <1>9, BrainsAssumption DEF BrainLeaves, BrainTypes, Registered, StartRecs, BrainRecs, StopRecs, Kind, Brains0
  <2>3. overlaps' = 0 => overlaps = 0 /\ OneAtATime
    BY <1>9 DEF BrainLeaves, BrainTypes
  <2>4. ASSUME overlaps' = 0, NEW t \in BrainSlots PROVE OwnerOnly(t)'
    BY <1>9, <2>3, <2>4, BrainsAssumption DEF BrainLeaves, Live, BrainTypes, Registered, OneAtATime, OwnerOnly, StopAlone, Shown, Busy, StartRecs, BrainRecs, StopRecs, Kind, Brains0
  <2>5. ASSUME overlaps' = 0, NEW t \in BrainSlots PROVE Shown(t)'
    BY <1>9, <2>3, <2>5, BrainsAssumption DEF BrainLeaves, Live, BrainTypes, Registered, OneAtATime, OwnerOnly, StopAlone, Shown, Busy, StartRecs, BrainRecs, StopRecs, Kind, Brains0
  <2>6. ASSUME overlaps' = 0, NEW j \in Stoppers PROVE StopAlone(j)'
    BY <1>9, <2>3, <2>6, BrainsAssumption DEF BrainLeaves, Live, BrainTypes, Registered, OneAtATime, OwnerOnly, StopAlone, Shown, Busy, StartRecs, BrainRecs, StopRecs, Kind, Brains0
  <2> QED
    BY <2>1, <2>2, <2>4, <2>5, <2>6 DEF OneAtATime
<1>10. ASSUME NEW k \in Stoppers, StopJoined(k)
      PROVE  BrainsInd'
  <2>1. BrainTypes'
    <3>1. stop' \in [Stoppers -> StopRecs]
      BY <1>10, Edits DEF StopJoined, Joined, Live, BrainTypes
    <3>2. brain' \in [Launches -> BrainRecs]
      BY <1>10, Edits DEF StopJoined, Joined, Live, BrainTypes
    <3> QED
      BY <1>10, <3>1, <3>2, Edits, BrainsAssumption DEF StopJoined, Joined, Live, BrainTypes, Registered, Brains0
  <2>2. Registered'
    BY <1>10, BrainsAssumption DEF StopJoined, Joined, Live, BrainTypes, Registered, StartRecs, BrainRecs, StopRecs, Kind, Brains0
  <2>3. overlaps' = 0 => overlaps = 0 /\ OneAtATime
    BY <1>10 DEF StopJoined, Joined, Live, BrainTypes
  <2>4. ASSUME overlaps' = 0, NEW t \in BrainSlots PROVE OwnerOnly(t)'
    BY <1>10, <2>3, <2>4, BrainsAssumption DEF StopJoined, Joined, Live, BrainTypes, Registered, OneAtATime, OwnerOnly, StopAlone, Shown, Busy, StartRecs, BrainRecs, StopRecs, Kind, Brains0
  <2>5. ASSUME overlaps' = 0, NEW t \in BrainSlots PROVE Shown(t)'
    BY <1>10, <2>3, <2>5, BrainsAssumption DEF StopJoined, Joined, Live, BrainTypes, Registered, OneAtATime, OwnerOnly, StopAlone, Shown, Busy, StartRecs, BrainRecs, StopRecs, Kind, Brains0
  <2>6. ASSUME overlaps' = 0, NEW j \in Stoppers PROVE StopAlone(j)'
    BY <1>10, <2>3, <2>6, BrainsAssumption DEF StopJoined, Joined, Live, BrainTypes, Registered, OneAtATime, OwnerOnly, StopAlone, Shown, Busy, StartRecs, BrainRecs, StopRecs, Kind, Brains0
  <2> QED
    BY <2>1, <2>2, <2>4, <2>5, <2>6 DEF OneAtATime
<1>11. ASSUME NEW k \in Stoppers, StopTail(k)
      PROVE  BrainsInd'
  <2>1. BrainTypes'
    <3>1. stop' \in [Stoppers -> StopRecs]
      BY <1>11, Edits DEF StopTail, BrainTypes
    <3> QED
      BY <1>11, <3>1, Edits, BrainsAssumption DEF StopTail, BrainTypes, Registered, Brains0
  <2>2. Registered'
    BY <1>11, BrainsAssumption DEF StopTail, BrainTypes, Registered, StartRecs, BrainRecs, StopRecs, Kind, Brains0
  <2>3. overlaps' = 0 => overlaps = 0 /\ OneAtATime
    BY <1>11 DEF StopTail, BrainTypes
  <2>4. ASSUME overlaps' = 0, NEW t \in BrainSlots PROVE OwnerOnly(t)'
    BY <1>11, <2>3, <2>4, BrainsAssumption DEF StopTail, Live, BrainTypes, Registered, OneAtATime, OwnerOnly, StopAlone, Shown, Busy, StartRecs, BrainRecs, StopRecs, Kind, Brains0
  <2>5. ASSUME overlaps' = 0, NEW t \in BrainSlots PROVE Shown(t)'
    BY <1>11, <2>3, <2>5, BrainsAssumption DEF StopTail, Live, BrainTypes, Registered, OneAtATime, OwnerOnly, StopAlone, Shown, Busy, StartRecs, BrainRecs, StopRecs, Kind, Brains0
  <2>6. ASSUME overlaps' = 0, NEW j \in Stoppers PROVE StopAlone(j)'
    BY <1>11, <2>3, <2>6, BrainsAssumption DEF StopTail, Live, BrainTypes, Registered, OneAtATime, OwnerOnly, StopAlone, Shown, Busy, StartRecs, BrainRecs, StopRecs, Kind, Brains0
  <2> QED
    BY <2>1, <2>2, <2>4, <2>5, <2>6 DEF OneAtATime
<1>12. ASSUME NEW k \in Stoppers, ClearSlot(k)
      PROVE  BrainsInd'
  <2>1. BrainTypes'
    <3>1. stop' \in [Stoppers -> StopRecs]
      BY <1>12, Edits DEF ClearSlot, BrainTypes
    <3> QED
      BY <1>12, <3>1, Edits, BrainsAssumption DEF ClearSlot, BrainTypes, Registered, Brains0
  <2>2. Registered'
    BY <1>12, BrainsAssumption DEF ClearSlot, BrainTypes, Registered, StartRecs, BrainRecs, StopRecs, Kind, Brains0
  <2>3. overlaps' = 0 => overlaps = 0 /\ OneAtATime
    BY <1>12 DEF ClearSlot, BrainTypes
  <2>4. ASSUME overlaps' = 0, NEW t \in BrainSlots PROVE OwnerOnly(t)'
    BY <1>12, <2>3, <2>4, BrainsAssumption DEF ClearSlot, Live, BrainTypes, Registered, OneAtATime, OwnerOnly, StopAlone, Shown, Busy, StartRecs, BrainRecs, StopRecs, Kind, Brains0
  <2>5. ASSUME overlaps' = 0, NEW t \in BrainSlots PROVE Shown(t)'
    <3>1. CASE t # stop[k].slot
      BY <1>12, <2>3, <2>5, <3>1, BrainsAssumption DEF ClearSlot, BrainTypes, OneAtATime, Shown
    <3>2. CASE t = stop[k].slot
      <4>1. engine'[t] = 0 /\ registry[t] = 0 /\ (leaving.pc = "idle" => snaps[t] = 0 /\ t \notin adapters)
        BY <1>12, <2>3, <2>5, <3>2 DEF ClearSlot, OneAtATime, StopAlone, BrainTypes
      <4> QED
        BY <1>12, <4>1 DEF ClearSlot, Shown
    <3> QED
      BY <3>1, <3>2
  <2>6. ASSUME overlaps' = 0, NEW j \in Stoppers PROVE StopAlone(j)'
    BY <1>12, <2>3, <2>6, BrainsAssumption DEF ClearSlot, Live, BrainTypes, Registered, OneAtATime, OwnerOnly, StopAlone, Shown, Busy, StartRecs, BrainRecs, StopRecs, Kind, Brains0
  <2> QED
    BY <2>1, <2>2, <2>4, <2>5, <2>6 DEF OneAtATime
<1>13. ASSUME NEW k \in Stoppers, NEW s \in BrainSlots, StopTake(k, s)
      PROVE  BrainsInd'
  <2>1. BrainTypes'
    <3>1. stop' \in [Stoppers -> StopRecs]
      BY <1>13, Edits DEF StopTake, Starting, Stopping, BrainTypes
    <3>2. brain' \in [Launches -> BrainRecs]
      BY <1>13, Edits DEF StopTake, Starting, Stopping, BrainTypes
    <3>3. overlaps' \in Nat
      BY <1>13 DEF StopTake, BrainTypes
    <3>4. registry' \in [BrainSlots -> Brains0]
      BY <1>13 DEF StopTake, BrainTypes, Brains0
    <3> QED
      BY <1>13, <3>1, <3>2, <3>3, <3>4 DEF StopTake, BrainTypes
  <2>2. Registered'
    BY <1>13, BrainsAssumption DEF StopTake, Starting, Stopping, BrainTypes, Registered, StartRecs, BrainRecs, StopRecs, Kind, Brains0
  <2>3. overlaps' = 0 => overlaps = 0 /\ OneAtATime
    BY <1>13 DEF StopTake, Starting, Stopping, BrainTypes
  <2>4. ASSUME overlaps' = 0, NEW t \in BrainSlots PROVE OwnerOnly(t)'
    BY <1>13, <2>3, <2>4, BrainsAssumption DEF StopTake, Starting, Stopping, Live, BrainTypes, Registered, OneAtATime, OwnerOnly, StopAlone, Shown, Busy, StartRecs, BrainRecs, StopRecs, Kind, Brains0
  <2>5. ASSUME overlaps' = 0, NEW t \in BrainSlots PROVE Shown(t)'
    BY <1>13, <2>3, <2>5, BrainsAssumption DEF StopTake, Starting, Stopping, Live, BrainTypes, Registered, OneAtATime, OwnerOnly, StopAlone, Shown, Busy, StartRecs, BrainRecs, StopRecs, Kind, Brains0
  <2>6. ASSUME overlaps' = 0, NEW j \in Stoppers PROVE StopAlone(j)'
    BY <1>13, <2>3, <2>6, BrainsAssumption DEF StopTake, Starting, Stopping, Live, BrainTypes, Registered, OneAtATime, OwnerOnly, StopAlone, Shown, Busy, StartRecs, BrainRecs, StopRecs, Kind, Brains0
  <2> QED
    BY <2>1, <2>2, <2>4, <2>5, <2>6 DEF OneAtATime
<1>14. ASSUME LeaveDrain
      PROVE  BrainsInd'
  <2>1. BrainTypes'
    <3>1. brain' \in [Launches -> BrainRecs]
      BY <1>14, Edits DEF LeaveDrain, BrainTypes
    <3>2. leaving' \in [pc : {"idle", "await", "done"}, set : SUBSET Launches]
      BY <1>14 DEF LeaveDrain, BrainTypes, Brains0
    <3>3. registry' \in [BrainSlots -> Brains0] /\ shuttingDown' \in BOOLEAN
      BY <1>14 DEF LeaveDrain, Brains0
    <3> QED
      BY <1>14, <3>1, <3>2, <3>3 DEF LeaveDrain, BrainTypes
  <2>2. Registered'
    BY <1>14, BrainsAssumption DEF LeaveDrain, BrainTypes, Registered, StartRecs, BrainRecs, StopRecs, Kind, Brains0
  <2>3. overlaps' = 0 => overlaps = 0 /\ OneAtATime
    BY <1>14 DEF LeaveDrain, BrainTypes
  <2>4. ASSUME overlaps' = 0, NEW t \in BrainSlots PROVE OwnerOnly(t)'
    BY <1>14, <2>3, <2>4, BrainsAssumption DEF LeaveDrain, Live, BrainTypes, Registered, OneAtATime, OwnerOnly, StopAlone, Shown, Busy, StartRecs, BrainRecs, StopRecs, Kind, Brains0
  <2>5. ASSUME overlaps' = 0, NEW t \in BrainSlots PROVE Shown(t)'
    BY <1>14, <2>3, <2>5, BrainsAssumption DEF LeaveDrain, Live, BrainTypes, Registered, OneAtATime, OwnerOnly, StopAlone, Shown, Busy, StartRecs, BrainRecs, StopRecs, Kind, Brains0
  <2>6. ASSUME overlaps' = 0, NEW j \in Stoppers PROVE StopAlone(j)'
    BY <1>14, <2>3, <2>6, BrainsAssumption DEF LeaveDrain, Live, BrainTypes, Registered, OneAtATime, OwnerOnly, StopAlone, Shown, Busy, StartRecs, BrainRecs, StopRecs, Kind, Brains0
  <2> QED
    BY <2>1, <2>2, <2>4, <2>5, <2>6 DEF OneAtATime
<1>15. ASSUME LeaveJoined
      PROVE  BrainsInd'
  <2>1. /\ brain' \in [Launches -> BrainRecs]
        /\ \A g \in Launches : /\ brain'[g].kind = brain[g].kind /\ brain'[g].cancelled = brain[g].cancelled
                              /\ (brain'[g].st = brain[g].st \/ (Live(g) /\ brain'[g].st = "ended"))
    <3>1. CASE brain' = brain
      BY <3>1 DEF BrainTypes
    <3>2. ASSUME NEW g \in Launches, Live(g), brain' = [brain EXCEPT ![g].st = "ended"]
          PROVE  /\ brain' \in [Launches -> BrainRecs]
                 /\ \A h \in Launches : /\ brain'[h].kind = brain[h].kind /\ brain'[h].cancelled = brain[h].cancelled
                                       /\ (brain'[h].st = brain[h].st \/ (Live(h) /\ brain'[h].st = "ended"))
      BY <3>2 DEF BrainTypes, BrainRecs
    <3> QED
      BY <1>15, <3>1, <3>2 DEF LeaveJoined, Joined, BrainTypes
  <2>2. /\ leaving' \in [pc : {"idle", "await", "done"}, set : SUBSET Launches]
        /\ leaving.pc = "await" /\ leaving'.pc # "idle"
        /\ adapters' \in SUBSET BrainSlots /\ snaps' \in [BrainSlots -> Brains0]
        /\ UNCHANGED <<engine, start, registry, stop, shuttingDown, overlaps>>
    BY <1>15 DEF LeaveJoined, BrainTypes, Brains0
  <2>3. BrainTypes'
    BY <2>1, <2>2 DEF BrainTypes
  <2>4. Registered'
    BY <2>1, <2>2 DEF Registered, BrainTypes, Live, Brains0
  <2>5. ASSUME overlaps' = 0, NEW t \in BrainSlots PROVE OwnerOnly(t)' /\ Shown(t)'
    BY <2>1, <2>2, <2>5 DEF OneAtATime, OwnerOnly, Shown, Live, BrainTypes, Brains0
  <2>6. ASSUME overlaps' = 0, NEW j \in Stoppers PROVE StopAlone(j)'
    <3>1. stop[j].pc # "idle" => stop[j].slot \in BrainSlots
      BY DEF Registered
    <3> QED
      BY <2>1, <2>2, <2>6, <3>1 DEF OneAtATime, StopAlone, Live, BrainTypes, Brains0
  <2> QED
    BY <2>3, <2>4, <2>5, <2>6 DEF OneAtATime
<1>16. CASE UNCHANGED brainVars
  BY <1>16 DEF brainVars, BrainTypes, Registered, OneAtATime, OwnerOnly, Shown, StopAlone, Live
<1> QED
  BY <1>1, <1>2, <1>3, <1>4, <1>5, <1>6, <1>7, <1>8, <1>9, <1>10, <1>11, <1>12, <1>13, <1>14, <1>15, <1>16 DEF BrainsNext, StartStep, BrainEnds, StopStep

LEMMA BrainsStart == BrainsInit => BrainsInd
<1> SUFFICES ASSUME BrainsInit PROVE BrainsInd
  OBVIOUS
<1>1. NoStart \in StartRecs /\ NoBrain \in BrainRecs /\ NoStop \in StopRecs
  BY DEF NoStart, NoBrain, NoStop, StartRecs, BrainRecs, StopRecs, Kind, Brains0
<1>2. BrainTypes
  BY <1>1 DEF BrainsInit, BrainTypes, Brains0
<1>3. Registered
  BY DEF BrainsInit, Registered, NoStart, NoBrain, NoStop
<1>4. OneAtATime
  BY DEF BrainsInit, OneAtATime, OwnerOnly, Shown, StopAlone, NoStart, NoStop, Busy
<1> QED
  BY <1>2, <1>3, <1>4 DEF BrainsInd

LEMMA BrainsHold == BrainsInd => BrainsInv
<1> SUFFICES ASSUME BrainsInd PROVE BrainsInv
  OBVIOUS
<1> USE DEF BrainsInd
<1>1. BrainsTypeOK
  BY DEF BrainsTypeOK, BrainTypes, Registered, Brains0, BrainRecs
<1>2. SlotHasOneBrain
  <2> SUFFICES ASSUME overlaps = 0, NEW g \in Launches, Live(g)
               PROVE  engine[start[g].slot] = g
    BY DEF SlotHasOneBrain
  <2> QED
    BY DEF OneAtATime, OwnerOnly, Registered, Live
<1>3. StoppedSlotIsSilent
  <2> SUFFICES ASSUME overlaps = 0, NEW s \in BrainSlots, engine[s] = 0, leaving.pc = "idle"
               PROVE  /\ registry[s] = 0 /\ snaps[s] = 0 /\ s \notin adapters
                      /\ \A g \in Launches : start[g].slot = s => ~Live(g)
    BY DEF StoppedSlotIsSilent
  <2>1. registry[s] = 0 /\ snaps[s] = 0 /\ s \notin adapters
    BY DEF OneAtATime, Shown
  <2>2. ASSUME NEW g \in Launches, start[g].slot = s PROVE ~Live(g)
    <3>1. g # 0
      BY BrainsAssumption
    <3>2. start[g].pc = "none" => brain[g].st = "none"
      BY DEF Registered, BrainTypes, BrainRecs
    <3> QED
      BY <2>2, <3>1, <3>2 DEF OneAtATime, OwnerOnly, Live
  <2> QED
    BY <2>1, <2>2
<1>4. RunningBrainIsFound
  <2> SUFFICES ASSUME overlaps = 0, NEW s \in BrainSlots, engine[s] # 0, ~shuttingDown, Stopping(s) = {},
                      brain[engine[s]].st \in {"waiting", "polling"}
               PROVE  /\ snaps[s] = engine[s] /\ registry[s] = engine[s]
                      /\ brain[engine[s]].kind = "Poll" => s \in adapters
    BY DEF RunningBrainIsFound
  <2>1. leaving.pc = "idle" /\ start[engine[s]].pc = "done"
    BY DEF Registered, BrainTypes, Brains0
  <2>2. \A k \in Stoppers : stop[k].slot = s => stop[k].pc \in {"idle", "done"}
    BY DEF Stopping
  <2> QED
    BY <2>1, <2>2 DEF OneAtATime, Shown
<1> QED
  BY <1>1, <1>2, <1>3, <1>4 DEF BrainsInv

\* However launches, stops and the exit interleave, the registry names brains
\* nobody has cancelled, and as long as no stop overlaps a start or a stop of its
\* slot a slot has one brain, a stopped slot none, and a running brain is found.
THEOREM BrainsKeepTheirSlots == BrainsSpec => []BrainsInv
<1>1. BrainsSpec => []BrainsInd
  BY BrainsStart, BrainsStep, PTL DEF BrainsSpec
<1> QED
  BY <1>1, BrainsHold, PTL
-----------------------------------------------------------------------------
(* The toolchain *)

TcJobRecs == [pc : {"idle", "begun", "extract", "verify", "verified", "promote", "copy"}, pack : TcPacks,
              from : {"download", "cache"}]
TcWorks(j) == tcJob[j].pc # "idle"

TcTypes ==
    /\ packTree \in [TcPacks -> {"none", "some", "whole"}] /\ manifest \in 0 .. 2
    /\ cache \in [TcPacks -> {"none", "part", "whole"}]
    /\ staged \subseteq TcPacks /\ tcRow \subseteq TcPacks /\ engines \subseteq Runtimes
    /\ tcJob \in [TcJobs -> TcJobRecs]
    /\ had \subseteq TcPacks /\ sound \subseteq TcPacks /\ spoilt \subseteq TcPacks

\* Of a pack that never had two jobs at a time one job at most is at work, and
\* no extraction of it was spoilt.
OneJob ==
    /\ \A j, k \in TcJobs : TcWorks(j) /\ TcWorks(k) /\ tcJob[j].pack = tcJob[k].pack => j = k \/ tcJob[j].pack \in tcMixed
    /\ spoilt \subseteq tcMixed

\* The archive a job was started for stays until the job removes it, and what
\* it unpacked is whole from then on.
JobKnows(j) ==
    LET p == tcJob[j].pack IN
    /\ tcJob[j].pc = "extract" => p \notin sound
    /\ TcWorks(j) /\ tcJob[j].from = "download" /\ p \notin tcMixed => p \in staged
    /\ tcJob[j].pc \in {"verify", "verified", "promote", "copy"} /\ p \notin tcMixed => packTree[p] = "whole"
    /\ tcJob[j].pc \in {"promote", "copy"} => p = "build" /\ tcJob[j].from = "download"
    /\ tcJob[j].pc \in {"verified", "promote", "copy"} => manifest = 2

TcSafe == PacksKeepTheirFiles /\ EnginesKeepTheirLibraries /\ NothingIsDownloadedTwice /\ BuildArchiveIsKept
ToolchainInd == TcTypes /\ OneJob /\ (\A j \in TcJobs : JobKnows(j)) /\ TcSafe

\* The jobs after a step of one of them.
LEMMA TcJobGoes ==
    ASSUME TcTypes, NEW j \in TcJobs, NEW pc \in {"extract", "verify", "verified", "promote", "copy"}, TcGo(j, pc)
    PROVE  /\ tcJob' \in [TcJobs -> TcJobRecs] /\ tcJob'[j].pc = pc
           /\ tcJob'[j].pack = tcJob[j].pack /\ tcJob'[j].from = tcJob[j].from
           /\ \A k \in TcJobs : k # j => tcJob'[k] = tcJob[k]
  BY DEF TcTypes, TcGo, TcJobRecs

LEMMA TcJobEnds ==
    ASSUME TcTypes, NEW j \in TcJobs, TcEnds(j)
    PROVE  /\ tcJob' \in [TcJobs -> TcJobRecs] /\ tcJob'[j].pc = "idle"
           /\ \A k \in TcJobs : k # j => tcJob'[k] = tcJob[k]
           /\ tcRow' \subseteq TcPacks
  BY DEF TcTypes, TcEnds, NoJob, TcJobRecs, TcPacks, Runtimes

LEMMA TcJobStarts ==
    ASSUME TcTypes, OneJob, NEW p \in TcPacks, NEW from \in {"download", "cache"}, TcStart(p, from)
    PROVE  /\ tcJob' \in [TcJobs -> TcJobRecs] /\ tcRow' \subseteq TcPacks
           /\ tcMixed \subseteq tcMixed'
           /\ \E j \in TcJobs :
                 /\ tcJob'[j].pc = "begun" /\ tcJob'[j].pack = p /\ tcJob'[j].from = from
                 /\ \A k \in TcJobs : k # j => tcJob'[k] = tcJob[k]
                 /\ ~TcWorks(j)
                 /\ p \notin tcMixed' => \A k \in TcJobs : TcWorks(k) => tcJob[k].pack # p
<1>1. PICK j \in TcJobs : tcJob[j] = NoJob /\ tcJob' = [tcJob EXCEPT ![j] = [pc |-> "begun", pack |-> p, from |-> from]]
  BY DEF TcStart
<1>2. [pc |-> "begun", pack |-> p, from |-> from] \in TcJobRecs
  BY DEF TcJobRecs
<1>3. /\ tcJob' \in [TcJobs -> TcJobRecs] /\ tcJob'[j] = [pc |-> "begun", pack |-> p, from |-> from]
      /\ \A k \in TcJobs : k # j => tcJob'[k] = tcJob[k]
  BY <1>1, <1>2 DEF TcTypes
<1>4. tcRow' \subseteq TcPacks
  BY DEF TcStart, TcTypes
<1>5. tcMixed \subseteq tcMixed' /\ (p \notin tcMixed' => \A k \in TcJobs : TcWorks(k) => tcJob[k].pack # p)
  BY DEF TcStart, TcWorks
<1>6. ~TcWorks(j)
  BY <1>1 DEF TcWorks, NoJob
<1> QED  BY <1>3, <1>4, <1>5, <1>6

\* A job starts: its archive is staged or cached.
LEMMA TcStarting ==
    ASSUME ToolchainInd, NEW p \in TcPacks, NEW from \in {"download", "cache"}, TcStart(p, from),
           from = "download" => p \in staged', staged \subseteq staged', staged' \subseteq TcPacks,
           had' \subseteq TcPacks, had \subseteq had', \A q \in had' : q \notin had => q \in staged',
           UNCHANGED <<treeVars, carried, cache, sound, spoilt, engines>>
    PROVE  ToolchainInd'
<1>t. TcTypes /\ OneJob /\ TcSafe /\ \A k \in TcJobs : JobKnows(k)
  BY DEF ToolchainInd
<1>u. UNCHANGED <<packTree, manifest, cache, sound, spoilt, engines>>
  BY DEF treeVars
<1>1. tcJob' \in [TcJobs -> TcJobRecs] /\ tcRow' \subseteq TcPacks /\ tcMixed \subseteq tcMixed'
  BY <1>t, TcJobStarts
<1>2. PICK j \in TcJobs :
         /\ tcJob'[j].pc = "begun" /\ tcJob'[j].pack = p /\ tcJob'[j].from = from
         /\ \A k \in TcJobs : k # j => tcJob'[k] = tcJob[k]
         /\ ~TcWorks(j)
         /\ p \notin tcMixed' => \A k \in TcJobs : TcWorks(k) => tcJob[k].pack # p
  BY <1>t, TcJobStarts
<1>3. TcTypes'
  BY <1>t, <1>u, <1>1 DEF TcTypes
<1>4. OneJob'
  BY <1>t, <1>u, <1>1, <1>2 DEF OneJob, TcWorks
<1>5. ASSUME NEW k \in TcJobs PROVE JobKnows(k)'
  <2>1. CASE k = j
    BY <2>1, <1>2 DEF JobKnows, TcWorks
  <2>2. CASE k # j
    <3>1. tcJob'[k] = tcJob[k]  BY <2>2, <1>2
    <3>2. JobKnows(k)  BY <1>t
    <3> QED  BY <3>1, <3>2, <1>u, <1>1 DEF JobKnows, TcWorks
  <2> QED  BY <2>1, <2>2
<1>6. TcSafe'
  BY <1>t, <1>u, <1>1 DEF TcSafe, PacksKeepTheirFiles, EnginesKeepTheirLibraries, NothingIsDownloadedTwice, BuildArchiveIsKept
<1> QED  BY <1>3, <1>4, <1>5, <1>6 DEF ToolchainInd

LEMMA TcExtractBegins ==
    ASSUME ToolchainInd, NEW j \in TcJobs, BeginExtract(j)
    PROVE  ToolchainInd'
<1> DEFINE p == tcJob[j].pack
<1>t. TcTypes /\ OneJob /\ TcSafe /\ \A k \in TcJobs : JobKnows(k)
  BY DEF ToolchainInd
<1>p. p \in TcPacks
  BY <1>t DEF TcTypes, TcJobRecs
<1>1. /\ tcJob[j].pc = "begun"
      /\ UNCHANGED <<manifest, staged, cache, had, tcMixed, engines>>
  BY DEF BeginExtract, archiveVars
<1>2. CASE Present(j)
  <2>1. /\ TcGo(j, "extract") /\ tcRow' = tcRow
        /\ packTree' = IF p \in engines THEN packTree ELSE [packTree EXCEPT ![p] = "some"]
        /\ sound' = sound \ {p}
        /\ spoilt' = IF Extracting(p) # {} THEN spoilt \cup {p} ELSE spoilt
    BY <1>2 DEF BeginExtract, MergesTree
  <2>2. /\ tcJob' \in [TcJobs -> TcJobRecs] /\ tcJob'[j].pc = "extract"
        /\ tcJob'[j].pack = p /\ tcJob'[j].from = tcJob[j].from
        /\ \A k \in TcJobs : k # j => tcJob'[k] = tcJob[k]
    BY <1>t, <2>1, TcJobGoes
  <2>3. /\ packTree' \in [TcPacks -> {"none", "some", "whole"}]
        /\ \A q \in TcPacks : q # p \/ p \in engines => packTree'[q] = packTree[q]
    BY <1>t, <1>p, <2>1 DEF TcTypes
  <2>4. p \notin tcMixed => \A k \in TcJobs : k # j /\ TcWorks(k) => tcJob[k].pack # p
    BY <1>t, <1>1 DEF OneJob, TcWorks
  <2>5. \A k \in TcJobs : tcJob[k].pack \in TcPacks
    BY <1>t DEF TcTypes, TcJobRecs
  <2> HIDE DEF p
  <2>6. TcTypes'
    BY <1>t, <1>p, <1>1, <2>1, <2>2, <2>3 DEF TcTypes
  <2>7. OneJob'
    <3>1. spoilt' \subseteq tcMixed'
      BY <1>t, <1>1, <2>1, <2>4 DEF OneJob, Extracting, TcWorks
    <3> QED  BY <3>1, <1>t, <1>1, <2>2 DEF OneJob, TcWorks, p
  <2>8. ASSUME NEW k \in TcJobs PROVE JobKnows(k)'
    <3>1. CASE k = j
      <4>1. JobKnows(j)  BY <1>t
      <4> QED  BY <3>1, <4>1, <1>1, <2>1, <2>2 DEF JobKnows, TcWorks, p
    <3>2. CASE k # j
      <4>1. JobKnows(k) /\ tcJob'[k] = tcJob[k] /\ sound' \subseteq sound  BY <3>2, <1>t, <2>1, <2>2
      <4>2. tcJob[k].pc \in {"verify", "verified", "promote", "copy"} /\ tcJob[k].pack \notin tcMixed => tcJob[k].pack # p
        BY <3>2, <2>4 DEF TcWorks
      <4> QED  BY <4>1, <4>2, <1>1, <2>3, <2>5 DEF JobKnows, TcWorks
    <3> QED  BY <3>1, <3>2
  <2>9. TcSafe'
    <3>1. PacksKeepTheirFiles'
      BY <1>t, <2>1, <2>3 DEF TcSafe, PacksKeepTheirFiles, TcTypes
    <3>2. EnginesKeepTheirLibraries'
      <4>1. engines \subseteq TcPacks  BY <1>t DEF TcTypes, TcPacks
      <4> QED  BY <4>1, <1>t, <1>1, <2>3 DEF TcSafe, EnginesKeepTheirLibraries
    <3>3. NothingIsDownloadedTwice' /\ BuildArchiveIsKept'
      <4>1. p \notin tcMixed => p \in staged \/ cache[p] = "whole"
        <5>1. JobKnows(j)  BY <1>t
        <5>2. tcJob[j].from \in {"download", "cache"}  BY <1>t DEF TcTypes, TcJobRecs
        <5> QED  BY <5>1, <5>2, <1>1, <1>2 DEF JobKnows, TcWorks, Present, p
      <4>2. \A q \in had : q \in TcPacks  BY <1>t DEF TcTypes
      <4> QED  BY <4>1, <4>2, <1>t, <1>1, <2>3 DEF TcSafe, NothingIsDownloadedTwice, BuildArchiveIsKept
    <3> QED  BY <3>1, <3>2, <3>3 DEF TcSafe
  <2> QED  BY <2>6, <2>7, <2>8, <2>9 DEF ToolchainInd
<1>3. CASE ~Present(j)
  <2>1. TcEnds(j) /\ UNCHANGED <<packTree, sound, spoilt>>
    BY <1>3 DEF BeginExtract
  <2>2. /\ tcJob' \in [TcJobs -> TcJobRecs] /\ tcJob'[j].pc = "idle" /\ tcRow' \subseteq TcPacks
        /\ \A k \in TcJobs : k # j => tcJob'[k] = tcJob[k]
    BY <1>t, <2>1, TcJobEnds
  <2>3. TcTypes'
    BY <1>t, <1>1, <2>1, <2>2 DEF TcTypes
  <2>4. OneJob'
    BY <1>t, <1>1, <2>1, <2>2 DEF OneJob, TcWorks
  <2>5. ASSUME NEW k \in TcJobs PROVE JobKnows(k)'
    <3>1. JobKnows(k)  BY <1>t
    <3> QED  BY <3>1, <1>1, <2>1, <2>2 DEF JobKnows, TcWorks
  <2>6. TcSafe'
    BY <1>t, <1>1, <2>1 DEF TcSafe, PacksKeepTheirFiles, EnginesKeepTheirLibraries, NothingIsDownloadedTwice, BuildArchiveIsKept
  <2> QED  BY <2>3, <2>4, <2>5, <2>6 DEF ToolchainInd
<1> QED  BY <1>2, <1>3

\* A job returns, and what its pack needs is kept.
LEMMA TcReturns ==
    ASSUME ToolchainInd, NEW j \in TcJobs, TcEnds(j), TcWorks(j),
           manifest' \in {manifest, 2}, spoilt' \subseteq TcPacks, spoilt' \subseteq tcMixed,
           cache' \in [TcPacks -> {"none", "part", "whole"}], staged' \subseteq staged,
           \A q \in TcPacks : q # tcJob[j].pack => cache'[q] = cache[q] /\ (q \in staged => q \in staged'),
           tcJob[j].pack \in had \ tcMixed =>
               /\ packTree[tcJob[j].pack] = "whole" \/ tcJob[j].pack \in staged' \/ cache'[tcJob[j].pack] = "whole"
               /\ tcJob[j].pack = "build" => "build" \in staged' \/ cache'["build"] = "whole",
           UNCHANGED <<packTree, sound, had, tcMixed, engines>>
    PROVE  ToolchainInd'
<1> DEFINE p == tcJob[j].pack
<1>t. TcTypes /\ OneJob /\ TcSafe /\ \A k \in TcJobs : JobKnows(k)
  BY DEF ToolchainInd
<1>p. /\ p \in TcPacks /\ \A k \in TcJobs : tcJob[k].pack \in TcPacks
      /\ \A q \in TcPacks : q # p => cache'[q] = cache[q] /\ (q \in staged => q \in staged')
      /\ p \in had \ tcMixed => /\ packTree[p] = "whole" \/ p \in staged' \/ cache'[p] = "whole"
                                /\ p = "build" => "build" \in staged' \/ cache'["build"] = "whole"
  BY <1>t DEF TcTypes, TcJobRecs
<1>1. /\ tcJob' \in [TcJobs -> TcJobRecs] /\ tcJob'[j].pc = "idle" /\ tcRow' \subseteq TcPacks
      /\ \A k \in TcJobs : k # j => tcJob'[k] = tcJob[k]
  BY <1>t, TcJobEnds
<1>2. p \notin tcMixed => \A k \in TcJobs : k # j /\ TcWorks(k) => tcJob[k].pack # p
  BY <1>t DEF OneJob
<1> HIDE DEF p
<1>3. TcTypes'
  <2>1. manifest' \in 0 .. 2  BY <1>t DEF TcTypes
  <2> QED  BY <2>1, <1>t, <1>1 DEF TcTypes
<1>4. OneJob'
  BY <1>t, <1>1 DEF OneJob, TcWorks
<1>5. ASSUME NEW k \in TcJobs PROVE JobKnows(k)'
  <2>1. CASE k = j
    BY <2>1, <1>1 DEF JobKnows, TcWorks
  <2>2. CASE k # j
    <3>1. JobKnows(k) /\ tcJob'[k] = tcJob[k]  BY <2>2, <1>t, <1>1
    <3>2. TcWorks(k) /\ tcJob[k].pack \notin tcMixed => tcJob[k].pack # p  BY <2>2, <1>2
    <3> QED  BY <3>1, <3>2, <1>p DEF JobKnows, TcWorks
  <2> QED  BY <2>1, <2>2
<1>6. TcSafe'
  <2>1. had \subseteq TcPacks /\ "build" \in TcPacks  BY <1>t DEF TcTypes, TcPacks
  <2>2. PacksKeepTheirFiles' /\ EnginesKeepTheirLibraries'
    BY <1>t DEF TcSafe, PacksKeepTheirFiles, EnginesKeepTheirLibraries
  <2>3. NothingIsDownloadedTwice'
    BY <1>t, <1>p, <2>1 DEF TcSafe, NothingIsDownloadedTwice
  <2>4. BuildArchiveIsKept'
    BY <1>t, <1>p, <2>1 DEF TcSafe, BuildArchiveIsKept
  <2> QED  BY <2>2, <2>3, <2>4 DEF TcSafe
<1> QED  BY <1>3, <1>4, <1>5, <1>6 DEF ToolchainInd

\* A job goes on: it may have made its pack whole, and changed its archive in the cache.
LEMMA TcAdvances ==
    ASSUME ToolchainInd, NEW j \in TcJobs, NEW pc \in {"verify", "verified", "promote", "copy"}, TcGo(j, pc), TcWorks(j),
           manifest' \in {manifest, 2}, spoilt' \subseteq TcPacks, spoilt' \subseteq tcMixed,
           cache' \in [TcPacks -> {"none", "part", "whole"}],
           packTree' \in [TcPacks -> {"none", "some", "whole"}], sound' \subseteq TcPacks,
           \A q \in TcPacks : q # tcJob[j].pack =>
               cache'[q] = cache[q] /\ packTree'[q] = packTree[q] /\ (q \in sound <=> q \in sound'),
           tcJob[j].pack \in engines => packTree' = packTree,
           tcJob[j].pack \in sound' =>
               /\ packTree'[tcJob[j].pack] = "whole"
               /\ \A k \in TcJobs : k # j /\ tcJob[k].pc = "extract" => tcJob[k].pack # tcJob[j].pack,
           tcJob[j].pack \in had \ tcMixed =>
               /\ packTree'[tcJob[j].pack] = "whole" \/ tcJob[j].pack \in staged \/ cache'[tcJob[j].pack] = "whole"
               /\ tcJob[j].pack = "build" => "build" \in staged \/ cache'["build"] = "whole",
           tcJob[j].pack \notin tcMixed => packTree'[tcJob[j].pack] = "whole",
           pc \in {"promote", "copy"} => tcJob[j].pack = "build" /\ tcJob[j].from = "download",
           pc \in {"verified", "promote", "copy"} => manifest' = 2,
           UNCHANGED <<staged, had, tcMixed, engines, tcRow>>
    PROVE  ToolchainInd'
<1> DEFINE p == tcJob[j].pack
<1>t. TcTypes /\ OneJob /\ TcSafe /\ \A k \in TcJobs : JobKnows(k)
  BY DEF ToolchainInd
<1>p. /\ p \in TcPacks /\ \A k \in TcJobs : tcJob[k].pack \in TcPacks
      /\ \A q \in TcPacks : q # p => cache'[q] = cache[q] /\ packTree'[q] = packTree[q] /\ (q \in sound <=> q \in sound')
      /\ p \in engines => packTree' = packTree
      /\ p \in sound' => /\ packTree'[p] = "whole"
                         /\ \A k \in TcJobs : k # j /\ tcJob[k].pc = "extract" => tcJob[k].pack # p
      /\ p \in had \ tcMixed => /\ packTree'[p] = "whole" \/ p \in staged \/ cache'[p] = "whole"
                                /\ p = "build" => "build" \in staged \/ cache'["build"] = "whole"
      /\ p \notin tcMixed => packTree'[p] = "whole"
      /\ pc \in {"promote", "copy"} => p = "build" /\ tcJob[j].from = "download"
  BY <1>t DEF TcTypes, TcJobRecs
<1>1. /\ tcJob' \in [TcJobs -> TcJobRecs] /\ tcJob'[j].pc = pc
      /\ tcJob'[j].pack = p /\ tcJob'[j].from = tcJob[j].from
      /\ \A k \in TcJobs : k # j => tcJob'[k] = tcJob[k]
  BY <1>t, TcJobGoes
<1>2. p \notin tcMixed => \A k \in TcJobs : k # j /\ TcWorks(k) => tcJob[k].pack # p
  BY <1>t DEF OneJob
<1>3. TcWorks(j) /\ tcJob[j].pack = p
  OBVIOUS
<1> HIDE DEF p
<1>4. TcTypes'
  <2>1. manifest' \in 0 .. 2  BY <1>t DEF TcTypes
  <2> QED  BY <2>1, <1>t, <1>1 DEF TcTypes
<1>5. OneJob'
  BY <1>t, <1>1, <1>3 DEF OneJob, TcWorks
<1>6. ASSUME NEW k \in TcJobs PROVE JobKnows(k)'
  <2>1. CASE k = j
    <3>1. JobKnows(j)  BY <1>t
    <3> QED  BY <2>1, <3>1, <1>1, <1>3, <1>p DEF JobKnows, TcWorks
  <2>2. CASE k # j
    <3>1. JobKnows(k) /\ tcJob'[k] = tcJob[k]  BY <2>2, <1>t, <1>1
    <3>2. TcWorks(k) /\ tcJob[k].pack \notin tcMixed => tcJob[k].pack # p  BY <2>2, <1>2
    <3>3. tcJob[k].pc = "extract" => tcJob[k].pack \notin sound'
      BY <2>2, <3>1, <1>p DEF JobKnows
    <3> QED  BY <3>1, <3>2, <3>3, <1>p DEF JobKnows, TcWorks
  <2> QED  BY <2>1, <2>2
<1>7. TcSafe'
  <2>1. had \subseteq TcPacks /\ "build" \in TcPacks /\ sound \subseteq TcPacks /\ engines \subseteq TcPacks
    BY <1>t DEF TcTypes, TcPacks
  <2>2. PacksKeepTheirFiles'
    BY <1>t, <1>p, <2>1 DEF TcSafe, PacksKeepTheirFiles
  <2>3. EnginesKeepTheirLibraries'
    BY <1>t, <1>p, <2>1 DEF TcSafe, EnginesKeepTheirLibraries
  <2>4. NothingIsDownloadedTwice'
    BY <1>t, <1>p, <2>1 DEF TcSafe, NothingIsDownloadedTwice
  <2>5. BuildArchiveIsKept'
    BY <1>t, <1>p, <2>1 DEF TcSafe, BuildArchiveIsKept
  <2> QED  BY <2>2, <2>3, <2>4, <2>5 DEF TcSafe
<1> QED  BY <1>4, <1>5, <1>6, <1>7 DEF ToolchainInd

\* What a job at work has from the invariant.
LEMMA TcAtWork ==
    ASSUME ToolchainInd, NEW j \in TcJobs, TcWorks(j)
    PROVE  /\ tcJob[j].pack \in TcPacks /\ tcJob[j].from \in {"download", "cache"}
           /\ \A k \in TcJobs : k # j /\ TcWorks(k) /\ tcJob[k].pack = tcJob[j].pack => tcJob[j].pack \in tcMixed
           /\ spoilt \subseteq tcMixed /\ spoilt \subseteq TcPacks /\ sound \subseteq TcPacks
           /\ packTree \in [TcPacks -> {"none", "some", "whole"}] /\ cache \in [TcPacks -> {"none", "part", "whole"}]
           /\ JobKnows(j)
           /\ \A q \in had \ tcMixed : packTree[q] = "whole" \/ q \in staged \/ cache[q] = "whole"
           /\ "build" \in had \ tcMixed => "build" \in staged \/ cache["build"] = "whole"
           /\ \A q \in sound : packTree[q] = "whole"
           /\ \A k \in TcJobs : tcJob[k].pc = "extract" => tcJob[k].pack \notin sound
  BY DEF ToolchainInd, TcTypes, OneJob, TcSafe, TcJobRecs, NothingIsDownloadedTwice, BuildArchiveIsKept,
         PacksKeepTheirFiles, JobKnows

LEMMA TcExtractEnds ==
    ASSUME ToolchainInd, NEW j \in TcJobs, EndExtract(j)
    PROVE  ToolchainInd'
<1> DEFINE p == tcJob[j].pack
           alone == Extracting(p) = {j} /\ p \notin spoilt
<1>1. /\ tcJob[j].pc = "extract" /\ TcWorks(j) /\ j \in Extracting(p)
      /\ UNCHANGED <<staged, cache, had, tcMixed, engines>>
  BY DEF EndExtract, archiveVars, TcWorks, Extracting
<1>w. /\ p \in TcPacks
      /\ \A k \in TcJobs : k # j /\ TcWorks(k) /\ tcJob[k].pack = p => p \in tcMixed
      /\ spoilt \subseteq tcMixed /\ spoilt \subseteq TcPacks /\ sound \subseteq TcPacks
      /\ packTree \in [TcPacks -> {"none", "some", "whole"}] /\ cache \in [TcPacks -> {"none", "part", "whole"}]
      /\ JobKnows(j)
      /\ \A q \in had \ tcMixed : packTree[q] = "whole" \/ q \in staged \/ cache[q] = "whole"
      /\ "build" \in had \ tcMixed => "build" \in staged \/ cache["build"] = "whole"
      /\ \A q \in sound : packTree[q] = "whole"
      /\ \A k \in TcJobs : tcJob[k].pc = "extract" => tcJob[k].pack \notin sound
  BY <1>1, TcAtWork
<1>2. Extracting(p) # {j} => p \in tcMixed
  <2>1. Extracting(p) # {j} => \E k \in TcJobs : k # j /\ tcJob[k].pc = "extract" /\ tcJob[k].pack = p
    BY <1>1 DEF Extracting
  <2> QED  BY <2>1, <1>w DEF TcWorks
<1>3. p \notin sound
  BY <1>1, <1>w
<1>4. CASE p \notin engines /\ TcGo(j, "verify") /\ tcRow' = tcRow /\ manifest' \in {manifest, 2} /\ alone
           /\ packTree' = MergesTree(p, "whole") /\ sound' = sound \cup {p} /\ spoilt' = spoilt
  <2>1. /\ packTree' \in [TcPacks -> {"none", "some", "whole"}] /\ packTree'[p] = "whole"
        /\ \A q \in TcPacks : q # p => packTree'[q] = packTree[q]
    BY <1>4, <1>w DEF MergesTree
  <2>2. \A k \in TcJobs : k # j /\ tcJob[k].pc = "extract" => tcJob[k].pack # p
    BY <1>4 DEF Extracting
  <2> QED  BY <1>1, <1>4, <1>w, <2>1, <2>2, TcAdvances
<1>5. CASE p \notin engines /\ TcGo(j, "verify") /\ tcRow' = tcRow /\ manifest' \in {manifest, 2} /\ ~alone
           /\ (\E now \in {"some", "whole"} :
                   packTree' = IF Extracting(p) = {j} THEN MergesTree(p, now) ELSE packTree)
           /\ spoilt' = (IF Extracting(p) = {j} THEN spoilt \ {p} ELSE spoilt) /\ sound' = sound
  <2>1. /\ packTree' \in [TcPacks -> {"none", "some", "whole"}]
        /\ \A q \in TcPacks : q # p => packTree'[q] = packTree[q]
    BY <1>5, <1>w DEF MergesTree
  <2>2. p \in tcMixed
    BY <1>2, <1>5, <1>w
  <2> QED  BY <1>1, <1>3, <1>5, <1>w, <2>1, <2>2, TcAdvances
<1>6. CASE TcEnds(j) /\ manifest' \in {manifest, 2} /\ UNCHANGED <<packTree, sound>>
           /\ spoilt' = (IF Extracting(p) = {j} THEN spoilt \ {p} ELSE spoilt \cup {p})
  <2>1. spoilt' \subseteq TcPacks /\ spoilt' \subseteq tcMixed
    BY <1>2, <1>6, <1>w
  <2>2. p \in had \ tcMixed => /\ packTree[p] = "whole" \/ p \in staged' \/ cache'[p] = "whole"
                               /\ p = "build" => "build" \in staged' \/ cache'["build"] = "whole"
    BY <1>1, <1>w
  <2> QED  BY <1>1, <1>6, <1>w, <2>1, <2>2, TcReturns
<1> QED
  BY <1>4, <1>5, <1>6 DEF EndExtract

LEMMA TcVerifies ==
    ASSUME ToolchainInd, NEW j \in TcJobs, VerifyInstall(j)
    PROVE  ToolchainInd'
<1> DEFINE p == tcJob[j].pack
<1>1. /\ tcJob[j].pc = "verify" /\ TcWorks(j)
      /\ UNCHANGED <<packTree, staged, cache, had, sound, spoilt, tcMixed, engines>>
      /\ \/ TcGo(j, "verified") /\ manifest' = 2 /\ tcRow' = tcRow
         \/ TcEnds(j) /\ manifest' = manifest
  BY DEF VerifyInstall, archiveVars, tcHistory, TcWorks
<1>w. /\ p \in TcPacks
      /\ spoilt \subseteq tcMixed /\ spoilt \subseteq TcPacks /\ sound \subseteq TcPacks
      /\ packTree \in [TcPacks -> {"none", "some", "whole"}] /\ cache \in [TcPacks -> {"none", "part", "whole"}]
      /\ JobKnows(j)
      /\ \A q \in had \ tcMixed : packTree[q] = "whole" \/ q \in staged \/ cache[q] = "whole"
      /\ "build" \in had \ tcMixed => "build" \in staged \/ cache["build"] = "whole"
      /\ \A q \in sound : packTree[q] = "whole"
      /\ \A k \in TcJobs : tcJob[k].pc = "extract" => tcJob[k].pack \notin sound
  BY <1>1, TcAtWork
<1>2. CASE TcGo(j, "verified") /\ manifest' = 2 /\ tcRow' = tcRow
  <2>1. p \notin tcMixed => packTree[p] = "whole"
    BY <1>1, <1>w DEF JobKnows
  <2> QED  BY <1>1, <1>2, <1>w, <2>1, TcAdvances
<1>3. CASE TcEnds(j) /\ manifest' = manifest
  <2> QED  BY <1>1, <1>3, <1>w, TcReturns
<1> QED  BY <1>1, <1>2, <1>3

\* The steps of a verified install with its archive.
LEMMA TcArchives ==
    ASSUME ToolchainInd, NEW j \in TcJobs,
           DropArchive(j) \/ PromoteBegins(j) \/ PromoteMoves(j) \/ PromoteCopies(j)
    PROVE  ToolchainInd'
<1> DEFINE p == tcJob[j].pack
<1>1. /\ tcJob[j].pc \in {"verified", "promote", "copy"} /\ TcWorks(j)
      /\ UNCHANGED <<packTree, manifest, had, sound, spoilt, tcMixed, engines>>
  BY DEF DropArchive, PromoteBegins, PromoteMoves, PromoteCopies, treeVars, tcHistory, TcWorks
<1>w. /\ p \in TcPacks /\ tcJob[j].from \in {"download", "cache"}
      /\ \A k \in TcJobs : k # j /\ TcWorks(k) /\ tcJob[k].pack = p => p \in tcMixed
      /\ spoilt \subseteq tcMixed /\ spoilt \subseteq TcPacks /\ sound \subseteq TcPacks
      /\ packTree \in [TcPacks -> {"none", "some", "whole"}] /\ cache \in [TcPacks -> {"none", "part", "whole"}]
      /\ JobKnows(j)
      /\ \A q \in had \ tcMixed : packTree[q] = "whole" \/ q \in staged \/ cache[q] = "whole"
      /\ "build" \in had \ tcMixed => "build" \in staged \/ cache["build"] = "whole"
      /\ \A q \in sound : packTree[q] = "whole"
      /\ \A k \in TcJobs : tcJob[k].pc = "extract" => tcJob[k].pack \notin sound
  BY <1>1, TcAtWork
<1>2. /\ p \notin tcMixed => packTree[p] = "whole"
      /\ tcJob[j].from = "download" /\ p \notin tcMixed => p \in staged
      /\ tcJob[j].pc \in {"promote", "copy"} => p = "build" /\ tcJob[j].from = "download"
      /\ manifest = 2
  BY <1>1, <1>w DEF JobKnows
<1>3. CASE DropArchive(j)
  <2>1. /\ p \in Runtimes /\ TcEnds(j) /\ cache' = cache
        /\ staged' \subseteq staged /\ \A q \in TcPacks : q # p /\ q \in staged => q \in staged'
    BY <1>3 DEF DropArchive
  <2>2. p # "build"
    BY <2>1 DEF Runtimes
  <2> QED  BY <1>1, <1>2, <1>w, <2>1, <2>2, TcReturns
<1>4. CASE PromoteBegins(j)
  <2>1. p = "build" /\ staged' = staged
    BY <1>4 DEF PromoteBegins
  <2>2. CASE tcJob[j].from = "cache" \/ TcHolds("build", "cache")
    <3>1. TcEnds(j) /\ cache' = cache
      BY <1>4, <2>2 DEF PromoteBegins
    <3> QED  BY <1>1, <1>w, <2>1, <3>1, TcReturns
  <2>3. CASE ~(tcJob[j].from = "cache" \/ TcHolds("build", "cache"))
    <3>1. TcGo(j, "promote") /\ tcRow' = tcRow /\ cache' = [cache EXCEPT !["build"] = "none"]
      BY <1>4, <2>3 DEF PromoteBegins
    <3>2. /\ cache' \in [TcPacks -> {"none", "part", "whole"}] /\ \A q \in TcPacks : q # p => cache'[q] = cache[q]
      BY <1>w, <2>1, <3>1
    <3>3. tcJob[j].from = "download"
      BY <1>w, <2>3
    <3> QED  BY <1>1, <1>2, <1>w, <2>1, <3>1, <3>2, <3>3, TcAdvances
  <2> QED  BY <2>2, <2>3
<1>5. CASE PromoteMoves(j)
  <2>1. p = "build" /\ tcJob[j].from = "download" /\ tcJob[j].pc = "promote"
    BY <1>2, <1>5 DEF PromoteMoves
  <2>2. CASE "build" \notin staged
    <3>1. TcEnds(j) /\ UNCHANGED <<staged, cache>>
      BY <1>5, <2>2 DEF PromoteMoves
    <3> QED  BY <1>1, <1>w, <2>1, <3>1, TcReturns
  <2>3. CASE "build" \in staged /\ TcHolds("build", "download")
    <3>1. TcGo(j, "copy") /\ cache' = [cache EXCEPT !["build"] = "part"] /\ UNCHANGED <<staged, tcRow>>
      BY <1>5, <2>3 DEF PromoteMoves
    <3>2. /\ cache' \in [TcPacks -> {"none", "part", "whole"}] /\ \A q \in TcPacks : q # p => cache'[q] = cache[q]
      BY <1>w, <2>1, <3>1
    <3> QED  BY <1>1, <1>2, <1>w, <2>1, <2>3, <3>1, <3>2, TcAdvances
  <2>4. CASE "build" \in staged /\ ~TcHolds("build", "download")
    <3>1. TcEnds(j) /\ cache' = [cache EXCEPT !["build"] = "whole"] /\ staged' = staged \ {"build"}
      BY <1>5, <2>4 DEF PromoteMoves
    <3>2. /\ cache' \in [TcPacks -> {"none", "part", "whole"}] /\ cache'["build"] = "whole"
          /\ \A q \in TcPacks : q # p => cache'[q] = cache[q]
      BY <1>w, <2>1, <3>1
    <3> QED  BY <1>1, <1>w, <2>1, <3>1, <3>2, TcReturns
  <2> QED  BY <2>2, <2>3, <2>4
<1>6. CASE PromoteCopies(j)
  <2>1. p = "build" /\ tcJob[j].from = "download" /\ tcJob[j].pc = "copy"
    BY <1>2, <1>6 DEF PromoteCopies
  <2>2. /\ TcEnds(j)
        /\ cache' = [cache EXCEPT !["build"] = IF @ = "part" /\ "build" \in staged THEN "whole" ELSE @]
        /\ staged' = IF TcHolds("build", "download") \/ cache'["build"] # "whole" THEN staged ELSE staged \ {"build"}
    BY <1>6 DEF PromoteCopies
  <2>3. PICK c \in {"none", "part", "whole"} :
           c = (IF cache["build"] = "part" /\ "build" \in staged THEN "whole" ELSE cache["build"])
    BY <1>w, <2>1
  <2>4. /\ cache' \in [TcPacks -> {"none", "part", "whole"}] /\ cache'["build"] = c
        /\ \A q \in TcPacks : q # p => cache'[q] = cache[q]
    BY <1>w, <2>1, <2>2, <2>3
  <2>5. "build" \in staged \/ cache["build"] = "whole" => "build" \in staged' \/ cache'["build"] = "whole"
    BY <2>2, <2>3, <2>4
  <2>6. staged' \subseteq staged /\ \A q \in TcPacks : q # p /\ q \in staged => q \in staged'
    BY <2>1, <2>2
  <2> QED  BY <1>1, <1>w, <2>1, <2>2, <2>4, <2>5, <2>6, TcReturns
<1> QED  BY <1>3, <1>4, <1>5, <1>6

\* Steps of those who use the tree, a cancelled row and a crash leave the jobs
\* or end them all.
LEMMA TcOthers ==
    ASSUME ToolchainInd, tcJob' = tcJob \/ tcJob' = [j \in TcJobs |-> NoJob],
           tcRow' \subseteq tcRow, spoilt' \subseteq spoilt,
           manifest' = manifest \/ manifest' = 2,
           engines' \subseteq Runtimes, \A p \in engines' : p \in engines \/ packTree[p] = "whole",
           UNCHANGED <<packTree, staged, cache, had, sound, tcMixed>>
    PROVE  ToolchainInd'
<1>t. TcTypes /\ OneJob /\ TcSafe /\ \A k \in TcJobs : JobKnows(k)
  BY DEF ToolchainInd
<1>1. NoJob \in TcJobRecs /\ NoJob.pc = "idle"
  BY DEF NoJob, TcJobRecs, TcPacks
<1>2. tcJob' \in [TcJobs -> TcJobRecs] /\ \A k \in TcJobs : TcWorks(k)' => tcJob'[k] = tcJob[k] /\ TcWorks(k)
  BY <1>t, <1>1 DEF TcTypes, TcWorks
<1>3. TcTypes'
  <2>1. manifest' \in 0 .. 2  BY <1>t DEF TcTypes
  <2> QED  BY <2>1, <1>t, <1>2 DEF TcTypes
<1>4. OneJob'
  <2>1. spoilt' \subseteq tcMixed  BY <1>t DEF OneJob
  <2>2. ASSUME NEW j \in TcJobs, NEW k \in TcJobs, TcWorks(j)', TcWorks(k)', tcJob'[j].pack = tcJob'[k].pack
        PROVE  j = k \/ tcJob'[j].pack \in tcMixed
    BY <2>2, <1>t, <1>2 DEF OneJob
  <2> QED  BY <2>1, <2>2 DEF OneJob
<1>5. ASSUME NEW k \in TcJobs PROVE JobKnows(k)'
  <2>1. CASE TcWorks(k)'
    BY <2>1, <1>t, <1>2 DEF JobKnows, TcWorks
  <2>2. CASE ~TcWorks(k)'
    BY <2>2 DEF JobKnows, TcWorks
  <2> QED  BY <2>1, <2>2
<1>6. TcSafe'
  BY <1>t DEF TcSafe, PacksKeepTheirFiles, EnginesKeepTheirLibraries, NothingIsDownloadedTwice, BuildArchiveIsKept
<1> QED  BY <1>3, <1>4, <1>5, <1>6 DEF ToolchainInd

\* ToolchainInv is an invariant: a pack that one extraction unpacked stays whole whatever
\* is installed around it (PacksKeepTheirFiles), no extraction cuts the libraries under an
\* engine (EnginesKeepTheirLibraries), and at every step of verification and promotion to the
\* cache a pack that never had two jobs at a time is whole or has a whole archive
\* (NothingIsDownloadedTwice, BuildArchiveIsKept).
THEOREM ToolchainKept == ToolchainSpec => []ToolchainInv
<1>1. ToolchainInit => ToolchainInd
  <2> SUFFICES ASSUME ToolchainInit PROVE ToolchainInd
    OBVIOUS
  <2>1. NoJob \in TcJobRecs /\ NoJob.pc = "idle"
    BY DEF NoJob, TcJobRecs, TcPacks
  <2>2. TcTypes
    BY <2>1 DEF ToolchainInit, TcTypes
  <2>3. \A j \in TcJobs : tcJob[j].pc = "idle"
    BY <2>1 DEF ToolchainInit
  <2>4. OneJob /\ \A j \in TcJobs : JobKnows(j)
    BY <2>3 DEF ToolchainInit, OneJob, JobKnows, TcWorks
  <2>5. TcSafe
    BY DEF ToolchainInit, TcSafe, PacksKeepTheirFiles, EnginesKeepTheirLibraries, NothingIsDownloadedTwice, BuildArchiveIsKept
  <2> QED  BY <2>2, <2>4, <2>5 DEF ToolchainInd
<1>2. ToolchainInd /\ [ToolchainNext]_tcVars => ToolchainInd'
  <2> SUFFICES ASSUME ToolchainInd, [ToolchainNext]_tcVars PROVE ToolchainInd'
    OBVIOUS
  <2>t. TcTypes
    BY DEF ToolchainInd
  <2>1. CASE UNCHANGED tcVars
    BY <2>1, <2>t, TcOthers DEF tcVars, treeVars, archiveVars, tcJobVars, tcHistory, TcTypes
  <2>2. ASSUME NEW p \in TcPacks, TcDownloaded(p) PROVE ToolchainInd'
    <3>1. /\ TcStart(p, "download") /\ staged' = staged \cup {p} /\ had' = had \cup {p}
          /\ UNCHANGED <<treeVars, carried, cache, sound, spoilt, engines>>
      BY <2>2 DEF TcDownloaded
    <3> QED  BY <3>1, <2>t, TcStarting DEF TcTypes
  <2>3. ASSUME NEW p \in TcPacks, Reextracts(p) PROVE ToolchainInd'
    <3>1. PICK from \in {"download", "cache"} : TcStart(p, from) /\ (from = "download" => p \in staged)
      BY <2>3 DEF Reextracts
    <3>2. UNCHANGED <<treeVars, carried, staged, cache, had, sound, spoilt, engines>>
      BY <2>3 DEF Reextracts, archiveVars
    <3> QED  BY <3>1, <3>2, <2>t, TcStarting DEF TcTypes
  <2>4. ASSUME NEW p \in TcPacks, TcCancel(p) PROVE ToolchainInd'
    BY <2>4, <2>t, TcOthers DEF TcCancel, treeVars, archiveVars, tcHistory, TcTypes
  <2>5. ASSUME NEW p \in TcPacks, TcStops(p) PROVE ToolchainInd'
    BY <2>5, <2>t, TcOthers DEF TcStops, treeVars, archiveVars, tcJobVars, tcHistory, TcTypes
  <2>6. ASSUME NEW profile \in DOMAIN CudaOf, TcLaunch(profile) PROVE ToolchainInd'
    <3>1. CudaOf[profile] \in Runtimes
      BY DEF CudaOf, Runtimes
    <3>2. engines' = (IF packTree[CudaOf[profile]] = "whole" THEN engines \cup {CudaOf[profile]} ELSE engines)
          /\ EnsureManifest /\ UNCHANGED <<packTree, older, archiveVars, tcJobVars, tcHistory, ninja, tcFaults>>
      BY <2>6 DEF TcLaunch
    <3>3. engines' \subseteq Runtimes /\ \A p \in engines' : p \in engines \/ packTree[p] = "whole"
      BY <3>1, <3>2, <2>t DEF TcTypes
    <3>4. manifest' = manifest \/ manifest' = 2
      BY <3>2 DEF EnsureManifest
    <3> QED  BY <3>2, <3>3, <3>4, TcOthers DEF archiveVars, tcJobVars, tcHistory
  <2>7. CASE TcAsked
    BY <2>7, <2>t, TcOthers DEF TcAsked, EnsureManifest, archiveVars, tcJobVars, tcHistory, TcTypes
  <2>8. CASE EnsureNinja
    BY <2>8, <2>t, TcOthers DEF EnsureNinja, EnsureManifest, archiveVars, tcJobVars, tcHistory, TcTypes
  <2>9. CASE TcCrash
    BY <2>9, <2>t, TcOthers DEF TcCrash, treeVars, archiveVars, TcTypes
  <2> QED
    BY <2>1, <2>2, <2>3, <2>4, <2>5, <2>6, <2>7, <2>8, <2>9, TcExtractBegins, TcExtractEnds, TcVerifies, TcArchives
    DEF ToolchainNext
<1>3. ToolchainInd => ToolchainInv
  <2> SUFFICES ASSUME ToolchainInd PROVE ToolchainInv
    OBVIOUS
  <2>1. ToolchainTypeOK
    BY DEF ToolchainInd, TcTypes, TcJobRecs, ToolchainTypeOK
  <2>2. VerifiedInstallIsCurrent
    BY DEF ToolchainInd, JobKnows, VerifiedInstallIsCurrent
  <2> QED  BY <2>1, <2>2 DEF ToolchainInd, TcSafe, ToolchainInv
<1> QED
  BY <1>1, <1>2, <1>3, PTL DEF ToolchainSpec
=============================================================================
