------------------------------ MODULE Foundry ------------------------------
(***************************************************************************)
(* The foundry builds the engine from source: one global build slot behind *)
(* an async mutex, a cancel flag, a queue for the second profile of a      *)
(* build-both, a background worker per accepted build, the compiler as a   *)
(* child process, one source checkout and one retained build tree per      *)
(* profile, and the published Release directory with its one predecessor.  *)
(* A step is one hold of the slot's mutex, one external command or one     *)
(* file operation.  What a build contains is reduced to the pull request   *)
(* it was asked to merge and whether the vendor patches are in.            *)
(***************************************************************************)
EXTENDS Integers, Sequences, FiniteSets

CONSTANTS
    Profiles,     \* binary profiles of the provider (edge, stable)
    PRs,          \* pull requests a build may be asked to merge
    NoPR,         \* no pull request
    Absent,       \* no such directory, no binaries
    Empty,        \* a directory without a complete set of binaries
    Requests,     \* bound: the builds that are asked for
    Sessions,     \* bound: accepted foundry_build calls, each has its worker
    MaxBuild,     \* bound: build ids ever given out
    Plans         \* bound: how often events of each kind may happen together

(* early: a build is accepted while the worker of an earlier one is alive *)
Kinds == {"start", "early", "cancel", "fault", "crash", "restore", "clear", "expire"}

Content  == [pr : PRs \cup {NoPR}, patched : BOOLEAN]
Clean    == [pr |-> NoPR, patched |-> FALSE]
Others(p) == Profiles \ {p}

ASSUME FoundryAssumption ==
    /\ NoPR \notin PRs /\ Absent # Empty /\ Absent \notin Content /\ Empty \notin Content
    /\ MaxBuild \in Nat /\ Sessions \subseteq Nat \ {0} /\ IsFiniteSet(Sessions)
    /\ Requests \subseteq [prof : Profiles, pr : PRs \cup {NoPR}, also : BOOLEAN, auto : BOOLEAN]
    /\ \A r \in Requests : r.also => Others(r.prof) # {}
    /\ Plans \subseteq [Kinds -> Nat]

NoSlot   == [id |-> 0]
NoWorker == [pc |-> "idle", id |-> 0, prof |-> "", pr |-> NoPR, also |-> FALSE, after |-> 0]

VARIABLES
    slot,       \* CURRENT_BUILD
    holder,     \* a worker that will never give the slot's mutex back
    cancelled,  \* BUILD_CANCELLED
    canceling,  \* foundry_cancel has set the flag and waits for the mutex
    pending,    \* PENDING_BUILDS
    ids,        \* BUILD_COUNTER
    worker,     \* the background tasks
    child,      \* the batch of each worker
    tracked,    \* CHILD_PIDS
    src,        \* the checkout llama.cpp
    tree,       \* work/build-<profile>: is it configured, and its binaries
    release,    \* artifacts/<profile>/Release
    prev,       \* artifacts/<profile>/Release.prev
    restoring,  \* foundry_restore between its steps
    clearing,   \* foundry_clear_work_cache has passed its check
    spent,      \* events used of a plan
    aborted,    \* history: builds whose slot a cancel has taken
    published,  \* history: profiles that have had a complete Release
    faults,     \* history: publications cut short by a fault or a crash
    touched     \* history: a restore was started

slots  == <<slot, holder, cancelled, canceling, pending, ids>>
procs  == <<child, tracked>>
trees  == <<src, tree>>
shelf  == <<release, prev>>
others == <<restoring, clearing>>
past   == <<aborted, published, faults, touched>>
vars   == <<slots, worker, procs, trees, shelf, others, spent, past>>

Alive(w) == worker[w].pc \notin {"idle", "ended"}
Good(d)  == d \in Content
Allowed(k) == \E plan \in Plans :
    \A e \in Kinds : spent[e] + (IF e = k THEN 1 ELSE 0) <= plan[e]
Spend(k) == Allowed(k) /\ spent' = [spent EXCEPT ![k] = @ + 1]
At(w, pc) == worker[w].pc = pc
Goto(w, pc) == worker' = [worker EXCEPT ![w].pc = pc]
LockFree == holder = 0

Init ==
    /\ slot = NoSlot /\ holder = 0 /\ cancelled = FALSE /\ canceling = FALSE /\ pending = <<>> /\ ids = 0
    /\ worker = [w \in Sessions |-> NoWorker]
    /\ child = [w \in Sessions |-> "none"] /\ tracked = {}
    /\ src = Absent
    /\ tree = [p \in Profiles |-> [key |-> FALSE, out |-> Absent]]
    /\ release = [p \in Profiles |-> Absent] /\ prev = [p \in Profiles |-> Absent]
    /\ restoring = <<>> /\ clearing = FALSE
    /\ spent = [k \in Kinds |-> 0]
    /\ aborted = {} /\ published = {} /\ faults = 0 /\ touched = FALSE

(***************************************************************************)
(* Commands.                                                               *)
(***************************************************************************)
(* foundry_build up to the reservation of the slot; also: the other        *)
(* profile is queued, auto: the configure result is accepted unasked       *)
Accept(w, r) ==
    /\ At(w, "idle") /\ \A v \in Sessions : v < w => ~At(v, "idle")
    /\ LockFree /\ slot = NoSlot /\ ids < MaxBuild
    /\ Spend(IF \E v \in Sessions : Alive(v) THEN "early" ELSE "start")
    /\ ids' = ids + 1
    /\ slot' = [id |-> ids', prof |-> r.prof, phase |-> "Configuring", auto |-> r.auto]
    /\ worker' = [worker EXCEPT ![w] =
         [pc |-> "accepted", id |-> ids', prof |-> r.prof, pr |-> r.pr, also |-> r.also, after |-> 0]]
    /\ UNCHANGED <<holder, cancelled, canceling, pending, procs, trees, shelf, others,
                   aborted, published, faults, touched>>

(* the rest of foundry_build: the flag, then the queue, then the worker *)
Disarm(w) ==
    /\ At(w, "accepted")
    /\ cancelled' = FALSE /\ tracked' = {} /\ pending' = <<>>
    /\ Goto(w, "enqueue")
    /\ UNCHANGED <<slot, holder, canceling, ids, child, trees, shelf, others, spent, past>>

Enqueue(w) ==
    /\ At(w, "enqueue")
    /\ pending' = IF worker[w].also
                  THEN Append(pending, [prof |-> CHOOSE p \in Others(worker[w].prof) : TRUE,
                                        pr |-> worker[w].pr])
                  ELSE pending
    /\ Goto(w, "begin")
    /\ UNCHANGED <<slot, holder, cancelled, canceling, ids, procs, trees, shelf, others, spent, past>>

CancelFlag ==
    /\ ~canceling /\ Spend("cancel")
    /\ cancelled' = TRUE /\ canceling' = TRUE /\ pending' = <<>>
    /\ child' = [w \in Sessions |->
         IF w \in tracked /\ child[w] = "running" THEN "killed" ELSE child[w]]
    /\ tracked' = {}
    /\ UNCHANGED <<slot, holder, ids, worker, trees, shelf, others, past>>

CancelTake ==
    /\ canceling /\ LockFree
    /\ canceling' = FALSE /\ slot' = NoSlot
    /\ aborted' = IF slot = NoSlot THEN aborted ELSE aborted \cup {slot.id}
    /\ UNCHANGED <<holder, cancelled, pending, ids, worker, procs, trees, shelf, others, spent,
                   published, faults, touched>>

Confirm ==
    /\ LockFree /\ slot # NoSlot /\ slot.phase = "WaitingForConfirm"
    /\ slot' = [slot EXCEPT !.phase = "Building"]
    /\ UNCHANGED <<holder, cancelled, canceling, pending, ids, worker, procs, trees, shelf,
                   others, spent, past>>

(* foundry_restore: check, remove Release, rename Release.prev *)
RestoreBegin(p) ==
    /\ restoring = <<>> /\ prev[p] # Absent /\ Spend("restore")
    /\ restoring' = <<"remove", p>> /\ touched' = TRUE
    /\ UNCHANGED <<slots, worker, procs, trees, shelf, clearing,
                   aborted, published, faults>>

RestoreRemove ==
    /\ restoring # <<>> /\ restoring[1] = "remove"
    /\ release' = [release EXCEPT ![restoring[2]] = Absent]
    /\ restoring' = <<"rename", restoring[2]>>
    /\ UNCHANGED <<slots, worker, procs, trees, prev, clearing, spent, past>>

RestoreRename ==
    /\ restoring # <<>> /\ restoring[1] = "rename"
    /\ LET p == restoring[2] IN
         IF prev[p] # Absent /\ release[p] = Absent
         THEN /\ release' = [release EXCEPT ![p] = prev[p]]
              /\ prev' = [prev EXCEPT ![p] = Absent]
         ELSE UNCHANGED shelf
    /\ restoring' = <<>>
    /\ UNCHANGED <<slots, worker, procs, trees, clearing, spent, past>>

(* foundry_clear_work_cache: the slot is looked at, then the tree goes *)
ClearCheck ==
    /\ ~clearing /\ LockFree /\ slot = NoSlot /\ Spend("clear")
    /\ clearing' = TRUE
    /\ UNCHANGED <<slots, worker, procs, trees, shelf, restoring, past>>

ClearTrees ==
    /\ clearing /\ clearing' = FALSE
    /\ tree' = [p \in Profiles |-> [key |-> FALSE, out |-> Absent]]
    /\ UNCHANGED <<slots, worker, procs, src, shelf, restoring, spent, past>>

(* the process dies: every global and every task is gone, the disk stays, *)
(* a copy in progress is cut short                                        *)
Copying(p) == \E w \in Sessions : At(w, "copy") /\ worker[w].prof = p

Crash ==
    /\ \E w \in Sessions : Alive(w)
    /\ Spend("crash")
    /\ slot' = NoSlot /\ holder' = 0 /\ cancelled' = FALSE /\ canceling' = FALSE /\ pending' = <<>>
    /\ worker' = [w \in Sessions |-> IF Alive(w) THEN [worker[w] EXCEPT !.pc = "ended"] ELSE worker[w]]
    /\ child' = [w \in Sessions |-> "none"] /\ tracked' = {}
    /\ faults' = faults + (IF \E w \in Sessions : worker[w].pc \in {"rotate", "copy", "copied"}
                           THEN 1 ELSE 0)
    /\ release' = [p \in Profiles |-> IF Copying(p) THEN Empty ELSE release[p]]
    /\ restoring' = <<>> /\ clearing' = FALSE
    /\ UNCHANGED <<ids, trees, prev, aborted, published, touched>>

(***************************************************************************)
(* Ways a worker's stages end.                                             *)
(***************************************************************************)
(* an Err without touching the slot *)
Fails(w) == Goto(w, "failed") /\ UNCHANGED <<slot, pending>>

(* rollback_build(..).execute(): the slot is cleared whosever it is *)
RollsBack(w, pc) == LockFree /\ slot' = NoSlot /\ Goto(w, pc) /\ UNCHANGED pending

(* clear_build_slot_if_matches, then an Err *)
ClearsOwn(w) ==
    /\ LockFree /\ Goto(w, "failed")
    /\ IF slot.id = worker[w].id THEN slot' = NoSlot /\ pending' = <<>>
                                 ELSE UNCHANGED <<slot, pending>>

\* variant: the epilogue trusts the stages to have cleared the slot
CleanupQueueOnly(w) ==
    /\ At(w, "failed") /\ LockFree
    /\ pending' = <<>>
    /\ Goto(w, "ended")
    /\ UNCHANGED <<slot, holder, cancelled, canceling, ids, procs, trees, shelf, others, spent, past>>

(* the spawned task's epilogue after an Err *)
Cleanup(w) ==
    /\ At(w, "failed") /\ LockFree
    /\ pending' = <<>> /\ slot' = NoSlot
    /\ Goto(w, "ended")
    /\ UNCHANGED <<holder, cancelled, canceling, ids, procs, trees, shelf, others, spent, past>>

SetPhase(ph) == slot' = IF slot = NoSlot THEN slot ELSE [slot EXCEPT !.phase = ph]

(***************************************************************************)
(* The stages of run_single_build.                                         *)
(***************************************************************************)
Quiet == UNCHANGED <<holder, cancelled, canceling, ids, shelf, others>>

Begin(w) ==
    /\ At(w, "begin") /\ LockFree
    /\ IF cancelled THEN Goto(w, "failed") /\ pending' = <<>>
       ELSE Goto(w, IF slot = NoSlot THEN "failed" ELSE "sync") /\ UNCHANGED pending
    /\ Quiet /\ UNCHANGED <<slot, procs, trees, spent, past>>

(* stage_git_ops: clone or fetch and hard reset; no question of the flag *)
SyncStart(w) ==
    /\ At(w, "sync") /\ LockFree
    /\ SetPhase(IF src = Absent THEN "GitClone" ELSE "GitPull")
    /\ Goto(w, "syncing")
    /\ Quiet /\ UNCHANGED <<pending, procs, trees, spent, past>>

\* variant: an existing checkout is fetched but not reset
SyncFetchOnly(w) ==
    /\ At(w, "syncing") /\ LockFree
    /\ \/ /\ src' = (IF src = Absent THEN Clean ELSE src) /\ SetPhase("Configuring") /\ Goto(w, "merge")
          /\ UNCHANGED <<pending, spent>>
       \/ Spend("fault") /\ RollsBack(w, "failed") /\ UNCHANGED src
    /\ Quiet /\ UNCHANGED <<tree, procs, past>>

Sync(w) ==
    /\ At(w, "syncing") /\ LockFree
    /\ \/ /\ src' = Clean /\ SetPhase("Configuring") /\ Goto(w, "merge")
          /\ UNCHANGED <<pending, spent>>
       \/ Spend("fault") /\ RollsBack(w, "failed") /\ UNCHANGED src
    /\ Quiet /\ UNCHANGED <<tree, procs, past>>

(* the stack of pull requests, on the clean tree *)
Merge(w) ==
    /\ At(w, "merge")
    /\ \/ /\ src' = IF worker[w].pr = NoPR THEN src ELSE [src EXCEPT !.pr = worker[w].pr]
          /\ Goto(w, "patch") /\ UNCHANGED <<slot, pending, spent>>
       \/ /\ worker[w].pr # NoPR /\ Spend("fault")
          /\ RollsBack(w, "failed") /\ UNCHANGED src
    /\ Quiet /\ UNCHANGED <<tree, procs, past>>

(* the vendor patches; a failure resets the tree to what was merged *)
Patch(w) ==
    /\ At(w, "patch")
    /\ \/ src' = [src EXCEPT !.patched = TRUE] /\ Goto(w, "guard") /\ UNCHANGED <<slot, pending, spent>>
       \/ Spend("fault") /\ src' = [src EXCEPT !.patched = FALSE] /\ Fails(w)
    /\ Quiet /\ UNCHANGED <<tree, procs, past>>

(* stage_cmake_configure: the guard before the build tree may be wiped *)
Guard(w) ==
    /\ At(w, "guard") /\ LockFree
    /\ Goto(w, IF cancelled \/ slot = NoSlot THEN "failed" ELSE "prepare")
    /\ Quiet /\ UNCHANGED <<slot, pending, procs, trees, spent, past>>

(* prepare_foundry_build_dir: a tree of the same fingerprint is kept *)
Prepare(w) ==
    LET p == worker[w].prof IN
    /\ At(w, "prepare")
    /\ \/ tree' = [tree EXCEPT ![p] = IF @.key THEN @ ELSE [key |-> FALSE, out |-> Absent]]
       \/ tree' = [tree EXCEPT ![p] = [key |-> FALSE, out |-> Absent]]
    /\ Goto(w, "configure")
    /\ Quiet /\ UNCHANGED <<slot, pending, src, procs, spent, past>>

(* run_foundry_batch_streaming: spawn, then track the pid, then poll *)
Spawn(w) ==
    /\ worker[w].pc \in {"configure", "compile"} /\ LockFree
    /\ IF slot = NoSlot THEN Goto(w, "failed") /\ UNCHANGED child
       ELSE /\ child' = [child EXCEPT ![w] = "running"]
            /\ Goto(w, IF At(w, "configure") THEN "configureTrack" ELSE "compileTrack")
    /\ Quiet /\ UNCHANGED <<slot, pending, tracked, trees, spent, past>>

Track(w) ==
    /\ worker[w].pc \in {"configureTrack", "compileTrack"}
    /\ tracked' = tracked \cup {w}
    /\ Goto(w, IF At(w, "configureTrack") THEN "configuring" ELSE "compiling")
    /\ Quiet /\ UNCHANGED <<slot, pending, child, trees, spent, past>>

(* the batch ends by itself *)
BatchEnds(w) ==
    /\ worker[w].pc \in {"configuring", "compiling"} /\ child[w] = "running"
    /\ \/ child' = [child EXCEPT ![w] = "ok"] /\ UNCHANGED spent
       \/ child' = [child EXCEPT ![w] = "bad"] /\ Spend("fault")
    /\ tree' = IF At(w, "compiling") /\ child'[w] = "ok"
               THEN [tree EXCEPT ![worker[w].prof].out = src] ELSE tree
    /\ Quiet /\ UNCHANGED <<slot, pending, worker, tracked, src, past>>

(* what the poll sees first: the flag, the end of the time, or the status *)
Polled(w) == IF cancelled THEN "cancelled" ELSE child[w]

Configured(w) ==
    LET p == worker[w].prof IN
    /\ At(w, "configuring") /\ (cancelled \/ child[w] # "running")
    /\ child' = [child EXCEPT ![w] = "none"]
    /\ CASE Polled(w) = "cancelled" ->
              ClearsOwn(w) /\ tracked' = {} /\ UNCHANGED tree
         [] Polled(w) = "ok" ->
              /\ tree' = [tree EXCEPT ![p].key = TRUE]
              /\ Goto(w, "gate") /\ UNCHANGED <<slot, pending, tracked>>
         [] OTHER -> RollsBack(w, "wipe") /\ tracked' = {} /\ UNCHANGED tree
    /\ Quiet /\ UNCHANGED <<src, spent, past>>

(* nuke_foundry_build_dir_on_configure_fail, after the rollback *)
Wipe(w) ==
    /\ At(w, "wipe") /\ Fails(w)
    /\ tree' = [tree EXCEPT ![worker[w].prof] = [key |-> FALSE, out |-> Absent]]
    /\ Quiet /\ UNCHANGED <<src, procs, spent, past>>

(* stage_wait_for_confirm *)
Gate(w) ==
    /\ At(w, "gate")
    /\ IF cancelled THEN ClearsOwn(w) /\ tracked' = {}
       ELSE Goto(w, "ask") /\ UNCHANGED <<slot, pending, tracked>>
    /\ Quiet /\ UNCHANGED <<child, trees, spent, past>>

Ask(w) ==
    /\ At(w, "ask") /\ LockFree
    /\ IF slot # NoSlot /\ slot.auto
       THEN SetPhase("Building") /\ Goto(w, "compile")
       ELSE SetPhase("WaitingForConfirm") /\ Goto(w, "wait")
    /\ Quiet /\ UNCHANGED <<pending, procs, trees, spent, past>>

\* variant: the loop waits for the confirmation only
WaitedForConfirm(w) ==
    /\ At(w, "wait") /\ LockFree
    /\ slot # NoSlot /\ slot.phase = "Building" /\ Goto(w, "compile")
    /\ Quiet /\ UNCHANGED <<slot, pending, procs, trees, spent, past>>

Waited(w) ==
    /\ At(w, "wait") /\ LockFree
    /\ IF cancelled \/ slot = NoSlot THEN Goto(w, "failed") /\ tracked' = {}
       ELSE slot.phase = "Building" /\ Goto(w, "compile") /\ UNCHANGED tracked
    /\ Quiet /\ UNCHANGED <<slot, pending, child, trees, spent, past>>

(* ten minutes without an answer, seen after the two looks of the loop *)
Expire(w) ==
    /\ At(w, "wait") /\ ~cancelled /\ slot # NoSlot /\ slot.phase # "Building"
    /\ Spend("expire") /\ Goto(w, "expired")
    /\ Quiet /\ UNCHANGED <<slot, pending, procs, trees, past>>

(* the guard of the timeout branch is alive when the slot is locked again: *)
(* the mutex is never given back                                           *)
GiveUpWaiting(w) ==
    /\ At(w, "expired") /\ LockFree
    /\ SetPhase("Failed") /\ holder' = w /\ Goto(w, "wedged")
    /\ UNCHANGED <<cancelled, canceling, ids, shelf, others, pending, procs, trees, spent, past>>

(* stage_compile *)
Compiled(w) ==
    /\ At(w, "compiling") /\ (cancelled \/ child[w] # "running")
    /\ child' = [child EXCEPT ![w] = "none"] /\ tracked' = {}
    /\ CASE Polled(w) = "cancelled" -> Fails(w)
         [] Polled(w) = "ok" -> Goto(w, "validate") /\ UNCHANGED <<slot, pending>>
         [] OTHER -> RollsBack(w, "failed")
    /\ Quiet /\ UNCHANGED <<trees, spent, past>>

(* a configure or compile batch that never ends is killed after its time *)
BatchTimesOut(w) ==
    /\ worker[w].pc \in {"configuring", "compiling"} /\ child[w] = "running" /\ ~cancelled
    /\ Spend("fault")
    /\ child' = [child EXCEPT ![w] = "none"] /\ tracked' = {}
    /\ IF At(w, "configuring") THEN ClearsOwn(w) ELSE Fails(w)
    /\ Quiet /\ UNCHANGED <<trees, past>>

Validate(w) ==
    /\ At(w, "validate") /\ LockFree
    /\ IF Good(tree[worker[w].prof].out)
       THEN SetPhase("Validating") /\ Goto(w, "publish") /\ UNCHANGED pending
       ELSE RollsBack(w, "failed")
    /\ Quiet /\ UNCHANGED <<procs, trees, spent, past>>

(***************************************************************************)
(* publish_artifacts_to_sacred and what follows it.                        *)
(***************************************************************************)
Publishing == UNCHANGED <<holder, cancelled, canceling, ids, others, procs, trees>>

PublishFails(w) == LockFree /\ pending' = <<>> /\ slot' = NoSlot /\ Goto(w, "failed")

(* the target is made before it is asked whether there was one *)
DropPrevious(w) ==
    LET p == worker[w].prof IN
    /\ At(w, "publish")
    /\ \/ /\ tree[p].out # Absent
          /\ release' = [release EXCEPT ![p] = IF @ = Absent THEN Empty ELSE @]
          /\ prev' = [prev EXCEPT ![p] = Absent]
          /\ Goto(w, "rotate") /\ UNCHANGED <<slot, pending>>
       \/ tree[p].out = Absent /\ PublishFails(w) /\ UNCHANGED shelf
    /\ Publishing /\ UNCHANGED <<spent, past>>

\* variant: Release is emptied in place, nothing is kept
RotateInPlace(w) ==
    /\ At(w, "rotate")
    /\ release' = [release EXCEPT ![worker[w].prof] = Empty]
    /\ Goto(w, "copy")
    /\ Publishing /\ UNCHANGED <<prev, slot, pending, spent, past>>

(* a rename that fails (a file of Release is in use) goes unnoticed *)
Rotate(w) ==
    LET p == worker[w].prof IN
    /\ At(w, "rotate")
    /\ \/ /\ prev' = [prev EXCEPT ![p] = release[p]]
          /\ release' = [release EXCEPT ![p] = Empty]
          /\ UNCHANGED <<spent, faults>>
       \/ /\ Spend("fault") /\ faults' = faults + 1
          /\ UNCHANGED shelf
    /\ Goto(w, "copy")
    /\ Publishing /\ UNCHANGED <<slot, pending, aborted, published, touched>>

Copy(w) ==
    LET p == worker[w].prof IN
    /\ At(w, "copy")
    /\ \/ /\ Good(tree[p].out)
          /\ release' = [release EXCEPT ![p] = tree[p].out]
          /\ published' = published \cup {p}
          /\ Goto(w, "copied") /\ UNCHANGED <<slot, pending, spent, faults>>
       \/ /\ IF Good(tree[p].out) THEN Spend("fault") ELSE UNCHANGED spent
          /\ faults' = faults + 1
          /\ release' = [release EXCEPT ![p] = Empty]
          /\ PublishFails(w) /\ UNCHANGED published
    /\ Publishing /\ UNCHANGED <<prev, aborted, touched>>

(* ACTIVE := foundry, then the sequencer looks for a queued profile *)
Activate(w) ==
    /\ At(w, "copied")
    /\ IF pending = <<>> THEN Goto(w, "finish") /\ UNCHANGED pending
       ELSE /\ worker' = [worker EXCEPT ![w] = [@ EXCEPT !.pc = "advance", !.after = worker[w].id,
                            !.prof = Head(pending).prof, !.pr = Head(pending).pr]]
            /\ pending' = Tail(pending)
    /\ Publishing /\ UNCHANGED <<slot, shelf, spent, past>>

\* variant: the queued profile starts without a look at flag or slot
MayAlwaysAdvance == TRUE

(* advance_to_queued_build: the flag and the slot under one hold *)
MayAdvance == slot # NoSlot /\ ~cancelled

Advance(w) ==
    /\ At(w, "advance") /\ LockFree
    /\ \/ /\ MayAdvance /\ ids < MaxBuild
          /\ ids' = ids + 1 /\ tracked' = {}
          /\ slot' = [id |-> ids', prof |-> worker[w].prof, phase |-> "Configuring", auto |-> TRUE]
          /\ worker' = [worker EXCEPT ![w].pc = "begin", ![w].id = ids']
          /\ UNCHANGED pending
       \/ /\ ~MayAdvance /\ pending' = <<>>
          /\ Goto(w, "failed") /\ UNCHANGED <<slot, ids, tracked>>
    /\ UNCHANGED <<holder, cancelled, canceling, child, trees, shelf, others, spent, past>>

(* finish_build *)
Finish(w) ==
    /\ At(w, "finish") /\ LockFree
    /\ IF slot.id = worker[w].id THEN SetPhase("Complete") ELSE UNCHANGED slot
    /\ Goto(w, "closing")
    /\ Publishing /\ UNCHANGED <<pending, shelf, spent, past>>

Close(w) ==
    /\ At(w, "closing") /\ LockFree
    /\ slot' = IF slot.id = worker[w].id THEN NoSlot ELSE slot
    /\ tracked' = {} /\ Goto(w, "ended")
    /\ Quiet /\ UNCHANGED <<pending, child, trees, spent, past>>

Work(w) ==
    \/ Disarm(w) \/ Enqueue(w) \/ Begin(w) \/ SyncStart(w) \/ Sync(w) \/ Merge(w) \/ Patch(w)
    \/ Guard(w) \/ Prepare(w) \/ Spawn(w) \/ Track(w) \/ BatchEnds(w) \/ Configured(w) \/ Wipe(w)
    \/ Gate(w) \/ Ask(w) \/ Waited(w) \/ GiveUpWaiting(w) \/ Compiled(w) \/ Validate(w)
    \/ DropPrevious(w) \/ Rotate(w) \/ Copy(w) \/ Activate(w) \/ Advance(w) \/ Finish(w) \/ Close(w)
    \/ Cleanup(w)

Command ==
    \/ \E w \in Sessions, r \in Requests : Accept(w, r)
    \/ CancelFlag \/ Confirm \/ ClearCheck \/ Crash
    \/ \E p \in Profiles : RestoreBegin(p)
    \/ \E w \in Sessions : Expire(w) \/ BatchTimesOut(w)

Finishing == CancelTake \/ RestoreRemove \/ RestoreRename \/ ClearTrees

Next == Command \/ Finishing \/ \E w \in Sessions : Work(w)

Spec == Init /\ [][Next]_vars
(* the async runtime runs every task, and external commands end *)
BuildFairness == WF_vars(Finishing) /\ \A w \in Sessions : WF_vars(Work(w))
FairSpec == Spec /\ BuildFairness

(***************************************************************************)
(* Properties.                                                             *)
(***************************************************************************)
Early == spent["early"] > 0

FoundryTypeOK ==
    /\ slot = NoSlot \/ (slot.id \in 1 .. MaxBuild /\ slot.prof \in Profiles)
    /\ holder \in {0} \cup Sessions
    /\ Len(pending) <= Cardinality(Sessions)
    /\ tracked \subseteq Sessions
    /\ src \in Content \cup {Absent}
    /\ \A p \in Profiles : /\ tree[p].out \in Content \cup {Absent}
                           /\ {release[p], prev[p]} \subseteq Content \cup {Absent, Empty}
    /\ \A w \in Sessions : child[w] # "none" =>
         worker[w].pc \in {"configureTrack", "compileTrack", "configuring", "compiling"}

(* The slot never outlives its build: unless a build was accepted while an *)
(* earlier worker was still unwinding, the id in CURRENT_BUILD is the one  *)
(* of a live worker, so no stale slot refuses the next build.              *)
SlotHasItsWorker ==
    ~Early /\ slot # NoSlot => \E w \in Sessions : Alive(w) /\ worker[w].id = slot.id

FoundryInv == FoundryTypeOK /\ SlotHasItsWorker

(* A cancel takes the whole session: the profile queued behind a build     *)
(* whose slot a cancel took is never started.                              *)
CancelTakesTheQueue ==
    ~Early => \A w \in Sessions : worker[w].after \in aborted => worker[w].pc \in {"advance", "failed", "ended"}

(* What is published is what was asked for: the Release a worker has just  *)
(* copied has its pull request and the vendor patches, although checkout   *)
(* and build tree are kept from build to build.                            *)
PublishedIsRequested ==
    ~Early /\ ~touched => \A w \in Sessions : At(w, "copied") =>
        release[worker[w].prof] = [pr |-> worker[w].pr, patched |-> TRUE]

\* its predecessor is gone or being replaced, the new one not yet complete
Replacing(p) == \E w \in Sessions : worker[w].pc \in {"rotate", "copy"} /\ worker[w].prof = p

(* One failed or interrupted publication never costs the last complete     *)
(* build of a profile: Release or Release.prev still holds one.  The next  *)
(* publication drops the predecessor before it copies, so that it takes a  *)
(* second failure, in the middle of it, to lose the build.                 *)
ABuildIsKept ==
    ~Early /\ ~touched => \A p \in published :
        faults = 0 \/ (faults = 1 /\ ~Replacing(p)) => Good(release[p]) \/ Good(prev[p])

(* A cancelled build ends, whatever it was waiting for, unless its cancel  *)
(* was disarmed by a build accepted too early or the mutex is stuck.       *)
CancelledBuildEnds ==
    \A w \in Sessions :
        (worker[w].id \in aborted) ~> (~Alive(w) \/ Early \/ holder # 0)

(* A build that nobody confirms within ten minutes is cancelled, and the   *)
(* slot is free again.                                                     *)
UnconfirmedBuildEnds ==
    \A w \in Sessions : At(w, "expired") ~> ~Alive(w)

=============================================================================
