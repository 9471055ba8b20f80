---------------------------- MODULE StoresProofs ----------------------------
(***************************************************************************)
(* What the components around files promise, for every value of their      *)
(* constants.                                                              *)
(***************************************************************************)
EXTENDS MCStores, FiniteSetTheorems, TLAPS

-----------------------------------------------------------------------------
(* Port locks *)

Ports0 == LockPorts \cup {NoPort}
ProcRecs == [app : Apps, port : LockPorts, st : {"loading", "listening", "dead", "foreign"}, job : BOOLEAN]
LockRecs == {NoLock} \cup [pid : Nat \ {0}, app : Apps]
TaskRecs == [pc : {"rest", "reap", "image", "kill", "drop", "sweep", "probe"}, port : Ports0,
             lock : LockRecs, todo : SUBSET LockPorts]
LaunchRecs == [pc : {"rest", "look", "lock", "kill", "free", "spawn", "assign", "write"},
               port : Ports0, pid : Nat]

LockTypes ==
    /\ app \in [Apps -> {"off", "up", "gone"}]
    /\ task \in [Apps -> TaskRecs] /\ call \in [Apps -> LaunchRecs]
    /\ IsFiniteSet(Pids) /\ Pids = 1 .. Cardinality(Pids) /\ proc \in [Pids -> ProcRecs]
    /\ lockFile \in [LockPorts -> LockRecs]
    /\ due \in [Apps -> SUBSET Pids] /\ slain \in BOOLEAN

\* A lock names an engine of its port and the instance that started it.
LocksNameEngines == \A port \in LockPorts : lockFile[port] # NoLock =>
    LET p == lockFile[port].pid IN
    p \in Pids /\ proc[p].app = lockFile[port].app /\ proc[p].port = port

\* Only an instance that runs has a task or a launch under way, and only one
\* that has run has engines.
InstancesRun ==
    /\ \A p \in Pids : app[proc[p].app] # "off"
    /\ \A a \in Apps : app[a] = "up" \/ (task[a] = Resting /\ call[a] = NoCall)

\* What a reaper holds between its steps is the lock of an engine whose
\* instance is gone, and at the kill no other process has its pid.
ReaperHolds(a) ==
    LET t == task[a] IN
    /\ t.pc \in {"image", "kill", "drop"} =>
          /\ t.lock.pid \in Pids /\ t.port \in LockPorts \ t.todo
          /\ proc[t.lock.pid].port = t.port /\ app[proc[t.lock.pid].app] = "gone"
    /\ t.pc = "kill" => proc[t.lock.pid].st # "foreign"
    /\ t.pc = "drop" => ~Managed(t.lock.pid)
    /\ t.pc = "probe" => t.port \in LockPorts

\* The same of a launch that reclaims its port, and the engine that a launch
\* has started is its own.
LaunchHolds(a) ==
    LET c == call[a] IN
    /\ c.pc # "rest" => c.port \in LockPorts
    /\ c.pc \in {"lock", "kill", "assign", "write"} => c.pid \in Pids
    /\ c.pc = "kill" => proc[c.pid].st # "foreign" /\ app[proc[c.pid].app] = "gone"
    /\ c.pc \in {"assign", "write"} => proc[c.pid].app = a /\ proc[c.pid].port = c.port

\* An orphan the reaper still has to end is the one its port's lock names, and
\* the reaper will come to the port or is just at it.
Ahead(a, p) ==
    /\ app[proc[p].app] = "gone"
    /\ app[a] = "up" /\ Managed(p) =>
          /\ lockFile[proc[p].port].pid = p
          /\ \/ task[a].pc \in {"reap", "image", "kill", "drop"} /\ proc[p].port \in task[a].todo
             \/ task[a].pc \in {"image", "kill"} /\ task[a].lock.pid = p

LocksInd ==
    /\ LockTypes /\ OnlyOrphansAreKilled
    /\ LocksNameEngines /\ InstancesRun
    /\ \A a \in Apps : ReaperHolds(a) /\ LaunchHolds(a) /\ \A p \in due[a] : Ahead(a, p)

\* The records the steps build are of their type, and what they read out of them.
LEMMA LockBuilds ==
    /\ Resting \in TaskRecs /\ NoCall \in LaunchRecs /\ NoLock \in LockRecs
    /\ \A pc \in {"image", "probe"}, port \in LockPorts, lock \in LockRecs, todo \in SUBSET LockPorts :
          [pc |-> pc, port |-> port, lock |-> lock, todo |-> todo] \in TaskRecs
    /\ \A pc \in {"spawn", "look"}, port \in LockPorts : [pc |-> pc, port |-> port, pid |-> 0] \in LaunchRecs
    /\ \A t \in TaskRecs : t.port \in Ports0 /\ t.lock \in LockRecs /\ t.todo \in SUBSET LockPorts
    /\ \A c \in LaunchRecs : c.port \in Ports0 /\ c.pid \in Nat
BY DEF Resting, NoCall, NoLock, NoPort, TaskRecs, LaunchRecs, LockRecs, Ports0

LEMMA LocksAre ==
    ASSUME NEW k \in LockRecs
    PROVE  k.pid \in Nat /\ (k # NoLock => k.pid # 0 /\ k.app \in Apps)
BY DEF LockRecs, NoLock

LEMMA TaskBuilds ==
    ASSUME NEW t \in TaskRecs, NEW pc \in {"kill", "drop"}
    PROVE  LET r == [t EXCEPT !.pc = pc] IN
           r \in TaskRecs /\ r.pc = pc /\ r.port = t.port /\ r.lock = t.lock /\ r.todo = t.todo
BY DEF TaskRecs

LEMMA PassBuilds ==
    ASSUME NEW pc \in {"reap", "sweep"}, NEW todo \in SUBSET LockPorts
    PROVE  LET r == [Resting EXCEPT !.pc = pc, !.todo = todo] IN
           r \in TaskRecs /\ r.pc = pc /\ r.todo = todo
BY DEF TaskRecs, Resting, NoLock, LockRecs, NoPort, Ports0

LEMMA LaunchBuilds ==
    ASSUME NEW c \in LaunchRecs, NEW pid \in Nat,
           NEW pc \in {"lock", "kill", "free", "spawn", "assign", "write"}
    PROVE  /\ [c EXCEPT !.pc = pc, !.pid = pid] \in LaunchRecs
           /\ [c EXCEPT !.pc = pc, !.pid = pid].pc = pc
           /\ [c EXCEPT !.pc = pc, !.pid = pid].pid = pid
           /\ [c EXCEPT !.pc = pc, !.pid = pid].port = c.port
BY DEF LaunchRecs

LEMMA ProcBuilds ==
    /\ \A r \in ProcRecs : /\ r.app \in Apps /\ r.port \in LockPorts /\ r.st \in {"loading", "listening", "dead", "foreign"}
                            /\ r.job \in BOOLEAN
    /\ \A r \in ProcRecs, st \in {"loading", "listening", "dead", "foreign"} :
          /\ [r EXCEPT !.st = st] \in ProcRecs /\ [r EXCEPT !.st = st].app = r.app
          /\ [r EXCEPT !.st = st].port = r.port /\ [r EXCEPT !.st = st].st = st
    /\ \A r \in ProcRecs, held \in BOOLEAN :
          /\ [r EXCEPT !.job = held] \in ProcRecs /\ [r EXCEPT !.job = held].app = r.app
          /\ [r EXCEPT !.job = held].port = r.port /\ [r EXCEPT !.job = held].st = r.st
    /\ \A a \in Apps, port \in LockPorts : [app |-> a, port |-> port, st |-> "loading", job |-> FALSE] \in ProcRecs
BY DEF ProcRecs

\* Next1 moves the task of one instance: on to the next file, to the sweep when
\* the reaper has seen all files, to rest when the sweep has.
LEMMA NextFile ==
    ASSUME task \in [Apps -> TaskRecs], NEW a \in Apps, NEW port, NEW pc \in {"reap", "sweep"}, NEW todo \in SUBSET LockPorts,
           Next1(a, port, pc, todo)
    PROVE  /\ task' \in [Apps -> TaskRecs] /\ \A b \in Apps \ {a} : task'[b] = task[b]
           /\ task'[a].pc \in {"reap", "sweep", "rest"} /\ (task'[a].pc = "rest" => task'[a] = Resting)
           /\ pc = "reap" => IF todo = {} THEN task'[a].pc = "sweep" ELSE task'[a].pc = "reap" /\ task'[a].todo = todo
<1>1. CASE todo # {}
  <2> DEFINE r == [Resting EXCEPT !.pc = pc, !.todo = todo]
  <2>1. task' = [task EXCEPT ![a] = r]
    BY <1>1 DEF Next1
  <2>2. r \in TaskRecs /\ r.pc = pc /\ r.todo = todo
    BY PassBuilds
  <2> HIDE DEF r
  <2> QED
    BY <1>1, <2>1, <2>2
<1>2. CASE todo = {} /\ pc = "reap"
  <2> DEFINE r == [Resting EXCEPT !.pc = "sweep", !.todo = LockPorts]
  <2>1. task' = [task EXCEPT ![a] = r]
    BY <1>2 DEF Next1
  <2>2. r \in TaskRecs /\ r.pc = "sweep"
    BY PassBuilds
  <2> HIDE DEF r
  <2> QED
    BY <1>2, <2>1, <2>2
<1>3. CASE todo = {} /\ pc # "reap"
  BY <1>3, LockBuilds DEF Next1, Resting
<1> QED
  BY <1>1, <1>2, <1>3

\* A step that ends processes keeps what they are and gives none back.
ProcsAge ==
    /\ Pids' = Pids /\ proc' \in [Pids -> ProcRecs]
    /\ \A p \in Pids : /\ proc'[p].app = proc[p].app /\ proc'[p].port = proc[p].port
                       /\ Managed(p)' => Managed(p)
LEMMA OneProcess ==
    ASSUME proc \in [Pids -> ProcRecs], NEW p \in Pids,
           NEW st \in {"loading", "listening", "dead", "foreign"}, proc' = [proc EXCEPT ![p].st = st],
           st \in {"loading", "listening"} => Managed(p)
    PROVE  ProcsAge /\ proc'[p].st = st /\ \A q \in Pids \ {p} : proc'[q] = proc[q]
<1>1. proc' = [proc EXCEPT ![p] = [proc[p] EXCEPT !.st = st]]
  BY DEF Pids
<1>2. [proc[p] EXCEPT !.st = st] \in ProcRecs
  BY ProcBuilds
<1>3. /\ Pids' = Pids /\ proc' \in [Pids -> ProcRecs]
      /\ \A q \in Pids \ {p} : proc'[q] = proc[q]
      /\ proc'[p] = [proc[p] EXCEPT !.st = st]
  BY <1>1, <1>2 DEF Pids
<1>4. /\ proc'[p].app = proc[p].app /\ proc'[p].port = proc[p].port /\ proc'[p].st = st
  BY <1>3, ProcBuilds
<1>5. \A q \in Pids : Managed(q)' => Managed(q)
  BY <1>3, <1>4 DEF Managed, Alive
<1> QED
  BY <1>3, <1>4, <1>5 DEF ProcsAge

LEMMA Killed ==
    ASSUME LockTypes, NEW p \in Pids, KillPid(p)
    PROVE  /\ ProcsAge /\ ~Managed(p)' /\ \A q \in Pids : proc'[q].st = "foreign" => proc[q].st = "foreign"
           /\ Managed(p) /\ app[proc[p].app] = "gone" => slain' = slain
           /\ ~Alive(p) => slain' = slain
BY OneProcess DEF KillPid, LockTypes, Managed, Alive, Orphans, Pids

\* SetLock writes one lock, and takes the engine the file named from the duty of
\* all reapers but the one that wrote.
LEMMA LockSet ==
    ASSUME LockTypes, NEW port \in LockPorts, NEW lock \in LockRecs, NEW by, SetLock(port, lock, by)
    PROVE  /\ lockFile' \in [LockPorts -> LockRecs] /\ lockFile' = [lockFile EXCEPT ![port] = lock]
           /\ due' \in [Apps -> SUBSET Pids]
           /\ \A a \in Apps : due'[a] \subseteq due[a]
           /\ \A a \in Apps : a # by =>
                 \A p \in due'[a], q \in LockPorts : lockFile[q].pid = p => lockFile'[q] = lockFile[q]
           /\ by \in Apps => due'[by] = due[by]
<1>1. lockFile' \in [LockPorts -> LockRecs] /\ lockFile' = [lockFile EXCEPT ![port] = lock]
  BY DEF SetLock, LockTypes
<1>2. \A a \in Apps : due'[a] = IF a = by \/ lockFile[port] = lock THEN due[a] ELSE due[a] \ {lockFile[port].pid}
  BY DEF SetLock
<1>3. due' = [a \in Apps |-> IF a = by \/ lockFile[port] = lock THEN due[a] ELSE due[a] \ {lockFile[port].pid}]
  BY DEF SetLock
<1>4. due' \in [Apps -> SUBSET Pids]
  BY <1>3 DEF LockTypes
<1> QED
  BY <1>1, <1>2, <1>4 DEF LockTypes

\* What a step leaves alone stays true of an instance, when instances that are
\* gone stay gone and processes only age.
Calm ==
    /\ ProcsAge
    /\ \A a \in Apps : app[a] = "gone" => app'[a] = "gone"
LEMMA ReaperCalm ==
    ASSUME LockTypes, Calm, NEW a \in Apps, ReaperHolds(a), task'[a] = task[a],
           task[a].pc = "kill" /\ proc'[task[a].lock.pid].st = "foreign" => proc[task[a].lock.pid].st = "foreign"
    PROVE  ReaperHolds(a)'
<1>1. \A p \in Pids : proc[p].app \in Apps
  BY ProcBuilds DEF LockTypes
<1>2. \A p \in Pids : ~Managed(p) => ~Managed(p)'
  BY DEF Calm, ProcsAge
<1> QED
  BY <1>1, <1>2 DEF Calm, ProcsAge, ReaperHolds

LEMMA LaunchCalm ==
    ASSUME LockTypes, Calm, NEW a \in Apps, LaunchHolds(a), call'[a] = call[a],
           call[a].pc = "kill" /\ proc'[call[a].pid].st = "foreign" => proc[call[a].pid].st = "foreign"
    PROVE  LaunchHolds(a)'
<1>1. \A p \in Pids : proc[p].app \in Apps
  BY ProcBuilds DEF LockTypes
<1> QED
  BY <1>1 DEF Calm, ProcsAge, LaunchHolds

LEMMA DutyCalm ==
    ASSUME LockTypes, Calm, NEW a \in Apps, NEW p \in Pids, Ahead(a, p), task'[a] = task[a],
           app'[a] = "up" => app[a] = "up",
           lockFile[proc[p].port].pid = p => lockFile'[proc[p].port].pid = p
    PROVE  Ahead(a, p)'
<1>1. proc[p].app \in Apps
  BY ProcBuilds DEF LockTypes
<1> QED
  BY <1>1 DEF Calm, ProcsAge, Ahead

LEMMA NamesCalm ==
    ASSUME LockTypes, ProcsAge, LocksNameEngines,
           \A port \in LockPorts : lockFile'[port] \in {NoLock, lockFile[port]}
    PROVE  LocksNameEngines'
BY DEF LocksNameEngines, ProcsAge

LEMMA RunCalm ==
    ASSUME LockTypes, ProcsAge, InstancesRun, app' = app, NEW a, a \in Apps => app[a] = "up",
           \A b \in Apps \ {a} : task'[b] = task[b] /\ call'[b] = call[b]
    PROVE  InstancesRun'
<1>1. \A p \in Pids : app'[proc'[p].app] # "off"
  BY DEF InstancesRun, ProcsAge
<1>2. \A b \in Apps : app'[b] = "up" \/ (task'[b] = Resting /\ call'[b] = NoCall)
  BY DEF InstancesRun
<1> QED
  BY <1>1, <1>2 DEF InstancesRun, ProcsAge

\* A step that at most deletes locks.
LocksFade(by) ==
    /\ lockFile' \in [LockPorts -> LockRecs] /\ due' \in [Apps -> SUBSET Pids]
    /\ \A q \in LockPorts : lockFile'[q] \in {NoLock, lockFile[q]}
    /\ \A b \in Apps : /\ due'[b] \subseteq due[b]
                       /\ b # by => \A p \in due'[b], q \in LockPorts :
                                        lockFile[q].pid = p => lockFile'[q] = lockFile[q]
LEMMA LockDeleted ==
    ASSUME LockTypes, NEW port \in LockPorts, NEW by, DeleteLock(port, by)
    PROVE  LocksFade(by) /\ \A q \in LockPorts \ {port} : lockFile'[q] = lockFile[q]
BY LockSet, LockBuilds DEF DeleteLock, LocksFade, LockTypes
LEMMA LockKept ==
    ASSUME LockTypes, UNCHANGED lockFile, \A b \in Apps : due'[b] \subseteq due[b],
           due' \in [Apps -> SUBSET Pids], NEW by
    PROVE  LocksFade(by)
BY DEF LocksFade, LockTypes

LEMMA DutyFades ==
    ASSUME LockTypes, Calm, NEW a \in Apps, \A p \in due[a] : Ahead(a, p), task'[a] = task[a],
           app'[a] = "up" => app[a] = "up", NEW by, by # a, LocksFade(by)
    PROVE  \A p \in due'[a] : Ahead(a, p)'
<1> TAKE p \in due'[a]
<1>1. p \in due[a] /\ p \in Pids
  BY DEF LocksFade, LockTypes
<1>2. lockFile[proc[p].port].pid = p => lockFile'[proc[p].port].pid = p
  BY <1>1, ProcBuilds DEF LocksFade, LockTypes
<1> QED
  BY <1>1, <1>2, DutyCalm

LEMMA PidsCount == LockTypes => Cardinality(Pids) \in Nat /\ \A p \in Pids : p \in Nat /\ p # 0
BY FS_CardinalityType DEF LockTypes

\* To and GiveUpLaunch move the launch of one instance.
LEMMA Moved ==
    ASSUME call \in [Apps -> LaunchRecs], NEW a \in Apps, NEW pid \in Nat,
           NEW pc \in {"lock", "kill", "free", "spawn", "assign", "write"}, To(a, pc, pid)
    PROVE  /\ call' \in [Apps -> LaunchRecs] /\ \A b \in Apps \ {a} : call'[b] = call[b]
           /\ call'[a].pc = pc /\ call'[a].pid = pid /\ call'[a].port = call[a].port
<1> DEFINE r == [call[a] EXCEPT !.pc = pc, !.pid = pid]
<1>1. call' = [call EXCEPT ![a] = r]
  BY DEF To
<1>2. r \in LaunchRecs /\ r.pc = pc /\ r.pid = pid /\ r.port = call[a].port
  BY DEF LaunchRecs
<1> HIDE DEF r
<1> QED
  BY <1>1, <1>2
LEMMA GaveUp ==
    ASSUME call \in [Apps -> LaunchRecs], NEW a \in Apps, GiveUpLaunch(a)
    PROVE  /\ call' \in [Apps -> LaunchRecs] /\ \A b \in Apps \ {a} : call'[b] = call[b]
           /\ call'[a] = NoCall
BY LockBuilds DEF GiveUpLaunch

LEMMA SameProcs == LockTypes /\ proc' = proc => ProcsAge
BY DEF ProcsAge, LockTypes, Pids, Managed, Alive

\* Who has a task or a launch under way runs, and does not rest.
LEMMA Busy ==
    ASSUME InstancesRun, NEW a \in Apps
    PROVE  (task[a].pc # "rest" \/ call[a].pc # "rest") => app[a] = "up"
BY DEF InstancesRun, Resting, NoCall

\* Every step keeps the invariant.
LEMMA LocksStep == LocksInd /\ [LocksNext]_lockVars => LocksInd'
<1> SUFFICES ASSUME LocksInd, [LocksNext]_lockVars PROVE LocksInd'
  OBVIOUS
<1> USE DEF LocksInd
<1>1. ASSUME NEW a \in Apps, AppStarts(a)
      PROVE  LocksInd'
  <2>1. PICK r \in TaskRecs : task' = [task EXCEPT ![a] = r] /\ r.pc = "reap" /\ r.todo = LockPorts
    BY <1>1, PassBuilds DEF AppStarts
  <2>2. call[a] = NoCall
    BY <1>1 DEF AppStarts, InstancesRun
  <2>3. ProcsAge
    BY <1>1, SameProcs DEF AppStarts
  <2>4. Calm
    BY <1>1, <2>3 DEF AppStarts, Calm, LockTypes
  <2>5. LockTypes'
    BY <1>1, <2>1, <2>3 DEF AppStarts, LockTypes, ProcsAge, Orphans, Managed, Alive
  <2>6. LocksNameEngines'
    BY <1>1, <2>3, NamesCalm DEF AppStarts
  <2>7. InstancesRun'
    BY <1>1, <2>2, <2>3 DEF AppStarts, InstancesRun, ProcsAge, LockTypes, Pids
  <2>8. \A b \in Apps : ReaperHolds(b)'
    BY <1>1, <2>1, <2>4, ReaperCalm DEF AppStarts, LockTypes, ReaperHolds
  <2>9. \A b \in Apps : LaunchHolds(b)'
    BY <1>1, <2>4, LaunchCalm DEF AppStarts
  <2>10. \A b \in Apps : \A q \in due'[b] : Ahead(b, q)'
    <3>1. ASSUME NEW b \in Apps, b # a, NEW q \in due'[b]
          PROVE  Ahead(b, q)'
      <4>1. q \in Pids /\ due'[b] = due[b] /\ Ahead(b, q)
        BY <1>1, <3>1 DEF AppStarts, LockTypes
      <4>2. task'[b] = task[b] /\ app'[b] = app[b] /\ lockFile' = lockFile
        BY <1>1, <3>1 DEF AppStarts, LockTypes
      <4> QED
        BY <2>4, <4>1, <4>2, DutyCalm
    <3>2. ASSUME NEW q \in due'[a]
          PROVE  Ahead(a, q)'
      <4>1. q \in Orphans /\ lockFile[proc[q].port].pid = q
        BY <1>1, <3>2 DEF AppStarts, LockTypes
      <4>2. q \in Pids /\ app[proc[q].app] = "gone" /\ proc[q].app \in Apps /\ proc[q].port \in LockPorts
        BY <4>1, ProcBuilds DEF Orphans, LockTypes
      <4>3. app'[proc[q].app] = "gone" /\ proc' = proc /\ lockFile' = lockFile
        BY <1>1, <2>4, <4>2 DEF AppStarts, Calm
      <4>4. task'[a].pc = "reap" /\ proc[q].port \in task'[a].todo
        BY <2>1, <4>2 DEF LockTypes
      <4> QED
        BY <4>1, <4>3, <4>4 DEF Ahead
    <3> QED
      BY <3>1, <3>2
  <2>11. ~slain'
    BY <1>1 DEF AppStarts, OnlyOrphansAreKilled
  <2> QED
    BY <2>5, <2>6, <2>7, <2>8, <2>9, <2>10, <2>11 DEF OnlyOrphansAreKilled
<1>2. ASSUME NEW a \in Apps, AppCrashes(a)
      PROVE  LocksInd'
  <2>1. ProcsAge /\ \A p \in Pids : proc'[p].st = "foreign" => proc[p].st = "foreign"
    BY <1>2, ProcBuilds DEF AppCrashes, ProcsAge, LockTypes, Pids, Managed, Alive
  <2>2. Calm
    BY <1>2, <2>1 DEF AppCrashes, Calm, LockTypes
  <2>3. LockTypes'
    BY <1>2, <2>1, LockBuilds DEF AppCrashes, LockTypes, ProcsAge
  <2>4. LocksNameEngines'
    BY <1>2, <2>1, NamesCalm DEF AppCrashes
  <2>5. InstancesRun'
    BY <1>2, <2>1, ProcBuilds DEF AppCrashes, InstancesRun, ProcsAge, LockTypes
  <2>6. \A b \in Apps : ReaperHolds(b)'
    BY <1>2, <2>1, <2>2, ReaperCalm DEF AppCrashes, LockTypes, ReaperHolds, Resting
  <2>7. \A b \in Apps : LaunchHolds(b)'
    BY <1>2, <2>1, <2>2, LaunchCalm DEF AppCrashes, LockTypes, LaunchHolds, NoCall
  <2>8. \A b \in Apps : \A q \in due'[b] : Ahead(b, q)'
    BY <1>2, <2>2, DutyCalm DEF AppCrashes, LockTypes
  <2>9. ~slain'
    BY <1>2 DEF AppCrashes, OnlyOrphansAreKilled
  <2> QED
    BY <2>3, <2>4, <2>5, <2>6, <2>7, <2>8, <2>9 DEF OnlyOrphansAreKilled
<1>3. ASSUME NEW a \in Apps, SweepProbe(a)
      PROVE  LocksInd'
  <2>1. task[a].port \in LockPorts /\ task[a].todo \in SUBSET LockPorts /\ task[a].pc = "probe"
    BY <1>3, LockBuilds DEF SweepProbe, ReaperHolds, LockTypes
  <2>2. /\ task' \in [Apps -> TaskRecs] /\ \A b \in Apps \ {a} : task'[b] = task[b]
        /\ task'[a].pc \in {"reap", "sweep", "rest"}
    BY <1>3, <2>1, NextFile DEF SweepProbe, LockTypes
  <2>3. LocksFade(0)
    BY <1>3, <2>1, LockDeleted, LockKept DEF SweepProbe, LockTypes
  <2>4. ProcsAge
    BY <1>3, SameProcs DEF SweepProbe
  <2>5. Calm
    BY <1>3, <2>4 DEF SweepProbe, Calm
  <2>6. LockTypes'
    BY <1>3, <2>2, <2>3, <2>4 DEF SweepProbe, LockTypes, ProcsAge, LocksFade
  <2>7. LocksNameEngines'
    BY <2>3, <2>4, NamesCalm DEF LocksFade
  <2>8. InstancesRun'
    BY <1>3, <2>1, <2>2, <2>4, RunCalm, Busy DEF SweepProbe
  <2>9. \A b \in Apps : ReaperHolds(b)'
    <3>1. ReaperHolds(a)'
      BY <2>2 DEF ReaperHolds, Managed, Alive
    <3>2. \A b \in Apps \ {a} : ReaperHolds(b)'
      BY <1>3, <2>2, <2>5, ReaperCalm DEF SweepProbe
    <3> QED
      BY <3>1, <3>2
  <2>10. \A b \in Apps : LaunchHolds(b)'
    BY <1>3, <2>5, LaunchCalm DEF SweepProbe
  <2>11. \A b \in Apps : \A q \in due'[b] : Ahead(b, q)'
    <3>1. \A q \in due'[a] : Ahead(a, q)'
      BY <1>3, <2>1, <2>3, <2>4 DEF SweepProbe, Ahead, LocksFade, ProcsAge, LockTypes
    <3>2. \A b \in Apps \ {a} : \A q \in due'[b] : Ahead(b, q)'
      BY <1>3, <2>2, <2>3, <2>5, DutyFades, PortLocksAssumption DEF SweepProbe
    <3> QED
      BY <3>1, <3>2
  <2>12. ~slain'
    BY <1>3 DEF SweepProbe, OnlyOrphansAreKilled
  <2> QED
    BY <2>6, <2>7, <2>8, <2>9, <2>10, <2>11, <2>12 DEF OnlyOrphansAreKilled
<1>4. ASSUME NEW a \in Apps, NEW port \in LockPorts, SweepRead(a, port)
      PROVE  LocksInd'
  <2>1. task[a].todo \in SUBSET LockPorts /\ task[a].pc = "sweep"
    BY <1>4, LockBuilds DEF SweepRead, LockTypes
  <2>2. PICK rest \in SUBSET LockPorts : rest = task[a].todo \ {port}
    BY <2>1
  <2>3. /\ task' \in [Apps -> TaskRecs] /\ \A b \in Apps \ {a} : task'[b] = task[b]
        /\ task'[a].pc \in {"reap", "sweep", "rest", "probe"} /\ (task'[a].pc = "probe" => task'[a].port = port)
    <3>1. CASE Next1(a, port, "sweep", rest)
      BY <3>1, NextFile DEF LockTypes
    <3>2. CASE task' = [task EXCEPT ![a] = [pc |-> "probe", port |-> port, lock |-> lockFile[port], todo |-> rest]]
      BY <3>2, LockBuilds DEF LockTypes
    <3> QED
      BY <1>4, <2>2, <3>1, <3>2 DEF SweepRead
  <2>4. ProcsAge
    BY <1>4, SameProcs DEF SweepRead
  <2>5. Calm
    BY <1>4, <2>4 DEF SweepRead, Calm
  <2>6. LockTypes'
    BY <1>4, <2>3, <2>4 DEF SweepRead, LockTypes, ProcsAge
  <2>7. LocksNameEngines'
    BY <1>4, <2>4, NamesCalm DEF SweepRead
  <2>8. InstancesRun'
    BY <1>4, <2>1, <2>3, <2>4, RunCalm, Busy DEF SweepRead
  <2>9. \A b \in Apps : ReaperHolds(b)'
    <3>1. ReaperHolds(a)'
      BY <2>3 DEF ReaperHolds, Managed, Alive
    <3>2. \A b \in Apps \ {a} : ReaperHolds(b)'
      BY <1>4, <2>3, <2>5, ReaperCalm DEF SweepRead
    <3> QED
      BY <3>1, <3>2
  <2>10. \A b \in Apps : LaunchHolds(b)'
    BY <1>4, <2>5, LaunchCalm DEF SweepRead
  <2>11. \A b \in Apps : \A q \in due'[b] : Ahead(b, q)'
    <3>1. \A q \in due'[a] : Ahead(a, q)'
      BY <1>4, <2>1, <2>4 DEF SweepRead, Ahead, ProcsAge, LockTypes
    <3>2. \A b \in Apps \ {a} : \A q \in due'[b] : Ahead(b, q)'
      BY <1>4, <2>3, <2>5, DutyCalm DEF SweepRead, LockTypes
    <3> QED
      BY <3>1, <3>2
  <2>12. ~slain'
    BY <1>4 DEF SweepRead, OnlyOrphansAreKilled
  <2> QED
    BY <2>6, <2>7, <2>8, <2>9, <2>10, <2>11, <2>12 DEF OnlyOrphansAreKilled
<1>5. ASSUME NEW a \in Apps, NEW port \in LockPorts, ReapRead(a, port)
      PROVE  LocksInd'
  <2>1. task[a].todo \in SUBSET LockPorts /\ task[a].pc = "reap"
    BY <1>5, LockBuilds DEF ReapRead, LockTypes
  <2>2. PICK rest \in SUBSET LockPorts : rest = task[a].todo \ {port}
    BY <2>1
  <2>3. LocksFade(a)
    BY <1>5, <2>1, LockDeleted, LockKept DEF ReapRead, LockTypes
  <2>4. /\ task' \in [Apps -> TaskRecs] /\ \A b \in Apps \ {a} : task'[b] = task[b]
        /\ task'[a].pc \in {"reap", "sweep", "rest", "image"}
        /\ task'[a].pc \in {"reap", "image"} => task'[a].todo = rest
        /\ rest # {} => task'[a].pc \in {"reap", "image"}
        /\ task'[a].pc = "image" => task'[a].port = port /\ task'[a].lock = lockFile[port] /\ app[lockFile[port].app] # "up" /\ lockFile[port] # NoLock
    <3>1. CASE Next1(a, port, "reap", rest)
      BY <3>1, NextFile DEF LockTypes
    <3>2. CASE /\ task' = [task EXCEPT ![a] = [pc |-> "image", port |-> port, lock |-> lockFile[port], todo |-> rest]]
               /\ app[lockFile[port].app] # "up" /\ lockFile[port] # NoLock
      BY <3>2, <2>2, LockBuilds DEF LockTypes
    <3> QED
      BY <1>5, <2>2, <3>1, <3>2 DEF ReapRead
  <2>5. ProcsAge
    BY <1>5, SameProcs DEF ReapRead
  <2>6. Calm
    BY <1>5, <2>5 DEF ReapRead, Calm
  <2>7. LockTypes'
    BY <1>5, <2>4, <2>3, <2>5 DEF ReapRead, LockTypes, ProcsAge, LocksFade
  <2>8. LocksNameEngines'
    BY <2>3, <2>5, NamesCalm DEF LocksFade
  <2>9. InstancesRun'
    BY <1>5, <2>1, <2>4, <2>5, RunCalm, Busy DEF ReapRead
  <2>10. \A b \in Apps : ReaperHolds(b)'
    <3>1. ReaperHolds(a)'
      BY <1>5, <2>4, <2>2, <2>1, <2>5, LocksAre DEF ReapRead, ReaperHolds, LocksNameEngines, InstancesRun, LockTypes, ProcsAge
    <3>2. \A b \in Apps \ {a} : ReaperHolds(b)'
      BY <1>5, <2>4, <2>6, ReaperCalm DEF ReapRead
    <3> QED
      BY <3>1, <3>2
  <2>11. \A b \in Apps : LaunchHolds(b)'
    BY <1>5, <2>6, LaunchCalm DEF ReapRead
  <2>12. \A b \in Apps : \A q \in due'[b] : Ahead(b, q)'
    <3>1. \A q \in due'[a] : Ahead(a, q)'
      <4> TAKE p \in due'[a]
      <4>1. p \in Pids /\ p # 0 /\ Ahead(a, p) /\ proc[p].port \in LockPorts
        BY <2>3, ProcBuilds, PidsCount DEF LocksFade, LockTypes
      <4>2. /\ app'[proc'[p].app] = "gone" /\ app[a] = "up" /\ proc'[p].port = proc[p].port
            /\ Managed(p)' => Managed(p)
        BY <1>5, <2>5, <4>1 DEF ReapRead, Ahead, ProcsAge
      <4>3. CASE proc[p].port # port
        <5>1. lockFile'[proc[p].port] = lockFile[proc[p].port]
          BY <1>5, <4>1, <4>3, LockDeleted DEF ReapRead
        <5>2. proc[p].port \in task[a].todo => proc[p].port \in rest
          BY <2>2, <4>3
        <5> QED
          BY <2>1, <2>4, <4>1, <4>2, <4>3, <5>1, <5>2 DEF Ahead
      <4>4. CASE proc[p].port = port /\ Managed(p)
        <5>1. lockFile[port].pid = p /\ lockFile[port] # NoLock
          BY <2>1, <4>1, <4>2, <4>4 DEF Ahead, NoLock
        <5>2. app[lockFile[port].app] # "up"
          BY <4>1, <5>1 DEF LocksNameEngines, Ahead
        <5>3. Alive(lockFile[port].pid)
          BY <4>4, <5>1 DEF Managed
        <5>4. task'[a].pc = "image" /\ task'[a].lock.pid = p /\ lockFile' = lockFile
          BY <1>5, <5>1, <5>2, <5>3, LockBuilds DEF ReapRead, LockTypes
        <5> QED
          BY <4>2, <4>4, <5>1, <5>4 DEF Ahead
      <4> QED
        BY <4>2, <4>3, <4>4 DEF Ahead
    <3>2. \A b \in Apps \ {a} : \A q \in due'[b] : Ahead(b, q)'
      BY <1>5, <2>4, <2>3, <2>6, DutyFades DEF ReapRead
    <3> QED
      BY <3>1, <3>2
  <2>13. ~slain'
    BY <1>5 DEF ReapRead, OnlyOrphansAreKilled
  <2> QED
    BY <2>7, <2>8, <2>9, <2>10, <2>11, <2>12, <2>13 DEF OnlyOrphansAreKilled
<1>6. ASSUME NEW a \in Apps, ReapImage(a)
      PROVE  LocksInd'
  <2>1. /\ task[a].pc = "image" /\ task[a].todo \in SUBSET LockPorts /\ task[a].port \in LockPorts /\ task[a].port \notin task[a].todo
        /\ task[a].lock.pid \in Pids /\ proc[task[a].lock.pid].port = task[a].port /\ app[a] = "up"
    BY <1>6, LockBuilds, Busy DEF ReapImage, ReaperHolds, LockTypes
  <2>2. /\ task' \in [Apps -> TaskRecs] /\ \A b \in Apps \ {a} : task'[b] = task[b]
        /\ task'[a].pc \in {"reap", "sweep", "kill"}
        /\ task'[a].pc = "reap" => task'[a].todo = task[a].todo
        /\ task[a].todo # {} => task'[a].pc # "sweep"
        /\ task'[a].pc = "kill" => task'[a] = [task[a] EXCEPT !.pc = "kill"] /\ Managed(task[a].lock.pid) /\ UNCHANGED <<lockFile, due>>
    <3>1. CASE Skip(a)
      BY <3>1, <2>1, NextFile DEF Skip, LockTypes
    <3>2. CASE task' = [task EXCEPT ![a].pc = "kill"] /\ Managed(task[a].lock.pid) /\ UNCHANGED <<lockFile, due>>
      BY <3>2, <2>1, TaskBuilds DEF LockTypes
    <3> QED
      BY <1>6, <3>1, <3>2 DEF ReapImage
  <2>3. LocksFade(a)
    BY <1>6, <2>1, LockDeleted, LockKept DEF ReapImage, LockTypes
  <2>4. ProcsAge
    BY <1>6, SameProcs DEF ReapImage
  <2>5. Calm
    BY <1>6, <2>4 DEF ReapImage, Calm
  <2>6. LockTypes'
    BY <1>6, <2>2, <2>3, <2>4 DEF ReapImage, LockTypes, ProcsAge, LocksFade
  <2>7. LocksNameEngines'
    BY <2>3, <2>4, NamesCalm DEF LocksFade
  <2>8. InstancesRun'
    BY <1>6, <2>1, <2>2, <2>4, RunCalm, Busy DEF ReapImage
  <2>9. \A b \in Apps : ReaperHolds(b)'
    <3>1. ReaperHolds(a)'
      <4>1. CASE task'[a].pc = "kill"
        <5>0. task'[a] = [task[a] EXCEPT !.pc = "kill"] /\ task[a] \in TaskRecs
          BY <2>2, <4>1 DEF LockTypes
        <5>1. task'[a].lock = task[a].lock /\ task'[a].port = task[a].port /\ task'[a].todo = task[a].todo
          BY <5>0, TaskBuilds
        <5>2. proc' = proc /\ app' = app /\ proc[task[a].lock.pid].st # "foreign"
          BY <1>6, <2>2, <4>1 DEF ReapImage, Managed
        <5>3. app[proc[task[a].lock.pid].app] = "gone"
          BY <1>6 DEF ReapImage, ReaperHolds
        <5> QED
          BY <2>1, <4>1, <5>1, <5>2, <5>3 DEF ReaperHolds, Pids
      <4>2. CASE task'[a].pc # "kill"
        BY <2>2, <4>2 DEF ReaperHolds, Managed, Alive
      <4> QED
        BY <4>1, <4>2
    <3>2. \A b \in Apps \ {a} : ReaperHolds(b)'
      BY <1>6, <2>2, <2>5, ReaperCalm DEF ReapImage
    <3> QED
      BY <3>1, <3>2
  <2>10. \A b \in Apps : LaunchHolds(b)'
    BY <1>6, <2>5, LaunchCalm DEF ReapImage
  <2>11. \A b \in Apps : \A q \in due'[b] : Ahead(b, q)'
    <3>1. \A q \in due'[a] : Ahead(a, q)'
      <4> TAKE p \in due'[a]
      <4>1. p \in due[a] /\ p \in Pids /\ Ahead(a, p) /\ proc[p].port \in LockPorts
        BY <2>3, ProcBuilds DEF LocksFade, LockTypes
      <4>2. CASE task'[a].pc = "kill"
        <5>1. task'[a].lock = task[a].lock /\ task'[a].todo = task[a].todo /\ lockFile' = lockFile
          BY <2>2, <4>2, TaskBuilds DEF LockTypes
        <5> QED
          BY <1>6, <2>1, <2>4, <4>1, <4>2, <5>1 DEF ReapImage, Ahead, ProcsAge
      <4>3. CASE task'[a].pc # "kill" /\ p = task[a].lock.pid
        <5>1. ~Managed(p) \/ p \notin due'[a]
          <6>1. CASE task' = [task EXCEPT ![a].pc = "kill"]
            BY <4>3, <6>1, TaskBuilds DEF LockTypes
          <6>2. CASE ~Managed(task[a].lock.pid)
            BY <4>3, <6>2
          <6>3. CASE due' = [due EXCEPT ![a] = @ \ {task[a].lock.pid}]
            BY <4>3, <6>3 DEF LockTypes
          <6> QED
            BY <1>6, <6>1, <6>2, <6>3 DEF ReapImage
        <5> QED
          BY <1>6, <2>4, <4>1, <5>1 DEF ReapImage, Ahead, ProcsAge
      <4>4. CASE task'[a].pc # "kill" /\ p # task[a].lock.pid
        <5>1. Managed(p) => proc[p].port \in task[a].todo /\ lockFile[proc[p].port].pid = p
          BY <2>1, <4>1, <4>4 DEF Ahead
        <5>2. Managed(p) => lockFile'[proc[p].port] = lockFile[proc[p].port]
          BY <1>6, <2>1, <4>1, <5>1, LockDeleted DEF ReapImage
        <5> QED
          BY <1>6, <2>1, <2>2, <2>4, <4>1, <4>4, <5>1, <5>2 DEF ReapImage, Ahead, ProcsAge
      <4> QED
        BY <4>2, <4>3, <4>4
    <3>2. \A b \in Apps \ {a} : \A q \in due'[b] : Ahead(b, q)'
      BY <1>6, <2>2, <2>3, <2>5, DutyFades DEF ReapImage
    <3> QED
      BY <3>1, <3>2
  <2>12. ~slain'
    BY <1>6 DEF ReapImage, OnlyOrphansAreKilled
  <2> QED
    BY <2>6, <2>7, <2>8, <2>9, <2>10, <2>11, <2>12 DEF OnlyOrphansAreKilled
<1>7. ASSUME NEW a \in Apps, ReapDrop(a)
      PROVE  LocksInd'
  <2>1. /\ task[a].pc = "drop" /\ task[a].todo \in SUBSET LockPorts /\ task[a].port \in LockPorts /\ task[a].port \notin task[a].todo
        /\ task[a].lock.pid \in Pids /\ proc[task[a].lock.pid].port = task[a].port /\ app[a] = "up"
    BY <1>7, LockBuilds, Busy DEF ReapDrop, ReaperHolds, LockTypes
  <2>2. /\ task' \in [Apps -> TaskRecs] /\ \A b \in Apps \ {a} : task'[b] = task[b]
        /\ task'[a].pc \in {"reap", "sweep"}
        /\ task'[a].pc = "reap" => task'[a].todo = task[a].todo
        /\ task[a].todo # {} => task'[a].pc # "sweep"
    BY <1>7, <2>1, NextFile DEF ReapDrop, Skip, LockTypes
  <2>3. LocksFade(a)
    BY <1>7, <2>1, LockDeleted DEF ReapDrop
  <2>4. ProcsAge
    BY <1>7, SameProcs DEF ReapDrop
  <2>5. Calm
    BY <1>7, <2>4 DEF ReapDrop, Calm
  <2>6. LockTypes'
    BY <1>7, <2>2, <2>3, <2>4 DEF ReapDrop, LockTypes, ProcsAge, LocksFade
  <2>7. LocksNameEngines'
    BY <2>3, <2>4, NamesCalm DEF LocksFade
  <2>8. InstancesRun'
    BY <1>7, <2>1, <2>2, <2>4, RunCalm, Busy DEF ReapDrop
  <2>9. \A b \in Apps : ReaperHolds(b)'
    <3>1. ReaperHolds(a)'
      BY <2>2 DEF ReaperHolds, Managed, Alive
    <3>2. \A b \in Apps \ {a} : ReaperHolds(b)'
      BY <1>7, <2>2, <2>5, ReaperCalm DEF ReapDrop
    <3> QED
      BY <3>1, <3>2
  <2>10. \A b \in Apps : LaunchHolds(b)'
    BY <1>7, <2>5, LaunchCalm DEF ReapDrop
  <2>11. \A b \in Apps : \A q \in due'[b] : Ahead(b, q)'
    <3>1. \A q \in due'[a] : Ahead(a, q)'
      <4> TAKE p \in due'[a]
      <4>1. p \in due[a] /\ p \in Pids /\ Ahead(a, p) /\ proc[p].port \in LockPorts
        BY <2>3, ProcBuilds DEF LocksFade, LockTypes
      <4>2. Managed(p) => proc[p].port \in task[a].todo /\ lockFile[proc[p].port].pid = p
        BY <2>1, <4>1 DEF Ahead
      <4>3. Managed(p) => lockFile'[proc[p].port] = lockFile[proc[p].port]
        BY <1>7, <2>1, <4>1, <4>2, LockDeleted DEF ReapDrop
      <4> QED
        BY <1>7, <2>1, <2>2, <2>4, <4>1, <4>2, <4>3 DEF ReapDrop, Ahead, ProcsAge
    <3>2. \A b \in Apps \ {a} : \A q \in due'[b] : Ahead(b, q)'
      BY <1>7, <2>2, <2>3, <2>5, DutyFades DEF ReapDrop
    <3> QED
      BY <3>1, <3>2
  <2>12. ~slain'
    BY <1>7 DEF ReapDrop, OnlyOrphansAreKilled
  <2> QED
    BY <2>6, <2>7, <2>8, <2>9, <2>10, <2>11, <2>12 DEF OnlyOrphansAreKilled
<1>8. ASSUME NEW a \in Apps, ReapKill(a)
      PROVE  LocksInd'
  <2>1. /\ task[a].pc = "kill" /\ task[a].todo \in SUBSET LockPorts /\ task[a].port \in LockPorts /\ task[a].port \notin task[a].todo
        /\ task[a].lock.pid \in Pids /\ proc[task[a].lock.pid].port = task[a].port /\ app[a] = "up"
    BY <1>8, LockBuilds, Busy DEF ReapKill, ReaperHolds, LockTypes
  <2>2. /\ task' \in [Apps -> TaskRecs] /\ \A b \in Apps \ {a} : task'[b] = task[b]
        /\ task'[a].pc \in {"reap", "sweep", "drop"}
        /\ task'[a].pc = "reap" => task'[a].todo = task[a].todo
        /\ task[a].todo # {} => task'[a].pc # "sweep"
        /\ task'[a].pc = "drop" => task'[a] = [task[a] EXCEPT !.pc = "drop"] /\ KillPid(task[a].lock.pid)
        /\ task'[a].pc # "drop" => UNCHANGED <<proc, slain>>
    <3>1. CASE Skip(a) /\ UNCHANGED <<proc, slain>>
      BY <3>1, <2>1, NextFile DEF Skip, LockTypes
    <3>2. CASE task' = [task EXCEPT ![a].pc = "drop"] /\ KillPid(task[a].lock.pid)
      BY <3>2, <2>1, TaskBuilds DEF LockTypes
    <3> QED
      BY <1>8, <3>1, <3>2 DEF ReapKill
  <2>3. LocksFade(a)
    BY <1>8, LockKept DEF ReapKill, LockTypes
  <2>4. ProcsAge /\ \A q \in Pids : proc'[q].st = "foreign" => proc[q].st = "foreign"
    BY <1>8, <2>1, Killed, SameProcs DEF ReapKill
  <2>5. Calm
    BY <1>8, <2>4 DEF ReapKill, Calm
  <2>6. LockTypes'
    BY <1>8, <2>2, <2>3, <2>4 DEF ReapKill, LockTypes, ProcsAge, LocksFade, KillPid
  <2>7. LocksNameEngines'
    BY <2>3, <2>4, NamesCalm DEF LocksFade
  <2>8. InstancesRun'
    BY <1>8, <2>1, <2>2, <2>4, RunCalm, Busy DEF ReapKill
  <2>9. \A b \in Apps : ReaperHolds(b)'
    <3>1. ReaperHolds(a)'
      <4>1. CASE task'[a].pc = "drop"
        <5>0. PICK p \in Pids : p = task[a].lock.pid
          BY <2>1
        <5>1. ~Managed(p)'
          BY <2>2, <4>1, <5>0, Killed
        <5>2. task'[a].lock = task[a].lock /\ task'[a].port = task[a].port /\ task'[a].todo = task[a].todo
          <6>1. task[a] \in TaskRecs
            BY DEF LockTypes
          <6>2. task'[a] = [task[a] EXCEPT !.pc = "drop"]
            BY <2>2, <4>1
          <6> QED
            BY <6>1, <6>2, TaskBuilds
        <5>3. app'[proc'[task[a].lock.pid].app] = "gone"
          BY <1>8, <2>1, <2>4 DEF ReapKill, ReaperHolds, ProcsAge
        <5> QED
          BY <2>1, <2>4, <4>1, <5>0, <5>1, <5>2, <5>3 DEF ReaperHolds, ProcsAge
      <4>2. CASE task'[a].pc # "drop"
        BY <2>2, <4>2 DEF ReaperHolds, Managed, Alive
      <4> QED
        BY <4>1, <4>2
    <3>2. \A b \in Apps \ {a} : ReaperHolds(b)'
      BY <1>8, <2>2, <2>5, <2>4, ReaperCalm DEF ReapKill, ReaperHolds
    <3> QED
      BY <3>1, <3>2
  <2>10. \A b \in Apps : LaunchHolds(b)'
    BY <1>8, <2>5, <2>4, LaunchCalm DEF ReapKill, LaunchHolds
  <2>11. \A b \in Apps : \A q \in due'[b] : Ahead(b, q)'
    <3>1. \A q \in due'[a] : Ahead(a, q)'
      <4> TAKE p \in due'[a]
      <4>1. p \in due[a] /\ p \in Pids /\ Ahead(a, p) /\ proc[p].port \in LockPorts
        BY <2>3, ProcBuilds DEF LocksFade, LockTypes
      <4>2. Managed(p)' => p # task[a].lock.pid
        BY <1>8, <2>1, <2>2, <4>1, Killed DEF ReapKill, LockTypes
      <4>3. Managed(p)' => proc[p].port \in task[a].todo /\ lockFile[proc[p].port].pid = p
        BY <2>1, <2>4, <4>1, <4>2 DEF Ahead, ProcsAge
      <4>4. task[a].todo # {} => task'[a].pc \in {"reap", "drop"} /\ task'[a].todo = task[a].todo
        BY <2>1, <2>2, TaskBuilds DEF LockTypes
      <4> QED
        BY <1>8, <2>1, <2>4, <4>1, <4>3, <4>4 DEF ReapKill, Ahead, ProcsAge
    <3>2. \A b \in Apps \ {a} : \A q \in due'[b] : Ahead(b, q)'
      BY <1>8, <2>2, <2>3, <2>5, DutyFades DEF ReapKill
    <3> QED
      BY <3>1, <3>2
  <2>12. ~slain'
    BY <1>8, <2>1, <2>2, Killed DEF ReapKill, ReaperHolds, OnlyOrphansAreKilled, Managed
  <2> QED
    BY <2>6, <2>7, <2>8, <2>9, <2>10, <2>11, <2>12 DEF OnlyOrphansAreKilled
<1>9. ASSUME NEW a \in Apps, LaunchLook(a)
      PROVE  LocksInd'
  <2>1. /\ call[a].pc = "look" /\ call[a] \in LaunchRecs /\ call[a].port \in LockPorts /\ app[a] = "up"
    BY <1>9, Busy DEF LaunchLook, LaunchHolds, LockTypes
  <2>2. /\ call' \in [Apps -> LaunchRecs] /\ \A b \in Apps \ {a} : call'[b] = call[b]
        /\ \/ call'[a] = NoCall
           \/ call'[a].port = call[a].port /\ call'[a].pc = "lock" /\ call'[a].pid \in Pids
    <3>1. CASE GiveUpLaunch(a)
      BY <3>1, GaveUp DEF LockTypes
    <3>2. CASE \E p \in Pids : To(a, "lock", p)
      BY <3>2, <2>1, Moved, PidsCount DEF LockTypes
    <3> QED
      BY <1>9, <3>1, <3>2 DEF LaunchLook, Listeners
  <2>3. ProcsAge
    BY <1>9, SameProcs DEF LaunchLook
  <2>4. Calm
    BY <1>9, <2>3 DEF LaunchLook, Calm
  <2>5. LockTypes'
    BY <1>9, <2>2, <2>3 DEF LaunchLook, LockTypes, ProcsAge
  <2>6. LocksNameEngines'
    BY <1>9, <2>3, NamesCalm DEF LaunchLook
  <2>7. InstancesRun'
    BY <1>9, <2>1, <2>2, <2>3, RunCalm DEF LaunchLook
  <2>8. \A b \in Apps : ReaperHolds(b)'
    BY <1>9, <2>4, ReaperCalm DEF LaunchLook
  <2>9. \A b \in Apps : LaunchHolds(b)'
    <3>1. LaunchHolds(a)'
      BY <2>1, <2>2, <2>3 DEF LaunchHolds, NoCall, ProcsAge
    <3>2. \A b \in Apps \ {a} : LaunchHolds(b)'
      BY <1>9, <2>2, <2>4, LaunchCalm DEF LaunchLook
    <3> QED
      BY <3>1, <3>2
  <2>10. \A b \in Apps : \A q \in due'[b] : Ahead(b, q)'
    BY <1>9, <2>4, DutyCalm DEF LaunchLook, LockTypes
  <2>11. ~slain'
    BY <1>9 DEF LaunchLook, OnlyOrphansAreKilled
  <2> QED
    BY <2>5, <2>6, <2>7, <2>8, <2>9, <2>10, <2>11 DEF OnlyOrphansAreKilled
<1>10. ASSUME NEW a \in Apps, LaunchDecide(a)
      PROVE  LocksInd'
  <2>1. /\ call[a].pc = "lock" /\ call[a] \in LaunchRecs /\ call[a].port \in LockPorts /\ app[a] = "up" /\ call[a].pid \in Pids
    BY <1>10, Busy DEF LaunchDecide, LaunchHolds, LockTypes
  <2>2. /\ call' \in [Apps -> LaunchRecs] /\ \A b \in Apps \ {a} : call'[b] = call[b]
        /\ \/ call'[a] = NoCall
           \/ call'[a].port = call[a].port /\ call'[a].pc = "kill" /\ call'[a].pid = call[a].pid /\ lockFile[call[a].port].pid = call[a].pid
              /\ app[lockFile[call[a].port].app] # "up" /\ Managed(call[a].pid)
    <3>1. CASE GiveUpLaunch(a)
      BY <3>1, GaveUp DEF LockTypes
    <3>2. CASE /\ To(a, "kill", call[a].pid) /\ lockFile[call[a].port].pid = call[a].pid
               /\ app[lockFile[call[a].port].app] # "up" /\ Managed(call[a].pid)
      BY <3>2, <2>1, Moved, PidsCount DEF LockTypes
    <3> QED
      BY <1>10, <3>1, <3>2 DEF LaunchDecide
  <2>3. ProcsAge
    BY <1>10, SameProcs DEF LaunchDecide
  <2>4. Calm
    BY <1>10, <2>3 DEF LaunchDecide, Calm
  <2>5. LockTypes'
    BY <1>10, <2>2, <2>3 DEF LaunchDecide, LockTypes, ProcsAge
  <2>6. LocksNameEngines'
    BY <1>10, <2>3, NamesCalm DEF LaunchDecide
  <2>7. InstancesRun'
    BY <1>10, <2>1, <2>2, <2>3, RunCalm DEF LaunchDecide
  <2>8. \A b \in Apps : ReaperHolds(b)'
    BY <1>10, <2>4, ReaperCalm DEF LaunchDecide
  <2>9. \A b \in Apps : LaunchHolds(b)'
    <3>1. LaunchHolds(a)'
      <4>1. CASE call'[a] = NoCall
        BY <4>1 DEF LaunchHolds, NoCall
      <4>2. CASE call'[a] # NoCall
        <5>1. lockFile[call[a].port] # NoLock
          BY <2>1, <2>2, <4>2, PidsCount DEF NoLock
        <5>2. app[proc[call[a].pid].app] = "gone"
          BY <2>1, <2>2, <4>2, <5>1, LocksAre DEF LocksNameEngines, InstancesRun, LockTypes
        <5> QED
          BY <1>10, <2>1, <2>2, <4>2, <5>2 DEF LaunchDecide, LaunchHolds, Managed, Pids
      <4> QED
        BY <4>1, <4>2
    <3>2. \A b \in Apps \ {a} : LaunchHolds(b)'
      BY <1>10, <2>2, <2>4, LaunchCalm DEF LaunchDecide
    <3> QED
      BY <3>1, <3>2
  <2>10. \A b \in Apps : \A q \in due'[b] : Ahead(b, q)'
    BY <1>10, <2>4, DutyCalm DEF LaunchDecide, LockTypes
  <2>11. ~slain'
    BY <1>10 DEF LaunchDecide, OnlyOrphansAreKilled
  <2> QED
    BY <2>5, <2>6, <2>7, <2>8, <2>9, <2>10, <2>11 DEF OnlyOrphansAreKilled
<1>11. ASSUME NEW a \in Apps, LaunchKill(a)
      PROVE  LocksInd'
  <2>1. /\ call[a].pc = "kill" /\ call[a] \in LaunchRecs /\ call[a].port \in LockPorts /\ app[a] = "up" /\ call[a].pid \in Pids
    BY <1>11, Busy DEF LaunchKill, LaunchHolds, LockTypes
  <2>2. /\ call' \in [Apps -> LaunchRecs] /\ \A b \in Apps \ {a} : call'[b] = call[b]
        /\ \/ call'[a] = NoCall
           \/ call'[a].port = call[a].port /\ call'[a].pc = "free"
        /\ KillPid(call[a].pid) \/ UNCHANGED <<proc, slain>>
    <3>1. CASE GiveUpLaunch(a) /\ UNCHANGED <<proc, slain>>
      BY <3>1, GaveUp DEF LockTypes
    <3>2. CASE To(a, "free", 0) /\ KillPid(call[a].pid)
      BY <3>2, <2>1, Moved DEF LockTypes
    <3> QED
      BY <1>11, <3>1, <3>2 DEF LaunchKill
  <2>3. ProcsAge /\ \A q \in Pids : proc'[q].st = "foreign" => proc[q].st = "foreign"
    BY <2>1, <2>2, Killed, SameProcs
  <2>4. Calm
    BY <1>11, <2>3 DEF LaunchKill, Calm
  <2>5. LockTypes'
    BY <1>11, <2>2, <2>3 DEF LaunchKill, LockTypes, ProcsAge, KillPid
  <2>6. LocksNameEngines'
    BY <1>11, <2>3, NamesCalm DEF LaunchKill
  <2>7. InstancesRun'
    BY <1>11, <2>1, <2>2, <2>3, RunCalm DEF LaunchKill
  <2>8. \A b \in Apps : ReaperHolds(b)'
    BY <1>11, <2>3, <2>4, ReaperCalm DEF LaunchKill, ReaperHolds
  <2>9. \A b \in Apps : LaunchHolds(b)'
    <3>1. LaunchHolds(a)'
      BY <2>1, <2>2, <2>3 DEF LaunchHolds, NoCall, ProcsAge
    <3>2. \A b \in Apps \ {a} : LaunchHolds(b)'
      BY <1>11, <2>2, <2>3, <2>4, LaunchCalm DEF LaunchKill, LaunchHolds
    <3> QED
      BY <3>1, <3>2
  <2>10. \A b \in Apps : \A q \in due'[b] : Ahead(b, q)'
    BY <1>11, <2>4, DutyCalm DEF LaunchKill, LockTypes
  <2>11. ~slain'
    BY <1>11, <2>1, <2>2, Killed DEF LaunchKill, LaunchHolds, OnlyOrphansAreKilled, Managed
  <2> QED
    BY <2>5, <2>6, <2>7, <2>8, <2>9, <2>10, <2>11 DEF OnlyOrphansAreKilled
<1>12. ASSUME NEW a \in Apps, LaunchFree(a)
      PROVE  LocksInd'
  <2>1. /\ call[a].pc = "free" /\ call[a] \in LaunchRecs /\ call[a].port \in LockPorts /\ app[a] = "up"
    BY <1>12, Busy DEF LaunchFree, LaunchHolds, LockTypes
  <2>2. /\ call' \in [Apps -> LaunchRecs] /\ \A b \in Apps \ {a} : call'[b] = call[b]
        /\ \/ call'[a] = NoCall
           \/ call'[a].port = call[a].port /\ call'[a].pc = "spawn"
    BY <1>12, <2>1, Moved, GaveUp DEF LaunchFree, LockTypes
  <2>3. LocksFade(0)
    BY <1>12, <2>1, LockDeleted, LockKept DEF LaunchFree, LockTypes
  <2>4. ProcsAge
    BY <1>12, SameProcs DEF LaunchFree
  <2>5. Calm
    BY <1>12, <2>4 DEF LaunchFree, Calm
  <2>6. LockTypes'
    BY <1>12, <2>2, <2>3, <2>4 DEF LaunchFree, LockTypes, ProcsAge, LocksFade
  <2>7. LocksNameEngines'
    BY <2>3, <2>4, NamesCalm DEF LocksFade
  <2>8. InstancesRun'
    BY <1>12, <2>1, <2>2, <2>4, RunCalm DEF LaunchFree
  <2>9. \A b \in Apps : ReaperHolds(b)'
    BY <1>12, <2>5, ReaperCalm DEF LaunchFree
  <2>10. \A b \in Apps : LaunchHolds(b)'
    <3>1. LaunchHolds(a)'
      BY <2>1, <2>2, <2>4 DEF LaunchHolds, NoCall, ProcsAge
    <3>2. \A b \in Apps \ {a} : LaunchHolds(b)'
      BY <1>12, <2>2, <2>5, LaunchCalm DEF LaunchFree
    <3> QED
      BY <3>1, <3>2
  <2>11. \A b \in Apps : \A q \in due'[b] : Ahead(b, q)'
    BY <1>12, <2>3, <2>5, DutyFades, PortLocksAssumption DEF LaunchFree
  <2>12. ~slain'
    BY <1>12 DEF LaunchFree, OnlyOrphansAreKilled
  <2> QED
    BY <2>6, <2>7, <2>8, <2>9, <2>10, <2>11, <2>12 DEF OnlyOrphansAreKilled
<1>13. ASSUME NEW a \in Apps, NEW port \in LockPorts, LaunchProbe(a, port)
      PROVE  LocksInd'
  <2>1. /\ call' \in [Apps -> LaunchRecs] /\ \A b \in Apps \ {a} : call'[b] = call[b]
        /\ call'[a].pc \in {"spawn", "look"} /\ call'[a].port = port /\ app[a] = "up"
    <3> PICK pc \in {"spawn", "look"} : call' = [call EXCEPT ![a] = [pc |-> pc, port |-> port, pid |-> 0]]
      BY <1>13 DEF LaunchProbe
    <3>1. [pc |-> pc, port |-> port, pid |-> 0] \in LaunchRecs
      BY LockBuilds
    <3> QED
      BY <1>13, <3>1 DEF LaunchProbe, LockTypes
  <2>2. LocksFade(0)
    BY <1>13, LockDeleted, LockKept DEF LaunchProbe, LockTypes
  <2>3. ProcsAge
    BY <1>13, SameProcs DEF LaunchProbe
  <2>4. Calm
    BY <1>13, <2>3 DEF LaunchProbe, Calm
  <2>5. LockTypes'
    BY <1>13, <2>1, <2>2, <2>3 DEF LaunchProbe, LockTypes, ProcsAge, LocksFade
  <2>6. LocksNameEngines'
    BY <2>2, <2>3, NamesCalm DEF LocksFade
  <2>7. InstancesRun'
    BY <1>13, <2>1, <2>3, RunCalm DEF LaunchProbe
  <2>8. \A b \in Apps : ReaperHolds(b)'
    BY <1>13, <2>4, ReaperCalm DEF LaunchProbe
  <2>9. \A b \in Apps : LaunchHolds(b)'
    <3>1. LaunchHolds(a)'
      BY <2>1, <2>3 DEF LaunchHolds, NoCall, ProcsAge
    <3>2. \A b \in Apps \ {a} : LaunchHolds(b)'
      BY <1>13, <2>1, <2>4, LaunchCalm DEF LaunchProbe
    <3> QED
      BY <3>1, <3>2
  <2>10. \A b \in Apps : \A q \in due'[b] : Ahead(b, q)'
    BY <1>13, <2>2, <2>4, DutyFades, PortLocksAssumption DEF LaunchProbe
  <2>11. ~slain'
    BY <1>13 DEF LaunchProbe, OnlyOrphansAreKilled
  <2> QED
    BY <2>5, <2>6, <2>7, <2>8, <2>9, <2>10, <2>11 DEF OnlyOrphansAreKilled
<1>14. ASSUME NEW a \in Apps, LaunchAssign(a)
      PROVE  LocksInd'
  <2>1. /\ call[a].pc = "assign" /\ call[a] \in LaunchRecs /\ call[a].port \in LockPorts /\ app[a] = "up" /\ call[a].pid \in Pids /\ proc[call[a].pid].app = a /\ proc[call[a].pid].port = call[a].port
    BY <1>14, Busy DEF LaunchAssign, LaunchHolds, LockTypes
  <2>2. /\ call' \in [Apps -> LaunchRecs] /\ \A b \in Apps \ {a} : call'[b] = call[b]
        /\ call'[a].pc = "write" /\ call'[a].port = call[a].port /\ call'[a].pid = call[a].pid
    BY <1>14, <2>1, Moved, PidsCount DEF LaunchAssign, LockTypes
  <2>3. PICK done \in BOOLEAN : proc' = [proc EXCEPT ![call[a].pid] = [proc[call[a].pid] EXCEPT !.job = done]]
    BY <1>14, <2>1 DEF LaunchAssign
  <2>4. /\ Pids' = Pids /\ proc' \in [Pids -> ProcRecs] /\ proc \in [Pids -> ProcRecs]
        /\ \A q \in Pids : proc'[q].app = proc[q].app /\ proc'[q].port = proc[q].port /\ proc'[q].st = proc[q].st
    BY <2>1, <2>3, ProcBuilds DEF LockTypes, Pids
  <2>5. ProcsAge /\ \A q \in Pids : proc'[q].st = "foreign" => proc[q].st = "foreign"
    BY <2>4 DEF ProcsAge, Managed, Alive
  <2>6. Calm
    BY <1>14, <2>5 DEF LaunchAssign, Calm
  <2>7. LockTypes'
    BY <1>14, <2>2, <2>5 DEF LaunchAssign, LockTypes, ProcsAge
  <2>8. LocksNameEngines'
    BY <1>14, <2>5, NamesCalm DEF LaunchAssign
  <2>9. InstancesRun'
    BY <1>14, <2>1, <2>2, <2>5, RunCalm DEF LaunchAssign
  <2>10. \A b \in Apps : ReaperHolds(b)'
    BY <1>14, <2>5, <2>6, ReaperCalm DEF LaunchAssign, ReaperHolds
  <2>11. \A b \in Apps : LaunchHolds(b)'
    <3>1. LaunchHolds(a)'
      BY <2>1, <2>2, <2>5 DEF LaunchHolds, NoCall, ProcsAge
    <3>2. \A b \in Apps \ {a} : LaunchHolds(b)'
      BY <1>14, <2>2, <2>5, <2>6, LaunchCalm DEF LaunchAssign, LaunchHolds
    <3> QED
      BY <3>1, <3>2
  <2>12. \A b \in Apps : \A q \in due'[b] : Ahead(b, q)'
    BY <1>14, <2>6, DutyCalm DEF LaunchAssign, LockTypes
  <2>13. ~slain'
    BY <1>14 DEF LaunchAssign, OnlyOrphansAreKilled
  <2> QED
    BY <2>7, <2>8, <2>9, <2>10, <2>11, <2>12, <2>13 DEF OnlyOrphansAreKilled
<1>15. ASSUME NEW a \in Apps, LaunchWrite(a)
      PROVE  LocksInd'
  <2>1. /\ call[a].pc = "write" /\ call[a] \in LaunchRecs /\ call[a].port \in LockPorts /\ app[a] = "up" /\ call[a].pid \in Pids /\ proc[call[a].pid].app = a /\ proc[call[a].pid].port = call[a].port
    BY <1>15, Busy DEF LaunchWrite, LaunchHolds, LockTypes
  <2>2. /\ call' \in [Apps -> LaunchRecs] /\ \A b \in Apps \ {a} : call'[b] = call[b]
        /\ call'[a] = NoCall
    BY <1>15, GaveUp DEF LaunchWrite, LockTypes
  <2>3. PICK lock \in LockRecs : lock = [pid |-> call[a].pid, app |-> a]
    BY <2>1, PidsCount DEF LockRecs
  <2>4. /\ lockFile' \in [LockPorts -> LockRecs] /\ lockFile' = [lockFile EXCEPT ![call[a].port] = lock] /\ due' \in [Apps -> SUBSET Pids]
        /\ \A b \in Apps : due'[b] \subseteq due[b]
        /\ \A b \in Apps : \A p \in due'[b], q \in LockPorts : lockFile[q].pid = p => lockFile'[q] = lockFile[q]
    BY <1>15, <2>1, <2>3, LockSet, PortLocksAssumption DEF LaunchWrite
  <2>5. ProcsAge
    BY <1>15, SameProcs DEF LaunchWrite
  <2>6. Calm
    BY <1>15, <2>5 DEF LaunchWrite, Calm
  <2>7. LockTypes'
    BY <1>15, <2>2, <2>4, <2>5 DEF LaunchWrite, LockTypes, ProcsAge
  <2>8. LocksNameEngines'
    BY <1>15, <2>1, <2>3, <2>4, <2>5 DEF LaunchWrite, LocksNameEngines, Pids, LockTypes
  <2>9. InstancesRun'
    BY <1>15, <2>1, <2>2, <2>5, RunCalm DEF LaunchWrite
  <2>10. \A b \in Apps : ReaperHolds(b)'
    BY <1>15, <2>6, ReaperCalm DEF LaunchWrite
  <2>11. \A b \in Apps : LaunchHolds(b)'
    <3>1. LaunchHolds(a)'
      BY <2>2 DEF LaunchHolds, NoCall
    <3>2. \A b \in Apps \ {a} : LaunchHolds(b)'
      BY <1>15, <2>2, <2>6, LaunchCalm DEF LaunchWrite
    <3> QED
      BY <3>1, <3>2
  <2>12. \A b \in Apps : \A q \in due'[b] : Ahead(b, q)'
    <3> TAKE b \in Apps
    <3> TAKE p \in due'[b]
    <3>1. p \in due[b] /\ p \in Pids /\ proc[p].port \in LockPorts
      BY <2>4, ProcBuilds DEF LockTypes
    <3>2. lockFile[proc[p].port].pid = p => lockFile'[proc[p].port] = lockFile[proc[p].port]
      BY <2>4, <3>1
    <3> QED
      BY <1>15, <2>6, <3>1, <3>2, DutyCalm DEF LaunchWrite
  <2>13. ~slain'
    BY <1>15 DEF LaunchWrite, OnlyOrphansAreKilled
  <2> QED
    BY <2>7, <2>8, <2>9, <2>10, <2>11, <2>12, <2>13 DEF OnlyOrphansAreKilled
<1>16. ASSUME NEW p \in 1 .. MaxPids, EngineListens(p)
      PROVE  LocksInd'
  <2>1. PICK st \in {"listening", "dead"} : proc' = [proc EXCEPT ![p].st = st] /\ Managed(p) /\ p \in Pids
    BY <1>16 DEF EngineListens, Managed, Alive
  <2>2. ProcsAge /\ \A q \in Pids : proc'[q].st = "foreign" => proc[q].st = "foreign"
    BY <2>1, OneProcess DEF LockTypes
  <2>3. Calm
    BY <1>16, <2>2 DEF EngineListens, Calm
  <2>4. LockTypes'
    BY <1>16, <2>2 DEF EngineListens, LockTypes, ProcsAge
  <2>5. LocksNameEngines'
    BY <1>16, <2>2, NamesCalm DEF EngineListens
  <2>6. InstancesRun'
    BY <1>16, <2>2 DEF EngineListens, InstancesRun, ProcsAge
  <2>7. \A b \in Apps : ReaperHolds(b)'
    BY <1>16, <2>2, <2>3, ReaperCalm DEF EngineListens, ReaperHolds
  <2>8. \A b \in Apps : LaunchHolds(b)'
    BY <1>16, <2>2, <2>3, LaunchCalm DEF EngineListens, LaunchHolds
  <2>9. \A b \in Apps : \A q \in due'[b] : Ahead(b, q)'
    BY <1>16, <2>3, DutyCalm DEF EngineListens, LockTypes
  <2>10. ~slain'
    BY <1>16 DEF EngineListens, OnlyOrphansAreKilled
  <2> QED
    BY <2>4, <2>5, <2>6, <2>7, <2>8, <2>9, <2>10 DEF OnlyOrphansAreKilled
<1>17. ASSUME NEW p \in 1 .. MaxPids, EngineDies(p)
      PROVE  LocksInd'
  <2>1. PICK st \in {"dead"} : proc' = [proc EXCEPT ![p].st = st] /\ Managed(p) /\ p \in Pids
    BY <1>17 DEF EngineDies, Managed, Alive
  <2>2. ProcsAge /\ \A q \in Pids : proc'[q].st = "foreign" => proc[q].st = "foreign"
    BY <2>1, OneProcess DEF LockTypes
  <2>3. Calm
    BY <1>17, <2>2 DEF EngineDies, Calm
  <2>4. LockTypes'
    BY <1>17, <2>2 DEF EngineDies, LockTypes, ProcsAge
  <2>5. LocksNameEngines'
    BY <1>17, <2>2, NamesCalm DEF EngineDies
  <2>6. InstancesRun'
    BY <1>17, <2>2 DEF EngineDies, InstancesRun, ProcsAge
  <2>7. \A b \in Apps : ReaperHolds(b)'
    BY <1>17, <2>2, <2>3, ReaperCalm DEF EngineDies, ReaperHolds
  <2>8. \A b \in Apps : LaunchHolds(b)'
    BY <1>17, <2>2, <2>3, LaunchCalm DEF EngineDies, LaunchHolds
  <2>9. \A b \in Apps : \A q \in due'[b] : Ahead(b, q)'
    BY <1>17, <2>3, DutyCalm DEF EngineDies, LockTypes
  <2>10. ~slain'
    BY <1>17 DEF EngineDies, OnlyOrphansAreKilled
  <2> QED
    BY <2>4, <2>5, <2>6, <2>7, <2>8, <2>9, <2>10 DEF OnlyOrphansAreKilled
<1>18. ASSUME NEW p \in 1 .. MaxPids, PidReused(p)
      PROVE  LocksInd'
  <2>1. p \in Pids /\ proc' = [proc EXCEPT ![p].st = "foreign"]
    BY <1>18 DEF PidReused
  <2>2. ProcsAge /\ \A q \in Pids \ {p} : proc'[q].st = "foreign" => proc[q].st = "foreign"
    BY <2>1, OneProcess DEF LockTypes
  <2>3. Calm
    BY <1>18, <2>2 DEF PidReused, Calm
  <2>4. LockTypes'
    BY <1>18, <2>2 DEF PidReused, LockTypes, ProcsAge
  <2>5. LocksNameEngines'
    BY <1>18, <2>2, NamesCalm DEF PidReused
  <2>6. InstancesRun'
    BY <1>18, <2>2 DEF PidReused, InstancesRun, ProcsAge
  <2>7. \A b \in Apps : ReaperHolds(b)'
    BY <1>18, <2>2, <2>3, ReaperCalm DEF PidReused, ReaperHolds
  <2>8. \A b \in Apps : LaunchHolds(b)'
    BY <1>18, <2>2, <2>3, LaunchCalm DEF PidReused, LaunchHolds
  <2>9. \A b \in Apps : \A q \in due'[b] : Ahead(b, q)'
    BY <1>18, <2>3, DutyCalm DEF PidReused, LockTypes
  <2>10. ~slain'
    BY <1>18 DEF PidReused, OnlyOrphansAreKilled
  <2> QED
    BY <2>4, <2>5, <2>6, <2>7, <2>8, <2>9, <2>10 DEF OnlyOrphansAreKilled
<1>19. ASSUME NEW a \in Apps, NEW p \in 1 .. MaxPids, StopEngine(a, p)
      PROVE  LocksInd'
  <2>1. p \in Pids /\ proc' = [proc EXCEPT ![p].st = "dead"]
    BY <1>19 DEF StopEngine, Managed, Alive
  <2>2. LocksFade(0)
    BY <1>19, <2>1, LockDeleted, ProcBuilds DEF StopEngine, LockTypes
  <2>3. ProcsAge /\ \A q \in Pids : proc'[q].st = "foreign" => proc[q].st = "foreign"
    BY <2>1, OneProcess DEF LockTypes
  <2>4. Calm
    BY <1>19, <2>3 DEF StopEngine, Calm
  <2>5. LockTypes'
    BY <1>19, <2>3, <2>2 DEF StopEngine, LockTypes, ProcsAge, LocksFade
  <2>6. LocksNameEngines'
    BY <2>2, <2>3, NamesCalm DEF LocksFade
  <2>7. InstancesRun'
    BY <1>19, <2>3 DEF StopEngine, InstancesRun, ProcsAge
  <2>8. \A b \in Apps : ReaperHolds(b)'
    BY <1>19, <2>3, <2>4, ReaperCalm DEF StopEngine, ReaperHolds
  <2>9. \A b \in Apps : LaunchHolds(b)'
    BY <1>19, <2>3, <2>4, LaunchCalm DEF StopEngine, LaunchHolds
  <2>10. \A b \in Apps : \A q \in due'[b] : Ahead(b, q)'
    BY <1>19, <2>2, <2>4, DutyFades, PortLocksAssumption DEF StopEngine
  <2>11. ~slain'
    BY <1>19 DEF StopEngine, OnlyOrphansAreKilled
  <2> QED
    BY <2>5, <2>6, <2>7, <2>8, <2>9, <2>10, <2>11 DEF OnlyOrphansAreKilled
<1>20. ASSUME NEW a \in Apps, LaunchSpawn(a)
      PROVE  LocksInd'
  <2> DEFINE p == Cardinality(Pids) + 1
  <2>1. call[a].pc = "spawn" /\ call[a] \in LaunchRecs /\ call[a].port \in LockPorts /\ app[a] = "up"
    BY <1>20, Busy DEF LaunchSpawn, LaunchHolds, LockTypes
  <2>2. p \in Nat /\ p \notin Pids /\ IsFiniteSet(Pids)
    BY PidsCount DEF LockTypes
  <2>3. /\ proc' = [q \in Pids \cup {p} |-> IF q = p THEN [app |-> a, port |-> call[a].port, st |-> "loading", job |-> FALSE]
                                          ELSE proc[q]]
        /\ To(a, "assign", p)
    BY <1>20 DEF LaunchSpawn
  <2> HIDE DEF p
  <2>4. /\ call' \in [Apps -> LaunchRecs] /\ \A b \in Apps \ {a} : call'[b] = call[b]
        /\ call'[a].pc = "assign" /\ call'[a].pid = p /\ call'[a].port = call[a].port
    BY <2>2, <2>3, Moved DEF LockTypes
  <2>5. /\ Pids' = Pids \cup {p} /\ proc' \in [Pids' -> ProcRecs]
        /\ \A q \in Pids : proc'[q] = proc[q]
        /\ proc'[p].app = a /\ proc'[p].port = call[a].port
    <3>1. [app |-> a, port |-> call[a].port, st |-> "loading", job |-> FALSE] \in ProcRecs
      BY <2>1, ProcBuilds
    <3> QED
      BY <2>2, <2>3, <3>1 DEF LockTypes, Pids
  <2>6. IsFiniteSet(Pids') /\ Pids' = 1 .. Cardinality(Pids')
    <3>1. IsFiniteSet(Pids \cup {p}) /\ Cardinality(Pids \cup {p}) = p
      BY <2>2, FS_AddElement DEF p
    <3>2. Pids \cup {p} = 1 .. p
      BY PidsCount DEF p, LockTypes
    <3> QED
      BY <2>5, <3>1, <3>2
  <2>7. LockTypes'
    BY <1>20, <2>4, <2>5, <2>6 DEF LaunchSpawn, LockTypes
  <2>8. LocksNameEngines'
    BY <1>20, <2>5 DEF LaunchSpawn, LocksNameEngines
  <2>9. InstancesRun'
    BY <1>20, <2>1, <2>4, <2>5 DEF LaunchSpawn, InstancesRun
  <2>10. \A b \in Apps : ReaperHolds(b)'
    BY <1>20, <2>5 DEF LaunchSpawn, ReaperHolds, Managed, Alive
  <2>11. \A b \in Apps : LaunchHolds(b)'
    <3>1. LaunchHolds(a)'
      BY <2>1, <2>4, <2>5 DEF LaunchHolds
    <3>2. \A b \in Apps \ {a} : LaunchHolds(b)'
      BY <1>20, <2>4, <2>5 DEF LaunchSpawn, LaunchHolds
    <3> QED
      BY <3>1, <3>2
  <2>12. \A b \in Apps : \A q \in due'[b] : Ahead(b, q)'
    BY <1>20, <2>5 DEF LaunchSpawn, Ahead, LockTypes, Managed, Alive
  <2> QED
    BY <1>20, <2>7, <2>8, <2>9, <2>10, <2>11, <2>12 DEF LaunchSpawn, OnlyOrphansAreKilled
<1>21. CASE UNCHANGED lockVars
  BY <1>21 DEF lockVars, LockTypes, OnlyOrphansAreKilled, LocksNameEngines, InstancesRun, ReaperHolds,
             LaunchHolds, Ahead, Managed, Alive, Pids
<1> QED
  BY <1>1, <1>2, <1>3, <1>4, <1>5, <1>6, <1>7, <1>8, <1>9, <1>10, <1>11, <1>12, <1>13, <1>14, <1>15, <1>16, <1>17, <1>18, <1>19, <1>20, <1>21 DEF LocksNext

LEMMA LocksStart == LocksInit => LocksInd
<1> SUFFICES ASSUME LocksInit PROVE LocksInd
  OBVIOUS
<1>1. Pids = {} /\ proc = <<>>
  BY DEF LocksInit, Pids
<1>2. IsFiniteSet(Pids) /\ Pids = 1 .. Cardinality(Pids)
  BY <1>1, FS_EmptySet
<1>3. LockTypes
  <2>1. proc \in [Pids -> ProcRecs]
    BY <1>1
  <2>2. task \in [Apps -> TaskRecs] /\ call \in [Apps -> LaunchRecs]
    BY LockBuilds DEF LocksInit
  <2>3. lockFile \in [LockPorts -> LockRecs]
    BY LockBuilds DEF LocksInit
  <2>4. due \in [Apps -> SUBSET Pids] /\ app \in [Apps -> {"off", "up", "gone"}] /\ slain \in BOOLEAN
    BY DEF LocksInit
  <2> QED
    BY <1>2, <2>1, <2>2, <2>3, <2>4 DEF LockTypes
<1> QED
  BY <1>1, <1>3 DEF LocksInit, LocksInd, OnlyOrphansAreKilled, LocksNameEngines, InstancesRun, ReaperHolds,
                    LaunchHolds, Resting, NoCall

LEMMA LocksHold == LocksInd => LocksInv
<1> SUFFICES ASSUME LocksInd PROVE LocksInv
  OBVIOUS
<1>1. LocksTypeOK
  BY ProcBuilds, PidsCount, LocksAre DEF LocksInd, LocksTypeOK, LockTypes, LocksNameEngines
<1>2. OrphansEndAtStartup
  BY DEF LocksInd, OrphansEndAtStartup, Ahead, Orphans
<1> QED
  BY <1>1, <1>2 DEF LocksInd, LocksInv

\* The reaper of an instance that starts and the launches that reclaim a port
\* kill orphans only, and when the reaper is through no orphan it had to end is
\* left, for any number of instances, ports and engines.
THEOREM PortLocksKept == LocksSpec => []LocksInv
<1>1. LocksSpec => []LocksInd
  BY LocksStart, LocksStep, PTL DEF LocksSpec
<1> QED
  BY <1>1, LocksHold, PTL

-----------------------------------------------------------------------------
(* The gateway's files and its server *)

Records  == [GwDevices -> {"new", "plain", "named", "gone"}]
Invites  == {"none", "unused", "used", "revoked"}
Snapshot == [seq : 0 .. MaxSaves, snap : Records]
Copies   == [pc : {"rest", "save", "insert"}, copy : Invites]

FileTypes ==
    /\ record \in Records /\ saves \subseteq Snapshot /\ seqNo \in 0 .. MaxSaves /\ devFile \in Snapshot
    /\ invFile \in Invites /\ pairer \in [Pairers -> Copies] /\ editor \in Copies
    /\ revoked \subseteq GwDevices /\ redeemed \in 0 .. 2
    /\ lateSave \in BOOLEAN /\ invCrossed \in BOOLEAN

\* Snapshots are numbered, and the newest is in the file or still to be written.
LatestSnap == [seq |-> seqNo, snap |-> record]
SnapshotsNumbered ==
    /\ \A s \in saves : s.seq <= seqNo /\ s.seq # devFile.seq
    /\ \A s, t \in saves : s.seq = t.seq => s = t
    /\ devFile.seq <= seqNo
LatestIsSafe == devFile = LatestSnap \/ LatestSnap \in saves
GoneIsGone ==
    /\ \A d \in revoked : record[d] = "gone"
    /\ \A s \in saves, d \in GwDevices : s.snap[d] = "gone" => record[d] = "gone"

FilesInd ==
    /\ FileTypes /\ SnapshotsNumbered
    /\ ~lateSave => LatestIsSafe /\ GoneIsGone
    /\ \A p \in Pairers : pairer[p].pc = "save" => pairer[p].copy = "unused"
    /\ InviteIsRedeemedOnce

\* A change and its snapshot: what was gone stays gone, as only a known or a
\* new device is changed.
LEMMA Changed ==
    ASSUME FilesInd, NEW new \in Records, Change(new), devFile' = devFile, revoked' = revoked,
           lateSave' = lateSave, \A d \in GwDevices : record[d] = "gone" => new[d] = "gone"
    PROVE  /\ record' \in Records /\ saves' \subseteq Snapshot /\ seqNo' \in 0 .. MaxSaves
           /\ SnapshotsNumbered' /\ (~lateSave' => LatestIsSafe' /\ GoneIsGone')
<1> DEFINE s == [seq |-> seqNo + 1, snap |-> new]
<1>1. /\ seqNo' = seqNo + 1 /\ seqNo' \in 0 .. MaxSaves /\ record' = new /\ saves' = saves \cup {s}
      /\ s \in Snapshot /\ s.seq = seqNo + 1 /\ s.snap = new /\ seqNo \in Nat /\ devFile.seq \in Nat
      /\ \A t \in saves : t.seq \in Nat
  BY GatewayStoreAssumption DEF Change, FilesInd, FileTypes, Snapshot
<1>2. LatestSnap' = s
  BY <1>1 DEF LatestSnap
<1> HIDE DEF s
<1>3. SnapshotsNumbered'
  BY <1>1 DEF FilesInd, SnapshotsNumbered
<1>4. ~lateSave' => LatestIsSafe' /\ GoneIsGone'
  BY <1>1, <1>2 DEF FilesInd, FileTypes, LatestIsSafe, GoneIsGone, Records
<1> QED
  BY <1>1, <1>3, <1>4 DEF FilesInd, FileTypes

LEMMA Saved ==
    ASSUME FilesInd, NEW s \in saves, SaveDevices(s) PROVE FilesInd'
<1> USE DEF FilesInd
<1>1. /\ s \in Snapshot /\ s.seq \in Nat /\ devFile.seq \in Nat /\ seqNo \in Nat /\ saves' = saves \ {s}
      /\ UNCHANGED <<record, seqNo, invFile, pairer, editor, redeemed, invCrossed>>
  BY GatewayStoreAssumption DEF SaveDevices, FileTypes, Snapshot
<1>2. CASE /\ devFile' = s /\ lateSave' = (lateSave \/ s.seq < devFile.seq)
           /\ revoked' = revoked \cup {d \in GwDevices : s.snap[d] = "gone"}
  <2>1. FileTypes'  BY <1>1, <1>2 DEF FileTypes
  <2>2. SnapshotsNumbered'  BY <1>1, <1>2 DEF SnapshotsNumbered
  <2>4. s.seq # devFile.seq  BY DEF SnapshotsNumbered
  <2>3. ASSUME ~lateSave' PROVE LatestIsSafe' /\ GoneIsGone'
    <3>4. ~lateSave /\ ~(s.seq < devFile.seq)  BY <1>2, <2>3
    <3>1. ~lateSave /\ s.seq > devFile.seq  BY <3>4, <1>1, <2>4
    <3>2. LatestSnap' = LatestSnap /\ LatestSnap.seq = seqNo  BY <1>1 DEF LatestSnap
    <3>3. LatestSnap \in saves  BY <1>1, <3>1, <3>2 DEF LatestIsSafe, SnapshotsNumbered
    <3> QED  BY <1>1, <1>2, <3>1, <3>2, <3>3 DEF LatestIsSafe, GoneIsGone
  <2> QED  BY <1>1, <2>1, <2>2, <2>3 DEF InviteIsRedeemedOnce
<1>3. CASE lateSave' = TRUE /\ UNCHANGED <<devFile, revoked>>
  BY <1>1, <1>3 DEF FileTypes, SnapshotsNumbered, InviteIsRedeemedOnce
<1> QED  BY <1>2, <1>3 DEF SaveDevices

LEMMA Reloaded ==
    ASSUME FilesInd, GatewayRestarts PROVE FilesInd'
<1> USE DEF FilesInd
<1> DEFINE back == [d \in GwDevices |-> IF devFile'.snap[d] = "new" /\ record[d] # "new" THEN "gone" ELSE devFile'.snap[d]]
<1>1. /\ record' = back /\ saves' = {} /\ pairer' = [p \in Pairers |-> Quiet] /\ editor' = Quiet
      /\ UNCHANGED <<seqNo, revoked, redeemed>>
  BY DEF GatewayRestarts
<1>2. /\ devFile' \in Snapshot /\ devFile'.seq <= seqNo /\ invFile' \in Invites
      /\ lateSave' \in BOOLEAN /\ invCrossed' \in BOOLEAN
      /\ ~lateSave' => ~lateSave /\ saves = {} /\ devFile' = devFile
      /\ ~invCrossed' => ~invCrossed /\ invFile' = invFile
  <2>1. [seq |-> seqNo, snap |-> [d \in GwDevices |-> IF record[d] = "new" THEN "new" ELSE "gone"]] \in Snapshot
    BY DEF FileTypes, Snapshot, Records
  <2>2. seqNo \in Nat /\ devFile.seq \in Nat  BY GatewayStoreAssumption DEF FileTypes, Snapshot
  <2>3. lateSave \in BOOLEAN /\ invCrossed \in BOOLEAN /\ devFile \in Snapshot /\ invFile \in Invites
        /\ devFile.seq <= seqNo
    BY DEF FileTypes, SnapshotsNumbered
  <2>4. CASE devFile' = devFile /\ invFile' = invFile /\ lateSave' = (lateSave \/ saves # {}) /\ UNCHANGED invCrossed
    BY <2>3, <2>4
  <2>5. CASE /\ devFile' = [seq |-> seqNo, snap |-> [d \in GwDevices |-> IF record[d] = "new" THEN "new" ELSE "gone"]]
             /\ lateSave' = TRUE /\ UNCHANGED <<invFile, invCrossed>>
    BY <2>1, <2>2, <2>3, <2>5
  <2>6. CASE invFile' = "none" /\ invCrossed' = TRUE /\ devFile' = devFile /\ lateSave' = (lateSave \/ saves # {})
    BY <2>3, <2>6 DEF Invites
  <2> QED  BY <2>4, <2>5, <2>6 DEF GatewayRestarts
<1>3. back \in Records  BY <1>2 DEF Snapshot, Records
<1>4. Quiet \in Copies /\ Quiet.pc = "rest"  BY DEF Quiet, Copies, Invites
<1>5. ASSUME ~lateSave' PROVE LatestIsSafe' /\ GoneIsGone'
  <2>1. devFile = LatestSnap /\ devFile' = devFile /\ ~lateSave  BY <1>2, <1>5 DEF LatestIsSafe
  <2>2. devFile.snap = record /\ record \in Records  BY <2>1 DEF LatestSnap, FileTypes
  <2>3. back = record  BY <2>1, <2>2 DEF Records
  <2> QED  BY <1>1, <2>1, <2>3 DEF LatestSnap, LatestIsSafe, GoneIsGone
<1> HIDE DEF back
<1>6. FileTypes'  BY <1>1, <1>2, <1>3, <1>4 DEF FileTypes
<1>7. InviteIsRedeemedOnce'  BY <1>1, <1>2 DEF InviteIsRedeemedOnce
<1>8. SnapshotsNumbered'  BY <1>1, <1>2 DEF SnapshotsNumbered
<1> QED  BY <1>1, <1>4, <1>5, <1>6, <1>7, <1>8

LEMMA FilesKept == FilesInd /\ FilesNext => FilesInd'
<1> SUFFICES ASSUME FilesInd, FilesNext PROVE FilesInd'
  OBVIOUS
<1> USE DEF FilesInd
<1>1. ASSUME NEW d \in GwDevices, NEW name \in {"plain", "named", "gone"},
             Known(d), Change([record EXCEPT ![d] = name]),
             UNCHANGED <<devFile, invFile, pairer, editor, revoked, redeemed, lateSave, invCrossed>>
      PROVE  FilesInd'
  <2>1. [record EXCEPT ![d] = name] \in Records  BY DEF FileTypes, Records
  <2>2. \A e \in GwDevices : record[e] = "gone" => [record EXCEPT ![d] = name][e] = "gone"
    BY <1>1 DEF Known, FileTypes, Records
  <2> QED  BY <1>1, <2>1, <2>2, Changed DEF FileTypes, InviteIsRedeemedOnce
<1>2. ASSUME NEW d \in GwDevices, Seen(d) PROVE FilesInd'
  BY <1>2, Changed DEF Seen, FileTypes, InviteIsRedeemedOnce
<1>3. CASE EditLoad
  <2>1. [pc |-> "save", copy |-> invFile] \in Copies  BY DEF FileTypes, Copies
  <2> QED
    BY <1>3, <2>1 DEF EditLoad, FileTypes, SnapshotsNumbered, LatestIsSafe, LatestSnap, GoneIsGone, InviteIsRedeemedOnce
<1>4. CASE EditSave
  <2>1. Quiet \in Copies  BY DEF Quiet, Copies, Invites
  <2> QED
    BY <1>4, <2>1 DEF EditSave, SaveInvites, FileTypes, Invites, SnapshotsNumbered, LatestIsSafe, LatestSnap, GoneIsGone,
       InviteIsRedeemedOnce
<1>5. ASSUME NEW p \in Pairers, RedeemLoad(p) PROVE FilesInd'
  <2>1. [pc |-> "save", copy |-> invFile] \in Copies  BY DEF FileTypes, Copies
  <2> QED
    BY <1>5, <2>1 DEF RedeemLoad, FileTypes, SnapshotsNumbered, LatestIsSafe, LatestSnap, GoneIsGone, InviteIsRedeemedOnce
<1>6. ASSUME NEW p \in Pairers, RedeemSave(p) PROVE FilesInd'
  <2>1. [pc |-> "insert", copy |-> "none"] \in Copies  BY DEF Copies, Invites
  <2>2. /\ invFile' = "used" /\ invCrossed' = (invCrossed \/ pairer[p].copy # invFile)
        /\ pairer[p].pc = "save" /\ pairer[p].copy = "unused"
        /\ redeemed' = IF redeemed = 2 THEN 2 ELSE redeemed + 1
        /\ pairer' = [pairer EXCEPT ![p] = [pc |-> "insert", copy |-> "none"]]
        /\ UNCHANGED <<record, saves, seqNo, devFile, editor, revoked, lateSave>>
    BY <1>6 DEF RedeemSave, SaveInvites
  <2>5. invCrossed' \in BOOLEAN  BY <2>2
  <2>6. redeemed' \in 0 .. 2  BY <2>2 DEF FileTypes
  <2>7. invFile' \in Invites /\ pairer' \in [Pairers -> Copies]  BY <2>1, <2>2 DEF FileTypes, Invites
  <2>3. FileTypes'  BY <2>2, <2>5, <2>6, <2>7 DEF FileTypes
  <2>4. InviteIsRedeemedOnce'
    <3>1. ~invCrossed' => ~invCrossed /\ invFile = "unused"  BY <2>2
    <3>2. ~invCrossed' => redeemed = 0  BY <3>1 DEF InviteIsRedeemedOnce, FileTypes
    <3> QED  BY <2>2, <3>2 DEF InviteIsRedeemedOnce
  <2> QED  BY <2>2, <2>3, <2>4 DEF SnapshotsNumbered, LatestIsSafe, LatestSnap, GoneIsGone, FileTypes
<1>7. ASSUME NEW p \in Pairers, PairByCode(p) PROVE FilesInd'
  <2>1. \A c \in Copies : [c EXCEPT !.pc = "insert"] \in Copies  BY DEF Copies
  <2> QED
    BY <1>7, <2>1 DEF PairByCode, FileTypes, SnapshotsNumbered, LatestIsSafe, LatestSnap, GoneIsGone, InviteIsRedeemedOnce
<1>8. ASSUME NEW p \in Pairers, NEW d \in GwDevices, Insert(p, d) PROVE FilesInd'
  <2>1. [record EXCEPT ![d] = "plain"] \in Records  BY DEF FileTypes, Records
  <2>2. \A e \in GwDevices : record[e] = "gone" => [record EXCEPT ![d] = "plain"][e] = "gone"
    BY <1>8 DEF Insert, FileTypes, Records
  <2>3. Quiet \in Copies /\ Quiet.pc = "rest"  BY DEF Quiet, Copies, Invites
  <2>4. /\ record' \in Records /\ saves' \subseteq Snapshot /\ seqNo' \in 0 .. MaxSaves
        /\ SnapshotsNumbered' /\ (~lateSave' => LatestIsSafe' /\ GoneIsGone')
    BY <1>8, <2>1, <2>2, Changed DEF Insert
  <2> QED  BY <1>8, <2>3, <2>4 DEF Insert, FileTypes, InviteIsRedeemedOnce
<1> QED
  BY <1>1, <1>2, <1>3, <1>4, <1>5, <1>6, <1>7, <1>8, Saved, Reloaded DEF FilesNext, Rename, Revoke

\* The server: the newest start is the only one whose task may still be there,
\* and where it is follows from the handle, the start and the stop under way.
Newest == Cardinality(ServerTasks)
ServerTypes ==
    /\ Newest \in 0 .. MaxStarts /\ server \in [1 .. Newest -> {"bind", "serve", "over", "clear", "gone"}]
    /\ handle \in 0 .. Newest /\ starter \in 0 .. Newest
    /\ stopper \in [pc : {"rest", "cancel", "wait"}, of : 0 .. Newest]
    /\ (stopper.pc = "rest" <=> stopper = NoStop) /\ (stopper.pc # "rest" => stopper.of # 0)
    /\ running \in BOOLEAN /\ overtaken \in BOOLEAN
OneListens == \A j, k \in 1 .. Newest : server[j] = "serve" /\ server[k] = "serve" => j = k
InTurn ==
    /\ \A k \in 1 .. Newest : k # Newest => server[k] = "gone"
    /\ handle \in {0, Newest} /\ starter \in {0, Newest} /\ stopper.of \in {0, Newest}
    /\ starter # 0 => handle = 0 /\ stopper = NoStop /\ ~running
    /\ stopper # NoStop => handle = 0
    /\ Newest # 0 =>
          /\ server[Newest] \in {"bind", "serve"} =>
                \/ starter = Newest \/ (handle = Newest /\ running) \/ stopper = [pc |-> "cancel", of |-> Newest]
          /\ server[Newest] = "clear" => ~running
          /\ server[Newest] = "gone" => starter = 0 /\ handle = 0
    /\ running => handle # 0 \/ stopper # NoStop
ServerInd == ServerTypes /\ OneListens /\ (~overtaken => InTurn)

LEMMA TaskMoves ==
    ASSUME ServerTypes, NEW k \in ServerTasks, NEW st \in {"bind", "serve", "over", "clear", "gone"}, TaskTo(k, st)
    PROVE  /\ k \in 1 .. Newest /\ Newest' = Newest /\ Newest \in Nat
           /\ server' \in [1 .. Newest -> {"bind", "serve", "over", "clear", "gone"}]
           /\ server'[k] = st /\ \A j \in 1 .. Newest : j # k => server'[j] = server[j]
<1>1. DOMAIN server = 1 .. Newest /\ Newest \in Nat
  BY GatewayStoreAssumption DEF ServerTypes
<1>2. DOMAIN server' = DOMAIN server
  BY DEF TaskTo
<1> QED  BY <1>1, <1>2 DEF ServerTypes, TaskTo, ServerTasks, Newest

\* Every step of the server keeps ServerInd.
LEMMA ServerKept == ServerInd /\ ServerNext => ServerInd'
<1> SUFFICES ASSUME ServerInd, ServerNext PROVE ServerInd'
  OBVIOUS
<1>t. /\ ServerTypes /\ OneListens /\ Newest \in Nat /\ ServerTasks = 1 .. Newest
      /\ NoStop = [pc |-> "rest", of |-> 0] /\ NoStop.pc = "rest" /\ NoStop.of = 0
  BY GatewayStoreAssumption DEF ServerInd, ServerTypes, ServerTasks, NoStop
<1>k. ASSUME server' = server PROVE Newest' = Newest
  BY <1>k DEF Newest, ServerTasks
<1>1. CASE StartSpawns
  <2> DEFINE n == Newest + 1
  <2>1. /\ starter = 0 /\ handle = 0 /\ Newest < MaxStarts
        /\ server' = [j \in ServerTasks \cup {n} |-> IF j = n THEN "bind" ELSE server[j]] /\ starter' = n
        /\ overtaken' = (overtaken \/ stopper # NoStop \/ \E j \in ServerTasks : server[j] # "gone")
        /\ UNCHANGED <<handle, running, stopper>>
    BY <1>1 DEF StartSpawns, LockFree, Newest
  <2>2. ServerTasks \cup {n} = 1 .. n /\ n \in Nat  BY <1>t
  <2>3. DOMAIN server' = 1 .. n  BY <2>1, <2>2
  <2>4. Newest' = n  BY <2>2, <2>3, FS_Interval DEF Newest, ServerTasks
  <2>5. /\ server'[n] = "bind" /\ \A j \in 1 .. Newest : server'[j] = server[j] /\ j # n
        /\ \A j \in 1 .. n : j # n => j \in 1 .. Newest
        /\ server' \in [1 .. n -> {"bind", "serve", "over", "clear", "gone"}]
    BY <1>t, <2>1, <2>2 DEF ServerTypes
  <2>6. overtaken' \in BOOLEAN  BY <2>1
  <2>7. n \in 0 .. MaxStarts  BY <2>1, <2>2, <1>t, GatewayStoreAssumption
  <2>8. ServerTypes'  BY <1>t, <2>1, <2>2, <2>4, <2>5, <2>6, <2>7 DEF ServerTypes
  <2>9. OneListens'  BY <1>t, <2>4, <2>5 DEF OneListens
  <2>10. ASSUME ~overtaken' PROVE InTurn'
    <3>1. ~overtaken /\ InTurn /\ stopper = NoStop /\ \A j \in 1 .. Newest : server[j] = "gone"
      BY <2>1, <2>10, <1>t DEF ServerInd
    <3> QED  BY <3>1, <1>t, <2>1, <2>2, <2>4, <2>5 DEF InTurn
  <2> QED  BY <2>8, <2>9, <2>10 DEF ServerInd
<1>2. CASE StartReturns
  <2>1. /\ starter # 0 /\ running' = TRUE /\ handle' = starter /\ starter' = 0
        /\ overtaken' = (overtaken \/ server[starter] = "clear")
        /\ UNCHANGED <<server, stopper>> /\ Newest' = Newest
    BY <1>2, <1>k DEF StartReturns
  <2>2. overtaken' \in BOOLEAN  BY <2>1
  <2>3. ServerTypes'  BY <1>t, <2>1, <2>2 DEF ServerTypes
  <2>4. ASSUME ~overtaken' PROVE InTurn'
    <3>1. ~overtaken /\ InTurn /\ server[starter] # "clear"  BY <2>1, <2>4 DEF ServerInd
    <3> QED  BY <3>1, <1>t, <2>1 DEF InTurn
  <2> QED  BY <1>t, <2>1, <2>3, <2>4 DEF ServerInd, OneListens
<1>3. ASSUME NEW k \in ServerTasks, ServerBinds(k) PROVE ServerInd'
  <2>1. server[k] = "bind" /\ UNCHANGED <<handle, running, starter, stopper, overtaken>>
    BY <1>3 DEF ServerBinds
  <2>2. PICK st \in {"serve", "over"} : TaskTo(k, st) /\ (st = "serve" => Bound = {})  BY <1>3 DEF ServerBinds
  <2>3. /\ k \in 1 .. Newest /\ Newest' = Newest
        /\ server' \in [1 .. Newest -> {"bind", "serve", "over", "clear", "gone"}]
        /\ server'[k] = st /\ \A j \in 1 .. Newest : j # k => server'[j] = server[j]
    BY <1>t, <2>2, TaskMoves
  <2>4. ServerTypes'  BY <1>t, <2>1, <2>3 DEF ServerTypes
  <2>5. OneListens'  BY <1>t, <2>2, <2>3 DEF OneListens, Bound
  <2>6. overtaken' = overtaken /\ (InTurn => InTurn')  BY <1>t, <2>1, <2>3 DEF InTurn
  <2> QED  BY <2>4, <2>5, <2>6 DEF ServerInd
<1>4. ASSUME NEW k \in ServerTasks, NEW st \in {"over", "clear", "gone"}, TaskTo(k, st),
             \/ /\ st = "over" /\ server[k] = "serve" /\ UNCHANGED <<handle, running>>
             \/ /\ st = "clear" /\ server[k] = "over" /\ running' = FALSE /\ handle' = handle
             \/ /\ st = "gone" /\ server[k] = "clear" /\ starter = 0 /\ handle' = 0 /\ running' = running,
             UNCHANGED <<starter, stopper, overtaken>>
      PROVE  ServerInd'
  <2>3. /\ k \in 1 .. Newest /\ Newest' = Newest
        /\ server' \in [1 .. Newest -> {"bind", "serve", "over", "clear", "gone"}]
        /\ server'[k] = st /\ \A j \in 1 .. Newest : j # k => server'[j] = server[j]
    BY <1>t, <1>4, TaskMoves
  <2>4. ServerTypes'  BY <1>t, <1>4, <2>3 DEF ServerTypes
  <2>5. OneListens'  BY <1>t, <1>4, <2>3 DEF OneListens
  <2>6. InTurn => InTurn'  BY <1>t, <1>4, <2>3 DEF InTurn
  <2> QED  BY <1>4, <2>4, <2>5, <2>6 DEF ServerInd
<1>5. CASE StopTakes
  <2>1. /\ stopper.pc = "rest" /\ starter = 0 /\ UNCHANGED <<server, starter, overtaken>> /\ Newest' = Newest
        /\ \/ handle = 0 /\ running' = FALSE /\ UNCHANGED <<handle, stopper>>
           \/ handle # 0 /\ handle' = 0 /\ stopper' = [pc |-> "cancel", of |-> handle] /\ UNCHANGED running
    BY <1>5, <1>k DEF StopTakes, LockFree
  <2>2. [pc |-> "cancel", of |-> handle] # NoStop  BY <1>t
  <2>5. running' \in BOOLEAN  BY <2>1, <1>t DEF ServerTypes
  <2>6. /\ handle' \in 0 .. Newest /\ stopper' \in [pc : {"rest", "cancel", "wait"}, of : 0 .. Newest]
        /\ (stopper'.pc = "rest" <=> stopper' = NoStop) /\ (stopper'.pc # "rest" => stopper'.of # 0)
    BY <1>t, <2>1, <2>2 DEF ServerTypes
  <2>3. ServerTypes'  BY <1>t, <2>1, <2>5, <2>6 DEF ServerTypes
  <2>4. InTurn => InTurn'  BY <1>t, <2>1, <2>2 DEF InTurn, ServerTypes
  <2> QED  BY <1>t, <2>1, <2>3, <2>4 DEF ServerInd, OneListens
<1>6. CASE StopCancels
  <2>1. /\ stopper.pc = "cancel" /\ stopper' = [stopper EXCEPT !.pc = "wait"]
        /\ server' = IF server[stopper.of] \in {"serve", "bind"} THEN [server EXCEPT ![stopper.of] = "over"] ELSE server
        /\ UNCHANGED <<handle, running, starter, overtaken>>
    BY <1>6 DEF StopCancels
  <2>2. /\ stopper'.pc = "wait" /\ stopper'.of = stopper.of /\ stopper' # NoStop /\ stopper.of \in 1 .. Newest
        /\ stopper' \in [pc : {"rest", "cancel", "wait"}, of : 0 .. Newest]
    BY <1>t, <2>1 DEF ServerTypes
  <2>3. DOMAIN server' = DOMAIN server  BY <2>1
  <2>4. Newest' = Newest  BY <2>3 DEF Newest, ServerTasks
  <2>5. /\ server' \in [1 .. Newest -> {"bind", "serve", "over", "clear", "gone"}]
        /\ server'[stopper.of] \notin {"serve", "bind"}
        /\ \A j \in 1 .. Newest : j # stopper.of => server'[j] = server[j]
        /\ server'[stopper.of] = server[stopper.of] \/ server'[stopper.of] = "over"
    BY <1>t, <2>1, <2>2 DEF ServerTypes
  <2>6. ServerTypes'  BY <1>t, <2>1, <2>2, <2>4, <2>5 DEF ServerTypes
  <2>7. OneListens'  BY <1>t, <2>4, <2>5 DEF OneListens
  <2>8. InTurn => InTurn'  BY <1>t, <2>1, <2>2, <2>4, <2>5 DEF InTurn
  <2> QED  BY <2>1, <2>6, <2>7, <2>8 DEF ServerInd
<1>7. CASE StopReturns
  <2>1. /\ stopper.pc = "wait" /\ server[stopper.of] = "gone" /\ stopper' = NoStop /\ running' = FALSE
        /\ UNCHANGED <<server, handle, starter, overtaken>> /\ Newest' = Newest
    BY <1>7, <1>k DEF StopReturns
  <2>4. NoStop \in [pc : {"rest", "cancel", "wait"}, of : 0 .. Newest]  BY <1>t
  <2>2. ServerTypes'  BY <1>t, <2>1, <2>4 DEF ServerTypes
  <2>3. InTurn => InTurn'
    <3>1. stopper # NoStop  BY <1>t, <2>1
    <3>2. ~InTurn \/ (stopper.of = Newest /\ Newest # 0)  BY <1>t, <2>1 DEF InTurn, ServerTypes
    <3> QED  BY <1>t, <2>1, <3>1, <3>2 DEF InTurn
  <2> QED  BY <1>t, <2>1, <2>2, <2>3 DEF ServerInd, OneListens
<1> QED
  BY <1>1, <1>2, <1>3, <1>4, <1>5, <1>6, <1>7
  DEF ServerNext, ServerFails, TaskLowersFlag, TaskClearsHandle, LockFree

\* The gateway's files and server: the file holds the devices once it is written, a
\* removed device stays removed over restarts, an invite is redeemed once, a server that
\* listens can be stopped.
THEOREM StoreKept == StoreSpec => []StoreInv
<1>1. StoreInit => FilesInd /\ ServerInd
  <2> SUFFICES ASSUME StoreInit PROVE FilesInd /\ ServerInd
    OBVIOUS
  <2>1. record \in Records /\ devFile = [seq |-> 0, snap |-> record] /\ seqNo = 0 /\ saves = {}
    BY DEF StoreInit, Records
  <2>2. devFile \in Snapshot /\ devFile = LatestSnap /\ seqNo \in 0 .. MaxSaves /\ devFile.seq = 0
    BY <2>1, GatewayStoreAssumption DEF Snapshot, LatestSnap
  <2>3. Quiet \in Copies /\ Quiet.pc = "rest"  BY DEF Quiet, Copies, Invites
  <2>8. /\ invFile = "none" /\ pairer = [p \in Pairers |-> Quiet] /\ editor = Quiet
        /\ revoked = {} /\ redeemed = 0 /\ lateSave = FALSE /\ invCrossed = FALSE
    BY DEF StoreInit
  <2>13. /\ invFile \in Invites /\ pairer \in [Pairers -> Copies] /\ editor \in Copies
         /\ revoked \subseteq GwDevices /\ redeemed \in 0 .. 2
    BY <2>3, <2>8 DEF Invites
  <2>14. lateSave \in BOOLEAN /\ invCrossed \in BOOLEAN  BY <2>8
  <2>9. FileTypes  BY <2>1, <2>2, <2>13, <2>14 DEF FileTypes
  <2>10. SnapshotsNumbered  BY <2>1, <2>2 DEF SnapshotsNumbered
  <2>11. LatestIsSafe /\ GoneIsGone  BY <2>1, <2>2, <2>8 DEF LatestIsSafe, GoneIsGone
  <2>12. InviteIsRedeemedOnce  BY <2>8 DEF InviteIsRedeemedOnce
  <2>4. FilesInd  BY <2>3, <2>8, <2>9, <2>10, <2>11, <2>12 DEF FilesInd
  <2>5. server = <<>> /\ DOMAIN server = 1 .. 0 /\ Newest = 0
    BY FS_EmptySet DEF StoreInit, Newest, ServerTasks
  <2>6. server \in [1 .. 0 -> {"bind", "serve", "over", "clear", "gone"}]  BY <2>5
  <2>7. ServerInd
    <3>1. handle = 0 /\ running = FALSE /\ starter = 0 /\ stopper = NoStop /\ overtaken = FALSE
      BY DEF StoreInit
    <3>2. NoStop \in [pc : {"rest", "cancel", "wait"}, of : 0 .. 0] /\ NoStop.pc = "rest"  BY DEF NoStop
    <3>3. 0 \in 0 .. MaxStarts  BY GatewayStoreAssumption
    <3>5. Newest \in 0 .. MaxStarts /\ server \in [1 .. Newest -> {"bind", "serve", "over", "clear", "gone"}]
      BY <2>5, <2>6, <3>3
    <3>6. handle \in 0 .. Newest /\ starter \in 0 .. Newest  BY <2>5, <3>1
    <3>4. ServerTypes  BY <2>5, <3>1, <3>2, <3>5, <3>6 DEF ServerTypes
    <3> QED  BY <2>5, <3>1, <3>4 DEF ServerInd, OneListens, InTurn, NoStop
  <2> QED  BY <2>4, <2>7
<1>2. FilesInd /\ ServerInd /\ [StoreNext]_storeVars => (FilesInd /\ ServerInd)'
  <2> SUFFICES ASSUME FilesInd, ServerInd, [StoreNext]_storeVars PROVE FilesInd' /\ ServerInd'
    OBVIOUS
  <2>1. UNCHANGED fileVars => FilesInd'
    BY DEF fileVars, FilesInd, FileTypes, SnapshotsNumbered, LatestIsSafe, LatestSnap, GoneIsGone, InviteIsRedeemedOnce
  <2>2. UNCHANGED serverVars => ServerInd'
    BY DEF serverVars, ServerInd, ServerTypes, OneListens, InTurn, Newest, ServerTasks
  <2> QED
    BY <2>1, <2>2, FilesKept, ServerKept DEF StoreNext, storeVars
<1>3. FilesInd /\ ServerInd => StoreInv
  <2> SUFFICES ASSUME FilesInd, ServerInd PROVE StoreInv
    OBVIOUS
  <2>1. StoreTypeOK
    BY GatewayStoreAssumption DEF StoreTypeOK, FilesInd, FileTypes, ServerInd, ServerTypes, Records, Snapshot, Invites
  <2>2. FileHoldsTheDevices  BY DEF FilesInd, LatestIsSafe, LatestSnap, FileHoldsTheDevices
  <2>3. RevokedStaysRevoked  BY DEF FilesInd, GoneIsGone, RevokedStaysRevoked
  <2>4. AServerCanBeStopped
    <3>1. Bound \subseteq 1 .. Newest /\ ServerTasks = 1 .. Newest /\ \A j, k \in Bound : j = k
      BY DEF ServerInd, ServerTypes, OneListens, Bound, ServerTasks
    <3>2. Cardinality(Bound) <= 1
      <4>1. CASE Bound = {}  BY <4>1, FS_EmptySet
      <4>2. ASSUME NEW k \in Bound PROVE Cardinality(Bound) <= 1
        <5>1. Bound = {k}  BY <3>1, <4>2
        <5> QED  BY <5>1, FS_Singleton
      <4> QED  BY <4>1, <4>2
    <3>3. ASSUME ~overtaken, NEW k \in Bound PROVE (handle = k /\ running) \/ k = starter \/ k = stopper.of
      <4>1. InTurn /\ k = Newest /\ server[k] = "serve" /\ Newest # 0
        BY <3>1, <3>3 DEF ServerInd, InTurn, Bound
      <4> QED  BY <4>1 DEF InTurn
    <3>4. ~overtaken /\ running => handle # 0 \/ stopper.pc # "rest"  BY DEF ServerInd, ServerTypes, InTurn
    <3> QED  BY <3>2, <3>3, <3>4 DEF AServerCanBeStopped
  <2> QED  BY <2>1, <2>2, <2>3, <2>4 DEF StoreInv, FilesInd
<1> QED
  BY <1>1, <1>2, <1>3, PTL DEF StoreSpec

-----------------------------------------------------------------------------
(* The coding agent *)

PiWarnings == {"models", "settings", "context", "config", "worker", "tree"}
PiOpRecs ==
    {r \in [pc : {"rest", "ensure", "bundle", "fetch", "extract", "clear", "move", "shim", "prepare", "models", "settings",
                  "context", "sync", "copy", "stamp", "config", "worker", "spawn"},
            kind : {"none", "install", "launch", "update"}, id : 0 .. MaxCommands, ver : 0 .. 3, alone : BOOLEAN,
            warned : SUBSET PiWarnings] :
        /\ r.pc \in {"ensure", "prepare", "models", "settings", "context", "sync", "copy", "stamp", "config", "worker", "spawn"}
             => r.kind = "launch"
        /\ r.kind = "launch" => r.ver = Pinned}
PkgRecs == [ver : 0 .. 3, state : {"none", "bare", "part", "all", "mixed"}]
TreeRecs == {t \in [ver : {0, Old, Pinned}, state : {"none", "part", "all"}] : t.ver = 0 <=> t.state = "none"}

PiTypes ==
    /\ accepted \in BOOLEAN /\ shim \in BOOLEAN /\ stamp \in 0 .. 3 /\ zip \in 0 .. 3 /\ treeStamp \in 0 .. 2
    /\ pkg \in PkgRecs /\ extract \in PkgRecs /\ bundle \in {"none", "part", "all"} /\ tree \in TreeRecs
    /\ home \in [HomeFiles -> 0 .. MaxCommands] /\ consoles \subseteq 0 .. MaxCommands
    /\ op \in [PiOps -> PiOpRecs] /\ commands \in 0 .. MaxCommands
    /\ doubt \in BOOLEAN /\ mixed \in BOOLEAN /\ broken \in BOOLEAN

\* A command that never met another one is the only one at work.
AloneAtWork == \A o, p \in PiOps : op[o].alone /\ op[o].pc # "rest" /\ o # p => op[p].pc = "rest"

\* What such a command may rely on at each of its steps.
Relies(o) ==
    LET pc == op[o].pc  id == op[o].id IN
    op[o].alone /\ op[o].pc # "rest" =>
        /\ pc = "extract" => zip = op[o].ver
        /\ pc \in {"clear", "move"} => extract.ver = op[o].ver
        /\ pc = "shim" => pkg.ver = op[o].ver
        /\ pc \in {"fetch", "extract", "clear", "move", "shim"} /\ op[o].kind = "launch" => consoles = {}
        /\ pc \in {"prepare", "models", "settings", "context", "sync", "copy", "stamp", "config", "worker", "spawn"}
             => stamp \in {0, Pinned}
        /\ pc \in {"settings", "context", "sync", "copy", "stamp", "config", "worker", "spawn"} => home["models"] = id
        /\ pc \in {"context", "sync", "copy", "stamp", "config", "worker", "spawn"} => home["settings"] = id
        /\ pc \in {"sync", "copy", "stamp", "config", "worker", "spawn"} /\ "context" \notin op[o].warned => home["context"] = id
        /\ pc \in {"stamp", "config", "worker", "spawn"} /\ "tree" \notin op[o].warned => tree.ver = Pinned
        /\ pc \in {"worker", "spawn"} /\ "config" \notin op[o].warned => home["config"] = id
        /\ pc = "spawn" /\ "worker" \notin op[o].warned => home["worker"] = id

\* The tree of an earlier app goes before anything is copied; until two
\* commands meet one at most copies, unstamped, and what it stamps is whole.
TreeInv ==
    /\ tree.ver = Old => treeStamp # Pinned /\ \A o \in PiOps : op[o].pc \notin {"copy", "stamp"}
    /\ treeStamp = Old => tree.ver = Old
    /\ ~mixed =>
        /\ \A o, p \in PiOps : op[o].pc \in {"copy", "stamp"} /\ op[p].pc \in {"copy", "stamp"} => o = p
        /\ \A o \in PiOps : op[o].pc = "copy" => treeStamp = 0
        /\ \A o \in PiOps : op[o].pc = "stamp" => tree = [ver |-> Pinned, state |-> "all"]

PiInd ==
    /\ PiTypes /\ AloneAtWork /\ (\A o \in PiOps : Relies(o)) /\ TreeInv
    /\ StampNamesThePackage /\ ConsoleGetsItsLaunch /\ StampedTreeIsWhole /\ ConsoleKeepsItsPackage

\* One command at work moves: nothing that another one relies on is touched.
LEMMA PiMoves ==
    ASSUME PiInd, NEW o \in PiOps, op[o].pc # "rest", NEW v \in PiOpRecs, v.pc = "rest" \/ v.alone = op[o].alone,
           op' = [op EXCEPT ![o] = v]
    PROVE  /\ op' \in [PiOps -> PiOpRecs] /\ op'[o] = v /\ AloneAtWork'
           /\ \A p \in PiOps : p # o => op'[p] = op[p]
           /\ Relies(o)' => \A p \in PiOps : Relies(p)'
<1>0. op \in [PiOps -> PiOpRecs] /\ AloneAtWork BY DEF PiInd, PiTypes
<1>1. op' \in [PiOps -> PiOpRecs] /\ op'[o] = v /\ \A p \in PiOps : p # o => op'[p] = op[p] BY <1>0
<1>2. \A p \in PiOps : p # o => op[p].pc = "rest" \/ ~op[p].alone BY <1>0 DEF AloneAtWork
<1>3. AloneAtWork' BY <1>0, <1>1, <1>2 DEF AloneAtWork
<1>4. \A p \in PiOps : p # o => Relies(p)' BY <1>1, <1>2 DEF Relies
<1> QED BY <1>1, <1>3, <1>4

LEMMA PiResumes ==
    /\ PiResting \in PiOpRecs /\ PiResting.pc = "rest"
    /\ \A r \in PiOpRecs, what \in PiWarnings, pc \in {"rest", "ensure", "bundle", "fetch", "extract", "clear", "move", "shim",
            "prepare", "models", "settings", "context", "sync", "copy", "stamp", "config", "worker", "spawn"} :
         (pc \in {"ensure", "prepare", "models", "settings", "context", "sync", "copy", "stamp", "config", "worker", "spawn"}
            => r.kind = "launch") =>
         /\ [r EXCEPT !.pc = pc] \in PiOpRecs
         /\ [r EXCEPT !.pc = pc, !.warned = @ \cup {what}] \in PiOpRecs
<1>1. PiResting \in PiOpRecs /\ PiResting.pc = "rest" BY PiAssumption DEF PiOpRecs, PiResting, Pinned
<1>2. ASSUME NEW r \in PiOpRecs, NEW what \in PiWarnings, NEW pc \in {"rest", "ensure", "bundle", "fetch", "extract", "clear", "move", "shim",
            "prepare", "models", "settings", "context", "sync", "copy", "stamp", "config", "worker", "spawn"},
            pc \in {"ensure", "prepare", "models", "settings", "context", "sync", "copy", "stamp", "config", "worker", "spawn"}
            => r.kind = "launch"
      PROVE  [r EXCEPT !.pc = pc] \in PiOpRecs /\ [r EXCEPT !.pc = pc, !.warned = @ \cup {what}] \in PiOpRecs
  <2>1. r.warned \cup {what} \in SUBSET PiWarnings BY <1>2 DEF PiOpRecs
  <2>2. [r EXCEPT !.pc = pc] \in PiOpRecs BY <1>2 DEF PiOpRecs
  <2>3. [r EXCEPT !.pc = pc, !.warned = r.warned \cup {what}] \in PiOpRecs BY <1>2, <2>1 DEF PiOpRecs
  <2> QED BY <2>2, <2>3
<1> QED BY <1>1, <1>2

LEMMA PiGoes ==
    ASSUME PiInd, NEW o \in PiOps, op[o].pc # "rest",
           NEW pc \in {"rest", "ensure", "bundle", "fetch", "extract", "clear", "move", "shim", "prepare", "models",
                       "settings", "context", "sync", "copy", "stamp", "config", "worker", "spawn"},
           pc \in {"ensure", "prepare", "models", "settings", "context", "sync", "copy", "stamp", "config", "worker", "spawn"}
            => op[o].kind = "launch",
           GoesTo(o, pc)
    PROVE  /\ op' \in [PiOps -> PiOpRecs] /\ AloneAtWork' /\ \A p \in PiOps : p # o => op'[p] = op[p]
           /\ op'[o].pc = pc /\ op'[o].kind = op[o].kind /\ op'[o].id = op[o].id /\ op'[o].ver = op[o].ver
           /\ op'[o].alone = op[o].alone /\ op'[o].warned = op[o].warned
           /\ Relies(o)' => \A p \in PiOps : Relies(p)'
<1> DEFINE v == [op[o] EXCEPT !.pc = pc]
<1>1. op[o] \in PiOpRecs BY DEF PiInd, PiTypes
<1>2. v \in PiOpRecs BY <1>1, PiResumes DEF PiWarnings
<1>3. v.pc = pc /\ v.kind = op[o].kind /\ v.id = op[o].id /\ v.ver = op[o].ver /\ v.alone = op[o].alone /\ v.warned = op[o].warned
  BY <1>1 DEF PiOpRecs
<1>4. op' = [op EXCEPT ![o] = v] BY DEF GoesTo
<1> HIDE DEF v
<1> QED BY <1>2, <1>3, <1>4, PiMoves

LEMMA PiWarned ==
    ASSUME PiInd, NEW o \in PiOps, op[o].pc # "rest", op[o].kind = "launch", NEW what \in PiWarnings,
           NEW pc \in {"sync", "config", "worker", "spawn"}, Warns(o, what, pc)
    PROVE  /\ op' \in [PiOps -> PiOpRecs] /\ AloneAtWork' /\ \A p \in PiOps : p # o => op'[p] = op[p]
           /\ op'[o].pc = pc /\ op'[o].kind = op[o].kind /\ op'[o].id = op[o].id /\ op'[o].ver = op[o].ver
           /\ op'[o].alone = op[o].alone /\ op'[o].warned = op[o].warned \cup {what}
           /\ Relies(o)' => \A p \in PiOps : Relies(p)'
<1> DEFINE v == [op[o] EXCEPT !.pc = pc, !.warned = @ \cup {what}]
<1>1. op[o] \in PiOpRecs BY DEF PiInd, PiTypes
<1>2. v \in PiOpRecs BY <1>1, PiResumes
<1>3. v.pc = pc /\ v.kind = op[o].kind /\ v.id = op[o].id /\ v.ver = op[o].ver /\ v.alone = op[o].alone
      /\ v.warned = op[o].warned \cup {what}
  BY <1>1 DEF PiOpRecs
<1>4. op' = [op EXCEPT ![o] = v] BY DEF Warns
<1> HIDE DEF v
<1> QED BY <1>2, <1>3, <1>4, PiMoves

LEMMA PiReturned ==
    ASSUME PiInd, NEW o \in PiOps, op[o].pc # "rest", Returns(o)
    PROVE  /\ op' \in [PiOps -> PiOpRecs] /\ AloneAtWork' /\ \A p \in PiOps : p # o => op'[p] = op[p]
           /\ op'[o].pc = "rest" /\ \A p \in PiOps : Relies(p)'
<1>1. op' = [op EXCEPT ![o] = PiResting] BY DEF Returns
<1>2. op'[o].pc = "rest" BY <1>1, PiResumes, PiMoves
<1>3. Relies(o)' BY <1>2 DEF Relies
<1> QED BY <1>1, <1>2, <1>3, PiResumes, PiMoves

\* The tree and its stamp are left alone by a command that does not copy.
LEMMA TreeStays ==
    ASSUME PiInd, NEW o \in PiOps, UNCHANGED <<tree, treeStamp>>, mixed => mixed', \A p \in PiOps : p # o => op'[p].pc = op[p].pc,
           op'[o].pc \notin {"copy", "stamp"}
    PROVE  TreeInv' /\ StampedTreeIsWhole'
<1>1. TreeInv /\ StampedTreeIsWhole BY DEF PiInd
<1>2. StampedTreeIsWhole' BY <1>1 DEF StampedTreeIsWhole
<1>3. (tree.ver = Old => treeStamp # Pinned /\ \A p \in PiOps : op[p].pc \notin {"copy", "stamp"})' BY <1>1 DEF TreeInv
<1>4. (treeStamp = Old => tree.ver = Old)' BY <1>1 DEF TreeInv
<1>5. ASSUME ~mixed' PROVE /\ \A q, p \in PiOps : op'[q].pc \in {"copy", "stamp"} /\ op'[p].pc \in {"copy", "stamp"} => q = p
                           /\ \A p \in PiOps : op'[p].pc = "copy" => treeStamp' = 0
                           /\ \A p \in PiOps : op'[p].pc = "stamp" => tree' = [ver |-> Pinned, state |-> "all"]
  BY <1>1, <1>5 DEF TreeInv
<1> QED BY <1>2, <1>3, <1>4, <1>5 DEF TreeInv

\* The promises hold on while package, console and their histories do.
LEMMA PromisesStay ==
    ASSUME PiInd, UNCHANGED <<pkg, stamp, doubt, consoles, broken, latest>>
    PROVE  StampNamesThePackage' /\ ConsoleGetsItsLaunch' /\ ConsoleKeepsItsPackage'
BY DEF PiInd, StampNamesThePackage, ConsoleGetsItsLaunch, ConsoleKeepsItsPackage

LEMMA EnsureKeeps == ASSUME PiInd, NEW o \in PiOps, EnsurePinned(o) PROVE PiInd'
<1>0. PiTypes /\ op[o] \in PiOpRecs /\ op[o].pc = "ensure" /\ Relies(o) /\ UNCHANGED <<diskVars, consoles, commands, faults, historyVars>>
  BY DEF PiInd, PiTypes, EnsurePinned, At
<1>u. UNCHANGED <<accepted, pkg, stamp, shim, zip, extract, bundle, tree, treeStamp, home, consoles, commands, doubt, mixed, broken, latest>>
  BY <1>0 DEF diskVars, historyVars
<1>k. op[o].kind = "launch" BY <1>0 DEF PiOpRecs
<1>1. StampNamesThePackage' /\ ConsoleGetsItsLaunch' /\ ConsoleKeepsItsPackage' BY <1>u, PromisesStay
<1>2. op' \in [PiOps -> PiOpRecs] => PiTypes' BY <1>0, <1>u DEF PiTypes
<1>3. CASE Returns(o)
  <2>1. TreeInv' /\ StampedTreeIsWhole' BY <1>0, <1>u, <1>3, PiReturned, TreeStays
  <2> QED BY <1>0, <1>1, <1>2, <1>3, <2>1, PiReturned DEF PiInd
<1>4. CASE stamp \in {0, Pinned} /\ GoesTo(o, "prepare")
  <2>1. TreeInv' /\ StampedTreeIsWhole' BY <1>0, <1>u, <1>k, <1>4, PiGoes, TreeStays
  <2>2. op'[o].pc = "prepare" BY <1>0, <1>k, <1>4, PiGoes
  <2>3. Relies(o)' BY <1>4, <1>u, <2>2 DEF Relies
  <2> QED BY <1>0, <1>1, <1>2, <1>k, <1>4, <2>1, <2>3, PiGoes DEF PiInd
<1>5. CASE consoles = {} /\ GoesTo(o, "fetch")
  <2>1. TreeInv' /\ StampedTreeIsWhole' BY <1>0, <1>u, <1>5, PiGoes, TreeStays
  <2>2. op'[o].pc = "fetch" BY <1>0, <1>5, PiGoes
  <2>3. Relies(o)' BY <1>5, <1>u, <2>2 DEF Relies
  <2> QED BY <1>0, <1>1, <1>2, <1>5, <2>1, <2>3, PiGoes DEF PiInd
<1> QED BY <1>3, <1>4, <1>5 DEF EnsurePinned

LEMMA FetchKeeps == ASSUME PiInd, NEW o \in PiOps, Fetch(o) PROVE PiInd'
<1>0. PiTypes /\ op[o] \in PiOpRecs /\ op[o].pc = "fetch" /\ Relies(o) BY DEF PiInd, PiTypes, Fetch, At
<1>u. UNCHANGED <<accepted, pkg, stamp, shim, extract, bundle, tree, treeStamp, home, consoles, commands, doubt, mixed, broken, latest>>
  BY DEF Fetch, historyVars
<1>1. StampNamesThePackage' /\ ConsoleGetsItsLaunch' /\ ConsoleKeepsItsPackage' BY <1>u, PromisesStay
<1>v. op[o].ver \in 0 .. 3 BY <1>0 DEF PiOpRecs
<1>2. op' \in [PiOps -> PiOpRecs] /\ zip' \in 0 .. 3 => PiTypes' BY <1>0, <1>u DEF PiTypes
<1>3. CASE zip' \in {0, zip} /\ Returns(o)
  <2>1. TreeInv' /\ StampedTreeIsWhole' BY <1>0, <1>u, <1>3, PiReturned, TreeStays
  <2>2. zip' \in 0 .. 3 BY <1>0, <1>3 DEF PiTypes
  <2> QED BY <1>0, <1>1, <1>2, <1>3, <2>1, <2>2, PiReturned DEF PiInd
<1>4. CASE zip' = op[o].ver /\ GoesTo(o, "extract")
  <2>1. TreeInv' /\ StampedTreeIsWhole' BY <1>0, <1>u, <1>4, PiGoes, TreeStays
  <2>2. op'[o].pc = "extract" /\ op'[o].ver = op[o].ver /\ op'[o].kind = op[o].kind /\ op'[o].alone = op[o].alone BY <1>0, <1>4, PiGoes
  <2>3. Relies(o)' BY <1>0, <1>4, <1>u, <2>2 DEF Relies
  <2> QED BY <1>0, <1>1, <1>2, <1>v, <1>4, <2>1, <2>3, PiGoes DEF PiInd
<1> QED BY <1>3, <1>4 DEF Fetch

LEMMA UnpackKeeps == ASSUME PiInd, NEW o \in PiOps, Unpack(o) PROVE PiInd'
<1>0. PiTypes /\ op[o] \in PiOpRecs /\ op[o].pc = "extract" /\ Relies(o) BY DEF PiInd, PiTypes, Unpack, At
<1>u. UNCHANGED <<accepted, pkg, stamp, shim, zip, bundle, tree, treeStamp, home, consoles, commands, doubt, mixed, broken, latest>>
  BY DEF Unpack, historyVars
<1>1. StampNamesThePackage' /\ ConsoleGetsItsLaunch' /\ ConsoleKeepsItsPackage' BY <1>u, PromisesStay
<1>2. op' \in [PiOps -> PiOpRecs] /\ extract' \in PkgRecs => PiTypes' BY <1>0, <1>u DEF PiTypes
<1>z. zip \in 0 .. 3 BY <1>0 DEF PiTypes
<1>3. CASE extract' \in {[ver |-> zip, state |-> "part"], Nothing} /\ Returns(o)
  <2>1. TreeInv' /\ StampedTreeIsWhole' BY <1>0, <1>u, <1>3, PiReturned, TreeStays
  <2>2. extract' \in PkgRecs BY <1>z, <1>3 DEF PkgRecs, Nothing
  <2> QED BY <1>0, <1>1, <1>2, <1>3, <2>1, <2>2, PiReturned DEF PiInd
<1>4. CASE GoesTo(o, "clear") /\ \E s \in {"all", "mixed"} : extract' = [ver |-> zip, state |-> s]
  <2>1. TreeInv' /\ StampedTreeIsWhole' BY <1>0, <1>u, <1>4, PiGoes, TreeStays
  <2>2. op'[o].pc = "clear" /\ op'[o].ver = op[o].ver /\ op'[o].kind = op[o].kind /\ op'[o].alone = op[o].alone BY <1>0, <1>4, PiGoes
  <2>3. extract' \in PkgRecs /\ extract'.ver = zip BY <1>z, <1>4 DEF PkgRecs
  <2>4. Relies(o)' BY <1>0, <1>u, <2>2, <2>3 DEF Relies
  <2> QED BY <1>0, <1>1, <1>2, <1>4, <2>1, <2>3, <2>4, PiGoes DEF PiInd
<1> QED BY <1>3, <1>4 DEF Unpack

LEMMA ClearKeeps == ASSUME PiInd, NEW o \in PiOps, ClearPackage(o) PROVE PiInd'
<1>0. PiTypes /\ op[o] \in PiOpRecs /\ op[o].pc = "clear" /\ Relies(o) BY DEF PiInd, PiTypes, ClearPackage, At
<1>u. UNCHANGED <<accepted, stamp, shim, zip, extract, bundle, tree, treeStamp, home, consoles, commands, mixed, latest>>
  BY DEF ClearPackage
<1>p. /\ pkg' \in PkgRecs /\ doubt' \in BOOLEAN /\ ((pkg' = pkg /\ doubt' = doubt) \/ doubt' = TRUE)
      /\ Returns(o) \/ GoesTo(o, "move")
  <2>1. pkg \in PkgRecs /\ \A s \in {"bare", "part"} : [pkg EXCEPT !.state = s] \in PkgRecs BY <1>0 DEF PiTypes, PkgRecs
  <2>2. Nothing \in PkgRecs BY DEF Nothing, PkgRecs
  <2>3. (IF pkg.state = "bare" THEN "bare" ELSE "part") \in {"bare", "part"} OBVIOUS
  <2>4. doubt \in BOOLEAN BY <1>0 DEF PiTypes
  <2> QED BY <2>1, <2>2, <2>3, <2>4 DEF ClearPackage
<1>b. broken' = (broken \/ op[o].kind # "launch" \/ ~op[o].alone) BY DEF ClearPackage
<1>b2. broken' \in BOOLEAN BY <1>b
<1>1. StampNamesThePackage' BY <1>p, <1>u DEF PiInd, StampNamesThePackage
<1>2. ConsoleGetsItsLaunch' BY <1>u DEF PiInd, ConsoleGetsItsLaunch
<1>3. ConsoleKeepsItsPackage'
  <2> SUFFICES ASSUME ~broken' PROVE consoles' = {} BY DEF ConsoleKeepsItsPackage
  <2>1. op[o].kind = "launch" /\ op[o].alone BY <1>b, Zenon
  <2> QED BY <2>1, <1>0, <1>u DEF Relies
<1>4. op' \in [PiOps -> PiOpRecs] => PiTypes' BY <1>0, <1>u, <1>p, <1>b2 DEF PiTypes
<1>5. CASE Returns(o)
  <2>1. TreeInv' /\ StampedTreeIsWhole' BY <1>0, <1>u, <1>5, PiReturned, TreeStays
  <2> QED BY <1>0, <1>1, <1>2, <1>3, <1>4, <1>5, <2>1, PiReturned DEF PiInd
<1>6. CASE GoesTo(o, "move")
  <2>1. TreeInv' /\ StampedTreeIsWhole' BY <1>0, <1>u, <1>6, PiGoes, TreeStays
  <2>2. op'[o].pc = "move" /\ op'[o].ver = op[o].ver /\ op'[o].kind = op[o].kind /\ op'[o].alone = op[o].alone BY <1>0, <1>6, PiGoes
  <2>3. Relies(o)' BY <1>0, <1>u, <2>2 DEF Relies
  <2> QED BY <1>0, <1>1, <1>2, <1>3, <1>4, <1>6, <2>1, <2>3, PiGoes DEF PiInd
<1> QED BY <1>p, <1>5, <1>6

LEMMA MoveKeeps == ASSUME PiInd, NEW o \in PiOps, MovePackage(o) PROVE PiInd'
<1>0. PiTypes /\ op[o] \in PiOpRecs /\ op[o].pc = "move" /\ Relies(o) BY DEF PiInd, PiTypes, MovePackage, At
<1>u. UNCHANGED <<accepted, stamp, shim, zip, bundle, tree, treeStamp, home, consoles, commands, mixed, latest>>
  BY DEF MovePackage
<1>p. /\ doubt' = TRUE /\ doubt' \in BOOLEAN /\ extract' \in PkgRecs /\ pkg' \in PkgRecs
      /\ Returns(o) \/ (GoesTo(o, "shim") /\ pkg' = extract)
  <2>1. extract \in PkgRecs /\ extract.ver \in 0 .. 3 BY <1>0 DEF PiTypes, PkgRecs
  <2>2. Nothing \in PkgRecs BY DEF Nothing, PkgRecs
  <2>3. \A s \in {"bare", "part"} : [ver |-> extract.ver, state |-> s] \in PkgRecs BY <2>1 DEF PkgRecs
  <2> QED BY <2>1, <2>2, <2>3 DEF MovePackage
<1>b. broken' = (broken \/ op[o].kind # "launch" \/ ~op[o].alone) BY DEF MovePackage
<1>b2. broken' \in BOOLEAN BY <1>b
<1>1. StampNamesThePackage' BY <1>p DEF StampNamesThePackage
<1>2. ConsoleGetsItsLaunch' BY <1>u DEF PiInd, ConsoleGetsItsLaunch
<1>3. ConsoleKeepsItsPackage'
  <2> SUFFICES ASSUME ~broken' PROVE consoles' = {} BY DEF ConsoleKeepsItsPackage
  <2>1. op[o].kind = "launch" /\ op[o].alone BY <1>b, Zenon
  <2> QED BY <2>1, <1>0, <1>u DEF Relies
<1>d. doubt' \in BOOLEAN BY <1>p
<1>e. extract' \in PkgRecs /\ pkg' \in PkgRecs BY <1>p
<1>4. op' \in [PiOps -> PiOpRecs] => PiTypes' BY <1>0, <1>u, <1>d, <1>e, <1>b2 DEF PiTypes
<1>5. CASE Returns(o)
  <2>1. TreeInv' /\ StampedTreeIsWhole' BY <1>0, <1>u, <1>5, PiReturned, TreeStays
  <2> QED BY <1>0, <1>1, <1>2, <1>3, <1>4, <1>5, <2>1, PiReturned DEF PiInd
<1>6. CASE GoesTo(o, "shim") /\ pkg' = extract
  <2>1. TreeInv' /\ StampedTreeIsWhole' BY <1>0, <1>u, <1>6, PiGoes, TreeStays
  <2>2. op'[o].pc = "shim" /\ op'[o].ver = op[o].ver /\ op'[o].kind = op[o].kind /\ op'[o].alone = op[o].alone BY <1>0, <1>6, PiGoes
  <2>3. Relies(o)' BY <1>0, <1>u, <1>6, <2>2 DEF Relies
  <2> QED BY <1>0, <1>1, <1>2, <1>3, <1>4, <1>6, <2>1, <2>3, PiGoes DEF PiInd
<1> QED BY <1>p, <1>5, <1>6

LEMMA FinishKeeps == ASSUME PiInd, NEW o \in PiOps, FinishInstall(o) PROVE PiInd'
<1>0. PiTypes /\ op[o] \in PiOpRecs /\ op[o].pc = "shim" /\ Relies(o) BY DEF PiInd, PiTypes, FinishInstall, At
<1>u. UNCHANGED <<accepted, pkg, extract, bundle, tree, treeStamp, home, consoles, commands, mixed, broken, latest>>
  BY DEF FinishInstall
<1>v. op[o].ver \in 0 .. 3 /\ (op[o].kind = "launch" => op[o].ver = Pinned) BY <1>0 DEF PiOpRecs
<1>2. ConsoleGetsItsLaunch' /\ ConsoleKeepsItsPackage' BY <1>u DEF PiInd, ConsoleGetsItsLaunch, ConsoleKeepsItsPackage
<1>4. op' \in [PiOps -> PiOpRecs] /\ shim' \in BOOLEAN /\ stamp' \in 0 .. 3 /\ zip' \in 0 .. 3 /\ doubt' \in BOOLEAN => PiTypes'
  BY <1>0, <1>u DEF PiTypes
<1>5. CASE Returns(o) /\ shim' \in BOOLEAN /\ stamp' \in {0, stamp} /\ zip' = zip /\ doubt' = TRUE
  <2>1. TreeInv' /\ StampedTreeIsWhole' BY <1>0, <1>u, <1>5, PiReturned, TreeStays
  <2>2. StampNamesThePackage' BY <1>5 DEF StampNamesThePackage
  <2>3. stamp' \in 0 .. 3 /\ zip' \in 0 .. 3 /\ doubt' \in BOOLEAN BY <1>0, <1>5 DEF PiTypes
  <2> QED BY <1>0, <1>2, <1>4, <1>5, <2>1, <2>2, <2>3, PiReturned DEF PiInd
<1>6. CASE shim' = TRUE /\ stamp' = op[o].ver /\ zip' = 0 /\ doubt' = (~op[o].alone \/ pkg.state # "all")
  <2>1. StampNamesThePackage'
    <3> SUFFICES ASSUME ~doubt' PROVE pkg' = [ver |-> stamp', state |-> "all"] BY DEF StampNamesThePackage
    <3>1. op[o].alone /\ pkg.state = "all" BY <1>6, Zenon
    <3>2. pkg.ver = op[o].ver BY <3>1, <1>0 DEF Relies
    <3>3. pkg = [ver |-> pkg.ver, state |-> pkg.state] BY <1>0 DEF PiTypes, PkgRecs
    <3> QED BY <3>1, <3>2, <3>3, <1>6, <1>u
  <2>2. shim' \in BOOLEAN /\ stamp' \in 0 .. 3 /\ zip' \in 0 .. 3 /\ doubt' \in BOOLEAN BY <1>6, <1>v
  <2>3. CASE Returns(o)
    <3>1. TreeInv' /\ StampedTreeIsWhole' BY <1>0, <1>u, <2>3, PiReturned, TreeStays
    <3> QED BY <1>0, <1>2, <1>4, <2>1, <2>2, <2>3, <3>1, PiReturned DEF PiInd
  <2>4. CASE GoesTo(o, "bundle")
    <3>1. TreeInv' /\ StampedTreeIsWhole' BY <1>0, <1>u, <2>4, PiGoes, TreeStays
    <3>2. op'[o].pc = "bundle" BY <1>0, <2>4, PiGoes
    <3>3. Relies(o)' BY <3>2 DEF Relies
    <3> QED BY <1>0, <1>2, <1>4, <2>1, <2>2, <2>4, <3>1, <3>3, PiGoes DEF PiInd
  <2>5. CASE op[o].kind = "launch" /\ GoesTo(o, "prepare")
    <3>1. TreeInv' /\ StampedTreeIsWhole' BY <1>0, <1>u, <2>5, PiGoes, TreeStays
    <3>2. op'[o].pc = "prepare" BY <1>0, <2>5, PiGoes
    <3>3. Relies(o)' BY <3>2, <1>6, <1>v, <2>5 DEF Relies
    <3> QED BY <1>0, <1>2, <1>4, <2>1, <2>2, <2>5, <3>1, <3>3, PiGoes DEF PiInd
  <2> QED BY <2>3, <2>4, <2>5, <1>6 DEF FinishInstall
<1> QED BY <1>5, <1>6 DEF FinishInstall

LEMMA BundleKeeps == ASSUME PiInd, NEW o \in PiOps, RefreshBundle(o) PROVE PiInd'
<1>0. PiTypes /\ op[o].pc = "bundle" /\ Returns(o) BY DEF PiInd, RefreshBundle, At
<1>u. UNCHANGED <<accepted, pkg, stamp, shim, zip, extract, tree, treeStamp, home, consoles, commands, doubt, broken, latest, mixed>>
  BY DEF RefreshBundle
<1>1. StampNamesThePackage' /\ ConsoleGetsItsLaunch' /\ ConsoleKeepsItsPackage' BY <1>u, PromisesStay
<1>2. bundle' \in {"none", "part", "all"} BY <1>0 DEF RefreshBundle, PiTypes
<1>3. TreeInv' /\ StampedTreeIsWhole' BY <1>0, <1>u, PiReturned, TreeStays
<1>4. op' \in [PiOps -> PiOpRecs] => PiTypes' BY <1>0, <1>u, <1>2 DEF PiTypes
<1> QED BY <1>0, <1>1, <1>3, <1>4, PiReturned DEF PiInd

LEMMA PrepareKeeps == ASSUME PiInd, NEW o \in PiOps, PreparePi(o) PROVE PiInd'
<1>0. PiTypes /\ op[o] \in PiOpRecs /\ op[o].pc = "prepare" /\ Relies(o) BY DEF PiInd, PiTypes, PreparePi, At
<1>u. UNCHANGED <<accepted, pkg, stamp, zip, extract, tree, treeStamp, home, consoles, commands, doubt, mixed, broken, latest>>
  BY DEF PreparePi, historyVars
<1>k. op[o].kind = "launch" BY <1>0 DEF PiOpRecs
<1>1. StampNamesThePackage' /\ ConsoleGetsItsLaunch' /\ ConsoleKeepsItsPackage' BY <1>u, PromisesStay
<1>2. shim' \in BOOLEAN /\ bundle' \in {"none", "part", "all"} /\ (Returns(o) \/ GoesTo(o, "models"))
  BY <1>0 DEF PreparePi, PiTypes
<1>3. op' \in [PiOps -> PiOpRecs] => PiTypes' BY <1>0, <1>u, <1>2 DEF PiTypes
<1>4. CASE Returns(o)
  <2>1. TreeInv' /\ StampedTreeIsWhole' BY <1>0, <1>u, <1>4, PiReturned, TreeStays
  <2> QED BY <1>0, <1>1, <1>3, <1>4, <2>1, PiReturned DEF PiInd
<1>5. CASE GoesTo(o, "models")
  <2>1. TreeInv' /\ StampedTreeIsWhole' BY <1>0, <1>u, <1>k, <1>5, PiGoes, TreeStays
  <2>2. op'[o].pc = "models" /\ op'[o].alone = op[o].alone BY <1>0, <1>k, <1>5, PiGoes
  <2>3. Relies(o)' BY <1>0, <1>u, <2>2 DEF Relies
  <2> QED BY <1>0, <1>1, <1>3, <1>k, <1>5, <2>1, <2>3, PiGoes DEF PiInd
<1> QED BY <1>2, <1>4, <1>5

\* The five files of the home, each with what the launch relies on after it.
LEMMA HomeKeeps ==
    ASSUME PiInd, NEW o \in PiOps,
           NEW file \in HomeFiles, NEW next \in {"settings", "context", "sync", "worker", "spawn"}, NEW fatal \in BOOLEAN,
           \/ file = "models" /\ next = "settings" /\ fatal
           \/ file = "settings" /\ next = "context" /\ fatal
           \/ file = "context" /\ next = "sync" /\ ~fatal
           \/ file = "config" /\ next = "worker" /\ ~fatal
           \/ file = "worker" /\ next = "spawn" /\ ~fatal,
           WriteHome(o, file, next, fatal)
    PROVE  PiInd'
<1>0. PiTypes /\ op[o] \in PiOpRecs /\ op[o].pc = file /\ Relies(o) BY DEF PiInd, PiTypes, WriteHome, At
<1>u. UNCHANGED <<accepted, pkg, stamp, shim, zip, extract, bundle, tree, treeStamp, consoles, commands, doubt, mixed, broken, latest>>
  BY DEF WriteHome, historyVars
<1>k. op[o].kind = "launch" /\ op[o].id \in 0 .. MaxCommands /\ op[o].pc # "rest" BY <1>0 DEF PiOpRecs
<1>w. file \in PiWarnings BY DEF HomeFiles, PiWarnings
<1>1. StampNamesThePackage' /\ ConsoleGetsItsLaunch' /\ ConsoleKeepsItsPackage' BY <1>u, PromisesStay
<1>2. op' \in [PiOps -> PiOpRecs] /\ home' \in [HomeFiles -> 0 .. MaxCommands] => PiTypes' BY <1>0, <1>u DEF PiTypes
<1>h. /\ home \in [HomeFiles -> 0 .. MaxCommands]
      /\ home' = [home EXCEPT ![file] = op[o].id] \/ home' \in {home, [home EXCEPT ![file] = 0]}
  BY <1>0 DEF PiTypes, WriteHome
<1>t. home' \in [HomeFiles -> 0 .. MaxCommands] /\ \A f \in HomeFiles : f # file => home'[f] = home[f]
  BY <1>h, <1>k, PiAssumption
<1>3. CASE Returns(o)
  <2>1. TreeInv' /\ StampedTreeIsWhole' BY <1>k, <1>u, <1>3, PiReturned, TreeStays
  <2> QED BY <1>k, <1>1, <1>2, <1>t, <1>3, <2>1, PiReturned DEF PiInd
<1>4. CASE GoesTo(o, next) /\ home' = [home EXCEPT ![file] = op[o].id]
  <2>1. /\ op' \in [PiOps -> PiOpRecs] /\ AloneAtWork' /\ \A p \in PiOps : p # o => op'[p] = op[p]
        /\ op'[o].pc = next /\ op'[o].kind = op[o].kind /\ op'[o].id = op[o].id
        /\ op'[o].alone = op[o].alone /\ op'[o].warned = op[o].warned
        /\ Relies(o)' => \A p \in PiOps : Relies(p)'
    BY <1>k, <1>4, PiGoes
  <2>2. TreeInv' /\ StampedTreeIsWhole' BY <1>u, <2>1, TreeStays
  <2>3. home'[file] = op[o].id BY <1>4, <1>h
  <2>4. Relies(o)' BY <1>0, <1>u, <1>t, <2>1, <2>3 DEF Relies, HomeFiles
  <2> QED BY <1>1, <1>2, <1>t, <2>1, <2>2, <2>4 DEF PiInd
<1>5. CASE ~fatal /\ Warns(o, file, next)
  <2>0. next \in {"sync", "config", "worker", "spawn"} BY <1>5
  <2>1. /\ op' \in [PiOps -> PiOpRecs] /\ AloneAtWork' /\ \A p \in PiOps : p # o => op'[p] = op[p]
        /\ op'[o].pc = next /\ op'[o].kind = op[o].kind /\ op'[o].id = op[o].id
        /\ op'[o].alone = op[o].alone /\ op'[o].warned = op[o].warned \cup {file}
        /\ Relies(o)' => \A p \in PiOps : Relies(p)'
    BY <1>k, <1>w, <1>5, <2>0, PiWarned
  <2>2. TreeInv' /\ StampedTreeIsWhole' BY <1>u, <2>0, <2>1, TreeStays
  <2>4. Relies(o)' BY <1>0, <1>u, <1>t, <1>5, <2>1 DEF Relies, HomeFiles
  <2> QED BY <1>1, <1>2, <1>t, <2>1, <2>2, <2>4 DEF PiInd
<1> QED BY <1>3, <1>4, <1>5 DEF WriteHome

LEMMA SyncKeeps == ASSUME PiInd, NEW o \in PiOps, SyncTree(o) PROVE PiInd'
<1>0. PiTypes /\ op[o] \in PiOpRecs /\ op[o].pc = "sync" /\ Relies(o) /\ TreeInv /\ StampedTreeIsWhole /\ AloneAtWork
  BY DEF PiInd, PiTypes, SyncTree, At
<1>u. UNCHANGED <<accepted, pkg, stamp, shim, zip, extract, bundle, home, consoles, commands, doubt, broken, latest>> BY DEF SyncTree
<1>k. op[o].kind = "launch" /\ op[o].pc # "rest" BY <1>0 DEF PiOpRecs
<1>m. mixed' = (mixed \/ ~op[o].alone) BY DEF SyncTree
<1>m2. mixed' \in BOOLEAN /\ (mixed => mixed') /\ (~mixed' => ~mixed /\ op[o].alone) BY <1>m, Zenon
<1>a. ~mixed' => \A p \in PiOps : p # o => op[p].pc = "rest" BY <1>0, <1>k, <1>m2 DEF AloneAtWork
<1>1. StampNamesThePackage' /\ ConsoleGetsItsLaunch' /\ ConsoleKeepsItsPackage' BY <1>u, PromisesStay
<1>2. op' \in [PiOps -> PiOpRecs] /\ tree' \in TreeRecs /\ treeStamp' \in 0 .. 2 => PiTypes' BY <1>0, <1>u, <1>m2 DEF PiTypes
<1>t. tree \in TreeRecs /\ treeStamp \in 0 .. 2 BY <1>0 DEF PiTypes
<1>w. "tree" \in PiWarnings BY DEF PiWarnings
<1>3. CASE /\ Warns(o, "tree", "config")
           /\ \/ UNCHANGED <<tree, treeStamp>>
              \/ tree.state # "none" /\ treeStamp # Pinned /\ tree' = [tree EXCEPT !.state = "part"] /\ treeStamp' \in {0, treeStamp}
  <2>1. /\ op' \in [PiOps -> PiOpRecs] /\ AloneAtWork' /\ \A p \in PiOps : p # o => op'[p] = op[p]
        /\ op'[o].pc = "config" /\ op'[o].kind = op[o].kind /\ op'[o].id = op[o].id
        /\ op'[o].alone = op[o].alone /\ op'[o].warned = op[o].warned \cup {"tree"}
        /\ Relies(o)' => \A p \in PiOps : Relies(p)'
    BY <1>k, <1>w, <1>3, PiWarned
  <2>2. Relies(o)' BY <1>0, <1>u, <2>1 DEF Relies
  <2>3. CASE UNCHANGED <<tree, treeStamp>>
    <3>1. TreeInv' /\ StampedTreeIsWhole' BY <1>m2, <2>1, <2>3, TreeStays
    <3> QED BY <1>1, <1>2, <1>t, <2>1, <2>2, <2>3, <3>1 DEF PiInd
  <2>4. CASE tree.state # "none" /\ treeStamp # Pinned /\ tree' = [tree EXCEPT !.state = "part"] /\ treeStamp' \in {0, treeStamp}
    <3>1. tree' \in TreeRecs /\ tree'.ver = tree.ver /\ treeStamp' \in 0 .. 2 BY <1>t, <2>4 DEF TreeRecs
    <3>2. treeStamp' # Pinned /\ (treeStamp' = Old => treeStamp = Old) BY <2>4 DEF Pinned, Old
    <3>3. StampedTreeIsWhole' BY <3>2 DEF StampedTreeIsWhole
    <3>4. ~mixed' => \A p \in PiOps : op'[p].pc \notin {"copy", "stamp"} BY <1>a, <2>1
    <3>5. tree'.ver = Old => \A p \in PiOps : op'[p].pc \notin {"copy", "stamp"} BY <1>0, <3>1, <2>1 DEF TreeInv
    <3>6. TreeInv' BY <1>0, <3>1, <3>2, <3>4, <3>5 DEF TreeInv
    <3> QED BY <1>1, <1>2, <2>1, <2>2, <3>1, <3>3, <3>6 DEF PiInd
  <2> QED BY <1>3, <2>3, <2>4
<1>4. CASE GoesTo(o, "config") /\ tree.state # "none" /\ treeStamp = Pinned /\ UNCHANGED <<tree, treeStamp>>
  <2>1. /\ op' \in [PiOps -> PiOpRecs] /\ AloneAtWork' /\ \A p \in PiOps : p # o => op'[p] = op[p]
        /\ op'[o].pc = "config" /\ op'[o].kind = op[o].kind /\ op'[o].id = op[o].id
        /\ op'[o].alone = op[o].alone /\ op'[o].warned = op[o].warned
        /\ Relies(o)' => \A p \in PiOps : Relies(p)'
    BY <1>k, <1>4, PiGoes
  <2>2. tree.ver = Pinned BY <1>t, <1>0, <1>4 DEF TreeRecs, TreeInv
  <2>3. Relies(o)' BY <1>0, <1>u, <1>4, <2>1, <2>2 DEF Relies
  <2>4. TreeInv' /\ StampedTreeIsWhole' BY <1>m2, <1>4, <2>1, TreeStays
  <2> QED BY <1>1, <1>2, <1>t, <1>4, <2>1, <2>3, <2>4 DEF PiInd
<1>5. CASE tree' = Nothing /\ treeStamp' = 0 /\ GoesTo(o, "copy")
  <2>1. /\ op' \in [PiOps -> PiOpRecs] /\ AloneAtWork' /\ \A p \in PiOps : p # o => op'[p] = op[p]
        /\ op'[o].pc = "copy" /\ op'[o].kind = op[o].kind /\ op'[o].id = op[o].id
        /\ op'[o].alone = op[o].alone /\ op'[o].warned = op[o].warned
        /\ Relies(o)' => \A p \in PiOps : Relies(p)'
    BY <1>k, <1>5, PiGoes
  <2>2. tree' \in TreeRecs /\ tree'.ver = 0 /\ treeStamp' = 0 BY <1>5 DEF Nothing, TreeRecs
  <2>3. Relies(o)' BY <1>0, <1>u, <2>1 DEF Relies
  <2>4. ~mixed' => \A p \in PiOps : p # o => op'[p].pc \notin {"copy", "stamp"} BY <1>a, <2>1
  <2>5. TreeInv' /\ StampedTreeIsWhole' BY <2>1, <2>2, <2>4 DEF TreeInv, StampedTreeIsWhole, Old, Pinned
  <2> QED BY <1>1, <1>2, <2>1, <2>2, <2>3, <2>5 DEF PiInd
<1> QED BY <1>3, <1>4, <1>5 DEF SyncTree

LEMMA CopyKeeps == ASSUME PiInd, NEW o \in PiOps, CopyTree(o) PROVE PiInd'
<1>0. PiTypes /\ op[o] \in PiOpRecs /\ op[o].pc = "copy" /\ Relies(o) /\ TreeInv /\ AloneAtWork
  BY DEF PiInd, PiTypes, CopyTree, At
<1>u. UNCHANGED <<accepted, pkg, stamp, shim, zip, extract, bundle, treeStamp, home, consoles, commands, doubt, broken, latest>>
  BY DEF CopyTree
<1>k. op[o].kind = "launch" /\ op[o].pc # "rest" BY <1>0 DEF PiOpRecs
<1>m. mixed' = (mixed \/ bundle # "all" \/ ~op[o].alone) BY DEF CopyTree
<1>m2. mixed' \in BOOLEAN /\ (~mixed' => ~mixed /\ bundle = "all" /\ op[o].alone) BY <1>m, Zenon
<1>a. ~mixed' => treeStamp = 0 /\ \A p \in PiOps : p # o => op[p].pc = "rest" BY <1>0, <1>k, <1>m2 DEF AloneAtWork, TreeInv
<1>1. StampNamesThePackage' /\ ConsoleGetsItsLaunch' /\ ConsoleKeepsItsPackage' BY <1>u, PromisesStay
<1>2. op' \in [PiOps -> PiOpRecs] /\ tree' \in TreeRecs => PiTypes' BY <1>0, <1>u, <1>m2 DEF PiTypes
<1>t. tree \in TreeRecs /\ tree.ver # Old /\ treeStamp # Old BY <1>0 DEF PiTypes, TreeInv
<1>s. \A s \in {"all", "part"} : [ver |-> Pinned, state |-> s] \in TreeRecs /\ [ver |-> Pinned, state |-> s].ver = Pinned
  BY DEF TreeRecs, Pinned
<1>w. "tree" \in PiWarnings BY DEF PiWarnings
<1>c. Old # Pinned /\ Pinned # 0 BY DEF Old, Pinned
<1>e. StampedTreeIsWhole' BY <1>a, <1>u, <1>c DEF StampedTreeIsWhole
<1>3. CASE tree' \in {tree, [ver |-> Pinned, state |-> "part"]} /\ Warns(o, "tree", "config")
  <2>1. /\ op' \in [PiOps -> PiOpRecs] /\ AloneAtWork' /\ \A p \in PiOps : p # o => op'[p] = op[p]
        /\ op'[o].pc = "config" /\ op'[o].kind = op[o].kind /\ op'[o].id = op[o].id
        /\ op'[o].alone = op[o].alone /\ op'[o].warned = op[o].warned \cup {"tree"}
        /\ Relies(o)' => \A p \in PiOps : Relies(p)'
    BY <1>k, <1>w, <1>3, PiWarned
  <2>2. Relies(o)' BY <1>0, <1>u, <2>1 DEF Relies
  <2>3. tree' \in TreeRecs /\ tree'.ver # Old BY <1>3, <1>t, <1>s, <1>c
  <2>4. ~mixed' => \A p \in PiOps : op'[p].pc \notin {"copy", "stamp"} BY <1>a, <2>1
  <2>5. TreeInv' BY <2>3, <2>4, <1>t, <1>u DEF TreeInv
  <2> QED BY <1>1, <1>2, <1>e, <2>1, <2>2, <2>3, <2>5 DEF PiInd
<1>4. CASE tree' = [ver |-> Pinned, state |-> IF bundle = "all" THEN "all" ELSE "part"] /\ GoesTo(o, "stamp")
  <2>1. /\ op' \in [PiOps -> PiOpRecs] /\ AloneAtWork' /\ \A p \in PiOps : p # o => op'[p] = op[p]
        /\ op'[o].pc = "stamp" /\ op'[o].kind = op[o].kind /\ op'[o].id = op[o].id
        /\ op'[o].alone = op[o].alone /\ op'[o].warned = op[o].warned
        /\ Relies(o)' => \A p \in PiOps : Relies(p)'
    BY <1>k, <1>4, PiGoes
  <2>3. tree' \in TreeRecs /\ tree'.ver = Pinned /\ (bundle = "all" => tree' = [ver |-> Pinned, state |-> "all"]) BY <1>4, <1>s
  <2>2. Relies(o)' BY <1>0, <1>u, <2>1, <2>3 DEF Relies
  <2>4. ~mixed' => \A p \in PiOps : p # o => op'[p].pc = "rest" BY <1>a, <2>1
  <2>5. ~mixed' => tree' = [ver |-> Pinned, state |-> "all"] BY <1>m2, <2>3
  <2>6. TreeInv' BY <2>1, <2>3, <2>4, <2>5, <1>t, <1>u, <1>c DEF TreeInv
  <2> QED BY <1>1, <1>2, <1>e, <2>1, <2>2, <2>3, <2>6 DEF PiInd
<1> QED BY <1>3, <1>4 DEF CopyTree

LEMMA StampKeeps == ASSUME PiInd, NEW o \in PiOps, StampTree(o) PROVE PiInd'
<1>0. PiTypes /\ op[o] \in PiOpRecs /\ op[o].pc = "stamp" /\ Relies(o) /\ TreeInv /\ StampedTreeIsWhole /\ GoesTo(o, "config")
  BY DEF PiInd, PiTypes, StampTree, At
<1>u. UNCHANGED <<accepted, pkg, stamp, shim, zip, extract, bundle, tree, home, consoles, commands, doubt, mixed, broken, latest>>
  BY DEF StampTree, historyVars
<1>k. op[o].kind = "launch" /\ op[o].pc # "rest" BY <1>0 DEF PiOpRecs
<1>s. treeStamp' \in {0, Pinned} /\ treeStamp' \in 0 .. 2 /\ treeStamp' # Old BY DEF StampTree, Pinned, Old
<1>1. StampNamesThePackage' /\ ConsoleGetsItsLaunch' /\ ConsoleKeepsItsPackage' BY <1>u, PromisesStay
<1>2. op' \in [PiOps -> PiOpRecs] => PiTypes' BY <1>0, <1>u, <1>s DEF PiTypes
<1>3. /\ op' \in [PiOps -> PiOpRecs] /\ AloneAtWork' /\ \A p \in PiOps : p # o => op'[p] = op[p]
      /\ op'[o].pc = "config" /\ op'[o].kind = op[o].kind /\ op'[o].id = op[o].id
      /\ op'[o].alone = op[o].alone /\ op'[o].warned = op[o].warned
      /\ Relies(o)' => \A p \in PiOps : Relies(p)'
  BY <1>0, <1>k, PiGoes
<1>4. ~mixed => tree = [ver |-> Pinned, state |-> "all"] /\ \A p \in PiOps : p # o => op[p].pc \notin {"copy", "stamp"}
  BY <1>0 DEF TreeInv
<1>5. StampedTreeIsWhole' BY <1>4, <1>u DEF StampedTreeIsWhole
<1>6. tree.ver # Old BY <1>0 DEF TreeInv
<1>7. ~mixed' => \A p \in PiOps : op'[p].pc \notin {"copy", "stamp"} BY <1>3, <1>4, <1>u
<1>8. TreeInv' BY <1>s, <1>u, <1>6, <1>7 DEF TreeInv
<1>9. Relies(o)' BY <1>0, <1>u, <1>3 DEF Relies
<1> QED BY <1>1, <1>2, <1>3, <1>5, <1>8, <1>9 DEF PiInd

LEMMA OpenKeeps == ASSUME PiInd, NEW o \in PiOps, OpenConsole(o) PROVE PiInd'
<1>0. /\ PiTypes /\ op[o] \in PiOpRecs /\ op[o].pc = "spawn" /\ Relies(o) /\ StampNamesThePackage /\ Returns(o)
      /\ ConsoleGetsItsLaunch /\ ConsoleKeepsItsPackage
  BY DEF PiInd, PiTypes, OpenConsole, At
<1>u. UNCHANGED <<accepted, pkg, stamp, shim, zip, extract, bundle, tree, treeStamp, home, commands, doubt, mixed, broken>>
  BY DEF OpenConsole, diskVars
<1>k. op[o].id \in 0 .. MaxCommands /\ op[o].pc # "rest" BY <1>0 DEF PiOpRecs
<1>1. op' \in [PiOps -> PiOpRecs] /\ AloneAtWork' /\ (\A p \in PiOps : Relies(p)') /\ TreeInv' /\ StampedTreeIsWhole'
  BY <1>0, <1>k, <1>u, PiReturned, TreeStays
<1>2. StampNamesThePackage' BY <1>0, <1>u DEF StampNamesThePackage
<1>3. CASE UNCHANGED <<consoles, latest>>
  <2>1. PiTypes' BY <1>0, <1>1, <1>u, <1>3 DEF PiTypes
  <2>2. ConsoleGetsItsLaunch' /\ ConsoleKeepsItsPackage' BY <1>u, <1>3, PromisesStay
  <2> QED BY <1>1, <1>2, <2>1, <2>2 DEF PiInd
<1>4. CASE /\ consoles' = consoles \cup {op[o].id}
           /\ latest' = [id |-> op[o].id, ver |-> pkg.ver, whole |-> pkg.state = "all", sure |-> ~doubt /\ stamp # 0,
                         home |-> home, tree |-> tree, warned |-> op[o].warned, alone |-> op[o].alone]
  <2>1. PiTypes'
    <3>1. consoles' \subseteq 0 .. MaxCommands BY <1>0, <1>k, <1>4 DEF PiTypes
    <3> QED BY <1>0, <1>1, <1>u, <3>1 DEF PiTypes
  <2>2. /\ latest'.id = op[o].id /\ latest'.ver = pkg.ver /\ latest'.whole = (pkg.state = "all")
        /\ latest'.sure = (~doubt /\ stamp # 0)
        /\ latest'.home = home /\ latest'.tree = tree /\ latest'.warned = op[o].warned /\ latest'.alone = op[o].alone
    BY <1>4
  <2>3. ConsoleGetsItsLaunch'
    <3> SUFFICES ASSUME latest'.alone
                 PROVE  /\ latest'.sure => latest'.ver = Pinned /\ latest'.whole
                        /\ latest'.home["models"] = latest'.id /\ latest'.home["settings"] = latest'.id
                        /\ \A f \in HomeFiles \ latest'.warned : latest'.home[f] = latest'.id
                        /\ "tree" \notin latest'.warned => latest'.tree.ver = Pinned
      BY DEF ConsoleGetsItsLaunch
    <3>0. op[o].alone BY <2>2
    <3>1. ASSUME latest'.sure PROVE latest'.ver = Pinned /\ latest'.whole
      <4>1. ~doubt /\ stamp # 0 BY <2>2, <3>1
      <4>2. stamp = Pinned BY <1>0, <1>k, <3>0, <4>1 DEF Relies
      <4>3. pkg = [ver |-> Pinned, state |-> "all"] BY <1>0, <4>1, <4>2 DEF StampNamesThePackage
      <4> QED BY <2>2, <4>3
    <3>2. home["models"] = op[o].id /\ home["settings"] = op[o].id BY <1>0, <1>k, <3>0 DEF Relies
    <3>3. \A f \in HomeFiles \ op[o].warned : home[f] = op[o].id BY <1>0, <1>k, <3>0 DEF Relies, HomeFiles
    <3>4. "tree" \notin op[o].warned => tree.ver = Pinned BY <1>0, <1>k, <3>0 DEF Relies
    <3> QED BY <2>2, <3>1, <3>2, <3>3, <3>4
  <2>4. ConsoleKeepsItsPackage' BY <2>2, <1>u DEF ConsoleKeepsItsPackage
  <2> QED BY <1>1, <1>2, <2>1, <2>3, <2>4 DEF PiInd
<1> QED BY <1>3, <1>4 DEF OpenConsole

LEMMA EndKeeps == ASSUME PiInd, NEW c \in consoles, ConsoleEnds(c) PROVE PiInd'
<1>0. /\ PiTypes /\ AloneAtWork /\ (\A o \in PiOps : Relies(o)) /\ TreeInv /\ StampNamesThePackage /\ ConsoleGetsItsLaunch
      /\ StampedTreeIsWhole /\ ConsoleKeepsItsPackage
  BY DEF PiInd
<1>u. UNCHANGED <<accepted, pkg, stamp, shim, zip, extract, bundle, tree, treeStamp, home, op, commands, doubt, mixed>>
  BY DEF ConsoleEnds, diskVars
<1>c. consoles' \subseteq consoles /\ broken' = (broken /\ consoles' # {}) /\ (latest' = latest \/ latest'.id = -1)
  BY DEF ConsoleEnds, NoConsole
<1>b. broken' \in BOOLEAN BY <1>c
<1>1. PiTypes' BY <1>0, <1>u, <1>c, <1>b DEF PiTypes
<1>2. AloneAtWork' BY <1>0, <1>u DEF AloneAtWork
<1>3. \A o \in PiOps : Relies(o)' BY <1>0, <1>u, <1>c DEF Relies
<1>4. TreeInv' /\ StampNamesThePackage' /\ StampedTreeIsWhole' BY <1>0, <1>u DEF TreeInv, StampNamesThePackage, StampedTreeIsWhole
<1>5. ConsoleGetsItsLaunch' BY <1>0, <1>c DEF ConsoleGetsItsLaunch
<1>6. ConsoleKeepsItsPackage'
  <2> SUFFICES ASSUME consoles' # {}, ~broken', latest'.id >= 0, latest'.whole PROVE pkg'.state = "all" /\ pkg'.ver = latest'.ver
    BY DEF ConsoleKeepsItsPackage
  <2>1. ~broken BY <1>c, Zenon
  <2>2. consoles # {} /\ latest' = latest BY <1>c
  <2> QED BY <1>0, <1>u, <2>1, <2>2 DEF ConsoleKeepsItsPackage
<1> QED BY <1>1, <1>2, <1>3, <1>4, <1>5, <1>6 DEF PiInd

LEMMA CrashKeeps == ASSUME PiInd, PiCrashes PROVE PiInd'
<1>0. PiTypes /\ TreeInv /\ StampNamesThePackage /\ ConsoleGetsItsLaunch /\ StampedTreeIsWhole /\ ConsoleKeepsItsPackage
  BY DEF PiInd
<1>u. UNCHANGED <<accepted, stamp, shim, zip, treeStamp, home, consoles, commands, mixed, latest>> BY DEF PiCrashes
<1>o. op' = [o \in PiOps |-> PiResting] BY DEF PiCrashes
<1>r. op' \in [PiOps -> PiOpRecs] /\ \A o \in PiOps : op'[o].pc = "rest" BY <1>o, PiResumes
<1>p. pkg' \in PkgRecs /\ extract' \in PkgRecs /\ bundle' \in {"none", "part", "all"}
  <2>1. pkg \in PkgRecs /\ \A s \in {"bare", "part"} : [pkg EXCEPT !.state = s] \in PkgRecs BY <1>0 DEF PiTypes, PkgRecs
  <2>2. pkg' \in PkgRecs
    <3>1. pkg' = pkg \/ \E s \in {"bare", "part"} : pkg' = [pkg EXCEPT !.state = s] BY DEF PiCrashes
    <3> QED BY <2>1, <3>1
  <2>3. extract' \in PkgRecs
    <3>1. extract \in PkgRecs /\ [ver |-> zip, state |-> "part"] \in PkgRecs BY <1>0 DEF PiTypes, PkgRecs
    <3> QED BY <3>1 DEF PiCrashes
  <2>4. bundle' \in {"none", "part", "all"} BY <1>0 DEF PiTypes, PiCrashes
  <2> QED BY <2>2, <2>3, <2>4
<1>b. doubt' = (doubt \/ pkg' # pkg) /\ broken' = (broken \/ pkg' # pkg) BY DEF PiCrashes
<1>b2. doubt' \in BOOLEAN /\ broken' \in BOOLEAN /\ (~doubt' => ~doubt /\ pkg' = pkg) /\ (~broken' => ~broken /\ pkg' = pkg)
  BY <1>b, Zenon
<1>t. \/ tree' = tree
      \/ tree' = [ver |-> Pinned, state |-> "part"] /\ \E o \in PiOps : op[o].pc = "copy"
      \/ tree' = [tree EXCEPT !.state = "part"] /\ treeStamp = Old
  BY DEF PiCrashes, At
<1>t2. tree' \in TreeRecs /\ (tree'.ver = tree.ver \/ (tree'.ver = Pinned /\ \E o \in PiOps : op[o].pc = "copy"))
  <2>1. tree \in TreeRecs BY <1>0 DEF PiTypes
  <2>2. treeStamp = Old => tree.ver = Old BY <1>0 DEF TreeInv
  <2> QED BY <1>t, <2>1, <2>2 DEF TreeRecs, Pinned, Old
<1>1. PiTypes' BY <1>0, <1>u, <1>r, <1>p, <1>b2, <1>t2 DEF PiTypes
<1>2. AloneAtWork' /\ \A o \in PiOps : Relies(o)' BY <1>r DEF AloneAtWork, Relies
<1>3. TreeInv' BY <1>0, <1>u, <1>r, <1>t2 DEF TreeInv, Old, Pinned
<1>4. StampNamesThePackage' BY <1>0, <1>u, <1>b2 DEF StampNamesThePackage
<1>5. ConsoleGetsItsLaunch' BY <1>0, <1>u DEF ConsoleGetsItsLaunch
<1>6. ConsoleKeepsItsPackage' BY <1>0, <1>u, <1>b2 DEF ConsoleKeepsItsPackage
<1>7. StampedTreeIsWhole'
  <2> SUFFICES ASSUME treeStamp = Pinned, ~mixed PROVE tree' = tree BY <1>0, <1>u DEF StampedTreeIsWhole
  <2>1. \A o \in PiOps : op[o].pc # "copy" BY <1>0 DEF TreeInv, Pinned
  <2> QED BY <1>t, <2>1 DEF Pinned, Old
<1> QED BY <1>1, <1>2, <1>3, <1>4, <1>5, <1>6, <1>7 DEF PiInd

LEMMA BeginKeeps == ASSUME PiInd, NEW o \in PiOps, NEW kind \in {"install", "launch", "update"}, PiBegins(o, kind) PROVE PiInd'
<1>0. PiTypes /\ op \in [PiOps -> PiOpRecs] /\ op[o].pc = "rest" /\ commands \in Nat /\ commands < MaxCommands /\ commands' = commands + 1
  BY PiAssumption DEF PiInd, PiTypes, PiBegins, At
<1>u. UNCHANGED <<accepted, pkg, stamp, shim, zip, extract, bundle, tree, treeStamp, home, consoles, doubt, mixed, broken, latest>>
  BY DEF PiBegins, diskVars, historyVars
<1> DEFINE alone == \A p \in PiOps : op[p].pc = "rest"
           pc == IF kind = "launch" THEN "ensure" ELSE "fetch"
<1>1. PICK v \in {Pinned, Old, Latest} :
        /\ kind = "launch" => v = Pinned
        /\ op' = [p \in PiOps |->
                   IF p = o THEN [pc |-> pc, kind |-> kind, id |-> commands + 1, ver |-> v, alone |-> alone, warned |-> {}]
                   ELSE [op[p] EXCEPT !.alone = @ /\ op[p].pc = "rest"]]
  BY DEF PiBegins
<1>2. /\ op'[o].pc = pc /\ op'[o].kind = kind /\ op'[o].alone = alone
      /\ op'[o] = [pc |-> pc, kind |-> kind, id |-> commands + 1, ver |-> v, alone |-> alone, warned |-> {}]
  BY <1>1
<1>a. alone \in BOOLEAN /\ pc \in {"ensure", "fetch"} /\ (alone => \A p \in PiOps : op[p].pc = "rest") /\ (pc = "fetch" => kind # "launch")
  OBVIOUS
<1> HIDE DEF alone
<1>3. op'[o] \in PiOpRecs
  <2>1. commands + 1 \in 0 .. MaxCommands /\ v \in 0 .. 3 BY <1>0, PiAssumption DEF Pinned, Old, Latest
  <2>2. [pc |-> pc, kind |-> kind, id |-> commands + 1, ver |-> v, alone |-> alone, warned |-> {}] \in PiOpRecs
    BY <1>1, <1>a, <2>1 DEF PiOpRecs
  <2> QED BY <1>2, <2>2
<1>4. ASSUME NEW p \in PiOps, p # o
      PROVE  op'[p] \in PiOpRecs /\ op'[p].pc = op[p].pc /\ (op'[p].alone => op[p].pc = "rest")
  <2>1. op'[p] = [op[p] EXCEPT !.alone = op[p].alone /\ op[p].pc = "rest"] BY <1>1, <1>4
  <2>2. op[p] \in PiOpRecs BY <1>0
  <2>3. (op[p].alone /\ op[p].pc = "rest") \in BOOLEAN OBVIOUS
  <2>4. ASSUME NEW b \in BOOLEAN PROVE LET r == [op[p] EXCEPT !.alone = b] IN r \in PiOpRecs /\ r.pc = op[p].pc /\ r.alone = b
    BY <2>2 DEF PiOpRecs
  <2>5. op'[p] \in PiOpRecs /\ op'[p].pc = op[p].pc /\ op'[p].alone = (op[p].alone /\ op[p].pc = "rest") BY <2>1, <2>3, <2>4
  <2> QED BY <2>5
<1>5. op' \in [PiOps -> PiOpRecs] BY <1>1, <1>3, <1>4
<1>6. commands' \in 0 .. MaxCommands BY <1>0, PiAssumption
<1>7. PiTypes' BY <1>0, <1>u, <1>5, <1>6 DEF PiTypes
<1>8. AloneAtWork' BY <1>2, <1>4, <1>a DEF AloneAtWork
<1>9. \A p \in PiOps : Relies(p)'
  <2>1. Relies(o)' BY <1>2, <1>a DEF Relies
  <2>2. \A p \in PiOps : p # o => Relies(p)' BY <1>4 DEF Relies
  <2> QED BY <2>1, <2>2
<1>10. TreeInv' /\ StampedTreeIsWhole'
  <2>1. op'[o].pc \notin {"copy", "stamp"} BY <1>2, <1>a
  <2>2. \A p \in PiOps : p # o => op'[p].pc = op[p].pc BY <1>4
  <2> QED BY <1>u, <2>1, <2>2, TreeStays
<1>11. StampNamesThePackage' /\ ConsoleGetsItsLaunch' /\ ConsoleKeepsItsPackage' BY <1>u, PromisesStay
<1> QED BY <1>7, <1>8, <1>9, <1>10, <1>11 DEF PiInd

LEMMA PiStarts == PiInit => PiInd
<1> SUFFICES ASSUME PiInit PROVE PiInd OBVIOUS
<1>1. op \in [PiOps -> PiOpRecs] /\ \A o \in PiOps : op[o].pc = "rest" BY PiResumes DEF PiInit
<1>2. PiTypes
  <2>1. pkg \in PkgRecs /\ extract \in PkgRecs /\ tree \in TreeRecs BY DEF PiInit, PkgRecs, TreeRecs, Nothing, Old, Pinned
  <2>2. home \in [HomeFiles -> 0 .. MaxCommands] /\ consoles \subseteq 0 .. MaxCommands /\ commands \in 0 .. MaxCommands
    BY PiAssumption DEF PiInit
  <2>3. /\ accepted \in BOOLEAN /\ shim \in BOOLEAN
        /\ stamp \in 0 .. 3 /\ treeStamp \in 0 .. 2
    <3>1. accepted \in BOOLEAN /\ shim \in BOOLEAN BY Zenon DEF PiInit
    <3>2. stamp \in {0, Old} /\ treeStamp \in {0, Old} BY Zenon DEF PiInit
    <3> QED BY <3>1, <3>2 DEF Old
  <2>4. zip \in 0 .. 3 /\ bundle \in {"none", "part", "all"} BY DEF PiInit
  <2>5. doubt \in BOOLEAN /\ mixed \in BOOLEAN /\ broken \in BOOLEAN BY DEF PiInit
  <2> QED BY <1>1, <2>1, <2>2, <2>3, <2>4, <2>5 DEF PiTypes
<1>3. AloneAtWork /\ \A o \in PiOps : Relies(o) BY <1>1 DEF AloneAtWork, Relies
<1>4. TreeInv /\ StampedTreeIsWhole BY <1>1 DEF TreeInv, StampedTreeIsWhole, PiInit, Nothing, Old, Pinned
<1>5. StampNamesThePackage BY DEF StampNamesThePackage, PiInit
<1>6. latest = NoConsole \/ (latest = [NoConsole EXCEPT !.id = 0, !.ver = Old] /\ pkg.ver = Old) BY DEF PiInit
<1>n. /\ NoConsole.id = -1
      /\ LET r == [NoConsole EXCEPT !.id = 0, !.ver = Old] IN r.id = 0 /\ r.ver = Old
  BY DEF NoConsole
<1>7. ConsoleGetsItsLaunch
  <2>1. latest.id = -1 \/ latest.id = 0 BY <1>6, <1>n
  <2> QED BY <2>1 DEF ConsoleGetsItsLaunch
<1>8. ConsoleKeepsItsPackage
  <2>1. latest.id = -1 \/ (latest.ver = Old /\ pkg.ver = Old) BY <1>6, <1>n
  <2>2. pkg.ver = Old => pkg.state = "all" BY DEF PiInit, Nothing, Old
  <2> QED BY <2>1, <2>2 DEF ConsoleKeepsItsPackage
<1> QED BY <1>2, <1>3, <1>4, <1>5, <1>7, <1>8 DEF PiInd

\* The agent's package, home, tree and consoles (pi_code.rs): for any number
\* of commands, interleaved, failing and cut off at every write, the stamps
\* name whole copies, a console gets what its own launch wrote, and the
\* package of a console that runs stays.
THEOREM PiKept == PiSpec => []PiInv
<1>1. PiInd /\ [PiNext]_piVars => PiInd'
  <2> SUFFICES ASSUME PiInd, [PiNext]_piVars PROVE PiInd' OBVIOUS
  <2>1. CASE UNCHANGED piVars
    <3>1. UNCHANGED <<accepted, pkg, stamp, shim, zip, extract, bundle, tree, treeStamp, home, consoles, op, commands,
                      doubt, mixed, broken, latest>>
      BY <2>1 DEF piVars, diskVars, historyVars
    <3> QED BY <3>1 DEF PiInd, PiTypes, AloneAtWork, Relies, TreeInv, StampNamesThePackage, ConsoleGetsItsLaunch,
                        StampedTreeIsWhole, ConsoleKeepsItsPackage
  <2>2. CASE Accept
    <3>1. UNCHANGED <<pkg, stamp, shim, zip, extract, bundle, tree, treeStamp, home, consoles, op, commands,
                      doubt, mixed, broken, latest>> /\ accepted' \in BOOLEAN
      BY <2>2 DEF Accept, historyVars
    <3> QED BY <3>1 DEF PiInd, PiTypes, AloneAtWork, Relies, TreeInv, StampNamesThePackage, ConsoleGetsItsLaunch,
                        StampedTreeIsWhole, ConsoleKeepsItsPackage
  <2>3. ASSUME NEW o \in PiOps,
               \/ WriteHome(o, "models", "settings", TRUE) \/ WriteHome(o, "settings", "context", TRUE)
               \/ WriteHome(o, "context", "sync", FALSE) \/ WriteHome(o, "config", "worker", FALSE)
               \/ WriteHome(o, "worker", "spawn", FALSE)
        PROVE  PiInd'
    <3>1. {"models", "settings", "context", "config", "worker"} = HomeFiles BY DEF HomeFiles
    <3> QED BY <2>3, <3>1, HomeKeeps
  <2>4. CASE PiCrashes BY <2>4, CrashKeeps
  <2>5. CASE \E c \in consoles : ConsoleEnds(c) BY <2>5, EndKeeps
  <2>6. ASSUME NEW o \in PiOps,
               \/ \E kind \in {"install", "launch", "update"} : PiBegins(o, kind)
               \/ EnsurePinned(o) \/ Fetch(o) \/ Unpack(o) \/ ClearPackage(o) \/ MovePackage(o) \/ FinishInstall(o)
        PROVE  PiInd'
    BY <2>6, BeginKeeps, EnsureKeeps, FetchKeeps, UnpackKeeps, ClearKeeps, MoveKeeps, FinishKeeps
  <2>7. ASSUME NEW o \in PiOps,
               RefreshBundle(o) \/ PreparePi(o) \/ SyncTree(o) \/ CopyTree(o) \/ StampTree(o) \/ OpenConsole(o)
        PROVE  PiInd'
    BY <2>7, BundleKeeps, PrepareKeeps, SyncKeeps, CopyKeeps, StampKeeps, OpenKeeps
  <2> QED BY <2>1, <2>2, <2>3, <2>4, <2>5, <2>6, <2>7 DEF PiNext
<1>2. PiInd => PiInv
  <2>1. PiInd => PiTypeOK BY DEF PiInd, PiTypes, PiTypeOK, PkgRecs, TreeRecs
  <2> QED BY <2>1 DEF PiInd, PiInv
<1> QED BY <1>1, <1>2, PiStarts, PTL DEF PiSpec
-----------------------------------------------------------------------------
(* The Link app *)

AppSettings == [off : BOOLEAN, stopped : BOOLEAN]
BootSteps == {"rest", "ask", "pair", "enter", "load", "loadOwn", "save", "saveOwn", "drop", "last", "start"}
AppTypes ==
    /\ linkUp \in BOOLEAN /\ asHelper \in BOOLEAN /\ invite \in BOOLEAN /\ stray \in BOOLEAN
    /\ hosted \in BOOLEAN /\ excused \in BOOLEAN
    /\ linkCfg \in AppSettings /\ boot \in [pc : BootSteps, copy : AppSettings, stopped : BOOLEAN]
    /\ identity \in 0 .. MaxPairings
    /\ helper \in {"none", "alive", "dead"} /\ seat \in {"none", "local", "cloud", "ended"}

\* With the network off no bootstrap is about to start the client either.
QuietAhead == linkCfg.off /\ ~excused => helper # "alive" /\ seat # "cloud" /\ boot.pc # "start"
AppInd == AppTypes /\ QuietAhead

LEMMA LinkAppStarts == AppInit => AppInd
<1> SUFFICES ASSUME AppInit PROVE AppInd OBVIOUS
<1>1. linkUp \in BOOLEAN /\ asHelper \in BOOLEAN /\ invite \in BOOLEAN /\ stray \in BOOLEAN
      /\ hosted \in BOOLEAN /\ excused \in BOOLEAN
  BY Zenon DEF AppInit
<1>2. AtRest \in [pc : BootSteps, copy : AppSettings, stopped : BOOLEAN] /\ AtRest.pc = "rest"
  BY DEF AtRest, AppSettings, BootSteps
<1>3. linkCfg \in AppSettings /\ linkCfg.off = FALSE BY DEF AppInit, AppSettings
<1>4. boot = AtRest /\ identity \in 0 .. MaxPairings /\ helper = "none" /\ seat = "none"
  BY LinkAppAssumption DEF AppInit
<1> QED BY <1>1, <1>2, <1>3, <1>4 DEF AppInd, AppTypes, QuietAhead

LEMMA StoppedIsSet ==
    ASSUME NEW c \in AppSettings, NEW v \in BOOLEAN
    PROVE  [c EXCEPT !.stopped = v] \in AppSettings /\ [c EXCEPT !.stopped = v].off = c.off
BY DEF AppSettings

LEMMA AppSteps == AppInd /\ [AppNext]_appVars => AppInd'
<1> SUFFICES ASSUME AppInd, [AppNext]_appVars PROVE AppInd' OBVIOUS
<1>t. /\ linkUp \in BOOLEAN /\ asHelper \in BOOLEAN /\ invite \in BOOLEAN /\ stray \in BOOLEAN
      /\ hosted \in BOOLEAN /\ excused \in BOOLEAN
      /\ linkCfg \in AppSettings /\ boot \in [pc : BootSteps, copy : AppSettings, stopped : BOOLEAN]
      /\ identity \in 0 .. MaxPairings
      /\ helper \in {"none", "alive", "dead"} /\ seat \in {"none", "local", "cloud", "ended"}
      /\ QuietAhead
  BY DEF AppInd, AppTypes
<1> USE <1>t, LinkAppAssumption DEF AppInd, AppTypes, QuietAhead, AppSettings, BootSteps, AtRest, GoTo, StartHelper
<1>1. CASE AppOpens BY <1>1 DEF AppOpens
<1>2. CASE AppExits BY <1>2 DEF AppExits
<1>3. CASE LinkAppCrashes BY <1>3 DEF LinkAppCrashes
<1>4. CASE ClientEnds
  <2>1. CASE helper = "alive" /\ helper' = "dead" /\ UNCHANGED stray BY <2>1, <1>4 DEF ClientEnds
  <2>2. CASE stray /\ stray' = FALSE /\ UNCHANGED helper
    <3>1. stray' \in BOOLEAN /\ UNCHANGED <<linkUp, asHelper, linkCfg, identity, invite, helper, seat, hosted, boot, excused>>
      BY <2>2, <1>4, Zenon DEF ClientEnds
    <3> QED BY <3>1
  <2> QED BY <2>1, <2>2, <1>4 DEF ClientEnds
<1>5a. CASE ServiceFilesChange BY <1>5a DEF ServiceFilesChange
<1>5b. CASE InviteArrives BY <1>5b DEF InviteArrives
<1>5. CASE ServiceFilesChange \/ InviteArrives BY <1>5a, <1>5b, <1>5
<1>6. ASSUME NEW on \in BOOLEAN, NetworkSet(on) PROVE AppInd'
  <2>1. CASE ~on BY <2>1, <1>6 DEF NetworkSet
  <2>2. CASE on
    <3>1. helper' \in {"none", "alive", "dead"} /\ linkCfg'.off = FALSE /\ linkCfg' \in AppSettings
      BY <2>2, <1>6 DEF NetworkSet
    <3>2. UNCHANGED <<linkUp, asHelper, identity, invite, stray, seat, hosted, boot, excused>>
      BY <2>2, <1>6 DEF NetworkSet
    <3> HIDE DEF AppSettings
    <3> QED BY <3>1, <3>2
  <2> QED BY <2>1, <2>2
<1>7. ASSUME NEW off \in BOOLEAN, NEW stopped \in BOOLEAN, SettingsSet(off, stopped) PROVE AppInd'
  BY <1>7 DEF SettingsSet
<1>8. CASE PortableStart \/ HelperReconnect BY <1>8 DEF PortableStart, HelperReconnect
<1>s. [linkCfg EXCEPT !.stopped = TRUE] \in AppSettings /\ [linkCfg EXCEPT !.stopped = TRUE].off = linkCfg.off
      /\ [linkCfg EXCEPT !.stopped = FALSE] \in AppSettings
  BY StoppedIsSet
<1>9a. CASE HelperStop
  <2>1. linkCfg' \in AppSettings /\ linkCfg'.off = linkCfg.off BY <1>9a, <1>s DEF HelperStop
  <2> HIDE DEF AppSettings
  <2> QED BY <1>9a, <2>1 DEF HelperStop
<1>9b. CASE HelperForget
  <2>1. linkCfg' \in AppSettings /\ linkCfg'.off = linkCfg.off BY <1>9b, <1>s DEF HelperForget
  <2>2. invite' \in BOOLEAN BY <1>9b, Zenon DEF HelperForget
  <2>3. helper' = "none" /\ identity' = 0 /\ UNCHANGED <<linkUp, asHelper, stray, seat, hosted, boot, excused>>
    BY <1>9b DEF HelperForget
  <2> HIDE DEF AppSettings
  <2> QED BY <2>1, <2>2, <2>3
<1>9c. CASE ServiceInstall BY <1>9c DEF ServiceInstall
<1>9. CASE HelperStop \/ HelperForget \/ ServiceInstall BY <1>9a, <1>9b, <1>9c, <1>9
<1>10. ASSUME NEW provider \in {"local", "cloud"}, AssistantStart(provider) PROVE AppInd' BY <1>10 DEF AssistantStart
<1>11. CASE AssistantEnds \/ AssistantStop BY <1>11 DEF AssistantEnds, AssistantStop
<1>12. CASE BootBegin \/ PairBegin BY <1>12 DEF BootBegin, PairBegin
<1>13. CASE BootAsk BY <1>13 DEF BootAsk
<1>14. CASE BootStart BY <1>14 DEF BootStart
<1>15. CASE Paired
  <2>1. CASE boot' = AtRest /\ UNCHANGED identity BY <2>1, <1>15 DEF Paired
  <2>2. CASE identity < MaxPairings /\ identity' = identity + 1 /\ GoTo(IF boot.pc = "pair" THEN "load" ELSE "loadOwn")
    BY <2>2, <1>15 DEF Paired
  <2> QED BY <2>1, <2>2, <1>15 DEF Paired
<1>16. CASE LoadCopy
  <2>1. PICK c \in AppSettings, p \in {"save", "saveOwn"} : boot' = [boot EXCEPT !.pc = p, !.copy = c]
    BY <1>16, <1>s DEF LoadCopy
  <2>2. UNCHANGED <<linkUp, asHelper, linkCfg, identity, invite, helper, stray, seat, hosted, excused>>
    BY <1>16 DEF LoadCopy
  <2> HIDE DEF AppSettings
  <2>3. boot' \in [pc : BootSteps, copy : AppSettings, stopped : BOOLEAN] /\ boot'.pc = p BY <2>1
  <2> QED BY <2>2, <2>3
<1>17. CASE SaveCopy BY <1>17 DEF SaveCopy
<1>18a. CASE DropInvite BY <1>18a DEF DropInvite
<1>18b. CASE BootLast BY <1>18b DEF BootLast
<1>18. CASE DropInvite \/ BootLast BY <1>18a, <1>18b, <1>18
<1>19. CASE UNCHANGED appVars BY <1>19 DEF appVars
<1> QED BY <1>1, <1>2, <1>3, <1>4, <1>5, <1>6, <1>7, <1>8, <1>9, <1>10, <1>11, <1>12, <1>13, <1>14, <1>15,
           <1>16, <1>17, <1>18, <1>19 DEF AppNext

LEMMA AppIndSays == AppInd => LinkAppInv
BY DEF AppInd, AppTypes, AppSettings, QuietAhead, LinkAppInv, AppTypeOK, QuietWhenOff

-----------------------------------------------------------------------------
(* The Link service *)

Handed == 0 .. MaxHandOvers
LoopSteps == {"down", "look", "kill", "prepare", "ident", "token", "spawn", "assign", "check", "write"}
ServiceTypes ==
    /\ flag \in BOOLEAN /\ xml \in BOOLEAN /\ torn \in BOOLEAN /\ loose \in BOOLEAN
    /\ script \in {"none", "files", "start"}
    /\ handed \in Handed /\ pairing \in Handed
    /\ base \in [boot : Handed, id : Handed, token : Handed]
    /\ svc \in [pc : LoopSteps, off : BOOLEAN, carry : Handed]
    /\ svcChild \in [st : {"none", "alive", "dead"}, job : BOOLEAN, key : Handed]
    /\ status \in {"none", "stopped", "running", "starting"}

\* The loop: where it stands tells whether a client may be there, and what it
\* carries.
LoopKnows ==
    /\ svc.pc \in {"down", "prepare", "ident", "token", "spawn"} => svcChild.st = "none"
    /\ svc.off => svc.pc \in {"kill", "check", "write", "look"}
    /\ svc.off /\ svc.pc # "kill" => svcChild.st = "none"
    /\ script = "start" => svc.pc = "down"
    /\ svc.carry # 0 <=> svc.pc \in {"ident", "token"}
    /\ status = "stopped" /\ svc.pc = "look" => svcChild.st = "none"

\* A pairing travels from the app to the two files and is in one place.
PairingTravels ==
    /\ script = "files" <=> handed # 0
    /\ handed # 0 => handed = pairing
    /\ handed = 0 /\ base.boot # 0 => base.boot = pairing
    /\ handed = 0 /\ svc.carry # 0 => svc.carry = pairing
    /\ svc.pc = "token" => base.id = svc.carry
    /\ ~torn /\ svc.carry = 0 => base.id = base.token
    /\ ~torn /\ svc.pc = "spawn" => base.token # 0
    /\ ~torn /\ svcChild.st # "none" => svcChild.key = base.token /\ base.token # 0
    /\ base.boot = 0 /\ svc.carry = 0 /\ xml /\ pairing # 0 /\ handed = 0 /\ ~torn => base.token = pairing

ServiceInd == ServiceTypes /\ LoopKnows /\ PairingTravels

LEMMA ServiceStarts == ServiceInit => ServiceInd
<1> SUFFICES ASSUME ServiceInit PROVE ServiceInd OBVIOUS
<1>0. 0 \in Handed BY LinkServiceAssumption DEF Handed
<1>1. flag \in BOOLEAN /\ xml \in BOOLEAN /\ torn \in BOOLEAN /\ loose \in BOOLEAN BY Zenon DEF ServiceInit
<1>2. /\ script = "none" /\ handed = 0 /\ pairing = 0 /\ base = [boot |-> 0, id |-> 0, token |-> 0]
      /\ svc = [pc |-> "down", off |-> FALSE, carry |-> 0]
      /\ svcChild = [st |-> "none", job |-> FALSE, key |-> 0] /\ status = "none"
  BY DEF ServiceInit, Down, NoClient
<1> QED BY <1>0, <1>1, <1>2 DEF ServiceInd, ServiceTypes, LoopKnows, PairingTravels, LoopSteps

LEMMA ServiceSteps == ServiceInd /\ [ServiceNext]_serviceVars => ServiceInd'
<1> SUFFICES ASSUME ServiceInd, [ServiceNext]_serviceVars PROVE ServiceInd' OBVIOUS
<1>t. /\ flag \in BOOLEAN /\ xml \in BOOLEAN /\ torn \in BOOLEAN /\ loose \in BOOLEAN
      /\ script \in {"none", "files", "start"} /\ handed \in Handed /\ pairing \in Handed
      /\ base \in [boot : Handed, id : Handed, token : Handed]
      /\ svc \in [pc : LoopSteps, off : BOOLEAN, carry : Handed]
      /\ svcChild \in [st : {"none", "alive", "dead"}, job : BOOLEAN, key : Handed]
      /\ status \in {"none", "stopped", "running", "starting"}
      /\ LoopKnows /\ PairingTravels
  BY DEF ServiceInd, ServiceTypes
<1>0. 0 \in Handed /\ Handed \subseteq Nat /\ 1 .. MaxHandOvers \subseteq Handed BY LinkServiceAssumption DEF Handed
<1> USE <1>t, <1>0 DEF ServiceInd, ServiceTypes, LoopKnows, PairingTravels, LoopSteps, Down, NoClient, Turn, Fails, ServiceEnds
<1>1. ASSUME NEW on \in BOOLEAN, FlagSet(on) PROVE ServiceInd' BY <1>1 DEF FlagSet
<1>2. CASE HandOver
  <2>1. pairing' \in Handed /\ pairing' # 0 /\ pairing' \in 1 .. MaxHandOvers BY <1>2 DEF HandOver
  <2> QED BY <1>2, <2>1 DEF HandOver
<1>3. CASE InstallFiles BY <1>3 DEF InstallFiles
<1>4. CASE InstallStarts BY <1>4 DEF InstallStarts
<1>5. CASE Uninstalled BY <1>5 DEF Uninstalled
<1>6. CASE ServiceKilled BY <1>6 DEF ServiceKilled
<1>7. CASE Look
  <2>1. CASE flag
    <3>1. svc' = [svc EXCEPT !.off = flag, !.pc = "kill"] BY <2>1, <1>7 DEF Look
    <3>2. svc' \in [pc : LoopSteps, off : BOOLEAN, carry : Handed] /\ svc'.pc = "kill" /\ svc'.carry = svc.carry
      BY <3>1
    <3>3. svc.pc = "look" /\ UNCHANGED <<flag, xml, script, handed, pairing, base, svcChild, status, torn, loose>>
      BY <1>7 DEF Look
    <3> QED BY <3>2, <3>3
  <2>2. CASE ~flag /\ svcChild.st = "none" BY <2>2, <1>7 DEF Look
  <2>3. CASE ~flag /\ svcChild.st # "none" BY <2>3, <1>7 DEF Look
  <2> QED BY <2>1, <2>2, <2>3
<1>8. CASE KillClient BY <1>8 DEF KillClient
<1>9. CASE Prepare
  <2>1. CASE base.boot # 0
    <3>1. svc.pc = "prepare" /\ ~svc.off /\ svcChild.st = "none" /\ svc.carry = 0 BY <1>9 DEF Prepare
    <3>2. /\ svc' \in [pc : LoopSteps, off : BOOLEAN, carry : Handed]
          /\ svc'.pc = "ident" /\ svc'.carry = base.boot /\ svc'.off = svc.off
      BY <2>1, <1>9 DEF Prepare
    <3>3. /\ base' \in [boot : Handed, id : Handed, token : Handed]
          /\ base'.boot = 0 /\ base'.id = base.id /\ base'.token = base.token
      BY <2>1, <1>9 DEF Prepare
    <3>4. UNCHANGED <<flag, xml, script, handed, pairing, svcChild, status, torn, loose>> BY <1>9 DEF Prepare
    <3>5. ServiceTypes' BY <3>2, <3>3, <3>4
    <3>6. LoopKnows' BY <2>1, <3>1, <3>2, <3>4
    <3>7. PairingTravels' BY <2>1, <3>1, <3>2, <3>3, <3>4
    <3> QED BY <3>5, <3>6, <3>7
  <2>2. CASE base.boot = 0 /\ base.id # 0 /\ base.token # 0 BY <2>2, <1>9 DEF Prepare
  <2>3. CASE base.boot = 0 /\ ~(base.id # 0 /\ base.token # 0) BY <2>3, <1>9 DEF Prepare
  <2> QED BY <2>1, <2>2, <2>3
<1>f. ASSUME svc.pc \in {"ident", "token"}, Fails, torn' = TRUE,
             UNCHANGED <<flag, xml, script, handed, pairing, base, svcChild, status, loose>>
      PROVE  ServiceInd'
  <2>1. svc' \in [pc : LoopSteps, off : BOOLEAN, carry : Handed] /\ svc'.pc = "check" /\ svc'.carry = 0 /\ svc'.off = svc.off
    BY <1>f
  <2>2. svcChild.st = "none" /\ torn' \in BOOLEAN BY <1>f
  <2> HIDE DEF Fails
  <2> QED BY <2>1, <2>2, <1>f
<1>10. CASE WriteIdentity
  <2>1. CASE base' = [base EXCEPT !.id = svc.carry] /\ Turn("token") /\ UNCHANGED torn BY <2>1, <1>10 DEF WriteIdentity
  <2>2. CASE Fails /\ torn' = TRUE /\ UNCHANGED base BY <2>2, <1>10, <1>f DEF WriteIdentity
  <2> QED BY <2>1, <2>2, <1>10 DEF WriteIdentity
<1>11. CASE WriteToken
  <2>1. CASE base' = [base EXCEPT !.token = svc.carry] /\ svc' = [svc EXCEPT !.pc = "spawn", !.carry = 0] /\ UNCHANGED torn
    BY <2>1, <1>11 DEF WriteToken
  <2>2. CASE Fails /\ torn' = TRUE /\ UNCHANGED base BY <2>2, <1>11, <1>f DEF WriteToken
  <2> QED BY <2>1, <2>2, <1>11 DEF WriteToken
<1>12. CASE SpawnLink
  <2>1. CASE svcChild' = [st |-> "alive", job |-> FALSE, key |-> base.token] /\ Turn("assign") BY <2>1, <1>12 DEF SpawnLink
  <2>2. CASE Turn("check") /\ UNCHANGED svcChild BY <2>2, <1>12 DEF SpawnLink
  <2> QED BY <2>1, <2>2, <1>12 DEF SpawnLink
<1>13. CASE AssignJob BY <1>13 DEF AssignJob
<1>14. CASE LinkEnds
  <2>1. CASE svcChild.st = "alive" /\ svcChild' = [svcChild EXCEPT !.st = "dead"] /\ UNCHANGED loose BY <2>1, <1>14 DEF LinkEnds
  <2>2. CASE loose /\ loose' = FALSE /\ UNCHANGED svcChild
    <3>1. loose' \in BOOLEAN BY <2>2, Zenon
    <3> QED BY <3>1, <2>2, <1>14 DEF LinkEnds
  <2> QED BY <2>1, <2>2, <1>14 DEF LinkEnds
<1>15. CASE TryWait BY <1>15 DEF TryWait
<1>16. CASE WriteStatus BY <1>16 DEF WriteStatus
<1>17. CASE UNCHANGED serviceVars BY <1>17 DEF serviceVars
<1> QED BY <1>1, <1>2, <1>3, <1>4, <1>5, <1>6, <1>7, <1>8, <1>9, <1>10, <1>11, <1>12, <1>13, <1>14, <1>15,
           <1>16, <1>17 DEF ServiceNext

LEMMA ServiceIndSays == ServiceInd => ServiceInv
<1> SUFFICES ASSUME ServiceInd PROVE ServiceInv OBVIOUS
<1>1. ServiceTypeOK BY DEF ServiceInd, ServiceTypes, ServiceTypeOK, Handed
<1>2. StoppedMeansStopped BY DEF ServiceInd, LoopKnows, StoppedMeansStopped
<1>3. CredentialsAreOnePairing
  <2>1. svcChild.st # "none" => svc.carry = 0
    BY DEF ServiceInd, LoopKnows
  <2> QED BY <2>1 DEF ServiceInd, ServiceTypes, PairingTravels, CredentialsAreOnePairing
<1> QED BY <1>1, <1>2, <1>3 DEF ServiceInv

-----------------------------------------------------------------------------
(* The model calls of a Power Mode run: frames on the socket *)

IsQueue(q) == \E S : q \in Seq(S)
ChunkAt(q, i, r) == q[i].kind = "chunk" /\ q[i].call = r
EndAt(q, i, r) == q[i].kind = "end" /\ q[i].call = r

\* the chunks of call r on the way are those after the base that was seen, in
\* order and without a gap, and none that was not sent
InOrder(q, r, base0, sent) ==
    /\ \A i, j \in 1 .. Len(q) : i < j /\ ChunkAt(q, i, r) /\ ChunkAt(q, j, r) => q[i].n < q[j].n
    /\ \A i \in 1 .. Len(q) : ChunkAt(q, i, r) =>
          /\ q[i].n \in Nat /\ base0 < q[i].n /\ q[i].n <= sent
          /\ q[i].n = base0 + 1 \/ \E j \in 1 .. Len(q) : j < i /\ ChunkAt(q, j, r) /\ q[j].n = q[i].n - 1

\* the last chunk that was sent was seen or is on the way
Reaches(q, r, base0, sent) == sent = base0 \/ \E i \in 1 .. Len(q) : ChunkAt(q, i, r) /\ q[i].n = sent

\* the end comes last, after every chunk that was sent
EndLast(q, r, base0, sent) ==
    \A i \in 1 .. Len(q) : EndAt(q, i, r) =>
        /\ \A j \in 1 .. Len(q) : i < j => ~ChunkAt(q, j, r) /\ ~EndAt(q, j, r)
        /\ sent = base0 \/ \E j \in 1 .. Len(q) : j < i /\ ChunkAt(q, j, r) /\ q[j].n = sent

Delivery(q, r, base0, sent) == InOrder(q, r, base0, sent) /\ EndLast(q, r, base0, sent)
OneRequest(q, r) == \A i, j \in 1 .. Len(q) :
    i < j => ~(q[i].kind = "request" /\ q[i].call = r /\ q[j].kind = "request" /\ q[j].call = r)

LEMMA QueueEmpty == IsQueue(<<>>) /\ Len(<<>>) = 0
<1>1. <<>> \in Seq({}) /\ Len(<<>>) = 0 OBVIOUS
<1> QED BY <1>1 DEF IsQueue

LEMMA QueueAppend ==
    ASSUME NEW q, IsQueue(q), NEW f
    PROVE  /\ IsQueue(Append(q, f)) /\ Len(q) \in Nat /\ Len(Append(q, f)) = Len(q) + 1
           /\ Append(q, f)[Len(q) + 1] = f /\ \A i \in 1 .. Len(q) : Append(q, f)[i] = q[i]
           /\ DOMAIN q = 1 .. Len(q) /\ DOMAIN Append(q, f) = 1 .. Len(q) + 1
<1>1. PICK S : q \in Seq(S) BY DEF IsQueue
<1> DEFINE T == S \cup {f}
<1>2. q \in Seq(T) /\ f \in T BY <1>1
<1> HIDE DEF T
<1>3. Append(q, f) \in Seq(T) BY <1>2
<1> QED BY <1>2, <1>3 DEF IsQueue

LEMMA QueueTail ==
    ASSUME NEW q, IsQueue(q), q # <<>>
    PROVE  /\ IsQueue(Tail(q)) /\ Len(q) \in Nat \ {0} /\ Len(Tail(q)) = Len(q) - 1 /\ Head(q) = q[1]
           /\ \A i \in 1 .. Len(q) - 1 : Tail(q)[i] = q[i + 1]
           /\ DOMAIN q = 1 .. Len(q) /\ DOMAIN Tail(q) = 1 .. Len(q) - 1
<1>1. PICK S : q \in Seq(S) BY DEF IsQueue
<1>2. Tail(q) \in Seq(S) BY <1>1
<1> QED BY <1>1, <1>2 DEF IsQueue

LEMMA QueuePrefix ==
    ASSUME NEW q, IsQueue(q), NEW n \in 0 .. Len(q)
    PROVE  /\ IsQueue(SubSeq(q, 1, n)) /\ Len(SubSeq(q, 1, n)) = n
           /\ \A i \in 1 .. n : SubSeq(q, 1, n)[i] = q[i]
           /\ DOMAIN q = 1 .. Len(q) /\ DOMAIN SubSeq(q, 1, n) = 1 .. n
<1>1. PICK S : q \in Seq(S) BY DEF IsQueue
<1>2. Len(q) \in Nat /\ DOMAIN q = 1 .. Len(q) BY <1>1
<1>3. SubSeq(q, 1, n) = [i \in 1 .. n |-> q[i]]
  BY <1>1, <1>2
<1>4. \A i \in 1 .. n : q[i] \in S BY <1>1, <1>2
<1>5. [i \in 1 .. n |-> q[i]] \in Seq(S) BY <1>2, <1>4
<1> QED BY <1>2, <1>3, <1>5 DEF IsQueue

\* what is on the way after a frame was appended, or taken
LEMMA UnderAppend ==
    ASSUME NEW q, IsQueue(q), NEW f, NEW k, NEW r
    PROVE  Under(Append(q, f), k, r) <=> Under(q, k, r) \/ (f.kind = k /\ f.call = r)
<1> DEFINE p == Append(q, f)
<1>1. /\ Len(q) \in Nat /\ p[Len(q) + 1] = f /\ \A i \in 1 .. Len(q) : p[i] = q[i]
      /\ DOMAIN q = 1 .. Len(q) /\ DOMAIN p = 1 .. Len(q) + 1
  BY QueueAppend
<1> HIDE DEF p
<1>2. Under(p, k, r) <=> Under(q, k, r) \/ (f.kind = k /\ f.call = r)
  <2>1. ASSUME Under(q, k, r) PROVE Under(p, k, r) BY <1>1, <2>1 DEF Under
  <2>2. ASSUME f.kind = k /\ f.call = r PROVE Under(p, k, r)
    <3>1. Len(q) + 1 \in DOMAIN p BY <1>1
    <3> QED BY <1>1, <2>2, <3>1 DEF Under
  <2>3. ASSUME Under(p, k, r), ~Under(q, k, r) PROVE f.kind = k /\ f.call = r
    <3>1. PICK i \in DOMAIN p : p[i].kind = k /\ p[i].call = r BY <2>3 DEF Under
    <3>2. i = Len(q) + 1 BY <1>1, <2>3, <3>1 DEF Under
    <3> QED BY <1>1, <3>1, <3>2
  <2> QED BY <2>1, <2>2, <2>3
<1> QED BY <1>2 DEF p

LEMMA UnderTail ==
    ASSUME NEW q, IsQueue(q), q # <<>>, NEW k, NEW r
    PROVE  Under(q, k, r) <=> Under(Tail(q), k, r) \/ (Head(q).kind = k /\ Head(q).call = r)
<1> DEFINE p == Tail(q)
<1>1. /\ Len(q) \in Nat \ {0} /\ Head(q) = q[1] /\ \A i \in 1 .. Len(q) - 1 : p[i] = q[i + 1]
      /\ DOMAIN q = 1 .. Len(q) /\ DOMAIN p = 1 .. Len(q) - 1
  BY QueueTail
<1> HIDE DEF p
<1>2. ASSUME Under(p, k, r) PROVE Under(q, k, r)
  <2>1. PICK i \in DOMAIN p : p[i].kind = k /\ p[i].call = r BY <1>2 DEF Under
  <2>2. i + 1 \in DOMAIN q /\ q[i + 1] = p[i] BY <1>1, <2>1
  <2> QED BY <2>1, <2>2 DEF Under
<1>3. ASSUME q[1].kind = k /\ q[1].call = r PROVE Under(q, k, r)
  <2>1. 1 \in DOMAIN q BY <1>1
  <2> QED BY <1>3, <2>1 DEF Under
<1>4. ASSUME Under(q, k, r), ~(q[1].kind = k /\ q[1].call = r) PROVE Under(p, k, r)
  <2>1. PICK i \in DOMAIN q : q[i].kind = k /\ q[i].call = r BY <1>4 DEF Under
  <2>2. i # 1 BY <1>4, <2>1
  <2>3. i - 1 \in DOMAIN p /\ p[i - 1] = q[i] BY <1>1, <2>1, <2>2
  <2> QED BY <2>1, <2>3 DEF Under
<1> QED BY <1>1, <1>2, <1>3, <1>4 DEF p

LEMMA UnderEmpty == ASSUME NEW k, NEW r PROVE ~Under(<<>>, k, r)
BY DEF Under

LEMMA UnderPrefix ==
    ASSUME NEW q, IsQueue(q), NEW n \in 0 .. Len(q), NEW k, NEW r, Under(SubSeq(q, 1, n), k, r)
    PROVE  Under(q, k, r)
<1> DEFINE p == SubSeq(q, 1, n)
<1>1. /\ \A i \in 1 .. n : p[i] = q[i]
      /\ DOMAIN q = 1 .. Len(q) /\ DOMAIN p = 1 .. n
  BY QueuePrefix
<1>2. PICK i \in DOMAIN p : p[i].kind = k /\ p[i].call = r BY DEF Under
<1>0. Len(q) \in Nat BY QueueAppend
<1> HIDE DEF p
<1>3. i \in DOMAIN q /\ q[i] = p[i] BY <1>0, <1>1, <1>2
<1> QED BY <1>2, <1>3 DEF Under

\* A frame that is neither a chunk nor the end of the call changes nothing.
LEMMA OtherAppended ==
    ASSUME NEW q, IsQueue(q), NEW f, NEW r, NEW b0 \in Nat, NEW sent \in Nat,
           ~(f.kind \in {"chunk", "end"} /\ f.call = r)
    PROVE  /\ Delivery(q, r, b0, sent) => Delivery(Append(q, f), r, b0, sent)
           /\ Reaches(q, r, b0, sent) => Reaches(Append(q, f), r, b0, sent)
<1> DEFINE p == Append(q, f)
<1>1. /\ Len(q) \in Nat /\ Len(p) = Len(q) + 1 /\ p[Len(q) + 1] = f /\ \A i \in 1 .. Len(q) : p[i] = q[i]
  BY QueueAppend
<1> HIDE DEF p
<1>2. /\ \A i \in 1 .. Len(p) : ChunkAt(p, i, r) => i \in 1 .. Len(q) /\ ChunkAt(q, i, r) /\ p[i] = q[i]
      /\ \A i \in 1 .. Len(p) : EndAt(p, i, r) => i \in 1 .. Len(q) /\ EndAt(q, i, r)
      /\ \A i \in 1 .. Len(q) : i \in 1 .. Len(p) /\ (ChunkAt(q, i, r) => ChunkAt(p, i, r) /\ p[i] = q[i])
  BY <1>1 DEF ChunkAt, EndAt
<1>3. ASSUME InOrder(q, r, b0, sent) PROVE InOrder(p, r, b0, sent)
  <2>1. ASSUME NEW i \in 1 .. Len(p), ChunkAt(p, i, r)
        PROVE  /\ p[i].n \in Nat /\ b0 < p[i].n /\ p[i].n <= sent
               /\ p[i].n = b0 + 1 \/ \E j \in 1 .. Len(p) : j < i /\ ChunkAt(p, j, r) /\ p[j].n = p[i].n - 1
    <3>1. /\ i \in 1 .. Len(q) /\ p[i] = q[i] /\ q[i].n \in Nat /\ b0 < q[i].n /\ q[i].n <= sent
          /\ q[i].n = b0 + 1 \/ \E j \in 1 .. Len(q) : j < i /\ ChunkAt(q, j, r) /\ q[j].n = q[i].n - 1
      BY <1>2, <1>3, <2>1 DEF InOrder
    <3> QED BY <1>2, <3>1
  <2>2. \A i, j \in 1 .. Len(p) : i < j /\ ChunkAt(p, i, r) /\ ChunkAt(p, j, r) => p[i].n < p[j].n
    BY <1>2, <1>3 DEF InOrder
  <2> QED BY <2>1, <2>2 DEF InOrder
<1>4. ASSUME EndLast(q, r, b0, sent) PROVE EndLast(p, r, b0, sent)
  <2>1. ASSUME NEW i \in 1 .. Len(p), EndAt(p, i, r)
        PROVE  /\ \A j \in 1 .. Len(p) : i < j => ~ChunkAt(p, j, r) /\ ~EndAt(p, j, r)
               /\ sent = b0 \/ \E j \in 1 .. Len(p) : j < i /\ ChunkAt(p, j, r) /\ p[j].n = sent
    <3>1. /\ i \in 1 .. Len(q) /\ \A j \in 1 .. Len(q) : i < j => ~ChunkAt(q, j, r) /\ ~EndAt(q, j, r)
          /\ sent = b0 \/ \E j \in 1 .. Len(q) : j < i /\ ChunkAt(q, j, r) /\ q[j].n = sent
      BY <1>2, <1>4, <2>1 DEF EndLast
    <3> QED BY <1>2, <3>1
  <2> QED BY <2>1 DEF EndLast
<1>5. ASSUME Reaches(q, r, b0, sent) PROVE Reaches(p, r, b0, sent) BY <1>2, <1>5 DEF Reaches
<1> QED BY <1>3, <1>4, <1>5 DEF Delivery, p

\* the next chunk of the call is sent
LEMMA ChunkAppended ==
    ASSUME NEW q, IsQueue(q), NEW f, NEW r, NEW b0 \in Nat, NEW sent \in Nat, b0 <= sent,
           f.kind = "chunk", f.call = r, f.n = sent + 1,
           Delivery(q, r, b0, sent), Reaches(q, r, b0, sent), ~Under(q, "end", r)
    PROVE  Delivery(Append(q, f), r, b0, sent + 1) /\ Reaches(Append(q, f), r, b0, sent + 1)
<1> DEFINE p == Append(q, f)
<1>1. /\ Len(q) \in Nat /\ Len(p) = Len(q) + 1 /\ p[Len(q) + 1] = f /\ \A i \in 1 .. Len(q) : p[i] = q[i]
      /\ DOMAIN q = 1 .. Len(q)
  BY QueueAppend
<1> HIDE DEF p
<1>2. /\ \A i \in 1 .. Len(p) : ChunkAt(p, i, r) => i = Len(q) + 1 \/ (i \in 1 .. Len(q) /\ ChunkAt(q, i, r) /\ p[i] = q[i])
      /\ \A i \in 1 .. Len(p) : ~EndAt(p, i, r)
      /\ \A i \in 1 .. Len(q) : i \in 1 .. Len(p) /\ i < Len(q) + 1 /\ (ChunkAt(q, i, r) => ChunkAt(p, i, r) /\ p[i] = q[i])
      /\ Len(q) + 1 \in 1 .. Len(p) /\ ChunkAt(p, Len(q) + 1, r) /\ p[Len(q) + 1].n = sent + 1
  BY <1>1 DEF ChunkAt, EndAt, Under
<1>3. \A i \in 1 .. Len(q) : ChunkAt(q, i, r) => q[i].n \in Nat /\ q[i].n <= sent BY DEF Delivery, InOrder
<1>4. \A i, j \in 1 .. Len(p) : i < j /\ ChunkAt(p, i, r) /\ ChunkAt(p, j, r) => p[i].n < p[j].n
  <2> SUFFICES ASSUME NEW i \in 1 .. Len(p), NEW j \in 1 .. Len(p), i < j, ChunkAt(p, i, r), ChunkAt(p, j, r)
               PROVE  p[i].n < p[j].n
    OBVIOUS
  <2>1. i \in 1 .. Len(q) /\ ChunkAt(q, i, r) /\ p[i] = q[i] BY <1>1, <1>2
  <2>2. CASE j = Len(q) + 1 BY <2>1, <2>2, <1>2, <1>3
  <2>3. CASE j \in 1 .. Len(q) /\ ChunkAt(q, j, r) /\ p[j] = q[j] BY <2>1, <2>3 DEF Delivery, InOrder
  <2> QED BY <1>2, <2>2, <2>3
<1>5. ASSUME NEW i \in 1 .. Len(p), ChunkAt(p, i, r)
      PROVE  /\ p[i].n \in Nat /\ b0 < p[i].n /\ p[i].n <= sent + 1
             /\ p[i].n = b0 + 1 \/ \E j \in 1 .. Len(p) : j < i /\ ChunkAt(p, j, r) /\ p[j].n = p[i].n - 1
  <2>1. CASE i = Len(q) + 1
    <3>1. p[i].n = sent + 1 BY <2>1, <1>2
    <3>2. CASE sent = b0 BY <3>1, <3>2
    <3>3. CASE sent # b0
      <4>1. PICK j \in 1 .. Len(q) : ChunkAt(q, j, r) /\ q[j].n = sent BY <3>3 DEF Reaches
      <4>2. j \in 1 .. Len(p) /\ j < i /\ ChunkAt(p, j, r) /\ p[j].n = p[i].n - 1 BY <4>1, <3>1, <2>1, <1>2
      <4> QED BY <4>2, <3>1
    <3> QED BY <3>2, <3>3
  <2>2. CASE i \in 1 .. Len(q) /\ ChunkAt(q, i, r) /\ p[i] = q[i]
    <3>1. /\ q[i].n \in Nat /\ b0 < q[i].n /\ q[i].n <= sent
          /\ q[i].n = b0 + 1 \/ \E j \in 1 .. Len(q) : j < i /\ ChunkAt(q, j, r) /\ q[j].n = q[i].n - 1
      BY <2>2 DEF Delivery, InOrder
    <3>2. CASE q[i].n = b0 + 1 BY <3>1, <3>2, <2>2
    <3>3. CASE q[i].n # b0 + 1
      <4>1. PICK j \in 1 .. Len(q) : j < i /\ ChunkAt(q, j, r) /\ q[j].n = q[i].n - 1 BY <3>1, <3>3
      <4>2. j \in 1 .. Len(p) /\ ChunkAt(p, j, r) /\ p[j].n = p[i].n - 1 BY <4>1, <2>2, <1>2
      <4> QED BY <4>1, <4>2, <3>1, <2>2
    <3> QED BY <3>2, <3>3
  <2> QED BY <1>2, <1>5, <2>1, <2>2
<1>6. InOrder(p, r, b0, sent + 1) BY <1>4, <1>5 DEF InOrder
<1>7. EndLast(p, r, b0, sent + 1) BY <1>2 DEF EndLast
<1>8. Reaches(p, r, b0, sent + 1) BY <1>2 DEF Reaches
<1> QED BY <1>6, <1>7, <1>8 DEF Delivery, p

\* the end of the call is sent
LEMMA EndAppended ==
    ASSUME NEW q, IsQueue(q), NEW f, NEW r, NEW b0 \in Nat, NEW sent \in Nat, f.kind = "end", f.call = r,
           Delivery(q, r, b0, sent), Reaches(q, r, b0, sent), ~Under(q, "end", r)
    PROVE  Delivery(Append(q, f), r, b0, sent) /\ Reaches(Append(q, f), r, b0, sent)
<1> DEFINE p == Append(q, f)
<1>1. /\ Len(q) \in Nat /\ Len(p) = Len(q) + 1 /\ p[Len(q) + 1] = f /\ \A i \in 1 .. Len(q) : p[i] = q[i]
      /\ DOMAIN q = 1 .. Len(q)
  BY QueueAppend
<1> HIDE DEF p
<1>2. /\ \A i \in 1 .. Len(p) : ChunkAt(p, i, r) => i \in 1 .. Len(q) /\ ChunkAt(q, i, r) /\ p[i] = q[i]
      /\ \A i \in 1 .. Len(p) : EndAt(p, i, r) => i = Len(q) + 1
      /\ \A i \in 1 .. Len(q) : i \in 1 .. Len(p) /\ i < Len(q) + 1 /\ (ChunkAt(q, i, r) => ChunkAt(p, i, r) /\ p[i] = q[i])
  BY <1>1 DEF ChunkAt, EndAt, Under
<1>3. InOrder(p, r, b0, sent)
  <2>1. ASSUME NEW i \in 1 .. Len(p), ChunkAt(p, i, r)
        PROVE  /\ p[i].n \in Nat /\ b0 < p[i].n /\ p[i].n <= sent
               /\ p[i].n = b0 + 1 \/ \E j \in 1 .. Len(p) : j < i /\ ChunkAt(p, j, r) /\ p[j].n = p[i].n - 1
    <3>1. /\ i \in 1 .. Len(q) /\ p[i] = q[i] /\ q[i].n \in Nat /\ b0 < q[i].n /\ q[i].n <= sent
          /\ q[i].n = b0 + 1 \/ \E j \in 1 .. Len(q) : j < i /\ ChunkAt(q, j, r) /\ q[j].n = q[i].n - 1
      BY <1>2, <2>1 DEF Delivery, InOrder
    <3> QED BY <1>2, <3>1
  <2>2. \A i, j \in 1 .. Len(p) : i < j /\ ChunkAt(p, i, r) /\ ChunkAt(p, j, r) => p[i].n < p[j].n
    BY <1>2 DEF Delivery, InOrder
  <2> QED BY <2>1, <2>2 DEF InOrder
<1>4. Reaches(p, r, b0, sent) BY <1>2 DEF Reaches
<1>5. EndLast(p, r, b0, sent)
  <2>1. ASSUME NEW i \in 1 .. Len(p), EndAt(p, i, r)
        PROVE  /\ \A j \in 1 .. Len(p) : i < j => ~ChunkAt(p, j, r) /\ ~EndAt(p, j, r)
               /\ sent = b0 \/ \E j \in 1 .. Len(p) : j < i /\ ChunkAt(p, j, r) /\ p[j].n = sent
    <3>1. i = Len(q) + 1 BY <1>2, <2>1
    <3>2. \A j \in 1 .. Len(p) : ~(i < j) BY <3>1, <1>1
    <3>3. sent = b0 \/ \E j \in 1 .. Len(q) : ChunkAt(q, j, r) /\ q[j].n = sent BY DEF Reaches
    <3> QED BY <3>1, <3>2, <3>3, <1>2
  <2> QED BY <2>1 DEF EndLast
<1> QED BY <1>3, <1>4, <1>5 DEF Delivery, p

\* A frame is taken that is neither a chunk nor the end of the call.
LEMMA OtherTaken ==
    ASSUME NEW q, IsQueue(q), q # <<>>, NEW r, NEW b0 \in Nat, NEW sent \in Nat,
           ~(Head(q).kind \in {"chunk", "end"} /\ Head(q).call = r)
    PROVE  /\ Delivery(q, r, b0, sent) => Delivery(Tail(q), r, b0, sent)
           /\ Reaches(q, r, b0, sent) => Reaches(Tail(q), r, b0, sent)
<1> DEFINE p == Tail(q)
<1>1. /\ Len(q) \in Nat \ {0} /\ Len(p) = Len(q) - 1 /\ Head(q) = q[1] /\ \A i \in 1 .. Len(q) - 1 : p[i] = q[i + 1]
  BY QueueTail
<1> HIDE DEF p
<1>2. /\ \A i \in 1 .. Len(p) : /\ i + 1 \in 1 .. Len(q) /\ p[i] = q[i + 1]
                                /\ ChunkAt(p, i, r) <=> ChunkAt(q, i + 1, r)
                                /\ EndAt(p, i, r) <=> EndAt(q, i + 1, r)
      /\ \A i \in 1 .. Len(q) : ChunkAt(q, i, r) =>
            i - 1 \in 1 .. Len(p) /\ ChunkAt(p, i - 1, r) /\ p[i - 1] = q[i]
  <2>1. ASSUME NEW i \in 1 .. Len(p)
        PROVE  /\ i + 1 \in 1 .. Len(q) /\ p[i] = q[i + 1]
               /\ (ChunkAt(p, i, r) <=> ChunkAt(q, i + 1, r)) /\ (EndAt(p, i, r) <=> EndAt(q, i + 1, r))
    BY <1>1 DEF ChunkAt, EndAt
  <2>2. ASSUME NEW i \in 1 .. Len(q), ChunkAt(q, i, r)
        PROVE  i - 1 \in 1 .. Len(p) /\ ChunkAt(p, i - 1, r) /\ p[i - 1] = q[i]
    <3>1. i # 1 BY <1>1, <2>2 DEF ChunkAt
    <3>2. i - 1 \in 1 .. Len(q) - 1 /\ (i - 1) + 1 = i BY <1>1, <3>1
    <3>3. p[i - 1] = q[i] BY <1>1, <3>2
    <3> QED BY <1>1, <2>2, <3>2, <3>3 DEF ChunkAt
  <2> QED BY <2>1, <2>2
<1>3. ASSUME InOrder(q, r, b0, sent) PROVE InOrder(p, r, b0, sent)
  <2>1. ASSUME NEW i \in 1 .. Len(p), ChunkAt(p, i, r)
        PROVE  /\ p[i].n \in Nat /\ b0 < p[i].n /\ p[i].n <= sent
               /\ p[i].n = b0 + 1 \/ \E j \in 1 .. Len(p) : j < i /\ ChunkAt(p, j, r) /\ p[j].n = p[i].n - 1
    <3>0. i + 1 \in 1 .. Len(q) /\ p[i] = q[i + 1] /\ ChunkAt(q, i + 1, r) BY <1>2, <2>1
    <3>1. /\ q[i + 1].n \in Nat /\ b0 < q[i + 1].n /\ q[i + 1].n <= sent
          /\ q[i + 1].n = b0 + 1 \/ \E j \in 1 .. Len(q) : j < i + 1 /\ ChunkAt(q, j, r) /\ q[j].n = q[i + 1].n - 1
      BY <1>3, <3>0 DEF InOrder
    <3>2. CASE q[i + 1].n = b0 + 1 BY <3>0, <3>1, <3>2
    <3>3. CASE q[i + 1].n # b0 + 1
      <4>1. PICK j \in 1 .. Len(q) : j < i + 1 /\ ChunkAt(q, j, r) /\ q[j].n = q[i + 1].n - 1 BY <3>1, <3>3
      <4>2. j - 1 \in 1 .. Len(p) /\ ChunkAt(p, j - 1, r) /\ p[j - 1] = q[j] /\ j - 1 < i BY <1>1, <1>2, <4>1
      <4> QED BY <3>0, <3>1, <4>1, <4>2
    <3> QED BY <3>2, <3>3
  <2>2. \A i, j \in 1 .. Len(p) : i < j /\ ChunkAt(p, i, r) /\ ChunkAt(p, j, r) => p[i].n < p[j].n
    <3> SUFFICES ASSUME NEW i \in 1 .. Len(p), NEW j \in 1 .. Len(p), i < j, ChunkAt(p, i, r), ChunkAt(p, j, r)
                 PROVE  p[i].n < p[j].n
      OBVIOUS
    <3>1. i + 1 < j + 1 /\ i + 1 \in 1 .. Len(q) /\ j + 1 \in 1 .. Len(q) BY <1>1, <1>2
    <3> QED BY <1>2, <1>3, <3>1 DEF InOrder
  <2> QED BY <2>1, <2>2 DEF InOrder
<1>4. ASSUME EndLast(q, r, b0, sent) PROVE EndLast(p, r, b0, sent)
  <2>1. ASSUME NEW i \in 1 .. Len(p), EndAt(p, i, r)
        PROVE  /\ \A j \in 1 .. Len(p) : i < j => ~ChunkAt(p, j, r) /\ ~EndAt(p, j, r)
               /\ sent = b0 \/ \E j \in 1 .. Len(p) : j < i /\ ChunkAt(p, j, r) /\ p[j].n = sent
    <3>1. /\ i + 1 \in 1 .. Len(q) /\ \A j \in 1 .. Len(q) : i + 1 < j => ~ChunkAt(q, j, r) /\ ~EndAt(q, j, r)
          /\ sent = b0 \/ \E j \in 1 .. Len(q) : j < i + 1 /\ ChunkAt(q, j, r) /\ q[j].n = sent
      BY <1>2, <1>4, <2>1 DEF EndLast
    <3>2. \A j \in 1 .. Len(p) : i < j => ~ChunkAt(p, j, r) /\ ~EndAt(p, j, r)
      <4> SUFFICES ASSUME NEW j \in 1 .. Len(p), i < j PROVE ~ChunkAt(p, j, r) /\ ~EndAt(p, j, r) OBVIOUS
      <4>1. i + 1 < j + 1 /\ j + 1 \in 1 .. Len(q) BY <1>1, <1>2
      <4> QED BY <1>2, <3>1, <4>1
    <3>3. CASE sent = b0 BY <3>2, <3>3
    <3>4. CASE sent # b0
      <4>1. PICK j \in 1 .. Len(q) : j < i + 1 /\ ChunkAt(q, j, r) /\ q[j].n = sent BY <3>1, <3>4
      <4>2. j - 1 \in 1 .. Len(p) /\ ChunkAt(p, j - 1, r) /\ p[j - 1] = q[j] /\ j - 1 < i BY <1>1, <1>2, <4>1
      <4> QED BY <3>2, <4>1, <4>2
    <3> QED BY <3>3, <3>4
  <2> QED BY <2>1 DEF EndLast
<1>5. ASSUME Reaches(q, r, b0, sent) PROVE Reaches(p, r, b0, sent) BY <1>2, <1>5 DEF Reaches
<1> QED BY <1>3, <1>4, <1>5 DEF Delivery, p

\* A chunk of the call is taken: it is the next one.
LEMMA ChunkTaken ==
    ASSUME NEW q, IsQueue(q), q # <<>>, NEW r, NEW b0 \in Nat, NEW sent \in Nat,
           Head(q).kind = "chunk", Head(q).call = r, Delivery(q, r, b0, sent)
    PROVE  /\ Head(q).n = b0 + 1 /\ b0 + 1 <= sent /\ Delivery(Tail(q), r, b0 + 1, sent)
           /\ Reaches(q, r, b0, sent) => Reaches(Tail(q), r, b0 + 1, sent)
<1> DEFINE p == Tail(q)
<1>1. /\ Len(q) \in Nat \ {0} /\ Len(p) = Len(q) - 1 /\ Head(q) = q[1] /\ \A i \in 1 .. Len(q) - 1 : p[i] = q[i + 1]
  BY QueueTail
<1>h. 1 \in 1 .. Len(q) /\ ChunkAt(q, 1, r) BY <1>1 DEF ChunkAt
<1>n. q[1].n = b0 + 1 /\ b0 + 1 <= sent BY <1>1, <1>h DEF Delivery, InOrder
<1>l. \A i \in 1 .. Len(q) : ChunkAt(q, i, r) /\ i # 1 => b0 + 1 < q[i].n BY <1>1, <1>h, <1>n DEF Delivery, InOrder
<1> HIDE DEF p
<1>2. /\ \A i \in 1 .. Len(p) : /\ i + 1 \in 1 .. Len(q) /\ p[i] = q[i + 1]
                                /\ ChunkAt(p, i, r) <=> ChunkAt(q, i + 1, r)
                                /\ EndAt(p, i, r) <=> EndAt(q, i + 1, r)
      /\ \A i \in 1 .. Len(q) : ChunkAt(q, i, r) /\ i # 1 =>
            i - 1 \in 1 .. Len(p) /\ ChunkAt(p, i - 1, r) /\ p[i - 1] = q[i]
  <2>1. ASSUME NEW i \in 1 .. Len(p)
        PROVE  /\ i + 1 \in 1 .. Len(q) /\ p[i] = q[i + 1]
               /\ (ChunkAt(p, i, r) <=> ChunkAt(q, i + 1, r)) /\ (EndAt(p, i, r) <=> EndAt(q, i + 1, r))
    BY <1>1 DEF ChunkAt, EndAt
  <2>2. ASSUME NEW i \in 1 .. Len(q), ChunkAt(q, i, r), i # 1
        PROVE  i - 1 \in 1 .. Len(p) /\ ChunkAt(p, i - 1, r) /\ p[i - 1] = q[i]
    <3>2. i - 1 \in 1 .. Len(q) - 1 /\ (i - 1) + 1 = i BY <1>1, <2>2
    <3>3. p[i - 1] = q[i] BY <1>1, <3>2
    <3> QED BY <1>1, <2>2, <3>2, <3>3 DEF ChunkAt
  <2> QED BY <2>1, <2>2
<1>3. InOrder(p, r, b0 + 1, sent)
  <2>1. ASSUME NEW i \in 1 .. Len(p), ChunkAt(p, i, r)
        PROVE  /\ p[i].n \in Nat /\ b0 + 1 < p[i].n /\ p[i].n <= sent
               /\ p[i].n = (b0 + 1) + 1 \/ \E j \in 1 .. Len(p) : j < i /\ ChunkAt(p, j, r) /\ p[j].n = p[i].n - 1
    <3>0. i + 1 \in 1 .. Len(q) /\ i + 1 # 1 /\ p[i] = q[i + 1] /\ ChunkAt(q, i + 1, r) BY <1>1, <1>2, <2>1
    <3>1. /\ q[i + 1].n \in Nat /\ b0 + 1 < q[i + 1].n /\ q[i + 1].n <= sent
          /\ q[i + 1].n = b0 + 1 \/ \E j \in 1 .. Len(q) : j < i + 1 /\ ChunkAt(q, j, r) /\ q[j].n = q[i + 1].n - 1
      BY <1>l, <3>0 DEF Delivery, InOrder
    <3>5. q[i + 1].n # b0 + 1 BY <3>1
    <3>2. PICK j \in 1 .. Len(q) : j < i + 1 /\ ChunkAt(q, j, r) /\ q[j].n = q[i + 1].n - 1 BY <3>1, <3>5
    <3>3. CASE j = 1 BY <3>0, <3>1, <3>2, <3>3, <1>n
    <3>4. CASE j # 1
      <4>2. j - 1 \in 1 .. Len(p) /\ ChunkAt(p, j - 1, r) /\ p[j - 1] = q[j] /\ j - 1 < i BY <1>1, <1>2, <3>2, <3>4
      <4> QED BY <3>0, <3>1, <3>2, <4>2
    <3> QED BY <3>3, <3>4
  <2>2. \A i, j \in 1 .. Len(p) : i < j /\ ChunkAt(p, i, r) /\ ChunkAt(p, j, r) => p[i].n < p[j].n
    <3> SUFFICES ASSUME NEW i \in 1 .. Len(p), NEW j \in 1 .. Len(p), i < j, ChunkAt(p, i, r), ChunkAt(p, j, r)
                 PROVE  p[i].n < p[j].n
      OBVIOUS
    <3>1. i + 1 < j + 1 /\ i + 1 \in 1 .. Len(q) /\ j + 1 \in 1 .. Len(q) BY <1>1, <1>2
    <3> QED BY <1>2, <3>1 DEF Delivery, InOrder
  <2> QED BY <2>1, <2>2 DEF InOrder
<1>4. EndLast(p, r, b0 + 1, sent)
  <2>1. ASSUME NEW i \in 1 .. Len(p), EndAt(p, i, r)
        PROVE  /\ \A j \in 1 .. Len(p) : i < j => ~ChunkAt(p, j, r) /\ ~EndAt(p, j, r)
               /\ sent = b0 + 1 \/ \E j \in 1 .. Len(p) : j < i /\ ChunkAt(p, j, r) /\ p[j].n = sent
    <3>1. /\ i + 1 \in 1 .. Len(q) /\ \A j \in 1 .. Len(q) : i + 1 < j => ~ChunkAt(q, j, r) /\ ~EndAt(q, j, r)
          /\ sent = b0 \/ \E j \in 1 .. Len(q) : j < i + 1 /\ ChunkAt(q, j, r) /\ q[j].n = sent
      BY <1>2, <2>1 DEF Delivery, EndLast
    <3>2. \A j \in 1 .. Len(p) : i < j => ~ChunkAt(p, j, r) /\ ~EndAt(p, j, r)
      <4> SUFFICES ASSUME NEW j \in 1 .. Len(p), i < j PROVE ~ChunkAt(p, j, r) /\ ~EndAt(p, j, r) OBVIOUS
      <4>1. i + 1 < j + 1 /\ j + 1 \in 1 .. Len(q) BY <1>1, <1>2
      <4> QED BY <1>2, <3>1, <4>1
    <3>4. PICK j \in 1 .. Len(q) : j < i + 1 /\ ChunkAt(q, j, r) /\ q[j].n = sent BY <3>1, <1>n
    <3>5. CASE j = 1 BY <3>2, <3>4, <3>5, <1>n
    <3>6. CASE j # 1
      <4>2. j - 1 \in 1 .. Len(p) /\ ChunkAt(p, j - 1, r) /\ p[j - 1] = q[j] /\ j - 1 < i BY <1>1, <1>2, <3>4, <3>6
      <4> QED BY <3>2, <3>4, <4>2
    <3> QED BY <3>5, <3>6
  <2> QED BY <2>1 DEF EndLast
<1>5. ASSUME Reaches(q, r, b0, sent) PROVE Reaches(p, r, b0 + 1, sent)
  <2>1. PICK i \in 1 .. Len(q) : ChunkAt(q, i, r) /\ q[i].n = sent BY <1>5, <1>n DEF Reaches
  <2>2. CASE i = 1 BY <2>1, <2>2, <1>n DEF Reaches
  <2>3. CASE i # 1 BY <2>1, <2>3, <1>2 DEF Reaches
  <2> QED BY <2>2, <2>3
<1> QED BY <1>1, <1>n, <1>3, <1>4, <1>5 DEF Delivery, p

\* The end of the call is taken: every chunk was seen, and nothing follows.
LEMMA EndTaken ==
    ASSUME NEW q, IsQueue(q), q # <<>>, NEW r, NEW b0 \in Nat, NEW sent \in Nat,
           Head(q).kind = "end", Head(q).call = r, Delivery(q, r, b0, sent)
    PROVE  sent = b0 /\ ~Under(Tail(q), "chunk", r) /\ ~Under(Tail(q), "end", r)
<1> DEFINE p == Tail(q)
<1>1. /\ Len(q) \in Nat \ {0} /\ Len(p) = Len(q) - 1 /\ Head(q) = q[1] /\ \A i \in 1 .. Len(q) - 1 : p[i] = q[i + 1]
      /\ DOMAIN p = 1 .. Len(q) - 1
  BY QueueTail
<1> HIDE DEF p
<1>h. 1 \in 1 .. Len(q) /\ EndAt(q, 1, r) BY <1>1 DEF EndAt
<1>2. /\ \A j \in 1 .. Len(q) : 1 < j => ~ChunkAt(q, j, r) /\ ~EndAt(q, j, r)
      /\ sent = b0 \/ \E j \in 1 .. Len(q) : j < 1 /\ ChunkAt(q, j, r) /\ q[j].n = sent
  BY <1>h DEF Delivery, EndLast
<1>3. sent = b0 BY <1>1, <1>2
<1>4. ASSUME NEW i \in DOMAIN p PROVE ~(p[i].kind \in {"chunk", "end"} /\ p[i].call = r)
  <2>1. i + 1 \in 1 .. Len(q) /\ 1 < i + 1 /\ p[i] = q[i + 1] BY <1>1
  <2> QED BY <1>2, <2>1 DEF ChunkAt, EndAt
<1>5. ~Under(p, "chunk", r) /\ ~Under(p, "end", r) BY <1>4 DEF Under
<1> QED BY <1>3, <1>5 DEF p

\* the socket breaks: the first frames may still be read
LEMMA PrefixDelivers ==
    ASSUME NEW q, IsQueue(q), NEW n \in 0 .. Len(q), NEW r, NEW b0 \in Nat, NEW sent \in Nat,
           Delivery(q, r, b0, sent)
    PROVE  Delivery(SubSeq(q, 1, n), r, b0, sent)
<1> DEFINE p == SubSeq(q, 1, n)
<1>1. Len(p) = n /\ (\A i \in 1 .. n : p[i] = q[i]) /\ Len(q) \in Nat BY QueuePrefix, QueueAppend
<1> HIDE DEF p
<1>2. /\ \A i \in 1 .. Len(p) : /\ i \in 1 .. Len(q) /\ p[i] = q[i]
                                /\ ChunkAt(p, i, r) <=> ChunkAt(q, i, r)
                                /\ EndAt(p, i, r) <=> EndAt(q, i, r)
      /\ \A i \in 1 .. Len(p), j \in 1 .. Len(q) : j < i => j \in 1 .. Len(p)
  BY <1>1 DEF ChunkAt, EndAt
<1>3. ASSUME NEW i \in 1 .. Len(p), ChunkAt(p, i, r)
      PROVE  /\ p[i].n \in Nat /\ b0 < p[i].n /\ p[i].n <= sent
             /\ p[i].n = b0 + 1 \/ \E j \in 1 .. Len(p) : j < i /\ ChunkAt(p, j, r) /\ p[j].n = p[i].n - 1
  <2>1. /\ q[i].n \in Nat /\ b0 < q[i].n /\ q[i].n <= sent /\ p[i] = q[i]
        /\ q[i].n = b0 + 1 \/ \E j \in 1 .. Len(q) : j < i /\ ChunkAt(q, j, r) /\ q[j].n = q[i].n - 1
    BY <1>2, <1>3 DEF Delivery, InOrder
  <2> QED BY <1>2, <2>1
<1>4. \A i, j \in 1 .. Len(p) : i < j /\ ChunkAt(p, i, r) /\ ChunkAt(p, j, r) => p[i].n < p[j].n
  BY <1>2 DEF Delivery, InOrder
<1>5. ASSUME NEW i \in 1 .. Len(p), EndAt(p, i, r)
      PROVE  /\ \A j \in 1 .. Len(p) : i < j => ~ChunkAt(p, j, r) /\ ~EndAt(p, j, r)
             /\ sent = b0 \/ \E j \in 1 .. Len(p) : j < i /\ ChunkAt(p, j, r) /\ p[j].n = sent
  <2>1. /\ \A j \in 1 .. Len(q) : i < j => ~ChunkAt(q, j, r) /\ ~EndAt(q, j, r)
        /\ sent = b0 \/ \E j \in 1 .. Len(q) : j < i /\ ChunkAt(q, j, r) /\ q[j].n = sent
    BY <1>2, <1>5 DEF Delivery, EndLast
  <2> QED BY <1>2, <2>1
<1>6. InOrder(p, r, b0, sent) BY <1>3, <1>4 DEF InOrder
<1>7. EndLast(p, r, b0, sent) BY <1>5 DEF EndLast
<1> QED BY <1>6, <1>7 DEF Delivery, p

LEMMA NothingUnder ==
    ASSUME NEW q, IsQueue(q), NEW r, NEW b0 \in Nat, NEW sent \in Nat,
           ~Under(q, "chunk", r), ~Under(q, "end", r)
    PROVE  Delivery(q, r, b0, sent) /\ (sent = b0 => Reaches(q, r, b0, sent))
<1>1. DOMAIN q = 1 .. Len(q) BY QueueAppend
<1>2. \A i \in 1 .. Len(q) : ~ChunkAt(q, i, r) /\ ~EndAt(q, i, r) BY <1>1 DEF Under, ChunkAt, EndAt
<1> QED BY <1>2 DEF Delivery, InOrder, EndLast, Reaches

LEMMA RequestsOnce ==
    ASSUME NEW q, IsQueue(q), NEW r, OneRequest(q, r)
    PROVE  /\ \A f : ~(f.kind = "request" /\ f.call = r /\ Under(q, "request", r)) => OneRequest(Append(q, f), r)
           /\ q # <<>> => /\ OneRequest(Tail(q), r)
                          /\ Head(q).kind = "request" /\ Head(q).call = r => ~Under(Tail(q), "request", r)
<1>1. ASSUME NEW f, ~(f.kind = "request" /\ f.call = r /\ Under(q, "request", r)) PROVE OneRequest(Append(q, f), r)
  <2> DEFINE p == Append(q, f)
  <2>1. /\ Len(q) \in Nat /\ Len(p) = Len(q) + 1 /\ p[Len(q) + 1] = f /\ \A i \in 1 .. Len(q) : p[i] = q[i]
        /\ DOMAIN q = 1 .. Len(q)
    BY QueueAppend
  <2> HIDE DEF p
  <2>2. ASSUME NEW i \in 1 .. Len(p), NEW j \in 1 .. Len(p), i < j,
               p[i].kind = "request" /\ p[i].call = r /\ p[j].kind = "request" /\ p[j].call = r
        PROVE  FALSE
    <3>1. i \in 1 .. Len(q) /\ p[i] = q[i] /\ Under(q, "request", r) BY <2>1, <2>2 DEF Under
    <3>2. j \in 1 .. Len(q) /\ p[j] = q[j] BY <2>1, <2>2, <3>1, <1>1
    <3> QED BY <2>2, <3>1, <3>2 DEF OneRequest
  <2> QED BY <2>2 DEF OneRequest, p
<1>2. ASSUME q # <<>> PROVE /\ OneRequest(Tail(q), r)
                            /\ Head(q).kind = "request" /\ Head(q).call = r => ~Under(Tail(q), "request", r)
  <2> DEFINE p == Tail(q)
  <2>1. /\ Len(q) \in Nat \ {0} /\ Len(p) = Len(q) - 1 /\ Head(q) = q[1] /\ \A i \in 1 .. Len(q) - 1 : p[i] = q[i + 1]
        /\ DOMAIN p = 1 .. Len(q) - 1
    BY <1>2, QueueTail
  <2> HIDE DEF p
  <2>2. \A i \in 1 .. Len(p) : i + 1 \in 1 .. Len(q) /\ p[i] = q[i + 1] /\ 1 < i + 1 /\ 1 \in 1 .. Len(q) BY <2>1
  <2>3. OneRequest(p, r)
    <3>1. ASSUME NEW i \in 1 .. Len(p), NEW j \in 1 .. Len(p), i < j,
                 p[i].kind = "request" /\ p[i].call = r /\ p[j].kind = "request" /\ p[j].call = r
          PROVE  FALSE
      <4>1. i + 1 < j + 1 BY <2>1, <3>1
      <4> QED BY <2>2, <3>1, <4>1 DEF OneRequest
    <3> QED BY <3>1 DEF OneRequest
  <2>4. ASSUME q[1].kind = "request", q[1].call = r, Under(p, "request", r) PROVE FALSE
    <3>1. PICK i \in 1 .. Len(p) : p[i].kind = "request" /\ p[i].call = r BY <2>1, <2>4 DEF Under
    <3> QED BY <2>2, <2>4, <3>1 DEF OneRequest
  <2> QED BY <2>1, <2>3, <2>4 DEF p
<1> QED BY <1>1, <1>2

-----------------------------------------------------------------------------
(* The model calls: what holds of each *)

IsChat(x) == x \in [pc : {"new", "wait", "body", "done", "dropped"}, model : {x.model}, got : Seq(Nat),
                    answer : {"none", "200", "502", "504"}]
IsModelJob(x) == x \in [pc : {"none", "spawned", "asked", "stream", "finish", "over"}, route : {x.route},
                        bound : {x.bound}, by : {x.by}, sent : Nat, stale : {x.stale}]
KnownCalls(q) == \A i \in DOMAIN q : q[i].kind # "routes" => q[i].call \in ModelCalls
ReaderHas(r, n) == reading = <<"full", r, n>>

ProxyTypes ==
    /\ request = [r \in ModelCalls |-> request[r]] /\ \A r \in ModelCalls : IsChat(request[r])
    /\ job = [r \in ModelCalls |-> job[r]] /\ \A r \in ModelCalls : IsModelJob(job[r])
    /\ pipe \in [ModelCalls -> Seq(Nat)]
    /\ IsQueue(up) /\ IsQueue(down) /\ KnownCalls(up) /\ KnownCalls(down)
    /\ reading \in {Idle, Gone} \/ \E r \in ModelCalls, n \in Nat : ReaderHas(r, n)

\* The socket is there once, with a writer, and no call before Pi runs.
ProxyWires ==
    /\ wire = "up" => writer = TRUE
    /\ wire # "up" => up = <<>>
    /\ stage = "start" => wire = "none" /\ writer = TRUE /\ down = <<>>
    /\ stage \in {"start", "asked"} => \A r \in ModelCalls : request[r].pc = "new"

Tracked(r) == request[r].pc \in {"wait", "body"}
Held(r) == reading[1] = "full" /\ reading[2] = r
Received(r) == Len(request[r].got) + Len(pipe[r]) + (IF Held(r) THEN 1 ELSE 0)
Closed(r) == ~Working(r) /\ ~Under(up, "request", r)

\* A request is taken once, and its call at the gateway is bound to the model
\* that was asked for.
CallOnce(r) ==
    /\ request[r].pc = "new" =>
          /\ job[r].pc = "none" /\ r \notin senders /\ request[r].answer = "none" /\ request[r].got = <<>>
          /\ pipe[r] = <<>> /\ ~Held(r) /\ ~Under(up, "request", r)
          /\ ~Under(down, "chunk", r) /\ ~Under(down, "end", r)
    /\ OneRequest(up, r)
    /\ Under(up, "request", r) => job[r].pc = "none"
    /\ job[r].pc \in {"none", "spawned"} => job[r].sent = 0 /\ job[r].by = NoAlias /\ r \notin cancelled
    /\ job[r].pc \in {"asked", "stream"} => request[r].model = job[r].bound
    /\ job[r].by # NoAlias /\ ~job[r].stale => job[r].by = request[r].model
    /\ r \in cancels <=> job[r].pc \in {"asked", "stream", "finish"} /\ r \notin cancelled
    /\ job[r].sent <= MaxBytes[r]

\* What Pi read, the channel, the chunk the reader holds and the frames on the
\* way are, in this order, what the engine sent.
Fed(r) ==
    /\ \A i \in 1 .. Len(request[r].got) : request[r].got[i] = i
    /\ Tracked(r) =>
          /\ \A i \in 1 .. Len(pipe[r]) : pipe[r][i] = Len(request[r].got) + i
          /\ Held(r) => reading[3] = Len(request[r].got) + Len(pipe[r]) + 1
          /\ Received(r) <= job[r].sent
          /\ Delivery(down, r, Received(r), job[r].sent)
          /\ wire = "up" => Reaches(down, r, Received(r), job[r].sent)
          /\ Under(down, "end", r) => Closed(r)
          /\ r \notin senders => /\ Closed(r) /\ Received(r) = job[r].sent
                                 /\ ~Under(down, "chunk", r) /\ ~Under(down, "end", r)
    /\ request[r].pc = "done" /\ request[r].answer = "200" => Closed(r) /\ Len(request[r].got) = job[r].sent

\* A caller that waits will be told.
Told(r) ==
    /\ request[r].pc = "wait" => r \in heads /\ r \in senders
    /\ wire = "up" /\ r \in senders => Under(up, "request", r) \/ Working(r) \/ Under(down, "end", r)
    /\ request[r].answer = "504" /\ wire = "up" => Under(up, "cancel", r) \/ r \in missed \/ r \in cancelled

CallInv(r) == CallOnce(r) /\ Fed(r) /\ Told(r)
ProxyInd == ProxyTypes /\ ProxyWires /\ \A r \in ModelCalls : CallInv(r)

\* the frames of call r on the socket stay, or are cut off with it
UpKept(r) ==
    /\ \A k \in {"request", "cancel"} : Under(up', k, r) => Under(up, k, r)
    /\ wire' = "up" => \A k \in {"request", "cancel"} : Under(up, k, r) => Under(up', k, r)
    /\ OneRequest(up', r)
DownKept(r) ==
    /\ \A k \in {"chunk", "end"} : Under(down', k, r) => Under(down, k, r)
    /\ \A b0, sent \in Nat : Delivery(down, r, b0, sent) => Delivery(down', r, b0, sent)
    /\ wire' = "up" => /\ \A k \in {"chunk", "end"} : Under(down, k, r) => Under(down', k, r)
                       /\ \A b0, sent \in Nat : Reaches(down, r, b0, sent) => Reaches(down', r, b0, sent)
FramesKept(r) == (wire' = "up" => wire = "up") /\ UpKept(r) /\ DownKept(r)

\* nothing else of the call changes
CallKept(r) ==
    /\ request'[r] = request[r] /\ job'[r] = job[r] /\ pipe'[r] = pipe[r]
    /\ r \in heads' <=> r \in heads
    /\ r \in senders' <=> r \in senders
    /\ r \in cancels' <=> r \in cancels
    /\ r \in cancelled' <=> r \in cancelled
    /\ r \in missed => r \in missed'
    /\ Held(r)' <=> Held(r)
    /\ Held(r) => reading' = reading

LEMMA ChatIs ==
    ASSUME NEW x, IsChat(x)
    PROVE  /\ x.pc \in {"new", "wait", "body", "done", "dropped"} /\ x.got \in Seq(Nat)
           /\ x.answer \in {"none", "200", "502", "504"}
BY DEF IsChat

LEMMA ReceivedIs ==
    ASSUME ProxyTypes, NEW r \in ModelCalls
    PROVE  /\ Len(request[r].got) \in Nat /\ Len(pipe[r]) \in Nat /\ Received(r) \in Nat
           /\ job[r].sent \in Nat /\ request[r].got \in Seq(Nat) /\ pipe[r] \in Seq(Nat)
<1>1. request[r].got \in Seq(Nat) /\ pipe[r] \in Seq(Nat) BY ChatIs DEF ProxyTypes
<1>2. job[r].sent \in Nat BY DEF ProxyTypes, IsModelJob
<1>3. Len(request[r].got) \in Nat /\ Len(pipe[r]) \in Nat BY <1>1
<1> DEFINE g == Len(request[r].got)
           p == Len(pipe[r])
           h == IF Held(r) THEN 1 ELSE 0
<1>4. g \in Nat /\ p \in Nat /\ h \in Nat BY <1>3
<1>5. Received(r) = g + p + h BY DEF Received
<1> HIDE DEF g, p, h
<1>6. g + p + h \in Nat BY <1>4
<1> QED BY <1>1, <1>2, <1>3, <1>5, <1>6

LEMMA CallStays ==
    ASSUME ProxyTypes, NEW r \in ModelCalls, CallInv(r), FramesKept(r), CallKept(r)
    PROVE  CallInv(r)'
<1>s. Received(r) \in Nat /\ job[r].sent \in Nat BY ReceivedIs
<1>1. CallOnce(r)' BY DEF CallInv, CallOnce, FramesKept, UpKept, DownKept, CallKept
<1>2. Received(r)' = Received(r) BY DEF Received, CallKept
<1>3. Closed(r) => Closed(r)' BY DEF Closed, Working, CallKept, FramesKept, UpKept, DownKept
<1>4. Fed(r)'
  <2>1. Tracked(r)' <=> Tracked(r) BY DEF Tracked, CallKept
  <2>2. \A i \in 1 .. Len(request'[r].got) : request'[r].got[i] = i BY DEF CallInv, Fed, CallKept
  <2>3. ASSUME Tracked(r)
        PROVE  /\ \A i \in 1 .. Len(pipe'[r]) : pipe'[r][i] = Len(request'[r].got) + i
               /\ Held(r)' => reading'[3] = Len(request'[r].got) + Len(pipe'[r]) + 1
               /\ Received(r)' <= job'[r].sent
               /\ Delivery(down', r, Received(r)', job'[r].sent)
               /\ wire' = "up" => Reaches(down', r, Received(r)', job'[r].sent)
               /\ Under(down', "end", r) => Closed(r)'
               /\ r \notin senders' => /\ Closed(r)' /\ Received(r)' = job'[r].sent
                                       /\ ~Under(down', "chunk", r) /\ ~Under(down', "end", r)
    BY <1>s, <1>2, <1>3, <2>3 DEF CallInv, Fed, CallKept, FramesKept, UpKept, DownKept
  <2>4. request'[r].pc = "done" /\ request'[r].answer = "200" => Closed(r)' /\ Len(request'[r].got) = job'[r].sent
    BY <1>3 DEF CallInv, Fed, CallKept
  <2> QED BY <2>1, <2>2, <2>3, <2>4 DEF Fed
<1>5. Told(r)' BY DEF CallInv, Told, Working, FramesKept, UpKept, DownKept, CallKept
<1> QED BY <1>1, <1>4, <1>5 DEF CallInv

\* a queue that gets, or gives away, a frame that is none of the call's
LEMMA DownStays ==
    ASSUME ProxyTypes, NEW r \in ModelCalls,
           NEW f, ~(f.kind \in {"chunk", "end"} /\ f.call = r),
           down' = down \/ down' = Append(down, f) \/ (down # <<>> /\ f = Head(down) /\ down' = Tail(down))
    PROVE  DownKept(r)
<1>q. IsQueue(down) BY DEF ProxyTypes
<1>1. CASE down' = down BY <1>1 DEF DownKept
<1>2. CASE down' = Append(down, f)
  <2>1. \A k \in {"chunk", "end"} : Under(Append(down, f), k, r) <=> Under(down, k, r)
    BY <1>q, UnderAppend
  <2>2. \A b0, sent \in Nat : /\ Delivery(down, r, b0, sent) => Delivery(Append(down, f), r, b0, sent)
                              /\ Reaches(down, r, b0, sent) => Reaches(Append(down, f), r, b0, sent)
    BY <1>q, OtherAppended
  <2> QED BY <1>2, <2>1, <2>2 DEF DownKept
<1>3. CASE down # <<>> /\ f = Head(down) /\ down' = Tail(down)
  <2>1. \A k \in {"chunk", "end"} : Under(Tail(down), k, r) <=> Under(down, k, r)
    BY <1>q, <1>3, UnderTail
  <2>2. \A b0, sent \in Nat : /\ Delivery(down, r, b0, sent) => Delivery(Tail(down), r, b0, sent)
                              /\ Reaches(down, r, b0, sent) => Reaches(Tail(down), r, b0, sent)
    BY <1>q, <1>3, OtherTaken
  <2> QED BY <1>3, <2>1, <2>2 DEF DownKept
<1> QED BY <1>1, <1>2, <1>3

LEMMA UpStays ==
    ASSUME ProxyTypes, NEW r \in ModelCalls, OneRequest(up, r),
           NEW f, ~(f.kind \in {"request", "cancel"} /\ f.call = r),
           up' = up \/ up' = Append(up, f) \/ (up # <<>> /\ f = Head(up) /\ up' = Tail(up))
    PROVE  UpKept(r)
<1>q. IsQueue(up) BY DEF ProxyTypes
<1>1. CASE up' = up BY <1>1 DEF UpKept
<1>2. CASE up' = Append(up, f)
  <2>1. \A k \in {"request", "cancel"} : Under(Append(up, f), k, r) <=> Under(up, k, r)
    BY <1>q, UnderAppend
  <2>2. OneRequest(Append(up, f), r) BY <1>q, RequestsOnce
  <2> QED BY <1>2, <2>1, <2>2 DEF UpKept
<1>3. CASE up # <<>> /\ f = Head(up) /\ up' = Tail(up)
  <2>1. \A k \in {"request", "cancel"} : Under(Tail(up), k, r) <=> Under(up, k, r)
    BY <1>q, <1>3, UnderTail
  <2>2. OneRequest(Tail(up), r) BY <1>q, <1>3, RequestsOnce
  <2> QED BY <1>3, <2>1, <2>2 DEF UpKept
<1> QED BY <1>1, <1>2, <1>3

\* no frame at all
LEMMA FramesStay ==
    ASSUME NEW r, OneRequest(up, r), up' = up, down' = down, wire' = wire
    PROVE  FramesKept(r)
BY DEF FramesKept, UpKept, DownKept

\* the socket breaks
LEMMA FramesCut ==
    ASSUME ProxyTypes, NEW r \in ModelCalls, CutWire PROVE FramesKept(r)
<1>1. PICK n \in 0 .. Len(down) : down' = SubSeq(down, 1, n) BY DEF CutWire
<1>2. wire' = "down" /\ up' = <<>> BY DEF CutWire
<1>q. IsQueue(down) BY DEF ProxyTypes
<1>3. \A k \in {"request", "cancel"} : ~Under(up', k, r) BY <1>2, UnderEmpty
<1>4. OneRequest(up', r) BY <1>2, QueueEmpty DEF OneRequest
<1>5. \A k \in {"chunk", "end"} : Under(down', k, r) => Under(down, k, r) BY <1>1, <1>q, UnderPrefix
<1>6. \A b0, sent \in Nat : Delivery(down, r, b0, sent) => Delivery(down', r, b0, sent) BY <1>1, <1>q, PrefixDelivers
<1> QED BY <1>2, <1>3, <1>4, <1>5, <1>6 DEF FramesKept, UpKept, DownKept

LEMMA CutTypes ==
    ASSUME ProxyTypes, CutWire PROVE IsQueue(down)' /\ KnownCalls(down)'
<1>1. PICK n \in 0 .. Len(down) : down' = SubSeq(down, 1, n) BY DEF CutWire
<1>q. IsQueue(down) BY DEF ProxyTypes
<1>7. IsQueue(down') /\ KnownCalls(down')
  <2>1. /\ IsQueue(down') /\ \A i \in 1 .. n : down'[i] = down[i]
        /\ DOMAIN down = 1 .. Len(down) /\ DOMAIN down' = 1 .. n
    BY <1>1, <1>q, QueuePrefix
  <2>2. Len(down) \in Nat BY <1>q, QueueAppend
  <2> QED BY <2>1, <2>2 DEF ProxyTypes, KnownCalls
<1> QED BY <1>7

LEMMA QueueNone == IsQueue(<<>>) /\ KnownCalls(<<>>) /\ \A r : OneRequest(<<>>, r) /\ \A k : ~Under(<<>>, k, r)
BY QueueEmpty, UnderEmpty DEF OneRequest, KnownCalls

LEMMA QueueTypes ==
    ASSUME NEW q, IsQueue(q), KnownCalls(q), NEW f, f.kind # "routes" => f.call \in ModelCalls
    PROVE  /\ IsQueue(Append(q, f)) /\ KnownCalls(Append(q, f))
           /\ q # <<>> => IsQueue(Tail(q)) /\ KnownCalls(Tail(q)) /\ (Head(q).kind # "routes" => Head(q).call \in ModelCalls)
<1>1. IsQueue(Append(q, f)) /\ KnownCalls(Append(q, f))
  <2>1. /\ IsQueue(Append(q, f)) /\ Len(q) \in Nat
        /\ Append(q, f)[Len(q) + 1] = f /\ \A i \in 1 .. Len(q) : Append(q, f)[i] = q[i]
        /\ DOMAIN q = 1 .. Len(q) /\ DOMAIN Append(q, f) = 1 .. Len(q) + 1
    BY QueueAppend
  <2>2. \A i \in 1 .. Len(q) + 1 : i \in 1 .. Len(q) \/ i = Len(q) + 1 BY <2>1
  <2> QED BY <2>1, <2>2 DEF KnownCalls
<1>2. ASSUME q # <<>> PROVE IsQueue(Tail(q)) /\ KnownCalls(Tail(q)) /\ (Head(q).kind # "routes" => Head(q).call \in ModelCalls)
  <2>1. /\ IsQueue(Tail(q)) /\ Len(q) \in Nat \ {0} /\ Head(q) = q[1]
        /\ \A i \in 1 .. Len(q) - 1 : Tail(q)[i] = q[i + 1]
        /\ DOMAIN q = 1 .. Len(q) /\ DOMAIN Tail(q) = 1 .. Len(q) - 1
    BY <1>2, QueueTail
  <2>2. 1 \in DOMAIN q /\ \A i \in 1 .. Len(q) - 1 : i + 1 \in DOMAIN q BY <2>1
  <2> QED BY <2>1, <2>2 DEF KnownCalls
<1> QED BY <1>1, <1>2

\* what a step leaves is what it says of the calls it concerns
LEMMA CallsStay ==
    ASSUME ProxyInd, ProxyTypes', ProxyWires', \A q \in ModelCalls : (FramesKept(q) /\ CallKept(q)) \/ CallInv(q)'
    PROVE  ProxyInd'
<1>1. ASSUME NEW q \in ModelCalls PROVE CallInv(q)' BY CallStays DEF ProxyInd
<1> QED BY <1>1 DEF ProxyInd

LEMMA NewStays ==
    ASSUME ProxyTypes, NEW r \in ModelCalls, CallInv(r), request[r].pc = "new",
           CallKept(r) /\ OneRequest(up', r) /\ ~Under(up', "request", r),
           ~Under(down', "chunk", r) /\ ~Under(down', "end", r)
    PROVE  CallInv(r)'
<1>1. CallOnce(r)' BY DEF CallInv, CallOnce, CallKept
<1>2. Fed(r)' BY DEF CallInv, CallOnce, CallKept, Fed, Tracked
<1>3. Told(r)' BY DEF CallInv, CallOnce, CallKept, Told
<1> QED BY <1>1, <1>2, <1>3 DEF CallInv

LEMMA ProxyStarts == ProxyInit => ProxyInd
<1> SUFFICES ASSUME ProxyInit PROVE ProxyInd OBVIOUS
<1>r. \A r \in ModelCalls : request[r] = NoChat /\ job[r] = NoModelJob /\ pipe[r] = <<>> BY DEF ProxyInit
<1>q. up = <<>> /\ down = <<>> /\ reading = Idle BY DEF ProxyInit
<1>1. ProxyTypes
  <2>1. IsChat(NoChat) BY DEF IsChat, NoChat
  <2>2. IsModelJob(NoModelJob) BY DEF IsModelJob, NoModelJob
  <2>3. request = [r \in ModelCalls |-> request[r]] /\ job = [r \in ModelCalls |-> job[r]]
        /\ pipe \in [ModelCalls -> Seq(Nat)]
    BY DEF ProxyInit
  <2> QED BY <1>r, <1>q, <2>1, <2>2, <2>3, QueueNone DEF ProxyTypes
<1>2. ProxyWires BY <1>r DEF ProxyInit, ProxyWires, NoChat
<1>3. ASSUME NEW r \in ModelCalls PROVE CallInv(r)
  <2>1. NoChat.pc = "new" /\ NoChat.answer = "none" /\ NoChat.got = <<>> BY DEF NoChat
  <2>2. NoModelJob.pc = "none" /\ NoModelJob.sent = 0 /\ NoModelJob.by = NoAlias BY DEF NoModelJob
  <2>3. ~Held(r) BY <1>q DEF Held, Idle
  <2>4. 0 <= MaxBytes[r] BY LinkProxyAssumption
  <2>5. r \notin senders /\ r \notin cancels /\ r \notin cancelled BY DEF ProxyInit
  <2>9. OneRequest(up, r) /\ ~Under(up, "request", r) /\ ~Under(down, "chunk", r) /\ ~Under(down, "end", r)
    BY <1>q, QueueNone
  <2>a. job[r].pc = "none" /\ job[r].sent = 0 /\ job[r].by = NoAlias /\ request[r].answer = "none" /\ request[r].got = <<>>
        /\ pipe[r] = <<>>
    BY <1>r, <2>1, <2>2
  <2>b. r \in cancels <=> job[r].pc \in {"asked", "stream", "finish"} /\ r \notin cancelled BY <2>a, <2>5
  <2>c. job[r].sent <= MaxBytes[r] BY <2>a, <2>4
  <2>6. CallOnce(r) BY <2>a, <2>b, <2>c, <2>3, <2>5, <2>9 DEF CallOnce
  <2>d. Len(request[r].got) = 0 /\ ~Tracked(r) /\ request[r].pc # "done" BY <1>r, <2>1, QueueEmpty DEF Tracked
  <2>e. \A i \in 1 .. Len(request[r].got) : request[r].got[i] = i BY <2>d
  <2>7. Fed(r) BY <2>d, <2>e DEF Fed
  <2>8. Told(r) BY <1>r, <2>1, <2>5 DEF Told
  <2> QED BY <2>6, <2>7, <2>8 DEF CallInv
<1> QED BY <1>1, <1>2, <1>3 DEF ProxyInd

LEMMA ProxyRests ==
    ASSUME ProxyInd, UNCHANGED <<launcher, wire, writer, up, down, linkSide, gatewaySide>>
    PROVE  ProxyInd'
<1> USE DEF launcher, linkSide, gatewaySide
<1>1. ProxyTypes' BY DEF ProxyInd, ProxyTypes, ReaderHas
<1>2. ProxyWires' BY DEF ProxyInd, ProxyWires
<1>3. ASSUME NEW q \in ModelCalls PROVE FramesKept(q) /\ CallKept(q)
  <2>1. OneRequest(up, q) BY DEF ProxyInd, CallInv, CallOnce
  <2>2. CallKept(q) BY DEF CallKept, Held
  <2> QED BY <2>1, <2>2, FramesStay
<1> QED BY <1>1, <1>2, <1>3, CallsStay

LEMMA EnginesChange ==
    ASSUME ProxyInd, RefreshRoutes \/ \E s \in DOMAIN slotEngines : Relaunched(s) PROVE ProxyInd'
BY ProxyRests DEF RefreshRoutes, Relaunched

LEMMA AskRoutesKeeps == ASSUME ProxyInd, AskRoutes PROVE ProxyInd'
<1> USE DEF linkSide, gatewaySide
<1>a. /\ stage = "start" /\ stage' = "asked" /\ wire' = "up" /\ up' = <<UpFrame("routes", "none")>> /\ writer' = writer
      /\ down' = down /\ UNCHANGED <<heads, senders, pipe, request, reading, job, cancels, cancelled, missed>>
  BY DEF AskRoutes
<1>b. writer = TRUE /\ down = <<>> /\ wire = "none" /\ up = <<>> /\ \A r \in ModelCalls : request[r].pc = "new"
  BY <1>a DEF ProxyInd, ProxyWires
<1>u. IsQueue(up') /\ KnownCalls(up') /\ \A r : ~Under(up', "request", r) /\ OneRequest(up', r)
  <2> DEFINE f == UpFrame("routes", "none")
  <2>0. f.kind = "routes" BY DEF UpFrame
  <2>1. up' = Append(<<>>, f) BY <1>a
  <2>2. IsQueue(Append(<<>>, f)) /\ KnownCalls(Append(<<>>, f)) BY <2>0, QueueNone, QueueTypes
  <2>3. \A r : ~Under(Append(<<>>, f), "request", r) BY <2>0, QueueNone, UnderAppend
  <2>4. \A r : OneRequest(Append(<<>>, f), r) BY <2>0, QueueNone, RequestsOnce
  <2> HIDE DEF f
  <2> QED BY <2>1, <2>2, <2>3, <2>4
<1>1. ProxyTypes' BY <1>a, <1>u DEF ProxyInd, ProxyTypes, ReaderHas
<1>2. ProxyWires' BY <1>a, <1>b DEF ProxyWires
<1>3. ASSUME NEW r \in ModelCalls PROVE CallInv(r)'
  <2>1. CallKept(r) BY <1>a DEF CallKept, Held
  <2>2. CallInv(r) /\ ProxyTypes BY DEF ProxyInd
  <2>3. ~Under(down', "chunk", r) /\ ~Under(down', "end", r) BY <1>a, <1>b, QueueNone
  <2> QED BY <1>b, <1>u, <2>1, <2>2, <2>3, NewStays
<1> QED BY <1>1, <1>2, <1>3 DEF ProxyInd

LEMMA HeldNone == ASSUME NEW r PROVE (reading \in {Idle, Gone} => ~Held(r)) /\ (reading' \in {Idle, Gone} => ~Held(r)')
BY DEF Held, Idle, Gone

\* the run ends before it began
LEMMA NoHomeKeeps ==
    ASSUME ProxyInd, stage = "asked" \/ stage = "start", WithoutHome,
           UNCHANGED <<heads, senders, pipe, request, gatewaySide>>
    PROVE  ProxyInd'
<1> USE DEF gatewaySide
<1>a. /\ wire' = "down" /\ writer' = FALSE /\ reading' = Gone /\ up' = <<>> /\ down' = <<>> /\ stage' \in {"running", "over"}
      /\ UNCHANGED <<heads, senders, pipe, request, job, cancels, cancelled, missed>>
  BY DEF WithoutHome
<1>b. \A r \in ModelCalls : request[r].pc = "new" BY DEF ProxyInd, ProxyWires
<1>1. ProxyTypes' BY <1>a, QueueNone DEF ProxyInd, ProxyTypes
<1>2. ProxyWires' BY <1>a DEF ProxyWires
<1>3. ASSUME NEW r \in ModelCalls PROVE CallInv(r)'
  <2>2. CallInv(r) /\ ProxyTypes BY DEF ProxyInd
  <2>4. ~Held(r) BY <1>b, <2>2 DEF CallInv, CallOnce
  <2>1. CallKept(r) BY <1>a, <2>4, HeldNone DEF CallKept
  <2>3. ~Under(down', "chunk", r) /\ ~Under(down', "end", r) /\ ~Under(up', "request", r) /\ OneRequest(up', r)
    BY <1>a, QueueNone
  <2> QED BY <1>b, <2>1, <2>2, <2>3, NewStays
<1> QED BY <1>1, <1>2, <1>3 DEF ProxyInd

LEMMA HomeFailsKeeps == ASSUME ProxyInd, HomeFails PROVE ProxyInd'
BY NoHomeKeeps DEF HomeFails

LEMMA TakeRoutesKeeps == ASSUME ProxyInd, TakeRoutes PROVE ProxyInd'
<1>1. CASE Head(down).n = <<>> BY <1>1, NoHomeKeeps DEF TakeRoutes
<1>2. CASE Head(down).n # <<>>
  <2> USE DEF gatewaySide
  <2>a. /\ stage = "asked" /\ down # <<>> /\ Head(down).kind = "routes" /\ stage' = "running" /\ down' = Tail(down)
        /\ UNCHANGED <<wire, writer, reading, up, heads, senders, pipe, request, job, cancels, cancelled, missed>>
    BY <1>2 DEF TakeRoutes
  <2>q. IsQueue(down) /\ KnownCalls(down) /\ ProxyTypes BY DEF ProxyInd, ProxyTypes
  <2>1. ProxyTypes'
    <3>1. IsQueue(down') /\ KnownCalls(down') BY <2>a, <2>q, QueueTypes
    <3> QED BY <2>a, <3>1 DEF ProxyInd, ProxyTypes, ReaderHas
  <2>2. ProxyWires' BY <2>a DEF ProxyInd, ProxyWires
  <2>3. ASSUME NEW r \in ModelCalls PROVE FramesKept(r) /\ CallKept(r)
    <3>1. OneRequest(up, r) BY DEF ProxyInd, CallInv, CallOnce
    <3>2. CallKept(r) BY <2>a DEF CallKept, Held
    <3>3. UpKept(r) BY <2>a, <3>1 DEF UpKept
    <3>4. DownKept(r) BY <2>a, <2>q, DownStays
    <3> QED BY <2>a, <3>2, <3>3, <3>4 DEF FramesKept
  <2> QED BY <2>1, <2>2, <2>3, CallsStay
<1> QED BY <1>1, <1>2

LEMMA PiExitsKeeps == ASSUME ProxyInd, PiExits PROVE ProxyInd'
<1> USE DEF gatewaySide
<1>a. /\ stage' = "over" /\ wire' = "down" /\ writer' = FALSE /\ reading' = Gone /\ up' = <<>> /\ down' = <<>>
      /\ pipe' = [r \in ModelCalls |-> <<>>] /\ UNCHANGED <<heads, senders, job, cancels, cancelled, missed>>
  BY DEF PiExits
<1>b. /\ request' = [r \in ModelCalls |-> request'[r]]
      /\ \A r \in ModelCalls : request'[r] = IF Tracked(r) THEN [request[r] EXCEPT !.pc = "dropped"] ELSE request[r]
  BY DEF PiExits, Tracked
<1>c. ASSUME NEW r \in ModelCalls
      PROVE  /\ IsChat(request'[r]) /\ request'[r].pc \notin {"wait", "body"}
             /\ request'[r].pc \in {"new", "done"} => request'[r] = request[r]
             /\ request'[r].model = request[r].model /\ request'[r].got = request[r].got
  <2>1. IsChat(request[r]) BY DEF ProxyInd, ProxyTypes
  <2>2. CASE Tracked(r)
    <3>1. request'[r] = [request[r] EXCEPT !.pc = "dropped"] BY <1>b, <2>2
    <3> QED BY <2>1, <3>1 DEF IsChat
  <2>3. CASE ~Tracked(r) BY <1>b, <2>1, <2>3 DEF Tracked
  <2> QED BY <2>2, <2>3
<1>1. ProxyTypes'
  <2>1. <<>> \in Seq(Nat) OBVIOUS
  <2>2. pipe' \in [ModelCalls -> Seq(Nat)] BY <1>a, <2>1
  <2> QED BY <1>a, <1>b, <1>c, <2>2, QueueNone DEF ProxyInd, ProxyTypes
<1>2. ProxyWires' BY <1>a DEF ProxyWires
<1>3. ASSUME NEW r \in ModelCalls PROVE CallInv(r)'
  <2>0. CallOnce(r) /\ Fed(r) BY DEF ProxyInd, CallInv
  <2>1. /\ ~Under(up', "request", r) /\ ~Under(down', "chunk", r) /\ ~Under(down', "end", r) /\ OneRequest(up', r)
        /\ pipe'[r] = <<>> /\ ~Held(r)'
    BY <1>a, QueueNone, HeldNone
  <2>2. CallOnce(r)' BY <1>a, <1>c, <2>0, <2>1 DEF CallOnce
  <2>3. Fed(r)'
    <3>1. request'[r].got = request[r].got BY <1>c
    <3>2. ~Tracked(r)' BY <1>c DEF Tracked
    <3>3. Closed(r) => Closed(r)' BY <1>a, <2>1 DEF Closed, Working
    <3> QED BY <1>a, <1>c, <2>0, <3>1, <3>2, <3>3 DEF Fed
  <2>4. Told(r)' BY <1>a, <1>c DEF Told
  <2> QED BY <2>2, <2>3, <2>4 DEF CallInv
<1> QED BY <1>1, <1>2, <1>3 DEF ProxyInd

LEMMA WireBreaksKeeps == ASSUME ProxyInd, WireBreaks PROVE ProxyInd'
<1> USE DEF gatewaySide, linkSide, launcher
<1>a. /\ CutWire /\ wire = "up" /\ wire' = "down" /\ up' = <<>>
      /\ UNCHANGED <<stage, writer, heads, senders, pipe, request, reading, job, cancels, cancelled, missed>>
  BY DEF WireBreaks, CutWire
<1>1. ProxyTypes'
  <2>1. IsQueue(down)' /\ KnownCalls(down)' BY <1>a, CutTypes DEF ProxyInd
  <2> QED BY <1>a, <2>1, QueueNone DEF ProxyInd, ProxyTypes, ReaderHas
<1>2. ProxyWires' BY <1>a DEF ProxyInd, ProxyWires
<1>3. ASSUME NEW r \in ModelCalls PROVE FramesKept(r) /\ CallKept(r)
  BY <1>a, FramesCut DEF ProxyInd, CallKept, Held
<1> QED BY <1>1, <1>2, <1>3, CallsStay

\* frames, calls and channels stay as they are
LEMMA TasksEnd ==
    ASSUME ProxyInd, UNCHANGED <<stage, wire, up, down, heads, senders, pipe, request, job, cancels, cancelled, missed>>,
           wire # "up" \/ writer' = writer, stage # "start" \/ writer' = writer,
           reading' = reading \/ (reading = Idle /\ reading' = Gone)
    PROVE  ProxyInd'
<1>1. ProxyTypes' BY DEF ProxyInd, ProxyTypes, ReaderHas
<1>2. ProxyWires' BY DEF ProxyInd, ProxyWires
<1>3. ASSUME NEW r \in ModelCalls PROVE FramesKept(r) /\ CallKept(r)
  <2>1. OneRequest(up, r) BY DEF ProxyInd, CallInv, CallOnce
  <2>2. CallKept(r) BY HeldNone DEF CallKept, Held
  <2> QED BY <2>1, <2>2, FramesStay
<1> QED BY <1>1, <1>2, <1>3, CallsStay

LEMMA WriterEndsKeeps == ASSUME ProxyInd, WriterEnds PROVE ProxyInd'
<1>1. up = <<>> /\ stage # "start" BY DEF WriterEnds, ProxyInd, ProxyWires
<1> QED BY <1>1, TasksEnd DEF WriterEnds, launcher, linkSide, gatewaySide

LEMMA ReaderEndsKeeps == ASSUME ProxyInd, ReaderEnds PROVE ProxyInd'
BY TasksEnd DEF ReaderEnds, launcher, gatewaySide

\* a step of one call of Pi's
LEMMA ChatTypes ==
    ASSUME ProxyTypes, NEW r \in ModelCalls, NEW x, IsChat(x), request' = [request EXCEPT ![r] = x]
    PROVE  /\ request'[r] = x /\ \A q \in ModelCalls \ {r} : request'[q] = request[q]
           /\ request' = [q \in ModelCalls |-> request'[q]] /\ \A q \in ModelCalls : IsChat(request'[q])
<1>1. request = [q \in ModelCalls |-> request[q]] /\ \A q \in ModelCalls : IsChat(request[q]) BY DEF ProxyTypes
<1>2. request'[r] = x /\ (\A q \in ModelCalls \ {r} : request'[q] = request[q])
      /\ request' = [q \in ModelCalls |-> request'[q]]
  BY <1>1
<1> QED BY <1>1, <1>2

LEMMA JobTypes ==
    ASSUME ProxyTypes, NEW r \in ModelCalls, NEW x, IsModelJob(x), job' = [job EXCEPT ![r] = x]
    PROVE  /\ job'[r] = x /\ \A q \in ModelCalls \ {r} : job'[q] = job[q]
           /\ job' = [q \in ModelCalls |-> job'[q]] /\ \A q \in ModelCalls : IsModelJob(job'[q])
<1>1. job = [q \in ModelCalls |-> job[q]] /\ \A q \in ModelCalls : IsModelJob(job[q]) BY DEF ProxyTypes
<1>2. job'[r] = x /\ (\A q \in ModelCalls \ {r} : job'[q] = job[q])
      /\ job' = [q \in ModelCalls |-> job'[q]]
  BY <1>1
<1> QED BY <1>1, <1>2

LEMMA PipeTypes ==
    ASSUME ProxyTypes, NEW r \in ModelCalls, NEW x \in Seq(Nat), pipe' = [pipe EXCEPT ![r] = x]
    PROVE  /\ pipe'[r] = x /\ \A q \in ModelCalls \ {r} : pipe'[q] = pipe[q]
           /\ pipe' \in [ModelCalls -> Seq(Nat)]
BY DEF ProxyTypes

LEMMA NewChat ==
    ASSUME NEW m
    PROVE  LET y == [NoChat EXCEPT !.pc = "wait", !.model = m]
               z == [NoChat EXCEPT !.pc = "done", !.model = m, !.answer = "502"]
           IN /\ IsChat(y) /\ y.pc = "wait" /\ y.answer = "none" /\ y.got = <<>>
              /\ IsChat(z) /\ z.pc = "done" /\ z.answer = "502" /\ z.got = <<>>
<1>1. NoChat.answer = "none" /\ NoChat.got = <<>> BY DEF NoChat
<1>2. IsChat(NoChat) BY DEF IsChat, NoChat
<1> QED BY <1>1, <1>2 DEF IsChat

LEMMA ChatKeeps == ASSUME ProxyInd, NEW r \in ModelCalls, Chat(r) PROVE ProxyInd'
<1> USE DEF gatewaySide, launcher
<1>t. ProxyTypes /\ ProxyWires /\ CallOnce(r) /\ IsQueue(up) /\ KnownCalls(up) BY DEF ProxyInd, CallInv, ProxyTypes
<1>a. /\ stage = "running" /\ request[r].pc = "new"
      /\ UNCHANGED <<stage, wire, writer, down, pipe, reading, job, cancels, cancelled, missed>>
  BY DEF Chat
<1> DEFINE f == UpFrame("request", r)
<1>f. f.kind = "request" /\ f.call = r BY DEF UpFrame
<1>n. /\ job[r].pc = "none" /\ r \notin senders /\ request[r].answer = "none" /\ pipe[r] = <<>> /\ ~Held(r)
      /\ ~Under(up, "request", r) /\ ~Under(down, "chunk", r) /\ ~Under(down, "end", r) /\ OneRequest(up, r)
      /\ job[r].sent = 0 /\ job[r].by = NoAlias /\ r \notin cancelled /\ r \notin cancels /\ job[r].sent <= MaxBytes[r]
  BY <1>a, <1>t DEF CallOnce
<1>b. PICK id \in ModelIds(listed) :
         IF writer
           THEN /\ request' = [request EXCEPT ![r] = [NoChat EXCEPT !.pc = "wait", !.model = id]]
                /\ heads' = heads \cup {r} /\ senders' = senders \cup {r}
                /\ up' = IF wire = "up" THEN Append(up, f) ELSE up
           ELSE /\ request' = [request EXCEPT ![r] = [NoChat EXCEPT !.pc = "done", !.model = id, !.answer = "502"]]
                /\ UNCHANGED <<heads, senders, up>>
  BY DEF Chat
<1> HIDE DEF f
<1>c. PICK x : /\ request' = [request EXCEPT ![r] = x] /\ IsChat(x) /\ x.got = <<>>
               /\ IF writer THEN x.pc = "wait" /\ x.answer = "none" ELSE x.pc = "done" /\ x.answer = "502"
  <2>1. CASE writer
    <3> DEFINE x == [NoChat EXCEPT !.pc = "wait", !.model = id]
    <3>1. request' = [request EXCEPT ![r] = x] BY <1>b, <2>1
    <3>4. IsChat(x) /\ x.pc = "wait" /\ x.answer = "none" /\ x.got = <<>> BY NewChat
    <3> QED BY <2>1, <3>1, <3>4
  <2>2. CASE ~writer
    <3> DEFINE x == [NoChat EXCEPT !.pc = "done", !.model = id, !.answer = "502"]
    <3>1. request' = [request EXCEPT ![r] = x] BY <1>b, <2>2
    <3>4. IsChat(x) /\ x.pc = "done" /\ x.answer = "502" /\ x.got = <<>> BY NewChat
    <3> QED BY <2>2, <3>1, <3>4
  <2> QED BY <2>1, <2>2
<1>d. /\ request'[r] = x /\ \A q \in ModelCalls \ {r} : request'[q] = request[q]
      /\ request' = [q \in ModelCalls |-> request'[q]] /\ \A q \in ModelCalls : IsChat(request'[q])
  BY <1>c, <1>t, ChatTypes
<1>u. up' = Append(up, f) \/ up' = up BY <1>b
<1>1. ProxyTypes'
  <2>1. IsQueue(up') /\ KnownCalls(up') BY <1>t, <1>u, <1>f, QueueTypes
  <2> QED BY <1>a, <1>d, <2>1 DEF ProxyInd, ProxyTypes, ReaderHas
<1>2. ProxyWires' BY <1>a, <1>b, <1>t DEF ProxyWires
<1>3. ASSUME NEW q \in ModelCalls \ {r} PROVE FramesKept(q) /\ CallKept(q)
  <2>1. OneRequest(up, q) BY DEF ProxyInd, CallInv, CallOnce
  <2>2. UpKept(q) BY <1>t, <1>u, <1>f, <2>1, UpStays
  <2>3. DownKept(q) BY <1>a DEF DownKept
  <2>4. (q \in heads' <=> q \in heads) /\ (q \in senders' <=> q \in senders) BY <1>b
  <2>5. CallKept(q) BY <1>a, <1>d, <2>4 DEF CallKept, Held
  <2> QED BY <1>a, <2>2, <2>3, <2>5 DEF FramesKept
<1>4. CallInv(r)'
  <2>1. /\ OneRequest(up', r)
        /\ writer /\ wire = "up" => Under(up', "request", r)
    <3>1. OneRequest(Append(up, f), r) BY <1>t, <1>n, RequestsOnce
    <3>2. Under(Append(up, f), "request", r) BY <1>t, <1>f, UnderAppend
    <3> QED BY <1>n, <1>u, <1>b, <3>1, <3>2
  <2>2. CallOnce(r)' BY <1>a, <1>c, <1>d, <1>n, <2>1 DEF CallOnce, Held
  <2>3. Fed(r)'
    <3>1. Len(request'[r].got) = 0 /\ Len(pipe'[r]) = 0 BY <1>a, <1>c, <1>d, <1>n, QueueEmpty
    <3>2. ~Held(r)' /\ Received(r)' = 0 BY <1>a, <1>n, <3>1 DEF Received, Held
    <3>3. IsQueue(down) BY <1>t DEF ProxyTypes
    <3>4. Delivery(down, r, 0, 0) /\ Reaches(down, r, 0, 0) BY <1>n, <3>3, NothingUnder
    <3>5. r \in senders' \/ request'[r].pc = "done" BY <1>b, <1>c, <1>d
    <3>6. \A i \in 1 .. 0 : FALSE OBVIOUS
    <3>7. request'[r].answer # "200" BY <1>c, <1>d
    <3> QED BY <1>a, <1>n, <3>1, <3>2, <3>4, <3>5, <3>6, <3>7 DEF Fed, Tracked
  <2>4. Told(r)' BY <1>a, <1>b, <1>c, <1>d, <1>n, <1>t, <2>1 DEF Told, ProxyWires
  <2> QED BY <2>2, <2>3, <2>4 DEF CallInv
<1> QED BY <1>1, <1>2, <1>3, <1>4, CallsStay

LEMMA HeadTimeoutKeeps == ASSUME ProxyInd, NEW r \in ModelCalls, HeadTimeout(r) PROVE ProxyInd'
<1> USE DEF gatewaySide, launcher
<1>t. ProxyTypes /\ ProxyWires /\ CallOnce(r) /\ Told(r) /\ Fed(r) /\ IsQueue(up) /\ KnownCalls(up)
  BY DEF ProxyInd, CallInv, ProxyTypes
<1> DEFINE f == UpFrame("cancel", r)
<1>f. f.kind = "cancel" /\ f.call = r BY DEF UpFrame
<1>a. /\ stage = "running" /\ request[r].pc = "wait" /\ heads' = heads \ {r} /\ senders' = senders \ {r}
      /\ up' = IF writer /\ wire = "up" THEN Append(up, f) ELSE up
      /\ UNCHANGED <<stage, wire, writer, down, reading, job, cancels, cancelled, missed>>
  BY DEF HeadTimeout
<1> HIDE DEF f
<1>u. up' = Append(up, f) \/ up' = up BY <1>a
<1>c. PICK x : /\ request' = [request EXCEPT ![r] = x] /\ IsChat(x) /\ x.got = request[r].got
               /\ x.pc = "done" /\ x.answer = "504" /\ x.model = request[r].model
  <2> DEFINE x == [request[r] EXCEPT !.pc = "done", !.answer = "504"]
  <2>1. request' = [request EXCEPT ![r] = x] BY DEF HeadTimeout
  <2>2. IsChat(request[r]) BY <1>t DEF ProxyTypes
  <2>3. IsChat(x) /\ x.got = request[r].got /\ x.pc = "done" /\ x.answer = "504" /\ x.model = request[r].model
    BY <2>2 DEF IsChat
  <2> QED BY <2>1, <2>3
<1>d. /\ request'[r] = x /\ \A q \in ModelCalls \ {r} : request'[q] = request[q]
      /\ request' = [q \in ModelCalls |-> request'[q]] /\ \A q \in ModelCalls : IsChat(request'[q])
  BY <1>c, <1>t, ChatTypes
<1>e. pipe'[r] = <<>> /\ (\A q \in ModelCalls \ {r} : pipe'[q] = pipe[q]) /\ pipe' \in [ModelCalls -> Seq(Nat)]
  <2>1. <<>> \in Seq(Nat) OBVIOUS
  <2>2. pipe' = [pipe EXCEPT ![r] = <<>>] BY DEF HeadTimeout
  <2> QED BY <1>t, <2>1, <2>2, PipeTypes
<1>1. ProxyTypes'
  <2>1. IsQueue(up') /\ KnownCalls(up') BY <1>t, <1>u, <1>f, QueueTypes
  <2> QED BY <1>a, <1>d, <1>e, <2>1 DEF ProxyInd, ProxyTypes, ReaderHas
<1>2. ProxyWires' BY <1>a, <1>t DEF ProxyWires
<1>3. ASSUME NEW q \in ModelCalls \ {r} PROVE FramesKept(q) /\ CallKept(q)
  <2>1. OneRequest(up, q) BY DEF ProxyInd, CallInv, CallOnce
  <2>2. UpKept(q) BY <1>t, <1>u, <1>f, <2>1, UpStays
  <2>3. DownKept(q) BY <1>a DEF DownKept
  <2>4. (q \in heads' <=> q \in heads) /\ (q \in senders' <=> q \in senders) BY <1>a
  <2>5. CallKept(q) BY <1>a, <1>d, <1>e, <2>4 DEF CallKept, Held
  <2> QED BY <1>a, <2>2, <2>3, <2>5 DEF FramesKept
<1>4. CallInv(r)'
  <2>1. /\ OneRequest(up', r)
        /\ wire = "up" => Under(up', "cancel", r)
        /\ Under(up', "request", r) => Under(up, "request", r)
    <3>1. OneRequest(up, r) BY <1>t DEF CallOnce
    <3>2. OneRequest(Append(up, f), r) BY <1>t, <1>f, <3>1, RequestsOnce
    <3>3. Under(Append(up, f), "cancel", r) BY <1>t, <1>f, UnderAppend
    <3>4. Under(Append(up, f), "request", r) => Under(up, "request", r) BY <1>t, <1>f, UnderAppend
    <3>5. wire = "up" => writer BY <1>t DEF ProxyWires
    <3> QED BY <1>a, <1>u, <3>1, <3>2, <3>3, <3>4, <3>5
  <2>2. CallOnce(r)' BY <1>a, <1>c, <1>d, <1>t, <2>1 DEF CallOnce
  <2>3. Fed(r)' BY <1>c, <1>d, <1>t DEF Fed, Tracked
  <2>4. Told(r)' BY <1>a, <1>c, <1>d, <2>1 DEF Told
  <2> QED BY <2>2, <2>3, <2>4 DEF CallInv
<1> QED BY <1>1, <1>2, <1>3, <1>4, CallsStay

LEMMA PiDropsKeeps == ASSUME ProxyInd, NEW r \in ModelCalls, PiDrops(r) PROVE ProxyInd'
<1> USE DEF gatewaySide, launcher
<1>t. ProxyTypes /\ ProxyWires /\ CallOnce(r) /\ Told(r) /\ Fed(r) BY DEF ProxyInd, CallInv
<1>a. /\ request[r].pc \in {"wait", "body"}
      /\ UNCHANGED <<stage, wire, writer, up, down, heads, senders, reading, job, cancels, cancelled, missed>>
  BY DEF PiDrops
<1>c. PICK x : /\ request' = [request EXCEPT ![r] = x] /\ IsChat(x) /\ x.got = request[r].got
               /\ x.pc = "dropped" /\ x.answer = request[r].answer /\ x.model = request[r].model
  <2> DEFINE x == [request[r] EXCEPT !.pc = "dropped"]
  <2>1. request' = [request EXCEPT ![r] = x] BY DEF PiDrops
  <2>2. IsChat(request[r]) BY <1>t DEF ProxyTypes
  <2>3. IsChat(x) /\ x.got = request[r].got /\ x.pc = "dropped" /\ x.answer = request[r].answer /\ x.model = request[r].model
    BY <2>2 DEF IsChat
  <2> QED BY <2>1, <2>3
<1>d. /\ request'[r] = x /\ \A q \in ModelCalls \ {r} : request'[q] = request[q]
      /\ request' = [q \in ModelCalls |-> request'[q]] /\ \A q \in ModelCalls : IsChat(request'[q])
  BY <1>c, <1>t, ChatTypes
<1>e. pipe'[r] = <<>> /\ (\A q \in ModelCalls \ {r} : pipe'[q] = pipe[q]) /\ pipe' \in [ModelCalls -> Seq(Nat)]
  <2>1. <<>> \in Seq(Nat) OBVIOUS
  <2>2. pipe' = [pipe EXCEPT ![r] = <<>>] BY DEF PiDrops
  <2> QED BY <1>t, <2>1, <2>2, PipeTypes
<1>1. ProxyTypes' BY <1>a, <1>d, <1>e DEF ProxyInd, ProxyTypes, ReaderHas
<1>3. ASSUME NEW q \in ModelCalls \ {r} PROVE FramesKept(q) /\ CallKept(q)
  <2>1. OneRequest(up, q) BY DEF ProxyInd, CallInv, CallOnce
  <2>5. CallKept(q) BY <1>a, <1>d, <1>e DEF CallKept, Held
  <2> QED BY <1>a, <2>1, <2>5, FramesStay
<1>2. ProxyWires'
  <2>1. stage \notin {"start", "asked"} BY <1>a, <1>t DEF ProxyWires
  <2> QED BY <1>a, <1>t, <2>1 DEF ProxyWires
<1>4. CallInv(r)'
  <2>2. CallOnce(r)' BY <1>a, <1>c, <1>d, <1>t DEF CallOnce
  <2>3. Fed(r)' BY <1>c, <1>d, <1>t DEF Fed, Tracked
  <2>4. Told(r)' BY <1>a, <1>c, <1>d, <1>t DEF Told, Working
  <2> QED BY <2>2, <2>3, <2>4 DEF CallInv
<1> QED BY <1>1, <1>2, <1>3, <1>4, CallsStay

\* the first element of a channel is read
LEMMA Received1 ==
    ASSUME NEW g \in Seq(Nat), NEW p \in Seq(Nat), p # <<>>,
           \A i \in 1 .. Len(g) : g[i] = i, \A i \in 1 .. Len(p) : p[i] = Len(g) + i
    PROVE  /\ Append(g, Head(p)) \in Seq(Nat) /\ Tail(p) \in Seq(Nat)
           /\ Len(Append(g, Head(p))) = Len(g) + 1 /\ Len(Tail(p)) = Len(p) - 1 /\ Len(g) \in Nat /\ Len(p) \in Nat
           /\ \A i \in 1 .. Len(g) + 1 : Append(g, Head(p))[i] = i
           /\ \A i \in 1 .. Len(p) - 1 : Tail(p)[i] = (Len(g) + 1) + i
<1>1. Len(p) \in Nat \ {0} /\ Len(g) \in Nat /\ Head(p) = p[1] OBVIOUS
<1>2. Head(p) = Len(g) + 1 /\ Head(p) \in Nat BY <1>1
<1>3. Append(g, Head(p)) \in Seq(Nat) /\ Tail(p) \in Seq(Nat) BY <1>2
<1>4. Len(Append(g, Head(p))) = Len(g) + 1 /\ Len(Tail(p)) = Len(p) - 1 BY <1>1, <1>2
<1>5. ASSUME NEW i \in 1 .. Len(g) + 1 PROVE Append(g, Head(p))[i] = i
  <2>1. CASE i = Len(g) + 1 BY <1>1, <1>2, <2>1
  <2>2. CASE i \in 1 .. Len(g) BY <1>1, <1>2, <2>2
  <2> QED BY <1>1, <2>1, <2>2
<1>6. ASSUME NEW i \in 1 .. Len(p) - 1 PROVE Tail(p)[i] = (Len(g) + 1) + i
  <2>1. Tail(p)[i] = p[i + 1] /\ i + 1 \in 1 .. Len(p) BY <1>1
  <2> QED BY <1>1, <2>1
<1> QED BY <1>1, <1>3, <1>4, <1>5, <1>6

LEMMA OneOn ==
    ASSUME NEW g \in Nat, NEW p \in Nat
    PROVE  (g + 1) + (p - 1) + 1 = g + p + 1 /\ (g + 1) + (p - 1) + 0 = g + p + 0
OBVIOUS

LEMMA PiReadsKeeps == ASSUME ProxyInd, NEW r \in ModelCalls, PiReads(r) PROVE ProxyInd'
<1> USE DEF gatewaySide, launcher
<1>t. ProxyTypes /\ ProxyWires /\ CallOnce(r) /\ Told(r) /\ Fed(r) BY DEF ProxyInd, CallInv
<1>a. /\ request[r].pc = "body" /\ pipe[r] # <<>>
      /\ UNCHANGED <<stage, wire, writer, up, down, heads, senders, reading, job, cancels, cancelled, missed>>
  BY DEF PiReads
<1> DEFINE g == Append(request[r].got, Head(pipe[r]))
<1>s. /\ Len(request[r].got) \in Nat /\ Len(pipe[r]) \in Nat /\ Received(r) \in Nat
      /\ job[r].sent \in Nat /\ request[r].got \in Seq(Nat) /\ pipe[r] \in Seq(Nat)
  BY <1>t, ReceivedIs
<1>k. Tracked(r) BY <1>a DEF Tracked
<1>g. /\ g \in Seq(Nat) /\ Tail(pipe[r]) \in Seq(Nat)
      /\ Len(g) = Len(request[r].got) + 1 /\ Len(Tail(pipe[r])) = Len(pipe[r]) - 1
      /\ \A i \in 1 .. Len(request[r].got) + 1 : g[i] = i
      /\ \A i \in 1 .. Len(pipe[r]) - 1 : Tail(pipe[r])[i] = (Len(request[r].got) + 1) + i
  <2>1. /\ \A i \in 1 .. Len(request[r].got) : request[r].got[i] = i
        /\ \A i \in 1 .. Len(pipe[r]) : pipe[r][i] = Len(request[r].got) + i
    BY <1>t, <1>k DEF Fed
  <2> QED BY <1>a, <1>s, <2>1, Received1
<1>c. PICK x : /\ request' = [request EXCEPT ![r] = x] /\ IsChat(x) /\ x.got = g
               /\ x.pc = "body" /\ x.answer = request[r].answer /\ x.model = request[r].model
  <2> DEFINE x == [request[r] EXCEPT !.got = g]
  <2>1. request' = [request EXCEPT ![r] = x] BY DEF PiReads
  <2>2. IsChat(request[r]) BY <1>t DEF ProxyTypes
  <2>h. g \in Seq(Nat) BY <1>g
  <2> HIDE DEF g
  <2>3. IsChat(x) /\ x.got = g /\ x.pc = request[r].pc /\ x.answer = request[r].answer /\ x.model = request[r].model
    BY <2>2, <2>h DEF IsChat
  <2> QED BY <1>a, <2>1, <2>3
<1> HIDE DEF g
<1>d. /\ request'[r] = x /\ \A q \in ModelCalls \ {r} : request'[q] = request[q]
      /\ request' = [q \in ModelCalls |-> request'[q]] /\ \A q \in ModelCalls : IsChat(request'[q])
  BY <1>c, <1>t, ChatTypes
<1>e. pipe'[r] = Tail(pipe[r]) /\ (\A q \in ModelCalls \ {r} : pipe'[q] = pipe[q]) /\ pipe' \in [ModelCalls -> Seq(Nat)]
  <2>2. pipe' = [pipe EXCEPT ![r] = Tail(pipe[r])] BY DEF PiReads
  <2>3. Tail(pipe[r]) \in Seq(Nat) BY <1>g
  <2> QED BY <1>t, <2>2, <2>3, PipeTypes
<1>1. ProxyTypes' BY <1>a, <1>d, <1>e DEF ProxyInd, ProxyTypes, ReaderHas
<1>3. ASSUME NEW q \in ModelCalls \ {r} PROVE FramesKept(q) /\ CallKept(q)
  <2>1. OneRequest(up, q) BY DEF ProxyInd, CallInv, CallOnce
  <2>5. CallKept(q) BY <1>a, <1>d, <1>e DEF CallKept, Held
  <2> QED BY <1>a, <2>1, <2>5, FramesStay
<1>2. ProxyWires'
  <2>1. stage \notin {"start", "asked"} BY <1>a, <1>t DEF ProxyWires
  <2> QED BY <1>a, <1>t, <2>1 DEF ProxyWires
<1>4. CallInv(r)'
  <2>2. CallOnce(r)' BY <1>a, <1>c, <1>d, <1>t DEF CallOnce
  <2>l. Len(request'[r].got) = Len(request[r].got) + 1 /\ Len(pipe'[r]) = Len(pipe[r]) - 1
    BY <1>c, <1>d, <1>e, <1>g
  <2>s. \A h \in Nat : Len(request'[r].got) + Len(pipe'[r]) + h = Len(request[r].got) + Len(pipe[r]) + h
    <3>1. PICK g0, p0 : g0 = Len(request[r].got) /\ p0 = Len(pipe[r]) OBVIOUS
    <3>2. g0 \in Nat /\ p0 \in Nat BY <1>s, <3>1
    <3>3. Len(request'[r].got) = g0 + 1 /\ Len(pipe'[r]) = p0 - 1 BY <2>l, <3>1
    <3>4. \A h \in Nat : (g0 + 1) + (p0 - 1) + h = g0 + p0 + h BY <3>2
    <3> QED BY <3>1, <3>3, <3>4
  <2>r. Received(r)' = Received(r)
    <3>1. CASE Held(r)
      <4>1. Held(r)' BY <1>a, <3>1 DEF Held
      <4>2. Received(r) = Len(request[r].got) + Len(pipe[r]) + 1 BY <3>1 DEF Received
      <4>3. Received(r)' = Len(request'[r].got) + Len(pipe'[r]) + 1 BY <4>1 DEF Received
      <4>4. Len(request'[r].got) + Len(pipe'[r]) + 1 = Len(request[r].got) + Len(pipe[r]) + 1 BY <2>s
      <4> QED BY <4>2, <4>3, <4>4
    <3>2. CASE ~Held(r)
      <4>1. ~Held(r)' BY <1>a, <3>2 DEF Held
      <4>2. Received(r) = Len(request[r].got) + Len(pipe[r]) + 0 BY <3>2 DEF Received
      <4>3. Received(r)' = Len(request'[r].got) + Len(pipe'[r]) + 0 BY <4>1 DEF Received
      <4>4. Len(request'[r].got) + Len(pipe'[r]) + 0 = Len(request[r].got) + Len(pipe[r]) + 0 BY <2>s
      <4> QED BY <4>2, <4>3, <4>4
    <3> QED BY <3>1, <3>2
  <2>3. Fed(r)'
    <3>1. /\ \A i \in 1 .. Len(request'[r].got) : request'[r].got[i] = i
          /\ \A i \in 1 .. Len(pipe'[r]) : pipe'[r][i] = Len(request'[r].got) + i
      BY <1>c, <1>d, <1>e, <1>g
    <3>2. Held(r)' => reading'[3] = Len(request'[r].got) + Len(pipe'[r]) + 1
      <4>1. Held(r) => reading[3] = Len(request[r].got) + Len(pipe[r]) + 1 BY <1>t, <1>k DEF Fed
      <4>2. (Len(request[r].got) + 1) + (Len(pipe[r]) - 1) + 1 = Len(request[r].got) + Len(pipe[r]) + 1 BY <1>s, OneOn
      <4> QED BY <1>a, <2>l, <4>1, <4>2 DEF Held
    <3>3. Closed(r)' <=> Closed(r) BY <1>a DEF Closed, Working
    <3> QED BY <1>a, <1>c, <1>d, <1>t, <1>k, <2>r, <3>1, <3>2, <3>3 DEF Fed
  <2>4. Told(r)' BY <1>a, <1>c, <1>d, <1>t DEF Told, Working
  <2> QED BY <2>2, <2>3, <2>4 DEF CallInv
<1> QED BY <1>1, <1>2, <1>3, <1>4, CallsStay

\* what the reader holds of a call
LEMMA HeldIs ==
    ASSUME ProxyTypes, NEW r \in ModelCalls, Held(r)
    PROVE  \E n \in Nat : reading = <<"full", r, n>> /\ reading[3] = n
BY DEF ProxyTypes, Held, ReaderHas, Idle, Gone

LEMMA PiEndsKeeps == ASSUME ProxyInd, NEW r \in ModelCalls, PiEnds(r) PROVE ProxyInd'
<1> USE DEF gatewaySide, launcher
<1>t. ProxyTypes /\ ProxyWires /\ CallOnce(r) /\ Told(r) /\ Fed(r) BY DEF ProxyInd, CallInv
<1>a. /\ request[r].pc = "body" /\ pipe[r] = <<>> /\ r \notin senders
      /\ reading \notin {<<"full", r, n>> : n \in 1 .. MaxBytes[r]}
      /\ UNCHANGED <<stage, wire, writer, up, down, heads, senders, pipe, reading, job, cancels, cancelled, missed>>
  BY DEF PiEnds
<1>s. /\ Len(request[r].got) \in Nat /\ Received(r) \in Nat /\ job[r].sent \in Nat BY <1>t, ReceivedIs
<1>m. MaxBytes[r] \in Nat BY LinkProxyAssumption
<1>k. Tracked(r) BY <1>a DEF Tracked
<1>z. Len(pipe[r]) = 0 BY <1>a, QueueEmpty
<1>h. ~Held(r)
  <2> SUFFICES ASSUME Held(r) PROVE FALSE OBVIOUS
  <2>1. PICK n \in Nat : reading = <<"full", r, n>> /\ reading[3] = n BY <1>t, HeldIs
  <2>2. n = Len(request[r].got) + 0 + 1 BY <1>t, <1>k, <1>z, <2>1 DEF Fed
  <2>3. Received(r) = Len(request[r].got) + 0 + 1 BY <1>z DEF Received
  <2>4. Received(r) <= job[r].sent /\ job[r].sent <= MaxBytes[r] BY <1>t, <1>k DEF Fed, CallOnce
  <2>5. n \in 1 .. MaxBytes[r] BY <1>s, <1>m, <2>2, <2>3, <2>4
  <2> QED BY <1>a, <2>1, <2>5
<1>w. Closed(r) /\ Len(request[r].got) = job[r].sent
  <2>1. Received(r) = Len(request[r].got) + 0 + 0 BY <1>z, <1>h DEF Received
  <2>2. Closed(r) /\ Received(r) = job[r].sent BY <1>a, <1>t, <1>k DEF Fed
  <2> QED BY <1>s, <2>1, <2>2
<1>c. PICK x : /\ request' = [request EXCEPT ![r] = x] /\ IsChat(x) /\ x.got = request[r].got
               /\ x.pc = "done" /\ x.answer = request[r].answer /\ x.model = request[r].model
  <2> DEFINE x == [request[r] EXCEPT !.pc = "done"]
  <2>1. request' = [request EXCEPT ![r] = x] BY DEF PiEnds
  <2>2. IsChat(request[r]) BY <1>t DEF ProxyTypes
  <2>3. IsChat(x) /\ x.got = request[r].got /\ x.pc = "done" /\ x.answer = request[r].answer /\ x.model = request[r].model
    BY <2>2 DEF IsChat
  <2> QED BY <2>1, <2>3
<1>d. /\ request'[r] = x /\ \A q \in ModelCalls \ {r} : request'[q] = request[q]
      /\ request' = [q \in ModelCalls |-> request'[q]] /\ \A q \in ModelCalls : IsChat(request'[q])
  BY <1>c, <1>t, ChatTypes
<1>1. ProxyTypes' BY <1>a, <1>d DEF ProxyInd, ProxyTypes, ReaderHas
<1>3. ASSUME NEW q \in ModelCalls \ {r} PROVE FramesKept(q) /\ CallKept(q)
  <2>1. OneRequest(up, q) BY DEF ProxyInd, CallInv, CallOnce
  <2>5. CallKept(q) BY <1>a, <1>d DEF CallKept, Held
  <2> QED BY <1>a, <2>1, <2>5, FramesStay
<1>2. ProxyWires'
  <2>1. stage \notin {"start", "asked"} BY <1>a, <1>t DEF ProxyWires
  <2> QED BY <1>a, <1>t, <2>1 DEF ProxyWires
<1>4. CallInv(r)'
  <2>2. CallOnce(r)' BY <1>a, <1>c, <1>d, <1>t DEF CallOnce
  <2>3. Fed(r)'
    <3>1. Closed(r)' BY <1>a, <1>w DEF Closed, Working
    <3> QED BY <1>a, <1>c, <1>d, <1>t, <1>w, <3>1 DEF Fed, Tracked
  <2>4. Told(r)' BY <1>a, <1>c, <1>d, <1>t DEF Told, Working
  <2> QED BY <2>2, <2>3, <2>4 DEF CallInv
<1> QED BY <1>1, <1>2, <1>3, <1>4, CallsStay

LEMMA TakenTypes ==
    ASSUME NEW q, IsQueue(q), KnownCalls(q), q # <<>>
    PROVE  IsQueue(Tail(q)) /\ KnownCalls(Tail(q)) /\ (Head(q).kind # "routes" => Head(q).call \in ModelCalls)
<1>1. UpFrame("routes", "none").kind = "routes" BY DEF UpFrame
<1> QED BY <1>1, QueueTypes

\* a chunk is put into its channel
LEMMA PipeGrows ==
    \A g \in Nat, p \in Seq(Nat), n \in Nat :
        n = g + Len(p) + 1 /\ (\A i \in 1 .. Len(p) : p[i] = g + i)
        => /\ Append(p, n) \in Seq(Nat) /\ Len(Append(p, n)) = Len(p) + 1
           /\ \A i \in 1 .. Len(Append(p, n)) : Append(p, n)[i] = g + i
<1> SUFFICES ASSUME NEW g \in Nat, NEW p \in Seq(Nat), NEW n \in Nat, n = g + Len(p) + 1,
                    \A i \in 1 .. Len(p) : p[i] = g + i
             PROVE  /\ Append(p, n) \in Seq(Nat) /\ Len(Append(p, n)) = Len(p) + 1
                    /\ \A i \in 1 .. Len(Append(p, n)) : Append(p, n)[i] = g + i
  OBVIOUS
<1>1. Append(p, n) \in Seq(Nat) /\ Len(Append(p, n)) = Len(p) + 1 /\ Len(p) \in Nat OBVIOUS
<1>2. ASSUME NEW i \in 1 .. Len(p) + 1 PROVE Append(p, n)[i] = g + i
  <2>1. CASE i = Len(p) + 1 BY <1>1, <2>1
  <2>2. CASE i \in 1 .. Len(p) BY <1>1, <2>2
  <2> QED BY <1>1, <2>1, <2>2
<1> QED BY <1>1, <1>2

LEMMA Sums == ASSUME NEW g \in Nat, NEW p \in Nat
              PROVE (g + p + 0) + 1 = g + p + 1 /\ g + (p + 1) + 0 = g + p + 1
OBVIOUS

LEMMA ReceivedSays ==
    ASSUME NEW r
    PROVE  /\ Held(r) => Received(r) = Len(request[r].got) + Len(pipe[r]) + 1
           /\ ~Held(r) => Received(r) = Len(request[r].got) + Len(pipe[r]) + 0
BY DEF Received

LEMMA TakeChunkKeeps == ASSUME ProxyInd, TakeChunk PROVE ProxyInd'
<1> USE DEF gatewaySide, launcher
<1>f. PICK f, r : f = Head(down) /\ f.call = r OBVIOUS
<1>a. /\ reading = Idle /\ stage = "running" /\ down # <<>> /\ f.kind = "chunk" /\ down' = Tail(down)
      /\ UNCHANGED <<stage, wire, writer, up, heads, senders, request, job, cancels, cancelled, missed>>
  BY <1>f DEF TakeChunk
<1>i. IF r \in senders /\ Tracked(r) /\ Len(pipe[r]) = ChunkCap
      THEN reading' = <<"full", r, f.n>> /\ pipe' = pipe
      ELSE /\ pipe' = IF r \in senders /\ Tracked(r) THEN [pipe EXCEPT ![r] = Append(pipe[r], f.n)] ELSE pipe
           /\ reading' = reading
  BY <1>f DEF TakeChunk, Tracked
<1>q. IsQueue(down) /\ KnownCalls(down) /\ ProxyTypes /\ ProxyWires BY DEF ProxyInd, ProxyTypes
<1>r. r \in ModelCalls /\ IsQueue(down') /\ KnownCalls(down') BY <1>a, <1>f, <1>q, TakenTypes
<1>t. CallOnce(r) /\ Told(r) /\ Fed(r) BY <1>r DEF ProxyInd, CallInv
<1>u. Under(down, "chunk", r) /\ \A k : Under(down', k, r) => Under(down, k, r)
  BY <1>a, <1>f, <1>q, UnderTail
<1>v. Under(down, "end", r) => Under(down', "end", r) BY <1>a, <1>f, <1>q, UnderTail
<1>n. request[r].pc # "new" BY <1>t, <1>u DEF CallOnce
<1>h. \A q : ~Held(q) BY <1>a, HeldNone
<1>s. /\ Len(request[r].got) \in Nat /\ Len(pipe[r]) \in Nat /\ Received(r) \in Nat
      /\ job[r].sent \in Nat /\ request[r].got \in Seq(Nat) /\ pipe[r] \in Seq(Nat)
  BY <1>q, <1>r, ReceivedIs
<1>3. ASSUME NEW q \in ModelCalls, q # r PROVE FramesKept(q)
  <2>1. OneRequest(up, q) BY DEF ProxyInd, CallInv, CallOnce
  <2>2. DownKept(q) BY <1>a, <1>f, <1>q, <1>3, DownStays
  <2>3. UpKept(q) BY <1>a, <2>1 DEF UpKept
  <2> QED BY <1>a, <2>2, <2>3 DEF FramesKept
<1>w. ProxyWires' BY <1>a, <1>q DEF ProxyWires
<1>o. CallOnce(r)'
  <2>1. request'[r] = request[r] /\ job'[r] = job[r] BY <1>a
  <2> QED BY <1>a, <1>t, <1>n, <2>1 DEF CallOnce
<1>l. Told(r)' BY <1>a, <1>t, <1>v DEF Told, Working
<1>c. Closed(r)' <=> Closed(r) BY <1>a DEF Closed, Working
<1>1. CASE ~Tracked(r)
  <2>1. pipe' = pipe /\ reading' = reading BY <1>1, <1>i
  <2>2. ProxyTypes' BY <1>a, <1>q, <1>r, <2>1 DEF ProxyTypes, ReaderHas
  <2>3. ASSUME NEW q \in ModelCalls, q # r PROVE CallKept(q) BY <1>a, <2>1 DEF CallKept, Held
  <2>4. Fed(r)' BY <1>a, <1>1, <1>t, <1>c DEF Fed, Tracked
  <2>5. CallInv(r)' BY <1>o, <1>l, <2>4 DEF CallInv
  <2> QED BY <1>3, <1>w, <2>2, <2>3, <2>5, CallsStay
<1>2. CASE Tracked(r)
  <2>1. r \in senders BY <1>2, <1>t, <1>u DEF Fed
  <2>d. /\ \A i \in 1 .. Len(pipe[r]) : pipe[r][i] = Len(request[r].got) + i
        /\ Delivery(down, r, Received(r), job[r].sent)
        /\ wire = "up" => Reaches(down, r, Received(r), job[r].sent)
        /\ Under(down, "end", r) => Closed(r)
    BY <1>2, <1>t DEF Fed
  <2>e. /\ f.n = Received(r) + 1 /\ Received(r) + 1 <= job[r].sent /\ Delivery(down', r, Received(r) + 1, job[r].sent)
        /\ wire = "up" => Reaches(down', r, Received(r) + 1, job[r].sent)
    BY <1>a, <1>f, <1>q, <1>s, <2>d, ChunkTaken
  <2>g. Received(r) = Len(request[r].got) + Len(pipe[r]) + 0 BY <1>h, ReceivedSays
  <2>n. f.n \in Nat /\ f.n = Len(request[r].got) + Len(pipe[r]) + 1
    <3>1. PICK g \in Nat, p \in Nat : g = Len(request[r].got) /\ p = Len(pipe[r]) BY <1>s
    <3>2. Received(r) = g + p + 0 BY <2>g, <3>1
    <3>3. f.n = g + p + 1 BY <2>e, <3>2
    <3>4. f.n \in Nat BY <3>3
    <3> QED BY <3>1, <3>3, <3>4
  <2>k. ASSUME ProxyTypes', Received(r)' = Received(r) + 1,
               \A i \in 1 .. Len(pipe'[r]) : pipe'[r][i] = Len(request'[r].got) + i,
               Held(r)' => reading'[3] = Len(request'[r].got) + Len(pipe'[r]) + 1,
               \A q \in ModelCalls \ {r} : pipe'[q] = pipe[q] /\ ~Held(q)'
        PROVE  ProxyInd'
    <3>1. ASSUME NEW q \in ModelCalls, q # r PROVE CallKept(q) BY <1>a, <1>h, <2>k, <3>1 DEF CallKept
    <3>2. Tracked(r)' BY <1>a, <1>2 DEF Tracked
    <3>3. Fed(r)'
      <4>1. \A i \in 1 .. Len(request'[r].got) : request'[r].got[i] = i BY <1>a, <1>t DEF Fed
      <4>2. request'[r].pc # "done" BY <1>a, <1>2 DEF Tracked
      <4>3. /\ Received(r)' <= job'[r].sent /\ Delivery(down', r, Received(r)', job'[r].sent)
            /\ wire' = "up" => Reaches(down', r, Received(r)', job'[r].sent)
        BY <1>a, <2>e, <2>k
      <4>4. Under(down', "end", r) => Closed(r)' BY <1>c, <1>u, <2>d
      <4>5. r \in senders' BY <1>a, <2>1
      <4> QED BY <2>k, <4>1, <4>2, <4>3, <4>4, <4>5 DEF Fed
    <3>4. CallInv(r)' BY <1>o, <1>l, <3>3 DEF CallInv
    <3> QED BY <1>3, <1>w, <2>k, <3>1, <3>4, CallsStay
  <2>2. CASE Len(pipe[r]) = ChunkCap
    <3>1. reading' = <<"full", r, f.n>> /\ pipe' = pipe BY <1>2, <1>i, <2>1, <2>2
    <3>2. ReaderHas(r, f.n)' BY <3>1 DEF ReaderHas
    <3>3. ProxyTypes' BY <1>a, <1>q, <1>r, <2>n, <3>1, <3>2 DEF ProxyTypes
    <3>4. Held(r)' /\ reading'[3] = f.n /\ \A q \in ModelCalls \ {r} : ~Held(q)' BY <3>1 DEF Held
    <3>5. Received(r)' = Received(r) + 1
      <4>1. Received(r)' = Len(request'[r].got) + Len(pipe'[r]) + 1 BY <3>4 DEF Received
      <4>2. Received(r)' = Len(request[r].got) + Len(pipe[r]) + 1 BY <1>a, <3>1, <4>1
      <4> QED BY <1>s, <2>g, <4>2, Sums
    <3>6. \A i \in 1 .. Len(pipe'[r]) : pipe'[r][i] = Len(request'[r].got) + i BY <1>a, <2>d, <3>1
    <3>7. reading'[3] = Len(request'[r].got) + Len(pipe'[r]) + 1 BY <1>a, <2>n, <3>1, <3>4
    <3> QED BY <2>k, <3>1, <3>3, <3>4, <3>5, <3>6, <3>7
  <2>3. CASE Len(pipe[r]) # ChunkCap
    <3>1. reading' = reading /\ pipe' = [pipe EXCEPT ![r] = Append(pipe[r], f.n)] BY <1>2, <1>i, <2>1, <2>3
    <3>p. /\ Append(pipe[r], f.n) \in Seq(Nat) /\ Len(Append(pipe[r], f.n)) = Len(pipe[r]) + 1
          /\ \A i \in 1 .. Len(Append(pipe[r], f.n)) : Append(pipe[r], f.n)[i] = Len(request[r].got) + i
      <4>1. PICK g \in Nat, l \in Nat : g = Len(request[r].got) /\ l = Len(pipe[r]) BY <1>s
      <4>2. f.n = g + l + 1 /\ \A i \in 1 .. Len(pipe[r]) : pipe[r][i] = g + i BY <2>d, <2>n, <4>1
      <4>3. /\ Append(pipe[r], f.n) \in Seq(Nat) /\ Len(Append(pipe[r], f.n)) = Len(pipe[r]) + 1
            /\ \A i \in 1 .. Len(Append(pipe[r], f.n)) : Append(pipe[r], f.n)[i] = g + i
          <5>1. PICK p \in Seq(Nat), n \in Nat : p = pipe[r] /\ n = f.n BY <1>s, <2>n
          <5>2. n = g + Len(p) + 1 /\ \A i \in 1 .. Len(p) : p[i] = g + i BY <4>1, <4>2, <5>1
          <5>3. /\ Append(p, n) \in Seq(Nat) /\ Len(Append(p, n)) = Len(p) + 1
                /\ \A i \in 1 .. Len(Append(p, n)) : Append(p, n)[i] = g + i
            BY <5>2, PipeGrows, Zenon
          <5> QED BY <5>1, <5>3
      <4> QED BY <4>1, <4>3
    <3>2. pipe'[r] = Append(pipe[r], f.n) /\ (\A q \in ModelCalls \ {r} : pipe'[q] = pipe[q])
          /\ pipe' \in [ModelCalls -> Seq(Nat)]
      BY <1>q, <1>r, <3>1, <3>p, PipeTypes
    <3>3. ProxyTypes' BY <1>a, <1>q, <1>r, <3>1, <3>2 DEF ProxyTypes, ReaderHas
    <3>4. \A q : ~Held(q)' BY <1>a, <3>1, HeldNone
    <3>5. Received(r)' = Received(r) + 1
      <4>1. Received(r)' = Len(request'[r].got) + Len(pipe'[r]) + 0 BY <3>4 DEF Received
      <4>2. Received(r)' = Len(request[r].got) + (Len(pipe[r]) + 1) + 0 BY <1>a, <3>2, <3>p, <4>1
      <4> QED BY <1>s, <2>g, <4>2, Sums
    <3>6. \A i \in 1 .. Len(pipe'[r]) : pipe'[r][i] = Len(request'[r].got) + i BY <1>a, <3>2, <3>p
    <3> QED BY <2>k, <3>2, <3>3, <3>4, <3>5, <3>6
  <2> QED BY <2>2, <2>3
<1> QED BY <1>1, <1>2

LEMMA ReaderGoesOnKeeps == ASSUME ProxyInd, NEW r \in ModelCalls, ReaderGoesOn(r) PROVE ProxyInd'
<1> USE DEF gatewaySide, launcher
<1>t. ProxyTypes /\ ProxyWires /\ CallOnce(r) /\ Told(r) /\ Fed(r) BY DEF ProxyInd, CallInv
<1>a. /\ Held(r) /\ reading' = Idle
      /\ UNCHANGED <<stage, wire, writer, up, down, heads, senders, request, job, cancels, cancelled, missed>>
  BY DEF ReaderGoesOn, Held
<1>i. \/ Tracked(r) /\ pipe' = [pipe EXCEPT ![r] = Append(pipe[r], reading[3])]
      \/ ~Tracked(r) /\ pipe' = pipe
  BY DEF ReaderGoesOn, Tracked
<1>s. /\ Len(request[r].got) \in Nat /\ Len(pipe[r]) \in Nat /\ Received(r) \in Nat
      /\ job[r].sent \in Nat /\ request[r].got \in Seq(Nat) /\ pipe[r] \in Seq(Nat)
  BY <1>t, ReceivedIs
<1>n. reading[3] \in Nat BY <1>t, <1>a, HeldIs
<1>h. (\A q : ~Held(q)') /\ \A q \in ModelCalls \ {r} : ~Held(q) BY <1>a, HeldNone DEF Held
<1>w. ProxyWires' BY <1>a, <1>t DEF ProxyWires
<1>o. CallOnce(r)'
  <2>1. request[r].pc # "new" BY <1>t, <1>a DEF CallOnce
  <2> QED BY <1>a, <1>t, <2>1 DEF CallOnce
<1>l. Told(r)' BY <1>a, <1>t DEF Told, Working
<1>c. Closed(r)' <=> Closed(r) BY <1>a DEF Closed, Working
<1>3. ASSUME NEW q \in ModelCalls \ {r}, pipe'[q] = pipe[q] PROVE FramesKept(q) /\ CallKept(q)
  <2>1. OneRequest(up, q) BY DEF ProxyInd, CallInv, CallOnce
  <2>5. CallKept(q) BY <1>a, <1>h, <1>3 DEF CallKept
  <2> QED BY <1>a, <2>1, <2>5, FramesStay
<1>1. CASE ~Tracked(r) /\ pipe' = pipe
  <2>1. ProxyTypes' BY <1>a, <1>t, <1>1 DEF ProxyTypes
  <2>2. Fed(r)' BY <1>a, <1>1, <1>t, <1>c DEF Fed, Tracked
  <2>3. CallInv(r)' BY <1>o, <1>l, <2>2 DEF CallInv
  <2> QED BY <1>1, <1>3, <1>w, <2>1, <2>3, CallsStay
<1>2. CASE Tracked(r) /\ pipe' = [pipe EXCEPT ![r] = Append(pipe[r], reading[3])]
  <2>d. /\ \A i \in 1 .. Len(pipe[r]) : pipe[r][i] = Len(request[r].got) + i
        /\ reading[3] = Len(request[r].got) + Len(pipe[r]) + 1
    BY <1>2, <1>a, <1>t DEF Fed
  <2>p. /\ Append(pipe[r], reading[3]) \in Seq(Nat) /\ Len(Append(pipe[r], reading[3])) = Len(pipe[r]) + 1
        /\ \A i \in 1 .. Len(Append(pipe[r], reading[3])) : Append(pipe[r], reading[3])[i] = Len(request[r].got) + i
    <3>1. PICK g \in Nat, l \in Nat : g = Len(request[r].got) /\ l = Len(pipe[r]) BY <1>s
    <3>2. reading[3] = g + l + 1 /\ \A i \in 1 .. Len(pipe[r]) : pipe[r][i] = g + i BY <2>d, <3>1
    <3>3. /\ Append(pipe[r], reading[3]) \in Seq(Nat) /\ Len(Append(pipe[r], reading[3])) = Len(pipe[r]) + 1
          /\ \A i \in 1 .. Len(Append(pipe[r], reading[3])) : Append(pipe[r], reading[3])[i] = g + i
        <4>1. PICK p \in Seq(Nat), n \in Nat : p = pipe[r] /\ n = reading[3] BY <1>s, <1>n
        <4>2. n = g + Len(p) + 1 /\ \A i \in 1 .. Len(p) : p[i] = g + i BY <3>1, <3>2, <4>1
        <4>3. /\ Append(p, n) \in Seq(Nat) /\ Len(Append(p, n)) = Len(p) + 1
              /\ \A i \in 1 .. Len(Append(p, n)) : Append(p, n)[i] = g + i
          BY <4>2, PipeGrows, Zenon
        <4> QED BY <4>1, <4>3
    <3> QED BY <3>1, <3>3
  <2>2. pipe'[r] = Append(pipe[r], reading[3]) /\ (\A q \in ModelCalls \ {r} : pipe'[q] = pipe[q])
        /\ pipe' \in [ModelCalls -> Seq(Nat)]
    BY <1>t, <1>2, <2>p, PipeTypes
  <2>3. ProxyTypes' BY <1>a, <1>t, <2>2 DEF ProxyTypes
  <2>5. Received(r)' = Received(r)
    <3>0. Received(r) = Len(request[r].got) + Len(pipe[r]) + 1 BY <1>a, ReceivedSays
    <3>1. Received(r)' = Len(request'[r].got) + Len(pipe'[r]) + 0 BY <1>h DEF Received
    <3>2. Received(r)' = Len(request[r].got) + (Len(pipe[r]) + 1) + 0 BY <1>a, <2>2, <2>p, <3>1
    <3> QED BY <1>s, <3>0, <3>2, Sums
  <2>6. \A i \in 1 .. Len(pipe'[r]) : pipe'[r][i] = Len(request'[r].got) + i BY <1>a, <2>2, <2>p
  <2>7. Fed(r)'
    <3>1. \A i \in 1 .. Len(request'[r].got) : request'[r].got[i] = i BY <1>a, <1>t DEF Fed
    <3>2. request'[r].pc # "done" BY <1>a, <1>2 DEF Tracked
    <3> QED BY <1>a, <1>c, <1>h, <1>t, <1>2, <2>5, <2>6, <3>1, <3>2 DEF Fed
  <2>8. CallInv(r)' BY <1>o, <1>l, <2>7 DEF CallInv
  <2> QED BY <1>3, <1>w, <2>2, <2>3, <2>8, CallsStay
<1> QED BY <1>i, <1>1, <1>2

LEMMA TakeHeadKeeps == ASSUME ProxyInd, TakeHead PROVE ProxyInd'
<1> USE DEF gatewaySide, launcher
<1>f. PICK f, r : f = Head(down) /\ f.call = r OBVIOUS
<1>a. /\ reading = Idle /\ stage = "running" /\ down # <<>> /\ f.kind \in {"head", "end"} /\ down' = Tail(down)
      /\ UNCHANGED <<stage, wire, writer, up, reading, pipe, job, cancels, cancelled, missed>>
  BY <1>f DEF TakeHead
<1>i. IF f.kind = "head" THEN Heads(r, "200") /\ senders' = senders
      ELSE Heads(r, "502") /\ senders' = senders \ {r}
  BY <1>f DEF TakeHead
<1>q. IsQueue(down) /\ KnownCalls(down) /\ ProxyTypes /\ ProxyWires BY DEF ProxyInd, ProxyTypes
<1>r. r \in ModelCalls /\ IsQueue(down') /\ KnownCalls(down') BY <1>a, <1>f, <1>q, TakenTypes
<1>t. CallOnce(r) /\ Told(r) /\ Fed(r) BY <1>r DEF ProxyInd, CallInv
<1>h. \A q : ~Held(q) /\ ~Held(q)' BY <1>a, HeldNone
<1>s. Received(r) \in Nat /\ job[r].sent \in Nat BY <1>q, <1>r, ReceivedIs
<1>x. /\ request' = [q \in ModelCalls |-> request'[q]] /\ \A q \in ModelCalls : IsChat(request'[q])
      /\ \A q \in ModelCalls \ {r} : request'[q] = request[q]
      /\ request'[r].got = request[r].got /\ request'[r].model = request[r].model
      /\ \/ request[r].pc # "wait" /\ request'[r] = request[r]
         \/ request[r].pc = "wait" /\ request'[r].pc = "body" /\ request'[r].answer \in {"200", "502"}
      /\ heads' = heads \ {r}
  <2>1. PICK answer \in {"200", "502"} : Heads(r, answer) BY <1>i
  <2>2. request[r].pc = "wait" => r \in heads BY <1>t DEF Told
  <2>3. heads' = heads \ {r} BY <2>1 DEF Heads
  <2>4. CASE request[r].pc = "wait"
    <3> DEFINE x == [request[r] EXCEPT !.pc = "body", !.answer = answer]
    <3>1. request' = [request EXCEPT ![r] = x] BY <2>1, <2>2, <2>4 DEF Heads
    <3>2. IsChat(request[r]) BY <1>q, <1>r DEF ProxyTypes
    <3>3. IsChat(x) /\ x.got = request[r].got /\ x.model = request[r].model /\ x.pc = "body" /\ x.answer = answer
      BY <3>2 DEF IsChat
    <3> HIDE DEF x
    <3>4. /\ request'[r] = x /\ \A q \in ModelCalls \ {r} : request'[q] = request[q]
          /\ request' = [q \in ModelCalls |-> request'[q]] /\ \A q \in ModelCalls : IsChat(request'[q])
      BY <1>q, <1>r, <3>1, <3>3, ChatTypes
    <3> QED BY <2>3, <2>4, <3>3, <3>4
  <2>5. CASE request[r].pc # "wait"
    <3>1. request' = request BY <2>1, <2>5 DEF Heads
    <3> QED BY <1>q, <2>3, <2>5, <3>1 DEF ProxyTypes
  <2> QED BY <2>4, <2>5
<1>1. ProxyTypes' BY <1>a, <1>q, <1>r, <1>x DEF ProxyTypes, ReaderHas
<1>2. ProxyWires' BY <1>a, <1>q DEF ProxyWires
<1>3. ASSUME NEW q \in ModelCalls, q # r PROVE FramesKept(q) /\ CallKept(q)
  <2>1. OneRequest(up, q) BY DEF ProxyInd, CallInv, CallOnce
  <2>2. DownKept(q) BY <1>a, <1>f, <1>q, <1>3, DownStays
  <2>3. UpKept(q) BY <1>a, <2>1 DEF UpKept
  <2>4. (q \in heads' <=> q \in heads) /\ (q \in senders' <=> q \in senders) BY <1>i, <1>x, <1>3
  <2>5. CallKept(q) BY <1>a, <1>h, <1>x, <1>3, <2>4 DEF CallKept
  <2> QED BY <1>a, <2>2, <2>3, <2>5 DEF FramesKept
<1>4. CallInv(r)'
  <2>u. \A k : Under(down', k, r) => Under(down, k, r) BY <1>a, <1>f, <1>q, UnderTail
  <2>k. (Tracked(r)' <=> Tracked(r)) /\ (request'[r].pc = "done" <=> request[r].pc = "done")
        /\ (request'[r].pc = "new" <=> request[r].pc = "new") /\ (request'[r].pc = "done" => request'[r] = request[r])
        /\ (request'[r].pc = "new" => request'[r] = request[r]) /\ request'[r].pc # "wait"
        /\ (request'[r].answer = "504" => request[r].answer = "504")
    BY <1>x DEF Tracked
  <2>c. Closed(r)' <=> Closed(r) BY <1>a DEF Closed, Working
  <2>g. Received(r)' = Received(r) BY <1>a, <1>h, <1>x DEF Received
  <2>o. CallOnce(r)' BY <1>a, <1>h, <1>i, <1>t, <1>x, <2>u, <2>k DEF CallOnce
  <2>1. CASE f.kind = "head"
    <3>1. senders' = senders BY <1>i, <2>1
    <3>2. ~(Head(down).kind \in {"chunk", "end"} /\ Head(down).call = r) BY <1>f, <2>1
    <3>3. /\ Delivery(down, r, Received(r), job[r].sent) => Delivery(down', r, Received(r), job[r].sent)
          /\ Reaches(down, r, Received(r), job[r].sent) => Reaches(down', r, Received(r), job[r].sent)
      BY <1>a, <1>q, <1>s, <3>2, OtherTaken
    <3>4. Under(down', "end", r) <=> Under(down, "end", r) BY <1>a, <1>f, <1>q, <2>1, UnderTail
    <3>5. Fed(r)'
      <4>1. \A i \in 1 .. Len(request'[r].got) : request'[r].got[i] = i BY <1>t, <1>x DEF Fed
      <4>2. ASSUME Tracked(r)
            PROVE  /\ \A i \in 1 .. Len(pipe'[r]) : pipe'[r][i] = Len(request'[r].got) + i
                   /\ Received(r)' <= job'[r].sent
                   /\ Delivery(down', r, Received(r)', job'[r].sent)
                   /\ wire' = "up" => Reaches(down', r, Received(r)', job'[r].sent)
                   /\ Under(down', "end", r) => Closed(r)'
                   /\ r \notin senders' => /\ Closed(r)' /\ Received(r)' = job'[r].sent
                                           /\ ~Under(down', "chunk", r) /\ ~Under(down', "end", r)
        BY <1>a, <1>t, <1>x, <2>u, <2>c, <2>g, <3>1, <3>3, <3>4, <4>2 DEF Fed
      <4>3. request'[r].pc = "done" /\ request'[r].answer = "200" => Closed(r)' /\ Len(request'[r].got) = job'[r].sent
        BY <1>a, <1>t, <2>c, <2>k DEF Fed
      <4> QED BY <1>h, <2>k, <4>1, <4>2, <4>3 DEF Fed
    <3>6. Told(r)' BY <1>a, <1>t, <2>k, <3>1, <3>4 DEF Told, Working
    <3> QED BY <2>o, <3>5, <3>6 DEF CallInv
  <2>2. CASE f.kind = "end"
    <3>1. r \notin senders' BY <1>i, <2>2
    <3>2. Under(down, "end", r) BY <1>a, <1>f, <1>q, <2>2, UnderTail
    <3>5. Fed(r)'
      <4>1. \A i \in 1 .. Len(request'[r].got) : request'[r].got[i] = i BY <1>t, <1>x DEF Fed
      <4>2. ASSUME Tracked(r)
            PROVE  /\ \A i \in 1 .. Len(pipe'[r]) : pipe'[r][i] = Len(request'[r].got) + i
                   /\ Received(r)' <= job'[r].sent
                   /\ Delivery(down', r, Received(r)', job'[r].sent)
                   /\ wire' = "up" => Reaches(down', r, Received(r)', job'[r].sent)
                   /\ Closed(r)' /\ Received(r)' = job'[r].sent
                   /\ ~Under(down', "chunk", r) /\ ~Under(down', "end", r)
        <5>1. Closed(r) /\ Delivery(down, r, Received(r), job[r].sent)
              /\ \A i \in 1 .. Len(pipe[r]) : pipe[r][i] = Len(request[r].got) + i
          BY <1>t, <3>2, <4>2 DEF Fed
        <5>2. job[r].sent = Received(r) /\ ~Under(down', "chunk", r) /\ ~Under(down', "end", r)
          BY <1>a, <1>f, <1>q, <1>s, <2>2, <5>1, EndTaken
        <5>3. Delivery(down', r, Received(r), job[r].sent) /\ Reaches(down', r, Received(r), job[r].sent)
          BY <1>r, <1>s, <5>2, NothingUnder
        <5> QED BY <1>a, <1>s, <1>x, <2>c, <2>g, <5>1, <5>2, <5>3
      <4>3. request'[r].pc = "done" /\ request'[r].answer = "200" => Closed(r)' /\ Len(request'[r].got) = job'[r].sent
        BY <1>a, <1>t, <2>c, <2>k DEF Fed
      <4> QED BY <1>h, <2>k, <4>1, <4>2, <4>3 DEF Fed
    <3>6. Told(r)' BY <1>a, <1>t, <2>k, <3>1 DEF Told
    <3> QED BY <2>o, <3>5, <3>6 DEF CallInv
  <2> QED BY <1>a, <2>1, <2>2
<1> QED BY <1>1, <1>2, <1>3, <1>4, CallsStay

\* the gateway's side: what is sent goes to the socket, if it is there
LEMMA SendIs ==
    ASSUME ProxyTypes, NEW f, Send(f), f.kind # "routes" => f.call \in ModelCalls
    PROVE  /\ down' = down \/ down' = Append(down, f)
           /\ wire = "up" => down' = Append(down, f)
           /\ wire # "up" => down' = down
           /\ IsQueue(down') /\ KnownCalls(down')
<1>1. IsQueue(down) /\ KnownCalls(down) BY DEF ProxyTypes
<1>2. /\ down' = down \/ down' = Append(down, f)
      /\ wire = "up" => down' = Append(down, f)
      /\ wire # "up" => down' = down
  BY DEF Send
<1>3. IsQueue(Append(down, f)) /\ KnownCalls(Append(down, f)) BY <1>1, QueueTypes
<1> QED BY <1>1, <1>2, <1>3

LEMMA TakeRoutesRequestKeeps == ASSUME ProxyInd, TakeRoutesRequest PROVE ProxyInd'
<1> USE DEF gatewaySide, launcher, linkSide
<1> DEFINE f == DownFrame("routes", "none", Published(routes))
<1>a. /\ wire = "up" /\ up # <<>> /\ Head(up).kind = "routes" /\ up' = Tail(up) /\ Send(f)
      /\ UNCHANGED <<stage, wire, writer, heads, senders, pipe, request, reading, job, cancels, cancelled, missed>>
  BY DEF TakeRoutesRequest
<1>f. f.kind = "routes" BY DEF DownFrame
<1> HIDE DEF f
<1>t. ProxyTypes /\ ProxyWires /\ IsQueue(up) /\ KnownCalls(up) BY DEF ProxyInd, ProxyTypes
<1>d. (down' = down \/ down' = Append(down, f)) /\ IsQueue(down') /\ KnownCalls(down') BY <1>a, <1>f, <1>t, SendIs
<1>u. IsQueue(up') /\ KnownCalls(up') BY <1>a, <1>t, TakenTypes
<1>1. ProxyTypes' BY <1>a, <1>t, <1>d, <1>u DEF ProxyTypes, ReaderHas
<1>2. ProxyWires'
  <2>1. stage # "start" BY <1>a, <1>t DEF ProxyWires
  <2> QED BY <1>a, <1>t, <2>1 DEF ProxyWires
<1>3. ASSUME NEW q \in ModelCalls PROVE FramesKept(q) /\ CallKept(q)
  <2>1. OneRequest(up, q) BY DEF ProxyInd, CallInv, CallOnce
  <2>2. DownKept(q) BY <1>t, <1>f, <1>d, DownStays
  <2>3. UpKept(q) BY <1>a, <1>t, <2>1, UpStays
  <2>5. CallKept(q) BY <1>a DEF CallKept, Held
  <2> QED BY <1>a, <2>2, <2>3, <2>5 DEF FramesKept
<1> QED BY <1>1, <1>2, <1>3, CallsStay

LEMMA EndSent ==
    ASSUME ProxyInd, NEW r \in ModelCalls, ~Closed(r), Send(DownFrame("end", r, 0)), wire' = wire,
           UNCHANGED <<senders, pipe, request, reading>>, job'[r].sent = job[r].sent, Closed(r)'
    PROVE  /\ Fed(r)' /\ request[r].pc # "new"
           /\ wire = "up" => Under(down', "end", r)
           /\ IsQueue(down') /\ KnownCalls(down') /\ \A q \in ModelCalls \ {r} : DownKept(q)
<1> DEFINE f == DownFrame("end", r, 0)
<1>f. f.kind = "end" /\ f.call = r BY DEF DownFrame
<1>a. Send(f) OBVIOUS
<1> HIDE DEF f
<1>t. ProxyTypes /\ ProxyWires /\ CallOnce(r) /\ Fed(r) /\ IsQueue(down) BY DEF ProxyInd, CallInv, ProxyTypes
<1>d. /\ down' = down \/ down' = Append(down, f)
      /\ wire = "up" => down' = Append(down, f)
      /\ wire # "up" => down' = down
      /\ IsQueue(down') /\ KnownCalls(down')
  BY <1>a, <1>f, <1>t, SendIs
<1>s. Received(r) \in Nat /\ job[r].sent \in Nat BY <1>t, ReceivedIs
<1>n. request[r].pc # "new" BY <1>t DEF CallOnce, Closed, Working
<1>g. Received(r)' = Received(r) BY DEF Received, Held
<1>1. wire = "up" => Under(down', "end", r)
  <2>1. Under(Append(down, f), "end", r) BY <1>t, <1>f, UnderAppend
  <2> QED BY <1>d, <2>1
<1>2. ASSUME NEW q \in ModelCalls \ {r} PROVE DownKept(q)
  <2>1. ~(f.kind \in {"chunk", "end"} /\ f.call = q) BY <1>f
  <2> QED BY <1>t, <1>d, <2>1, DownStays
<1>3. Fed(r)'
  <2>1. ASSUME Tracked(r)
        PROVE  /\ Delivery(down', r, Received(r), job[r].sent)
               /\ wire = "up" => Reaches(down', r, Received(r), job[r].sent)
               /\ r \in senders
    <3>1. /\ Delivery(down, r, Received(r), job[r].sent)
          /\ wire = "up" => Reaches(down, r, Received(r), job[r].sent)
          /\ ~Under(down, "end", r) /\ r \in senders
      BY <1>t, <2>1 DEF Fed
    <3>2. CASE wire = "up"
      <4>1. Delivery(Append(down, f), r, Received(r), job[r].sent) /\ Reaches(Append(down, f), r, Received(r), job[r].sent)
        BY <1>f, <1>s, <1>t, <3>1, <3>2, EndAppended
      <4> QED BY <1>d, <3>1, <3>2, <4>1
    <3>3. CASE wire # "up" BY <1>d, <3>1, <3>3
    <3> QED BY <3>2, <3>3
  <2>2. Tracked(r)' <=> Tracked(r) BY DEF Tracked
  <2>3. ASSUME Tracked(r)
        PROVE  /\ \A i \in 1 .. Len(pipe'[r]) : pipe'[r][i] = Len(request'[r].got) + i
               /\ Held(r)' => reading'[3] = Len(request'[r].got) + Len(pipe'[r]) + 1
               /\ Received(r)' <= job'[r].sent
               /\ Delivery(down', r, Received(r)', job'[r].sent)
               /\ wire' = "up" => Reaches(down', r, Received(r)', job'[r].sent)
               /\ r \in senders'
    <3>1. Held(r)' <=> Held(r) BY DEF Held
    <3> QED BY <1>t, <1>g, <2>1, <2>3, <3>1 DEF Fed
  <2>4. \A i \in 1 .. Len(request'[r].got) : request'[r].got[i] = i BY <1>t DEF Fed
  <2>5. ~(request'[r].pc = "done" /\ request'[r].answer = "200") BY <1>t DEF Fed
  <2> QED BY <2>2, <2>3, <2>4, <2>5 DEF Fed
<1> QED BY <1>1, <1>2, <1>3, <1>d, <1>n

\* the answer of one call comes to an end
LEMMA JobEndsKeeps ==
    ASSUME ProxyInd, NEW r \in ModelCalls, JobEnds(r) PROVE ProxyInd'
<1> USE DEF launcher, linkSide
<1>a. /\ job[r].pc \in {"asked", "stream"} /\ Send(DownFrame("end", r, 0))
      /\ UNCHANGED <<stage, wire, writer, up, heads, senders, pipe, request, reading, cancels, cancelled, missed>>
  BY DEF JobEnds
<1>t. ProxyTypes /\ ProxyWires /\ CallOnce(r) /\ Told(r) BY DEF ProxyInd, CallInv
<1>c. PICK x : /\ job' = [job EXCEPT ![r] = x] /\ IsModelJob(x) /\ x.pc = "finish" /\ x.sent = job[r].sent
               /\ x.by = job[r].by /\ x.stale = job[r].stale
  <2> DEFINE x == [job[r] EXCEPT !.pc = "finish"]
  <2>1. job' = [job EXCEPT ![r] = x] BY DEF JobEnds
  <2>2. IsModelJob(job[r]) BY <1>t DEF ProxyTypes
  <2>3. IsModelJob(x) /\ x.pc = "finish" /\ x.sent = job[r].sent /\ x.by = job[r].by /\ x.stale = job[r].stale
    BY <2>2 DEF IsModelJob
  <2> QED BY <2>1, <2>3
<1>d. /\ job'[r] = x /\ \A q \in ModelCalls \ {r} : job'[q] = job[q]
      /\ job' = [q \in ModelCalls |-> job'[q]] /\ \A q \in ModelCalls : IsModelJob(job'[q])
  BY <1>c, <1>t, JobTypes
<1>u. ~Under(up, "request", r) BY <1>a, <1>t DEF CallOnce
<1>e. /\ Fed(r)' /\ request[r].pc # "new"
      /\ wire = "up" => Under(down', "end", r)
      /\ IsQueue(down') /\ KnownCalls(down') /\ \A q \in ModelCalls \ {r} : DownKept(q)
  <2>1. ~Closed(r) BY <1>a DEF Closed, Working
  <2>2. Closed(r)' BY <1>a, <1>c, <1>d, <1>u DEF Closed, Working
  <2> QED BY <1>a, <1>c, <1>d, <2>1, <2>2, EndSent
<1>1. ProxyTypes' BY <1>a, <1>t, <1>d, <1>e DEF ProxyTypes, ReaderHas
<1>2. ProxyWires'
  <2>1. stage # "start" BY <1>e, <1>t DEF ProxyWires
  <2> QED BY <1>a, <1>t, <2>1 DEF ProxyWires
<1>3. ASSUME NEW q \in ModelCalls \ {r} PROVE FramesKept(q) /\ CallKept(q)
  <2>1. OneRequest(up, q) BY DEF ProxyInd, CallInv, CallOnce
  <2>3. UpKept(q) BY <1>a, <2>1 DEF UpKept
  <2>5. CallKept(q) BY <1>a, <1>d DEF CallKept, Held
  <2> QED BY <1>a, <1>e, <2>3, <2>5 DEF FramesKept
<1>4. CallInv(r)'
  <2>1. CallOnce(r)' BY <1>a, <1>c, <1>d, <1>e, <1>t, <1>u DEF CallOnce
  <2>2. Told(r)' BY <1>a, <1>e, <1>t DEF Told
  <2> QED BY <1>e, <2>1, <2>2 DEF CallInv
<1> QED BY <1>1, <1>2, <1>3, <1>4, CallsStay

LEMMA RunModelKeeps ==
    ASSUME ProxyInd, NEW r \in ModelCalls, RunModel(r) PROVE ProxyInd'
<1> USE DEF launcher, linkSide
<1>a. /\ job[r].pc = "spawned" /\ cancels' = cancels \cup {r}
      /\ UNCHANGED <<stage, wire, writer, up, heads, senders, pipe, request, reading, cancelled, missed>>
  BY DEF RunModel
<1>t. ProxyTypes /\ ProxyWires /\ CallOnce(r) /\ Told(r) /\ Fed(r) /\ IsQueue(down) /\ KnownCalls(down)
  BY DEF ProxyInd, CallInv, ProxyTypes
<1>c. PICK x : /\ job' = [job EXCEPT ![r] = x] /\ IsModelJob(x) /\ x.sent = job[r].sent
               /\ x.by = job[r].by /\ x.stale = job[r].stale /\ x.bound = job[r].bound
               /\ \/ x.pc = "asked" /\ request[r].model = job[r].bound /\ down' = down
                  \/ x.pc = "finish" /\ Send(DownFrame("end", r, 0))
  <2>2. IsModelJob(job[r]) BY <1>t DEF ProxyTypes
  <2>3. PICK p \in {"asked", "finish"} :
           /\ job' = [job EXCEPT ![r] = [job[r] EXCEPT !.pc = p]]
           /\ IF p = "asked" THEN request[r].model = job[r].bound /\ down' = down ELSE Send(DownFrame("end", r, 0))
    BY DEF RunModel
  <2> DEFINE x == [job[r] EXCEPT !.pc = p]
  <2>4. IsModelJob(x) /\ x.pc = p /\ x.sent = job[r].sent /\ x.by = job[r].by /\ x.stale = job[r].stale
        /\ x.bound = job[r].bound
    BY <2>2 DEF IsModelJob
  <2> QED BY <2>3, <2>4
<1>d. /\ job'[r] = x /\ \A q \in ModelCalls \ {r} : job'[q] = job[q]
      /\ job' = [q \in ModelCalls |-> job'[q]] /\ \A q \in ModelCalls : IsModelJob(job'[q])
  BY <1>c, <1>t, JobTypes
<1>u. ~Under(up, "request", r) /\ request[r].pc # "new" /\ r \notin cancelled BY <1>a, <1>t DEF CallOnce
<1>e. /\ Fed(r)'
      /\ wire = "up" => x.pc = "asked" \/ Under(down', "end", r)
      /\ IsQueue(down') /\ KnownCalls(down') /\ \A q \in ModelCalls \ {r} : DownKept(q)
  <2>c. ~Closed(r) BY <1>a DEF Closed, Working
  <2>1. CASE x.pc = "asked"
    <3>1. down' = down BY <1>c, <2>1
    <3>2. Fed(r)'
      <4>1. ~(r \notin senders /\ Tracked(r)) /\ ~(Under(down, "end", r) /\ Tracked(r)) BY <1>t, <2>c DEF Fed
      <4>2. ~(request[r].pc = "done" /\ request[r].answer = "200") BY <1>t, <2>c DEF Fed
      <4>3. job'[r].sent = job[r].sent BY <1>c, <1>d
      <4>4. (Tracked(r)' <=> Tracked(r)) /\ (Held(r)' <=> Held(r)) /\ Received(r)' = Received(r)
        BY <1>a DEF Tracked, Held, Received
      <4> QED BY <1>a, <1>t, <3>1, <4>1, <4>2, <4>3, <4>4 DEF Fed
    <3>3. \A q \in ModelCalls \ {r} : DownKept(q) BY <3>1 DEF DownKept
    <3> QED BY <1>t, <2>1, <3>1, <3>2, <3>3
  <2>2. CASE x.pc = "finish" /\ Send(DownFrame("end", r, 0))
    <3>2. Closed(r)' BY <1>a, <1>d, <1>u, <2>2 DEF Closed, Working
    <3>3. /\ Fed(r)' /\ request[r].pc # "new"
          /\ wire = "up" => Under(down', "end", r)
          /\ IsQueue(down') /\ KnownCalls(down') /\ \A q \in ModelCalls \ {r} : DownKept(q)
      BY <1>a, <1>c, <1>d, <2>c, <2>2, <3>2, EndSent
    <3> QED BY <3>3
  <2> QED BY <1>c, <2>1, <2>2
<1>1. ProxyTypes' BY <1>a, <1>t, <1>d, <1>e DEF ProxyTypes, ReaderHas
<1>2. ProxyWires'
  <2>1. stage # "start" BY <1>u, <1>t DEF ProxyWires
  <2> QED BY <1>a, <1>t, <2>1 DEF ProxyWires
<1>3. ASSUME NEW q \in ModelCalls \ {r} PROVE FramesKept(q) /\ CallKept(q)
  <2>1. OneRequest(up, q) BY DEF ProxyInd, CallInv, CallOnce
  <2>3. UpKept(q) BY <1>a, <2>1 DEF UpKept
  <2>5. CallKept(q) BY <1>a, <1>d DEF CallKept, Held
  <2> QED BY <1>a, <1>e, <2>3, <2>5 DEF FramesKept
<1>4. CallInv(r)'
  <2>1. CallOnce(r)' BY <1>a, <1>c, <1>d, <1>t, <1>u DEF CallOnce
  <2>2. Told(r)'
    <3>1. job'[r].pc = "asked" => Working(r)' BY DEF Working
    <3> QED BY <1>a, <1>d, <1>e, <1>t, <3>1 DEF Told
  <2> QED BY <1>e, <2>1, <2>2 DEF CallInv
<1> QED BY <1>1, <1>2, <1>3, <1>4, CallsStay

LEMMA EngineAnswersKeeps == ASSUME ProxyInd, NEW r \in ModelCalls, EngineAnswers(r) PROVE ProxyInd'
<1> USE DEF launcher, linkSide
<1> DEFINE f == DownFrame("head", r, 0)
<1>a. /\ job[r].pc = "asked" /\ Send(f)
      /\ UNCHANGED <<stage, wire, writer, up, heads, senders, pipe, request, reading, cancels, cancelled, missed>>
  BY DEF EngineAnswers
<1>f. f.kind = "head" /\ f.call = r BY DEF DownFrame
<1> HIDE DEF f
<1>t. ProxyTypes /\ ProxyWires /\ CallOnce(r) /\ Told(r) /\ Fed(r) /\ IsQueue(down) BY DEF ProxyInd, CallInv, ProxyTypes
<1>c. PICK x : /\ job' = [job EXCEPT ![r] = x] /\ IsModelJob(x) /\ x.sent = job[r].sent
               /\ ~x.stale => x.by = job[r].bound
               /\ x.bound = job[r].bound
               /\ x.pc \in {"stream", "finish"} /\ (wire = "up" => x.pc = "stream")
  <2> DEFINE x == [job[r] EXCEPT !.pc = IF wire = "up" THEN "stream" ELSE "finish",
                                 !.by = slotEngines[job[r].route],
                                 !.stale = slotEngines[job[r].route] # job[r].bound]
  <2>1. job' = [job EXCEPT ![r] = x] BY DEF EngineAnswers
  <2>2. IsModelJob(job[r]) BY <1>t DEF ProxyTypes
  <2>3. PICK p \in {"stream", "finish"} : p = (IF wire = "up" THEN "stream" ELSE "finish") OBVIOUS
  <2>4. PICK b : b = slotEngines[job[r].route] OBVIOUS
  <2>5. PICK s \in BOOLEAN : s = (b # job[r].bound) OBVIOUS
  <2>6. x = [job[r] EXCEPT !.pc = p, !.by = b, !.stale = s] BY <2>3, <2>4, <2>5
  <2>7. /\ IsModelJob(x) /\ x.pc = p /\ x.sent = job[r].sent /\ x.by = b /\ x.stale = s /\ x.bound = job[r].bound
    <3> HIDE DEF x
    <3> QED BY <2>2, <2>6 DEF IsModelJob
  <2> QED BY <2>1, <2>3, <2>5, <2>7
<1>d. /\ job'[r] = x /\ \A q \in ModelCalls \ {r} : job'[q] = job[q]
      /\ job' = [q \in ModelCalls |-> job'[q]] /\ \A q \in ModelCalls : IsModelJob(job'[q])
  BY <1>c, <1>t, JobTypes
<1>u. ~Under(up, "request", r) /\ request[r].pc # "new" /\ OneRequest(up, r) BY <1>a, <1>t DEF CallOnce
<1>e. IsQueue(down') /\ KnownCalls(down') /\ \A q \in ModelCalls : DownKept(q)
  <2>1. /\ down' = down \/ down' = Append(down, f)
        /\ IsQueue(down') /\ KnownCalls(down')
    BY <1>a, <1>f, <1>t, SendIs
  <2> QED BY <1>f, <1>t, <2>1, DownStays
<1>1. ProxyTypes' BY <1>a, <1>t, <1>d, <1>e DEF ProxyTypes, ReaderHas
<1>2. ProxyWires'
  <2>1. stage # "start" BY <1>u, <1>t DEF ProxyWires
  <2> QED BY <1>a, <1>t, <2>1 DEF ProxyWires
<1>3. ASSUME NEW q \in ModelCalls \ {r} PROVE FramesKept(q) /\ CallKept(q)
  <2>1. OneRequest(up, q) BY DEF ProxyInd, CallInv, CallOnce
  <2>3. UpKept(q) BY <1>a, <2>1 DEF UpKept
  <2>5. CallKept(q) BY <1>a, <1>d DEF CallKept, Held
  <2> QED BY <1>a, <1>e, <2>3, <2>5 DEF FramesKept
<1>4. CallInv(r)'
  <2>1. CallOnce(r)' BY <1>a, <1>c, <1>d, <1>t, <1>u DEF CallOnce
  <2>2. Told(r)'
    <3>1. wire = "up" => Working(r)' BY <1>c, <1>d DEF Working
    <3> QED BY <1>a, <1>t, <3>1 DEF Told
  <2>3. Fed(r)'
    <3>0. ~Closed(r) BY <1>a DEF Closed, Working
    <3>1. ~(r \notin senders /\ Tracked(r)) /\ ~(Under(down, "end", r) /\ Tracked(r)) BY <1>t, <3>0 DEF Fed
    <3>2. ~(request[r].pc = "done" /\ request[r].answer = "200") BY <1>t, <3>0 DEF Fed
    <3>3. job'[r].sent = job[r].sent BY <1>c, <1>d
    <3>4. (Tracked(r)' <=> Tracked(r)) /\ (Held(r)' <=> Held(r)) /\ Received(r)' = Received(r)
      BY <1>a DEF Tracked, Held, Received
    <3>5. Received(r) \in Nat /\ job[r].sent \in Nat BY <1>t, ReceivedIs
    <3>6. DownKept(r) BY <1>e
    <3>7. /\ Delivery(down, r, Received(r), job[r].sent) => Delivery(down', r, Received(r), job[r].sent)
          /\ wire = "up" /\ Reaches(down, r, Received(r), job[r].sent) => Reaches(down', r, Received(r), job[r].sent)
          /\ Under(down', "end", r) => Under(down, "end", r)
      BY <1>a, <3>5, <3>6 DEF DownKept
    <3> QED BY <1>a, <1>t, <3>1, <3>2, <3>3, <3>4, <3>7 DEF Fed
  <2> QED BY <2>1, <2>2, <2>3 DEF CallInv
<1> QED BY <1>1, <1>2, <1>3, <1>4, CallsStay

LEMMA EngineSendsKeeps == ASSUME ProxyInd, NEW r \in ModelCalls, EngineSends(r) PROVE ProxyInd'
<1> USE DEF launcher, linkSide
<1>a. /\ job[r].pc = "stream" /\ job[r].sent < MaxBytes[r]
      /\ UNCHANGED <<stage, wire, writer, up, heads, senders, pipe, request, reading, cancels, cancelled, missed>>
  BY DEF EngineSends
<1>t. ProxyTypes /\ ProxyWires /\ CallOnce(r) /\ Told(r) /\ Fed(r) /\ IsQueue(down) /\ KnownCalls(down)
  BY DEF ProxyInd, CallInv, ProxyTypes
<1>s. Received(r) \in Nat /\ job[r].sent \in Nat BY <1>t, ReceivedIs
<1>m. MaxBytes[r] \in Nat BY LinkProxyAssumption
<1> DEFINE f == DownFrame("chunk", r, job[r].sent + 1)
<1>f. f.kind = "chunk" /\ f.call = r /\ f.n = job[r].sent + 1 BY DEF DownFrame
<1>c. PICK x : /\ job' = [job EXCEPT ![r] = x] /\ IsModelJob(x)
               /\ x.by = job[r].by /\ x.stale = job[r].stale /\ x.bound = job[r].bound
               /\ IF wire = "up" THEN x.pc = "stream" /\ x.sent = job[r].sent + 1 /\ down' = Append(down, f)
                  ELSE x.pc = "finish" /\ x.sent = job[r].sent /\ down' = down
  <2>2. IsModelJob(job[r]) BY <1>t DEF ProxyTypes
  <2>3. CASE wire = "up"
    <3> DEFINE x == [job[r] EXCEPT !.sent = job[r].sent + 1]
    <3>1. job' = [job EXCEPT ![r] = x] /\ down' = Append(down, f) BY <2>3 DEF EngineSends, Send
    <3>2. job[r].sent + 1 \in Nat BY <1>s
    <3>3. IsModelJob(x) /\ x.pc = job[r].pc /\ x.sent = job[r].sent + 1 /\ x.by = job[r].by /\ x.stale = job[r].stale
          /\ x.bound = job[r].bound
      BY <2>2, <3>2 DEF IsModelJob
    <3> QED BY <1>a, <2>3, <3>1, <3>3
  <2>4. CASE wire # "up"
    <3> DEFINE x == [job[r] EXCEPT !.pc = "finish"]
    <3>1. job' = [job EXCEPT ![r] = x] /\ down' = down BY <2>4 DEF EngineSends
    <3>3. IsModelJob(x) /\ x.pc = "finish" /\ x.sent = job[r].sent /\ x.by = job[r].by /\ x.stale = job[r].stale
          /\ x.bound = job[r].bound
      BY <2>2 DEF IsModelJob
    <3> QED BY <2>4, <3>1, <3>3
  <2> QED BY <2>3, <2>4
<1> HIDE DEF f
<1>d. /\ job'[r] = x /\ \A q \in ModelCalls \ {r} : job'[q] = job[q]
      /\ job' = [q \in ModelCalls |-> job'[q]] /\ \A q \in ModelCalls : IsModelJob(job'[q])
  BY <1>c, <1>t, JobTypes
<1>u. ~Under(up, "request", r) /\ request[r].pc # "new" /\ OneRequest(up, r) BY <1>a, <1>t DEF CallOnce
<1>e. /\ IsQueue(down') /\ KnownCalls(down') /\ \A q \in ModelCalls \ {r} : DownKept(q)
      /\ Under(down', "end", r) <=> Under(down, "end", r)
  <2>1. down' = down \/ down' = Append(down, f) BY <1>c
  <2>2. IsQueue(Append(down, f)) /\ KnownCalls(Append(down, f)) BY <1>f, <1>t, QueueTypes
  <2>3. ASSUME NEW q \in ModelCalls \ {r} PROVE DownKept(q)
    <3>1. ~(f.kind \in {"chunk", "end"} /\ f.call = q) BY <1>f
    <3> QED BY <1>t, <2>1, <3>1, DownStays
  <2>4. Under(Append(down, f), "end", r) <=> Under(down, "end", r) BY <1>f, <1>t, UnderAppend
  <2> QED BY <1>t, <2>1, <2>2, <2>3, <2>4
<1>1. ProxyTypes' BY <1>a, <1>t, <1>d, <1>e DEF ProxyTypes, ReaderHas
<1>2. ProxyWires'
  <2>1. stage # "start" BY <1>u, <1>t DEF ProxyWires
  <2> QED BY <1>a, <1>t, <2>1 DEF ProxyWires
<1>3. ASSUME NEW q \in ModelCalls \ {r} PROVE FramesKept(q) /\ CallKept(q)
  <2>1. OneRequest(up, q) BY DEF ProxyInd, CallInv, CallOnce
  <2>3. UpKept(q) BY <1>a, <2>1 DEF UpKept
  <2>5. CallKept(q) BY <1>a, <1>d DEF CallKept, Held
  <2> QED BY <1>a, <1>e, <2>3, <2>5 DEF FramesKept
<1>4. CallInv(r)'
  <2>1. CallOnce(r)'
    <3>1. x.sent <= MaxBytes[r] BY <1>a, <1>c, <1>m, <1>s
    <3> QED BY <1>a, <1>c, <1>d, <1>t, <1>u, <3>1 DEF CallOnce
  <2>2. Told(r)'
    <3>1. wire = "up" => Working(r)' BY <1>c, <1>d DEF Working
    <3> QED BY <1>a, <1>t, <3>1 DEF Told
  <2>3. Fed(r)'
    <3>0. ~Closed(r) BY <1>a DEF Closed, Working
    <3>1. ~(r \notin senders /\ Tracked(r)) /\ ~(Under(down, "end", r) /\ Tracked(r)) BY <1>t, <3>0 DEF Fed
    <3>2. ~(request[r].pc = "done" /\ request[r].answer = "200") BY <1>t, <3>0 DEF Fed
    <3>4. (Tracked(r)' <=> Tracked(r)) /\ (Held(r)' <=> Held(r)) /\ Received(r)' = Received(r)
      BY <1>a DEF Tracked, Held, Received
    <3>5. ASSUME Tracked(r)
          PROVE  /\ Received(r) <= job'[r].sent /\ Delivery(down', r, Received(r), job'[r].sent)
                 /\ wire = "up" => Reaches(down', r, Received(r), job'[r].sent)
      <4>1. /\ Received(r) <= job[r].sent /\ Delivery(down, r, Received(r), job[r].sent)
            /\ wire = "up" => Reaches(down, r, Received(r), job[r].sent)
            /\ ~Under(down, "end", r)
        BY <1>t, <3>1, <3>5 DEF Fed
      <4>2. CASE wire = "up"
        <5>1. Delivery(Append(down, f), r, Received(r), job[r].sent + 1) /\ Reaches(Append(down, f), r, Received(r), job[r].sent + 1)
          BY <1>f, <1>s, <1>t, <4>1, <4>2, ChunkAppended
        <5>2. Received(r) <= job[r].sent + 1 BY <1>s, <4>1
        <5> QED BY <1>c, <1>d, <4>2, <5>1, <5>2
      <4>3. CASE wire # "up" BY <1>c, <1>d, <4>1, <4>3
      <4> QED BY <4>2, <4>3
    <3> QED BY <1>a, <1>e, <1>t, <3>1, <3>2, <3>4, <3>5 DEF Fed
  <2> QED BY <2>1, <2>2, <2>3 DEF CallInv
<1> QED BY <1>1, <1>2, <1>3, <1>4, CallsStay

LEMMA FinishModelKeeps == ASSUME ProxyInd, NEW r \in ModelCalls, FinishModel(r) PROVE ProxyInd'
<1> USE DEF launcher, linkSide
<1>a. /\ job[r].pc = "finish" /\ cancels' = cancels \ {r}
      /\ UNCHANGED <<stage, wire, writer, up, down, heads, senders, pipe, request, reading, cancelled, missed>>
  BY DEF FinishModel
<1>t. ProxyTypes /\ ProxyWires /\ CallOnce(r) /\ Told(r) /\ Fed(r) BY DEF ProxyInd, CallInv
<1>c. PICK x : /\ job' = [job EXCEPT ![r] = x] /\ IsModelJob(x) /\ x.pc = "over" /\ x.sent = job[r].sent
               /\ x.by = job[r].by /\ x.stale = job[r].stale
  <2> DEFINE x == [job[r] EXCEPT !.pc = "over"]
  <2>1. job' = [job EXCEPT ![r] = x] BY DEF FinishModel
  <2>2. IsModelJob(job[r]) BY <1>t DEF ProxyTypes
  <2>3. IsModelJob(x) /\ x.pc = "over" /\ x.sent = job[r].sent /\ x.by = job[r].by /\ x.stale = job[r].stale
    BY <2>2 DEF IsModelJob
  <2> QED BY <2>1, <2>3
<1>d. /\ job'[r] = x /\ \A q \in ModelCalls \ {r} : job'[q] = job[q]
      /\ job' = [q \in ModelCalls |-> job'[q]] /\ \A q \in ModelCalls : IsModelJob(job'[q])
  BY <1>c, <1>t, JobTypes
<1>u. ~Under(up, "request", r) /\ request[r].pc # "new" BY <1>a, <1>t DEF CallOnce
<1>1. ProxyTypes' BY <1>a, <1>t, <1>d DEF ProxyTypes, ReaderHas
<1>2. ProxyWires'
  <2>1. stage # "start" BY <1>u, <1>t DEF ProxyWires
  <2> QED BY <1>a, <1>t, <2>1 DEF ProxyWires
<1>3. ASSUME NEW q \in ModelCalls \ {r} PROVE FramesKept(q) /\ CallKept(q)
  <2>1. OneRequest(up, q) BY DEF ProxyInd, CallInv, CallOnce
  <2>5. CallKept(q) BY <1>a, <1>d DEF CallKept, Held
  <2> QED BY <1>a, <2>1, <2>5, FramesStay
<1>4. CallInv(r)'
  <2>1. CallOnce(r)' BY <1>a, <1>c, <1>d, <1>t, <1>u DEF CallOnce
  <2>2. Told(r)' BY <1>a, <1>d, <1>c, <1>t DEF Told, Working
  <2>3. Fed(r)'
    <3>1. Closed(r)' <=> Closed(r) BY <1>a, <1>c, <1>d DEF Closed, Working
    <3>4. (Tracked(r)' <=> Tracked(r)) /\ (Held(r)' <=> Held(r)) /\ Received(r)' = Received(r)
      BY <1>a DEF Tracked, Held, Received
    <3>5. job'[r].sent = job[r].sent BY <1>c, <1>d
    <3> QED BY <1>a, <1>t, <3>1, <3>4, <3>5 DEF Fed
  <2> QED BY <2>1, <2>2, <2>3 DEF CallInv
<1> QED BY <1>1, <1>2, <1>3, <1>4, CallsStay

LEMMA TakeRequestKeeps == ASSUME ProxyInd, TakeRequest PROVE ProxyInd'
<1> USE DEF launcher, linkSide
<1>f. PICK f, r, route : f = Head(up) /\ f.call = r /\ route = RouteOf(listed, request[r].model).id OBVIOUS
<1>a. /\ wire = "up" /\ up # <<>> /\ f.kind = "request" /\ up' = Tail(up)
      /\ UNCHANGED <<stage, wire, writer, heads, senders, pipe, request, reading, cancels, cancelled, missed>>
  BY <1>f DEF TakeRequest
<1>i. IF routes[route] = NoAlias THEN Send(DownFrame("end", r, 0)) /\ job' = job
      ELSE /\ job' = [job EXCEPT ![r] = [NoModelJob EXCEPT !.pc = "spawned", !.route = route, !.bound = routes[route]]]
           /\ down' = down
  BY <1>f DEF TakeRequest
<1>q. ProxyTypes /\ ProxyWires /\ IsQueue(up) /\ KnownCalls(up) /\ IsQueue(down) /\ KnownCalls(down)
  BY DEF ProxyInd, ProxyTypes
<1>r. r \in ModelCalls /\ IsQueue(up') /\ KnownCalls(up') BY <1>a, <1>f, <1>q, TakenTypes
<1>t. CallOnce(r) /\ Told(r) /\ Fed(r) BY <1>r DEF ProxyInd, CallInv
<1>u. Under(up, "request", r) /\ OneRequest(up', r) /\ ~Under(up', "request", r)
      /\ (Under(up, "cancel", r) => Under(up', "cancel", r))
  <2>1. OneRequest(up, r) BY <1>t DEF CallOnce
  <2>2. OneRequest(Tail(up), r) /\ ~Under(Tail(up), "request", r) BY <1>a, <1>f, <1>q, <2>1, RequestsOnce
  <2>3. Under(up, "request", r) /\ (Under(up, "cancel", r) => Under(Tail(up), "cancel", r)) BY <1>a, <1>f, <1>q, UnderTail
  <2> QED BY <1>a, <2>2, <2>3
<1>n. /\ job[r].pc = "none" /\ job[r].sent = 0 /\ job[r].by = NoAlias /\ r \notin cancelled /\ r \notin cancels
      /\ request[r].pc # "new" /\ job[r].sent <= MaxBytes[r]
  BY <1>t, <1>u DEF CallOnce
<1>c. ~Closed(r) BY <1>u DEF Closed
<1>j. /\ job' = [q \in ModelCalls |-> job'[q]] /\ \A q \in ModelCalls : IsModelJob(job'[q])
      /\ \A q \in ModelCalls \ {r} : job'[q] = job[q]
      /\ job'[r].sent = job[r].sent /\ job'[r].by = NoAlias
      /\ \/ job'[r].pc = "none" /\ Send(DownFrame("end", r, 0))
         \/ job'[r].pc = "spawned" /\ down' = down
  <2>1. CASE routes[route] = NoAlias BY <1>i, <1>n, <1>q, <2>1 DEF ProxyTypes
  <2>2. CASE routes[route] # NoAlias
    <3> DEFINE x == [NoModelJob EXCEPT !.pc = "spawned", !.route = route, !.bound = routes[route]]
    <3>1. job' = [job EXCEPT ![r] = x] /\ down' = down BY <1>i, <2>2
    <3>2. IsModelJob(NoModelJob) /\ NoModelJob.sent = 0 /\ NoModelJob.by = NoAlias BY DEF IsModelJob, NoModelJob
    <3>3. IsModelJob(x) /\ x.pc = "spawned" /\ x.sent = 0 /\ x.by = NoAlias BY <3>2 DEF IsModelJob
    <3> HIDE DEF x
    <3>4. /\ job'[r] = x /\ \A q \in ModelCalls \ {r} : job'[q] = job[q]
          /\ job' = [q \in ModelCalls |-> job'[q]] /\ \A q \in ModelCalls : IsModelJob(job'[q])
      BY <1>q, <1>r, <3>1, <3>3, JobTypes
    <3> QED BY <1>n, <3>1, <3>3, <3>4
  <2> QED BY <2>1, <2>2
<1>e. /\ Fed(r)'
      /\ job'[r].pc = "spawned" \/ Under(down', "end", r)
      /\ IsQueue(down') /\ KnownCalls(down') /\ \A q \in ModelCalls \ {r} : DownKept(q)
  <2>1. CASE job'[r].pc = "spawned" /\ down' = down
    <3>2. Fed(r)'
      <4>1. ~(r \notin senders /\ Tracked(r)) /\ ~(Under(down, "end", r) /\ Tracked(r)) BY <1>t, <1>c DEF Fed
      <4>2. ~(request[r].pc = "done" /\ request[r].answer = "200") BY <1>t, <1>c DEF Fed
      <4>4. (Tracked(r)' <=> Tracked(r)) /\ (Held(r)' <=> Held(r)) /\ Received(r)' = Received(r)
        BY <1>a DEF Tracked, Held, Received
      <4> QED BY <1>a, <1>j, <1>t, <2>1, <4>1, <4>2, <4>4 DEF Fed
    <3>3. \A q \in ModelCalls \ {r} : DownKept(q) BY <2>1 DEF DownKept
    <3> QED BY <1>q, <2>1, <3>2, <3>3
  <2>2. CASE job'[r].pc = "none" /\ Send(DownFrame("end", r, 0))
    <3>2. Closed(r)' BY <1>u, <2>2 DEF Closed, Working
    <3>3. /\ Fed(r)' /\ request[r].pc # "new"
          /\ wire = "up" => Under(down', "end", r)
          /\ IsQueue(down') /\ KnownCalls(down') /\ \A q \in ModelCalls \ {r} : DownKept(q)
      BY <1>a, <1>c, <1>j, <1>r, <2>2, <3>2, EndSent
    <3> QED BY <1>a, <3>3
  <2> QED BY <1>j, <2>1, <2>2
<1>1. ProxyTypes' BY <1>a, <1>q, <1>r, <1>j, <1>e DEF ProxyTypes, ReaderHas
<1>2. ProxyWires'
  <2>1. stage # "start" BY <1>a, <1>q DEF ProxyWires
  <2> QED BY <1>a, <1>q, <2>1 DEF ProxyWires
<1>3. ASSUME NEW q \in ModelCalls \ {r} PROVE FramesKept(q) /\ CallKept(q)
  <2>1. OneRequest(up, q) BY DEF ProxyInd, CallInv, CallOnce
  <2>3. UpKept(q)
    <3>1. ~(f.kind \in {"request", "cancel"} /\ f.call = q) BY <1>f
    <3> QED BY <1>a, <1>f, <1>q, <2>1, <3>1, UpStays
  <2>5. CallKept(q) BY <1>a, <1>j DEF CallKept, Held
  <2> QED BY <1>a, <1>e, <2>3, <2>5 DEF FramesKept
<1>4. CallInv(r)'
  <2>1. CallOnce(r)'
    <3>1. job'[r].pc \in {"none", "spawned"} /\ job'[r].sent = 0 /\ job'[r].sent <= MaxBytes[r] BY <1>j, <1>n
    <3> QED BY <1>a, <1>j, <1>n, <1>u, <3>1 DEF CallOnce
  <2>2. Told(r)'
    <3>1. job'[r].pc = "spawned" => Working(r)' BY DEF Working
    <3> QED BY <1>a, <1>e, <1>t, <1>u, <3>1 DEF Told
  <2> QED BY <1>e, <2>1, <2>2 DEF CallInv
<1> QED BY <1>1, <1>2, <1>3, <1>4, CallsStay

LEMMA TakeCancelKeeps == ASSUME ProxyInd, TakeCancel PROVE ProxyInd'
<1> USE DEF launcher, linkSide
<1>f. PICK f, r : f = Head(up) /\ f.call = r OBVIOUS
<1>a. /\ wire = "up" /\ up # <<>> /\ f.kind = "cancel" /\ up' = Tail(up)
      /\ cancels' = cancels \ {r}
      /\ cancelled' = IF r \in cancels THEN cancelled \cup {r} ELSE cancelled
      /\ missed' = IF r \in cancels THEN missed ELSE missed \cup {r}
      /\ UNCHANGED <<stage, wire, writer, down, heads, senders, pipe, request, reading, job>>
  BY <1>f DEF TakeCancel
<1>q. ProxyTypes /\ ProxyWires /\ IsQueue(up) /\ KnownCalls(up) BY DEF ProxyInd, ProxyTypes
<1>r. r \in ModelCalls /\ IsQueue(up') /\ KnownCalls(up') BY <1>a, <1>f, <1>q, TakenTypes
<1>t. CallOnce(r) /\ Told(r) /\ Fed(r) BY <1>r DEF ProxyInd, CallInv
<1>u. OneRequest(up', r) /\ (Under(up', "request", r) <=> Under(up, "request", r))
  <2>1. OneRequest(up, r) BY <1>t DEF CallOnce
  <2>2. OneRequest(Tail(up), r) BY <1>a, <1>q, <2>1, RequestsOnce
  <2>3. Under(up, "request", r) <=> Under(Tail(up), "request", r) BY <1>a, <1>f, <1>q, UnderTail
  <2> QED BY <1>a, <2>2, <2>3
<1>1. ProxyTypes' BY <1>a, <1>q, <1>r DEF ProxyTypes, ReaderHas
<1>2. ProxyWires'
  <2>1. stage # "start" BY <1>a, <1>q DEF ProxyWires
  <2> QED BY <1>a, <1>q, <2>1 DEF ProxyWires
<1>3. ASSUME NEW q \in ModelCalls, q # r PROVE FramesKept(q) /\ CallKept(q)
  <2>1. OneRequest(up, q) BY DEF ProxyInd, CallInv, CallOnce
  <2>3. UpKept(q)
    <3>1. ~(f.kind \in {"request", "cancel"} /\ f.call = q) BY <1>f, <1>3
    <3> QED BY <1>a, <1>f, <1>q, <2>1, <3>1, UpStays
  <2>4. DownKept(q) BY <1>a DEF DownKept
  <2>5. (q \in cancels' <=> q \in cancels) /\ (q \in cancelled' <=> q \in cancelled) /\ (q \in missed => q \in missed')
    BY <1>a, <1>3
  <2>6. CallKept(q) BY <1>a, <2>5 DEF CallKept, Held
  <2> QED BY <1>a, <2>3, <2>4, <2>6 DEF FramesKept
<1>4. CallInv(r)'
  <2>1. CallOnce(r)'
    <3>1. r \in cancels' <=> job[r].pc \in {"asked", "stream", "finish"} /\ r \notin cancelled' BY <1>a, <1>t DEF CallOnce
    <3>2. r \in cancelled' => r \in cancelled \/ r \in cancels BY <1>a
    <3>3. job[r].pc \in {"none", "spawned"} => r \notin cancelled' BY <1>t, <3>2 DEF CallOnce
    <3> QED BY <1>a, <1>t, <1>u, <3>1, <3>3 DEF CallOnce, Held
  <2>2. Told(r)'
    <3>1. r \in missed' \/ r \in cancelled' BY <1>a
    <3> QED BY <1>a, <1>t, <1>u, <3>1 DEF Told, Working
  <2>3. Fed(r)'
    <3>1. Closed(r)' <=> Closed(r) BY <1>a, <1>u DEF Closed, Working
    <3>4. (Tracked(r)' <=> Tracked(r)) /\ (Held(r)' <=> Held(r)) /\ Received(r)' = Received(r)
      BY <1>a DEF Tracked, Held, Received
    <3> QED BY <1>a, <1>t, <3>1, <3>4 DEF Fed
  <2> QED BY <2>1, <2>2, <2>3 DEF CallInv
<1> QED BY <1>1, <1>2, <1>3, <1>4, CallsStay

LEMMA ProxySteps == ProxyInd /\ [ProxyNext]_proxyVars => ProxyInd'
<1> SUFFICES ASSUME ProxyInd, [ProxyNext]_proxyVars PROVE ProxyInd' OBVIOUS
<1>1. CASE UNCHANGED proxyVars BY <1>1, ProxyRests DEF proxyVars, launcher, linkSide, gatewaySide
<1>2. CASE (\E s \in DOMAIN slotEngines : Relaunched(s)) \/ RefreshRoutes BY <1>2, EnginesChange
<1>3. CASE AskRoutes \/ HomeFails \/ TakeRoutes \/ PiExits \/ WireBreaks \/ WriterEnds
  BY <1>3, AskRoutesKeeps, HomeFailsKeeps, TakeRoutesKeeps, PiExitsKeeps, WireBreaksKeeps, WriterEndsKeeps
<1>4. ASSUME NEW r \in ModelCalls,
             \/ Chat(r) \/ HeadTimeout(r) \/ PiDrops(r) \/ PiReads(r) \/ PiEnds(r) \/ ReaderGoesOn(r)
             \/ RunModel(r) \/ EngineAnswers(r) \/ EngineSends(r) \/ JobEnds(r) \/ FinishModel(r)
      PROVE  ProxyInd'
  BY <1>4, ChatKeeps, HeadTimeoutKeeps, PiDropsKeeps, PiReadsKeeps, PiEndsKeeps, ReaderGoesOnKeeps, RunModelKeeps,
     EngineAnswersKeeps, EngineSendsKeeps, JobEndsKeeps, FinishModelKeeps
<1>5. CASE TakeChunk \/ TakeHead \/ ReaderEnds \/ TakeRoutesRequest \/ TakeRequest \/ TakeCancel
  BY <1>5, TakeChunkKeeps, TakeHeadKeeps, ReaderEndsKeeps, TakeRoutesRequestKeeps, TakeRequestKeeps, TakeCancelKeeps
<1> QED BY <1>1, <1>2, <1>3, <1>4, <1>5 DEF ProxyNext

LEMMA ProxyIndSays == ProxyInd => ProxyInv
<1> SUFFICES ASSUME ProxyInd PROVE ProxyInv OBVIOUS
<1>1. \A r \in ModelCalls : CallOnce(r) /\ Fed(r) /\ Told(r) BY DEF ProxyInd, CallInv
<1>2. RightModelAnswers BY <1>1 DEF RightModelAnswers, CallOnce
<1>3. AnswerIsWhole
  <2> SUFFICES ASSUME NEW r \in ModelCalls
               PROVE  /\ \A i \in DOMAIN request[r].got : request[r].got[i] = i
                      /\ request[r].pc = "done" /\ request[r].answer = "200" => Len(request[r].got) = job[r].sent
    BY DEF AnswerIsWhole
  <2>1. request[r].got \in Seq(Nat) BY ReceivedIs DEF ProxyInd
  <2>2. DOMAIN request[r].got = 1 .. Len(request[r].got) BY <2>1
  <2> QED BY <1>1, <2>2 DEF Fed
<1>4. EveryAnswerEnds BY <1>1 DEF EveryAnswerEnds, Told
<1>5. TimeoutFreesEngine BY <1>1 DEF TimeoutFreesEngine, Told
<1>6. TokensMatchCalls BY <1>1 DEF TokensMatchCalls, CallOnce
<1> QED BY <1>2, <1>3, <1>4, <1>5, <1>6 DEF ProxyInv
-----------------------------------------------------------------------------
(* The link's three processes, as the composed specification runs them *)

LinksInd == /\ part = "link" => AppInd
            /\ part = "service" => ServiceInd
            /\ part = "proxy" => ProxyInd

\* With the network off no client or cloud session of the Link app runs, its
\* service's client runs with the files of one pairing and a status of
\* "stopped" is true, and each model call through its proxy gets its own
\* whole answer and its engine back: for any number of pairings, calls, bytes
\* of an answer, stacks of aliases and any capacity of the relay's channel.
THEOREM LinksKept == Spec => []LinksInv
<1>1. Init => LinksInd
  BY LinkAppStarts, ServiceStarts, ProxyStarts DEF Init, LinksInd
<1>2. LinksInd /\ [Next]_<<part, components>> => LinksInd'
  <2> SUFFICES ASSUME LinksInd, [Next]_<<part, components>> PROVE LinksInd' OBVIOUS
  <2>1. part' = part BY DEF Next
  <2>2. ASSUME part = "link" PROVE AppInd'
    <3>1. AppInd BY <2>2 DEF LinksInd
    <3>2. [AppNext]_appVars BY <2>2 DEF Next, components
    <3> QED BY <3>1, <3>2, AppSteps
  <2>3. ASSUME part = "service" PROVE ServiceInd'
    <3>1. ServiceInd BY <2>3 DEF LinksInd
    <3>2. [ServiceNext]_serviceVars BY <2>3 DEF Next, components
    <3> QED BY <3>1, <3>2, ServiceSteps
  <2>4. ASSUME part = "proxy" PROVE ProxyInd'
    <3>1. ProxyInd BY <2>4 DEF LinksInd
    <3>2. [ProxyNext]_proxyVars BY <2>4 DEF Next, components
    <3> QED BY <3>1, <3>2, ProxySteps
  <2> QED BY <2>1, <2>2, <2>3, <2>4 DEF LinksInd
<1>3. LinksInd => LinksInv
  BY AppIndSays, ServiceIndSays, ProxyIndSays DEF LinksInd, LinksInv
<1> QED BY <1>1, <1>2, <1>3, PTL DEF Spec
=============================================================================
