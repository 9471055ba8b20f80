----------------------------- MODULE PortLocks -----------------------------
(***************************************************************************)
(* The lock files of config/engine-locks, shared by all instances of the   *)
(* app: launches that reclaim a port, the orphan reaper and the sweep an   *)
(* instance runs at its start, next to instances that crash.  Nothing      *)
(* locks the directory, and every check of a port or a process is an       *)
(* await, so each handler is several steps.  A pid is a number given once  *)
(* to an engine and possibly again to a foreign process.                   *)
(***************************************************************************)
EXTENDS Integers, FiniteSets

CONSTANTS
    Apps,      \* instances, in the order of their starts: numbers
    LockPorts, \* ports
    MaxPids    \* bound: engines spawned over the run

ASSUME PortLocksAssumption == MaxPids \in Nat /\ Apps \subseteq Nat \ {0}

NoLock == [pid |-> 0, app |-> 0]
NoPort == 0

VARIABLES
    app,      \* instance -> "off", "up" or "gone"
    task,     \* instance -> its startup task: [pc, todo, port, lock]
    call,     \* instance -> its launch under way: [pc, port, pid]
    proc,     \* pid -> [app, port, st, job]
    lockFile, \* port -> [pid, app]: the engine and the instance that wrote it
    due,      \* history: instance -> orphans its reaper has to end
    slain     \* history: a kill of a reaper or a reclaim hit somebody else's process

lockVars == <<app, task, call, proc, lockFile, due, slain>>

Pids == DOMAIN proc
Alive(p) == p \in Pids /\ proc[p].st # "dead"
Managed(p) == Alive(p) /\ proc[p].st # "foreign"      \* is_managed_llama_server_image
Listeners(port) == {p \in Pids : proc[p].port = port /\ proc[p].st \in {"listening", "foreign"}}
Orphans == {p \in Pids : Managed(p) /\ app[proc[p].app] = "gone"}

Resting == [pc |-> "rest", port |-> NoPort, lock |-> NoLock, todo |-> {}]
NoCall == [pc |-> "rest", port |-> NoPort, pid |-> 0]

LocksInit ==
    /\ app = [a \in Apps |-> "off"] /\ task = [a \in Apps |-> Resting] /\ call = [a \in Apps |-> NoCall]
    /\ proc = <<>> /\ lockFile = [p \in LockPorts |-> NoLock]
    /\ due = [a \in Apps |-> {}] /\ slain = FALSE

(* An orphan loses its lock to other steps than the reaper's own (by 0: to a *)
(* launch, a stop or a sweep): it is nobody's duty any more                  *)
SetLock(port, lock, by) ==
    /\ lockFile' = [lockFile EXCEPT ![port] = lock]
    /\ due' = [a \in Apps |-> IF a = by \/ lockFile[port] = lock THEN due[a] ELSE due[a] \ {lockFile[port].pid}]
DeleteLock(port, by) == SetLock(port, NoLock, by)

(* kill_process_by_pid: a pid that is gone is a success.  Only an orphan may *)
(* be hit.                                                                   *)
KillPid(p) ==
    /\ proc' = IF p \in Pids THEN [proc EXCEPT ![p].st = "dead"] ELSE proc
    /\ slain' = (slain \/ (Alive(p) /\ p \notin Orphans))

-----------------------------------------------------------------------------
(* Instances and processes *)

AppStarts(a) ==
    /\ app[a] = "off" /\ \A b \in Apps : b < a => app[b] # "off"
    /\ app' = [app EXCEPT ![a] = "up"]
    /\ task' = [task EXCEPT ![a] = [Resting EXCEPT !.pc = "reap", !.todo = LockPorts]]
    /\ due' = [due EXCEPT ![a] = {p \in Orphans : lockFile[proc[p].port].pid = p}]
    /\ UNCHANGED <<call, proc, lockFile, slain>>

(* The job object ends the engines assigned to it *)
AppCrashes(a) ==
    /\ app[a] = "up"
    /\ app' = [app EXCEPT ![a] = "gone"]
    /\ task' = [task EXCEPT ![a] = Resting] /\ call' = [call EXCEPT ![a] = NoCall]
    /\ proc' = [p \in Pids |-> IF proc[p].app = a /\ proc[p].job THEN [proc[p] EXCEPT !.st = "dead"] ELSE proc[p]]
    /\ due' = [due EXCEPT ![a] = {}] /\ UNCHANGED <<lockFile, slain>>

(* A model has loaded; an engine that cannot bind exits *)
EngineListens(p) ==
    /\ p \in Pids /\ proc[p].st = "loading"
    /\ proc' = [proc EXCEPT ![p].st = IF Listeners(proc[p].port) = {} THEN "listening" ELSE "dead"]
    /\ UNCHANGED <<app, task, call, lockFile, due, slain>>
EngineDies(p) ==
    /\ p \in Pids /\ proc[p].st \in {"loading", "listening"}
    /\ proc' = [proc EXCEPT ![p].st = "dead"]
    /\ UNCHANGED <<app, task, call, lockFile, due, slain>>

(* A foreign server gets the pid of a dead engine and its port, though not   *)
(* between the look at the image and the kill that follows it                *)
PidReused(p) ==
    /\ p \in Pids /\ proc[p].st = "dead" /\ Listeners(proc[p].port) = {}
    /\ \A a \in Apps : ~(task[a].pc = "kill" /\ task[a].lock.pid = p) /\ ~(call[a].pc = "kill" /\ call[a].pid = p)
    /\ proc' = [proc EXCEPT ![p].st = "foreign"]
    /\ UNCHANGED <<app, task, call, lockFile, due, slain>>

-----------------------------------------------------------------------------
(* Startup: kill_orphans_of_dead_owners, then sweep_stale_locks *)

Next1(a, port, pc, todo) ==     \* the next file, or the next pass
    task' = [task EXCEPT ![a] =
        IF todo # {} THEN [Resting EXCEPT !.pc = pc, !.todo = todo]
        ELSE IF pc = "reap" THEN [Resting EXCEPT !.pc = "sweep", !.todo = LockPorts] ELSE Resting]
Skip(a) == Next1(a, task[a].port, "reap", task[a].todo)

\* variant: the reaper does not ask whether the owner is alive
ReapReadAnyOwner(a, port) ==
    /\ app[a] = "up" /\ task[a].pc = "reap" /\ port \in task[a].todo
    /\ LET lock == lockFile[port]  rest == task[a].todo \ {port} IN
       IF lock = NoLock THEN Next1(a, port, "reap", rest) /\ UNCHANGED <<lockFile, due>>
       ELSE IF ~Alive(lock.pid) THEN Next1(a, port, "reap", rest) /\ DeleteLock(port, a)
       ELSE /\ task' = [task EXCEPT ![a] = [pc |-> "image", port |-> port, lock |-> lock, todo |-> rest]]
            /\ UNCHANGED <<lockFile, due>>
    /\ UNCHANGED <<app, call, proc, slain>>

ReapRead(a, port) ==
    /\ app[a] = "up" /\ task[a].pc = "reap" /\ port \in task[a].todo
    /\ LET lock == lockFile[port]  rest == task[a].todo \ {port} IN
       IF lock = NoLock \/ app[lock.app] = "up" THEN Next1(a, port, "reap", rest) /\ UNCHANGED <<lockFile, due>>
       ELSE IF ~Alive(lock.pid) THEN Next1(a, port, "reap", rest) /\ DeleteLock(port, a)
       ELSE /\ task' = [task EXCEPT ![a] = [pc |-> "image", port |-> port, lock |-> lock, todo |-> rest]]
            /\ UNCHANGED <<lockFile, due>>
    /\ UNCHANGED <<app, call, proc, slain>>

(* an image nobody can read is left alone, lock and all *)
ReapImage(a) ==
    /\ task[a].pc = "image"
    /\ \/ Managed(task[a].lock.pid) /\ task' = [task EXCEPT ![a].pc = "kill"] /\ UNCHANGED <<lockFile, due>>
       \/ Alive(task[a].lock.pid) /\ ~Managed(task[a].lock.pid) /\ Skip(a) /\ DeleteLock(task[a].port, a)
       \/ Skip(a) /\ due' = [due EXCEPT ![a] = @ \ {task[a].lock.pid}] /\ UNCHANGED lockFile
    /\ UNCHANGED <<app, call, proc, slain>>

(* taskkill may fail *)
ReapKill(a) ==
    /\ task[a].pc = "kill"
    /\ \/ KillPid(task[a].lock.pid) /\ task' = [task EXCEPT ![a].pc = "drop"] /\ UNCHANGED due
       \/ Skip(a) /\ due' = [due EXCEPT ![a] = @ \ {task[a].lock.pid}] /\ UNCHANGED <<proc, slain>>
    /\ UNCHANGED <<app, call, lockFile>>

(* after up to ten looks at the port, whoever may have it by then *)
ReapDrop(a) ==
    /\ task[a].pc = "drop" /\ DeleteLock(task[a].port, a) /\ Skip(a)
    /\ UNCHANGED <<app, call, proc, slain>>

(* the lock is read before the port is tried; delete_lock comes after        *)
SweepRead(a, port) ==
    /\ app[a] = "up" /\ task[a].pc = "sweep" /\ port \in task[a].todo
    /\ LET rest == task[a].todo \ {port} IN
       IF lockFile[port] = NoLock THEN Next1(a, port, "sweep", rest)
       ELSE task' = [task EXCEPT ![a] = [pc |-> "probe", port |-> port, lock |-> lockFile[port], todo |-> rest]]
    /\ UNCHANGED <<app, call, proc, lockFile, due, slain>>
SweepProbe(a) ==
    /\ task[a].pc = "probe"
    /\ IF task[a].lock.pid \notin Listeners(task[a].port) THEN DeleteLock(task[a].port, 0) ELSE UNCHANGED <<lockFile, due>>
    /\ Next1(a, task[a].port, "sweep", task[a].todo)
    /\ UNCHANGED <<app, call, proc, slain>>

-----------------------------------------------------------------------------
(* A launch: reclaim_our_ghost_or_fail, then the spawn *)

To(a, pc, pid) == call' = [call EXCEPT ![a].pc = pc, ![a].pid = pid]
GiveUpLaunch(a) == call' = [call EXCEPT ![a] = NoCall]

LaunchProbe(a, port) ==
    /\ app[a] = "up" /\ call[a] = NoCall /\ Cardinality(Pids) < MaxPids
    /\ call' = [call EXCEPT ![a] = [pc |-> IF Listeners(port) = {} THEN "spawn" ELSE "look", port |-> port, pid |-> 0]]
    /\ IF Listeners(port) = {} /\ lockFile[port] # NoLock THEN DeleteLock(port, 0) ELSE UNCHANGED <<lockFile, due>>
    /\ UNCHANGED <<app, task, proc, slain>>

(* the listener is identified, and must not be an engine of this stack *)
LaunchLook(a) ==
    /\ call[a].pc = "look"
    /\ \E p \in Listeners(call[a].port) \cup {0} :
          IF p = 0 \/ (Managed(p) /\ proc[p].app = a) THEN GiveUpLaunch(a) ELSE To(a, "lock", p)
    /\ UNCHANGED <<app, task, proc, lockFile, due, slain>>

(* its image and the lock decide *)
LaunchDecide(a) ==
    /\ call[a].pc = "lock"
    /\ LET p == call[a].pid  lock == lockFile[call[a].port] IN
       IF lock.pid = p /\ app[lock.app] # "up" /\ Managed(p) THEN To(a, "kill", p) ELSE GiveUpLaunch(a)
    /\ UNCHANGED <<app, task, proc, lockFile, due, slain>>

LaunchKill(a) ==
    /\ call[a].pc = "kill"
    /\ \/ KillPid(call[a].pid) /\ To(a, "free", 0)
       \/ GiveUpLaunch(a) /\ UNCHANGED <<proc, slain>>
    /\ UNCHANGED <<app, task, lockFile, due>>
LaunchFree(a) ==
    /\ call[a].pc = "free"
    /\ IF Listeners(call[a].port) = {} THEN To(a, "spawn", 0) /\ DeleteLock(call[a].port, 0)
       ELSE GiveUpLaunch(a) /\ UNCHANGED <<lockFile, due>>
    /\ UNCHANGED <<app, task, proc, slain>>

(* The process starts; it is put into the job, which may fail, and locked *)
LaunchSpawn(a) ==
    /\ call[a].pc = "spawn"
    /\ LET p == Cardinality(Pids) + 1 IN
       /\ proc' = [q \in Pids \cup {p} |-> IF q = p THEN [app |-> a, port |-> call[a].port, st |-> "loading", job |-> FALSE]
                                          ELSE proc[q]]
       /\ To(a, "assign", p)
    /\ UNCHANGED <<app, task, lockFile, due, slain>>
LaunchAssign(a) ==
    /\ call[a].pc = "assign" /\ \E done \in BOOLEAN : proc' = [proc EXCEPT ![call[a].pid].job = done]
    /\ To(a, "write", call[a].pid) /\ UNCHANGED <<app, task, lockFile, due, slain>>
LaunchWrite(a) ==
    /\ call[a].pc = "write" /\ SetLock(call[a].port, [pid |-> call[a].pid, app |-> a], 0)
    /\ GiveUpLaunch(a) /\ UNCHANGED <<app, task, proc, slain>>

(* clear_slot of an engine that is stopped *)
StopEngine(a, p) ==
    /\ app[a] = "up" /\ call[a] = NoCall /\ Managed(p) /\ proc[p].app = a
    /\ proc' = [proc EXCEPT ![p].st = "dead"] /\ DeleteLock(proc[p].port, 0)
    /\ UNCHANGED <<app, task, call, slain>>

LocksNext ==
    \/ \E a \in Apps : \/ AppStarts(a) \/ AppCrashes(a) \/ ReapImage(a) \/ ReapKill(a) \/ ReapDrop(a) \/ SweepProbe(a)
                       \/ LaunchLook(a) \/ LaunchDecide(a) \/ LaunchKill(a) \/ LaunchFree(a)
                       \/ LaunchSpawn(a) \/ LaunchAssign(a) \/ LaunchWrite(a)
    \/ \E a \in Apps, port \in LockPorts : ReapRead(a, port) \/ SweepRead(a, port) \/ LaunchProbe(a, port)
    \/ \E p \in 1 .. MaxPids : EngineListens(p) \/ EngineDies(p) \/ PidReused(p)
    \/ \E a \in Apps, p \in 1 .. MaxPids : StopEngine(a, p)
LocksSpec == LocksInit /\ [][LocksNext]_lockVars

-----------------------------------------------------------------------------
(* Properties *)

LocksTypeOK ==
    /\ app \in [Apps -> {"off", "up", "gone"}] /\ Pids = 1 .. Cardinality(Pids)
    /\ \A p \in Pids : proc[p].app \in Apps /\ proc[p].port \in LockPorts
    /\ \A port \in LockPorts : lockFile[port] = NoLock \/ lockFile[port].pid \in Pids

(* Reaper and reclaim end orphans only: never an engine of a live instance, *)
(* never a foreign process that got the pid or the port.                    *)
OnlyOrphansAreKilled == ~slain

(* When an instance has finished its startup reaper, no orphan that had its *)
(* lock then and kept it is left, unless its image or its death failed.     *)
OrphansEndAtStartup ==
    \A a \in Apps : app[a] = "up" /\ task[a].pc \notin {"reap", "image", "kill", "drop"} => due[a] \cap Orphans = {}

LocksInv == LocksTypeOK /\ OnlyOrphansAreKilled /\ OrphansEndAtStartup
=============================================================================
