---------------------------- MODULE EngineStack ----------------------------
(***************************************************************************)
(* The engine stack of src-tauri/src/engine_stack.rs with its callers in   *)
(* engine.rs and log_hub.rs: launch_engine with its one retry, load_slot,  *)
(* the log reader, the HTTP readiness probe, the on-ready callback, the    *)
(* reaper, the two cleanup paths, stop, stop-all / by provider, app exit.  *)
(*                                                                         *)
(* Every action is one hold of the tokio stack lock or of a slot's lock,   *)
(* or one step between two awaits; whatever the code does in separate lock *)
(* scopes is separate actions.  A launch attempt is named by its           *)
(* reservation token, and the engine process it spawns (at most one) is    *)
(* named by the same token: pid t and child t are the process of attempt t.*)
(* Windows recycling a pid, and engines wrapped by nsys, are not modelled. *)
(***************************************************************************)
EXTENDS Integers

CONSTANTS
    Slots,        \* slot indices, a set of naturals (find_idle_slot picks the least)
    Ports,        \* engine ports; 0 stands for "no port"
    Launches,     \* calls of launch_engine
    Stops,        \* calls of stop_engine_slot / stop_engine
    Sweeps,       \* calls of stop-all, the two stop-by-provider calls, app exit
    SweepKinds,   \* which of "all", "provider", "profile", "exit" a sweep may be
    MaxRes,       \* bound on reservation tokens: two per launch suffice
    MaxAlias,     \* alias suffixes tried before AliasExhausted (99 in the code)
    Tries         \* load attempts of a launch: 2 in the code, 1 to bound a run

ASSUME StackAssumption ==
    /\ Slots \subseteq Nat
    /\ Ports \subseteq Nat \ {0}
    /\ MaxRes \in Nat
    /\ MaxAlias \in Nat
    /\ Tries \in {1, 2}
    /\ SweepKinds \subseteq {"all", "provider", "profile", "exit"}

Tokens  == 1..MaxRes
Token0  == 0..MaxRes          \* a token, or 0: none
Aliases == 1..MaxAlias
NoSlot  == -1

VARIABLES
    slot,       \* EngineSlot: status, res(ervation), pid, child, port, alias, known
    nextRes,    \* NEXT_LAUNCH_RESERVATION
    attempt,    \* [Tokens -> slot and port the attempt was reserved for]
    proc,       \* [Tokens -> state of the engine process]
    lock,       \* [Ports -> token named by the port's lock file, 0 = no file]
    ready,      \* READY_SLOTS
    launch,     \* launch_engine calls: control point and locals
    promoting,  \* attempts with a spawned on_ready task
    marking,    \* attempts promoted, mark_slot_ready not yet called
    reaper,     \* [Tokens -> reaper task, including clear_crashed_running_slot]
    failer,     \* [Tokens -> fail_loading_slot, run by the reader or the reaper]
    killing,    \* processes with a taskkill under way
    stop,       \* stop calls
    sweep,      \* sweep calls
    exited,     \* std::process::exit reached
    dropped     \* history: live engines whose Child a clear_slot discarded

vars == <<slot, nextRes, attempt, proc, lock, ready, launch, promoting, marking, reaper,
          failer, killing, stop, sweep, exited, dropped>>

Vacant == [status |-> "Idle", res |-> 0, pid |-> 0, child |-> 0, port |-> 0,
           alias |-> 0, known |-> FALSE]

\* A launch call that returned an error keeps nothing.
Returned == [pc |-> "done", slot |-> NoSlot, port |-> 0, alias |-> 0, tok |-> 0,
             retried |-> FALSE]

Init ==
    /\ slot = [s \in Slots |-> Vacant]
    /\ nextRes = 1
    /\ attempt = [t \in Tokens |-> [slot |-> NoSlot, port |-> 0]]
    /\ proc = [t \in Tokens |-> "none"]
    /\ lock = [p \in Ports |-> 0]
    /\ ready = {}
    /\ launch = [l \in Launches |-> [Returned EXCEPT !.pc = "alias"]]
    /\ promoting = {} /\ marking = {}
    /\ reaper = [t \in Tokens |-> [pc |-> "off", took |-> 0]]
    /\ failer = [t \in Tokens |-> [pc |-> "off", took |-> 0]]
    /\ killing = {}
    /\ stop = [x \in Stops |-> [pc |-> "idle", todo |-> {}, pid |-> 0]]
    /\ sweep = [y \in Sweeps |-> [pc |-> "idle", kind |-> "all", todo |-> {},
                                  pids |-> {}]]
    /\ exited = FALSE
    /\ dropped = {}
-----------------------------------------------------------------------------
Idle(s)  == slot[s].status = "Idle"
Up(t)    == proc[t] = "up"
Home(t)  == attempt[t].slot

\* The attempt still owns its slot.
Owns(t) == Home(t) \in Slots /\ slot[Home(t)].res = t

\* The slot is reserved by this launch and no process was attached to it.
Bare(l) == LET sl == slot[launch[l].slot] IN
    sl.res = launch[l].tok /\ sl.status = "Loading" /\ sl.pid = 0 /\ sl.child = 0

InUse(a) == \E s \in Slots : slot[s].alias = a /\ ~Idle(s)

\* reserved_ports, and occupied_ports_from_locks: a lock of this app whose
\* engine is alive.
UsedPorts == {slot[s].port : s \in {r \in Slots : ~Idle(r)}}
             \cup {p \in Ports : lock[p] # 0 /\ Up(lock[p])}

\* clear_slot on every slot of S: the record is reset, a Child still stored in
\* it is dropped (which does not kill the process), the port's lock file goes.
ClearSlots(S) ==
    /\ slot' = [s \in Slots |-> IF s \in S THEN Vacant ELSE slot[s]]
    /\ lock' = [p \in Ports |-> IF \E s \in S : slot[s].port = p THEN 0 ELSE lock[p]]
    /\ dropped' = dropped \cup {t \in Tokens : Up(t) /\ \E s \in S : slot[s].child = t}

\* A taskkill is started for the processes of K; one that exited is skipped
\* (stop_child_fast, kill_process_by_pid).
StartKill(K) == killing' = killing \cup {t \in Tokens : t \in K /\ Up(t)}

\* reserve_slot with the launch's alias and port, run by launch l.
ReserveFor(l, s, p, a, r) ==
    /\ Idle(s)
    /\ nextRes \in Tokens
    /\ slot' = [slot EXCEPT ![s] = [status |-> "Loading", res |-> nextRes, pid |-> 0,
                   child |-> 0, port |-> p, alias |-> a, known |-> FALSE]]
    /\ attempt' = [attempt EXCEPT ![nextRes] = [slot |-> s, port |-> p]]
    /\ nextRes' = nextRes + 1
    /\ launch' = [launch EXCEPT ![l] = [pc |-> IF r THEN "unready" ELSE "reclaim",
                     slot |-> s, port |-> p, alias |-> a, tok |-> nextRes, retried |-> r]]

At(l, pc)   == ~exited /\ launch[l].pc = pc
Goto(l, pc) == launch' = [launch EXCEPT ![l].pc = pc]
Return(l)   == launch' = [launch EXCEPT ![l] = Returned]
-----------------------------------------------------------------------------
(* launch_engine up to load_slot *)

\* The alias is made unique under one hold of the stack lock ...
ResolveAlias(l) ==
    /\ At(l, "alias")
    /\ \/ \E a \in Aliases :
            /\ ~InUse(a) /\ \A b \in 1..(a - 1) : InUse(b)
            /\ launch' = [launch EXCEPT ![l].alias = a, ![l].pc = "reserve"]
       \/ /\ \A a \in Aliases : InUse(a)
          /\ Return(l)
    /\ UNCHANGED <<slot, nextRes, attempt, proc, lock, ready, promoting, marking, reaper,
                   failer, killing, stop, sweep, exited, dropped>>

\* ... and the slot and the port are taken under the next one.
Reserve(l) ==
    /\ At(l, "reserve")
    /\ \/ \E s \in Slots, p \in Ports \ UsedPorts :
            /\ \A r \in Slots : r < s => ~Idle(r)
            /\ ReserveFor(l, s, p, launch[l].alias, FALSE)
       \/ /\ \A s \in Slots : ~Idle(s)
          /\ Return(l)
          /\ UNCHANGED <<slot, attempt, nextRes>>
    /\ UNCHANGED <<proc, lock, ready, promoting, marking, reaper, failer, killing, stop,
                   sweep, exited, dropped>>

\* Mutant: the error return after a failed reclaim forgets release_reserved_slot.
ReclaimForgetsSlot(l) ==
    /\ At(l, "reclaim")
    /\ \/ Return(l) /\ UNCHANGED lock
       \/ Goto(l, "unready") /\ lock' = [lock EXCEPT ![launch[l].port] = 0]
    /\ UNCHANGED <<slot, nextRes, attempt, proc, ready, promoting, marking, reaper, failer,
                   killing, stop, sweep, exited, dropped>>

\* reclaim_our_ghost_or_fail.  A listener that is not a dead app's engine is an
\* error; a free port loses its stale lock file.  Whether an engine that is being
\* killed has ever bound the port is not tracked: both answers are possible.
Reclaim(l) ==
    /\ At(l, "reclaim")
    /\ \/ /\ Goto(l, "release")
          /\ UNCHANGED lock
       \/ /\ Goto(l, "unready")
          /\ lock' = [lock EXCEPT ![launch[l].port] = 0]
    /\ UNCHANGED <<slot, nextRes, attempt, proc, ready, promoting, marking, reaper, failer,
                   killing, stop, sweep, exited, dropped>>

\* clear_slot_ready at the top of each attempt: no token is consulted.
ClearReady(l) ==
    /\ At(l, "unready")
    /\ ready' = ready \ {launch[l].slot}
    /\ Goto(l, "check")
    /\ UNCHANGED <<slot, nextRes, attempt, proc, lock, promoting, marking, reaper, failer,
                   killing, stop, sweep, exited, dropped>>

\* release_reserved_slot: only while this attempt's reservation is bare.
Release(l) ==
    /\ At(l, "release")
    /\ ClearSlots(IF Bare(l) THEN {launch[l].slot} ELSE {})
    /\ Return(l)
    /\ UNCHANGED <<nextRes, attempt, proc, ready, promoting, marking, reaper, failer, killing,
                   stop, sweep, exited>>
-----------------------------------------------------------------------------
(* load_slot *)

\* validate_binary_path may refuse the file; the reservation must still be bare,
\* or the launch was cancelled.
CheckReserved(l) ==
    /\ At(l, "check")
    /\ \/ Goto(l, "retry")
       \/ Bare(l) /\ Goto(l, "spawn")
       \/ ~Bare(l) /\ Return(l)
    /\ UNCHANGED <<slot, nextRes, attempt, proc, lock, ready, promoting, marking, reaper,
                   failer, killing, stop, sweep, exited, dropped>>

\* Spawn succeeds, or any error before a process exists.
Spawn(l) ==
    /\ At(l, "spawn")
    /\ \/ /\ proc' = [proc EXCEPT ![launch[l].tok] = "up"]
          /\ Goto(l, "claim")
       \/ /\ Goto(l, "retry")
          /\ UNCHANGED proc
    /\ UNCHANGED <<slot, nextRes, attempt, lock, ready, promoting, marking, reaper, failer,
                   killing, stop, sweep, exited, dropped>>

\* Mutant: the pid is stored without checking the reservation.
ClaimPidUnchecked(l) ==
    /\ At(l, "claim")
    /\ slot' = [slot EXCEPT ![launch[l].slot].pid = launch[l].tok]
    /\ Goto(l, "track")
    /\ UNCHANGED <<nextRes, attempt, proc, lock, ready, promoting, marking, reaper, failer,
                   killing, stop, sweep, exited, dropped>>

\* The pid is stored in the slot at once, so that a stop can kill the launch;
\* a launch that lost its reservation stops its own child.
ClaimPid(l) ==
    /\ At(l, "claim")
    /\ LET s == launch[l].slot
           t == launch[l].tok
       IN IF slot[s].res = t
            THEN /\ slot' = [slot EXCEPT ![s].pid = t]
                 /\ Goto(l, "track")
                 /\ UNCHANGED killing
            ELSE /\ StartKill({t})
                 /\ Return(l)
                 /\ UNCHANGED slot
    /\ UNCHANGED <<nextRes, attempt, proc, lock, ready, promoting, marking, reaper, failer,
                   stop, sweep, exited, dropped>>

\* Provisional port lock; from here the log reader and the probe run.
Track(l) ==
    /\ At(l, "track")
    /\ lock' = [lock EXCEPT ![launch[l].port] = launch[l].tok]
    /\ Goto(l, "settle")
    /\ UNCHANGED <<slot, nextRes, attempt, proc, ready, promoting, marking, reaper, failer,
                   killing, stop, sweep, exited, dropped>>

\* fail_loading_slot is at work for the attempt: load_fail_claimed.  (When it is
\* through the slot is cleared, and the flag with it.)
Claimed(t) == failer[t].pc # "off"

\* try_wait after 500 ms.
Settle(l) ==
    /\ At(l, "settle")
    /\ Goto(l, IF Up(launch[l].tok) THEN "commit" ELSE "crashed")
    /\ UNCHANGED <<slot, nextRes, attempt, proc, lock, ready, promoting, marking, reaper,
                   failer, killing, stop, sweep, exited, dropped>>

\* An early exit is cancelled by a stop, already reported by fail_loading_slot,
\* or a crash this launch must clean up after itself.
CrashCheck(l) ==
    /\ At(l, "crashed")
    /\ IF Owns(launch[l].tok) /\ ~Claimed(launch[l].tok)
         THEN Goto(l, "crashclear") ELSE Return(l)
    /\ UNCHANGED <<slot, nextRes, attempt, proc, lock, ready, promoting, marking, reaper,
                   failer, killing, stop, sweep, exited, dropped>>

\* The slot is cleared under a new hold of the lock, whoever owns it by now.
CrashClear(l) ==
    /\ At(l, "crashclear")
    /\ ClearSlots({launch[l].slot})
    /\ Goto(l, "retry")
    /\ UNCHANGED <<nextRes, attempt, proc, ready, promoting, marking, reaper, failer, killing,
                   stop, sweep, exited>>

\* The Child is stored; from now on the slot's backend and profile are known.
Loaded(r, t) == [status |-> r.status, res |-> r.res, pid |-> r.pid, child |-> t,
                 port |-> r.port, alias |-> r.alias, known |-> TRUE]

\* Mutant: the Child is stored without checking the reservation.
CommitUnchecked(l) ==
    /\ At(l, "commit")
    /\ slot' = [slot EXCEPT ![launch[l].slot] = Loaded(slot[launch[l].slot], launch[l].tok)]
    /\ Goto(l, "lock")
    /\ UNCHANGED <<nextRes, attempt, proc, lock, ready, promoting, marking, reaper, failer,
                   killing, stop, sweep, exited, dropped>>

\* The Child goes into the slot only while this reservation still owns it;
\* otherwise the launch stops it and ends as cancelled.  A slot the probe
\* already promoted stays Running.  (Port and alias are written again with the
\* values the reservation gave them.)
Commit(l) ==
    /\ At(l, "commit")
    /\ LET s == launch[l].slot
           t == launch[l].tok
       IN IF slot[s].res = t /\ slot[s].pid = t /\ slot[s].child = 0 /\ ~Idle(s)
            THEN /\ slot' = [slot EXCEPT ![s] = Loaded(slot[s], t)]
                 /\ Goto(l, "lock")
                 /\ UNCHANGED killing
            ELSE /\ StartKill({t})
                 /\ Return(l)
                 /\ UNCHANGED slot
    /\ UNCHANGED <<nextRes, attempt, proc, lock, ready, promoting, marking, reaper, failer,
                   stop, sweep, exited, dropped>>

WriteLock(l) ==
    /\ At(l, "lock")
    /\ lock' = [lock EXCEPT ![launch[l].port] = launch[l].tok]
    /\ Goto(l, "confirm")
    /\ UNCHANGED <<slot, nextRes, attempt, proc, ready, promoting, marking, reaper, failer,
                   killing, stop, sweep, exited, dropped>>

\* Mutant: a launch lost since the commit leaves its lock file behind.
ConfirmKeepsLock(l) ==
    /\ At(l, "confirm")
    /\ IF slot[launch[l].slot].res = launch[l].tok THEN Goto(l, "live") ELSE Return(l)
    /\ UNCHANGED <<slot, nextRes, attempt, proc, lock, ready, promoting, marking, reaper,
                   failer, killing, stop, sweep, exited, dropped>>

\* Still ours: the reaper starts and the launch succeeds ("live").  Lost since
\* the commit: delete_lock, cancelled.
Confirm(l) ==
    /\ At(l, "confirm")
    /\ IF slot[launch[l].slot].res = launch[l].tok
         THEN /\ Goto(l, "live")
              /\ UNCHANGED lock
         ELSE /\ lock' = [lock EXCEPT ![launch[l].port] = 0]
              /\ Return(l)
    /\ UNCHANGED <<slot, nextRes, attempt, proc, ready, promoting, marking, reaper, failer,
                   killing, stop, sweep, exited, dropped>>
-----------------------------------------------------------------------------
(* launch_engine after a failed load_slot *)

\* Mutant: the attempts are not counted.
RetryForever(l) ==
    /\ At(l, "retry")
    /\ \/ Idle(launch[l].slot) /\ Goto(l, "rereserve")
       \/ Bare(l) /\ Goto(l, "unready")
       \/ ~Idle(launch[l].slot) /\ ~Bare(l) /\ Goto(l, "release")
    /\ UNCHANGED <<slot, nextRes, attempt, proc, lock, ready, promoting, marking, reaper,
                   failer, killing, stop, sweep, exited, dropped>>

\* First failure: an Idle slot is reserved again, a bare reservation of ours is
\* used again, anything else belongs to somebody else.  Second failure: release.
Retry(l) ==
    /\ At(l, "retry")
    /\ LET again == Tries = 2 /\ ~launch[l].retried
           idle  == Idle(launch[l].slot)
       IN \/ /\ again /\ idle
             /\ Goto(l, "rereserve")
          \/ /\ again /\ ~idle /\ Bare(l)
             /\ launch' = [launch EXCEPT ![l].pc = "unready", ![l].retried = TRUE]
          \/ /\ ~again \/ (~idle /\ ~Bare(l))
             /\ Goto(l, "release")
    /\ UNCHANGED <<slot, nextRes, attempt, proc, lock, ready, promoting, marking, reaper,
                   failer, killing, stop, sweep, exited, dropped>>

\* Mutant: the retry goes on under the token of the failed attempt.
RereserveOldToken(l) ==
    /\ At(l, "rereserve")
    /\ IF Idle(launch[l].slot)
         THEN /\ slot' = [slot EXCEPT ![launch[l].slot] = [status |-> "Loading",
                             res |-> launch[l].tok, pid |-> 0, child |-> 0,
                             port |-> launch[l].port, alias |-> launch[l].alias, known |-> FALSE]]
              /\ launch' = [launch EXCEPT ![l].pc = "unready", ![l].retried = TRUE]
         ELSE Goto(l, "release") /\ UNCHANGED slot
    /\ UNCHANGED <<nextRes, attempt, proc, lock, ready, promoting, marking, reaper, failer,
                   killing, stop, sweep, exited, dropped>>

\* The same slot, port and alias are reserved again, without asking whether
\* the port or the alias went to another slot in between.
Rereserve(l) ==
    /\ At(l, "rereserve")
    /\ \/ ReserveFor(l, launch[l].slot, launch[l].port, launch[l].alias, TRUE)
       \/ /\ ~Idle(launch[l].slot)
          /\ Goto(l, "release")
          /\ UNCHANGED <<slot, attempt, nextRes>>
    /\ UNCHANGED <<proc, lock, ready, promoting, marking, reaper, failer, killing, stop,
                   sweep, exited, dropped>>
-----------------------------------------------------------------------------
(* The engine process, and the tasks that watch it: the log reader and the  *)
(* HTTP probe, running from Track on.  A task whose attempt lost its slot    *)
(* only ends, which is not a step here.                                      *)

Started(t) == proc[t] # "none"
              /\ ~ \E l \in Launches : launch[l].tok = t /\ launch[l].pc \in {"claim", "track"}

\* model_ready: on_ready has been fired for the attempt.
Heard(t) == t \in promoting \/ (Owns(t) /\ slot[Home(t)].status = "Running")

Dies(t) ==
    /\ proc' = [proc EXCEPT ![t] = "dead"]
    /\ killing' = killing \ {t}
    /\ dropped' = dropped \ {t}

EngineExits(t) ==
    /\ ~exited /\ Up(t)
    /\ Dies(t)
    /\ UNCHANGED <<slot, nextRes, attempt, lock, ready, launch, promoting, marking, reaper,
                   failer, stop, sweep, exited>>

\* The reader meets a readiness line (the pipe may outlive the process), or the
\* probe gets an answer on the port, from whichever engine of ours has it.
FireReady(t) ==
    /\ ~exited /\ Started(t) /\ Owns(t) /\ ~Heard(t)
    /\ promoting' = promoting \cup {t}
    /\ UNCHANGED <<slot, nextRes, attempt, proc, lock, ready, launch, marking, reaper, failer,
                   killing, stop, sweep, exited, dropped>>

\* fail_loading_slot, first lock scope: one caller per attempt gets through.
ClaimFailure(t) ==
    failer' = IF Owns(t) /\ ~Claimed(t) THEN [failer EXCEPT ![t].pc = "recheck"] ELSE failer

\* The reader meets a fatal line before readiness, or the pipe's end with the
\* process gone.  A pipe that ends in any other case ends the reader only.
ReaderFails(t) ==
    /\ ~exited /\ Started(t) /\ ~Heard(t)
    /\ ClaimFailure(t)
    /\ UNCHANGED <<slot, nextRes, attempt, proc, lock, ready, launch, promoting, marking,
                   reaper, killing, stop, sweep, exited, dropped>>

\* Mutant: on_ready looks at the slot's status but not at its reservation.
PromoteUnchecked(t) ==
    /\ ~exited /\ t \in promoting
    /\ promoting' = promoting \ {t}
    /\ IF slot[Home(t)].status = "Loading"
         THEN /\ slot' = [slot EXCEPT ![Home(t)].status = "Running"]
              /\ marking' = marking \cup {t}
         ELSE UNCHANGED <<slot, marking>>
    /\ UNCHANGED <<nextRes, attempt, proc, lock, ready, launch, reaper, failer, killing, stop,
                   sweep, exited, dropped>>

\* The on_ready task promotes under the stack lock ...
Promote(t) ==
    /\ ~exited /\ t \in promoting
    /\ promoting' = promoting \ {t}
    /\ IF Owns(t) /\ slot[Home(t)].status = "Loading"
         THEN /\ slot' = [slot EXCEPT ![Home(t)].status = "Running"]
              /\ marking' = marking \cup {t}
         ELSE UNCHANGED <<slot, marking>>
    /\ UNCHANGED <<nextRes, attempt, proc, lock, ready, launch, reaper, failer, killing, stop,
                   sweep, exited, dropped>>

\* ... and marks the slot index ready after letting go of it.
MarkReady(t) ==
    /\ ~exited /\ t \in marking
    /\ marking' = marking \ {t}
    /\ ready' = ready \cup {Home(t)}
    /\ UNCHANGED <<slot, nextRes, attempt, proc, lock, launch, promoting, reaper, failer,
                   killing, stop, sweep, exited, dropped>>
-----------------------------------------------------------------------------
(* Cleanup of an engine that died or could not load *)

\* Mutant: only a death during the load is acted on.
ReaperWakesWhileLoading(t) ==
    /\ ~exited /\ reaper[t].pc = "off" /\ ~Up(t) /\ Owns(t) /\ ~Claimed(t)
    /\ \E l \in Launches : launch[l].pc = "live" /\ launch[l].tok = t
    /\ slot[Home(t)].status = "Loading"
    /\ reaper' = [reaper EXCEPT ![t].pc = "fail"]
    /\ UNCHANGED <<slot, nextRes, attempt, proc, lock, ready, launch, promoting, marking,
                   failer, killing, stop, sweep, exited, dropped>>

\* The reaper of a live launch sees its pid gone and picks the cleanup by the
\* slot's status.  (A reaper that is cancelled, or whose attempt lost the slot,
\* only ends.)
ReaperWakes(t) ==
    /\ ~exited /\ reaper[t].pc = "off" /\ ~Up(t) /\ Owns(t) /\ ~Claimed(t)
    /\ \E l \in Launches : launch[l].pc = "live" /\ launch[l].tok = t
    /\ reaper' = [reaper EXCEPT ![t].pc =
            IF slot[Home(t)].status = "Loading" THEN "fail" ELSE "recheck"]
    /\ UNCHANGED <<slot, nextRes, attempt, proc, lock, ready, launch, promoting, marking,
                   failer, killing, stop, sweep, exited, dropped>>

ReaperFails(t) ==
    /\ ~exited /\ reaper[t].pc = "fail"
    /\ reaper' = [reaper EXCEPT ![t].pc = "off"]
    /\ ClaimFailure(t)
    /\ UNCHANGED <<slot, nextRes, attempt, proc, lock, ready, launch, promoting, marking,
                   killing, stop, sweep, exited, dropped>>

\* fail_loading_slot after the 150 ms pause: the reservation is checked again,
\* then the Child is taken, then the slot is cleared: three holds of the lock.
FailRecheck(t) ==
    /\ ~exited /\ failer[t].pc = "recheck"
    /\ failer' = [failer EXCEPT ![t].pc = IF Owns(t) THEN "take" ELSE "off"]
    /\ UNCHANGED <<slot, nextRes, attempt, proc, lock, ready, launch, promoting, marking,
                   reaper, killing, stop, sweep, exited, dropped>>

FailTake(t) ==
    /\ ~exited /\ failer[t].pc = "take"
    /\ failer' = [failer EXCEPT ![t] = [pc |-> "clear", took |-> slot[Home(t)].child]]
    /\ slot' = [slot EXCEPT ![Home(t)].child = 0]
    /\ UNCHANGED <<nextRes, attempt, proc, lock, ready, launch, promoting, marking, reaper,
                   killing, stop, sweep, exited, dropped>>

FailClear(t) ==
    /\ ~exited /\ failer[t].pc = "clear"
    /\ failer' = [failer EXCEPT ![t] = [pc |-> "off", took |-> 0]]
    /\ ClearSlots({Home(t)})
    /\ StartKill({t, failer[t].took})
    /\ UNCHANGED <<nextRes, attempt, proc, ready, launch, promoting, marking, reaper, stop,
                   sweep, exited>>

\* clear_crashed_running_slot: check and check again, take, clear.
CrashRecheck(t) ==
    /\ ~exited /\ reaper[t].pc = "recheck"
    /\ reaper' = [reaper EXCEPT ![t].pc = IF Owns(t) THEN "take" ELSE "off"]
    /\ UNCHANGED <<slot, nextRes, attempt, proc, lock, ready, launch, promoting, marking,
                   failer, killing, stop, sweep, exited, dropped>>

CrashTake(t) ==
    /\ ~exited /\ reaper[t].pc = "take"
    /\ reaper' = [reaper EXCEPT ![t] = [pc |-> "clear", took |-> slot[Home(t)].child]]
    /\ slot' = [slot EXCEPT ![Home(t)].child = 0]
    /\ UNCHANGED <<nextRes, attempt, proc, lock, ready, launch, promoting, marking, failer,
                   killing, stop, sweep, exited, dropped>>

CrashVacate(t) ==
    /\ ~exited /\ reaper[t].pc = "clear"
    /\ reaper' = [reaper EXCEPT ![t] = [pc |-> "off", took |-> 0]]
    /\ ClearSlots({Home(t)})
    /\ StartKill({reaper[t].took})
    /\ UNCHANGED <<nextRes, attempt, proc, ready, launch, promoting, marking, failer, stop,
                   sweep, exited>>

\* stop_child_fast / kill_process_by_pid: taskkill is assumed to succeed.
Kill(t) ==
    /\ ~exited /\ t \in killing
    /\ Dies(t)
    /\ UNCHANGED <<slot, nextRes, attempt, lock, ready, launch, promoting, marking, reaper,
                   failer, stop, sweep, exited>>
-----------------------------------------------------------------------------
(* Stop *)

\* stop_engine_slot names one busy slot; stop_engine names an alias and stops
\* every slot that carries it, one after the other.
StopRequest(x) ==
    /\ ~exited /\ stop[x].pc = "idle"
    /\ \/ \E s \in Slots : ~Idle(s) /\ stop' = [stop EXCEPT ![x].pc = "take", ![x].todo = {s}]
       \/ \E a \in Aliases :
            /\ InUse(a)
            /\ stop' = [stop EXCEPT ![x].pc = "take",
                          ![x].todo = {s \in Slots : slot[s].alias = a /\ ~Idle(s)}]
    /\ UNCHANGED <<slot, nextRes, attempt, lock, ready, dropped, promoting, marking, proc, launch,
                   reaper, failer, killing, sweep, exited>>

\* stop_engine goes through its slots in index order.
Least(S) == {s \in S : \A r \in S : s <= r}

\* stop_slot: pid and Child of whoever is there by now, no token is consulted ...
StopTake(x) ==
    /\ ~exited /\ stop[x].pc = "take"
    /\ \E s \in Least(stop[x].todo) :
         /\ stop' = [stop EXCEPT ![x].pc = "clear", ![x].pid = slot[s].pid]
         /\ slot' = [slot EXCEPT ![s].child = 0]
    /\ UNCHANGED <<nextRes, attempt, lock, ready, dropped, promoting, marking, proc, launch,
                   reaper, failer, killing, sweep, exited>>

\* ... then the slot is cleared, and what was taken is killed.
StopClear(x) ==
    /\ ~exited /\ stop[x].pc = "clear"
    /\ \E s \in Least(stop[x].todo) :
         /\ ClearSlots({s})
         /\ StartKill({stop[x].pid})
         /\ stop' = [stop EXCEPT ![x] = [pc |-> IF stop[x].todo = {s} THEN "done" ELSE "take",
                                         todo |-> stop[x].todo \ {s}, pid |-> 0]]
    /\ UNCHANGED <<nextRes, attempt, ready, promoting, marking, proc, launch, reaper, failer,
                   sweep, exited>>
-----------------------------------------------------------------------------
(* shutdown_slots_generic: stop all, stop by provider, kill all at app exit *)

\* Mutant: every child is taken, but only Running engines are killed.
SweepCollectRunning(y) ==
    /\ ~exited /\ sweep[y].pc = "idle"
    /\ \E k \in SweepKinds :
         LET targets == {s \in Slots : ~Idle(s) /\ (k \in {"provider", "profile"} => slot[s].known)} IN
           /\ sweep' = [sweep EXCEPT ![y] = [pc |-> "clear", kind |-> k, todo |-> targets,
                            pids |-> {slot[s].pid : s \in {r \in targets : slot[r].status = "Running"}} \ {0}]]
           /\ slot' = [s \in Slots |-> IF s \in targets THEN [slot[s] EXCEPT !.child = 0]
                                       ELSE slot[s]]
    /\ UNCHANGED <<nextRes, attempt, lock, ready, dropped, promoting, marking, proc, launch,
                   reaper, failer, killing, stop, exited>>

\* Mutant: the kills are issued while the slots still show the engines.
SweepCollectKillsFirst(y) ==
    /\ ~exited /\ sweep[y].pc = "idle"
    /\ \E k \in SweepKinds :
         LET targets == {s \in Slots : ~Idle(s) /\ (k \in {"provider", "profile"} => slot[s].known)} IN
           /\ sweep' = [sweep EXCEPT ![y] = [pc |-> "clear", kind |-> k, todo |-> targets,
                            pids |-> {slot[s].pid : s \in targets} \ {0}]]
           /\ slot' = [s \in Slots |-> IF s \in targets THEN [slot[s] EXCEPT !.child = 0]
                                       ELSE slot[s]]
    /\ StartKill({slot[s].pid : s \in Slots})
    /\ UNCHANGED <<nextRes, attempt, lock, ready, dropped, promoting, marking, proc, launch,
                   reaper, failer, stop, exited>>

\* Targets are collected, and their children taken, under one hold.  The backend
\* and profile of a slot are unknown to the two provider filters until the commit.
SweepCollect(y) ==
    /\ ~exited /\ sweep[y].pc = "idle"
    /\ \E k \in SweepKinds :
         LET targets == {s \in Slots : ~Idle(s) /\ (k \in {"provider", "profile"} => slot[s].known)} IN
           /\ sweep' = [sweep EXCEPT ![y] = [pc |-> "clear", kind |-> k, todo |-> targets,
                            pids |-> {slot[s].pid : s \in targets} \ {0}]]
           /\ slot' = [s \in Slots |-> IF s \in targets THEN [slot[s] EXCEPT !.child = 0]
                                       ELSE slot[s]]
    /\ UNCHANGED <<nextRes, attempt, lock, ready, dropped, promoting, marking, proc, launch,
                   reaper, failer, killing, stop, exited>>

\* Mutant: only Running slots are cleared.
SweepClearRunning(y) ==
    /\ ~exited /\ sweep[y].pc = "clear"
    /\ ClearSlots({s \in sweep[y].todo : slot[s].status = "Running"})
    /\ StartKill(sweep[y].pids)
    /\ sweep' = [sweep EXCEPT ![y].pc = "await"]
    /\ UNCHANGED <<nextRes, attempt, ready, promoting, marking, proc, launch, reaper, failer,
                   stop, exited>>

\* The fusion brains of the targets are joined in between, up to 750 ms each.
SweepClear(y) ==
    /\ ~exited /\ sweep[y].pc = "clear"
    /\ ClearSlots(sweep[y].todo)
    /\ StartKill(sweep[y].pids)
    /\ sweep' = [sweep EXCEPT ![y].pc = "await"]
    /\ UNCHANGED <<nextRes, attempt, ready, promoting, marking, proc, launch, reaper, failer,
                   stop, exited>>

\* "profile" and "exit" await the kills.  "exit" ends the process, and the job
\* object kills every engine assigned to it: all but those whose launch is still
\* between cmd.spawn() and assign_engine_to_job.
SweepDone(y) ==
    /\ ~exited /\ sweep[y].pc = "await"
    /\ sweep[y].kind \in {"profile", "exit"} => sweep[y].pids \cap killing = {}
    /\ sweep' = [sweep EXCEPT ![y].pc = "done"]
    /\ IF sweep[y].kind = "exit"
         THEN /\ exited' = TRUE
              /\ \E free \in SUBSET {launch[l].tok : l \in {m \in Launches : launch[m].pc = "claim"}} :
                   proc' = [t \in Tokens |-> IF Up(t) /\ t \notin free THEN "dead" ELSE proc[t]]
         ELSE UNCHANGED <<exited, proc>>
    /\ UNCHANGED <<slot, nextRes, attempt, lock, ready, dropped, promoting, marking, launch,
                   reaper, failer, killing, stop>>
-----------------------------------------------------------------------------
LaunchStep(l) ==
    \/ ResolveAlias(l) \/ Reserve(l) \/ Reclaim(l) \/ ClearReady(l) \/ Release(l)
    \/ CheckReserved(l) \/ Spawn(l) \/ ClaimPid(l) \/ Track(l) \/ Settle(l)
    \/ CrashCheck(l) \/ CrashClear(l) \/ Commit(l) \/ WriteLock(l) \/ Confirm(l)
    \/ Retry(l) \/ Rereserve(l)

WatcherStep(t) == FireReady(t) \/ ReaderFails(t)
ReaperStep(t) == ReaperWakes(t) \/ ReaperFails(t) \/ CrashRecheck(t) \/ CrashTake(t) \/ CrashVacate(t)
FailerStep(t) == FailRecheck(t) \/ FailTake(t) \/ FailClear(t)
StopStep(x)   == StopTake(x) \/ StopClear(x)
SweepStep(y)  == SweepClear(y) \/ SweepDone(y)

Next ==
    \/ \E l \in Launches : LaunchStep(l)
    \/ \E t \in Tokens : \/ EngineExits(t) \/ WatcherStep(t) \/ Promote(t) \/ MarkReady(t)
                         \/ ReaperStep(t) \/ FailerStep(t) \/ Kill(t)
    \/ \E x \in Stops : StopRequest(x) \/ StopStep(x)
    \/ \E y \in Sweeps : SweepCollect(y) \/ SweepStep(y)

Spec == Init /\ [][Next]_vars

(***************************************************************************)
(* Fairness: every tokio task that can run eventually does, a taskkill     *)
(* completes.  Nothing forces an engine to print a line, answer HTTP, close *)
(* its pipe or die, nor a user to stop it.                                 *)
(***************************************************************************)
Fairness ==
    /\ \A l \in Launches : WF_vars(LaunchStep(l))
    /\ \A t \in Tokens : /\ WF_vars(Promote(t)) /\ WF_vars(MarkReady(t)) /\ WF_vars(Kill(t))
                         /\ WF_vars(ReaperStep(t)) /\ WF_vars(FailerStep(t))
    /\ \A x \in Stops : WF_vars(StopStep(x))
    /\ \A y \in Sweeps : WF_vars(SweepStep(y))

FairSpec == Spec /\ Fairness
-----------------------------------------------------------------------------
(* Properties *)

LaunchPcs == {"alias", "reserve", "reclaim", "unready", "check", "spawn", "claim", "track",
              "settle", "crashed", "crashclear", "commit", "lock", "confirm", "live",
              "retry", "rereserve", "release", "done"}
CleanupPcs == {"off", "fail", "recheck", "take", "clear"}

SlotRecs == [status : {"Idle", "Loading", "Running"}, res : Token0, pid : Token0,
             child : Token0, port : Ports \cup {0}, alias : 0..MaxAlias, known : BOOLEAN]
AttemptRecs == [slot : Slots \cup {NoSlot}, port : Ports \cup {0}]
LaunchRecs == [pc : LaunchPcs, slot : Slots \cup {NoSlot}, port : Ports \cup {0},
               alias : 0..MaxAlias, tok : Token0, retried : BOOLEAN]
CleanupRecs == [pc : CleanupPcs, took : Token0]
StopRecs == [pc : {"idle", "take", "clear", "done"}, todo : SUBSET Slots, pid : Token0]
SweepRecs == [pc : {"idle", "clear", "await", "done"},
              kind : {"all", "provider", "profile", "exit"}, todo : SUBSET Slots,
              pids : SUBSET Tokens]

TypeOK ==
    /\ slot \in [Slots -> SlotRecs]
    /\ nextRes \in 1..(MaxRes + 1)
    /\ attempt \in [Tokens -> AttemptRecs]
    /\ proc \in [Tokens -> {"none", "up", "dead"}]
    /\ lock \in [Ports -> Token0]
    /\ ready \subseteq Slots
    /\ launch \in [Launches -> LaunchRecs]
    /\ promoting \subseteq Tokens /\ marking \subseteq Tokens
    /\ reaper \in [Tokens -> CleanupRecs]
    /\ failer \in [Tokens -> CleanupRecs]
    /\ killing \subseteq Tokens
    /\ stop \in [Stops -> StopRecs]
    /\ sweep \in [Sweeps -> SweepRecs]
    /\ exited \in BOOLEAN
    /\ dropped \subseteq Tokens

\* A slot never holds the pid or the Child of an attempt other than the one that
\* owns it (engine_stack.rs:629-630), and no token owns two slots.
SlotOwnsItsProcess ==
    /\ \A s \in Slots : /\ slot[s].pid \in {0, slot[s].res}
                        /\ slot[s].child \in {0, slot[s].pid}
                        /\ Idle(s) <=> slot[s].res = 0
    /\ \A r, s \in Slots : slot[r].res = slot[s].res /\ ~Idle(r) => r = s

\* A Running slot has an engine that was spawned for it: no callback of an older
\* attempt promotes a reservation that has no process yet.
RunningHasEngine ==
    \A s \in Slots : slot[s].status = "Running" =>
        slot[s].pid = slot[s].res /\ proc[slot[s].res] # "none"

\* Background work is under way for attempt t.
Attended(t) == t \in promoting \cup marking \/ reaper[t].pc # "off" \/ failer[t].pc # "off"

\* Tokens at work were handed out, and know the one slot they were handed out for.
TokensKnowTheirSlot ==
    /\ \A s \in Slots : ~Idle(s) => slot[s].res < nextRes /\ Home(slot[s].res) = s
    /\ \A l \in Launches : launch[l].pc \notin {"alias", "reserve", "done"} =>
         /\ launch[l].tok \in 1..(nextRes - 1)
         /\ launch[l].slot \in Slots /\ launch[l].slot = Home(launch[l].tok)
    /\ \A t \in Tokens : Attended(t) => t < nextRes /\ Home(t) \in Slots
    /\ \A t \in Tokens : t >= nextRes => proc[t] = "none"

\* An owner with a process has its pid in the slot, unless its launch is about to
\* store it; whoever is about to promote it saw it there.
PidsFollowSpawns ==
    /\ \A s \in Slots : ~Idle(s) /\ slot[s].pid = 0 /\ proc[slot[s].res] # "none" =>
         \E l \in Launches : launch[l].tok = slot[s].res /\ launch[l].pc = "claim"
    /\ \A s \in Slots : slot[s].pid # 0 => proc[slot[s].pid] # "none"
    /\ \A l \in Launches : launch[l].pc = "claim" => proc[launch[l].tok] # "none"
    /\ \A t \in killing : proc[t] # "none"
    /\ \A t \in promoting : Owns(t) => slot[Home(t)].pid = t

\* The inductive invariant behind the theorems of EngineStackProofs.
StackInv == TypeOK /\ SlotOwnsItsProcess /\ RunningHasEngine /\ TokensKnowTheirSlot
            /\ PidsFollowSpawns

\* A reservation without a process is never abandoned: some launch call still
\* has it in hand and will spawn or release it.
ReservationHasLauncher ==
    \A s \in Slots : ~Idle(s) /\ slot[s].pid = 0 =>
        \E l \in Launches : /\ launch[l].tok = slot[s].res
                            /\ launch[l].pc \in {"reclaim", "unready", "check", "spawn",
                                                 "claim", "retry", "release"}

\* Somebody will still stop engine t, or can be asked to.
Tracked(t) ==
    \/ \E s \in Slots : slot[s].pid = t
    \/ t \in killing
    \/ \E l \in Launches : /\ launch[l].tok = t
                           /\ launch[l].pc \in {"claim", "track", "settle", "commit"}
    \/ \E x \in Stops : stop[x].pc = "clear" /\ stop[x].pid = t
    \/ \E y \in Sweeps : sweep[y].pc = "clear" /\ t \in sweep[y].pids
    \/ failer[t].pc \in {"take", "clear"}
    \/ \E u \in Tokens : failer[u].took = t /\ failer[u].pc = "clear"
    \/ \E u \in Tokens : reaper[u].took = t /\ reaper[u].pc = "clear"

\* An engine gets out of everybody's hands in one way only: a clear_slot threw
\* away a Child that its caller had not taken out of the slot first.
EscapesOnlyByDrop == \A t \in Tokens : Up(t) => Tracked(t) \/ t \in dropped

\* The kill of an engine is issued only after the slot that showed it is cleared:
\* no slot, and so no chat or monitor of the app, points at a process being killed.
KilledEngineHasNoSlot == \A s \in Slots : slot[s].pid = 0 \/ slot[s].pid \notin killing

\* A slot that shows a pid without holding the Child is in somebody's hands: the
\* launch has not committed yet, or whoever took the Child is about to clear it.
ChildlessSlotIsAttended ==
    \A s \in Slots : slot[s].pid # 0 /\ slot[s].child = 0 =>
        \/ \E l \in Launches : /\ launch[l].tok = slot[s].res
                              /\ launch[l].pc \in {"track", "settle", "crashed", "crashclear", "commit"}
        \/ \E x \in Stops : stop[x].pc = "clear" /\ s \in stop[x].todo
        \/ \E y \in Sweeps : sweep[y].pc = "clear" /\ s \in sweep[y].todo
        \/ \E t \in Tokens : Home(t) = s /\ (reaper[t].pc = "clear" \/ failer[t].pc # "off")

\* A lock file that names a live engine names one that is still tracked, or whose
\* launch is about to write or delete that very file: no port stays blocked by
\* the lock of an engine the stack has forgotten.
LockNamesTrackedEngine ==
    \A p \in Ports : lock[p] # 0 /\ Up(lock[p]) =>
        \/ Tracked(lock[p])
        \/ \E l \in Launches : launch[l].tok = lock[p] /\ launch[l].pc = "confirm"

\* The stack implements the abstract slot life cycle: tokens only grow, a slot
\* changes owner only through Idle, only Loading becomes Running.
Lifecycle == INSTANCE SlotLifecycle WITH
    status <- [s \in Slots |-> slot[s].status],
    owner  <- [s \in Slots |-> slot[s].res],
    next   <- nextRes
RefinesLifecycle == Lifecycle!Spec

\* A slot is not shown Loading or Running for ever over a dead engine, whichever
\* of the launch, the reader and the reaper notices the death.
DeadEngineLeavesSlot ==
    \A t \in Tokens : proc[t] = "dead" /\ Owns(t) ~> (~Owns(t) \/ exited)

\* Every launch call returns.
LaunchReturns == \A l \in Launches : <>(launch[l].pc \in {"live", "done"} \/ exited)
=============================================================================
