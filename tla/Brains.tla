------------------------------- MODULE Brains -------------------------------
(***************************************************************************)
(* One background task per running engine, its fusion brain, turns the     *)
(* engine's telemetry into display updates.  Launches start brains in      *)
(* detached tasks, every way an engine slot ends stops them, the exit of   *)
(* the application stops all of them.  The registry of brains is a mutex   *)
(* that is never held across an await: a handle is taken out first and     *)
(* stopped afterwards.  A step is the stretch of a task between two awaits *)
(* (start_brain: between two holds of the registry).                       *)
(***************************************************************************)
EXTENDS Integers, FiniteSets

CONSTANTS
    BrainSlots,    \* engine slots
    BrainPorts,    \* engine ports
    Launches,      \* bound: engines ever launched, numbered from 1
    Stoppers,      \* bound: calls of stop_brain
    MaxOverlap     \* bound: stops begun while a start or a stop of the slot is under way

ASSUME BrainsAssumption ==
    /\ Launches \subseteq Nat \ {0} /\ Stoppers \subseteq Nat /\ MaxOverlap \in Nat
    /\ 0 \notin BrainPorts

Kind == {"none", "Poll", "Sse"}
NoStart == [pc |-> "none", slot |-> 0, port |-> 0, old |-> 0]
NoBrain == [st |-> "none", kind |-> "none", cancelled |-> FALSE]
NoStop  == [pc |-> "idle", slot |-> 0, brain |-> 0]

VARIABLES
    engine,       \* slot -> launch that owns it, 0: free
    start,        \* launch -> its detached start_brain task
    brain,        \* launch -> its brain
    registry,     \* BRAIN_REGISTRY: slot -> launch, 0: no entry
    adapters,     \* SLOT_ADAPTERS: slots with an entry
    snaps,        \* FUSION_SNAPSHOT_CACHE: slot -> launch whose update it holds
    stop,         \* calls of stop_brain
    leaving,      \* stop_all_brains: its program counter and the brains it drained
    shuttingDown, \* FUSION_SHUTTING_DOWN
    overlaps      \* history: stops begun while a start or stop of the slot ran

brainVars == <<engine, start, brain, registry, adapters, snaps, stop, leaving, shuttingDown, overlaps>>

Starting(s) == {g \in Launches : start[g].slot = s /\ start[g].pc \notin {"none", "done"}}
Stopping(s) == {k \in Stoppers : stop[k].slot = s /\ stop[k].pc \notin {"idle", "done"}}
Live(g) == brain[g].st \notin {"none", "ended"}
Step(g, pc) == start' = [start EXCEPT ![g].pc = pc]

BrainsInit ==
    /\ engine = [s \in BrainSlots |-> 0]
    /\ start = [g \in Launches |-> NoStart] /\ brain = [g \in Launches |-> NoBrain]
    /\ registry = [s \in BrainSlots |-> 0] /\ snaps = [s \in BrainSlots |-> 0] /\ adapters = {}
    /\ stop = [k \in Stoppers |-> NoStop]
    /\ leaving = [pc |-> "idle", set |-> {}] /\ shuttingDown = FALSE /\ overlaps = 0

(* the engine of a free slot is up: its launch checks that it still owns the *)
(* slot and leaves the brain to a task of its own                            *)
LaunchEngine(g, s, p) ==
    /\ start[g].pc = "none" /\ \A h \in Launches : h < g => start[h].pc # "none"
    /\ engine[s] = 0 /\ ~shuttingDown
    /\ \A t \in BrainSlots : engine[t] # 0 => start[engine[t]].port # p
    /\ engine' = [engine EXCEPT ![s] = g]
    /\ start' = [start EXCEPT ![g] = [pc |-> "probe", slot |-> s, port |-> p, old |-> 0]]
    /\ UNCHANGED <<brain, registry, adapters, snaps, stop, leaving, shuttingDown, overlaps>>

(* the /events/sse probe has answered: the brain before is taken out and cancelled *)
StartTake(g, kind) ==
    LET s == start[g].slot  old == registry[s] IN
    /\ start[g].pc = "probe"
    /\ registry' = [registry EXCEPT ![s] = 0]
    /\ brain' = [h \in Launches |-> IF h = g THEN [brain[h] EXCEPT !.kind = kind]
                                    ELSE IF h = old THEN [brain[h] EXCEPT !.cancelled = TRUE]
                                    ELSE brain[h]]
    /\ start' = [start EXCEPT ![g].pc = IF old = 0 THEN "insert" ELSE "await", ![g].old = old]
    /\ UNCHANGED <<engine, adapters, snaps, stop, leaving, shuttingDown, overlaps>>

(* stop_brain_handle: the brain has ended, or 750 ms are over and it is aborted *)
Joined(h) == brain' = IF Live(h) THEN [brain EXCEPT ![h].st = "ended"] ELSE brain
StartJoined(g) ==
    /\ start[g].pc = "await" /\ Joined(start[g].old) /\ Step(g, "insert")
    /\ UNCHANGED <<engine, registry, adapters, snaps, stop, leaving, shuttingDown, overlaps>>

(* a second insert drops the handle of the first, its task runs on *)
StartInsert(g) ==
    /\ start[g].pc = "insert" /\ Step(g, "done")
    /\ brain' = [brain EXCEPT ![g].st = "spawned"]
    /\ registry' = [registry EXCEPT ![start[g].slot] = g]
    /\ UNCHANGED <<engine, adapters, snaps, stop, leaving, shuttingDown, overlaps>>

(***************************************************************************)
(* The brain's own task.                                                   *)
(***************************************************************************)
BrainFirst(g) ==
    /\ brain[g].st = "spawned"
    /\ brain' = [brain EXCEPT ![g].st = "waiting"]
    /\ adapters' = IF brain[g].kind = "Poll" THEN adapters \cup {start[g].slot} ELSE adapters
    /\ snaps' = [snaps EXCEPT ![start[g].slot] = g]
    /\ UNCHANGED <<engine, start, registry, stop, leaving, shuttingDown, overlaps>>

(* a poll begins: from here to its end the cancellation is not looked at *)
BrainPoll(g) ==
    /\ brain[g].st = "waiting" /\ brain[g].kind = "Poll" /\ ~shuttingDown
    /\ brain' = [brain EXCEPT ![g].st = "polling"]
    /\ UNCHANGED <<engine, start, registry, adapters, snaps, stop, leaving, shuttingDown, overlaps>>

(* the poll's reads are answered, or a tick of the stream brain *)
BrainEmit(g) ==
    /\ \/ brain[g].st = "polling"
       \/ brain[g].st = "waiting" /\ brain[g].kind = "Sse"
    /\ brain' = [brain EXCEPT ![g].st = "waiting"]
    /\ snaps' = [snaps EXCEPT ![start[g].slot] = g]
    /\ UNCHANGED <<engine, start, registry, adapters, stop, leaving, shuttingDown, overlaps>>

BrainCancelled(g) ==
    /\ brain[g].st = "waiting" /\ brain[g].cancelled
    /\ brain' = [brain EXCEPT ![g].st = "ended"]
    /\ snaps' = IF shuttingDown THEN snaps ELSE [snaps EXCEPT ![start[g].slot] = g]
    /\ UNCHANGED <<engine, start, registry, adapters, stop, leaving, shuttingDown, overlaps>>

(* variant: the timer looks at the cancellation instead of the flag *)
BrainLeavesCancelled(g) ==
    /\ brain[g].st = "waiting" /\ brain[g].kind = "Poll" /\ brain[g].cancelled
    /\ brain' = [brain EXCEPT ![g].st = "ended"]
    /\ UNCHANGED <<engine, start, registry, adapters, snaps, stop, leaving, shuttingDown, overlaps>>

(* the poll timer fires while the application is leaving *)
BrainLeaves(g) ==
    /\ brain[g].st = "waiting" /\ brain[g].kind = "Poll" /\ shuttingDown
    /\ brain' = [brain EXCEPT ![g].st = "ended"]
    /\ UNCHANGED <<engine, start, registry, adapters, snaps, stop, leaving, shuttingDown, overlaps>>

(***************************************************************************)
(* stop_brain, called by every path that ends the engine of a slot, and    *)
(* the clearing of the slot by that path.                                  *)
(***************************************************************************)
(* variant: the stop does not wait for the brain it takes out *)
StopTakeNoJoin(k, s) ==
    LET h == registry[s] IN
    /\ stop[k].pc = "idle" /\ \A j \in Stoppers : j < k => stop[j].pc # "idle"
    /\ engine[s] # 0 /\ leaving.pc = "idle"
    /\ registry' = [registry EXCEPT ![s] = 0]
    /\ brain' = IF h = 0 THEN brain ELSE [brain EXCEPT ![h].cancelled = TRUE]
    /\ stop' = [stop EXCEPT ![k] = [pc |-> "tail", slot |-> s, brain |-> h]]
    /\ UNCHANGED <<engine, start, adapters, snaps, leaving, shuttingDown, overlaps>>

StopTake(k, s) ==
    LET h == registry[s]
        crowded == Starting(s) # {} \/ Stopping(s) # {} IN
    /\ stop[k].pc = "idle" /\ \A j \in Stoppers : j < k => stop[j].pc # "idle"
    /\ engine[s] # 0 /\ leaving.pc = "idle"
    /\ overlaps' = overlaps + (IF crowded THEN 1 ELSE 0) /\ overlaps' <= MaxOverlap
    /\ registry' = [registry EXCEPT ![s] = 0]
    /\ brain' = IF h = 0 THEN brain ELSE [brain EXCEPT ![h].cancelled = TRUE]
    /\ stop' = [stop EXCEPT ![k] = [pc |-> IF h = 0 THEN "tail" ELSE "await", slot |-> s, brain |-> h]]
    /\ UNCHANGED <<engine, start, adapters, snaps, leaving, shuttingDown>>

StopJoined(k) ==
    /\ stop[k].pc = "await" /\ Joined(stop[k].brain)
    /\ stop' = [stop EXCEPT ![k].pc = "tail"]
    /\ UNCHANGED <<engine, start, registry, adapters, snaps, leaving, shuttingDown, overlaps>>

StopTail(k) ==
    /\ stop[k].pc = "tail"
    /\ adapters' = adapters \ {stop[k].slot}
    /\ snaps' = [snaps EXCEPT ![stop[k].slot] = 0]
    /\ stop' = [stop EXCEPT ![k].pc = "clear"]
    /\ UNCHANGED <<engine, start, brain, registry, leaving, shuttingDown, overlaps>>

ClearSlot(k) ==
    /\ stop[k].pc = "clear"
    /\ engine' = [engine EXCEPT ![stop[k].slot] = 0]
    /\ stop' = [stop EXCEPT ![k].pc = "done"]
    /\ UNCHANGED <<start, brain, registry, adapters, snaps, leaving, shuttingDown, overlaps>>

(* stop_all_brains on the way out *)
LeaveDrain ==
    LET all == {registry[s] : s \in BrainSlots} \ {0} IN
    /\ leaving.pc = "idle" /\ shuttingDown' = TRUE
    /\ registry' = [s \in BrainSlots |-> 0]
    /\ brain' = [g \in Launches |-> IF g \in all THEN [brain[g] EXCEPT !.cancelled = TRUE] ELSE brain[g]]
    /\ leaving' = [pc |-> "await", set |-> all]
    /\ UNCHANGED <<engine, start, adapters, snaps, stop, overlaps>>

LeaveJoined ==
    /\ leaving.pc = "await"
    /\ \/ leaving.set # {} /\ \E g \in leaving.set :
            Joined(g) /\ leaving' = [leaving EXCEPT !.set = @ \ {g}]
            /\ UNCHANGED <<adapters, snaps>>
       \/ leaving.set = {} /\ leaving' = [leaving EXCEPT !.pc = "done"] /\ adapters' = {}
            /\ snaps' = [s \in BrainSlots |-> 0] /\ UNCHANGED brain
    /\ UNCHANGED <<engine, start, registry, stop, shuttingDown, overlaps>>

StartStep(g) == (\E kind \in {"Poll", "Sse"} : StartTake(g, kind)) \/ StartJoined(g) \/ StartInsert(g)
BrainEnds(g) == BrainCancelled(g) \/ BrainLeaves(g)
StopStep(k)  == StopJoined(k) \/ StopTail(k) \/ ClearSlot(k)

BrainsNext ==
    \/ \E g \in Launches, s \in BrainSlots, p \in BrainPorts : LaunchEngine(g, s, p)
    \/ \E g \in Launches : StartStep(g) \/ BrainFirst(g) \/ BrainPoll(g) \/ BrainEmit(g) \/ BrainEnds(g)
    \/ \E k \in Stoppers : StopStep(k) \/ \E s \in BrainSlots : StopTake(k, s)
    \/ LeaveDrain \/ LeaveJoined

(* the runtime runs every task that is ready, a wait of 750 ms ends; what is *)
(* not assumed: that the reads of a poll are ever answered                   *)
BrainsFairness ==
    /\ \A g \in Launches : WF_brainVars(StartStep(g)) /\ WF_brainVars(BrainFirst(g)) /\ WF_brainVars(BrainEnds(g))
    /\ \A k \in Stoppers : WF_brainVars(StopStep(k))
    /\ WF_brainVars(LeaveJoined)
BrainsSpec == BrainsInit /\ [][BrainsNext]_brainVars /\ BrainsFairness

(***************************************************************************)
(* Properties.                                                             *)
(***************************************************************************)
(* Every variable keeps its type; an entry of the registry names a brain   *)
(* that was spawned for that slot and that nobody has cancelled (a handle  *)
(* leaves the registry before it is stopped).                              *)
BrainsTypeOK ==
    /\ engine \in [BrainSlots -> Launches \cup {0}] /\ registry \in [BrainSlots -> Launches \cup {0}]
    /\ snaps \in [BrainSlots -> Launches \cup {0}] /\ adapters \subseteq BrainSlots
    /\ \A g \in Launches : brain[g].kind \in Kind
         /\ brain[g].st \in {"none", "spawned", "waiting", "polling", "ended"}
    /\ \A s \in BrainSlots : registry[s] # 0 =>
         /\ start[registry[s]].slot = s /\ ~brain[registry[s]].cancelled
         /\ brain[registry[s]].st # "none"

(* Two brains nobody has cancelled never report for one slot, whatever the *)
(* order of launches and stops, as long as no stop of a slot overlapped a  *)
(* start or another stop of it.                                            *)
SlotHasOneBrain ==
    overlaps = 0 => \A g, h \in Launches :
        Live(g) /\ Live(h) /\ start[g].slot = start[h].slot /\ ~brain[g].cancelled /\ ~brain[h].cancelled
        => g = h

(* Once the stops of a slot are over and it is free, nothing of its brain  *)
(* is left in the registries: not even the terminal update of a brain that *)
(* ended late may put its snapshot back for the frontend to rehydrate.     *)
StoppedSlotIsSilent ==
    overlaps = 0 => \A s \in BrainSlots :
        engine[s] = 0 /\ leaving.pc = "idle"
        => registry[s] = 0 /\ snaps[s] = 0 /\ s \notin adapters
           /\ \A g \in Launches : start[g].slot = s => ~Live(g)

(* A polling brain of a running engine is found by the meter commands: its *)
(* slot's snapshot is its own and its adapter is registered, although the  *)
(* tail of the stop before it removes both by slot number.                 *)
RunningBrainIsFound ==
    overlaps = 0 => \A s \in BrainSlots :
        LET g == engine[s] IN
        g # 0 /\ ~shuttingDown /\ Stopping(s) = {} /\ brain[g].st \in {"waiting", "polling"}
        => snaps[s] = g /\ registry[s] = g /\ (brain[g].kind = "Poll" => s \in adapters)

(* The brains are right about their slots, whatever the interleaving. *)
BrainsInv == BrainsTypeOK /\ SlotHasOneBrain /\ StoppedSlotIsSilent /\ RunningBrainIsFound

(* A stop returns although the brain may hang in a read of its poll; and,   *)
(* whatever overlapped, also a start that inserts after the drain, once the *)
(* application leaves every polling brain that is not stuck in a read ends. *)
StopReturns == \A k \in Stoppers : (stop[k].pc = "await") ~> (stop[k].pc = "done")
PollBrainsLeave ==
    shuttingDown ~> [](\A g \in Launches : brain[g].kind = "Poll" => brain[g].st \notin {"spawned", "waiting"})
BrainsEnd == StopReturns /\ PollBrainsLeave

(* Never start a brain for a slot that no longer belongs to its launch. *)
NoForeignBrain ==
    [][\A g \in Launches : brain[g].st = "none" /\ brain'[g].st = "spawned" => engine[start[g].slot] = g]_brainVars
=============================================================================
