------------------------- MODULE EngineStackProofs -------------------------
(***************************************************************************)
(* Proofs about EngineStack, for every number of slots, ports, launches,   *)
(* stops and sweeps.  StackInv is inductive; its five parts are proved one *)
(* after the other: types, then what a step may do to the slots            *)
(* (SlotStep), then owners and pids, tokens, spawned processes.            *)
(***************************************************************************)
EXTENDS EngineStack, TLAPS

\* The initial state is well typed.
LEMMA TypeInit == Init => TypeOK
<1>1. Vacant \in SlotRecs
  BY StackAssumption DEF Vacant, SlotRecs, Token0
<1>2. [Returned EXCEPT !.pc = "alias"] \in LaunchRecs
  <2>1. Returned \in LaunchRecs
    BY StackAssumption DEF Returned, LaunchRecs, LaunchPcs, Token0
  <2>. QED
    BY <2>1 DEF LaunchRecs, LaunchPcs
<1>3. [pc |-> "off", took |-> 0] \in CleanupRecs
  BY StackAssumption DEF CleanupRecs, CleanupPcs, Token0
<1>4. [slot |-> NoSlot, port |-> 0] \in AttemptRecs
  BY DEF AttemptRecs
<1>5. [pc |-> "idle", todo |-> {}, pid |-> 0] \in StopRecs
  BY StackAssumption DEF StopRecs, Token0
<1>6. [pc |-> "idle", kind |-> "all", todo |-> {}, pids |-> {}] \in SweepRecs
  BY DEF SweepRecs
<1>7. 1 \in 1..(MaxRes + 1) /\ 0 \in Token0
  BY StackAssumption DEF Token0
<1>. QED
  BY <1>1, <1>2, <1>3, <1>4, <1>5, <1>6, <1>7 DEF Init, TypeOK

\* clear_slot on any set of slots keeps slots, locks and dropped well typed.
LEMMA ClearSlotsType ==
    ASSUME TypeOK, NEW S, ClearSlots(S)
    PROVE  /\ slot' \in [Slots -> SlotRecs]
           /\ lock' \in [Ports -> Token0]
           /\ dropped' \subseteq Tokens
<1>1. Vacant \in SlotRecs
  BY StackAssumption DEF Vacant, SlotRecs, Token0
<1>2. 0 \in Token0
  BY StackAssumption DEF Token0
<1>. QED
  BY <1>1, <1>2 DEF TypeOK, ClearSlots

\* Starting kills keeps the set of processes being killed well typed.
LEMMA StartKillType ==
    ASSUME TypeOK, NEW K, StartKill(K)
    PROVE  killing' \subseteq Tokens
  BY DEF TypeOK, StartKill

\* Taking the Child out of a slot, as stop and both cleanups do, keeps its type.
LEMMA ChildTakenType ==
    ASSUME TypeOK, NEW s, slot' = [slot EXCEPT ![s].child = 0]
    PROVE  slot' \in [Slots -> SlotRecs]
<1>1. \A r \in Slots : [slot[r] EXCEPT !.child = 0] \in SlotRecs
  BY StackAssumption DEF TypeOK, SlotRecs, Token0
<1>. QED
  BY <1>1 DEF TypeOK

\* A launch that goes to another control point keeps its type.
LEMMA GotoType ==
    ASSUME TypeOK, NEW l \in Launches, NEW pc \in LaunchPcs, Goto(l, pc)
    PROVE  launch' \in [Launches -> LaunchRecs]
  BY DEF TypeOK, Goto, LaunchRecs

\* A launch that returns an error keeps its type.
LEMMA ReturnType ==
    ASSUME TypeOK, NEW l \in Launches, Return(l)
    PROVE  launch' \in [Launches -> LaunchRecs]
<1>1. Returned \in LaunchRecs
  BY StackAssumption DEF Returned, LaunchRecs, LaunchPcs, Token0
<1>. QED
  BY <1>1 DEF TypeOK, Return

\* reserve_slot hands out a token within the bound and a well-typed record.
LEMMA ReserveForType ==
    ASSUME TypeOK, NEW l \in Launches, NEW s \in Slots \cup {NoSlot}, NEW p \in Ports \cup {0},
           NEW a \in 0..MaxAlias, NEW r \in BOOLEAN, ReserveFor(l, s, p, a, r)
    PROVE  /\ slot' \in [Slots -> SlotRecs]
           /\ attempt' \in [Tokens -> AttemptRecs]
           /\ nextRes' \in 1..(MaxRes + 1)
           /\ launch' \in [Launches -> LaunchRecs]
<1>1. nextRes \in Tokens /\ nextRes \in Token0 /\ nextRes' \in 1..(MaxRes + 1)
  BY StackAssumption DEF ReserveFor, Tokens, Token0, TypeOK
<1>2. [status |-> "Loading", res |-> nextRes, pid |-> 0, child |-> 0, port |-> p, alias |-> a,
       known |-> FALSE] \in SlotRecs
  BY <1>1, StackAssumption DEF SlotRecs, Token0
<1>3. [slot |-> s, port |-> p] \in AttemptRecs
  BY DEF AttemptRecs
<1>4. [pc |-> IF r THEN "unready" ELSE "reclaim", slot |-> s, port |-> p, alias |-> a,
       tok |-> nextRes, retried |-> r] \in LaunchRecs
  BY <1>1 DEF LaunchRecs, LaunchPcs
<1>. QED
  BY <1>1, <1>2, <1>3, <1>4 DEF ReserveFor, TypeOK

\* Every step of a launch call keeps the types of all it changes.
LEMMA LaunchType ==
    ASSUME TypeOK, NEW l \in Launches, LaunchStep(l)
    PROVE  TypeOK'
<1>. USE DEF TypeOK
<1>1. CASE ResolveAlias(l)
  <2>1. launch' \in [Launches -> LaunchRecs]
    <3>1. CASE Return(l)
      BY <3>1, ReturnType
    <3>2. CASE \E a \in Aliases : launch' = [launch EXCEPT ![l].alias = a, ![l].pc = "reserve"]
      <4>1. PICK a \in Aliases : launch' = [launch EXCEPT ![l].alias = a, ![l].pc = "reserve"]
        BY <3>2
      <4>2. a \in 0..MaxAlias
        BY StackAssumption DEF Aliases
      <4>. QED
        <5>1. [launch[l] EXCEPT !.alias = a, !.pc = "reserve"] \in LaunchRecs
          BY <4>2 DEF LaunchRecs, LaunchPcs
        <5>2. launch' = [launch EXCEPT ![l] = [launch[l] EXCEPT !.alias = a, !.pc = "reserve"]]
          BY <4>1
        <5>. QED
          BY <5>1, <5>2
    <3>. QED
      BY <1>1, <3>1, <3>2 DEF ResolveAlias
  <2>. QED
    BY <1>1, <2>1 DEF ResolveAlias
<1>2. CASE Reserve(l)
  BY <1>2, ReturnType, ReserveForType DEF Reserve, LaunchRecs
<1>3. CASE Reclaim(l)
  BY <1>3, GotoType, StackAssumption DEF Reclaim, LaunchPcs, Token0
<1>4. CASE ClearReady(l)
  BY <1>4, GotoType DEF ClearReady, LaunchPcs
<1>5. CASE Release(l)
  BY <1>5, ReturnType, ClearSlotsType DEF Release
<1>6. CASE CheckReserved(l)
  BY <1>6, ReturnType, GotoType DEF CheckReserved, LaunchPcs
<1>7. CASE Spawn(l)
  BY <1>7, GotoType DEF Spawn, LaunchPcs
<1>8. CASE ClaimPid(l)
  <2>1. slot' \in [Slots -> SlotRecs]
    <3>1. \A s \in Slots : [slot[s] EXCEPT !.pid = launch[l].tok] \in SlotRecs
      BY DEF SlotRecs, LaunchRecs
    <3>2. \/ slot' = slot
          \/ slot' = [s \in Slots |-> IF s = launch[l].slot
                       THEN [slot[s] EXCEPT !.pid = launch[l].tok] ELSE slot[s]]
      BY <1>8 DEF ClaimPid
    <3>. QED
      BY <3>1, <3>2
  <2>2. killing' \subseteq Tokens
    BY <1>8, StartKillType DEF ClaimPid
  <2>3. launch' \in [Launches -> LaunchRecs]
    BY <1>8, GotoType, ReturnType DEF ClaimPid, LaunchPcs
  <2>. QED
    BY <1>8, <2>1, <2>2, <2>3 DEF ClaimPid
<1>9. CASE Track(l)
  BY <1>9, GotoType DEF Track, LaunchPcs, LaunchRecs
<1>10. CASE Settle(l)
  BY <1>10, GotoType DEF Settle, LaunchPcs
<1>11. CASE CrashCheck(l)
  BY <1>11, GotoType, ReturnType DEF CrashCheck, LaunchPcs
<1>12. CASE CrashClear(l)
  BY <1>12, GotoType, ClearSlotsType DEF CrashClear, LaunchPcs
<1>13. CASE Commit(l)
  <2>1. slot' \in [Slots -> SlotRecs]
    <3>1. \A s \in Slots : Loaded(slot[s], launch[l].tok) \in SlotRecs
      BY DEF SlotRecs, LaunchRecs, Loaded
    <3>2. \/ slot' = slot
          \/ slot' = [s \in Slots |-> IF s = launch[l].slot THEN Loaded(slot[s], launch[l].tok) ELSE slot[s]]
      BY <1>13 DEF Commit
    <3>. QED
      BY <3>1, <3>2
  <2>2. killing' \subseteq Tokens
    BY <1>13, StartKillType DEF Commit
  <2>3. launch' \in [Launches -> LaunchRecs]
    BY <1>13, GotoType, ReturnType DEF Commit, LaunchPcs
  <2>. QED
    BY <1>13, <2>1, <2>2, <2>3 DEF Commit
<1>14. CASE WriteLock(l)
  BY <1>14, GotoType DEF WriteLock, LaunchPcs, LaunchRecs
<1>15. CASE Confirm(l)
  BY <1>15, GotoType, ReturnType, StackAssumption DEF Confirm, LaunchPcs, Token0
<1>16. CASE Retry(l)
  BY <1>16, GotoType DEF Retry, LaunchPcs, LaunchRecs
<1>17. CASE Rereserve(l)
  BY <1>17, GotoType, ReserveForType DEF Rereserve, LaunchPcs, LaunchRecs
<1>. QED
  BY <1>1, <1>2, <1>3, <1>4, <1>5, <1>6, <1>7, <1>8, <1>9, <1>10, <1>11, <1>12, <1>13, <1>14,
     <1>15, <1>16, <1>17 DEF LaunchStep

\* The engine, its reader, its probe and on_ready keep every type.
LEMMA WatcherType ==
    ASSUME TypeOK, TokensKnowTheirSlot, NEW t \in Tokens,
           EngineExits(t) \/ WatcherStep(t) \/ Promote(t) \/ MarkReady(t) \/ Kill(t)
    PROVE  TypeOK'
<1>. USE DEF TypeOK
<1>1. CASE EngineExits(t)
  BY <1>1 DEF EngineExits, Dies
<1>2. CASE FireReady(t)
  BY <1>2 DEF FireReady
<1>3. CASE ReaderFails(t)
  BY <1>3 DEF ReaderFails, ClaimFailure, CleanupRecs, CleanupPcs
<1>4. CASE Promote(t)
  BY <1>4 DEF Promote, SlotRecs
<1>5. CASE MarkReady(t)
  BY <1>5 DEF MarkReady, TokensKnowTheirSlot, Attended
<1>6. CASE Kill(t)
  BY <1>6 DEF Kill, Dies
<1>. QED
  BY <1>1, <1>2, <1>3, <1>4, <1>5, <1>6 DEF WatcherStep

\* The reaper, the two cleanup paths and the kills keep every type.
LEMMA CleanupType ==
    ASSUME TypeOK, TokensKnowTheirSlot, NEW t \in Tokens, ReaperStep(t) \/ FailerStep(t)
    PROVE  TypeOK'
<1>. USE DEF TypeOK
<1>. DEFINE Idler == [pc |-> "off", took |-> 0]
<1>0. Idler \in CleanupRecs
  BY StackAssumption DEF CleanupRecs, CleanupPcs, Token0
<1>1. CASE ReaperWakes(t)
  BY <1>1 DEF ReaperWakes, CleanupRecs, CleanupPcs
<1>2. CASE ReaperFails(t)
  BY <1>2 DEF ReaperFails, ClaimFailure, CleanupRecs, CleanupPcs
<1>3. CASE CrashRecheck(t)
  BY <1>3 DEF CrashRecheck, CleanupRecs, CleanupPcs
<1>4. CASE CrashTake(t)
  <2>1. Home(t) \in Slots
    BY <1>4 DEF CrashTake, TokensKnowTheirSlot, Attended
  <2>2. [pc |-> "clear", took |-> slot[Home(t)].child] \in CleanupRecs
    BY <2>1 DEF CleanupRecs, CleanupPcs, SlotRecs
  <2>3. reaper' \in [Tokens -> CleanupRecs]
    BY <1>4, <2>2 DEF CrashTake
  <2>4. slot' \in [Slots -> SlotRecs]
    BY <1>4, ChildTakenType DEF CrashTake
  <2>. QED
    BY <1>4, <2>3, <2>4 DEF CrashTake
<1>5. CASE CrashVacate(t)
  <2>1. reaper' \in [Tokens -> CleanupRecs]
    BY <1>5, <1>0 DEF CrashVacate
  <2>. QED
    BY <1>5, <2>1, ClearSlotsType, StartKillType DEF CrashVacate
<1>6. CASE FailRecheck(t)
  BY <1>6 DEF FailRecheck, CleanupRecs, CleanupPcs
<1>7. CASE FailTake(t)
  <2>1. Home(t) \in Slots
    BY <1>7 DEF FailTake, TokensKnowTheirSlot, Attended
  <2>2. [pc |-> "clear", took |-> slot[Home(t)].child] \in CleanupRecs
    BY <2>1 DEF CleanupRecs, CleanupPcs, SlotRecs
  <2>3. failer' \in [Tokens -> CleanupRecs]
    BY <1>7, <2>2 DEF FailTake
  <2>4. slot' \in [Slots -> SlotRecs]
    BY <1>7, ChildTakenType DEF FailTake
  <2>. QED
    BY <1>7, <2>3, <2>4 DEF FailTake
<1>8. CASE FailClear(t)
  <2>1. failer' \in [Tokens -> CleanupRecs]
    BY <1>8, <1>0 DEF FailClear
  <2>. QED
    BY <1>8, <2>1, ClearSlotsType, StartKillType DEF FailClear
<1>. QED
  BY <1>1, <1>2, <1>3, <1>4, <1>5, <1>6, <1>7, <1>8 DEF ReaperStep, FailerStep

\* stop_engine_slot and stop_engine keep every type.
LEMMA StopType ==
    ASSUME TypeOK, NEW x \in Stops, StopRequest(x) \/ StopStep(x)
    PROVE  TypeOK'
<1>. USE DEF TypeOK
<1>1. CASE StopRequest(x)
  <2>1. PICK S \in SUBSET Slots : stop' = [stop EXCEPT ![x].pc = "take", ![x].todo = S]
    BY <1>1, Zenon DEF StopRequest
  <2>2. stop' \in [Stops -> StopRecs]
    BY <2>1 DEF StopRecs
  <2>. QED
    BY <1>1, <2>2 DEF StopRequest
<1>2. CASE StopTake(x)
  <2>1. PICK s \in Slots : /\ stop' = [stop EXCEPT ![x].pc = "clear", ![x].pid = slot[s].pid]
                           /\ slot' = [slot EXCEPT ![s].child = 0]
    BY <1>2 DEF StopTake, Least, StopRecs
  <2>2. stop' \in [Stops -> StopRecs]
    BY <2>1 DEF StopRecs, SlotRecs
  <2>3. slot' \in [Slots -> SlotRecs]
    BY <2>1, ChildTakenType
  <2>. QED
    BY <1>2, <2>2, <2>3 DEF StopTake
<1>3. CASE StopClear(x)
  <2>1. PICK s \in Slots : /\ ClearSlots({s}) /\ StartKill({stop[x].pid})
                           /\ stop' = [stop EXCEPT ![x] =
                                [pc |-> IF stop[x].todo = {s} THEN "done" ELSE "take",
                                 todo |-> stop[x].todo \ {s}, pid |-> 0]]
    BY <1>3 DEF StopClear, Least, StopRecs
  <2>2. [pc |-> IF stop[x].todo = {s} THEN "done" ELSE "take",
         todo |-> stop[x].todo \ {s}, pid |-> 0] \in StopRecs
    BY StackAssumption DEF StopRecs, Token0
  <2>3. stop' \in [Stops -> StopRecs]
    BY <2>1, <2>2
  <2>. QED
    BY <1>3, <2>1, <2>3, ClearSlotsType, StartKillType DEF StopClear
<1>. QED
  BY <1>1, <1>2, <1>3 DEF StopStep

\* Stop-all, the two calls by provider and app exit keep every type.
LEMMA SweepType ==
    ASSUME TypeOK, NEW y \in Sweeps, SweepCollect(y) \/ SweepStep(y)
    PROVE  TypeOK'
<1>. USE DEF TypeOK
<1>1. CASE SweepCollect(y)
  <2>. DEFINE T(k) == {s \in Slots : ~Idle(s) /\ (k \in {"provider", "profile"} => slot[s].known)}
              P(k) == {slot[s].pid : s \in T(k)} \ {0}
  <2>1. PICK k \in SweepKinds :
          /\ sweep' = [sweep EXCEPT ![y] = [pc |-> "clear", kind |-> k, todo |-> T(k),
                                             pids |-> P(k)]]
          /\ slot' = [s \in Slots |-> IF s \in T(k) THEN [slot[s] EXCEPT !.child = 0] ELSE slot[s]]
    BY <1>1, Zenon DEF SweepCollect
  <2>2. P(k) \in SUBSET Tokens
    <3>1. \A s \in Slots : slot[s].pid \in Token0
      BY DEF SlotRecs
    <3>2. Token0 \ {0} \subseteq Tokens
      BY StackAssumption DEF Token0, Tokens
    <3>. QED
      BY <3>1, <3>2
  <2>3. T(k) \in SUBSET Slots
    OBVIOUS
  <2>4. [pc |-> "clear", kind |-> k, todo |-> T(k), pids |-> P(k)] \in SweepRecs
    <3>. HIDE DEF T, P
    <3>. QED
      BY <2>2, <2>3, StackAssumption DEF SweepRecs
  <2>5. sweep' \in [Sweeps -> SweepRecs]
    <3>. HIDE DEF T, P
    <3>. QED
      BY <2>1, <2>4
  <2>6. \A s \in Slots : [slot[s] EXCEPT !.child = 0] \in SlotRecs
    BY StackAssumption DEF SlotRecs, Token0
  <2>7. slot' \in [Slots -> SlotRecs]
    <3>. HIDE DEF T
    <3>. QED
      BY <2>1, <2>6
  <2>. QED
    BY <1>1, <2>5, <2>7 DEF SweepCollect
<1>2. CASE SweepClear(y)
  <2>1. sweep' \in [Sweeps -> SweepRecs]
    BY <1>2 DEF SweepClear, SweepRecs
  <2>. QED
    BY <1>2, <2>1, ClearSlotsType, StartKillType DEF SweepClear
<1>3. CASE SweepDone(y)
  <2>1. sweep' \in [Sweeps -> SweepRecs]
    BY <1>3 DEF SweepDone, SweepRecs
  <2>2. exited' \in BOOLEAN /\ proc' \in [Tokens -> {"none", "up", "dead"}]
    BY <1>3 DEF SweepDone
  <2>. QED
    BY <1>3, <2>1, <2>2 DEF SweepDone
<1>. QED
  BY <1>1, <1>2, <1>3 DEF SweepStep

\* Every step of the stack keeps every type.
LEMMA TypeStep == TypeOK /\ TokensKnowTheirSlot /\ [Next]_vars => TypeOK'
<1>1. CASE UNCHANGED vars
  BY <1>1 DEF vars, TypeOK
<1>. QED
  BY <1>1, LaunchType, WatcherType, CleanupType, StopType, SweepType DEF Next, WatcherStep

-----------------------------------------------------------------------------
(* What a step does to the slots, the launch calls and the processes *)

Start == {"alias", "reserve", "done"}

Reserving(l, s) ==
    /\ Idle(s) /\ nextRes \in Tokens
    /\ \E p \in Ports \cup {0}, a \in 0..MaxAlias :
         /\ slot' = [slot EXCEPT ![s] = [status |-> "Loading", res |-> nextRes, pid |-> 0,
                        child |-> 0, port |-> p, alias |-> a, known |-> FALSE]]
         /\ attempt' = [attempt EXCEPT ![nextRes] = [slot |-> s, port |-> p]]
    /\ nextRes' = nextRes + 1
    /\ \A m \in Launches : m # l => launch'[m] = launch[m]
    /\ launch'[l].pc \in {"unready", "reclaim"}
    /\ launch'[l].tok = nextRes /\ launch'[l].slot = s

Claiming(l) ==
    LET s == launch[l].slot IN
    /\ launch[l].pc = "claim" /\ slot[s].res = launch[l].tok
    /\ slot' = [slot EXCEPT ![s].pid = launch[l].tok]

Committing(l) ==
    LET s == launch[l].slot IN
    /\ slot[s].pid = launch[l].tok
    /\ slot' = [slot EXCEPT ![s] = Loaded(slot[s], launch[l].tok)]

Promoting(t) ==
    /\ t \in promoting /\ Owns(t) /\ slot[Home(t)].status = "Loading"
    /\ slot' = [slot EXCEPT ![Home(t)].status = "Running"]

Unhanding(S) ==
    slot' = [s \in Slots |-> IF s \in S THEN [slot[s] EXCEPT !.child = 0] ELSE slot[s]]

Vacating(S) == slot' = [s \in Slots |-> IF s \in S THEN Vacant ELSE slot[s]]

Frame == nextRes' = nextRes /\ attempt' = attempt

SlotStep ==
    \/ slot' = slot /\ Frame
    \/ \E l \in Launches, s \in Slots : Reserving(l, s)
    \/ \E l \in Launches : (Claiming(l) \/ Committing(l)) /\ Frame
    \/ \E t \in Tokens : Promoting(t) /\ Frame
    \/ \E S \in SUBSET Slots : (Unhanding(S) \/ Vacating(S)) /\ Frame

\* What clear_slot does to the slots is to vacate some of them.
LEMMA ClearSlotsVacates ==
    ASSUME NEW S, ClearSlots(S)
    PROVE  \E V \in SUBSET Slots : Vacating(V)
<1>1. Vacating(S \cap Slots)
  BY DEF ClearSlots, Vacating
<1>. QED
  BY <1>1

\* Taking a Child changes nothing but the Child field of one slot.
LEMMA ChildTakenUnhands ==
    ASSUME TypeOK, NEW s, slot' = [slot EXCEPT ![s].child = 0]
    PROVE  \E V \in SUBSET Slots : Unhanding(V)
<1>1. Unhanding({s} \cap Slots)
  BY DEF TypeOK, Unhanding
<1>. QED
  BY <1>1

\* reserve_slot turns one Idle slot into a reservation of the next token.
LEMMA ReserveForReserves ==
    ASSUME TypeOK, NEW l \in Launches, NEW s \in Slots, NEW p \in Ports \cup {0},
           NEW a \in 0..MaxAlias, NEW r \in BOOLEAN, ReserveFor(l, s, p, a, r)
    PROVE  Reserving(l, s)
  BY DEF TypeOK, ReserveFor, Reserving

\* A launch call does to the slots one of the things SlotStep lists.
LEMMA LaunchSlotStep ==
    ASSUME TypeOK, TokensKnowTheirSlot, NEW l \in Launches, LaunchStep(l)
    PROVE  SlotStep
<1>. USE DEF Frame
<1>1. CASE \/ ResolveAlias(l) \/ Reclaim(l) \/ ClearReady(l) \/ CheckReserved(l) \/ Spawn(l)
           \/ Track(l) \/ Settle(l) \/ CrashCheck(l) \/ WriteLock(l) \/ Confirm(l) \/ Retry(l)
  <2>1. slot' = slot /\ Frame
    BY <1>1 DEF ResolveAlias, Reclaim, ClearReady, CheckReserved, Spawn, Track, Settle,
       CrashCheck, WriteLock, Confirm, Retry
  <2>. QED
    BY <2>1 DEF SlotStep
<1>2. CASE Reserve(l)
  <2>1. launch[l].alias \in 0..MaxAlias
    BY DEF TypeOK, LaunchRecs
  <2>2. \/ \E s \in Slots, p \in Ports : ReserveFor(l, s, p, launch[l].alias, FALSE)
        \/ slot' = slot /\ Frame
    BY <1>2 DEF Reserve
  <2>. QED
    BY <2>1, <2>2, ReserveForReserves DEF SlotStep
<1>3. CASE Rereserve(l)
  <2>1. launch[l].alias \in 0..MaxAlias /\ launch[l].port \in Ports \cup {0} /\ launch[l].slot \in Slots
    BY <1>3 DEF TypeOK, LaunchRecs, TokensKnowTheirSlot, Rereserve, At
  <2>2. \/ ReserveFor(l, launch[l].slot, launch[l].port, launch[l].alias, TRUE)
        \/ slot' = slot /\ Frame
    BY <1>3 DEF Rereserve
  <2>. QED
    BY <2>1, <2>2, ReserveForReserves DEF SlotStep
<1>4. CASE Release(l) \/ CrashClear(l)
  <2>1. \E S : ClearSlots(S)
    BY <1>4 DEF Release, CrashClear
  <2>2. Frame
    BY <1>4 DEF Release, CrashClear
  <2>. QED
    BY <2>1, <2>2, ClearSlotsVacates DEF SlotStep
<1>5. CASE ClaimPid(l)
  <2>1. Frame /\ (slot' = slot \/ Claiming(l))
    BY <1>5 DEF ClaimPid, Claiming, At
  <2>. QED
    BY <2>1 DEF SlotStep
<1>6. CASE Commit(l)
  <2>1. Frame /\ (slot' = slot \/ Committing(l))
    BY <1>6 DEF Commit, Committing
  <2>. QED
    BY <2>1 DEF SlotStep
<1>. QED
  BY <1>1, <1>2, <1>3, <1>4, <1>5, <1>6 DEF LaunchStep

\* So do the background tasks,
LEMMA TaskSlotStep ==
    ASSUME TypeOK, NEW t \in Tokens,
           \/ EngineExits(t) \/ WatcherStep(t) \/ Promote(t) \/ MarkReady(t)
           \/ ReaperStep(t) \/ FailerStep(t) \/ Kill(t)
    PROVE  SlotStep
<1>. USE DEF Frame
<1>1. CASE \/ EngineExits(t) \/ WatcherStep(t) \/ MarkReady(t) \/ Kill(t) \/ ReaperWakes(t)
           \/ ReaperFails(t) \/ CrashRecheck(t) \/ FailRecheck(t)
  <2>1. slot' = slot /\ Frame
    BY <1>1 DEF EngineExits, WatcherStep, FireReady, ReaderFails, MarkReady, Kill, ReaperWakes,
       ReaperFails, CrashRecheck, FailRecheck
  <2>. QED
    BY <2>1 DEF SlotStep
<1>2. CASE Promote(t)
  <2>1. Frame /\ (slot' = slot \/ Promoting(t))
    BY <1>2 DEF Promote, Promoting
  <2>. QED
    BY <2>1 DEF SlotStep
<1>3. CASE CrashTake(t) \/ FailTake(t)
  <2>1. Frame /\ \E s : slot' = [slot EXCEPT ![s].child = 0]
    BY <1>3 DEF CrashTake, FailTake
  <2>. QED
    BY <2>1, ChildTakenUnhands DEF SlotStep
<1>4. CASE CrashVacate(t) \/ FailClear(t)
  <2>1. Frame /\ \E S : ClearSlots(S)
    BY <1>4 DEF CrashVacate, FailClear
  <2>. QED
    BY <2>1, ClearSlotsVacates DEF SlotStep
<1>. QED
  BY <1>1, <1>2, <1>3, <1>4 DEF ReaperStep, FailerStep

\* the stop and sweep calls,
LEMMA StopSlotStep ==
    ASSUME TypeOK,
           \/ \E x \in Stops : StopRequest(x) \/ StopStep(x)
           \/ \E y \in Sweeps : SweepCollect(y) \/ SweepStep(y)
    PROVE  SlotStep
<1>. USE DEF Frame
<1>1. ASSUME NEW x \in Stops, StopRequest(x)
      PROVE  SlotStep
  BY <1>1 DEF StopRequest, SlotStep
<1>2. ASSUME NEW x \in Stops, StopTake(x)
      PROVE  SlotStep
  <2>1. Frame /\ \E s : slot' = [slot EXCEPT ![s].child = 0]
    BY <1>2 DEF StopTake
  <2>. QED
    BY <2>1, ChildTakenUnhands DEF SlotStep
<1>3. ASSUME NEW x \in Stops, StopClear(x)
      PROVE  SlotStep
  <2>1. Frame /\ \E S : ClearSlots(S)
    BY <1>3 DEF StopClear
  <2>. QED
    BY <2>1, ClearSlotsVacates DEF SlotStep
<1>4. ASSUME NEW y \in Sweeps, SweepCollect(y)
      PROVE  SlotStep
  <2>1. Frame /\ \E S \in SUBSET Slots : Unhanding(S)
    BY <1>4, Zenon DEF SweepCollect, Unhanding
  <2>. QED
    BY <2>1 DEF SlotStep
<1>5. ASSUME NEW y \in Sweeps, SweepClear(y)
      PROVE  SlotStep
  <2>1. Frame /\ \E S : ClearSlots(S)
    BY <1>5 DEF SweepClear
  <2>. QED
    BY <2>1, ClearSlotsVacates DEF SlotStep
<1>6. ASSUME NEW y \in Sweeps, SweepDone(y)
      PROVE  SlotStep
  BY <1>6 DEF SweepDone, SlotStep
<1>. QED
  BY <1>1, <1>2, <1>3, <1>4, <1>5, <1>6 DEF StopStep, SweepStep

\* and every step of the stack.
LEMMA NextSlotStep == TypeOK /\ TokensKnowTheirSlot /\ [Next]_vars => SlotStep
<1>1. CASE UNCHANGED vars
  BY <1>1 DEF vars, SlotStep, Frame
<1>. QED
  BY <1>1, LaunchSlotStep, TaskSlotStep, StopSlotStep DEF Next

-----------------------------------------------------------------------------
(* Each slot keeps to its owner's process *)

\* Each of the things that may happen to the slots keeps them with their owner's process.
LEMMA OwnStep ==
    ASSUME TypeOK, SlotOwnsItsProcess, TokensKnowTheirSlot, SlotStep
    PROVE  SlotOwnsItsProcess'
<1>0. /\ \A s \in Slots : slot[s].res \in Nat /\ slot[s].pid \in Nat /\ slot[s].child \in Nat
      /\ nextRes \in Nat \ {0}
  BY StackAssumption DEF TypeOK, SlotRecs, Token0
<1>1. CASE slot' = slot
  BY <1>1 DEF SlotOwnsItsProcess, Idle
<1>2. ASSUME NEW l \in Launches, NEW s \in Slots, Reserving(l, s)
      PROVE  SlotOwnsItsProcess'
  <2>1. \A r \in Slots : r # s => slot'[r] = slot[r]
    BY <1>2 DEF Reserving, TypeOK
  <2>2. /\ slot'[s].status = "Loading" /\ slot'[s].res = nextRes
        /\ slot'[s].pid = 0 /\ slot'[s].child = 0
    BY <1>2 DEF Reserving, TypeOK
  <2>3. \A r \in Slots : slot[r].res # nextRes
    <3>1. \A r \in Slots : Idle(r) => slot[r].res = 0
      BY DEF SlotOwnsItsProcess
    <3>2. \A r \in Slots : ~Idle(r) => slot[r].res < nextRes
      BY DEF TokensKnowTheirSlot
    <3>3. \A n \in Nat : n < nextRes => n # nextRes
      BY <1>0
    <3>4. 0 # nextRes
      BY <1>0
    <3>. QED
      BY <1>0, <3>1, <3>2, <3>3, <3>4, Zenon
  <2>. QED
    BY <1>0, <2>1, <2>2, <2>3 DEF SlotOwnsItsProcess, Idle
<1>3. ASSUME NEW l \in Launches, Claiming(l)
      PROVE  SlotOwnsItsProcess'
  <2>1. \A r \in Slots : /\ slot'[r].status = slot[r].status /\ slot'[r].res = slot[r].res
                          /\ slot'[r].child = slot[r].child
                          /\ slot'[r].pid \in {slot[r].pid, slot[r].res}
    BY <1>3 DEF Claiming, TypeOK, SlotRecs
  <2>. QED
    BY <1>0, <2>1 DEF SlotOwnsItsProcess, Idle
<1>4. ASSUME NEW l \in Launches, Committing(l)
      PROVE  SlotOwnsItsProcess'
  <2>1. \A r \in Slots : /\ slot'[r].status = slot[r].status /\ slot'[r].res = slot[r].res
                          /\ slot'[r].pid = slot[r].pid
                          /\ slot'[r].child \in {slot[r].child, slot[r].pid}
    BY <1>4 DEF Committing, Loaded, TypeOK
  <2>. QED
    BY <1>0, <2>1 DEF SlotOwnsItsProcess, Idle
<1>5. ASSUME NEW t \in Tokens, Promoting(t)
      PROVE  SlotOwnsItsProcess'
  <2>1. \A r \in Slots : /\ \/ slot'[r].status = slot[r].status
                            \/ slot[r].status = "Loading" /\ slot'[r].status = "Running"
                          /\ slot'[r].res = slot[r].res /\ slot'[r].pid = slot[r].pid
                          /\ slot'[r].child = slot[r].child
    <3>1. \A r \in Slots : r # Home(t) => slot'[r] = slot[r]
      BY <1>5 DEF Promoting, TypeOK
    <3>2. Home(t) \in Slots /\ slot[Home(t)].status = "Loading"
      BY <1>5 DEF Promoting, Owns
    <3>3. slot'[Home(t)] = [slot[Home(t)] EXCEPT !.status = "Running"]
      BY <1>5, <3>2 DEF Promoting, TypeOK
    <3>4. slot[Home(t)] \in SlotRecs
      BY <3>2 DEF TypeOK
    <3>5. /\ slot'[Home(t)].status = "Running" /\ slot'[Home(t)].res = slot[Home(t)].res
          /\ slot'[Home(t)].pid = slot[Home(t)].pid /\ slot'[Home(t)].child = slot[Home(t)].child
      BY <3>3, <3>4 DEF SlotRecs
    <3>. QED
      BY <3>1, <3>2, <3>5
  <2>. QED
    BY <1>0, <2>1 DEF SlotOwnsItsProcess, Idle
<1>6. ASSUME NEW S \in SUBSET Slots, Unhanding(S)
      PROVE  SlotOwnsItsProcess'
  <2>1. \A r \in Slots : /\ slot'[r].status = slot[r].status /\ slot'[r].res = slot[r].res
                          /\ slot'[r].pid = slot[r].pid /\ slot'[r].child \in {slot[r].child, 0}
    BY <1>6 DEF Unhanding, TypeOK, SlotRecs
  <2>. QED
    BY <1>0, <2>1 DEF SlotOwnsItsProcess, Idle
<1>7. ASSUME NEW S \in SUBSET Slots, Vacating(S)
      PROVE  SlotOwnsItsProcess'
  <2>1. \A r \in Slots : slot'[r] = slot[r] \/ slot'[r] = Vacant
    BY <1>7 DEF Vacating
  <2>2. Vacant.status = "Idle" /\ Vacant.res = 0 /\ Vacant.pid = 0 /\ Vacant.child = 0
    BY DEF Vacant
  <2>. QED
    BY <2>1, <2>2 DEF SlotOwnsItsProcess, Idle
<1>. QED
  BY <1>1, <1>2, <1>3, <1>4, <1>5, <1>6, <1>7 DEF SlotStep

-----------------------------------------------------------------------------
(* Tokens know their slot *)

\* Launch l moves on with its token and slot, or ends, or has not begun.
KeepsToken(l) ==
    /\ \A m \in Launches : m # l => launch'[m] = launch[m]
    /\ \/ launch'[l].pc \in Start
       \/ /\ launch[l].pc \notin Start
          /\ launch'[l].tok = launch[l].tok /\ launch'[l].slot = launch[l].slot

\* Going to another control point keeps the launch's token and slot.
LEMMA GotoKeepsToken ==
    ASSUME TypeOK, NEW l \in Launches, NEW pc, Goto(l, pc), launch[l].pc \notin Start
    PROVE  KeepsToken(l)
  BY DEF TypeOK, LaunchRecs, Goto, KeepsToken

\* A launch that returns has no token any more.
LEMMA ReturnKeepsToken ==
    ASSUME TypeOK, NEW l \in Launches, Return(l)
    PROVE  KeepsToken(l)
  BY DEF TypeOK, Return, Returned, KeepsToken, Start

\* A step of one launch keeps its own token, or takes the next one, and leaves the
\* other launches alone.
LEMMA LaunchKeepsToken ==
    ASSUME TypeOK, TokensKnowTheirSlot, NEW l \in Launches, LaunchStep(l)
    PROVE  KeepsToken(l) \/ \E s \in Slots : Reserving(l, s)
<1>1. CASE ResolveAlias(l)
  <2>1. CASE Return(l)
    BY <2>1, ReturnKeepsToken
  <2>2. CASE \E a \in Aliases : launch' = [launch EXCEPT ![l].alias = a, ![l].pc = "reserve"]
    BY <2>2 DEF TypeOK, LaunchRecs, KeepsToken, Start
  <2>. QED
    BY <1>1, <2>1, <2>2 DEF ResolveAlias
<1>2. CASE Reserve(l)
  <2>1. launch[l].alias \in 0..MaxAlias
    BY DEF TypeOK, LaunchRecs
  <2>2. \/ \E s \in Slots, p \in Ports : ReserveFor(l, s, p, launch[l].alias, FALSE)
        \/ Return(l)
    BY <1>2 DEF Reserve
  <2>. QED
    BY <2>1, <2>2, ReserveForReserves, ReturnKeepsToken
<1>3. CASE Rereserve(l)
  <2>1. /\ launch[l].alias \in 0..MaxAlias /\ launch[l].port \in Ports \cup {0}
        /\ launch[l].slot \in Slots /\ launch[l].pc \notin Start
    BY <1>3 DEF TypeOK, LaunchRecs, TokensKnowTheirSlot, Rereserve, At, Start
  <2>2. \/ ReserveFor(l, launch[l].slot, launch[l].port, launch[l].alias, TRUE)
        \/ Goto(l, "release")
    BY <1>3 DEF Rereserve
  <2>. QED
    BY <2>1, <2>2, ReserveForReserves, GotoKeepsToken
<1>4. CASE Retry(l)
  <2>1. launch[l].pc \notin Start
    BY <1>4 DEF Retry, At, Start
  <2>2. \/ \E pc : Goto(l, pc)
        \/ launch' = [launch EXCEPT ![l].pc = "unready", ![l].retried = TRUE]
    BY <1>4 DEF Retry
  <2>3. CASE launch' = [launch EXCEPT ![l].pc = "unready", ![l].retried = TRUE]
    BY <2>1, <2>3 DEF TypeOK, LaunchRecs, KeepsToken
  <2>. QED
    BY <2>1, <2>2, <2>3, GotoKeepsToken
<1>5. CASE \/ Reclaim(l) \/ ClearReady(l) \/ Release(l) \/ CheckReserved(l) \/ Spawn(l)
           \/ ClaimPid(l) \/ Track(l)
  <2>1. launch[l].pc \notin Start
    BY <1>5 DEF Reclaim, ClearReady, Release, CheckReserved, Spawn, ClaimPid, Track, At, Start
  <2>2. (\E pc : Goto(l, pc)) \/ Return(l)
    BY <1>5 DEF Reclaim, ClearReady, Release, CheckReserved, Spawn, ClaimPid, Track
  <2>. QED
    BY <2>1, <2>2, GotoKeepsToken, ReturnKeepsToken
<1>6. CASE \/ Settle(l) \/ CrashCheck(l) \/ CrashClear(l) \/ Commit(l) \/ WriteLock(l)
           \/ Confirm(l)
  <2>1. launch[l].pc \notin Start
    BY <1>6 DEF Settle, CrashCheck, CrashClear, Commit, WriteLock, Confirm, At, Start
  <2>2. (\E pc : Goto(l, pc)) \/ Return(l)
    BY <1>6 DEF Settle, CrashCheck, CrashClear, Commit, WriteLock, Confirm
  <2>. QED
    BY <2>1, <2>2, GotoKeepsToken, ReturnKeepsToken
<1>. QED
  BY <1>1, <1>2, <1>3, <1>4, <1>5, <1>6 DEF LaunchStep

\* Every other step leaves the launch calls and the tokens alone.
LEMMA NextLaunchStep ==
    ASSUME TypeOK, TokensKnowTheirSlot, [Next]_vars
    PROVE  \/ launch' = launch /\ Frame
           \/ \E l \in Launches : KeepsToken(l) /\ Frame
           \/ \E l \in Launches, s \in Slots : Reserving(l, s)
<1>1. ASSUME NEW l \in Launches, LaunchStep(l)
      PROVE  (KeepsToken(l) /\ Frame) \/ \E m \in Launches, s \in Slots : Reserving(m, s)
  <2>1. SlotStep
    BY <1>1, LaunchSlotStep
  <2>2. Frame \/ \E m \in Launches, s \in Slots : Reserving(m, s)
    BY <2>1 DEF SlotStep
  <2>3. ~Frame \/ ~ \E s \in Slots : Reserving(l, s)
    BY StackAssumption DEF Frame, Reserving, Tokens
  <2>. QED
    BY <1>1, <2>2, <2>3, LaunchKeepsToken
<1>2. ASSUME NEW t \in Tokens,
             \/ EngineExits(t) \/ WatcherStep(t) \/ Promote(t) \/ MarkReady(t) \/ Kill(t)
             \/ ReaperStep(t) \/ FailerStep(t)
      PROVE  launch' = launch /\ Frame
  BY <1>2 DEF EngineExits, WatcherStep, FireReady, ReaderFails, Promote, MarkReady, Kill,
     ReaperStep, ReaperWakes, ReaperFails, CrashRecheck, CrashTake, CrashVacate, FailerStep,
     FailRecheck, FailTake, FailClear, Frame
<1>3. ASSUME NEW x \in Stops, StopRequest(x) \/ StopStep(x)
      PROVE  launch' = launch /\ Frame
  BY <1>3 DEF StopRequest, StopStep, StopTake, StopClear, Frame
<1>4. ASSUME NEW y \in Sweeps, SweepCollect(y) \/ SweepStep(y)
      PROVE  launch' = launch /\ Frame
  BY <1>4 DEF SweepCollect, SweepStep, SweepClear, SweepDone, Frame
<1>5. CASE UNCHANGED vars
  BY <1>5 DEF vars, Frame
<1>. QED
  BY <1>1, <1>2, <1>3, <1>4, <1>5 DEF Next

\* Background tasks belong to attempts that had their slot when the task began.
LEMMA AttendedStep ==
    ASSUME TypeOK, [Next]_vars, NEW t \in Tokens, Attended(t)'
    PROVE  Attended(t) \/ Owns(t)
<1>. USE DEF Attended, TypeOK
<1>1. ASSUME NEW l \in Launches, LaunchStep(l)
      PROVE  Attended(t)
  BY <1>1 DEF LaunchStep, ResolveAlias, Reserve, Reclaim, ClearReady, Release, CheckReserved,
     Spawn, ClaimPid, Track, Settle, CrashCheck, CrashClear, Commit, WriteLock, Confirm, Retry,
     Rereserve
<1>2. ASSUME NEW u \in Tokens, EngineExits(u) \/ Kill(u)
      PROVE  Attended(t)
  BY <1>2 DEF EngineExits, Kill
<1>3. ASSUME NEW u \in Tokens, WatcherStep(u)
      PROVE  Attended(t) \/ Owns(t)
  BY <1>3 DEF WatcherStep, FireReady, ReaderFails, ClaimFailure
<1>4. ASSUME NEW u \in Tokens, Promote(u) \/ MarkReady(u)
      PROVE  Attended(t)
  BY <1>4 DEF Promote, MarkReady
<1>5. ASSUME NEW u \in Tokens, ReaperWakes(u) \/ ReaperFails(u)
      PROVE  Attended(t) \/ Owns(t)
  BY <1>5 DEF ReaperWakes, ReaperFails, ClaimFailure
<1>6. ASSUME NEW u \in Tokens, CrashRecheck(u) \/ CrashTake(u) \/ CrashVacate(u)
      PROVE  Attended(t)
  BY <1>6 DEF CrashRecheck, CrashTake, CrashVacate
<1>7. ASSUME NEW u \in Tokens, FailerStep(u)
      PROVE  Attended(t)
  BY <1>7 DEF FailerStep, FailRecheck, FailTake, FailClear
<1>8. ASSUME NEW x \in Stops, StopRequest(x) \/ StopStep(x)
      PROVE  Attended(t)
  BY <1>8 DEF StopRequest, StopStep, StopTake, StopClear
<1>9. ASSUME NEW y \in Sweeps, SweepCollect(y) \/ SweepStep(y)
      PROVE  Attended(t)
  BY <1>9 DEF SweepCollect, SweepStep, SweepClear, SweepDone
<1>10. CASE UNCHANGED vars
  BY <1>10 DEF vars
<1>. QED
  BY <1>1, <1>2, <1>3, <1>4, <1>5, <1>6, <1>7, <1>8, <1>9, <1>10 DEF Next, ReaperStep

\* A process once spawned never becomes "none" again, and is spawned by a launch
\* that then stores its pid.
LEMMA ProcStep ==
    ASSUME TypeOK, PidsFollowSpawns, [Next]_vars, NEW t \in Tokens
    PROVE  /\ proc[t] # "none" => proc'[t] # "none"
           /\ proc[t] = "none" /\ proc'[t] # "none" =>
                \E l \in Launches : Spawn(l) /\ launch[l].tok = t
<1>. USE DEF TypeOK
<1>1. ASSUME NEW l \in Launches, Spawn(l)
      PROVE  /\ proc[t] # "none" => proc'[t] # "none"
             /\ proc[t] = "none" /\ proc'[t] # "none" => launch[l].tok = t
  BY <1>1 DEF Spawn
<1>2. ASSUME NEW l \in Launches, LaunchStep(l), ~Spawn(l)
      PROVE  proc' = proc
  BY <1>2 DEF LaunchStep, ResolveAlias, Reserve, Reclaim, ClearReady, Release, CheckReserved,
     ClaimPid, Track, Settle, CrashCheck, CrashClear, Commit, WriteLock, Confirm, Retry, Rereserve
<1>3. ASSUME NEW u \in Tokens, EngineExits(u) \/ Kill(u)
      PROVE  /\ proc[t] # "none" => proc'[t] # "none"
             /\ proc[t] = "none" => proc'[t] = "none"
  <2>1. proc' = [proc EXCEPT ![u] = "dead"]
    BY <1>3 DEF EngineExits, Kill, Dies
  <2>2. CASE EngineExits(u)
    BY <2>1, <2>2 DEF EngineExits, Up
  <2>3. CASE Kill(u)
    BY <2>1, <2>3 DEF Kill, PidsFollowSpawns
  <2>. QED
    BY <1>3, <2>2, <2>3
<1>4. ASSUME NEW u \in Tokens, \/ WatcherStep(u) \/ Promote(u) \/ MarkReady(u)
                               \/ ReaperStep(u) \/ FailerStep(u)
      PROVE  proc' = proc
  BY <1>4 DEF WatcherStep, FireReady, ReaderFails, Promote, MarkReady, ReaperStep, ReaperWakes,
     ReaperFails, CrashRecheck, CrashTake, CrashVacate, FailerStep, FailRecheck, FailTake, FailClear
<1>5. ASSUME NEW x \in Stops, StopRequest(x) \/ StopStep(x)
      PROVE  proc' = proc
  BY <1>5 DEF StopRequest, StopStep, StopTake, StopClear
<1>6. ASSUME NEW y \in Sweeps, SweepCollect(y) \/ SweepClear(y)
      PROVE  proc' = proc
  BY <1>6 DEF SweepCollect, SweepClear
<1>7. ASSUME NEW y \in Sweeps, SweepDone(y)
      PROVE  /\ proc[t] # "none" => proc'[t] # "none"
             /\ proc[t] = "none" => proc'[t] = "none"
  BY <1>7 DEF SweepDone, Up
<1>8. CASE UNCHANGED vars
  BY <1>8 DEF vars
<1>. QED
  BY <1>1, <1>2, <1>3, <1>4, <1>5, <1>6, <1>7, <1>8 DEF Next, StopStep, SweepStep

\* A busy slot was reserved in this very step, or was busy before with the same
\* owner and, unless its launch stored the pid in this step, the same pid.
LEMMA BusySlotStep ==
    ASSUME TypeOK, SlotStep, NEW s \in Slots, slot'[s].status # "Idle"
    PROVE  \/ \E l \in Launches : Reserving(l, s)
           \/ /\ slot[s].status # "Idle" /\ slot'[s].res = slot[s].res
              /\ slot'[s].pid \in {slot[s].pid, slot[s].res}
              /\ \/ slot'[s].pid = slot[s].pid
                 \/ \E l \in Launches : launch[l].pc = "claim" /\ launch[l].tok = slot[s].res
              /\ \/ slot'[s].status = slot[s].status
                 \/ \E t \in promoting : Owns(t) /\ Home(t) = s
<1>0. slot[s] \in SlotRecs
  BY DEF TypeOK
<1>1. CASE slot' = slot
  BY <1>1
<1>2. ASSUME NEW l \in Launches, NEW r \in Slots, Reserving(l, r)
      PROVE  r = s \/ slot'[s] = slot[s]
  BY <1>2 DEF Reserving, TypeOK
<1>3. ASSUME NEW l \in Launches, Claiming(l)
      PROVE  \/ slot'[s] = slot[s]
             \/ /\ slot'[s].status = slot[s].status /\ slot'[s].res = slot[s].res
                /\ slot'[s].pid = slot[s].res
                /\ launch[l].pc = "claim" /\ launch[l].tok = slot[s].res
  BY <1>0, <1>3 DEF Claiming, TypeOK, SlotRecs
<1>4. ASSUME NEW l \in Launches, Committing(l)
      PROVE  \/ slot'[s] = slot[s]
             \/ /\ slot'[s].status = slot[s].status /\ slot'[s].res = slot[s].res
                /\ slot'[s].pid = slot[s].pid
  BY <1>4 DEF Committing, Loaded, TypeOK
<1>5. ASSUME NEW t \in Tokens, Promoting(t)
      PROVE  \/ slot'[s] = slot[s]
             \/ /\ slot[s].status = "Loading" /\ slot'[s].res = slot[s].res
                /\ slot'[s].pid = slot[s].pid
                /\ t \in promoting /\ Owns(t) /\ Home(t) = s
  BY <1>0, <1>5 DEF Promoting, TypeOK, SlotRecs
<1>6. ASSUME NEW S \in SUBSET Slots, Unhanding(S)
      PROVE  /\ slot'[s].status = slot[s].status /\ slot'[s].res = slot[s].res
             /\ slot'[s].pid = slot[s].pid
  BY <1>0, <1>6 DEF Unhanding, SlotRecs
<1>7. ASSUME NEW S \in SUBSET Slots, Vacating(S)
      PROVE  slot'[s] = slot[s]
  BY <1>7 DEF Vacating, Vacant
<1>. QED
  BY <1>1, <1>2, <1>3, <1>4, <1>5, <1>6, <1>7 DEF SlotStep

\* What survives a step of the slots: owners, homes and the order of tokens.
LEMMA TokensStep ==
    ASSUME TypeOK, TypeOK', SlotOwnsItsProcess, SlotOwnsItsProcess', TokensKnowTheirSlot,
           PidsFollowSpawns, [Next]_vars
    PROVE  TokensKnowTheirSlot'
<1>. DEFINE Known == \A s \in Slots : ~Idle(s) => slot[s].res < nextRes /\ Home(slot[s].res) = s
            Held  == \A l \in Launches : launch[l].pc \notin Start =>
                        /\ launch[l].tok \in 1..(nextRes - 1)
                        /\ launch[l].slot \in Slots /\ launch[l].slot = Home(launch[l].tok)
            Homed == \A t \in Tokens : Attended(t) => t < nextRes /\ Home(t) \in Slots
            Fresh == \A t \in Tokens : t >= nextRes => proc[t] = "none"
<1>0. Known /\ Held /\ Homed /\ Fresh
  BY DEF TokensKnowTheirSlot, Start
<1>1. SlotStep
  BY NextSlotStep
<1>2. nextRes \in Nat /\ \A t \in Tokens : t \in Nat
  BY StackAssumption DEF TypeOK, Tokens
<1>3. /\ nextRes' >= nextRes
      /\ \A t \in Tokens : t < nextRes => attempt'[t] = attempt[t]
  BY <1>1, <1>2 DEF SlotStep, Frame, Reserving, TypeOK
<1>a. ASSUME NEW l \in Launches, NEW s \in Slots, Reserving(l, s)
      PROVE  /\ slot'[s].res = nextRes /\ nextRes' = nextRes + 1
             /\ attempt'[nextRes].slot = s /\ nextRes \in Tokens
  BY <1>a DEF Reserving, TypeOK
<1>4. Known'
  <2>. SUFFICES ASSUME NEW s \in Slots, ~Idle(s)'
                PROVE  slot'[s].res < nextRes' /\ attempt'[slot'[s].res].slot = s
    BY DEF Home
  <2>1. CASE \E l \in Launches : Reserving(l, s)
    BY <2>1, <1>a, <1>2
  <2>2. CASE slot[s].status # "Idle" /\ slot'[s].res = slot[s].res
    <3>1. slot[s].res < nextRes /\ Home(slot[s].res) = s
      BY <1>0, <2>2 DEF Idle
    <3>2. slot[s].res \in Tokens
      BY <2>2 DEF SlotOwnsItsProcess, Idle, TypeOK, SlotRecs, Token0, Tokens
    <3>. QED
      BY <1>2, <1>3, <2>2, <3>1, <3>2 DEF Home, TypeOK
  <2>. QED
    BY <1>1, <2>1, <2>2, BusySlotStep DEF Idle
<1>5. Held'
  <2>. SUFFICES ASSUME NEW l \in Launches, launch'[l].pc \notin Start
                PROVE  /\ launch'[l].tok \in 1..(nextRes' - 1) /\ launch'[l].slot \in Slots
                       /\ launch'[l].slot = attempt'[launch'[l].tok].slot
    BY DEF Home
  <2>1. CASE \E s \in Slots : Reserving(l, s)
    <3>1. PICK s \in Slots : Reserving(l, s)
      BY <2>1
    <3>2. launch'[l].tok = nextRes /\ launch'[l].slot = s
      BY <3>1 DEF Reserving
    <3>. QED
      BY <1>2, <1>a, <3>1, <3>2 DEF Tokens
  <2>2. CASE /\ launch[l].pc \notin Start
             /\ launch'[l].tok = launch[l].tok /\ launch'[l].slot = launch[l].slot
    <3>1. /\ launch[l].tok \in 1..(nextRes - 1) /\ launch[l].slot \in Slots
          /\ launch[l].slot = attempt[launch[l].tok].slot
      BY <1>0, <2>2 DEF Home
    <3>2. launch[l].tok \in Tokens /\ launch[l].tok < nextRes
      BY <1>2, <3>1, StackAssumption DEF Tokens, TypeOK
    <3>3. nextRes' \in Nat
      BY StackAssumption DEF TypeOK
    <3>. QED
      BY <1>2, <1>3, <2>2, <3>1, <3>2, <3>3
  <2>3. \/ launch'[l] = launch[l] /\ launch[l].pc \notin Start
        \/ /\ launch[l].pc \notin Start
           /\ launch'[l].tok = launch[l].tok /\ launch'[l].slot = launch[l].slot
        \/ \E s \in Slots : Reserving(l, s)
    BY NextLaunchStep DEF KeepsToken, Reserving
  <2>. QED
    BY <2>1, <2>2, <2>3
<1>6. Homed'
  <2>. SUFFICES ASSUME NEW t \in Tokens, Attended(t)'
                PROVE  t < nextRes' /\ Home(t)' \in Slots
    OBVIOUS
  <2>1. t < nextRes /\ Home(t) \in Slots
    <3>1. CASE Attended(t)
      BY <3>1, <1>0
    <3>2. CASE Owns(t)
      <4>1. Home(t) \in Slots /\ slot[Home(t)].res = t
        BY <3>2 DEF Owns
      <4>2. ~Idle(Home(t))
        BY <4>1, <1>2 DEF SlotOwnsItsProcess, Tokens
      <4>. QED
        BY <1>0, <4>1, <4>2
    <3>. QED
      BY <3>1, <3>2, AttendedStep
  <2>. QED
    BY <1>2, <1>3, <2>1 DEF Home, TypeOK
<1>7. Fresh'
  <2>. SUFFICES ASSUME NEW t \in Tokens, t >= nextRes', proc'[t] # "none"
                PROVE  FALSE
    OBVIOUS
  <2>1. t >= nextRes
    BY <1>2, <1>3 DEF TypeOK
  <2>2. PICK l \in Launches : Spawn(l) /\ launch[l].tok = t
    BY <1>0, <2>1, ProcStep
  <2>3. launch[l].pc \notin Start
    BY <2>2 DEF Spawn, At, Start
  <2>. QED
    BY <1>0, <1>2, <2>1, <2>2, <2>3
<1>. QED
  BY <1>4, <1>5, <1>6, <1>7 DEF TokensKnowTheirSlot, Start

-----------------------------------------------------------------------------
(* Pids follow spawns *)

\* A launch about to store its pid waits, unless it stores or returns it now.
LEMMA ClaimingStep ==
    ASSUME TypeOK, TokensKnowTheirSlot, [Next]_vars, NEW l \in Launches
    PROVE  /\ launch[l].pc = "claim" => launch'[l] = launch[l] \/ ClaimPid(l)
           /\ launch'[l].pc = "claim" => launch'[l] = launch[l] \/ (Spawn(l) /\ launch'[l].tok = launch[l].tok)
<1>1. ASSUME NEW m \in Launches, LaunchStep(m)
      PROVE  \A k \in Launches : k # m => launch'[k] = launch[k]
  BY <1>1, LaunchKeepsToken DEF KeepsToken, Reserving
<1>2. ASSUME LaunchStep(l), launch[l].pc = "claim"
      PROVE  ClaimPid(l)
  BY <1>2 DEF LaunchStep, ResolveAlias, Reserve, Reclaim, ClearReady, Release, CheckReserved,
     Spawn, Track, Settle, CrashCheck, CrashClear, Commit, WriteLock, Confirm, Retry, Rereserve, At
<1>3. ASSUME LaunchStep(l), ~Spawn(l)
      PROVE  launch'[l].pc # "claim"
  <2>1. ASSUME NEW pc, pc # "claim", Goto(l, pc)
        PROVE  launch'[l].pc # "claim"
    BY <2>1 DEF Goto, TypeOK, LaunchRecs
  <2>2. ASSUME Return(l)
        PROVE  launch'[l].pc # "claim"
    BY <2>2 DEF Return, Returned, TypeOK
  <2>3. ASSUME NEW s, NEW p, NEW a, NEW r \in BOOLEAN, ReserveFor(l, s, p, a, r)
        PROVE  launch'[l].pc # "claim"
    BY <2>3 DEF ReserveFor, TypeOK
  <2>4. CASE ResolveAlias(l)
    <3>1. CASE \E a \in Aliases : launch' = [launch EXCEPT ![l].alias = a, ![l].pc = "reserve"]
      BY <3>1 DEF TypeOK, LaunchRecs
    <3>. QED
      BY <2>2, <2>4, <3>1 DEF ResolveAlias
  <2>5. CASE Reserve(l) \/ Rereserve(l)
    BY <2>1, <2>2, <2>3, <2>5 DEF Reserve, Rereserve
  <2>6. CASE Retry(l)
    <3>1. CASE launch' = [launch EXCEPT ![l].pc = "unready", ![l].retried = TRUE]
      BY <3>1 DEF TypeOK, LaunchRecs
    <3>. QED
      BY <2>1, <2>6, <3>1 DEF Retry
  <2>7. CASE Reclaim(l) \/ ClearReady(l) \/ Release(l) \/ CheckReserved(l) \/ ClaimPid(l) \/ Track(l)
    BY <2>1, <2>2, <2>7 DEF Reclaim, ClearReady, Release, CheckReserved, ClaimPid, Track
  <2>8. CASE \/ Settle(l) \/ CrashCheck(l) \/ CrashClear(l) \/ Commit(l) \/ WriteLock(l) \/ Confirm(l)
    BY <2>1, <2>2, <2>8 DEF Settle, CrashCheck, CrashClear, Commit, WriteLock, Confirm
  <2>. QED
    BY <1>3, <2>4, <2>5, <2>6, <2>7, <2>8 DEF LaunchStep
<1>4. Spawn(l) => launch'[l].tok = launch[l].tok
  BY DEF Spawn, Goto, TypeOK, LaunchRecs
<1>5. CASE ~ \E m \in Launches : LaunchStep(m)
  <2>1. launch' = launch
    BY <1>5 DEF Next, EngineExits, WatcherStep, FireReady, ReaderFails, Promote, MarkReady, Kill,
       ReaperStep, ReaperWakes, ReaperFails, CrashRecheck, CrashTake, CrashVacate, FailerStep,
       FailRecheck, FailTake, FailClear, StopRequest, StopStep, StopTake, StopClear,
       SweepCollect, SweepStep, SweepClear, SweepDone, vars
  <2>. QED
    BY <2>1
<1>. QED
  BY <1>1, <1>2, <1>3, <1>4, <1>5

\* A kill is only ever started for a process that was spawned.
LEMMA KillingStep ==
    ASSUME TypeOK, [Next]_vars, NEW t \in killing'
    PROVE  t \in killing \/ proc[t] = "up"
<1>1. ASSUME NEW K, StartKill(K)
      PROVE  t \in killing \/ proc[t] = "up"
  BY <1>1 DEF StartKill, Up
<1>2. CASE killing' \subseteq killing
  BY <1>2
<1>3. ASSUME NEW l \in Launches, LaunchStep(l)
      PROVE  killing' \subseteq killing \/ \E K : StartKill(K)
  BY <1>3 DEF LaunchStep, ResolveAlias, Reserve, Reclaim, ClearReady, Release, CheckReserved,
     Spawn, ClaimPid, Track, Settle, CrashCheck, CrashClear, Commit, WriteLock, Confirm, Retry,
     Rereserve
<1>4. ASSUME NEW u \in Tokens, \/ EngineExits(u) \/ WatcherStep(u) \/ Promote(u) \/ MarkReady(u)
                               \/ Kill(u)
      PROVE  killing' \subseteq killing
  BY <1>4 DEF EngineExits, WatcherStep, FireReady, ReaderFails, Promote, MarkReady, Kill, Dies
<1>5. ASSUME NEW u \in Tokens, ReaperStep(u) \/ FailerStep(u)
      PROVE  killing' \subseteq killing \/ \E K : StartKill(K)
  BY <1>5 DEF ReaperStep, ReaperWakes, ReaperFails, CrashRecheck, CrashTake, CrashVacate,
     FailerStep, FailRecheck, FailTake, FailClear
<1>6. ASSUME NEW x \in Stops, StopRequest(x) \/ StopStep(x)
      PROVE  killing' \subseteq killing \/ \E K : StartKill(K)
  BY <1>6 DEF StopRequest, StopStep, StopTake, StopClear
<1>7. ASSUME NEW y \in Sweeps, SweepCollect(y) \/ SweepStep(y)
      PROVE  killing' \subseteq killing \/ \E K : StartKill(K)
  BY <1>7 DEF SweepCollect, SweepStep, SweepClear, SweepDone
<1>8. CASE UNCHANGED vars
  BY <1>8 DEF vars
<1>. QED
  BY <1>1, <1>2, <1>3, <1>4, <1>5, <1>6, <1>7, <1>8 DEF Next

\* on_ready is scheduled only for an attempt whose owner shows its pid.
LEMMA PromotingStep ==
    ASSUME TypeOK, [Next]_vars, NEW t \in promoting'
    PROVE  t \in promoting \/ (t \in Tokens /\ Started(t) /\ Owns(t))
<1>1. ASSUME NEW l \in Launches, LaunchStep(l)
      PROVE  promoting' = promoting
  BY <1>1 DEF LaunchStep, ResolveAlias, Reserve, Reclaim, ClearReady, Release, CheckReserved,
     Spawn, ClaimPid, Track, Settle, CrashCheck, CrashClear, Commit, WriteLock, Confirm, Retry,
     Rereserve
<1>2. ASSUME NEW u \in Tokens, FireReady(u)
      PROVE  t \in promoting \/ (t \in Tokens /\ Started(t) /\ Owns(t))
  BY <1>2 DEF FireReady
<1>3. ASSUME NEW u \in Tokens, \/ EngineExits(u) \/ ReaderFails(u) \/ Promote(u) \/ MarkReady(u)
                               \/ Kill(u) \/ ReaperStep(u) \/ FailerStep(u)
      PROVE  promoting' \subseteq promoting
  BY <1>3 DEF EngineExits, ReaderFails, Promote, MarkReady, Kill, ReaperStep, ReaperWakes,
     ReaperFails, CrashRecheck, CrashTake, CrashVacate, FailerStep, FailRecheck, FailTake, FailClear
<1>4. ASSUME NEW x \in Stops, StopRequest(x) \/ StopStep(x)
      PROVE  promoting' = promoting
  BY <1>4 DEF StopRequest, StopStep, StopTake, StopClear
<1>5. ASSUME NEW y \in Sweeps, SweepCollect(y) \/ SweepStep(y)
      PROVE  promoting' = promoting
  BY <1>5 DEF SweepCollect, SweepStep, SweepClear, SweepDone
<1>6. CASE UNCHANGED vars
  BY <1>6 DEF vars
<1>. QED
  BY <1>1, <1>2, <1>3, <1>4, <1>5, <1>6 DEF Next, WatcherStep

\* Every step keeps PidsFollowSpawns.
LEMMA PidsStep ==
    ASSUME StackInv, TypeOK', SlotOwnsItsProcess', TokensKnowTheirSlot', [Next]_vars
    PROVE  PidsFollowSpawns'
<1>. USE DEF StackInv
<1>0. /\ SlotStep
      /\ nextRes \in Nat /\ \A t \in Tokens : t \in Nat \ {0}
  BY NextSlotStep, StackAssumption DEF TypeOK, Tokens
<1>1. ASSUME NEW s \in Slots, ~Idle(s)
      PROVE  slot[s].res \in Tokens /\ slot[s].res < nextRes /\ Home(slot[s].res) = s
  <2>1. slot[s].res \in Token0 /\ slot[s].res # 0
    BY <1>1 DEF SlotOwnsItsProcess, TypeOK, SlotRecs
  <2>. QED
    BY <1>1, <2>1, StackAssumption DEF TokensKnowTheirSlot, Tokens, Token0
<1>2. ASSUME NEW l \in Launches, launch[l].pc \notin Start
      PROVE  /\ launch[l].tok \in Tokens /\ launch[l].tok < nextRes
             /\ launch[l].slot \in Slots /\ launch[l].slot = Home(launch[l].tok)
  <2>1. /\ launch[l].tok \in Token0 /\ launch[l].tok \in 1..(nextRes - 1)
        /\ launch[l].slot \in Slots /\ launch[l].slot = Home(launch[l].tok)
    BY <1>2 DEF TokensKnowTheirSlot, Start, TypeOK, LaunchRecs
  <2>. QED
    BY <1>0, <2>1, StackAssumption DEF Tokens, Token0
<1>3. ASSUME NEW l \in Launches, Spawn(l), proc' # proc
      PROVE  launch'[l].pc = "claim" /\ launch'[l].tok = launch[l].tok /\ proc'[launch[l].tok] = "up"
  <2>1. launch[l].tok \in Tokens
    BY <1>2, <1>3 DEF Spawn, At, Start
  <2>. QED
    BY <1>3, <2>1 DEF Spawn, Goto, TypeOK, LaunchRecs
<1>4. ASSUME NEW s \in Slots, ~Idle(s)', slot'[s].pid = 0, proc'[slot'[s].res] # "none"
      PROVE  \E l \in Launches : launch'[l].tok = slot'[s].res /\ launch'[l].pc = "claim"
  <2>1. ASSUME NEW l \in Launches, Reserving(l, s)
        PROVE  FALSE
    <3>1. slot'[s].res = nextRes /\ nextRes \in Tokens
      BY <2>1 DEF Reserving, TypeOK
    <3>2. proc[nextRes] = "none"
      BY <1>0, <3>1 DEF TokensKnowTheirSlot
    <3>3. PICK m \in Launches : Spawn(m) /\ launch[m].tok = nextRes
      BY <1>4, <3>1, <3>2, ProcStep
    <3>. QED
      BY <1>0, <1>2, <3>3 DEF Spawn, At, Start
  <2>2. CASE /\ slot[s].status # "Idle" /\ slot'[s].res = slot[s].res
             /\ slot'[s].pid \in {slot[s].pid, slot[s].res}
    <3>1. /\ slot[s].res \in Tokens /\ slot[s].res # 0 /\ slot[s].pid = 0
          /\ Home(slot[s].res) = s
      BY <1>0, <1>1, <1>4, <2>2 DEF Idle
    <3>2. CASE proc[slot[s].res] = "none"
      <4>1. PICK l \in Launches : Spawn(l) /\ launch[l].tok = slot[s].res
        BY <1>4, <2>2, <3>1, <3>2, ProcStep
      <4>2. proc' # proc
        BY <1>4, <2>2, <3>2
      <4>. QED
        BY <1>3, <2>2, <4>1, <4>2
    <3>3. CASE proc[slot[s].res] # "none"
      <4>1. PICK l \in Launches : launch[l].tok = slot[s].res /\ launch[l].pc = "claim"
        BY <2>2, <3>1, <3>3 DEF PidsFollowSpawns, Idle
      <4>2. ~ClaimPid(l)
        <5>1. launch[l].slot = s
          BY <1>2, <3>1, <4>1 DEF Start
        <5>. QED
          BY <1>4, <3>1, <4>1, <5>1 DEF ClaimPid, TypeOK, SlotRecs
      <4>3. launch'[l] = launch[l]
        BY <4>1, <4>2, ClaimingStep
      <4>. QED
        BY <2>2, <4>1, <4>3
    <3>. QED
      BY <3>2, <3>3
  <2>. QED
    BY <1>0, <1>4, <2>1, <2>2, BusySlotStep DEF Idle
<1>5. ASSUME NEW s \in Slots, slot'[s].pid # 0
      PROVE  proc'[slot'[s].pid] # "none"
  <2>1. slot'[s].pid = slot'[s].res /\ ~Idle(s)'
    BY <1>5 DEF SlotOwnsItsProcess
  <2>2. ASSUME NEW l \in Launches, Reserving(l, s)
        PROVE  FALSE
    BY <1>5, <2>2 DEF Reserving, TypeOK
  <2>3. CASE slot'[s].pid = slot[s].pid
    <3>1. slot[s].pid \in Tokens /\ proc[slot[s].pid] # "none"
      BY <1>5, <2>3, StackAssumption DEF TypeOK, SlotRecs, Token0, Tokens, PidsFollowSpawns
    <3>. QED
      BY <2>3, <3>1, ProcStep
  <2>4. CASE /\ slot'[s].pid = slot[s].res
             /\ \E l \in Launches : launch[l].pc = "claim" /\ launch[l].tok = slot[s].res
    <3>1. slot[s].res \in Tokens /\ proc[slot[s].res] # "none"
      BY <1>2, <2>4 DEF PidsFollowSpawns, Start
    <3>. QED
      BY <2>4, <3>1, ProcStep
  <2>. QED
    BY <1>0, <2>1, <2>2, <2>3, <2>4, BusySlotStep DEF Idle
<1>6. ASSUME NEW l \in Launches, launch'[l].pc = "claim"
      PROVE  proc'[launch'[l].tok] # "none"
  <2>1. CASE launch'[l] = launch[l]
    <3>1. launch[l].tok \in Tokens /\ proc[launch[l].tok] # "none"
      BY <1>2, <1>6, <2>1 DEF PidsFollowSpawns, Start
    <3>. QED
      BY <2>1, <3>1, ProcStep
  <2>2. CASE Spawn(l) /\ launch'[l].tok = launch[l].tok
    <3>1. launch[l].tok \in Tokens
      BY <1>2, <2>2 DEF Spawn, At, Start
    <3>. QED
      BY <1>6, <2>2, <3>1 DEF Spawn, Goto, TypeOK, LaunchRecs
  <2>. QED
    BY <1>6, <2>1, <2>2, ClaimingStep
<1>7. ASSUME NEW t \in killing'
      PROVE  proc'[t] # "none"
  <2>1. t \in Tokens
    BY DEF TypeOK
  <2>2. proc[t] # "none"
    BY KillingStep DEF PidsFollowSpawns
  <2>. QED
    BY <2>1, <2>2, ProcStep
<1>8. ASSUME NEW t \in promoting', Owns(t)'
      PROVE  slot'[Home(t)'].pid = t
  <2>1. t \in Tokens /\ t # 0
    BY <1>0 DEF TypeOK
  <2>2. t < nextRes /\ Home(t) \in Slots
    <3>1. CASE t \in promoting
      BY <2>1, <3>1 DEF TokensKnowTheirSlot, Attended
    <3>2. CASE Owns(t)
      <4>1. Home(t) \in Slots /\ slot[Home(t)].res = t /\ ~Idle(Home(t))
        BY <2>1, <3>2 DEF Owns, SlotOwnsItsProcess
      <4>. QED
        BY <1>1, <4>1
    <3>. QED
      BY <3>1, <3>2, PromotingStep
  <2>. DEFINE s == Home(t)
  <2>3. attempt'[t] = attempt[t]
    BY <1>0, <2>1, <2>2 DEF SlotStep, Frame, Reserving, TypeOK
  <2>4. Home(t)' = s /\ slot'[s].res = t
    BY <1>8, <2>3 DEF Home, Owns
  <2>5. slot'[s].status # "Idle"
    BY <2>1, <2>2, <2>4 DEF SlotOwnsItsProcess, Idle
  <2>6. ASSUME NEW l \in Launches, Reserving(l, s)
        PROVE  FALSE
    BY <1>0, <2>2, <2>4, <2>6 DEF Reserving, TypeOK
  <2>7. slot[s].res = t /\ slot'[s].pid \in {slot[s].pid, t}
    BY <1>0, <2>2, <2>4, <2>5, <2>6, BusySlotStep
  <2>8. Owns(t)
    BY <2>2, <2>7 DEF Owns
  <2>9. slot[s].pid = t
    <3>1. CASE t \in promoting
      BY <2>8, <3>1 DEF PidsFollowSpawns
    <3>2. CASE Started(t)
      <4>1. ~Idle(s)
        BY <2>1, <2>2, <2>7 DEF SlotOwnsItsProcess
      <4>2. slot[s].pid # 0
        BY <2>2, <2>7, <3>2, <4>1 DEF PidsFollowSpawns, Started
      <4>. QED
        BY <2>2, <2>7, <4>2 DEF SlotOwnsItsProcess
    <3>. QED
      BY <3>1, <3>2, PromotingStep
  <2>. QED
    BY <2>4, <2>7, <2>9
<1>. QED
  BY <1>4, <1>5, <1>6, <1>7, <1>8 DEF PidsFollowSpawns

\* Every step keeps RunningHasEngine: only on_ready promotes, and only its own attempt.
LEMMA RunningStep ==
    ASSUME StackInv, TypeOK', SlotOwnsItsProcess', PidsFollowSpawns', [Next]_vars
    PROVE  RunningHasEngine'
<1>. USE DEF StackInv
<1>0. SlotStep
  BY NextSlotStep
<1>. SUFFICES ASSUME NEW s \in Slots, slot'[s].status = "Running"
              PROVE  slot'[s].pid = slot'[s].res /\ proc'[slot'[s].res] # "none"
  BY DEF RunningHasEngine
<1>1. ASSUME NEW l \in Launches, Reserving(l, s)
      PROVE  FALSE
  BY <1>1 DEF Reserving, TypeOK
<1>2. /\ slot[s].status # "Idle" /\ slot'[s].pid \in {slot[s].pid, slot[s].res}
      /\ slot'[s].res = slot[s].res
      /\ slot'[s].status = slot[s].status \/ \E t \in promoting : Owns(t) /\ Home(t) = s
  BY <1>0, <1>1, BusySlotStep
<1>3. slot[s].res # 0
  BY <1>2 DEF SlotOwnsItsProcess, Idle
<1>4. slot[s].pid = slot[s].res
  <2>1. CASE slot'[s].status = slot[s].status
    BY <2>1 DEF RunningHasEngine
  <2>2. CASE \E t \in promoting : Owns(t) /\ Home(t) = s
    BY <2>2 DEF PidsFollowSpawns, Owns
  <2>. QED
    BY <1>2, <2>1, <2>2
<1>5. slot'[s].pid = slot'[s].res /\ slot'[s].pid # 0
  BY <1>2, <1>3, <1>4
<1>. QED
  BY <1>5 DEF PidsFollowSpawns

-----------------------------------------------------------------------------
(* The theorems *)

\* The inductive invariant holds initially,
LEMMA InitStackInv == Init => StackInv
<1>1. Init => TypeOK
  BY TypeInit
<1>2. Init => \A s \in Slots : slot[s] = Vacant
  <2>1. Init => slot = [s \in Slots |-> Vacant]
    BY DEF Init
  <2>. QED
    BY <2>1
<1>3. Vacant.status = "Idle" /\ Vacant.res = 0 /\ Vacant.pid = 0 /\ Vacant.child = 0
  BY DEF Vacant
<1>4. Init => SlotOwnsItsProcess /\ RunningHasEngine
  BY <1>2, <1>3 DEF SlotOwnsItsProcess, RunningHasEngine, Idle
<1>5. Init => TokensKnowTheirSlot
  <2>1. Init => \A l \in Launches : launch[l].pc = "alias"
    BY DEF Init, Returned
  <2>2. Init => \A t \in Tokens : ~Attended(t)
    BY DEF Init, Attended
  <2>. QED
    BY <1>2, <1>3, <2>1, <2>2 DEF TokensKnowTheirSlot, Idle, Init
<1>6. Init => PidsFollowSpawns
  <2>1. Init => \A l \in Launches : launch[l].pc # "claim"
    BY DEF Init, Returned
  <2>. QED
    BY <1>2, <1>3, <2>1 DEF PidsFollowSpawns, Idle, Init
<1>. QED
  BY <1>1, <1>4, <1>5, <1>6 DEF StackInv

\* and every step keeps it.
LEMMA NextStackInv == StackInv /\ [Next]_vars => StackInv'
<1>. SUFFICES ASSUME StackInv, [Next]_vars
              PROVE  StackInv'
  OBVIOUS
<1>1. TypeOK'
  BY TypeStep DEF StackInv
<1>2. SlotOwnsItsProcess'
  BY NextSlotStep, OwnStep DEF StackInv
<1>3. TokensKnowTheirSlot'
  BY <1>1, <1>2, TokensStep DEF StackInv
<1>4. PidsFollowSpawns'
  BY <1>1, <1>2, <1>3, PidsStep
<1>5. RunningHasEngine'
  BY <1>1, <1>2, <1>4, RunningStep
<1>. QED
  BY <1>1, <1>2, <1>3, <1>4, <1>5 DEF StackInv

\* The inductive invariant holds in every reachable state, whatever the number of
\* slots, ports, launches, stops and sweeps.
THEOREM StackInvariant == Spec => []StackInv
  BY InitStackInv, NextStackInv, PTL DEF Spec

\* Every variable keeps its type.
THEOREM TypeCorrect == Spec => []TypeOK
<1>1. StackInv => TypeOK
  BY DEF StackInv
<1>. QED
  BY <1>1, StackInvariant, PTL

\* A slot holds no pid or Child but its owner's, and no token owns two slots: the
\* reservation checks of load_slot and make_on_ready do what their comments say.
THEOREM SlotsOwnTheirProcess == Spec => []SlotOwnsItsProcess
<1>1. StackInv => SlotOwnsItsProcess
  BY DEF StackInv
<1>. QED
  BY <1>1, StackInvariant, PTL

\* No late on-ready callback makes a slot Running that has no engine of its own.
THEOREM RunningSlotsHaveEngines == Spec => []RunningHasEngine
<1>1. StackInv => RunningHasEngine
  BY DEF StackInv
<1>. QED
  BY <1>1, StackInvariant, PTL

\* The abstract state of the refinement.
Status == [s \in Slots |-> slot[s].status]
Owner  == [s \in Slots |-> slot[s].res]

\* Every step of the stack is a step of the slot life cycle, or leaves it unchanged.
LEMMA LifecycleStep ==
    ASSUME TypeOK, SlotOwnsItsProcess, TypeOK', SlotStep
    PROVE  Lifecycle!Next \/ UNCHANGED Lifecycle!vars
<1>0. ASSUME Status' = Status, Owner' = Owner, nextRes' = nextRes
      PROVE  UNCHANGED Lifecycle!vars
  BY <1>0 DEF Status, Owner, Lifecycle!vars
<1>1. ASSUME slot' = slot, Frame
      PROVE  UNCHANGED Lifecycle!vars
  BY <1>0, <1>1 DEF Status, Owner, Frame
<1>2. ASSUME NEW l \in Launches, NEW s \in Slots, Reserving(l, s)
      PROVE  Lifecycle!Reserve(s)
  <2>1. slot'[s].status = "Loading" /\ slot'[s].res = nextRes /\ slot[s].status = "Idle"
    BY <1>2 DEF Reserving, TypeOK, Idle
  <2>2. \A r \in Slots : r # s => slot'[r] = slot[r]
    BY <1>2 DEF Reserving, TypeOK
  <2>3. Status' = [Status EXCEPT ![s] = "Loading"] /\ Owner' = [Owner EXCEPT ![s] = nextRes]
    BY <2>1, <2>2 DEF Status, Owner
  <2>4. nextRes' = nextRes + 1
    BY <1>2 DEF Reserving
  <2>. QED
    BY <2>1, <2>3, <2>4 DEF Lifecycle!Reserve, Status, Owner
<1>3. ASSUME NEW l \in Launches, Claiming(l) \/ Committing(l), Frame
      PROVE  UNCHANGED Lifecycle!vars
  <2>1. \A r \in Slots : slot'[r].status = slot[r].status /\ slot'[r].res = slot[r].res
    <3>1. CASE Claiming(l)
      BY <3>1 DEF Claiming, TypeOK, SlotRecs
    <3>2. CASE Committing(l)
      BY <3>2 DEF Committing, Loaded, TypeOK
    <3>. QED
      BY <1>3, <3>1, <3>2
  <2>. QED
    BY <1>0, <1>3, <2>1 DEF Status, Owner, Frame
<1>4. ASSUME NEW t \in Tokens, Promoting(t), Frame
      PROVE  \E s \in Slots : Lifecycle!Promote(s)
  <2>1. PICK s \in Slots : s = Home(t)
    BY <1>4 DEF Promoting, Owns
  <2>2. slot[s].status = "Loading" /\ \A r \in Slots : r # s => slot'[r] = slot[r]
    BY <1>4, <2>1 DEF Promoting, TypeOK
  <2>3. slot'[s].status = "Running" /\ slot'[s].res = slot[s].res
    BY <1>4, <2>1 DEF Promoting, TypeOK, SlotRecs
  <2>4. Status' = [Status EXCEPT ![s] = "Running"] /\ Owner' = Owner
    BY <2>2, <2>3 DEF Status, Owner
  <2>5. Lifecycle!Promote(s)
    BY <1>4, <2>2, <2>4 DEF Lifecycle!Promote, Status, Owner, Frame
  <2>. QED
    BY <2>5
<1>5. ASSUME NEW S \in SUBSET Slots, Unhanding(S), Frame
      PROVE  UNCHANGED Lifecycle!vars
  <2>1. \A r \in Slots : slot'[r].status = slot[r].status /\ slot'[r].res = slot[r].res
    BY <1>5 DEF Unhanding, TypeOK, SlotRecs
  <2>. QED
    BY <1>0, <1>5, <2>1 DEF Status, Owner, Frame
<1>6. ASSUME NEW S \in SUBSET Slots, Vacating(S), Frame
      PROVE  Lifecycle!Vacate(S)
  <2>1. Vacant.status = "Idle" /\ Vacant.res = 0
    BY DEF Vacant
  <2>2. \A r \in Slots : slot'[r] = IF r \in S THEN Vacant ELSE slot[r]
    BY <1>6 DEF Vacating
  <2>3. /\ Status' = [s \in Slots |-> IF s \in S THEN "Idle" ELSE Status[s]]
        /\ Owner' = [s \in Slots |-> IF s \in S THEN 0 ELSE Owner[s]]
    BY <2>1, <2>2 DEF Status, Owner
  <2>. QED
    BY <1>6, <2>3 DEF Lifecycle!Vacate, Status, Owner, Frame
<1>. QED
  <2>1. CASE slot' = slot /\ Frame
    BY <2>1, <1>1
  <2>2. CASE \E l \in Launches, s \in Slots : Reserving(l, s)
    BY <2>2, <1>2 DEF Lifecycle!Next
  <2>3. CASE \E l \in Launches : (Claiming(l) \/ Committing(l)) /\ Frame
    BY <2>3, <1>3
  <2>4. CASE \E t \in Tokens : Promoting(t) /\ Frame
    BY <2>4, <1>4 DEF Lifecycle!Next
  <2>5. CASE \E S \in SUBSET Slots : (Unhanding(S) \/ Vacating(S)) /\ Frame
    BY <2>5, <1>5, <1>6 DEF Lifecycle!Next
  <2>. QED
    BY <2>1, <2>2, <2>3, <2>4, <2>5 DEF SlotStep

\* The stack implements the abstract slot life cycle: a slot changes owner only
\* through Idle, only by a token greater than every token before, and only Loading
\* becomes Running.
THEOREM StackImplementsLifecycle == Spec => RefinesLifecycle
<1>1. Init => Lifecycle!Init
  <2>1. Init => slot = [s \in Slots |-> Vacant] /\ nextRes = 1
    BY DEF Init
  <2>2. Vacant.status = "Idle" /\ Vacant.res = 0
    BY DEF Vacant
  <2>. QED
    BY <2>1, <2>2 DEF Lifecycle!Init
<1>2. StackInv /\ StackInv' /\ [Next]_vars => [Lifecycle!Next]_(Lifecycle!vars)
  BY NextSlotStep, LifecycleStep DEF StackInv
<1>. QED
  BY <1>1, <1>2, StackInvariant, PTL DEF Spec, Lifecycle!Spec, RefinesLifecycle

-----------------------------------------------------------------------------
(* Who answers for an engine process and for a reservation: the second half *)
(* of the proofs, on top of StackInv.                                       *)

-----------------------------------------------------------------------------
(* Which actions touch which variable *)

\* Launch calls are moved by their own steps only,
LEMMA LaunchAuthors ==
    ASSUME [Next]_vars
    PROVE  launch' = launch \/ \E l \in Launches : LaunchStep(l)
  BY DEF Next, EngineExits, WatcherStep, FireReady, ReaderFails, Promote, MarkReady, Kill,
     ReaperStep, ReaperWakes, ReaperFails, CrashRecheck, CrashTake, CrashVacate, FailerStep,
     FailRecheck, FailTake, FailClear, StopRequest, StopStep, StopTake, StopClear,
     SweepCollect, SweepStep, SweepClear, SweepDone, vars

\* a launch step touches none of the tasks, nor the stop and sweep calls,
LEMMA LaunchTouches ==
    ASSUME NEW l \in Launches, LaunchStep(l)
    PROVE  UNCHANGED <<ready, promoting, marking, reaper, failer, stop, sweep, exited>> \/ ClearReady(l)
  BY DEF LaunchStep, ResolveAlias, Reserve, Reclaim, ClearReady, Release, CheckReserved, Spawn,
     ClaimPid, Track, Settle, CrashCheck, CrashClear, Commit, WriteLock, Confirm, Retry, Rereserve

\* stop calls by stop steps,
LEMMA StopAuthors ==
    ASSUME [Next]_vars
    PROVE  stop' = stop \/ \E x \in Stops : StopRequest(x) \/ StopTake(x) \/ StopClear(x)
<1>1. ASSUME NEW l \in Launches, LaunchStep(l)
      PROVE  stop' = stop
  BY <1>1, LaunchTouches DEF ClearReady
<1>. QED
  BY <1>1 DEF Next, EngineExits, WatcherStep, FireReady, ReaderFails, Promote, MarkReady, Kill,
     ReaperStep, ReaperWakes, ReaperFails, CrashRecheck, CrashTake, CrashVacate, FailerStep,
     FailRecheck, FailTake, FailClear, StopStep, SweepCollect, SweepStep, SweepClear, SweepDone,
     vars

\* sweeps by sweep steps,
LEMMA SweepAuthors ==
    ASSUME [Next]_vars
    PROVE  sweep' = sweep \/ \E y \in Sweeps : SweepCollect(y) \/ SweepClear(y) \/ SweepDone(y)
<1>1. ASSUME NEW l \in Launches, LaunchStep(l)
      PROVE  sweep' = sweep
  BY <1>1, LaunchTouches DEF ClearReady
<1>. QED
  BY <1>1 DEF Next, EngineExits, WatcherStep, FireReady, ReaderFails, Promote, MarkReady, Kill,
     ReaperStep, ReaperWakes, ReaperFails, CrashRecheck, CrashTake, CrashVacate, FailerStep,
     FailRecheck, FailTake, FailClear, StopRequest, StopStep, StopTake, StopClear, SweepStep,
     vars

\* fail_loading_slot by its own steps and the two tasks that start it,
LEMMA FailerAuthors ==
    ASSUME [Next]_vars
    PROVE  \/ failer' = failer
           \/ \E t \in Tokens : \/ ReaderFails(t) \/ ReaperFails(t)
                                \/ FailRecheck(t) \/ FailTake(t) \/ FailClear(t)
<1>1. ASSUME NEW l \in Launches, LaunchStep(l)
      PROVE  failer' = failer
  BY <1>1, LaunchTouches DEF ClearReady
<1>. QED
  BY <1>1 DEF Next, EngineExits, WatcherStep, FireReady, Promote, MarkReady, Kill,
     ReaperStep, ReaperWakes, CrashRecheck, CrashTake, CrashVacate, FailerStep,
     StopRequest, StopStep, StopTake, StopClear, SweepCollect, SweepStep, SweepClear, SweepDone,
     vars

\* the reaper by its own,
LEMMA ReaperAuthors ==
    ASSUME [Next]_vars
    PROVE  \/ reaper' = reaper
           \/ \E t \in Tokens : \/ ReaperWakes(t) \/ ReaperFails(t)
                                \/ CrashRecheck(t) \/ CrashTake(t) \/ CrashVacate(t)
<1>1. ASSUME NEW l \in Launches, LaunchStep(l)
      PROVE  reaper' = reaper
  BY <1>1, LaunchTouches DEF ClearReady
<1>. QED
  BY <1>1 DEF Next, EngineExits, WatcherStep, FireReady, ReaderFails, Promote, MarkReady, Kill,
     ReaperStep, FailerStep, FailRecheck, FailTake, FailClear,
     StopRequest, StopStep, StopTake, StopClear, SweepCollect, SweepStep, SweepClear, SweepDone,
     vars

\* slots are cleared, Children dropped and kills started together, and only by the
\* actions listed here; only a death ends a kill or forgets a dropped Child.
LEMMA KillAuthors ==
    ASSUME [Next]_vars
    PROVE  \/ killing' = killing
           \/ \E K : StartKill(K)
           \/ \E t \in Tokens : Dies(t)
  BY DEF Next, LaunchStep, ResolveAlias, Reserve, Reclaim, ClearReady, Release, CheckReserved,
     Spawn, ClaimPid, Track, Settle, CrashCheck, CrashClear, Commit, WriteLock, Confirm, Retry,
     Rereserve, EngineExits, WatcherStep, FireReady, ReaderFails, Promote, MarkReady, Kill,
     ReaperStep, ReaperWakes, ReaperFails, CrashRecheck, CrashTake, CrashVacate, FailerStep,
     FailRecheck, FailTake, FailClear, StopRequest, StopStep, StopTake, StopClear,
     SweepCollect, SweepStep, SweepClear, SweepDone, vars

LEMMA DropAuthors ==
    ASSUME [Next]_vars
    PROVE  \/ dropped' = dropped
           \/ \E S : ClearSlots(S)
           \/ \E t \in Tokens : Dies(t)
  BY DEF Next, LaunchStep, ResolveAlias, Reserve, Reclaim, ClearReady, Release, CheckReserved,
     Spawn, ClaimPid, Track, Settle, CrashCheck, CrashClear, Commit, WriteLock, Confirm, Retry,
     Rereserve, EngineExits, WatcherStep, FireReady, ReaderFails, Promote, MarkReady, Kill,
     ReaperStep, ReaperWakes, ReaperFails, CrashRecheck, CrashTake, CrashVacate, FailerStep,
     FailRecheck, FailTake, FailClear, StopRequest, StopStep, StopTake, StopClear,
     SweepCollect, SweepStep, SweepClear, SweepDone, vars

\* An engine is up because it was, or because its launch spawned it just now.
LEMMA UpAuthors ==
    ASSUME TypeOK, [Next]_vars, NEW t \in Tokens, proc'[t] = "up"
    PROVE  \/ Up(t)
           \/ \E l \in Launches : Spawn(l) /\ launch[l].tok = t
<1>1. CASE proc' = proc
  BY <1>1 DEF Up
<1>2. ASSUME NEW u \in Tokens, Dies(u)
      PROVE  Up(t)
  BY <1>2 DEF Dies, Up, TypeOK
<1>3. ASSUME NEW l \in Launches, Spawn(l), launch[l].tok # t
      PROVE  Up(t)
  BY <1>3 DEF Spawn, Up, TypeOK
<1>4. ASSUME NEW y \in Sweeps, SweepDone(y)
      PROVE  Up(t)
  BY <1>4 DEF SweepDone, Up
<1>. QED
  BY <1>1, <1>2, <1>3, <1>4 DEF Next, LaunchStep, ResolveAlias, Reserve, Reclaim, ClearReady,
     Release, CheckReserved, ClaimPid, Track, Settle, CrashCheck, CrashClear, Commit, WriteLock,
     Confirm, Retry, Rereserve, EngineExits, WatcherStep, FireReady, ReaderFails, Promote,
     MarkReady, Kill, ReaperStep, ReaperWakes, ReaperFails, CrashRecheck, CrashTake, CrashVacate,
     FailerStep, FailRecheck, FailTake, FailClear, StopRequest, StopStep, StopTake, StopClear,
     SweepCollect, SweepStep, SweepClear, vars
-----------------------------------------------------------------------------
(* How a launch call moves *)

\* Going to another control point changes that one field of that one call.
LEMMA GotoMoves ==
    ASSUME TypeOK, NEW l \in Launches, NEW pc, Goto(l, pc)
    PROVE  /\ launch'[l].pc = pc /\ launch'[l].tok = launch[l].tok
           /\ launch'[l].slot = launch[l].slot /\ launch'[l].port = launch[l].port
           /\ \A m \in Launches : m # l => launch'[m] = launch[m]
  BY DEF Goto, TypeOK, LaunchRecs

\* A call that returns keeps no token.
LEMMA ReturnMoves ==
    ASSUME TypeOK, NEW l \in Launches, Return(l)
    PROVE  /\ launch'[l].pc = "done" /\ launch'[l].tok = 0
           /\ \A m \in Launches : m # l => launch'[m] = launch[m]
  BY DEF Return, Returned, TypeOK

\* A token is not 0.
LEMMA TokenIsPositive == \A t \in Tokens : t \in Nat /\ t # 0
  BY StackAssumption DEF Tokens

-----------------------------------------------------------------------------
(* Every engine is in somebody's hands *)

LaunchHolds(t) == \E l \in Launches : /\ launch[l].tok = t
                                      /\ launch[l].pc \in {"claim", "track", "settle", "commit"}
StopHolds(t)   == \E x \in Stops : stop[x].pc = "clear" /\ stop[x].pid = t
SweepHolds(t)  == \E y \in Sweeps : sweep[y].pc = "clear" /\ t \in sweep[y].pids
FailerHolds(t) == \/ failer[t].pc \in {"take", "clear"}
                  \/ \E u \in Tokens : failer[u].took = t /\ failer[u].pc = "clear"
ReaperHolds(t) == \E u \in Tokens : reaper[u].took = t /\ reaper[u].pc = "clear"

\* Somebody who will kill the engine, or hand it on, holds it.
InHand(t) == \/ t \in killing \/ LaunchHolds(t) \/ StopHolds(t) \/ SweepHolds(t)
             \/ FailerHolds(t) \/ ReaperHolds(t)

Stored(t) == \E s \in Slots : slot[s].child = t

\* An engine that runs is in somebody's hands, stored in a slot, or was dropped.
InCustody == \A t \in Tokens : Up(t) => InHand(t) \/ Stored(t) \/ t \in dropped

\* A launch call gives an engine up by storing or killing it.
LEMMA LaunchHands ==
    ASSUME StackInv, [Next]_vars, NEW t \in Tokens, Up(t), LaunchHolds(t)
    PROVE  LaunchHolds(t)' \/ Stored(t)' \/ t \in killing'
<1>. USE DEF StackInv
<1>1. PICK l \in Launches : launch[l].tok = t /\ launch[l].pc \in {"claim", "track", "settle", "commit"}
  BY DEF LaunchHolds
<1>2. ASSUME NEW pc \in {"claim", "track", "settle", "commit"}, Goto(l, pc)
      PROVE  LaunchHolds(t)'
  BY <1>1, <1>2, GotoMoves DEF LaunchHolds
<1>3. ASSUME StartKill({t})
      PROVE  t \in killing'
  BY <1>3 DEF StartKill
<1>4. CASE ClaimPid(l)
  BY <1>1, <1>2, <1>3, <1>4 DEF ClaimPid
<1>5. CASE Track(l)
  BY <1>2, <1>5 DEF Track
<1>6. CASE Settle(l)
  BY <1>1, <1>2, <1>6 DEF Settle
<1>7. CASE Commit(l)
  <2>1. launch[l].slot \in Slots
    BY <1>7 DEF Commit, At, TokensKnowTheirSlot
  <2>2. CASE slot' = [slot EXCEPT ![launch[l].slot] = Loaded(slot[launch[l].slot], launch[l].tok)]
    BY <1>1, <2>1, <2>2 DEF Stored, Loaded, TypeOK
  <2>. QED
    BY <1>1, <1>3, <1>7, <2>2 DEF Commit
<1>8. ASSUME NEW m \in Launches, LaunchStep(m), m # l
      PROVE  launch'[l] = launch[l]
  BY <1>8, LaunchKeepsToken DEF KeepsToken, Reserving
<1>9. ASSUME LaunchStep(l)
      PROVE  ClaimPid(l) \/ Track(l) \/ Settle(l) \/ Commit(l)
  BY <1>1, <1>9 DEF LaunchStep, ResolveAlias, Reserve, Reclaim, ClearReady, Release, CheckReserved,
     Spawn, CrashCheck, CrashClear, WriteLock, Confirm, Retry, Rereserve, At
<1>. QED
  BY <1>1, <1>4, <1>5, <1>6, <1>7, <1>8, <1>9, LaunchAuthors DEF LaunchHolds

\* A stop call kills the engine it took.
LEMMA StopHands ==
    ASSUME TypeOK, [Next]_vars, NEW t \in Tokens, Up(t), StopHolds(t)
    PROVE  StopHolds(t)' \/ t \in killing'
<1>1. PICK x \in Stops : stop[x].pc = "clear" /\ stop[x].pid = t
  BY DEF StopHolds
<1>2. CASE StopClear(x)
  BY <1>1, <1>2 DEF StopClear, StartKill
<1>3. ASSUME NEW z \in Stops, StopRequest(z) \/ StopTake(z) \/ (StopClear(z) /\ z # x)
      PROVE  stop'[x] = stop[x]
  <2>1. z # x
    BY <1>1, <1>3 DEF StopRequest, StopTake
  <2>. QED
    BY <1>3, <2>1 DEF StopRequest, StopTake, StopClear, TypeOK
<1>. QED
  BY <1>1, <1>2, <1>3, StopAuthors DEF StopHolds

\* So does a sweep.
LEMMA SweepHands ==
    ASSUME TypeOK, [Next]_vars, NEW t \in Tokens, Up(t), SweepHolds(t)
    PROVE  SweepHolds(t)' \/ t \in killing'
<1>1. PICK y \in Sweeps : sweep[y].pc = "clear" /\ t \in sweep[y].pids
  BY DEF SweepHolds
<1>2. CASE SweepClear(y)
  BY <1>1, <1>2 DEF SweepClear, StartKill
<1>3. ASSUME NEW z \in Sweeps, SweepCollect(z) \/ SweepDone(z) \/ (SweepClear(z) /\ z # y)
      PROVE  sweep'[y] = sweep[y]
  <2>1. z # y
    BY <1>1, <1>3 DEF SweepCollect, SweepDone
  <2>. QED
    BY <1>3, <2>1 DEF SweepCollect, SweepClear, SweepDone, TypeOK
<1>. QED
  BY <1>1, <1>2, <1>3, SweepAuthors DEF SweepHolds

\* fail_loading_slot kills its own engine and the Child it took,
LEMMA FailerHands ==
    ASSUME TypeOK, [Next]_vars, NEW t \in Tokens, Up(t), FailerHolds(t)
    PROVE  FailerHolds(t)' \/ t \in killing'
<1>1. PICK u \in Tokens : \/ u = t /\ failer[u].pc \in {"take", "clear"}
                          \/ failer[u].took = t /\ failer[u].pc = "clear"
  BY DEF FailerHolds
<1>2. CASE FailClear(u)
  BY <1>1, <1>2 DEF FailClear, StartKill
<1>3. CASE FailTake(u)
  <2>1. failer'[u].pc = "clear" /\ u = t
    BY <1>1, <1>3 DEF FailTake, TypeOK
  <2>. QED
    BY <2>1 DEF FailerHolds
<1>4. ASSUME NEW z \in Tokens, \/ ReaderFails(z) \/ ReaperFails(z) \/ FailRecheck(z)
                               \/ (z # u /\ (FailTake(z) \/ FailClear(z)))
      PROVE  failer'[u] = failer[u]
  BY <1>1, <1>4 DEF ReaderFails, ReaperFails, FailRecheck, FailTake, FailClear, ClaimFailure,
     Claimed, TypeOK
<1>. QED
  BY <1>1, <1>2, <1>3, <1>4, FailerAuthors DEF FailerHolds

\* and the reaper the Child it took.
LEMMA ReaperHands ==
    ASSUME TypeOK, [Next]_vars, NEW t \in Tokens, Up(t), ReaperHolds(t)
    PROVE  ReaperHolds(t)' \/ t \in killing'
<1>1. PICK u \in Tokens : reaper[u].took = t /\ reaper[u].pc = "clear"
  BY DEF ReaperHolds
<1>2. CASE CrashVacate(u)
  BY <1>1, <1>2 DEF CrashVacate, StartKill
<1>3. ASSUME NEW z \in Tokens, \/ ReaperWakes(z) \/ ReaperFails(z) \/ CrashRecheck(z) \/ CrashTake(z)
                               \/ (z # u /\ CrashVacate(z))
      PROVE  reaper'[u] = reaper[u]
  BY <1>1, <1>3 DEF ReaperWakes, ReaperFails, CrashRecheck, CrashTake, CrashVacate, TypeOK
<1>. QED
  BY <1>1, <1>2, <1>3, ReaperAuthors DEF ReaperHolds

\* A Child that leaves a slot goes to whoever took it, or is dropped.
LEMMA ChildHands ==
    ASSUME StackInv, [Next]_vars, NEW t \in Tokens, Up(t), Stored(t)
    PROVE  \/ Stored(t)' \/ StopHolds(t)' \/ SweepHolds(t)' \/ FailerHolds(t)' \/ ReaperHolds(t)'
           \/ t \in dropped'
<1>. USE DEF StackInv
<1>1. PICK s \in Slots : slot[s].child = t
  BY DEF Stored
<1>2. /\ slot[s].pid = t /\ slot[s].res = t /\ ~Idle(s) /\ slot[s] \in SlotRecs
  BY <1>1, TokenIsPositive DEF SlotOwnsItsProcess, TypeOK
<1>3. ASSUME slot'[s].child = slot[s].child
      PROVE  Stored(t)'
  BY <1>1, <1>3 DEF Stored
<1>4. ASSUME NEW S, ClearSlots(S)
      PROVE  Stored(t)' \/ t \in dropped'
  <2>1. CASE s \in S
    BY <1>1, <1>4, <2>1 DEF ClearSlots
  <2>2. CASE s \notin S
    BY <1>3, <1>4, <2>2 DEF ClearSlots
  <2>. QED
    BY <2>1, <2>2
<1>5. ASSUME NEW l \in Launches, LaunchStep(l)
      PROVE  Stored(t)' \/ t \in dropped'
  <2>1. CASE Reserve(l)
    <3>1. slot' = slot \/ \E r, p : ReserveFor(l, r, p, launch[l].alias, FALSE)
      BY <2>1 DEF Reserve
    <3>2. slot'[s] = slot[s]
      BY <1>2, <3>1 DEF ReserveFor, TypeOK
    <3>. QED
      BY <1>3, <3>2
  <2>2. CASE Rereserve(l)
    <3>1. slot' = slot \/ \E r, p : ReserveFor(l, r, p, launch[l].alias, TRUE)
      BY <2>2 DEF Rereserve
    <3>2. slot'[s] = slot[s]
      BY <1>2, <3>1 DEF ReserveFor, TypeOK
    <3>. QED
      BY <1>3, <3>2
  <2>3. CASE ClaimPid(l)
    BY <1>2, <1>3, <2>3 DEF ClaimPid, TypeOK, SlotRecs
  <2>4. CASE Commit(l)
    <3>1. slot' = slot \/ (slot[launch[l].slot].child = 0 /\ \E r : slot' = [slot EXCEPT ![launch[l].slot] = r])
      BY <2>4 DEF Commit
    <3>2. slot'[s] = slot[s]
      BY <1>1, <3>1, TokenIsPositive DEF TypeOK
    <3>. QED
      BY <1>3, <3>2
  <2>5. CASE Release(l) \/ CrashClear(l)
    BY <1>4, <2>5 DEF Release, CrashClear
  <2>. QED
    BY <1>3, <1>5, <2>1, <2>2, <2>3, <2>4, <2>5 DEF LaunchStep, ResolveAlias, Reclaim, ClearReady,
       CheckReserved, Spawn, Track, Settle, CrashCheck, WriteLock, Confirm, Retry
<1>6. ASSUME NEW u \in Tokens, FailTake(u)
      PROVE  Stored(t)' \/ FailerHolds(t)'
  <2>1. CASE Home(u) = s
    <3>1. failer'[u].took = t /\ failer'[u].pc = "clear"
      BY <1>1, <1>6, <2>1 DEF FailTake, TypeOK
    <3>. QED
      BY <3>1 DEF FailerHolds
  <2>2. CASE Home(u) # s
    BY <1>3, <1>6, <2>2 DEF FailTake, TypeOK
  <2>. QED
    BY <2>1, <2>2
<1>7. ASSUME NEW u \in Tokens, CrashTake(u)
      PROVE  Stored(t)' \/ ReaperHolds(t)'
  <2>1. CASE Home(u) = s
    <3>1. reaper'[u].took = t /\ reaper'[u].pc = "clear"
      BY <1>1, <1>7, <2>1 DEF CrashTake, TypeOK
    <3>. QED
      BY <3>1 DEF ReaperHolds
  <2>2. CASE Home(u) # s
    BY <1>3, <1>7, <2>2 DEF CrashTake, TypeOK
  <2>. QED
    BY <2>1, <2>2
<1>8. ASSUME NEW u \in Tokens, Promote(u)
      PROVE  Stored(t)'
  BY <1>2, <1>3, <1>8 DEF Promote, TypeOK, SlotRecs
<1>9. ASSUME NEW u \in Tokens, FailClear(u) \/ CrashVacate(u)
      PROVE  Stored(t)' \/ t \in dropped'
  BY <1>4, <1>9 DEF FailClear, CrashVacate
<1>10. ASSUME NEW u \in Tokens, \/ EngineExits(u) \/ WatcherStep(u) \/ MarkReady(u) \/ Kill(u)
                                \/ ReaperWakes(u) \/ ReaperFails(u) \/ CrashRecheck(u) \/ FailRecheck(u)
      PROVE  Stored(t)'
  BY <1>3, <1>10 DEF EngineExits, WatcherStep, FireReady, ReaderFails, MarkReady, Kill, ReaperWakes,
     ReaperFails, CrashRecheck, FailRecheck
<1>11. ASSUME NEW x \in Stops, StopTake(x)
      PROVE  Stored(t)' \/ StopHolds(t)'
  <2>1. PICK r : /\ stop' = [stop EXCEPT ![x].pc = "clear", ![x].pid = slot[r].pid]
                 /\ slot' = [slot EXCEPT ![r].child = 0]
    BY <1>11 DEF StopTake
  <2>2. CASE r = s
    <3>1. stop'[x].pc = "clear" /\ stop'[x].pid = t
      BY <1>2, <2>1, <2>2 DEF TypeOK, StopRecs
    <3>. QED
      BY <3>1 DEF StopHolds
  <2>3. CASE r # s
    BY <1>3, <2>1, <2>3 DEF TypeOK
  <2>. QED
    BY <2>2, <2>3
<1>12. ASSUME NEW x \in Stops, StopRequest(x) \/ StopClear(x)
       PROVE  Stored(t)' \/ t \in dropped'
  BY <1>3, <1>4, <1>12 DEF StopRequest, StopClear
<1>13. ASSUME NEW y \in Sweeps, SweepCollect(y)
       PROVE  Stored(t)' \/ SweepHolds(t)'
  <2>. DEFINE T(k) == {r \in Slots : ~Idle(r) /\ (k \in {"provider", "profile"} => slot[r].known)}
  <2>1. PICK k \in SweepKinds :
          /\ sweep' = [sweep EXCEPT ![y] = [pc |-> "clear", kind |-> k, todo |-> T(k),
                                             pids |-> {slot[r].pid : r \in T(k)} \ {0}]]
          /\ slot' = [r \in Slots |-> IF r \in T(k) THEN [slot[r] EXCEPT !.child = 0] ELSE slot[r]]
    BY <1>13, Zenon DEF SweepCollect
  <2>2. CASE s \in T(k)
    <3>1. t \in {slot[r].pid : r \in T(k)} \ {0}
      BY <1>2, <2>2, TokenIsPositive
    <3>2. sweep'[y].pc = "clear" /\ t \in sweep'[y].pids
      <4>. HIDE DEF T
      <4>. QED
        BY <2>1, <3>1 DEF TypeOK
    <3>. QED
      BY <3>2 DEF SweepHolds
  <2>3. CASE s \notin T(k)
    <3>. HIDE DEF T
    <3>. QED
      BY <1>3, <2>1, <2>3
  <2>. QED
    BY <2>2, <2>3
<1>14. ASSUME NEW y \in Sweeps, SweepClear(y) \/ SweepDone(y)
       PROVE  Stored(t)' \/ t \in dropped'
  BY <1>3, <1>4, <1>14 DEF SweepClear, SweepDone
<1>15. CASE UNCHANGED vars
  BY <1>3, <1>15 DEF vars
<1>. QED
  BY <1>5, <1>6, <1>7, <1>8, <1>9, <1>10, <1>11, <1>12, <1>13, <1>14, <1>15
     DEF Next, ReaperStep, FailerStep, StopStep, SweepStep

\* Every step keeps InCustody.
LEMMA CustodyStep ==
    ASSUME StackInv, InCustody, [Next]_vars
    PROVE  InCustody'
<1>. SUFFICES ASSUME NEW t \in Tokens, proc'[t] = "up"
              PROVE  InHand(t)' \/ Stored(t)' \/ t \in dropped'
  BY DEF InCustody, Up
<1>. USE DEF StackInv
<1>1. ASSUME NEW l \in Launches, Spawn(l), launch[l].tok = t, ~Up(t)
      PROVE  InHand(t)'
  <2>1. Goto(l, "claim")
    BY <1>1 DEF Spawn, Up
  <2>. QED
    BY <1>1, <2>1, GotoMoves DEF InHand, LaunchHolds
<1>2. CASE Up(t)
  <2>1. InHand(t) \/ Stored(t) \/ t \in dropped
    BY <1>2 DEF InCustody
  <2>2. ASSUME NEW u \in Tokens, Dies(u)
        PROVE  u # t
    BY <2>2 DEF Dies, TypeOK
  <2>3. CASE t \in killing
    BY <2>2, <2>3, KillAuthors DEF InHand, StartKill, Dies
  <2>4. CASE t \in dropped
    BY <2>2, <2>4, DropAuthors DEF ClearSlots, Dies
  <2>. QED
    BY <1>2, <2>1, <2>3, <2>4, LaunchHands, StopHands, SweepHands, FailerHands, ReaperHands,
       ChildHands DEF InHand
<1>. QED
  BY <1>1, <1>2, UpAuthors

\* The engine stack loses an engine only with a Child that was dropped: stopped
\* launches, cleanups and sweeps that overtake each other never forget one otherwise.
THEOREM EnginesEscapeOnlyByDrop == Spec => []EscapesOnlyByDrop
<1>1. Init => InCustody
  BY DEF Init, InCustody, Up
<1>2. StackInv /\ InCustody => EscapesOnlyByDrop
  <2>. SUFFICES ASSUME StackInv, InCustody, NEW t \in Tokens, Up(t)
                PROVE  Tracked(t) \/ t \in dropped
    BY DEF EscapesOnlyByDrop
  <2>1. CASE Stored(t)
    <3>1. \E s \in Slots : slot[s].pid = t
      BY <2>1, TokenIsPositive DEF Stored, StackInv, SlotOwnsItsProcess
    <3>. QED
      BY <3>1 DEF Tracked
  <2>2. CASE InHand(t)
    BY <2>2 DEF InHand, Tracked, LaunchHolds, StopHolds, SweepHolds, FailerHolds, ReaperHolds
  <2>. QED
    BY <2>1, <2>2 DEF InCustody
<1>. QED
  BY <1>1, <1>2, CustodyStep, StackInvariant, PTL DEF Spec
-----------------------------------------------------------------------------
(* Every reservation without a process is in a launch's hands *)

\* A launch at one of these points owns its reservation, or gives it back.
LEMMA WaitingMoves ==
    ASSUME StackInv, [Next]_vars, NEW l \in Launches, NEW s \in Slots,
           launch[l].pc \in {"reclaim", "unready", "check", "spawn", "claim", "retry", "release"},
           slot[s].res = launch[l].tok, ~Idle(s), slot[s].pid = 0,
           ~Idle(s)', slot'[s].pid = 0
    PROVE  /\ launch'[l].pc \in {"reclaim", "unready", "check", "spawn", "claim", "retry", "release"}
           /\ launch'[l].tok = launch[l].tok
<1>. USE DEF StackInv
<1>1. launch[l].slot = s /\ slot[s] \in SlotRecs
  BY DEF TokensKnowTheirSlot, TypeOK
<1>2. Bare(l)
  <2>1. slot[s].status = "Loading" /\ slot[s].child = 0
    BY <1>1 DEF RunningHasEngine, SlotOwnsItsProcess, Idle, SlotRecs
  <2>. QED
    BY <1>1, <2>1 DEF Bare
<1>3. CASE Reclaim(l) \/ ClearReady(l) \/ Spawn(l)
  BY <1>3, GotoMoves DEF Reclaim, ClearReady, Spawn, At
<1>4. CASE CheckReserved(l)
  BY <1>2, <1>4, GotoMoves DEF CheckReserved
<1>5. CASE Release(l)
  <2>1. slot'[s] = Vacant
    BY <1>1, <1>2, <1>5 DEF Release, ClearSlots
  <2>. QED
    BY <2>1 DEF Vacant, Idle
<1>6. CASE ClaimPid(l)
  <2>1. slot'[s].pid = launch[l].tok /\ launch[l].tok # 0
    BY <1>1, <1>6 DEF ClaimPid, TypeOK, SlotRecs, SlotOwnsItsProcess
  <2>. QED
    BY <2>1
<1>7. CASE Retry(l)
  <2>1. CASE launch' = [launch EXCEPT ![l].pc = "unready", ![l].retried = TRUE]
    BY <2>1 DEF TypeOK, LaunchRecs
  <2>2. CASE Goto(l, "release")
    BY <2>2, GotoMoves
  <2>. QED
    BY <1>1, <1>7, <2>1, <2>2 DEF Retry
<1>8. ASSUME NEW m \in Launches, LaunchStep(m), m # l
      PROVE  launch'[l] = launch[l]
  BY <1>8, LaunchKeepsToken DEF KeepsToken, Reserving
<1>9. ASSUME LaunchStep(l)
      PROVE  \/ Reclaim(l) \/ ClearReady(l) \/ Spawn(l) \/ CheckReserved(l) \/ Release(l)
             \/ ClaimPid(l) \/ Retry(l)
  BY <1>9 DEF LaunchStep, ResolveAlias, Reserve, Track, Settle, CrashCheck, CrashClear, Commit,
     WriteLock, Confirm, Rereserve, At
<1>. QED
  BY <1>3, <1>4, <1>5, <1>6, <1>7, <1>8, <1>9, LaunchAuthors

\* Every step keeps ReservationHasLauncher.
LEMMA ReservationStep ==
    ASSUME StackInv, ReservationHasLauncher, [Next]_vars
    PROVE  ReservationHasLauncher'
<1>. USE DEF StackInv
<1>. SUFFICES ASSUME NEW s \in Slots, ~Idle(s)', slot'[s].pid = 0
              PROVE  \E l \in Launches :
                        /\ launch'[l].tok = slot'[s].res
                        /\ launch'[l].pc \in {"reclaim", "unready", "check", "spawn", "claim",
                                              "retry", "release"}
  BY DEF ReservationHasLauncher
<1>1. SlotStep
  BY NextSlotStep
<1>2. ASSUME NEW l \in Launches, Reserving(l, s)
      PROVE  launch'[l].tok = slot'[s].res /\ launch'[l].pc \in {"reclaim", "unready"}
  BY <1>2 DEF Reserving, TypeOK
<1>3. CASE slot[s].status # "Idle" /\ slot'[s].res = slot[s].res /\ slot'[s].pid \in {slot[s].pid, slot[s].res}
  <2>1. ~Idle(s) /\ slot[s].pid = 0
    BY <1>3 DEF Idle, SlotOwnsItsProcess
  <2>2. PICK l \in Launches : /\ launch[l].tok = slot[s].res
                              /\ launch[l].pc \in {"reclaim", "unready", "check", "spawn", "claim",
                                                   "retry", "release"}
    BY <2>1 DEF ReservationHasLauncher
  <2>. QED
    BY <1>3, <2>1, <2>2, WaitingMoves
<1>. QED
  BY <1>1, <1>2, <1>3, BusySlotStep DEF Idle

\* A reserved slot that has no engine yet is never abandoned: cancelled, failed and
\* retried launches all give their reservation back, or go on with it.
THEOREM ReservationsHaveLaunchers == Spec => []ReservationHasLauncher
<1>1. Init => ReservationHasLauncher
  BY DEF Init, ReservationHasLauncher, Idle, Vacant
<1>. QED
  BY <1>1, ReservationStep, StackInvariant, PTL DEF Spec

-----------------------------------------------------------------------------
(* A slot whose Child was taken is about to be cleared *)

\* Who attends to a slot that shows a pid and holds no Child.
LaunchAttends(s) == \E l \in Launches :
    /\ launch[l].tok = slot[s].res
    /\ launch[l].pc \in {"track", "settle", "crashed", "crashclear", "commit"}
StopAttends(s)  == \E x \in Stops : stop[x].pc = "clear" /\ s \in Least(stop[x].todo)
SweepAttends(s) == \E y \in Sweeps : sweep[y].pc = "clear" /\ s \in sweep[y].todo
TaskAttends(s)  == \E t \in Tokens : /\ Home(t) = s
                                     /\ reaper[t].pc = "clear" \/ failer[t].pc \in {"take", "clear"}
OwnFailure(s)   == failer[slot[s].res].pc # "off"

\* Stronger than ChildlessSlotIsAttended: a stop call attends to the slot it is at,
\* not to those it will come to, and a failure that has not taken the Child yet is
\* the owner's own.
ChildlessInv == \A s \in Slots : slot[s].pid # 0 /\ slot[s].child = 0 =>
    LaunchAttends(s) \/ StopAttends(s) \/ SweepAttends(s) \/ TaskAttends(s) \/ OwnFailure(s)

Reset(s) == slot'[s] = Vacant /\ \E S : ClearSlots(S) /\ s \in S

Reserved(s) == /\ Idle(s) /\ slot'[s].status = "Loading" /\ slot'[s].res = nextRes
               /\ slot'[s].pid = 0 /\ slot'[s].child = 0
               /\ \E l \in Launches : /\ Reserve(l) \/ Rereserve(l)
                                      /\ launch'[l].tok = nextRes /\ launch'[l].port = slot'[s].port

PidStored(s) == \E l \in Launches : /\ ClaimPid(l) /\ launch[l].slot = s /\ slot[s].res = launch[l].tok
                                   /\ slot'[s] = [slot[s] EXCEPT !.pid = launch[l].tok]

Committed(s) == \E l \in Launches : /\ Commit(l) /\ launch[l].slot = s
                                    /\ slot[s].pid = launch[l].tok /\ slot[s].child = 0
                                    /\ slot'[s] = Loaded(slot[s], launch[l].tok)

Promoted(s) == slot'[s] = [slot[s] EXCEPT !.status = "Running"] /\ ~Idle(s)

Taken(s) ==
    /\ slot'[s] = [slot[s] EXCEPT !.child = 0]
    /\ \/ \E x \in Stops : /\ s \in Least(stop[x].todo)
                           /\ stop' = [stop EXCEPT ![x].pc = "clear", ![x].pid = slot[s].pid]
       \/ \E y \in Sweeps : sweep'[y].pc = "clear" /\ s \in sweep'[y].todo
       \/ \E t \in Tokens : Home(t) = s /\ (FailTake(t) \/ CrashTake(t))

\* All that may happen to one slot in a step, and by whose hand.
LEMMA SlotAuthors ==
    ASSUME StackInv, [Next]_vars, NEW s \in Slots
    PROVE  \/ slot'[s] = slot[s]
           \/ Reset(s) \/ Reserved(s) \/ PidStored(s) \/ Committed(s) \/ Promoted(s) \/ Taken(s)
<1>. USE DEF StackInv
<1>1. ASSUME NEW S, ClearSlots(S)
      PROVE  slot'[s] = slot[s] \/ Reset(s)
  BY <1>1 DEF ClearSlots, Reset
<1>2. ASSUME NEW l \in Launches, Reserve(l) \/ Rereserve(l), NEW r \in Slots, NEW p, NEW a, NEW b,
             ReserveFor(l, r, p, a, b)
      PROVE  slot'[s] = slot[s] \/ Reserved(s)
  <2>1. CASE r # s
    BY <1>2, <2>1 DEF ReserveFor, TypeOK
  <2>2. CASE r = s
    <3>1. slot'[s] = [status |-> "Loading", res |-> nextRes, pid |-> 0, child |-> 0, port |-> p,
                      alias |-> a, known |-> FALSE]
      BY <1>2, <2>2 DEF ReserveFor, TypeOK
    <3>2. launch'[l].tok = nextRes /\ launch'[l].port = p /\ Idle(s)
      BY <1>2, <2>2 DEF ReserveFor, TypeOK
    <3>. QED
      BY <1>2, <3>1, <3>2 DEF Reserved
  <2>. QED
    BY <2>1, <2>2
<1>3. ASSUME NEW l \in Launches, Reserve(l) \/ Rereserve(l)
      PROVE  slot'[s] = slot[s] \/ Reserved(s)
  <2>1. Rereserve(l) => launch[l].slot \in Slots
    BY DEF Rereserve, At, TokensKnowTheirSlot
  <2>2. \/ slot' = slot
        \/ \E r \in Slots : \E p, a, b : ReserveFor(l, r, p, a, b)
    BY <1>3, <2>1 DEF Reserve, Rereserve
  <2>. QED
    BY <1>2, <1>3, <2>2
<1>4. ASSUME NEW l \in Launches, ClaimPid(l)
      PROVE  slot'[s] = slot[s] \/ PidStored(s)
  BY <1>4 DEF ClaimPid, PidStored, TypeOK
<1>5. ASSUME NEW l \in Launches, Commit(l)
      PROVE  slot'[s] = slot[s] \/ Committed(s)
  BY <1>5 DEF Commit, Committed, TypeOK
<1>6. ASSUME NEW l \in Launches, LaunchStep(l)
      PROVE  slot'[s] = slot[s] \/ Reset(s) \/ Reserved(s) \/ PidStored(s) \/ Committed(s)
  BY <1>1, <1>3, <1>4, <1>5, <1>6 DEF LaunchStep, ResolveAlias, Reclaim, ClearReady, Release,
     CheckReserved, Spawn, Track, Settle, CrashCheck, CrashClear, WriteLock, Confirm, Retry
<1>7. ASSUME NEW t \in Tokens, FailTake(t) \/ CrashTake(t)
      PROVE  slot'[s] = slot[s] \/ Taken(s)
  <2>1. slot' = [slot EXCEPT ![Home(t)].child = 0]
    BY <1>7 DEF FailTake, CrashTake
  <2>. QED
    BY <1>7, <2>1 DEF Taken, TypeOK
<1>8. ASSUME NEW t \in Tokens, Promote(t)
      PROVE  slot'[s] = slot[s] \/ Promoted(s)
  BY <1>8 DEF Promote, Promoted, Idle, TypeOK
<1>9. ASSUME NEW t \in Tokens, FailClear(t) \/ CrashVacate(t)
      PROVE  slot'[s] = slot[s] \/ Reset(s)
  BY <1>1, <1>9 DEF FailClear, CrashVacate
<1>10. ASSUME NEW t \in Tokens, \/ EngineExits(t) \/ WatcherStep(t) \/ MarkReady(t) \/ Kill(t)
                                \/ ReaperWakes(t) \/ ReaperFails(t) \/ CrashRecheck(t) \/ FailRecheck(t)
       PROVE  slot'[s] = slot[s]
  BY <1>10 DEF EngineExits, WatcherStep, FireReady, ReaderFails, MarkReady, Kill, ReaperWakes,
     ReaperFails, CrashRecheck, FailRecheck
<1>11. ASSUME NEW x \in Stops, StopTake(x)
       PROVE  slot'[s] = slot[s] \/ Taken(s)
  <2>1. PICK r \in Least(stop[x].todo) :
              /\ stop' = [stop EXCEPT ![x].pc = "clear", ![x].pid = slot[r].pid]
              /\ slot' = [slot EXCEPT ![r].child = 0]
    BY <1>11 DEF StopTake
  <2>. QED
    BY <2>1 DEF Taken, TypeOK
<1>12. ASSUME NEW x \in Stops, StopRequest(x) \/ StopClear(x)
       PROVE  slot'[s] = slot[s] \/ Reset(s)
  BY <1>1, <1>12 DEF StopRequest, StopClear
<1>13. ASSUME NEW y \in Sweeps, SweepCollect(y)
       PROVE  slot'[s] = slot[s] \/ Taken(s)
  <2>. DEFINE T(k) == {r \in Slots : ~Idle(r) /\ (k \in {"provider", "profile"} => slot[r].known)}
  <2>1. PICK k \in SweepKinds :
          /\ sweep' = [sweep EXCEPT ![y] = [pc |-> "clear", kind |-> k, todo |-> T(k),
                                             pids |-> {slot[r].pid : r \in T(k)} \ {0}]]
          /\ slot' = [r \in Slots |-> IF r \in T(k) THEN [slot[r] EXCEPT !.child = 0] ELSE slot[r]]
    BY <1>13, Zenon DEF SweepCollect
  <2>. HIDE DEF T
  <2>2. CASE s \in T(k)
    <3>1. sweep'[y].pc = "clear" /\ s \in sweep'[y].todo
      BY <2>1, <2>2 DEF TypeOK
    <3>2. slot'[s] = [slot[s] EXCEPT !.child = 0]
      BY <2>1, <2>2
    <3>. QED
      BY <3>1, <3>2 DEF Taken
  <2>3. CASE s \notin T(k)
    BY <2>1, <2>3
  <2>. QED
    BY <2>2, <2>3
<1>14. ASSUME NEW y \in Sweeps, SweepClear(y) \/ SweepDone(y)
       PROVE  slot'[s] = slot[s] \/ Reset(s)
  BY <1>1, <1>14 DEF SweepClear, SweepDone
<1>15. CASE UNCHANGED vars
  BY <1>15 DEF vars
<1>. QED
  BY <1>6, <1>7, <1>8, <1>9, <1>10, <1>11, <1>12, <1>13, <1>14, <1>15
     DEF Next, ReaperStep, FailerStep, StopStep, SweepStep

\* Least of a set of slots has at most one element.
LEMMA LeastIsOne == \A T \in SUBSET Slots : \A r, s \in Least(T) : r = s
<1>1. Slots \subseteq Nat
  BY StackAssumption
<1>. QED
  BY <1>1 DEF Least

\* A slot that is not vacated keeps being attended to, or holds a Child again.
LEMMA LaunchAttendsOn ==
    ASSUME StackInv, [Next]_vars, NEW s \in Slots, LaunchAttends(s), slot[s].pid # 0, slot[s].child = 0,
           slot'[s].res = slot[s].res, slot'[s].pid # 0, slot'[s].child = 0
    PROVE  LaunchAttends(s)' \/ OwnFailure(s)'
<1>. USE DEF StackInv
<1>1. PICK l \in Launches : /\ launch[l].tok = slot[s].res
                            /\ launch[l].pc \in {"track", "settle", "crashed", "crashclear", "commit"}
  BY DEF LaunchAttends
<1>2. /\ slot[s].pid = slot[s].res /\ ~Idle(s) /\ slot[s] \in SlotRecs
      /\ launch[l].slot = s /\ launch[l].tok \in Tokens /\ Home(launch[l].tok) = s
  <2>1. slot[s].pid = slot[s].res /\ slot[s] \in SlotRecs /\ slot[s].res # 0
    BY DEF SlotOwnsItsProcess, TypeOK
  <2>2. slot[s].res \in Tokens /\ ~Idle(s)
    BY <2>1, StackAssumption DEF SlotOwnsItsProcess, SlotRecs, Token0, Tokens
  <2>. QED
    BY <1>1, <2>1, <2>2 DEF TokensKnowTheirSlot
<1>3. ASSUME NEW pc \in {"track", "settle", "crashed", "crashclear", "commit"}, Goto(l, pc)
      PROVE  LaunchAttends(s)'
  BY <1>1, <1>3, GotoMoves DEF LaunchAttends
<1>4. CASE Track(l) \/ Settle(l)
  BY <1>3, <1>4 DEF Track, Settle
<1>5. CASE CrashCheck(l)
  <2>1. Owns(launch[l].tok)
    BY <1>1, <1>2 DEF Owns
  <2>2. failer' = failer
    BY <1>5 DEF CrashCheck
  <2>. QED
    BY <1>1, <1>3, <1>5, <2>1, <2>2 DEF CrashCheck, Claimed, OwnFailure
<1>6. CASE CrashClear(l)
  <2>1. slot'[s] = Vacant
    BY <1>2, <1>6 DEF CrashClear, ClearSlots
  <2>. QED
    BY <2>1 DEF Vacant
<1>7. CASE Commit(l)
  <2>1. slot' = [slot EXCEPT ![s] = Loaded(slot[s], launch[l].tok)]
    BY <1>1, <1>2, <1>7 DEF Commit
  <2>. QED
    BY <1>2, <2>1, TokenIsPositive DEF Loaded, TypeOK
<1>8. ASSUME NEW m \in Launches, LaunchStep(m), m # l
      PROVE  launch'[l] = launch[l]
  BY <1>8, LaunchKeepsToken DEF KeepsToken, Reserving
<1>9. ASSUME LaunchStep(l)
      PROVE  Track(l) \/ Settle(l) \/ CrashCheck(l) \/ CrashClear(l) \/ Commit(l)
  BY <1>1, <1>9 DEF LaunchStep, ResolveAlias, Reserve, Reclaim, ClearReady, Release, CheckReserved,
     Spawn, ClaimPid, WriteLock, Confirm, Retry, Rereserve, At
<1>. QED
  BY <1>1, <1>4, <1>5, <1>6, <1>7, <1>8, <1>9, LaunchAuthors DEF LaunchAttends

\* The stop call at the slot is the one that clears it,
LEMMA StopAttendsOn ==
    ASSUME TypeOK, [Next]_vars, NEW s \in Slots, StopAttends(s), slot'[s].pid # 0
    PROVE  StopAttends(s)'
<1>1. PICK x \in Stops : stop[x].pc = "clear" /\ s \in Least(stop[x].todo)
  BY DEF StopAttends
<1>2. ~StopClear(x)
  <2>. SUFFICES ASSUME StopClear(x)
                PROVE  FALSE
    OBVIOUS
  <2>1. PICK r \in Least(stop[x].todo) : ClearSlots({r})
    BY DEF StopClear
  <2>2. r = s
    BY <1>1, <2>1, LeastIsOne DEF TypeOK, StopRecs
  <2>3. slot'[s] = Vacant
    BY <2>1, <2>2 DEF ClearSlots
  <2>. QED
    BY <2>3 DEF Vacant
<1>3. ASSUME NEW z \in Stops, StopRequest(z) \/ StopTake(z) \/ (StopClear(z) /\ z # x)
      PROVE  stop'[x] = stop[x]
  <2>1. z # x
    BY <1>1, <1>3 DEF StopRequest, StopTake
  <2>. QED
    BY <1>3, <2>1 DEF StopRequest, StopTake, StopClear, TypeOK
<1>4. stop'[x] = stop[x]
  BY <1>2, <1>3, StopAuthors
<1>. QED
  BY <1>1, <1>4 DEF StopAttends

\* and so is the sweep,
LEMMA SweepAttendsOn ==
    ASSUME TypeOK, [Next]_vars, NEW s \in Slots, SweepAttends(s), slot'[s].pid # 0
    PROVE  SweepAttends(s)'
<1>1. PICK y \in Sweeps : sweep[y].pc = "clear" /\ s \in sweep[y].todo
  BY DEF SweepAttends
<1>2. ~SweepClear(y)
  <2>1. SweepClear(y) => slot'[s] = Vacant
    BY <1>1 DEF SweepClear, ClearSlots
  <2>. QED
    BY <2>1 DEF Vacant
<1>3. ASSUME NEW z \in Sweeps, SweepCollect(z) \/ SweepDone(z) \/ (SweepClear(z) /\ z # y)
      PROVE  sweep'[y] = sweep[y]
  <2>1. z # y
    BY <1>1, <1>3 DEF SweepCollect, SweepDone
  <2>. QED
    BY <1>3, <2>1 DEF SweepCollect, SweepClear, SweepDone, TypeOK
<1>4. sweep'[y] = sweep[y]
  BY <1>2, <1>3, SweepAuthors
<1>. QED
  BY <1>1, <1>4 DEF SweepAttends

\* the reaper and the failure,
LEMMA TaskAttendsOn ==
    ASSUME StackInv, [Next]_vars, NEW s \in Slots, TaskAttends(s), slot'[s].pid # 0
    PROVE  TaskAttends(s)'
<1>. USE DEF StackInv
<1>1. PICK t \in Tokens : Home(t) = s /\ (reaper[t].pc = "clear" \/ failer[t].pc \in {"take", "clear"})
  BY DEF TaskAttends
<1>2. Home(t)' = s
  <2>1. t < nextRes /\ nextRes \in Nat /\ t \in Nat
    BY <1>1, TokenIsPositive DEF TokensKnowTheirSlot, Attended, TypeOK
  <2>2. attempt'[t] = attempt[t]
    BY <2>1, NextSlotStep DEF SlotStep, Frame, Reserving, TypeOK
  <2>. QED
    BY <1>1, <2>2 DEF Home
<1>3. ~CrashVacate(t) /\ ~FailClear(t)
  <2>1. CrashVacate(t) \/ FailClear(t) => slot'[s] = Vacant
    BY <1>1 DEF CrashVacate, FailClear, ClearSlots
  <2>. QED
    BY <2>1 DEF Vacant
<1>4. CASE reaper[t].pc = "clear"
  <2>1. ASSUME NEW z \in Tokens, \/ ReaperWakes(z) \/ ReaperFails(z) \/ CrashRecheck(z)
                                 \/ CrashTake(z) \/ CrashVacate(z)
        PROVE  reaper'[t] = reaper[t]
    BY <1>3, <1>4, <2>1 DEF ReaperWakes, ReaperFails, CrashRecheck, CrashTake, CrashVacate, TypeOK
  <2>2. reaper'[t] = reaper[t]
    BY <2>1, ReaperAuthors
  <2>. QED
    BY <1>2, <1>4, <2>2 DEF TaskAttends
<1>5. CASE failer[t].pc \in {"take", "clear"}
  <2>1. ASSUME NEW z \in Tokens, \/ ReaderFails(z) \/ ReaperFails(z) \/ FailRecheck(z)
                                 \/ FailTake(z) \/ FailClear(z)
        PROVE  failer'[t].pc \in {"take", "clear"}
    <3>1. CASE ReaderFails(z) \/ ReaperFails(z)
      BY <1>5, <3>1 DEF ReaderFails, ReaperFails, ClaimFailure, Claimed, TypeOK
    <3>2. CASE FailRecheck(z) \/ FailClear(z)
      BY <1>3, <1>5, <3>2 DEF FailRecheck, FailClear, TypeOK
    <3>3. CASE FailTake(z)
      BY <1>5, <3>3 DEF FailTake, TypeOK
    <3>. QED
      BY <2>1, <3>1, <3>2, <3>3
  <2>2. failer'[t].pc \in {"take", "clear"}
    BY <1>5, <2>1, FailerAuthors
  <2>. QED
    BY <1>2, <2>2 DEF TaskAttends
<1>. QED
  BY <1>1, <1>4, <1>5

\* and the owner's own failure.
LEMMA OwnFailureOn ==
    ASSUME StackInv, [Next]_vars, NEW s \in Slots, OwnFailure(s), slot[s].pid # 0,
           slot'[s].res = slot[s].res, slot'[s].pid # 0
    PROVE  OwnFailure(s)'
<1>. USE DEF StackInv
<1>1. PICK t \in Tokens : t = slot[s].res /\ ~Idle(s)
  <2>1. slot[s].res \in Token0 /\ slot[s].res # 0
    BY DEF SlotOwnsItsProcess, TypeOK, SlotRecs
  <2>. QED
    BY <2>1, StackAssumption DEF SlotOwnsItsProcess, Token0, Tokens
<1>2. Owns(t) /\ Home(t) = s
  BY <1>1 DEF TokensKnowTheirSlot, Owns
<1>3. ~FailClear(t)
  <2>1. FailClear(t) => slot'[s] = Vacant
    BY <1>2 DEF FailClear, ClearSlots
  <2>. QED
    BY <2>1 DEF Vacant
<1>4. ASSUME NEW z \in Tokens, \/ ReaderFails(z) \/ ReaperFails(z) \/ FailRecheck(z)
                               \/ FailTake(z) \/ FailClear(z)
      PROVE  failer'[t].pc # "off"
  <2>1. failer[t].pc # "off" /\ failer[t] \in CleanupRecs
    BY <1>1 DEF OwnFailure, TypeOK
  <2>2. CASE ReaderFails(z) \/ ReaperFails(z)
    BY <2>1, <2>2 DEF ReaderFails, ReaperFails, ClaimFailure, Claimed, TypeOK
  <2>3. CASE FailRecheck(z)
    <3>1. CASE z = t
      BY <1>1, <1>2, <2>3, <3>1 DEF FailRecheck, TypeOK
    <3>2. CASE z # t
      BY <2>1, <2>3, <3>2 DEF FailRecheck, TypeOK
    <3>. QED
      BY <3>1, <3>2
  <2>4. CASE FailTake(z)
    BY <2>1, <2>4 DEF FailTake, TypeOK
  <2>5. CASE FailClear(z)
    BY <1>3, <2>1, <2>5 DEF FailClear, TypeOK
  <2>. QED
    BY <1>4, <2>2, <2>3, <2>4, <2>5
<1>5. failer'[t].pc # "off"
  BY <1>1, <1>4, FailerAuthors DEF OwnFailure
<1>. QED
  BY <1>1, <1>5 DEF OwnFailure

\* Every step keeps ChildlessInv.
LEMMA ChildlessStep ==
    ASSUME StackInv, ChildlessInv, [Next]_vars
    PROVE  ChildlessInv'
<1>. USE DEF StackInv
<1>. SUFFICES ASSUME NEW s \in Slots, slot'[s].pid # 0, slot'[s].child = 0
              PROVE  \/ LaunchAttends(s)' \/ StopAttends(s)' \/ SweepAttends(s)' \/ TaskAttends(s)'
                     \/ OwnFailure(s)'
  BY DEF ChildlessInv
<1>0. slot[s] \in SlotRecs
  BY DEF TypeOK
<1>1. ~Reset(s) /\ ~Reserved(s)
  BY DEF Reset, Reserved, Vacant
<1>2. CASE PidStored(s)
  <2>1. PICK l \in Launches : /\ ClaimPid(l) /\ launch[l].slot = s /\ slot[s].res = launch[l].tok
                              /\ slot'[s] = [slot[s] EXCEPT !.pid = launch[l].tok]
    BY <1>2 DEF PidStored
  <2>2. slot'[s].res = slot[s].res
    BY <1>0, <2>1 DEF SlotRecs
  <2>3. Goto(l, "track")
    BY <2>1 DEF ClaimPid
  <2>. QED
    BY <2>1, <2>2, <2>3, GotoMoves DEF LaunchAttends
<1>3. CASE Committed(s)
  <2>1. slot'[s].child = slot[s].pid /\ slot'[s].pid = slot[s].pid
    BY <1>3 DEF Committed, Loaded
  <2>. QED
    BY <2>1
<1>4. CASE Taken(s)
  <2>1. ASSUME NEW x \in Stops, s \in Least(stop[x].todo),
               stop' = [stop EXCEPT ![x].pc = "clear", ![x].pid = slot[s].pid]
        PROVE  StopAttends(s)'
    <3>1. stop'[x].pc = "clear" /\ stop'[x].todo = stop[x].todo
      BY <2>1 DEF TypeOK, StopRecs
    <3>. QED
      BY <2>1, <3>1 DEF StopAttends, Least
  <2>2. ASSUME NEW t \in Tokens, Home(t) = s, FailTake(t) \/ CrashTake(t)
        PROVE  TaskAttends(s)'
    <3>1. Home(t)' = Home(t)
      BY <2>2 DEF FailTake, CrashTake, Home
    <3>2. failer'[t].pc = "clear" \/ reaper'[t].pc = "clear"
      BY <2>2 DEF FailTake, CrashTake, TypeOK
    <3>. QED
      BY <2>2, <3>1, <3>2 DEF TaskAttends
  <2>. QED
    BY <1>4, <2>1, <2>2 DEF Taken, SweepAttends
<1>5. CASE slot'[s] = slot[s] \/ Promoted(s)
  <2>1. slot[s].pid # 0 /\ slot[s].child = 0 /\ slot'[s].res = slot[s].res
    BY <1>0, <1>5 DEF Promoted, SlotRecs
  <2>2. LaunchAttends(s) \/ StopAttends(s) \/ SweepAttends(s) \/ TaskAttends(s) \/ OwnFailure(s)
    BY <2>1 DEF ChildlessInv
  <2>. QED
    BY <2>1, <2>2, LaunchAttendsOn, StopAttendsOn, SweepAttendsOn, TaskAttendsOn, OwnFailureOn
<1>. QED
  BY <1>1, <1>2, <1>3, <1>4, <1>5, SlotAuthors

\* A slot that shows a pid without holding the Child is never left so: the launch
\* that has not committed, or whoever took the Child, is at work on that very slot.
THEOREM ChildlessSlotsAreAttended == Spec => []ChildlessSlotIsAttended
<1>1. Init => ChildlessInv
  BY DEF Init, ChildlessInv, Vacant
<1>2. StackInv /\ ChildlessInv => ChildlessSlotIsAttended
  <2>. SUFFICES ASSUME StackInv, NEW s \in Slots, slot[s].pid # 0, slot[s].child = 0,
                       \/ LaunchAttends(s) \/ StopAttends(s) \/ SweepAttends(s) \/ TaskAttends(s)
                       \/ OwnFailure(s)
                PROVE  \/ LaunchAttends(s)
                       \/ \E x \in Stops : stop[x].pc = "clear" /\ s \in stop[x].todo
                       \/ SweepAttends(s)
                       \/ \E t \in Tokens : Home(t) = s /\ (reaper[t].pc = "clear" \/ failer[t].pc # "off")
    BY DEF ChildlessSlotIsAttended, ChildlessInv, LaunchAttends, SweepAttends
  <2>1. slot[s].res \in Tokens /\ Home(slot[s].res) = s
    <3>1. slot[s].res \in Token0 /\ slot[s].res # 0 /\ ~Idle(s)
      BY DEF StackInv, SlotOwnsItsProcess, TypeOK, SlotRecs
    <3>. QED
      BY <3>1, StackAssumption DEF StackInv, TokensKnowTheirSlot, Token0, Tokens
  <2>2. TaskAttends(s) => \E t \in Tokens : Home(t) = s /\ (reaper[t].pc = "clear" \/ failer[t].pc # "off")
    BY DEF TaskAttends
  <2>3. StopAttends(s) => \E x \in Stops : stop[x].pc = "clear" /\ s \in stop[x].todo
    BY DEF StopAttends, Least
  <2>. QED
    BY <2>1, <2>2, <2>3 DEF OwnFailure
<1>. QED
  BY <1>1, <1>2, ChildlessStep, StackInvariant, PTL DEF Spec
-----------------------------------------------------------------------------
(* A launch call and its token *)

\* The steps of a launch call that keep its token, and where they lead.
Moved(l) ==
    \/ Reclaim(l) /\ launch'[l].pc \in {"release", "unready"}
    \/ ClearReady(l) /\ launch'[l].pc = "check"
    \/ CheckReserved(l) /\ launch'[l].pc \in {"retry", "spawn"}
    \/ Spawn(l) /\ launch'[l].pc \in {"claim", "retry"}
    \/ ClaimPid(l) /\ launch'[l].pc = "track"
    \/ Track(l) /\ launch'[l].pc = "settle"
    \/ Settle(l) /\ launch'[l].pc \in {"commit", "crashed"}
    \/ CrashCheck(l) /\ launch'[l].pc = "crashclear"
    \/ CrashClear(l) /\ launch'[l].pc = "retry"
    \/ Commit(l) /\ launch'[l].pc = "lock"
    \/ WriteLock(l) /\ launch'[l].pc = "confirm"
    \/ Confirm(l) /\ launch'[l].pc = "live"
    \/ Retry(l) /\ launch'[l].pc = "rereserve"
    \/ Retry(l) /\ launch'[l].pc = "unready" /\ Bare(l)
    \/ Retry(l) /\ launch'[l].pc = "release"
    \/ Rereserve(l) /\ launch'[l].pc = "release"

\* A launch call rests, gets a token, ends, or moves on with the token it has.
LEMMA LaunchMoves ==
    ASSUME TypeOK, TokensKnowTheirSlot, [Next]_vars, NEW l \in Launches
    PROVE  \/ launch'[l] = launch[l]
           \/ \E s \in Slots : Reserving(l, s)
           \/ launch'[l].pc \in Start
           \/ /\ Moved(l)
              /\ launch'[l].tok = launch[l].tok /\ launch'[l].slot = launch[l].slot
              /\ launch'[l].port = launch[l].port
<1>1. ASSUME NEW m \in Launches, LaunchStep(m), m # l
      PROVE  launch'[l] = launch[l]
  BY <1>1, LaunchKeepsToken DEF KeepsToken, Reserving
<1>. DEFINE Kept == /\ launch'[l].tok = launch[l].tok /\ launch'[l].slot = launch[l].slot
                    /\ launch'[l].port = launch[l].port
<1>2. CASE ResolveAlias(l)
  <2>1. CASE \E a \in Aliases : launch' = [launch EXCEPT ![l].alias = a, ![l].pc = "reserve"]
    BY <2>1 DEF TypeOK, LaunchRecs, Start
  <2>. QED
    BY <1>2, <2>1, ReturnMoves DEF ResolveAlias, Start
<1>3. CASE Reserve(l)
  <2>1. launch[l].alias \in 0..MaxAlias
    BY DEF TypeOK, LaunchRecs
  <2>. QED
    BY <1>3, <2>1, ReserveForReserves, ReturnMoves DEF Reserve, Start
<1>4. CASE Rereserve(l)
  <2>1. /\ launch[l].alias \in 0..MaxAlias /\ launch[l].port \in Ports \cup {0}
        /\ launch[l].slot \in Slots
    BY <1>4 DEF TypeOK, LaunchRecs, TokensKnowTheirSlot, Rereserve, At
  <2>. QED
    BY <1>4, <2>1, ReserveForReserves, GotoMoves DEF Rereserve, Moved
<1>5. CASE Retry(l)
  <2>1. CASE launch' = [launch EXCEPT ![l].pc = "unready", ![l].retried = TRUE] /\ Bare(l)
    <3>1. Kept /\ launch'[l].pc = "unready"
      BY <2>1 DEF TypeOK, LaunchRecs
    <3>. QED
      BY <1>5, <2>1, <3>1 DEF Moved
  <2>2. CASE Goto(l, "rereserve") \/ Goto(l, "release")
    BY <1>5, <2>2, GotoMoves DEF Moved
  <2>. QED
    BY <1>5, <2>1, <2>2 DEF Retry
<1>6. CASE Reclaim(l) \/ ClearReady(l) \/ Spawn(l) \/ Track(l) \/ Settle(l) \/ WriteLock(l) \/ CrashClear(l)
  BY <1>6, GotoMoves DEF Moved, Reclaim, ClearReady, Spawn, Track, Settle, WriteLock, CrashClear
<1>7. CASE CheckReserved(l) \/ Confirm(l) \/ CrashCheck(l)
  BY <1>7, GotoMoves, ReturnMoves DEF Moved, CheckReserved, Confirm, CrashCheck, Start
<1>8. CASE Release(l)
  BY <1>8, ReturnMoves DEF Release, Start
<1>9. CASE ClaimPid(l) \/ Commit(l)
  BY <1>9, GotoMoves, ReturnMoves DEF Moved, ClaimPid, Commit, Start
<1>10. CASE launch' = launch
  BY <1>10
<1>. QED
  BY <1>1, <1>2, <1>3, <1>4, <1>5, <1>6, <1>7, <1>8, <1>9, <1>10, LaunchAuthors DEF LaunchStep

\* Where a token was handed out stays known.
LEMMA HomeStays ==
    ASSUME TypeOK, TokensKnowTheirSlot, [Next]_vars
    PROVE  /\ nextRes' >= nextRes /\ nextRes \in Nat /\ nextRes' \in Nat
           /\ \A t \in Tokens : t < nextRes => attempt'[t] = attempt[t] /\ Home(t)' = Home(t)
<1>1. nextRes \in Nat /\ \A t \in Tokens : t \in Nat
  BY StackAssumption DEF TypeOK, Tokens
<1>2. SlotStep
  BY NextSlotStep
<1>. QED
  BY <1>1, <1>2 DEF SlotStep, Frame, Reserving, TypeOK, Home

\* No two launch calls hold the same token.
OneLaunch == \A l, m \in Launches :
    launch[l].pc \notin Start /\ launch[m].pc \notin Start /\ launch[l].tok = launch[m].tok => l = m

LEMMA OneLaunchStep ==
    ASSUME StackInv, OneLaunch, [Next]_vars
    PROVE  OneLaunch'
<1>. USE DEF StackInv
<1>. SUFFICES ASSUME NEW l \in Launches, NEW m \in Launches, l # m,
                     launch'[l].pc \notin Start, launch'[m].pc \notin Start,
                     launch'[l].tok = launch'[m].tok
              PROVE  FALSE
  BY DEF OneLaunch
<1>1. \A k \in Launches : launch[k].pc \notin Start => launch[k].tok \in Nat /\ launch[k].tok < nextRes
  BY StackAssumption DEF TokensKnowTheirSlot, Start, TypeOK
<1>2. ASSUME NEW k \in Launches, launch'[k].pc \notin Start
      PROVE  \/ \E s \in Slots : Reserving(k, s)
             \/ launch[k].pc \notin Start /\ launch'[k].tok = launch[k].tok
  BY <1>2, LaunchMoves DEF Moved, Start, Reclaim, ClearReady, CheckReserved, Spawn, ClaimPid,
     Track, Settle, CrashCheck, CrashClear, Commit, WriteLock, Confirm, Retry, Rereserve, At
<1>3. ASSUME NEW j \in Launches, NEW k \in Launches, j # k, NEW s \in Slots, Reserving(j, s),
             launch'[k].pc \notin Start
      PROVE  launch'[k].tok # launch'[j].tok
  BY <1>1, <1>3 DEF Reserving, TypeOK
<1>. QED
  BY <1>2, <1>3 DEF OneLaunch
-----------------------------------------------------------------------------
(* No slot shows an engine that is being killed *)

\* A launch call whose attempt has not stored a pid yet.
Unclaimed(l) == \/ launch[l].pc \in {"reclaim", "unready", "check", "spawn", "claim"}
                \/ launch[l].pc = "retry" /\ Bare(l)

\* A launch call whose attempt has not stored its Child.
Uncommitted(l) == launch[l].pc \notin Start \cup {"lock", "confirm", "live"}

\* Somebody has seen the engine of t: a slot shows it or a task or call knows of it.
Seen(t) ==
    \/ \E s \in Slots : slot[s].pid = t
    \/ t \in killing
    \/ StopHolds(t) \/ SweepHolds(t)
    \/ failer[t].pc # "off" \/ reaper[t].pc # "off"
    \/ \E u \in Tokens : failer[u].took = t \/ reaper[u].took = t

\* Before the claim nobody knows of the engine, and before the spawn there is none;
\* before the commit no slot holds the Child.
UnclaimedUnseen == \A l \in Launches : Unclaimed(l) =>
    ~Seen(launch[l].tok) /\ (launch[l].pc # "claim" => proc[launch[l].tok] = "none")
UncommittedNotStored == \A l \in Launches : Uncommitted(l) => ~Stored(launch[l].tok)

\* What was taken out of a slot was handed out for that very slot.
TakenAtHome ==
    /\ \A t \in Tokens : failer[t].took # 0 =>
         t < nextRes /\ failer[t].took < nextRes /\ Home(failer[t].took) = Home(t)
    /\ \A t \in Tokens : reaper[t].took # 0 =>
         t < nextRes /\ reaper[t].took < nextRes /\ Home(reaper[t].took) = Home(t)
    /\ \A x \in Stops : stop[x].pc = "clear" /\ stop[x].pid # 0 =>
         stop[x].pid < nextRes /\ Home(stop[x].pid) \in Least(stop[x].todo)
    /\ \A y \in Sweeps : sweep[y].pc = "clear" =>
         \A t \in sweep[y].pids : t < nextRes /\ Home(t) \in sweep[y].todo

KillInv == OneLaunch /\ UnclaimedUnseen /\ UncommittedNotStored /\ TakenAtHome /\ KilledEngineHasNoSlot

\* A slot shows the pid and holds the Child of an attempt made for it.
LEMMA ShownAtHome ==
    ASSUME StackInv, NEW s \in Slots
    PROVE  /\ slot[s].pid # 0 => /\ slot[s].pid \in Tokens /\ slot[s].pid < nextRes
                                 /\ Home(slot[s].pid) = s
           /\ slot[s].child # 0 => /\ slot[s].child \in Tokens /\ slot[s].child < nextRes
                                   /\ Home(slot[s].child) = s
<1>. USE DEF StackInv
<1>1. slot[s].res \in Token0 /\ slot[s].pid \in {0, slot[s].res} /\ slot[s].child \in {0, slot[s].pid}
  BY DEF SlotOwnsItsProcess, TypeOK, SlotRecs
<1>2. slot[s].res # 0 => slot[s].res \in Tokens /\ slot[s].res < nextRes /\ Home(slot[s].res) = s
  BY <1>1, StackAssumption DEF Token0, Tokens, SlotOwnsItsProcess, TokensKnowTheirSlot
<1>. QED
  BY <1>1, <1>2

\* Every step keeps TakenAtHome.
LEMMA TakenAtHomeStep ==
    ASSUME StackInv, TakenAtHome, [Next]_vars
    PROVE  TakenAtHome'
<1>. USE DEF StackInv
<1>1. \A t \in Tokens : t < nextRes => t < nextRes' /\ attempt'[t].slot = Home(t)
  BY HomeStays, TokenIsPositive DEF Home
<1>2. /\ \A t \in Tokens : failer[t].took \in Token0 /\ reaper[t].took \in Token0
      /\ \A n \in Token0 : n # 0 => n \in Tokens
  BY StackAssumption DEF TypeOK, CleanupRecs, Token0, Tokens
<1>3. ASSUME NEW t \in Tokens, failer'[t].took # 0
      PROVE  t < nextRes' /\ failer'[t].took < nextRes' /\ attempt'[failer'[t].took].slot = attempt'[t].slot
  <2>1. CASE failer'[t].took = failer[t].took
    BY <1>1, <1>2, <1>3, <2>1 DEF TakenAtHome
  <2>2. CASE FailTake(t)
    <3>1. failer'[t].took = slot[Home(t)].child /\ Home(t) \in Slots /\ t < nextRes
      BY <2>2 DEF FailTake, TypeOK, TokensKnowTheirSlot, Attended
    <3>2. slot[Home(t)].child \in Tokens /\ slot[Home(t)].child < nextRes /\ Home(slot[Home(t)].child) = Home(t)
      BY <1>3, <3>1, ShownAtHome
    <3>. QED
      BY <1>1, <3>1, <3>2
  <2>3. ASSUME NEW u \in Tokens, \/ ReaderFails(u) \/ ReaperFails(u) \/ FailRecheck(u)
                                 \/ FailClear(u) \/ (FailTake(u) /\ u # t)
        PROVE  failer'[t].took = failer[t].took
    <3>0. ASSUME NEW pc, failer' = [failer EXCEPT ![u].pc = pc]
          PROVE  failer'[t].took = failer[t].took
      BY <3>0 DEF TypeOK, CleanupRecs
    <3>1. CASE ReaderFails(u) \/ ReaperFails(u)
      BY <3>0, <3>1 DEF ReaderFails, ReaperFails, ClaimFailure
    <3>2. CASE FailRecheck(u)
      BY <3>2 DEF FailRecheck, TypeOK, CleanupRecs
    <3>3. CASE FailClear(u)
      BY <1>3, <3>3 DEF FailClear, TypeOK
    <3>4. CASE FailTake(u) /\ u # t
      BY <3>4 DEF FailTake, TypeOK
    <3>. QED
      BY <2>3, <3>1, <3>2, <3>3, <3>4
  <2>. QED
    BY <2>1, <2>2, <2>3, FailerAuthors
<1>4. ASSUME NEW t \in Tokens, reaper'[t].took # 0
      PROVE  t < nextRes' /\ reaper'[t].took < nextRes' /\ attempt'[reaper'[t].took].slot = attempt'[t].slot
  <2>1. CASE reaper'[t].took = reaper[t].took
    BY <1>1, <1>2, <1>4, <2>1 DEF TakenAtHome
  <2>2. CASE CrashTake(t)
    <3>1. reaper'[t].took = slot[Home(t)].child /\ Home(t) \in Slots /\ t < nextRes
      BY <2>2 DEF CrashTake, TypeOK, TokensKnowTheirSlot, Attended
    <3>2. slot[Home(t)].child \in Tokens /\ slot[Home(t)].child < nextRes /\ Home(slot[Home(t)].child) = Home(t)
      BY <1>4, <3>1, ShownAtHome
    <3>. QED
      BY <1>1, <3>1, <3>2
  <2>3. ASSUME NEW u \in Tokens, \/ ReaperWakes(u) \/ ReaperFails(u) \/ CrashRecheck(u)
                                 \/ CrashVacate(u) \/ (CrashTake(u) /\ u # t)
        PROVE  reaper'[t].took = reaper[t].took
    <3>0. ASSUME NEW pc, reaper' = [reaper EXCEPT ![u].pc = pc]
          PROVE  reaper'[t].took = reaper[t].took
      BY <3>0 DEF TypeOK, CleanupRecs
    <3>1. CASE ReaperWakes(u) \/ ReaperFails(u) \/ CrashRecheck(u)
      BY <3>0, <3>1 DEF ReaperWakes, ReaperFails, CrashRecheck
    <3>3. CASE CrashVacate(u)
      BY <1>4, <3>3 DEF CrashVacate, TypeOK
    <3>4. CASE CrashTake(u) /\ u # t
      BY <3>4 DEF CrashTake, TypeOK
    <3>. QED
      BY <2>3, <3>1, <3>3, <3>4
  <2>. QED
    BY <2>1, <2>2, <2>3, ReaperAuthors
<1>5. ASSUME NEW x \in Stops, stop'[x].pc = "clear", stop'[x].pid # 0
      PROVE  stop'[x].pid < nextRes' /\ attempt'[stop'[x].pid].slot \in Least(stop'[x].todo)
  <2>1. CASE stop'[x] = stop[x]
    <3>1. stop[x].pid \in Tokens
      BY <1>2, <1>5, <2>1 DEF TypeOK, StopRecs
    <3>2. stop[x].pid < nextRes /\ Home(stop[x].pid) \in Least(stop[x].todo)
      BY <1>5, <2>1 DEF TakenAtHome
    <3>. QED
      BY <1>1, <2>1, <3>1, <3>2
  <2>2. CASE StopTake(x)
    <3>1. PICK s \in Least(stop[x].todo) : stop' = [stop EXCEPT ![x].pc = "clear", ![x].pid = slot[s].pid]
      BY <2>2 DEF StopTake
    <3>2. s \in Slots /\ stop'[x].pid = slot[s].pid /\ stop'[x].todo = stop[x].todo
      BY <3>1 DEF Least, TypeOK, StopRecs
    <3>. QED
      BY <1>1, <1>5, <3>1, <3>2, ShownAtHome
  <2>3. ASSUME NEW z \in Stops, StopRequest(z) \/ StopClear(z) \/ (StopTake(z) /\ z # x)
        PROVE  stop'[x] = stop[x]
    <3>1. CASE StopRequest(z)
      <4>1. \E S : stop' = [stop EXCEPT ![z].pc = "take", ![z].todo = S]
        BY <3>1, Zenon DEF StopRequest
      <4>. QED
        BY <1>5, <4>1 DEF TypeOK, StopRecs
    <3>2. CASE StopClear(z)
      BY <1>5, <3>2 DEF StopClear, TypeOK
    <3>3. CASE StopTake(z) /\ z # x
      BY <3>3 DEF StopTake, TypeOK
    <3>. QED
      BY <2>3, <3>1, <3>2, <3>3
  <2>. QED
    BY <2>1, <2>2, <2>3, StopAuthors
<1>6. ASSUME NEW y \in Sweeps, sweep'[y].pc = "clear", NEW t \in sweep'[y].pids
      PROVE  t < nextRes' /\ attempt'[t].slot \in sweep'[y].todo
  <2>1. CASE sweep'[y] = sweep[y]
    <3>1. t \in Tokens
      BY <2>1 DEF TypeOK, SweepRecs
    <3>2. t < nextRes /\ Home(t) \in sweep[y].todo
      BY <1>6, <2>1 DEF TakenAtHome
    <3>. QED
      BY <1>1, <2>1, <3>1, <3>2
  <2>2. CASE SweepCollect(y)
    <3>. DEFINE T(k) == {r \in Slots : ~Idle(r) /\ (k \in {"provider", "profile"} => slot[r].known)}
    <3>1. PICK k \in SweepKinds :
            sweep' = [sweep EXCEPT ![y] = [pc |-> "clear", kind |-> k, todo |-> T(k),
                                           pids |-> {slot[r].pid : r \in T(k)} \ {0}]]
      BY <2>2, Zenon DEF SweepCollect
    <3>2. sweep'[y].todo = T(k) /\ sweep'[y].pids = {slot[r].pid : r \in T(k)} \ {0}
      <4>. HIDE DEF T
      <4>. QED
        BY <3>1 DEF TypeOK
    <3>3. PICK r \in T(k) : t = slot[r].pid /\ t # 0
      <4>. HIDE DEF T
      <4>. QED
        BY <3>2
    <3>4. r \in Slots
      BY <3>3
    <3>. HIDE DEF T
    <3>. QED
      BY <1>1, <3>2, <3>3, <3>4, ShownAtHome
  <2>3. ASSUME NEW z \in Sweeps, SweepClear(z) \/ SweepDone(z) \/ (SweepCollect(z) /\ z # y)
        PROVE  sweep'[y] = sweep[y]
    BY <1>6, <2>3 DEF SweepCollect, SweepClear, SweepDone, TypeOK, SweepRecs
  <2>. QED
    BY <2>1, <2>2, <2>3, SweepAuthors
<1>. QED
  BY <1>3, <1>4, <1>5, <1>6 DEF TakenAtHome, Home, Least

\* Who starts to kill the engine of t.
LEMMA KillSources ==
    ASSUME [Next]_vars, NEW t, t \in killing', t \notin killing
    PROVE  \/ \E l \in Launches : (ClaimPid(l) \/ Commit(l)) /\ launch[l].tok = t /\ Return(l)
           \/ \E u \in Tokens : FailClear(u) /\ (u = t \/ failer[u].took = t)
           \/ \E u \in Tokens : CrashVacate(u) /\ reaper[u].took = t
           \/ \E x \in Stops : StopClear(x) /\ stop[x].pid = t
           \/ \E y \in Sweeps : SweepClear(y) /\ t \in sweep[y].pids
<1>1. ASSUME NEW K, StartKill(K)
      PROVE  t \in K
  BY <1>1 DEF StartKill
<1>2. ASSUME NEW l \in Launches, LaunchStep(l)
      PROVE  (ClaimPid(l) \/ Commit(l)) /\ launch[l].tok = t /\ Return(l)
  <2>1. CASE ClaimPid(l) \/ Commit(l)
    BY <1>1, <2>1 DEF ClaimPid, Commit
  <2>. QED
    BY <1>2, <2>1 DEF LaunchStep, ResolveAlias, Reserve, Reclaim, ClearReady, Release,
       CheckReserved, Spawn, Track, Settle, CrashCheck, CrashClear, WriteLock, Confirm, Retry, Rereserve
<1>3. ASSUME NEW u \in Tokens, ReaperStep(u) \/ FailerStep(u)
      PROVE  \/ FailClear(u) /\ (u = t \/ failer[u].took = t)
             \/ CrashVacate(u) /\ reaper[u].took = t
  <2>1. CASE FailClear(u)
    BY <1>1, <2>1 DEF FailClear
  <2>2. CASE CrashVacate(u)
    BY <1>1, <2>2 DEF CrashVacate
  <2>. QED
    BY <1>3, <2>1, <2>2 DEF ReaperStep, ReaperWakes, ReaperFails, CrashRecheck, CrashTake, FailerStep,
       FailRecheck, FailTake
<1>4. ASSUME NEW x \in Stops, StopRequest(x) \/ StopStep(x)
      PROVE  StopClear(x) /\ stop[x].pid = t
  <2>1. CASE StopClear(x)
    BY <1>1, <2>1 DEF StopClear
  <2>. QED
    BY <1>4, <2>1 DEF StopRequest, StopStep, StopTake
<1>5. ASSUME NEW y \in Sweeps, SweepCollect(y) \/ SweepStep(y)
      PROVE  SweepClear(y) /\ t \in sweep[y].pids
  <2>1. CASE SweepClear(y)
    BY <1>1, <2>1 DEF SweepClear
  <2>. QED
    BY <1>5, <2>1 DEF SweepCollect, SweepStep, SweepDone
<1>. QED
  BY <1>2, <1>3, <1>4, <1>5 DEF Next, EngineExits, WatcherStep, FireReady, ReaderFails, Promote,
     MarkReady, Kill, Dies, vars

\* A commit that is refused found the slot in other hands, or holding the Child.
LEMMA RefusedByOthers ==
    ASSUME StackInv, NEW l \in Launches, ClaimPid(l) \/ Commit(l), Return(l),
           NEW s \in Slots, slot[s].pid = launch[l].tok
    PROVE  Commit(l) /\ slot[s].child = launch[l].tok
<1>. USE DEF StackInv
<1>1. /\ launch[l].tok \in Tokens /\ launch[l].slot = Home(launch[l].tok) /\ launch[l].tok < nextRes
  <2>1. launch[l].pc \in {"claim", "commit"}
    BY DEF ClaimPid, Commit, At
  <2>2. launch[l].tok \in 1..(nextRes - 1) /\ launch[l].slot = Home(launch[l].tok)
    BY <2>1 DEF TokensKnowTheirSlot
  <2>. QED
    BY <2>2, StackAssumption DEF TypeOK, Tokens
<1>2. launch[l].slot = s
  BY <1>1, ShownAtHome, TokenIsPositive
<1>3. slot[s].res = launch[l].tok /\ ~Idle(s)
  BY <1>1, TokenIsPositive DEF SlotOwnsItsProcess
<1>4. launch'[l].pc = "done"
  BY ReturnMoves
<1>5. ~ClaimPid(l)
  BY <1>2, <1>3, <1>4, GotoMoves DEF ClaimPid
<1>6. slot[s].child # 0
  BY <1>2, <1>3, <1>4, <1>5, GotoMoves DEF Commit
<1>. QED
  BY <1>5, <1>6 DEF SlotOwnsItsProcess

\* Every step keeps KilledEngineHasNoSlot.
LEMMA KilledStep ==
    ASSUME StackInv, KillInv, [Next]_vars
    PROVE  KilledEngineHasNoSlot'
<1>. USE DEF StackInv, KillInv
<1>. SUFFICES ASSUME NEW s \in Slots, slot'[s].pid # 0, slot'[s].pid \in killing'
              PROVE  FALSE
  BY DEF KilledEngineHasNoSlot
<1>0. slot[s] \in SlotRecs /\ ~Reset(s) /\ ~Reserved(s)
  BY DEF TypeOK, Reset, Reserved, Vacant
<1>1. CASE PidStored(s)
  <2>1. PICK l \in Launches : /\ ClaimPid(l) /\ launch[l].slot = s /\ slot[s].res = launch[l].tok
                              /\ slot'[s] = [slot[s] EXCEPT !.pid = launch[l].tok]
    BY <1>1 DEF PidStored
  <2>2. slot'[s].pid = launch[l].tok
    BY <1>0, <2>1 DEF SlotRecs
  <2>3. killing' = killing
    BY <2>1 DEF ClaimPid
  <2>4. Unclaimed(l)
    BY <2>1 DEF ClaimPid, At, Unclaimed
  <2>. QED
    BY <2>2, <2>3, <2>4 DEF UnclaimedUnseen, Seen
<1>2. CASE slot'[s].pid = slot[s].pid
  <2>. DEFINE t == slot[s].pid
  <2>1. t \in Tokens /\ t < nextRes /\ Home(t) = s /\ t \notin killing
    BY <1>2, ShownAtHome DEF KilledEngineHasNoSlot
  <2>2. ASSUME NEW S, ClearSlots(S), s \in S
        PROVE  FALSE
    BY <2>2 DEF ClearSlots, Vacant
  <2>3. ASSUME NEW l \in Launches, ClaimPid(l) \/ Commit(l), launch[l].tok = t, Return(l)
        PROVE  FALSE
    <3>1. Commit(l) /\ Stored(launch[l].tok)
      BY <2>3, RefusedByOthers DEF Stored
    <3>2. Uncommitted(l)
      BY <3>1 DEF Commit, At, Uncommitted, Start
    <3>. QED
      BY <3>1, <3>2 DEF UncommittedNotStored
  <2>4. ASSUME NEW u \in Tokens, FailClear(u), u = t \/ failer[u].took = t
        PROVE  FALSE
    <3>1. Home(u) = s
      BY <1>2, <2>1, <2>4 DEF TakenAtHome
    <3>. QED
      BY <2>2, <2>4, <3>1 DEF FailClear
  <2>5. ASSUME NEW u \in Tokens, CrashVacate(u), reaper[u].took = t
        PROVE  FALSE
    <3>1. Home(u) = s
      BY <1>2, <2>1, <2>5 DEF TakenAtHome
    <3>. QED
      BY <2>2, <2>5, <3>1 DEF CrashVacate
  <2>6. ASSUME NEW x \in Stops, StopClear(x), stop[x].pid = t
        PROVE  FALSE
    <3>1. PICK r \in Least(stop[x].todo) : ClearSlots({r})
      BY <2>6 DEF StopClear
    <3>2. s \in Least(stop[x].todo)
      BY <1>2, <2>1, <2>6 DEF TakenAtHome, StopClear
    <3>3. r = s
      BY <3>1, <3>2, LeastIsOne DEF TypeOK, StopRecs
    <3>. QED
      BY <2>2, <3>1, <3>3
  <2>7. ASSUME NEW y \in Sweeps, SweepClear(y), t \in sweep[y].pids
        PROVE  FALSE
    <3>1. s \in sweep[y].todo
      BY <2>1, <2>7 DEF TakenAtHome, SweepClear
    <3>. QED
      BY <2>2, <2>7, <3>1 DEF SweepClear
  <2>. QED
    BY <1>2, <2>1, <2>3, <2>4, <2>5, <2>6, <2>7, KillSources
<1>3. slot'[s].pid = slot[s].pid \/ PidStored(s)
  <2>1. Committed(s) => slot'[s].pid = slot[s].pid
    BY DEF Committed, Loaded
  <2>2. Promoted(s) => slot'[s].pid = slot[s].pid
    BY <1>0 DEF Promoted, SlotRecs
  <2>3. Taken(s) => slot'[s].pid = slot[s].pid
    <3>1. Taken(s) => slot'[s] = [slot[s] EXCEPT !.child = 0]
      BY DEF Taken
    <3>. QED
      BY <1>0, <3>1 DEF SlotRecs
  <2>. QED
    BY <1>0, <2>1, <2>2, <2>3, SlotAuthors
<1>. QED
  BY <1>1, <1>2, <1>3

\* Every step keeps UncommittedNotStored.
LEMMA UncommittedNotStoredStep ==
    ASSUME StackInv, OneLaunch, UncommittedNotStored, [Next]_vars
    PROVE  UncommittedNotStored'
<1>. USE DEF StackInv
<1>. SUFFICES ASSUME NEW l \in Launches, Uncommitted(l)', NEW s \in Slots,
                     slot'[s].child = launch'[l].tok
              PROVE  FALSE
  BY DEF UncommittedNotStored, Stored
<1>1. CASE \E r \in Slots : Reserving(l, r)
  <2>1. PICK r \in Slots : Reserving(l, r)
    BY <1>1
  <2>2. launch'[l].tok = nextRes /\ nextRes \in Nat \ {0}
    BY <2>1 DEF Reserving, TypeOK
  <2>3. slot'[s].child = 0 \/ slot'[s] = slot[s]
    BY <2>1 DEF Reserving, TypeOK
  <2>. QED
    BY <2>2, <2>3, ShownAtHome, TokenIsPositive
<1>2. CASE launch'[l].tok = launch[l].tok /\ Uncommitted(l)
  <2>1. launch[l].tok \in Tokens
    BY <1>2, StackAssumption DEF Uncommitted, Start, TokensKnowTheirSlot, Tokens, TypeOK
  <2>2. slot'[s].child # 0 /\ slot'[s].child # slot[s].child
    BY <1>2, <2>1, TokenIsPositive DEF UncommittedNotStored, Stored
  <2>3. slot[s] \in SlotRecs
    BY DEF TypeOK
  <2>4. ~Reset(s) /\ ~Reserved(s) /\ ~PidStored(s) /\ ~Promoted(s)
    <3>1. ~Reset(s) /\ ~Reserved(s)
      BY <2>2 DEF Reset, Vacant, Reserved
    <3>2. ~PidStored(s)
      BY <2>2, <2>3 DEF PidStored, SlotRecs
    <3>3. ~Promoted(s)
      BY <2>2, <2>3 DEF Promoted, SlotRecs
    <3>. QED
      BY <3>1, <3>2, <3>3
  <2>5. ~Taken(s)
    <3>1. Taken(s) => slot'[s] = [slot[s] EXCEPT !.child = 0]
      BY DEF Taken
    <3>. QED
      BY <2>2, <2>3, <3>1 DEF SlotRecs
  <2>6. PICK m \in Launches : Commit(m) /\ slot'[s] = Loaded(slot[s], launch[m].tok)
    BY <2>2, <2>4, <2>5, SlotAuthors DEF Committed
  <2>7. launch[m].tok = launch[l].tok /\ launch[m].pc = "commit"
    BY <1>2, <2>6 DEF Loaded, Commit, At
  <2>8. m = l
    BY <1>2, <2>7 DEF OneLaunch, Uncommitted, Start
  <2>9. launch'[l].pc = "lock"
    BY <2>2, <2>6, <2>8, GotoMoves DEF Commit
  <2>. QED
    BY <2>9 DEF Uncommitted
<1>3. Uncommitted(l)' => launch'[l].pc \notin Start \cup {"lock", "confirm", "live"}
  BY DEF Uncommitted
<1>. QED
  BY <1>1, <1>2, <1>3, LaunchMoves DEF Uncommitted, Moved, Start, Reclaim, ClearReady, CheckReserved,
     Spawn, ClaimPid, Track, Settle, CrashCheck, CrashClear, Commit, WriteLock, Confirm, Retry,
     Rereserve, At

\* An engine becomes known through its launch call or through a task that started
\* after the call stored the pid.
LEMMA SeenStep ==
    ASSUME StackInv, [Next]_vars, NEW t \in Tokens, Seen(t)', ~Seen(t)
    PROVE  \/ \E m \in Launches : /\ launch[m].tok = t
                                  /\ ClaimPid(m) \/ launch[m].pc \in {"commit", "live"}
           \/ Started(t)
<1>. USE DEF StackInv
<1>1. ASSUME NEW s \in Slots, slot'[s].pid = t
      PROVE  \E m \in Launches : launch[m].tok = t /\ ClaimPid(m)
  <2>1. slot'[s].pid # 0 /\ slot'[s].pid # slot[s].pid /\ slot[s] \in SlotRecs
    BY <1>1, TokenIsPositive DEF Seen, TypeOK
  <2>2. ~Reset(s) /\ ~Reserved(s) /\ ~Committed(s) /\ ~Promoted(s)
    <3>1. ~Reset(s) /\ ~Reserved(s)
      BY <2>1 DEF Reset, Vacant, Reserved
    <3>2. ~Committed(s)
      <4>1. Committed(s) => slot'[s].pid = slot[s].pid
        BY DEF Committed, Loaded
      <4>. QED
        BY <2>1, <4>1
    <3>3. ~Promoted(s)
      BY <2>1 DEF Promoted, SlotRecs
    <3>. QED
      BY <3>1, <3>2, <3>3
  <2>3. ~Taken(s)
    <3>1. Taken(s) => slot'[s] = [slot[s] EXCEPT !.child = 0]
      BY DEF Taken
    <3>. QED
      BY <2>1, <3>1 DEF SlotRecs
  <2>4. PICK m \in Launches : ClaimPid(m) /\ slot'[s] = [slot[s] EXCEPT !.pid = launch[m].tok]
    BY <2>1, <2>2, <2>3, SlotAuthors DEF PidStored
  <2>. QED
    BY <1>1, <2>1, <2>4 DEF SlotRecs
<1>2. ASSUME t \in killing'
      PROVE  \E m \in Launches : launch[m].tok = t /\ (ClaimPid(m) \/ launch[m].pc = "commit")
  <2>1. ~ \E u \in Tokens : FailClear(u) /\ (u = t \/ failer[u].took = t)
    BY DEF FailClear, Seen
  <2>2. ~ \E u \in Tokens : CrashVacate(u) /\ reaper[u].took = t
    BY DEF Seen
  <2>3. ~ \E x \in Stops : StopClear(x) /\ stop[x].pid = t
    BY DEF StopClear, Seen, StopHolds
  <2>4. ~ \E y \in Sweeps : SweepClear(y) /\ t \in sweep[y].pids
    BY DEF SweepClear, Seen, SweepHolds
  <2>5. t \notin killing
    BY DEF Seen
  <2>. QED
    BY <1>2, <2>1, <2>2, <2>3, <2>4, <2>5, KillSources DEF Commit, At
<1>3. ~StopHolds(t)'
  <2>. SUFFICES ASSUME NEW x \in Stops, stop'[x].pc = "clear", stop'[x].pid = t
                PROVE  FALSE
    BY DEF StopHolds
  <2>1. CASE stop'[x] = stop[x]
    BY <2>1 DEF Seen, StopHolds
  <2>2. CASE StopTake(x)
    <3>1. PICK s \in Least(stop[x].todo) : stop' = [stop EXCEPT ![x].pc = "clear", ![x].pid = slot[s].pid]
      BY <2>2 DEF StopTake
    <3>2. s \in Slots /\ slot[s].pid = t
      BY <3>1 DEF Least, TypeOK, StopRecs
    <3>. QED
      BY <3>2 DEF Seen
  <2>3. ASSUME NEW z \in Stops, StopRequest(z) \/ StopClear(z) \/ (StopTake(z) /\ z # x)
        PROVE  stop'[x] = stop[x]
    <3>1. CASE StopRequest(z)
      <4>1. \E S : stop' = [stop EXCEPT ![z].pc = "take", ![z].todo = S]
        BY <3>1, Zenon DEF StopRequest
      <4>. QED
        BY <4>1 DEF TypeOK, StopRecs
    <3>2. CASE StopClear(z)
      BY <3>2 DEF StopClear, TypeOK
    <3>3. CASE StopTake(z) /\ z # x
      BY <3>3 DEF StopTake, TypeOK
    <3>. QED
      BY <2>3, <3>1, <3>2, <3>3
  <2>. QED
    BY <2>1, <2>2, <2>3, StopAuthors
<1>4. ~SweepHolds(t)'
  <2>. SUFFICES ASSUME NEW y \in Sweeps, sweep'[y].pc = "clear", t \in sweep'[y].pids
                PROVE  FALSE
    BY DEF SweepHolds
  <2>1. CASE sweep'[y] = sweep[y]
    BY <2>1 DEF Seen, SweepHolds
  <2>2. CASE SweepCollect(y)
    <3>. DEFINE T(k) == {r \in Slots : ~Idle(r) /\ (k \in {"provider", "profile"} => slot[r].known)}
    <3>1. PICK k \in SweepKinds :
            sweep' = [sweep EXCEPT ![y] = [pc |-> "clear", kind |-> k, todo |-> T(k),
                                           pids |-> {slot[r].pid : r \in T(k)} \ {0}]]
      BY <2>2, Zenon DEF SweepCollect
    <3>2. sweep'[y].pids = {slot[r].pid : r \in T(k)} \ {0}
      <4>. HIDE DEF T
      <4>. QED
        BY <3>1 DEF TypeOK
    <3>3. PICK r \in T(k) : t = slot[r].pid
      <4>. HIDE DEF T
      <4>. QED
        BY <3>2
    <3>. QED
      BY <3>3 DEF Seen
  <2>3. ASSUME NEW z \in Sweeps, SweepClear(z) \/ SweepDone(z) \/ (SweepCollect(z) /\ z # y)
        PROVE  sweep'[y] = sweep[y]
    BY <2>3 DEF SweepCollect, SweepClear, SweepDone, TypeOK, SweepRecs
  <2>. QED
    BY <2>1, <2>2, <2>3, SweepAuthors
<1>5. ASSUME failer'[t].pc # "off"
      PROVE  Started(t)
  <2>1. failer[t].pc = "off" /\ reaper[t].pc = "off"
    BY DEF Seen
  <2>2. \A u \in Tokens : FailRecheck(u) \/ FailTake(u) \/ FailClear(u) \/ ReaperFails(u) => u # t
    BY <2>1 DEF FailRecheck, FailTake, FailClear, ReaperFails
  <2>3. ASSUME NEW u \in Tokens, u # t, ReaderFails(u) \/ ReaperFails(u) \/ FailRecheck(u)
                                        \/ FailTake(u) \/ FailClear(u)
        PROVE  failer'[t] = failer[t]
    BY <2>3 DEF ReaderFails, ReaperFails, ClaimFailure, FailRecheck, FailTake, FailClear, TypeOK
  <2>. QED
    BY <1>5, <2>1, <2>2, <2>3, FailerAuthors DEF ReaderFails
<1>6. ASSUME reaper'[t].pc # "off"
      PROVE  \E m \in Launches : launch[m].tok = t /\ launch[m].pc = "live"
  <2>1. reaper[t].pc = "off"
    BY DEF Seen
  <2>2. \A u \in Tokens : ReaperFails(u) \/ CrashRecheck(u) \/ CrashTake(u) \/ CrashVacate(u) => u # t
    BY <2>1 DEF ReaperFails, CrashRecheck, CrashTake, CrashVacate
  <2>3. ASSUME NEW u \in Tokens, u # t, ReaperWakes(u) \/ ReaperFails(u) \/ CrashRecheck(u)
                                        \/ CrashTake(u) \/ CrashVacate(u)
        PROVE  reaper'[t] = reaper[t]
    BY <2>3 DEF ReaperWakes, ReaperFails, CrashRecheck, CrashTake, CrashVacate, TypeOK
  <2>. QED
    BY <1>6, <2>1, <2>2, <2>3, ReaperAuthors DEF ReaperWakes
<1>7. ASSUME NEW u \in Tokens
      PROVE  failer'[u].took # t
  <2>0. failer[u].took # t
    BY DEF Seen
  <2>1. FailTake(u) => failer'[u].took # t
    <3>. SUFFICES ASSUME FailTake(u), failer'[u].took = t
                  PROVE  FALSE
      OBVIOUS
    <3>1. slot[Home(u)].child = t /\ Home(u) \in Slots
      BY DEF FailTake, TypeOK, TokensKnowTheirSlot, Attended
    <3>2. slot[Home(u)].pid = t
      BY <3>1, TokenIsPositive DEF SlotOwnsItsProcess
    <3>. QED
      BY <3>1, <3>2 DEF Seen
  <2>2. ASSUME NEW z \in Tokens, z # u, FailTake(z)
        PROVE  failer'[u].took # t
    BY <2>0, <2>2 DEF FailTake, TypeOK
  <2>3. ASSUME NEW z \in Tokens, FailRecheck(z) \/ ReaderFails(z) \/ ReaperFails(z)
        PROVE  failer'[u].took # t
    BY <2>0, <2>3 DEF FailRecheck, ReaderFails, ReaperFails, ClaimFailure, TypeOK, CleanupRecs
  <2>4. ASSUME NEW z \in Tokens, FailClear(z)
        PROVE  failer'[u].took # t
    BY <2>0, <2>4, TokenIsPositive DEF FailClear, TypeOK
  <2>. QED
    BY <2>0, <2>1, <2>2, <2>3, <2>4, FailerAuthors
<1>8. ASSUME NEW u \in Tokens
      PROVE  reaper'[u].took # t
  <2>0. reaper[u].took # t
    BY DEF Seen
  <2>1. CrashTake(u) => reaper'[u].took # t
    <3>. SUFFICES ASSUME CrashTake(u), reaper'[u].took = t
                  PROVE  FALSE
      OBVIOUS
    <3>1. slot[Home(u)].child = t /\ Home(u) \in Slots
      BY DEF CrashTake, TypeOK, TokensKnowTheirSlot, Attended
    <3>2. slot[Home(u)].pid = t
      BY <3>1, TokenIsPositive DEF SlotOwnsItsProcess
    <3>. QED
      BY <3>1, <3>2 DEF Seen
  <2>2. ASSUME NEW z \in Tokens, z # u, CrashTake(z)
        PROVE  reaper'[u].took # t
    BY <2>0, <2>2 DEF CrashTake, TypeOK
  <2>3. ASSUME NEW z \in Tokens, CrashRecheck(z) \/ ReaperWakes(z) \/ ReaperFails(z)
        PROVE  reaper'[u].took # t
    <3>1. ASSUME NEW pc, reaper' = [reaper EXCEPT ![z].pc = pc]
          PROVE  reaper'[u].took = reaper[u].took
      BY <3>1 DEF TypeOK, CleanupRecs
    <3>. QED
      BY <2>0, <2>3, <3>1 DEF CrashRecheck, ReaperWakes, ReaperFails
  <2>4. ASSUME NEW z \in Tokens, CrashVacate(z)
        PROVE  reaper'[u].took # t
    BY <2>0, <2>4, TokenIsPositive DEF CrashVacate, TypeOK
  <2>. QED
    BY <2>0, <2>1, <2>2, <2>3, <2>4, ReaperAuthors
<1>. QED
  BY <1>1, <1>2, <1>3, <1>4, <1>5, <1>6, <1>7, <1>8 DEF Seen

\* Nobody knows a token that was not handed out,
LEMMA NextResUnseen ==
    ASSUME StackInv, TakenAtHome, nextRes \in Tokens
    PROVE  ~Seen(nextRes) /\ proc[nextRes] = "none"
<1>. USE DEF StackInv
<1>1. nextRes \in Nat /\ nextRes # 0 /\ ~Attended(nextRes) /\ proc[nextRes] = "none"
  BY TokenIsPositive DEF TokensKnowTheirSlot
<1>2. ASSUME NEW s \in Slots, slot[s].pid = nextRes
      PROVE  FALSE
  <2>1. slot[s].pid < nextRes
    BY <1>1, <1>2, ShownAtHome
  <2>. QED
    BY <1>1, <1>2, <2>1
<1>3. nextRes \notin killing
  BY <1>1 DEF TypeOK, PidsFollowSpawns
<1>4. ~StopHolds(nextRes) /\ ~SweepHolds(nextRes)
  BY <1>1 DEF StopHolds, SweepHolds, TakenAtHome
<1>5. \A u \in Tokens : failer[u].took # nextRes /\ reaper[u].took # nextRes
  BY <1>1 DEF TakenAtHome
<1>. QED
  BY <1>1, <1>2, <1>3, <1>4, <1>5 DEF Seen, Attended

\* and a token is handed out by a reservation alone.
LEMMA ResAuthors ==
    ASSUME [Next]_vars, nextRes' # nextRes
    PROVE  \E l \in Launches : Reserve(l) \/ Rereserve(l)
  BY DEF Next, LaunchStep, ResolveAlias, Reclaim, ClearReady, Release, CheckReserved,
     Spawn, ClaimPid, Track, Settle, CrashCheck, CrashClear, Commit, WriteLock, Confirm, Retry,
     EngineExits, WatcherStep, FireReady, ReaderFails, Promote, MarkReady, Kill,
     ReaperStep, ReaperWakes, ReaperFails, CrashRecheck, CrashTake, CrashVacate, FailerStep,
     FailRecheck, FailTake, FailClear, StopRequest, StopStep, StopTake, StopClear,
     SweepCollect, SweepStep, SweepClear, SweepDone, vars

\* A slot is bare for a launch only if it was, or was reserved for it just now.
LEMMA BareStays ==
    ASSUME StackInv, [Next]_vars, NEW l \in Launches, launch[l].pc = "retry",
           launch'[l].pc = "retry", launch'[l].tok = launch[l].tok,
           launch'[l].slot = launch[l].slot, Bare(l)'
    PROVE  Bare(l)
<1>. USE DEF StackInv
<1>. DEFINE s == launch[l].slot
<1>1. s \in Slots /\ launch[l].tok \in Nat /\ launch[l].tok < nextRes
  BY DEF TokensKnowTheirSlot, TypeOK
<1>2. /\ slot'[s].res = launch[l].tok /\ slot'[s].status = "Loading" /\ slot'[s].pid = 0
      /\ slot'[s].child = 0 /\ slot[s] \in SlotRecs
  BY <1>1 DEF Bare, TypeOK
<1>. HIDE DEF s
<1>3. ~Reset(s) /\ ~Reserved(s)
  BY <1>1, <1>2 DEF Reset, Vacant, Reserved, TypeOK
<1>4. ~PidStored(s)
  <2>. SUFFICES ASSUME NEW m \in Launches, ClaimPid(m), slot'[s] = [slot[s] EXCEPT !.pid = launch[m].tok]
                PROVE  FALSE
    BY DEF PidStored
  <2>1. launch[m].tok = 0
    BY <1>2 DEF SlotRecs
  <2>. QED
    BY <2>1 DEF ClaimPid, At, TokensKnowTheirSlot
<1>5. ~Committed(s)
  <2>. SUFFICES ASSUME NEW m \in Launches, Commit(m), slot'[s] = Loaded(slot[s], launch[m].tok)
                PROVE  FALSE
    BY DEF Committed
  <2>1. launch[m].tok = 0
    BY <1>2 DEF Loaded
  <2>. QED
    BY <2>1 DEF Commit, At, TokensKnowTheirSlot
<1>6. ~Promoted(s)
  BY <1>2 DEF Promoted, SlotRecs
<1>7. Taken(s) => slot[s].res = launch[l].tok /\ slot[s].status = "Loading" /\ slot[s].pid = 0
  <2>1. Taken(s) => slot'[s] = [slot[s] EXCEPT !.child = 0]
    BY DEF Taken
  <2>. QED
    BY <1>2, <2>1 DEF SlotRecs
<1>8. slot[s].res = launch[l].tok /\ slot[s].status = "Loading" /\ slot[s].pid = 0
  BY <1>1, <1>2, <1>3, <1>4, <1>5, <1>6, <1>7, SlotAuthors
<1>. QED
  BY <1>1, <1>8 DEF Bare, SlotOwnsItsProcess, s

\* Every step keeps UnclaimedUnseen.
LEMMA UnclaimedUnseenStep ==
    ASSUME StackInv, KillInv, [Next]_vars
    PROVE  UnclaimedUnseen'
<1>. USE DEF StackInv, KillInv
<1>. SUFFICES ASSUME NEW l \in Launches, Unclaimed(l)'
              PROVE  /\ ~Seen(launch[l].tok)'
                     /\ launch'[l].pc # "claim" => proc'[launch'[l].tok] = "none"
  BY DEF UnclaimedUnseen
<1>1. ASSUME NEW s \in Slots, Reserving(l, s)
      PROVE  ~Seen(launch[l].tok)' /\ proc'[launch'[l].tok] = "none"
  <2>1. launch'[l].tok = nextRes /\ nextRes \in Tokens /\ nextRes' # nextRes
    BY <1>1, TokenIsPositive DEF Reserving
  <2>2. UNCHANGED <<proc, killing, stop, sweep, failer, reaper>>
    BY <2>1, ResAuthors DEF Reserve, Rereserve
  <2>3. \A r \in Slots : slot'[r].pid = 0 \/ slot'[r] = slot[r]
    BY <1>1 DEF Reserving, TypeOK
  <2>4. ~Seen(nextRes) /\ proc[nextRes] = "none"
    BY <2>1, NextResUnseen
  <2>. QED
    BY <2>1, <2>2, <2>3, <2>4, TokenIsPositive DEF Seen, StopHolds, SweepHolds
<1>2. ASSUME Unclaimed(l), launch'[l].tok = launch[l].tok
      PROVE  /\ ~Seen(launch[l].tok)'
             /\ launch'[l].pc # "claim" => proc'[launch'[l].tok] = "none"
  <2>0. launch[l].tok \in Tokens /\ launch[l].pc \notin Start /\ launch[l].tok < nextRes
    BY <1>2, StackAssumption DEF Unclaimed, TokensKnowTheirSlot, Tokens, TypeOK, Start
  <2>1. PICK t \in Tokens : t = launch[l].tok /\ t < nextRes /\ launch[l].pc \notin Start
    BY <2>0
  <2>2. ~Seen(t) /\ (launch[l].pc # "claim" => proc[t] = "none")
    BY <1>2, <2>1 DEF UnclaimedUnseen
  <2>3. ASSUME NEW m \in Launches, launch[m].tok = t, launch[m].pc \notin Start
        PROVE  m = l
    BY <2>1, <2>3 DEF OneLaunch
  <2>4. ~ClaimPid(l)
    <3>1. ClaimPid(l) => launch'[l].pc \in {"track", "done"}
      BY GotoMoves, ReturnMoves DEF ClaimPid
    <3>. QED
      BY <3>1 DEF Unclaimed
  <2>5. ~Started(t)
    BY <2>1, <2>2 DEF Started
  <2>6. ~Seen(t)'
    <3>1. ~ \E m \in Launches : /\ launch[m].tok = t
                                /\ ClaimPid(m) \/ launch[m].pc \in {"commit", "live"}
      BY <1>2, <2>3, <2>4 DEF Start, ClaimPid, At, Unclaimed
    <3>. QED
      BY <2>1, <2>2, <2>5, <3>1, SeenStep
  <2>7. launch'[l].pc # "claim" => proc'[t] = "none"
    <3>1. launch[l].pc = "claim" /\ launch'[l].pc # "claim" => FALSE
      <4>1. ~ \E s \in Slots : Reserving(l, s)
        BY <1>2, <2>1, TokenIsPositive DEF Reserving
      <4>. QED
        BY <2>4, <4>1, LaunchMoves DEF Moved, Reclaim, ClearReady, CheckReserved, Spawn, Track, Settle,
           CrashCheck, CrashClear, Commit, WriteLock, Confirm, Retry, Rereserve, At, Unclaimed, Start
    <3>2. ASSUME NEW m \in Launches, Spawn(m), launch[m].tok = t, proc'[t] # "none", proc[t] = "none"
          PROVE  launch'[l].pc = "claim"
      <4>1. m = l
        BY <2>3, <3>2 DEF Spawn, At, Start
      <4>. QED
        BY <3>2, <4>1, GotoMoves DEF Spawn
    <3>. QED
      BY <2>1, <2>2, <3>1, <3>2, ProcStep
  <2>. QED
    BY <1>2, <2>1, <2>6, <2>7 DEF Seen, StopHolds, SweepHolds
<1>3. CASE launch'[l] = launch[l]
  <2>1. launch[l].pc = "retry" => Bare(l)
    BY <1>3, BareStays DEF Unclaimed
  <2>2. Unclaimed(l)
    BY <1>3, <2>1 DEF Unclaimed
  <2>. QED
    BY <1>2, <1>3, <2>2
<1>4. CASE Moved(l) /\ launch'[l].tok = launch[l].tok /\ launch'[l].slot = launch[l].slot
  <2>1. CASE CrashClear(l)
    <3>1. launch[l].slot \in Slots
      BY <2>1 DEF CrashClear, At, TokensKnowTheirSlot
    <3>2. slot'[launch[l].slot] = Vacant
      BY <2>1, <3>1 DEF CrashClear, ClearSlots
    <3>3. launch'[l].pc = "retry"
      BY <2>1, GotoMoves DEF CrashClear
    <3>4. ~Bare(l)'
      BY <1>4, <3>2 DEF Bare, Vacant
    <3>. QED
      BY <3>3, <3>4 DEF Unclaimed
  <2>2. CASE ~CrashClear(l)
    <3>1. Unclaimed(l)
      BY <1>4, <2>2 DEF Moved, Reclaim, ClearReady, CheckReserved, Spawn, ClaimPid, Track, Settle,
         CrashCheck, Commit, WriteLock, Confirm, Retry, Rereserve, At, Unclaimed
    <3>. QED
      BY <1>2, <1>4, <3>1
  <2>. QED
    BY <2>1, <2>2
<1>5. launch'[l].pc \notin Start
  BY DEF Unclaimed, Start
<1>. QED
  BY <1>1, <1>3, <1>4, <1>5, LaunchMoves

\* The kill of an engine is issued only after the slot that showed it is cleared.
THEOREM KilledEnginesHaveNoSlot == Spec => []KilledEngineHasNoSlot
<1>1. Init => KillInv
  BY DEF Init, KillInv, OneLaunch, UnclaimedUnseen, UncommittedNotStored, TakenAtHome,
     KilledEngineHasNoSlot, Unclaimed, Uncommitted, Returned, Start, Vacant
<1>2. StackInv /\ KillInv /\ [Next]_vars => KillInv'
  BY OneLaunchStep, UnclaimedUnseenStep, UncommittedNotStoredStep, TakenAtHomeStep, KilledStep
     DEF KillInv
<1>3. KillInv => KilledEngineHasNoSlot
  BY DEF KillInv
<1>. QED
  BY <1>1, <1>2, <1>3, StackInvariant, PTL DEF Spec
-----------------------------------------------------------------------------
(* Lock files *)

\* A slot, a launch call and a lock file agree on the port of an attempt.
PortsAgree ==
    /\ \A s \in Slots : ~Idle(s) => slot[s].port = attempt[slot[s].res].port
    /\ \A l \in Launches : launch[l].pc \notin Start => launch[l].port = attempt[launch[l].tok].port
    /\ \A p \in Ports : lock[p] # 0 => lock[p] < nextRes /\ attempt[lock[p]].port = p

\* An engine whose Child was dropped has lost its slot for good.
DroppedHasNoSlot == \A t \in dropped : t < nextRes /\ ~Owns(t)

Confirming(t) == \E l \in Launches : launch[l].tok = t /\ launch[l].pc = "confirm"

\* The lock file of a dropped engine is still in use by whoever has it in hand.
DroppedLocks == \A p \in Ports : lock[p] \in dropped /\ Up(lock[p]) =>
    InHand(lock[p]) \/ Confirming(lock[p])

LockInv == PortsAgree /\ DroppedHasNoSlot /\ DroppedLocks

\* A lock file is written by the launch call of the engine it names.
LEMMA LockAuthors ==
    ASSUME TypeOK, [Next]_vars, NEW p \in Ports, lock'[p] # 0, lock'[p] # lock[p]
    PROVE  \E l \in Launches : /\ Track(l) \/ WriteLock(l)
                               /\ launch[l].port = p /\ launch[l].tok = lock'[p]
<1>1. ASSUME NEW S, ClearSlots(S)
      PROVE  FALSE
  BY <1>1 DEF ClearSlots
<1>2. ASSUME NEW q, lock' = [lock EXCEPT ![q] = 0]
      PROVE  FALSE
  BY <1>2 DEF TypeOK
<1>3. ASSUME NEW l \in Launches, LaunchStep(l)
      PROVE  /\ Track(l) \/ WriteLock(l)
             /\ launch[l].port = p /\ launch[l].tok = lock'[p]
  <2>1. CASE Track(l) \/ WriteLock(l)
    BY <2>1 DEF Track, WriteLock, TypeOK
  <2>. QED
    BY <1>1, <1>2, <1>3, <2>1 DEF LaunchStep, ResolveAlias, Reserve, Reclaim, ClearReady, Release,
       CheckReserved, Spawn, ClaimPid, Settle, CrashCheck, CrashClear, Commit, Confirm, Retry, Rereserve
<1>4. ASSUME NEW t \in Tokens, FailClear(t) \/ CrashVacate(t)
      PROVE  FALSE
  BY <1>1, <1>4 DEF FailClear, CrashVacate
<1>5. ASSUME NEW x \in Stops, StopClear(x)
      PROVE  FALSE
  BY <1>1, <1>5 DEF StopClear
<1>6. ASSUME NEW y \in Sweeps, SweepClear(y)
      PROVE  FALSE
  BY <1>1, <1>6 DEF SweepClear
<1>. QED
  BY <1>3, <1>4, <1>5, <1>6 DEF Next, EngineExits, WatcherStep, FireReady, ReaderFails, Promote,
     MarkReady, Kill, ReaperStep, ReaperWakes, ReaperFails, CrashRecheck, CrashTake, FailerStep,
     FailRecheck, FailTake, StopRequest, StopStep, StopTake, SweepCollect, SweepStep, SweepDone, vars

\* A reservation gives the same port to the slot, the attempt and the launch call.
LEMMA ReservedPorts ==
    ASSUME StackInv, NEW l \in Launches, Reserve(l) \/ Rereserve(l), nextRes' # nextRes
    PROVE  /\ launch'[l].port = attempt'[nextRes].port
           /\ \A s \in Slots : slot'[s] = slot[s] \/ slot'[s].port = attempt'[nextRes].port
<1>. USE DEF StackInv
<1>1. ASSUME NEW s \in Slots, NEW p, NEW a, NEW r, ReserveFor(l, s, p, a, r)
      PROVE  /\ launch'[l].port = attempt'[nextRes].port
             /\ \A q \in Slots : slot'[q] = slot[q] \/ slot'[q].port = attempt'[nextRes].port
  <2>1. attempt'[nextRes].port = p /\ launch'[l].port = p
    BY <1>1 DEF ReserveFor, TypeOK
  <2>2. \A q \in Slots : slot'[q] = slot[q] \/ slot'[q].port = p
    BY <1>1 DEF ReserveFor, TypeOK
  <2>. QED
    BY <2>1, <2>2
<1>2. Rereserve(l) => launch[l].slot \in Slots
  BY DEF Rereserve, At, TokensKnowTheirSlot
<1>3. \E s \in Slots : \E p, a, r : ReserveFor(l, s, p, a, r)
  BY <1>2 DEF Reserve, Rereserve
<1>. QED
  BY <1>1, <1>3

\* Every step keeps the three parts of LockInv.
LEMMA PortsAgreeStep ==
    ASSUME StackInv, PortsAgree, [Next]_vars
    PROVE  PortsAgree'
<1>. USE DEF StackInv
<1>1. \A t \in Tokens : t < nextRes => t < nextRes' /\ attempt'[t].port = attempt[t].port
  BY HomeStays, TokenIsPositive
<1>2. ASSUME NEW s \in Slots, slot'[s].status # "Idle"
      PROVE  slot'[s].port = attempt'[slot'[s].res].port
  <2>0. slot[s] \in SlotRecs /\ ~Reset(s)
    BY <1>2 DEF TypeOK, Reset, Vacant
  <2>1. CASE Reserved(s)
    <3>1. PICK l \in Launches : (Reserve(l) \/ Rereserve(l)) /\ launch'[l].tok = nextRes
                                /\ launch'[l].port = slot'[s].port
      BY <2>1 DEF Reserved
    <3>2. slot'[s].res = nextRes /\ slot[s].res = 0 /\ nextRes # 0
      BY <2>1 DEF Reserved, SlotOwnsItsProcess, TypeOK
    <3>3. nextRes' # nextRes
      BY <3>1, <3>2 DEF Reserve, Rereserve, ReserveFor, TypeOK
    <3>. QED
      BY <3>1, <3>2, <3>3, ReservedPorts
  <2>2. CASE slot'[s].port = slot[s].port /\ slot'[s].res = slot[s].res /\ ~Idle(s)
    <3>1. slot[s].res \in Tokens /\ slot[s].res < nextRes
      BY <2>0, <2>2, StackAssumption DEF TokensKnowTheirSlot, SlotOwnsItsProcess, SlotRecs, Token0, Tokens
    <3>. QED
      BY <1>1, <2>2, <3>1 DEF PortsAgree
  <2>3. Committed(s) => slot'[s].port = slot[s].port /\ slot'[s].res = slot[s].res /\ slot'[s].status = slot[s].status
    BY DEF Committed, Loaded
  <2>4. Promoted(s) => slot'[s].port = slot[s].port /\ slot'[s].res = slot[s].res /\ ~Idle(s)
    BY <2>0 DEF Promoted, SlotRecs
  <2>5. Taken(s) => slot'[s].port = slot[s].port /\ slot'[s].res = slot[s].res /\ slot'[s].status = slot[s].status
    <3>1. Taken(s) => slot'[s] = [slot[s] EXCEPT !.child = 0]
      BY DEF Taken
    <3>. QED
      BY <2>0, <3>1 DEF SlotRecs
  <2>6. PidStored(s) => slot'[s].port = slot[s].port /\ slot'[s].res = slot[s].res /\ slot'[s].status = slot[s].status
    BY <2>0 DEF PidStored, SlotRecs
  <2>. QED
    BY <1>2, <2>0, <2>1, <2>2, <2>3, <2>4, <2>5, <2>6, SlotAuthors DEF Idle
<1>3. ASSUME NEW l \in Launches, launch'[l].pc \notin Start
      PROVE  launch'[l].port = attempt'[launch'[l].tok].port
  <2>1. CASE \E s \in Slots : Reserving(l, s)
    <3>1. nextRes' # nextRes /\ launch'[l].tok = nextRes /\ launch'[l].pc \in {"unready", "reclaim"}
      BY <2>1, TokenIsPositive DEF Reserving
    <3>2. PICK m \in Launches : Reserve(m) \/ Rereserve(m)
      BY <3>1, ResAuthors
    <3>3. m = l
      <4>1. m # l => launch'[l] = launch[l]
        BY <3>2 DEF Reserve, Rereserve, ReserveFor, Return, Goto, TypeOK
      <4>2. launch'[l] # launch[l]
        <5>. SUFFICES ASSUME launch'[l] = launch[l]
                      PROVE  FALSE
          OBVIOUS
        <5>1. launch[l].tok \in 1..(nextRes - 1) /\ launch[l].tok = nextRes /\ nextRes \in Nat
          BY <3>1 DEF TokensKnowTheirSlot, TypeOK
        <5>. QED
          BY <5>1
      <4>. QED
        BY <4>1, <4>2
    <3>. QED
      BY <3>1, <3>2, <3>3, ReservedPorts
  <2>2. CASE launch[l].pc \notin Start /\ launch'[l].tok = launch[l].tok /\ launch'[l].port = launch[l].port
    <3>1. launch[l].tok \in Tokens /\ launch[l].tok < nextRes
      BY <2>2, StackAssumption DEF TokensKnowTheirSlot, Start, Tokens, TypeOK
    <3>. QED
      BY <1>1, <2>2, <3>1 DEF PortsAgree
  <2>. QED
    BY <1>3, <2>1, <2>2, LaunchMoves DEF Moved, Reclaim, ClearReady, CheckReserved, Spawn, ClaimPid,
       Track, Settle, CrashCheck, CrashClear, Commit, WriteLock, Confirm, Retry, Rereserve, At, Start
<1>4. ASSUME NEW p \in Ports, lock'[p] # 0
      PROVE  lock'[p] < nextRes' /\ attempt'[lock'[p]].port = p
  <2>1. CASE lock'[p] = lock[p]
    <3>1. lock[p] \in Tokens
      BY <1>4, <2>1, StackAssumption DEF TypeOK, Token0, Tokens
    <3>. QED
      BY <1>1, <1>4, <2>1, <3>1 DEF PortsAgree
  <2>2. CASE lock'[p] # lock[p]
    <3>1. PICK l \in Launches : /\ Track(l) \/ WriteLock(l)
                                /\ launch[l].port = p /\ launch[l].tok = lock'[p]
      BY <1>4, <2>2, LockAuthors
    <3>2. launch[l].pc \in {"track", "lock"}
      BY <3>1 DEF Track, WriteLock, At
    <3>3. launch[l].tok \in Tokens /\ launch[l].tok < nextRes
      BY <3>2, StackAssumption DEF TokensKnowTheirSlot, Tokens, TypeOK
    <3>. QED
      BY <1>1, <3>1, <3>2, <3>3 DEF PortsAgree, Start
  <2>. QED
    BY <2>1, <2>2
<1>. QED
  BY <1>2, <1>3, <1>4 DEF PortsAgree, Idle

\* A Child is dropped by clearing the slot that holds it,
LEMMA DropsAtHome ==
    ASSUME StackInv, [Next]_vars
    PROVE  \/ dropped' = dropped
           \/ \E S \in SUBSET Slots : ClearSlots(S)
           \/ \E t \in Tokens : Dies(t)
<1>. USE DEF StackInv
<1>1. ASSUME NEW l \in Launches, Release(l) \/ CrashClear(l)
      PROVE  \E S \in SUBSET Slots : ClearSlots(S)
  <2>1. launch[l].slot \in Slots
    BY <1>1 DEF Release, CrashClear, At, TokensKnowTheirSlot
  <2>. QED
    BY <1>1, <2>1 DEF Release, CrashClear
<1>2. ASSUME NEW t \in Tokens, FailClear(t) \/ CrashVacate(t)
      PROVE  \E S \in SUBSET Slots : ClearSlots(S)
  <2>1. Home(t) \in Slots
    BY <1>2 DEF FailClear, CrashVacate, TokensKnowTheirSlot, Attended
  <2>. QED
    BY <1>2, <2>1 DEF FailClear, CrashVacate
<1>3. ASSUME NEW x \in Stops, StopClear(x)
      PROVE  \E S \in SUBSET Slots : ClearSlots(S)
  <2>1. PICK s \in Least(stop[x].todo) : ClearSlots({s})
    BY <1>3 DEF StopClear
  <2>2. s \in Slots
    BY DEF Least, TypeOK, StopRecs
  <2>. QED
    BY <2>1, <2>2
<1>4. ASSUME NEW y \in Sweeps, SweepClear(y)
      PROVE  \E S \in SUBSET Slots : ClearSlots(S)
  <2>1. sweep[y].todo \in SUBSET Slots
    BY DEF TypeOK, SweepRecs
  <2>. QED
    BY <1>4, <2>1 DEF SweepClear
<1>. QED
  BY <1>1, <1>2, <1>3, <1>4 DEF Next, LaunchStep, ResolveAlias, Reserve, Reclaim, ClearReady, CheckReserved,
     Spawn, ClaimPid, Track, Settle, CrashCheck, Commit, WriteLock, Confirm, Retry,
     Rereserve, EngineExits, WatcherStep, FireReady, ReaderFails, Promote, MarkReady, Kill,
     ReaperStep, ReaperWakes, ReaperFails, CrashRecheck, CrashTake, FailerStep,
     FailRecheck, FailTake, StopRequest, StopStep, StopTake,
     SweepCollect, SweepStep, SweepDone, vars

\* and what was dropped stays without a slot.
LEMMA DroppedHasNoSlotStep ==
    ASSUME StackInv, DroppedHasNoSlot, [Next]_vars
    PROVE  DroppedHasNoSlot'
<1>. USE DEF StackInv
<1>. SUFFICES ASSUME NEW t \in dropped'
              PROVE  t < nextRes' /\ ~Owns(t)'
  BY DEF DroppedHasNoSlot
<1>1. t \in Tokens /\ (t < nextRes => t < nextRes' /\ Home(t)' = Home(t))
  <2>1. t \in Tokens
    BY TypeStep DEF TypeOK
  <2>. QED
    BY <2>1, HomeStays, TokenIsPositive
<1>2. CASE t < nextRes /\ ~Owns(t)
  <2>. SUFFICES ASSUME Home(t) \in Slots, slot'[Home(t)].res = t
                PROVE  FALSE
    BY <1>1, <1>2 DEF Owns
  <2>. DEFINE s == Home(t)
  <2>1. slot[s].res # t /\ t # 0 /\ slot[s] \in SlotRecs
    BY <1>1, <1>2, TokenIsPositive DEF Owns, TypeOK
  <2>. HIDE DEF s
  <2>2. slot'[s].res = t /\ s \in Slots
    BY DEF s
  <2>3. ~Reset(s) /\ ~Reserved(s)
    BY <1>1, <1>2, <2>1, <2>2, TokenIsPositive DEF Reset, Vacant, Reserved, TypeOK
  <2>4. ~Committed(s) /\ ~PidStored(s)
    <3>1. Committed(s) => slot'[s].res = slot[s].res
      BY DEF Committed, Loaded
    <3>2. PidStored(s) => slot'[s].res = slot[s].res
      BY <2>1 DEF PidStored, SlotRecs
    <3>. QED
      BY <2>1, <2>2, <3>1, <3>2
  <2>5. ~Promoted(s)
    BY <2>1, <2>2 DEF Promoted, SlotRecs
  <2>6. ~Taken(s)
    <3>1. Taken(s) => slot'[s] = [slot[s] EXCEPT !.child = 0]
      BY DEF Taken
    <3>. QED
      BY <2>1, <2>2, <3>1 DEF SlotRecs
  <2>. QED
    BY <2>1, <2>2, <2>3, <2>4, <2>5, <2>6, SlotAuthors
<1>3. ASSUME NEW S \in SUBSET Slots, ClearSlots(S), t \notin dropped
      PROVE  t < nextRes /\ ~Owns(t)'
  <2>1. PICK s \in S : slot[s].child = t
    BY <1>3 DEF ClearSlots
  <2>2. t < nextRes /\ Home(t) = s
    BY <2>1, <1>1, ShownAtHome, TokenIsPositive
  <2>3. slot'[s].res = 0
    BY <1>3, <2>1 DEF ClearSlots, Vacant
  <2>. QED
    BY <1>1, <2>2, <2>3, TokenIsPositive DEF Owns
<1>. QED
  BY <1>1, <1>2, <1>3, DropsAtHome DEF DroppedHasNoSlot, Dies

LEMMA DroppedLocksStep ==
    ASSUME StackInv, LockInv, [Next]_vars
    PROVE  DroppedLocks'
<1>. USE DEF StackInv, LockInv
<1>. SUFFICES ASSUME NEW p \in Ports, NEW t, t = lock'[p], t \in dropped', proc'[t] = "up"
              PROVE  InHand(t)' \/ Confirming(t)'
  BY DEF DroppedLocks, Up, InHand, Confirming, LaunchHolds, StopHolds, SweepHolds, FailerHolds, ReaperHolds
<1>1. t \in Tokens /\ TypeOK'
  BY TypeStep DEF TypeOK
<1>2. CASE lock[p] # t
  <2>1. PICK l \in Launches : (Track(l) \/ WriteLock(l)) /\ launch[l].tok = t
    BY <1>1, <1>2, LockAuthors, TokenIsPositive
  <2>2. launch'[l].tok = t /\ launch'[l].pc \in {"settle", "confirm"}
    BY <2>1, GotoMoves DEF Track, WriteLock
  <2>. QED
    BY <2>2 DEF InHand, LaunchHolds, Confirming
<1>3. CASE lock[p] = t /\ ~Up(t)
  <2>1. PICK l \in Launches : Spawn(l) /\ launch[l].tok = t
    BY <1>1, <1>3, UpAuthors
  <2>2. Goto(l, "claim")
    BY <1>3, <2>1 DEF Spawn, Up
  <2>. QED
    BY <2>1, <2>2, GotoMoves DEF InHand, LaunchHolds
<1>4. CASE lock[p] = t /\ Up(t) /\ t \in dropped
  <2>1. InHand(t) \/ Confirming(t)
    BY <1>4 DEF DroppedLocks
  <2>2. ~Owns(t) /\ ~Owns(t)'
    BY <1>4, DroppedHasNoSlotStep DEF DroppedHasNoSlot
  <2>3. ~Stored(t)'
    <3>. SUFFICES ASSUME NEW s \in Slots, slot'[s].child = t
                  PROVE  Owns(t)'
      BY <2>2 DEF Stored
    <3>1. SlotOwnsItsProcess' /\ TokensKnowTheirSlot'
      BY NextStackInv
    <3>2. slot'[s].res = t /\ slot'[s].status # "Idle"
      BY <1>1, <3>1, TokenIsPositive DEF SlotOwnsItsProcess, Idle
    <3>3. attempt'[t].slot = s
      BY <3>1, <3>2 DEF TokensKnowTheirSlot, Idle, Home
    <3>. QED
      BY <3>2, <3>3 DEF Owns, Home
  <2>4. CASE t \in killing
    <3>1. ASSUME NEW u \in Tokens, Dies(u)
          PROVE  u # t
      BY <3>1 DEF Dies, TypeOK
    <3>. QED
      BY <2>4, <3>1, KillAuthors DEF InHand, StartKill, Dies
  <2>5. CASE Confirming(t)
    <3>1. PICK l \in Launches : launch[l].tok = t /\ launch[l].pc = "confirm"
      BY <2>5 DEF Confirming
    <3>2. launch[l].port = p /\ launch[l].slot = Home(t) /\ Home(t) \in Slots
      BY <1>1, <1>4, <3>1, TokenIsPositive DEF PortsAgree, Start, TokensKnowTheirSlot
    <3>3. ~Confirm(l)
      <4>. SUFFICES ASSUME Confirm(l)
                    PROVE  FALSE
        OBVIOUS
      <4>1. slot[launch[l].slot].res # t
        BY <2>2, <3>2 DEF Owns
      <4>2. lock'[p] = 0
        BY <3>1, <3>2, <4>1 DEF Confirm, TypeOK
      <4>. QED
        BY <1>1, <4>2, TokenIsPositive
    <3>5. ASSUME LaunchStep(l)
          PROVE  FALSE
      BY <3>1, <3>3, <3>5 DEF LaunchStep, ResolveAlias, Reserve, Reclaim, ClearReady, Release,
         CheckReserved, Spawn, ClaimPid, Track, Settle, CrashCheck, CrashClear, Commit, WriteLock,
         Retry, Rereserve, At
    <3>6. ASSUME NEW m \in Launches, LaunchStep(m), m # l
          PROVE  launch'[l] = launch[l]
      BY <3>6, LaunchKeepsToken DEF KeepsToken, Reserving
    <3>7. launch'[l] = launch[l]
      BY <3>5, <3>6, LaunchAuthors
    <3>. QED
      BY <3>1, <3>7 DEF Confirming
  <2>. QED
    BY <1>1, <1>4, <2>1, <2>3, <2>4, <2>5, LaunchHands, StopHands, SweepHands, FailerHands, ReaperHands
       DEF InHand
<1>5. CASE lock[p] = t /\ t \notin dropped
  <2>1. PICK S \in SUBSET Slots : ClearSlots(S)
    BY <1>5, DropsAtHome DEF Dies
  <2>2. PICK s \in S : slot[s].child = t
    BY <1>5, <2>1 DEF ClearSlots
  <2>3. slot[s].res = t /\ ~Idle(s)
    BY <1>1, <2>2, TokenIsPositive DEF SlotOwnsItsProcess
  <2>4. slot[s].port = p
    BY <1>1, <1>5, <2>3, TokenIsPositive DEF PortsAgree
  <2>5. lock'[p] = 0
    BY <2>1, <2>2, <2>4 DEF ClearSlots
  <2>. QED
    BY <1>1, <2>5, TokenIsPositive
<1>. QED
  BY <1>2, <1>3, <1>4, <1>5

\* A lock file that names a live engine names one that somebody still has to do with.
THEOREM LocksNameTrackedEngines == Spec => []LockNamesTrackedEngine
<1>1. Init => InCustody /\ LockInv
  BY DEF Init, InCustody, Up, LockInv, PortsAgree, DroppedHasNoSlot, DroppedLocks, Idle, Vacant,
     Returned, Start
<1>2. StackInv /\ LockInv /\ [Next]_vars => LockInv'
  BY PortsAgreeStep, DroppedHasNoSlotStep, DroppedLocksStep DEF LockInv
<1>3. StackInv /\ InCustody /\ LockInv => LockNamesTrackedEngine
  <2>. SUFFICES ASSUME StackInv, InCustody, LockInv, NEW p \in Ports, NEW t, t = lock[p], t # 0, Up(t)
                PROVE  Tracked(t) \/ Confirming(t)
    BY DEF LockNamesTrackedEngine, Confirming
  <2>1. t \in Tokens
    BY StackAssumption DEF StackInv, TypeOK, Token0, Tokens
  <2>2. CASE Stored(t)
    <3>1. \E s \in Slots : slot[s].pid = t
      BY <2>1, <2>2, TokenIsPositive DEF Stored, StackInv, SlotOwnsItsProcess
    <3>. QED
      BY <3>1 DEF Tracked
  <2>3. CASE InHand(t)
    BY <2>3 DEF InHand, Tracked, LaunchHolds, StopHolds, SweepHolds, FailerHolds, ReaperHolds
  <2>. QED
    BY <2>1, <2>2, <2>3 DEF InCustody, LockInv, DroppedLocks
<1>. QED
  BY <1>1, <1>2, <1>3, CustodyStep, StackInvariant, PTL DEF Spec
=============================================================================
