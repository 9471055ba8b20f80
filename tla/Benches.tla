------------------------------ MODULE Benches ------------------------------
(***************************************************************************)
(* The token-rate benchmarks of one port and their STOP button.  A bench   *)
(* sends HTTP requests from child tasks; STOP latches a flag in the port's *)
(* entry and aborts the tasks registered there.  A command begins with a   *)
(* fresh entry, unless a STOP has landed already, and removes the port's   *)
(* entry when it returns.  A step is what a task does under one hold of a  *)
(* mutex or between two awaits.                                            *)
(***************************************************************************)
EXTENDS Naturals, FiniteSets

CONSTANTS
    BenchIds,   \* bound: bench commands, numbered from 1
    Feeds,      \* parallel requests of a measured run, 0 is the only one of other runs
    StopIds,    \* bound: presses of STOP
    MaxCounts   \* bound: tokenize calls of one prompt calibration (8 in the code)

ASSUME BenchesAssumption ==
    /\ 0 \in Feeds /\ BenchIds \subseteq Nat \ {0} /\ IsFiniteSet(BenchIds)
    /\ IsFiniteSet(StopIds) /\ MaxCounts \in Nat \ {0}

Entries == 1..(Cardinality(BenchIds) + Cardinality(StopIds))

VARIABLES
    entry,     \* BENCH_STOP: the port's PortStop, 0: none
    made,      \* PortStops made so far
    flagged,   \* PortStops whose watch is true
    aborts,    \* PortStop -> registered requests
    bench,     \* the commands
    feed,      \* bench, feed -> its call of race_stop
    req,       \* bench, feed -> its HTTP task
    press,     \* presses of STOP
    drained,   \* history: PortStops a STOP has flagged and drained
    crossed    \* history: a STOP fell between the spawn and the registration of a task

benchVars == <<entry, made, flagged, aborts, bench, feed, req, press, drained, crossed>>

NoBench == [pc |-> "idle", kind |-> "TG", warm |-> FALSE, counts |-> 0, error |-> "", result |-> ""]
NoFeeds == [i \in Feeds |-> "none"]
BenchesInit ==
    /\ entry = 0 /\ made = 0 /\ flagged = {} /\ aborts = [e \in Entries |-> {}]
    /\ bench = [b \in BenchIds |-> NoBench]
    /\ feed = [b \in BenchIds |-> NoFeeds] /\ req = [b \in BenchIds |-> NoFeeds]
    /\ press = [k \in StopIds |-> [pc |-> "idle", entry |-> 0]]
    /\ drained = {} /\ crossed = FALSE

StopRequested == entry # 0 /\ entry \in flagged
Fresh == made' = made + 1 /\ entry' = made + 1
Running(set) == {r \in set : req[r[1]][r[2]] = "running"}
Aborted(set) == [b \in BenchIds |-> [i \in Feeds |-> IF <<b, i>> \in Running(set) THEN "aborted" ELSE req[b][i]]]

(* begin keeps a STOP that has landed; benches of a port follow one another *)
BeginBench(b, kind, warm) ==
    /\ bench[b].pc = "idle" /\ \A c \in BenchIds : c < b => bench[c].pc = "done"
    /\ bench' = [bench EXCEPT ![b] = [@ EXCEPT !.pc = IF kind = "TG" THEN "prompt" ELSE "check",
                                              !.kind = kind, !.warm = warm]]
    /\ IF StopRequested THEN UNCHANGED <<entry, made>> ELSE Fresh
    /\ UNCHANGED <<flagged, aborts, feed, req, press, drained, crossed>>

(* the result is settled; the guard removes the port's entry and aborts what is in it *)
Finish(b, result) ==
    /\ bench' = [bench EXCEPT ![b] = [NoBench EXCEPT !.pc = "done", !.result = result]]
    /\ entry' = 0
    /\ req' = IF entry = 0 THEN req ELSE Aborted(aborts[entry])
    /\ aborts' = IF entry = 0 THEN aborts ELSE [aborts EXCEPT ![entry] = {}]
    /\ feed' = [feed EXCEPT ![b] = NoFeeds]
    /\ UNCHANGED <<made, flagged, press, drained, crossed>>

Goto(b, pc) ==
    /\ bench' = [bench EXCEPT ![b].pc = pc]
    /\ UNCHANGED <<entry, made, flagged, aborts, feed, req, press, drained, crossed>>
Launch(b, pc, set) ==
    /\ bench' = [bench EXCEPT ![b].pc = pc, ![b].counts = IF pc = "counting" THEN @ + 1 ELSE 0]
    /\ feed' = [feed EXCEPT ![b] = [i \in Feeds |-> IF i \in set THEN "ready" ELSE "none"]]
    /\ req' = [req EXCEPT ![b] = NoFeeds]
    /\ UNCHANGED <<entry, made, flagged, aborts, press, drained, crossed>>

(* before every run; a TG run has its prompt, a PP run builds one *)
CheckRun(b) ==
    /\ bench[b].pc = "check"
    /\ IF StopRequested THEN Finish(b, "stopped")
       ELSE IF bench[b].kind = "PP" THEN Goto(b, "prompt")
       ELSE Launch(b, "feeds", IF bench[b].warm THEN {0} ELSE Feeds)

Calibrate(b) ==
    /\ bench[b].pc = "prompt"
    /\ IF StopRequested THEN Finish(b, "stopped") ELSE Launch(b, "counting", {0})

(* the count fits, or the tokenizer does not answer, or the attempts are used up *)
Counted(b) ==
    LET ready == IF bench[b].kind = "TG" THEN Goto(b, "check") ELSE Launch(b, "feeds", {0}) IN
    /\ bench[b].pc = "counting" /\ feed[b][0] \in {"ok", "stopped", "error"}
    /\ IF feed[b][0] = "ok"
       THEN ready \/ (bench[b].counts < MaxCounts /\ Goto(b, "prompt"))
       ELSE IF StopRequested THEN Finish(b, "stopped") ELSE ready

(***************************************************************************)
(* race_stop, one per request.                                             *)
(***************************************************************************)
(* variant: the flag is not looked at before the task is spawned *)
RaceSpawnUnchecked(b, i) ==
    /\ feed[b][i] = "ready" /\ bench[b].pc \in {"feeds", "counting"}
    /\ feed' = [feed EXCEPT ![b][i] = "spawned"] /\ req' = [req EXCEPT ![b][i] = "running"]
    /\ UNCHANGED <<entry, made, flagged, aborts, bench, press, drained, crossed>>
RaceSpawn(b, i) ==
    /\ feed[b][i] = "ready" /\ bench[b].pc \in {"feeds", "counting"}
    /\ IF StopRequested THEN feed' = [feed EXCEPT ![b][i] = "stopped"] /\ UNCHANGED req
       ELSE feed' = [feed EXCEPT ![b][i] = "spawned"] /\ req' = [req EXCEPT ![b][i] = "running"]
    /\ UNCHANGED <<entry, made, flagged, aborts, bench, press, drained, crossed>>

RaceRegister(b, i) ==
    /\ feed[b][i] = "spawned" /\ feed' = [feed EXCEPT ![b][i] = "await"]
    /\ aborts' = IF entry = 0 THEN aborts ELSE [aborts EXCEPT ![entry] = @ \cup {<<b, i>>}]
    /\ UNCHANGED <<entry, made, flagged, bench, req, press, drained, crossed>>

RaceReturn(b, i) ==
    /\ feed[b][i] = "await" /\ req[b][i] # "running"
    /\ feed' = [feed EXCEPT ![b][i] = IF StopRequested \/ req[b][i] = "aborted" THEN "stopped"
                                      ELSE IF req[b][i] = "failed" THEN "error" ELSE "ok"]
    /\ UNCHANGED <<entry, made, flagged, aborts, bench, req, press, drained, crossed>>

EngineAnswers(b, i) ==
    /\ req[b][i] = "running"
    /\ \E a \in {"done", "failed"} : req' = [req EXCEPT ![b][i] = a]
    /\ UNCHANGED <<entry, made, flagged, aborts, bench, feed, press, drained, crossed>>

(***************************************************************************)
(* The run's requests are joined.                                          *)
(***************************************************************************)
FeedsAt(b, how) == {i \in Feeds : feed[b][i] = how}
FeedsFail(b) ==
    /\ bench[b].pc = "feeds"
    /\ \E how \in {"stopped", "error"} : FeedsAt(b, how) # {}
         /\ bench' = [bench EXCEPT ![b].pc = "drain", ![b].error = how]
    /\ feed' = [feed EXCEPT ![b] = [i \in Feeds |-> IF @[i] = "ready" THEN "gone" ELSE @[i]]]
    /\ UNCHANGED <<entry, made, flagged, aborts, req, press, drained, crossed>>

(* the siblings' tasks are dropped at their next await; the HTTP tasks they *)
(* spawned are detached and run on                                          *)
Drain(b) ==
    /\ bench[b].pc = "drain" /\ FeedsAt(b, "spawned") = {}
    /\ Finish(b, bench[b].error)

(* the meters are frozen; STOP is looked at once more *)
FeedsDone(b) ==
    /\ bench[b].pc = "feeds" /\ \A i \in Feeds : feed[b][i] \in {"none", "ok"}
    /\ IF StopRequested THEN Finish(b, "stopped")
       ELSE IF ~bench[b].warm THEN Finish(b, "ok")
       ELSE bench' = [bench EXCEPT ![b].pc = "check", ![b].warm = FALSE]
            /\ UNCHANGED <<entry, made, flagged, aborts, feed, req, press, drained, crossed>>

(***************************************************************************)
(* STOP: the entry is looked up or made, flagged, and its tasks aborted.   *)
(***************************************************************************)
Press(k) ==
    /\ press[k].pc = "idle" /\ \A j \in StopIds : j < k => press[j].pc # "idle"
    /\ IF entry # 0 THEN UNCHANGED <<entry, made>> ELSE Fresh
    /\ press' = [press EXCEPT ![k] = [pc |-> "flag", entry |-> entry']]
    /\ UNCHANGED <<flagged, aborts, bench, feed, req, drained, crossed>>
PressFlags(k) ==
    /\ press[k].pc = "flag" /\ press' = [press EXCEPT ![k].pc = "abort"]
    /\ flagged' = flagged \cup {press[k].entry}
    /\ UNCHANGED <<entry, made, aborts, bench, feed, req, drained, crossed>>
PressAborts(k) ==
    LET e == press[k].entry IN
    /\ press[k].pc = "abort" /\ press' = [press EXCEPT ![k].pc = "done"]
    /\ req' = Aborted(aborts[e]) /\ aborts' = [aborts EXCEPT ![e] = {}]
    /\ drained' = drained \cup {e}
    /\ crossed' = (crossed \/ \E b \in BenchIds : FeedsAt(b, "spawned") # {})
    /\ UNCHANGED <<entry, made, flagged, bench, feed>>

BenchesNext ==
    \/ \E b \in BenchIds, kind \in {"TG", "PP"}, warm \in BOOLEAN : (kind = "PP" => warm) /\ BeginBench(b, kind, warm)
    \/ \E b \in BenchIds : CheckRun(b) \/ Calibrate(b) \/ Counted(b) \/ FeedsFail(b) \/ FeedsDone(b) \/ Drain(b)
    \/ \E b \in BenchIds, i \in Feeds : RaceSpawn(b, i) \/ RaceRegister(b, i) \/ RaceReturn(b, i) \/ EngineAnswers(b, i)
    \/ \E k \in StopIds : Press(k) \/ PressFlags(k) \/ PressAborts(k)
BenchesSpec == BenchesInit /\ [][BenchesNext]_benchVars

(***************************************************************************)
(* Properties.                                                             *)
(***************************************************************************)
BenchesTypeOK ==
    /\ entry \in Entries \cup {0} /\ entry <= made /\ flagged \subseteq 1..made
    /\ \A e \in Entries : aborts[e] \subseteq BenchIds \X Feeds
    /\ \A b \in BenchIds : bench[b].result \in {"", "ok", "stopped", "error"}
                           /\ (bench[b].result # "" <=> bench[b].pc = "done")

(* When STOP has flagged and drained the entry of the port, no request runs *)
(* and none is begun, as long as its drain did not fall between the spawn  *)
(* and the registration of a task.                                         *)
StopSilencesPort ==
    ~crossed /\ entry \in drained =>
        \A b \in BenchIds, i \in Feeds : bench[b].pc # "done" => req[b][i] # "running"

(* A bench that has returned, with any result, leaves no request behind in *)
(* the engine, not even those of siblings that were given up.              *)
EndedBenchIsQuiet ==
    \A b \in BenchIds, i \in Feeds : bench[b].pc = "done" => req[b][i] # "running"

(* A press of STOP ends one bench at most, also when it comes late. *)
OneStopOneBench ==
    Cardinality({b \in BenchIds : bench[b].result = "stopped"}) <= Cardinality(flagged)

BenchesInv == BenchesTypeOK /\ StopSilencesPort /\ EndedBenchIsQuiet /\ OneStopOneBench
=============================================================================
