----------------------------- MODULE MCCommands -----------------------------
(***************************************************************************)
(* The components beside the engines' life cycle, checked in one run.      *)
(* They share no state, so each behaviour runs one of them, chosen at the  *)
(* start.                                                                  *)
(***************************************************************************)
EXTENDS PollMeter, Benches, Providers, VramLearn, StreamMeter, FitScan, LogReader, Distribution

VARIABLE part    \* the component of this behaviour

MCRowKeys == {[ctx |-> 1, ub |-> 1, par |-> 1, ram |-> 0], [ctx |-> 3, ub |-> 1, par |-> 1, ram |-> 0],
              [ctx |-> 2, ub |-> 1, par |-> 1, ram |-> 1]}
MCMeasures == {[v |-> 8, h |-> 1], [v |-> 4, h |-> 5], [v |-> 5, h |-> NoHost]}

Says(kind, out) == [kind |-> kind, out |-> out]
MCOutputs == <<{Says("table", FALSE), Says("assert", TRUE)}, {Says("loaded", FALSE), Says("table", FALSE)}>>

\* What an engine gives out: the stream of a request reaches its meter whole,
\* and what it prints reaches the page, the store and its own launch only.
OutputInv == (part = "stream" => StreamInv) /\ (part = "log" => LogInv)

Init == /\ part \in {"poll", "benches", "providers", "learn", "stream", "fit", "log", "desk"}
        /\ PollInit /\ BenchesInit /\ ProvidersInit /\ LearnInit
        /\ StreamInit /\ ScanInit /\ LogInit /\ DeskInit
        /\ (part # "providers" => core)
        /\ (part # "desk" => desk = "jobs" /\ factory = [id \in Plugins |-> "none"])
components == <<pollVars, benchVars, providerVars, learnVars, streamVars, scanVars, logVars,
                deskVars>>
Next == /\ UNCHANGED part
        /\ \/ part = "poll" /\ PollNext
              /\ UNCHANGED <<benchVars, providerVars, learnVars, streamVars, scanVars, logVars,
                            deskVars>>
           \/ part = "benches" /\ BenchesNext
              /\ UNCHANGED <<pollVars, providerVars, learnVars, streamVars, scanVars, logVars,
                            deskVars>>
           \/ part = "providers" /\ ProvidersNext
              /\ UNCHANGED <<pollVars, benchVars, learnVars, streamVars, scanVars, logVars, deskVars>>
           \/ part = "learn" /\ LearnNext
              /\ UNCHANGED <<pollVars, benchVars, providerVars, streamVars, scanVars, logVars,
                            deskVars>>
           \/ part = "stream" /\ StreamNext
              /\ UNCHANGED <<pollVars, benchVars, providerVars, learnVars, scanVars, logVars,
                            deskVars>>
           \/ part = "fit" /\ ScanNext
              /\ UNCHANGED <<pollVars, benchVars, providerVars, learnVars, streamVars, logVars,
                            deskVars>>
           \/ part = "log" /\ LogNext
              /\ UNCHANGED <<pollVars, benchVars, providerVars, learnVars, streamVars, scanVars,
                            deskVars>>
           \/ part = "desk" /\ DeskNext
              /\ UNCHANGED <<pollVars, benchVars, providerVars, learnVars, streamVars, scanVars,
                            logVars>>
Spec == Init /\ [][Next]_<<part, components>>
=============================================================================
