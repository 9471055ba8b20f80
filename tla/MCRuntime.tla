----------------------------- MODULE MCRuntime -----------------------------
(***************************************************************************)
(* The background workers, checked in one run: the brains that watch the   *)
(* running engines, and the worker that builds one.  They share no state,  *)
(* so each behaviour runs one of them, chosen at the start.                *)
(***************************************************************************)
EXTENDS Brains, MCFoundry

VARIABLE part
RunInit == part \in {"brains", "foundry"} /\ BrainsInit /\ Init
RunNext == /\ UNCHANGED part
           /\ \/ part = "brains" /\ BrainsNext /\ UNCHANGED vars
              \/ part = "foundry" /\ Next /\ UNCHANGED brainVars
\* BrainsFairness and BuildFairness, each of the part that runs
RunFairness ==
    /\ \A g \in Launches : /\ WF_brainVars(part = "brains" /\ StartStep(g))
                           /\ WF_brainVars(part = "brains" /\ BrainFirst(g))
                           /\ WF_brainVars(part = "brains" /\ BrainEnds(g))
    /\ \A k \in Stoppers : WF_brainVars(part = "brains" /\ StopStep(k))
    /\ WF_brainVars(part = "brains" /\ LeaveJoined)
    /\ WF_vars(part = "foundry" /\ Finishing)
    /\ \A w \in Sessions : WF_vars(part = "foundry" /\ Work(w))
RunSpec == RunInit /\ [][RunNext]_<<part, brainVars, vars>> /\ RunFairness
=============================================================================
