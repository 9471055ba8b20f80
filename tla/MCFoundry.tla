---------------------------- MODULE MCFoundry ----------------------------
(* The foundry on small instances, see README.md. *)
EXTENDS Foundry

Plan(n, ks) == [k \in Kinds |-> IF k = "start" THEN n ELSE IF k \in ks THEN 1 ELSE 0]
Request(pr, also, auto) == [prof |-> "edge", pr |-> pr, also |-> also, auto |-> auto]
MCRequests == {Request("pr", TRUE, FALSE), Request("none", FALSE, TRUE)}
(* two builds in turn, with any two different disturbances *)
MCPlans == {Plan(2, {j, k}) : j, k \in Kinds \ {"start", "early"}}
(* one build that nobody answers *)
MCExpire == {Plan(1, {"expire"})}
==========================================================================
