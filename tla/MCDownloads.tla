---------------------------- MODULE MCDownloads ----------------------------
(* The download manager on small instances, see README.md. *)
EXTENDS Downloads

CONSTANTS s1, s2, m, p, q

Plan(ks) == [k \in Kinds |-> IF k \in ks THEN 1 ELSE 0]
MCSize == [f \in Files |-> IF f = m THEN 2 ELSE 1]
(* one start with up to two disturbances, or two starts with a fault *)
MCPlans == {Plan({"start"} \cup ks) : ks \in
    {{"crash", "fault"}, {"pause", "fault"}, {"cancel", "bump"}, {"recover", "fault"}}}
    \cup {[Plan({"fault"}) EXCEPT !["start"] = 2]}
=============================================================================
