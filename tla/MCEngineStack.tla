--------------------------- MODULE MCEngineStack ---------------------------
(* Instances of EngineStack for TLC. *)
EXTENDS EngineStack, TLC

CONSTANTS l1, l2, l3

\* Calls of launch_engine are interchangeable: no action or safety property
\* orders them.  Not used where a liveness property is checked.
LaunchSymmetry == Permutations(Launches)
=============================================================================
