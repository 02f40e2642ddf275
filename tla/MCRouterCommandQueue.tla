------------------------ MODULE MCRouterCommandQueue ------------------------
(* Instances of RouterCommandQueue for TLC. *)
EXTENDS RouterCommandQueue, TLC

CONSTANTS c1, c2, r1, r2

OneCommand  == {c1}
TwoCommands == {c1, c2}
OneRun      == {r1}
TwoRuns     == {r1, r2}

\* Command ids and runs are interchangeable.
QueueSymmetry == Permutations({c1, c2}) \cup Permutations({r1, r2})
=============================================================================
