----------------------------- MODULE MCJobRunner -----------------------------
(* JobRunner on one or two jobs and one or two request threads. *)
EXTENDS JobRunner, TLC

CONSTANTS j1, j2, r1, r2

OneJob == {j1}
TwoJobs == {j1, j2}
OneRequest == {r1}
TwoRequests == {r1, r2}

\* Request threads are interchangeable; used where only safety is checked.
RequestSymmetry == Permutations(TwoRequests)
=============================================================================
