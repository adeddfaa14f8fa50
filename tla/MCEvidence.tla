------------------------------ MODULE MCEvidence ------------------------------
(* Small instances of Evidence. *)
EXTENDS Evidence, TLC

CONSTANTS c1, c2, alice, bob, d1, d2, s1, j1, j2, r1

OneClient == {c1}
TwoPrincipals == {alice, bob}
OneAdmin == {bob}
TwoDumps == {d1, d2}
OneContent == {s1}
TwoJobs == {j1, j2}
OneStamp == {1}
OneResult == {r1}

EvidenceSymmetry == Permutations(Clients) \cup Permutations(Dumps) \cup Permutations(Jobs)
=============================================================================
