------------------------------ MODULE MCGateway ------------------------------
(***************************************************************************)
(* Gateway with three requests, in one of two settings.                    *)
(*                                                                         *)
(*   mixed     an admin and a viewer, a shared trace id, a crash or a      *)
(*             database error, and time for two windows;                   *)
(*   patient   one principal, and time to come back after the longest      *)
(*             Retry-After.                                                *)
(***************************************************************************)
EXTENDS Gateway, TLC

CONSTANTS r1, r2, r3, trace, alice, bob,
          MixedTime  \* bound: the clock in the first setting

VARIABLE setting

ThreeRequests == {r1, r2, r3}
OneTrace == {trace}  \* the id a proxy gives to all requests of one transaction
AllIds == ThreeRequests \cup OneTrace
Everyone == {alice, bob}
OneAdmin == {alice}
OneViewer == {bob}

RequestSymmetry == Permutations(ThreeRequests)

\* Nothing fails, nobody exports, and all requests are alice's, under ids of their own.
Patient ==
    /\ \A r \in Requests : request'[r].who \in {alice, Nobody} /\ request'[r].id = r
    /\ crashes' + faults' = 0
    /\ UNCHANGED export

MCInit == Init /\ setting \in {"mixed", "patient"}

MCNext ==
    /\ Next
    /\ \/ setting = "mixed" /\ clock' <= MixedTime
       \/ setting = "patient" /\ Patient
    /\ UNCHANGED setting

MCSpec == MCInit /\ [][MCNext]_<<vars, setting>>
=============================================================================
