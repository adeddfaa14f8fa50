----------------------------- MODULE JobLifecycle -----------------------------
(***************************************************************************)
(* What a client of /api/jobs may rely on, whatever the threads, the       *)
(* database sessions and the purge do behind the API: a job is begun at    *)
(* most once, its worker reaches at most one verdict, "completed" is only  *)
(* ever said of a job that was begun, "cancelled" only of one whose        *)
(* cancellation was asked for, and a purged job never comes back.          *)
(*                                                                         *)
(* It says, too, what a client may NOT rely on: a cancellation that was    *)
(* reported can be overtaken by the worker, and a late one can replace a   *)
(* verdict.                                                                *)
(***************************************************************************)
EXTENDS Naturals

CONSTANT Jobs

VARIABLES
    life,     \* the state GET /jobs/{id} reports
    asked,    \* cancel_requested
    begun,    \* started_at is set
    decided   \* jobs whose worker gave its verdict or never will

lvars == <<life, asked, begun, decided>>

Init ==
    /\ life = [j \in Jobs |-> "absent"]
    /\ asked = [j \in Jobs |-> FALSE]
    /\ begun = [j \in Jobs |-> FALSE]
    /\ decided = {}

Live(j) == life[j] \notin {"absent", "purged"}

Create(j) ==
    /\ life[j] = "absent"
    /\ life' = [life EXCEPT ![j] = "queued"]
    /\ UNCHANGED <<asked, begun, decided>>

Begin(j) ==
    /\ ~begun[j] /\ j \notin decided
    /\ life[j] \in {"queued", "cancelled"}
    /\ life' = [life EXCEPT ![j] = "running"]
    /\ begun' = [begun EXCEPT ![j] = TRUE]
    /\ UNCHANGED <<asked, decided>>

Conclude(j, verdict) ==
    /\ Live(j) /\ j \notin decided
    /\ verdict = "completed" => begun[j]
    /\ verdict = "cancelled" => asked[j]
    /\ life' = [life EXCEPT ![j] = verdict]
    /\ decided' = decided \cup {j}
    /\ UNCHANGED <<asked, begun>>

\* A cancellation is recorded, and is reported at once if it found the job queued.
Ask(j, new) ==
    /\ Live(j)
    /\ new \in {life[j], "cancelled"}
    /\ life' = [life EXCEPT ![j] = new]
    /\ asked' = [asked EXCEPT ![j] = TRUE]
    /\ UNCHANGED <<begun, decided>>

\* The workers of some jobs die without a verdict.
Lose(lost) ==
    /\ decided' = decided \cup lost
    /\ UNCHANGED <<life, asked, begun>>

Purge ==
    /\ life' = [j \in Jobs |-> IF Live(j) THEN "purged" ELSE life[j]]
    /\ asked' = [j \in Jobs |-> FALSE]
    /\ begun' = [j \in Jobs |-> FALSE]
    /\ UNCHANGED decided

Next ==
    \/ \E j \in Jobs :
          \/ Create(j) \/ Begin(j)
          \/ \E verdict \in {"completed", "failed", "cancelled"} : Conclude(j, verdict)
          \/ \E new \in {life[j], "cancelled"} : Ask(j, new)
    \/ \E lost \in SUBSET Jobs : Lose(lost)
    \/ Purge

Spec == Init /\ [][Next]_lvars
=============================================================================
