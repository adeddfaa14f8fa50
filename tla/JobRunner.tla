------------------------------ MODULE JobRunner ------------------------------
(***************************************************************************)
(* The background job runner (jobs/runner.py) with the job rows it keeps   *)
(* in SQL (JobRepository), the routes that start, cancel and watch a job,  *)
(* and the part of the owned-data purge that deletes job rows.             *)
(*                                                                         *)
(* Who runs concurrently: request threads (start, cancel, purge), the      *)
(* worker threads of one ThreadPoolExecutor, and event streams.  Every     *)
(* repository call opens a session of its own, so nothing is atomic across *)
(* two calls.  Inside a call the SELECT of `get` and the UPDATE of the     *)
(* commit are two statements:                                              *)
(*   - request_cancel decides from what it selected, so it is two actions, *)
(*     CancelRead and CancelCommit;                                        *)
(*   - update writes columns that do not depend on what it selected        *)
(*     (started_at and the state column do, but only the job's one worker  *)
(*     writes started_at, and another writer can only have put "cancelled" *)
(*     where the worker is about to put "cancelled"), so it is one action. *)
(*                                                                         *)
(* Definitions headed "Mutant" are plausible errors of the definition that *)
(* follows them.  No specification uses them; each shows that a property   *)
(* fails when the code is wrong in that way.                               *)
(*                                                                         *)
(* Left out: kind, message, error text and the percentage, which no        *)
(* control depends on.                                                     *)
(***************************************************************************)
EXTENDS Naturals, Sequences, FiniteSets

CONSTANTS
    Jobs,        \* identifiers jobs.create may draw (uuid4: never reused)
    Requests,    \* request threads that can be inside cancel_job at once
    Watched,     \* jobs an event stream may be opened on
    MaxWorkers,  \* settings.max_concurrent_jobs
    MaxCrashes,  \* bound: process crashes considered
    MaxFaults    \* bound: database errors considered

ASSUME JobRunnerAssumption ==
    /\ IsFiniteSet(Jobs)
    /\ Watched \subseteq Jobs
    /\ MaxWorkers \in Nat \ {0}
    /\ MaxCrashes \in Nat
    /\ MaxFaults \in Nat

VARIABLES
    row,      \* the analysis_jobs table
    route,    \* how far the request that creates the job has got
    queue,    \* the executor's work queue
    future,   \* state of the Future submit returned
    futures,  \* keys of the runner's _futures dictionary
    at,       \* where the job's worker thread is inside run()
    request,  \* the cancel_job call each request thread is in
    purge,    \* the retention request of the jobs' owner
    stream,   \* the event stream on each watched job
    crashes,
    faults

vars == <<row, route, queue, future, futures, at, request, purge, stream,
          crashes, faults>>

-----------------------------------------------------------------------------
(* Types *)

Terminal == {"completed", "failed", "cancelled"}
Active == {"queued", "running"}
Gone == {"absent", "purged"}
RowState == Active \cup Terminal \cup Gone

Row == [state : RowState, cancel : BOOLEAN, started : BOOLEAN,
        finished : BOOLEAN, result : BOOLEAN]

\* Places inside run(), by what the worker does next; the body of `try` up to
\* "complete", then the two handlers, then `finally`.
TryBody == {"check", "start", "task", "report", "final", "complete"}
Handlers == {"cancel", "fail"}
InRun == TryBody \cup Handlers \cup {"finally"}

NoRequest == [step |-> "idle", job |-> "none", saw |-> "none"]
PendingRequest ==
    [step : {"commit", "future"}, job : Jobs, saw : Active \cup Terminal]

TypeOK ==
    /\ row \in [Jobs -> Row]
    /\ route \in [Jobs -> {"new", "created", "submitting", "returned", "aborted"}]
    /\ queue \in Seq(Jobs)
    /\ future \in [Jobs -> {"none", "pending", "running", "done", "cancelled"}]
    /\ futures \subseteq Jobs
    /\ at \in [Jobs -> {"idle", "over"} \cup InRun]
    /\ request \in [Requests -> {NoRequest} \cup PendingRequest]
    /\ purge \in {"idle", "checked"}
    /\ stream \in [Jobs -> {"off", "open", "closed", "broken"}]
    /\ crashes \in 0..MaxCrashes
    /\ faults \in 0..MaxFaults

NoRow == [state |-> "absent", cancel |-> FALSE, started |-> FALSE,
          finished |-> FALSE, result |-> FALSE]

Init ==
    /\ row = [j \in Jobs |-> NoRow]
    /\ route = [j \in Jobs |-> "new"]
    /\ queue = <<>>
    /\ future = [j \in Jobs |-> "none"]
    /\ futures = {}
    /\ at = [j \in Jobs |-> "idle"]
    /\ request = [r \in Requests |-> NoRequest]
    /\ purge = "idle"
    /\ stream = [j \in Jobs |-> "off"]
    /\ crashes = 0
    /\ faults = 0

-----------------------------------------------------------------------------
(* Helpers *)

Exists(j) == row[j].state \notin Gone

\* The runner's _lock is held across submit's two statements and nowhere else
\* for more than one step.
LockFree == \A j \in Jobs : route[j] # "submitting"

Running == {j \in Jobs : future[j] = "running"}
Unfinished == {j \in Jobs : future[j] \in {"pending", "running"}}

\* active_job_count(), which the metrics endpoint reports.
ActiveJobs == {j \in futures : future[j] \notin {"done", "cancelled"}}

-----------------------------------------------------------------------------
(* The route that starts a job *)

\* jobs.create: the row is committed before anything is submitted.
Create(j) ==
    /\ route[j] = "new"
    /\ route' = [route EXCEPT ![j] = "created"]
    /\ row' = [row EXCEPT ![j] = [NoRow EXCEPT !.state = "queued"]]
    /\ UNCHANGED <<queue, future, futures, at, request, purge, stream,
                   crashes, faults>>

\* What the route does between create and submit_job raises (runs.create finds
\* the sample gone, the database refuses): the request ends, the row stays.
AbandonStart(j) ==
    /\ route[j] = "created"
    /\ route' = [route EXCEPT ![j] = "aborted"]
    /\ UNCHANGED <<row, queue, future, futures, at, request, purge, stream,
                   crashes, faults>>

\* submit_job, first statement under the lock: the worker may start at once.
Enqueue(j) ==
    /\ route[j] = "created"
    /\ LockFree
    /\ route' = [route EXCEPT ![j] = "submitting"]
    /\ queue' = Append(queue, j)
    /\ future' = [future EXCEPT ![j] = "pending"]
    /\ UNCHANGED <<row, futures, at, request, purge, stream, crashes, faults>>

\* submit_job, second statement under the lock, and the release.
Register(j) ==
    /\ route[j] = "submitting"
    /\ route' = [route EXCEPT ![j] = "returned"]
    /\ futures' = futures \cup {j}
    /\ UNCHANGED <<row, queue, future, at, request, purge, stream, crashes,
                   faults>>

-----------------------------------------------------------------------------
(* The worker thread: run() *)

\* A free pool thread takes the next item; a cancelled Future is dropped.
Dequeue ==
    /\ queue # <<>>
    /\ Cardinality(Running) < MaxWorkers
    /\ queue' = Tail(queue)
    /\ LET j == Head(queue) IN
       IF future[j] = "pending"
         THEN /\ future' = [future EXCEPT ![j] = "running"]
              /\ at' = [at EXCEPT ![j] = "check"]
         ELSE UNCHANGED <<future, at>>
    /\ UNCHANGED <<row, route, futures, request, purge, stream, crashes, faults>>

GoTo(j, place) == at' = [at EXCEPT ![j] = place]

NotWorker == <<route, queue, future, futures, request, purge, stream, crashes,
               faults>>

\* context.cancelled(), then JobCancelled, the next step, or the not-found
\* error of `get` when the row has been purged.
CheckCancelled(j, next) ==
    /\ GoTo(j, IF ~Exists(j) THEN "fail"
               ELSE IF row[j].cancel THEN "cancel" ELSE next)
    /\ UNCHANGED <<row, NotWorker>>

FirstCheck(j) == at[j] = "check" /\ CheckCancelled(j, "start")

\* Mutant: a state name the API schema does not know.
MarkRunningMisnamed(j) ==
    /\ at[j] = "start"
    /\ row' = IF Exists(j) THEN [row EXCEPT ![j].state = "started"] ELSE row
    /\ GoTo(j, IF Exists(j) THEN "task" ELSE "fail")
    /\ UNCHANGED NotWorker

\* update(state="running"): no look at the state the row is in.
MarkRunning(j) ==
    /\ at[j] = "start"
    /\ IF Exists(j)
         THEN /\ row' = [row EXCEPT ![j] =
                          [@ EXCEPT !.state = "running", !.started = TRUE]]
              /\ GoTo(j, "task")
         ELSE /\ GoTo(j, "fail")
              /\ UNCHANGED row
    /\ UNCHANGED NotWorker

\* The task calls context.update or context.check_cancelled; the update's own
\* write comes in a later transaction than its check.
TaskReports(j) == at[j] = "task" /\ CheckCancelled(j, "report")

ReportProgress(j) ==
    /\ at[j] = "report"
    /\ GoTo(j, IF Exists(j) THEN "task" ELSE "fail")
    /\ UNCHANGED <<row, NotWorker>>

\* The task returns a result reference, or raises.
TaskEnds(j) ==
    /\ at[j] = "task"
    /\ \E place \in {"final", "fail"} : GoTo(j, place)
    /\ UNCHANGED <<row, NotWorker>>

FinalCheck(j) == at[j] = "final" /\ CheckCancelled(j, "complete")

Complete(j) ==
    /\ at[j] = "complete"
    /\ IF Exists(j)
         THEN /\ row' = [row EXCEPT ![j] =
                          [@ EXCEPT !.state = "completed", !.finished = TRUE,
                                    !.result = TRUE]]
              /\ GoTo(j, "finally")
         ELSE /\ GoTo(j, "fail")
              /\ UNCHANGED row
    /\ UNCHANGED NotWorker

\* Mutant: the handlers log and swallow, and write nothing.
HandleSilently(j) ==
    /\ at[j] \in Handlers
    /\ GoTo(j, "finally")
    /\ UNCHANGED <<row, NotWorker>>

\* The two except clauses.  An error raised here (the row is gone) leaves the
\* handler for `finally` and ends up in a Future nobody reads.
Handle(j) ==
    /\ at[j] \in Handlers
    /\ LET verdict == IF at[j] = "cancel" THEN "cancelled" ELSE "failed" IN
       row' = IF Exists(j)
                THEN [row EXCEPT ![j] =
                        [@ EXCEPT !.state = verdict, !.finished = TRUE]]
                ELSE row
    /\ GoTo(j, "finally")
    /\ UNCHANGED NotWorker

\* Mutant: pops without taking the lock.
PopFutureUnlocked(j) ==
    /\ at[j] = "finally"
    /\ futures' = futures \ {j}
    /\ future' = [future EXCEPT ![j] = "done"]
    /\ GoTo(j, "over")
    /\ UNCHANGED <<row, route, queue, request, purge, stream, crashes, faults>>

\* finally: pop the entry under the lock; run() returns and frees the thread.
PopFuture(j) ==
    /\ at[j] = "finally"
    /\ LockFree
    /\ futures' = futures \ {j}
    /\ future' = [future EXCEPT ![j] = "done"]
    /\ GoTo(j, "over")
    /\ UNCHANGED <<row, route, queue, request, purge, stream, crashes, faults>>

\* A repository call of the worker raises (lock time-out, connection lost).
WorkerFault(j) ==
    /\ faults < MaxFaults
    /\ faults' = faults + 1
    /\ \/ at[j] \in TryBody \ {"task"} /\ GoTo(j, "fail")
       \/ at[j] \in Handlers /\ GoTo(j, "finally")
    /\ UNCHANGED <<row, route, queue, future, futures, request, purge, stream,
                   crashes>>

Worker(j) ==
    \/ FirstCheck(j) \/ MarkRunning(j) \/ TaskReports(j) \/ ReportProgress(j)
    \/ TaskEnds(j) \/ FinalCheck(j) \/ Complete(j) \/ Handle(j) \/ PopFuture(j)

-----------------------------------------------------------------------------
(* cancel_job, called by the two cancel routes *)

NotRequest == <<route, queue, futures, at, purge, stream, crashes, faults>>

\* request_cancel's SELECT; a row that is already terminal is returned as it is.
CancelRead(r, j) ==
    /\ request[r] = NoRequest
    /\ Exists(j)
    /\ request' = [request EXCEPT ![r] =
          [step |-> IF row[j].state \in Terminal THEN "future" ELSE "commit",
           job |-> j, saw |-> row[j].state]]
    /\ UNCHANGED <<row, future, NotRequest>>

\* Mutants: the end time is forgotten; the whole selected row is written back.
CancelColumnsNoEnd(rec, saw) ==
    IF saw = "queued" THEN [rec EXCEPT !.cancel = TRUE, !.state = "cancelled"]
                      ELSE [rec EXCEPT !.cancel = TRUE]
CancelColumnsStale(rec, saw) ==
    IF saw = "queued"
      THEN [rec EXCEPT !.cancel = TRUE, !.state = "cancelled", !.finished = TRUE]
      ELSE [rec EXCEPT !.cancel = TRUE, !.state = saw]

\* The columns request_cancel writes, after it selected a row in state saw.
CancelColumns(rec, saw) ==
    IF saw = "queued"
      THEN [rec EXCEPT !.cancel = TRUE, !.state = "cancelled", !.finished = TRUE]
      ELSE [rec EXCEPT !.cancel = TRUE]

\* Mutants: no commit; a merge that inserts the row if it has been deleted.
CancelCommitUnsaved(r) ==
    /\ request[r].step = "commit"
    /\ request' = [request EXCEPT ![r] =
          [@ EXCEPT !.step = "future",
                    !.saw = IF @ = "queued" THEN "cancelled" ELSE @]]
    /\ UNCHANGED <<row, future, NotRequest>>
CancelCommitMerge(r) ==
    LET j == request[r].job
        saw == request[r].saw
    IN
    /\ request[r].step = "commit"
    /\ row' = [row EXCEPT ![j] = CancelColumns(row[j], saw)]
    /\ request' = [request EXCEPT ![r] =
          [step |-> "future", job |-> j,
           saw |-> IF saw = "queued" THEN "cancelled" ELSE saw]]
    /\ UNCHANGED <<future, NotRequest>>

\* request_cancel's UPDATE.  A row deleted meanwhile makes the commit raise.
CancelCommit(r) ==
    LET j == request[r].job
        saw == request[r].saw
        returned == IF saw = "queued" THEN "cancelled" ELSE saw
    IN
    /\ request[r].step = "commit"
    /\ IF Exists(j)
         THEN /\ row' = [row EXCEPT ![j] = CancelColumns(row[j], saw)]
              /\ request' = [request EXCEPT ![r] =
                                [step |-> "future", job |-> j, saw |-> returned]]
         ELSE /\ request' = [request EXCEPT ![r] = NoRequest]
              /\ UNCHANGED row
    /\ UNCHANGED <<future, NotRequest>>

\* A database error in the commit: the request fails and nothing is written.
CancelFault(r) ==
    /\ request[r].step = "commit"
    /\ faults < MaxFaults
    /\ faults' = faults + 1
    /\ request' = [request EXCEPT ![r] = NoRequest]
    /\ UNCHANGED <<row, route, queue, future, futures, at, purge, stream, crashes>>

\* Look the Future up under the lock and cancel it if it has not been started.
\* The cancel comes after the release; nothing between the two can bring back a
\* Future that was popped or make one pending again, so they are one action.
CancelFuture(r) ==
    LET j == request[r].job IN
    /\ request[r].step = "future"
    /\ LockFree
    /\ future' = IF j \in futures /\ request[r].saw = "cancelled"
                       /\ future[j] = "pending"
                   THEN [future EXCEPT ![j] = "cancelled"]
                   ELSE future
    /\ request' = [request EXCEPT ![r] = NoRequest]
    /\ UNCHANGED <<row, NotRequest>>

-----------------------------------------------------------------------------
(* RetentionRepository.purge, as far as job rows go *)

PurgeCheck ==
    /\ purge = "idle"
    /\ \A j \in Jobs : row[j].state \notin Active
    /\ purge' = "checked"
    /\ UNCHANGED <<row, route, queue, future, futures, at, request, stream,
                   crashes, faults>>

\* DELETE ... WHERE owner_id: whatever rows there are by now.
PurgeDelete ==
    /\ purge = "checked"
    /\ purge' = "idle"
    /\ row' = [j \in Jobs |->
                 IF Exists(j) THEN [NoRow EXCEPT !.state = "purged"] ELSE row[j]]
    /\ UNCHANGED <<route, queue, future, futures, at, request, stream, crashes,
                   faults>>

-----------------------------------------------------------------------------
(* GET /jobs/{id}/stream *)

NotStream == <<row, route, queue, future, futures, at, request, purge, crashes,
               faults>>

OpenStream(j) ==
    /\ stream[j] = "off"
    /\ Exists(j)
    /\ stream' = [stream EXCEPT ![j] = "open"]
    /\ UNCHANGED NotStream

\* Mutant: the stream's set of terminal states lacks "cancelled".
PollStreamForgetful(j) ==
    /\ stream[j] = "open"
    /\ row[j].state \notin Active \cup {"cancelled"}
    /\ stream' = [stream EXCEPT ![j] = IF Exists(j) THEN "closed" ELSE "broken"]
    /\ UNCHANGED NotStream

\* A poll that finds the job terminal is the last; one that finds no row raises
\* inside the generator.  Every other poll changes nothing here.
PollStream(j) ==
    /\ stream[j] = "open"
    /\ row[j].state \notin Active
    /\ stream' = [stream EXCEPT ![j] = IF Exists(j) THEN "closed" ELSE "broken"]
    /\ UNCHANGED NotStream

-----------------------------------------------------------------------------
(* The process dies and is started again.  init_db recovers no job: only the *)
(* table survives, and a job that had been submitted is never run.           *)

Crash ==
    /\ crashes < MaxCrashes
    /\ crashes' = crashes + 1
    /\ route' = [j \in Jobs |-> IF route[j] \in {"created", "submitting"}
                                  THEN "aborted" ELSE route[j]]
    /\ queue' = <<>>
    /\ at' = [j \in Jobs |-> IF future[j] = "none" THEN at[j] ELSE "over"]
    /\ future' = [j \in Jobs |-> "none"]
    /\ futures' = {}
    /\ request' = [r \in Requests |-> NoRequest]
    /\ purge' = "idle"
    /\ stream' = [j \in Jobs |-> IF stream[j] = "open" THEN "broken" ELSE stream[j]]
    /\ UNCHANGED <<row, faults>>

-----------------------------------------------------------------------------

Next ==
    \/ \E j \in Jobs :
          \/ Create(j) \/ AbandonStart(j) \/ Enqueue(j) \/ Register(j)
          \/ Worker(j) \/ WorkerFault(j)
    \/ Dequeue
    \/ \E r \in Requests :
          \/ \E j \in Jobs : CancelRead(r, j)
          \/ CancelCommit(r) \/ CancelFault(r) \/ CancelFuture(r)
    \/ PurgeCheck \/ PurgeDelete
    \/ \E j \in Watched : OpenStream(j) \/ PollStream(j)
    \/ Crash

Spec == Init /\ [][Next]_vars

\* Threads that have begun something go on: a started submit_job finishes, pool
\* threads take work and run it, a begun cancel or purge ends, a stream keeps
\* polling.  A task ends eventually (provider calls have time-outs), however
\* often it reports before that.  Nobody has to create, cancel, watch or purge.
Fairness ==
    /\ \A j \in Jobs :
          /\ WF_vars(Register(j))
          /\ WF_vars(FirstCheck(j) \/ MarkRunning(j) \/ ReportProgress(j)
                     \/ FinalCheck(j) \/ Complete(j) \/ Handle(j) \/ PopFuture(j))
          /\ SF_vars(TaskEnds(j))
    /\ WF_vars(Dequeue)
    /\ \A r \in Requests : WF_vars(CancelCommit(r)) /\ WF_vars(CancelFuture(r))
    /\ WF_vars(PurgeDelete)
    /\ \A j \in Watched : WF_vars(PollStream(j))

FairSpec == Spec /\ Fairness

-----------------------------------------------------------------------------
(* Properties *)

\* A terminal row carries the evidence for what it says, whichever writer won:
\* completed jobs were started and have a result, cancelled ones were asked to
\* cancel, and all have an end time (update and request_cancel).
TerminalEvidence ==
    \A j \in Jobs :
        /\ row[j].state \in Terminal => row[j].finished
        /\ row[j].state = "completed" => row[j].started /\ row[j].result
        /\ row[j].state = "cancelled" => row[j].cancel

\* When cancel_job has cancelled a Future, so that run() will never be called
\* and nobody is left to settle the row, the row already says "cancelled" and
\* was never started.
DroppedNeverRan ==
    \A j \in Jobs : future[j] = "cancelled" =>
        /\ row[j].state \in {"cancelled", "purged"}
        /\ ~row[j].started

\* Outside submit_job's critical section, the count active_job_count() reports
\* is the executor's backlog, and _futures holds nothing more than the backlog
\* and Futures cancelled before they ran: a worker's pop never overtakes the
\* insertion, which would keep a finished job there for the process's lifetime.
FuturesTrackExecutor ==
    LockFree =>
        /\ ActiveJobs = Unfinished
        /\ \A j \in futures \ Unfinished : future[j] = "cancelled"

\* As long as the process does not die and the database does not fail, a row
\* says "running" only while a worker is inside run() for it and has yet to
\* write the verdict: no purge, cancellation or exception strands it there
\* (a stranded row makes every later purge fail with 409).
NoZombie ==
    crashes + faults = 0 =>
        \A j \in Jobs :
            row[j].state = "running" =>
                at[j] \in {"task", "report", "final", "complete", "cancel", "fail"}

\* Once a job is completed or failed, a late request_cancel that selected the
\* row earlier may still turn it into "cancelled", and a purge may delete it;
\* nothing else ever changes what it says, and a result is never taken back.
OutcomeStable ==
    [][\A j \in Jobs :
         /\ row[j].state \in {"completed", "failed"} =>
                row'[j].state \in {row[j].state, "cancelled", "purged"}
         /\ row[j].result => row'[j].result \/ row'[j].state = "purged"]_vars

\* A client of the jobs API sees the behaviours of JobLifecycle.
Client == INSTANCE JobLifecycle WITH
    life <- [j \in Jobs |-> row[j].state],
    asked <- [j \in Jobs |-> row[j].cancel],
    begun <- [j \in Jobs |-> row[j].started],
    decided <- {j \in Jobs : at[j] \in {"finally", "over"}}

ImplementsLifecycle == Client!Spec

\* A submitted job gets out of the executor and its row becomes terminal (or is
\* purged): run() always ends and always says how.
SubmittedSettles ==
    \A j \in Jobs :
        future[j] = "pending" ~>
            /\ future[j] \in {"done", "cancelled"}
            /\ row[j].state \in Terminal \cup {"purged"}

\* A recorded cancellation ends the job for good, also one that was never
\* submitted and one whose report was overtaken by update(state="running").
CancelHonoured ==
    \A j \in Jobs :
        row[j].cancel ~> [](row[j].state \in Terminal \cup {"purged"})

\* An event stream opened on a submitted job ends.
StreamEnds ==
    \A j \in Watched :
        stream[j] = "open" /\ route[j] = "returned" ~> stream[j] # "open"

\* The documented "terminal cancellation" (docs/IMPLEMENTATION_PLAN.md:53): a job
\* that was reported cancelled stays so.
CancelledIsTerminal ==
    [][\A j \in Jobs : row[j].state = "cancelled" =>
           row'[j].state \in {"cancelled", "purged"}]_vars
=============================================================================
