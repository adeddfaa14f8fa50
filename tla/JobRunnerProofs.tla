--------------------------- MODULE JobRunnerProofs ---------------------------
(***************************************************************************)
(* Proofs about JobRunner for any set of jobs, any number of request       *)
(* threads and workers, and any number of crashes and database errors.     *)
(***************************************************************************)
EXTENDS JobRunner, TLAPS

-----------------------------------------------------------------------------
(* The inductive invariant *)

\* The Future, the worker's place, _futures and the route agree.
ExecInv ==
    \A j \in Jobs :
        /\ at[j] \in InRun <=> future[j] = "running"
        /\ future[j] \in {"pending", "cancelled"} => at[j] = "idle"
        /\ future[j] = "done" => at[j] = "over"
        /\ route[j] = "new" => row[j].state = "absent"
        /\ row[j].state = "absent" => route[j] = "new"
        /\ route[j] \in {"new", "created"} => future[j] = "none" /\ at[j] = "idle"
        /\ route[j] = "submitting" => future[j] \in {"pending", "running"}
        /\ future[j] \in {"pending", "running"} =>
               j \in futures \/ route[j] = "submitting"
        /\ j \in futures =>
               future[j] \in {"pending", "running", "cancelled"}

\* What the row can hold at each place of its worker.
RowInv ==
    \A j \in Jobs :
        /\ row[j].state \in Gone =>
               ~row[j].cancel /\ ~row[j].started /\ ~row[j].result
        /\ at[j] \in {"idle", "check", "start"} =>
               /\ ~row[j].started /\ ~row[j].result
               /\ row[j].state \in {"absent", "queued", "cancelled", "purged"}
        /\ at[j] \in {"task", "report", "final", "complete"} =>
               row[j].started \/ row[j].state = "purged"
        /\ at[j] = "cancel" => row[j].cancel \/ row[j].state = "purged"
        /\ row[j].state \in {"completed", "failed"} => at[j] \in {"finally", "over"}
        /\ row[j].result => at[j] \in {"finally", "over"}

\* A request that is about to cancel the Future of a job no worker has begun
\* has already seen to it that the row says "cancelled".
RequestInv ==
    /\ \A r \in Requests :
           request[r].step = "commit" => request[r].saw \in Active
    /\ \A r \in Requests :
           request[r].step = "future" /\ request[r].saw = "cancelled"
             /\ at[request[r].job] = "idle"
           => row[request[r].job].state \in {"cancelled", "purged"}
    /\ \A j \in Jobs :
           future[j] = "cancelled" => row[j].state \in {"cancelled", "purged"}

IInv == TypeOK /\ ExecInv /\ RowInv /\ RequestInv /\ TerminalEvidence /\ NoZombie

-----------------------------------------------------------------------------
(* Type correctness *)

LEMMA InitTypeOK == Init => TypeOK
  BY JobRunnerAssumption
     DEF Init, TypeOK, NoRow, Row, RowState, Gone, Active, Terminal, NoRequest

\* Writing some columns of a row leaves it a row.
LEMMA RowWrites ==
  ASSUME NEW rec \in Row, NEW s \in RowState, NEW b \in BOOLEAN, NEW c \in BOOLEAN
  PROVE  /\ [rec EXCEPT !.state = s, !.started = b] \in Row
         /\ [rec EXCEPT !.state = s, !.finished = b] \in Row
         /\ [rec EXCEPT !.state = s, !.finished = b, !.result = c] \in Row
         /\ [rec EXCEPT !.cancel = b, !.state = s, !.finished = c] \in Row
         /\ [rec EXCEPT !.cancel = b] \in Row
  BY DEF Row

LEMMA NextTypeOK == TypeOK /\ [Next]_vars => TypeOK'
<1> SUFFICES ASSUME TypeOK, [Next]_vars PROVE TypeOK'
  OBVIOUS
<1> USE JobRunnerAssumption DEF TypeOK
<1>1. ASSUME NEW j \in Jobs, Create(j) PROVE TypeOK'
  <2>1. [NoRow EXCEPT !.state = "queued"] \in Row
    BY DEF NoRow, Row, RowState, Active
  <2>2. QED BY <1>1, <2>1 DEF Create
<1>2. ASSUME NEW j \in Jobs, AbandonStart(j) PROVE TypeOK'
  BY <1>2 DEF AbandonStart
<1>3. ASSUME NEW j \in Jobs, Enqueue(j) PROVE TypeOK'
  BY <1>3 DEF Enqueue
<1>4. ASSUME NEW j \in Jobs, Register(j) PROVE TypeOK'
  BY <1>4 DEF Register
<1>5. ASSUME NEW j \in Jobs, Worker(j) PROVE TypeOK'
  <2> USE DEF InRun, TryBody, Handlers, NotWorker, GoTo
  <2>1. CASE FirstCheck(j) \/ TaskReports(j) \/ FinalCheck(j)
    BY <2>1 DEF FirstCheck, TaskReports, FinalCheck, CheckCancelled
  <2>2. CASE MarkRunning(j)
    <3>1. [row[j] EXCEPT !.state = "running", !.started = TRUE] \in Row
      <4>1. row[j] \in Row /\ "running" \in RowState
        BY DEF RowState, Active
      <4>2. QED BY ONLY <4>1, RowWrites
    <3>2. QED BY <2>2, <3>1 DEF MarkRunning
  <2>3. CASE ReportProgress(j) \/ TaskEnds(j)
    BY <2>3 DEF ReportProgress, TaskEnds
  <2>4. CASE Complete(j)
    <3>1. [row[j] EXCEPT !.state = "completed", !.finished = TRUE, !.result = TRUE]
            \in Row
      <4>1. row[j] \in Row /\ "completed" \in RowState
        BY DEF RowState, Terminal
      <4>2. QED BY ONLY <4>1, RowWrites
    <3>2. QED BY <2>4, <3>1 DEF Complete
  <2>5. CASE Handle(j)
    <3> DEFINE verdict == IF at[j] = "cancel" THEN "cancelled" ELSE "failed"
    <3>1. [row[j] EXCEPT !.state = verdict, !.finished = TRUE] \in Row
      <4>1. row[j] \in Row /\ verdict \in RowState
        BY DEF RowState, Terminal
      <4> HIDE DEF verdict
      <4>2. QED BY ONLY <4>1, RowWrites
    <3>2. QED BY <2>5, <3>1 DEF Handle
  <2>6. CASE PopFuture(j)
    BY <2>6 DEF PopFuture
  <2>7. QED BY <1>5, <2>1, <2>2, <2>3, <2>4, <2>5, <2>6 DEF Worker
<1>6. ASSUME NEW j \in Jobs, WorkerFault(j) PROVE TypeOK'
  BY <1>6 DEF WorkerFault, GoTo, InRun, TryBody, Handlers
<1>7. CASE Dequeue
  <2>1. Head(queue) \in Jobs /\ queue' \in Seq(Jobs)
    BY <1>7 DEF Dequeue
  <2>2. QED BY <1>7, <2>1 DEF Dequeue, InRun, TryBody
<1>8. ASSUME NEW r \in Requests, NEW j \in Jobs, CancelRead(r, j) PROVE TypeOK'
  <2>1. row[j].state \in Active \cup Terminal
    <3>1. row[j].state \in RowState
      BY DEF Row
    <3>2. QED BY <1>8, <3>1 DEF CancelRead, Exists, RowState
  <2>2. QED BY <1>8, <2>1 DEF CancelRead, NotRequest, PendingRequest
<1>9. ASSUME NEW r \in Requests, CancelCommit(r) PROVE TypeOK'
  <2>1. request[r] \in PendingRequest
    BY <1>9 DEF CancelCommit, NoRequest
  <2> DEFINE j == request[r].job
             saw == request[r].saw
             returned == IF saw = "queued" THEN "cancelled" ELSE saw
             rec == CancelColumns(row[j], saw)
             req == [step |-> "future", job |-> j, saw |-> returned]
  <2>2. j \in Jobs /\ req \in PendingRequest
    BY <2>1 DEF PendingRequest, Terminal
  <2>3. rec \in Row
    <3>1. row[j] \in Row /\ "cancelled" \in RowState
      BY <2>2 DEF RowState, Terminal
    <3>2. QED BY <3>1, RowWrites DEF CancelColumns
  <2>4. row' = [row EXCEPT ![j] = rec] \/ row' = row
    BY <1>9 DEF CancelCommit
  <2>5. request' = [request EXCEPT ![r] = req] \/ request' = [request EXCEPT ![r] = NoRequest]
    BY <1>9 DEF CancelCommit
  <2>6. UNCHANGED <<route, queue, future, futures, at, purge, stream, crashes, faults>>
    BY <1>9 DEF CancelCommit, NotRequest
  <2> HIDE DEF j, rec, req
  <2>7. QED BY <2>2, <2>3, <2>4, <2>5, <2>6
<1>10. ASSUME NEW r \in Requests, CancelFault(r) PROVE TypeOK'
  BY <1>10 DEF CancelFault
<1>11. ASSUME NEW r \in Requests, CancelFuture(r) PROVE TypeOK'
  <2>1. request[r] \in PendingRequest
    BY <1>11 DEF CancelFuture, NoRequest
  <2>2. QED BY <1>11, <2>1 DEF CancelFuture, NotRequest, PendingRequest
<1>12. CASE PurgeCheck \/ PurgeDelete
  <2>1. [NoRow EXCEPT !.state = "purged"] \in Row
    BY DEF NoRow, Row, RowState, Gone
  <2>2. QED BY <1>12, <2>1 DEF PurgeCheck, PurgeDelete
<1>13. ASSUME NEW j \in Watched, OpenStream(j) \/ PollStream(j) PROVE TypeOK'
  BY <1>13 DEF OpenStream, PollStream, NotStream
<1>14. CASE Crash
  BY <1>14 DEF Crash
<1>15. CASE UNCHANGED vars
  BY <1>15 DEF vars
<1>16. QED
  BY <1>1, <1>2, <1>3, <1>4, <1>5, <1>6, <1>7, <1>8, <1>9, <1>10, <1>11, <1>12,
     <1>13, <1>14, <1>15 DEF Next

\* The state stays within its types: every row, Future, request and stream is in
\* one of the states named above, however the threads interleave.
THEOREM TypeCorrect == Spec => []TypeOK
<1>1. QED BY InitTypeOK, NextTypeOK, PTL DEF Spec

-----------------------------------------------------------------------------
(* The invariant is inductive *)

LEMMA InitIInv == Init => IInv
  BY InitTypeOK
     DEF Init, IInv, ExecInv, RowInv, RequestInv, TerminalEvidence, NoZombie, NoRow,
         NoRequest, Terminal, Gone, InRun, TryBody, Handlers

\* What each writer of rows does to them, column by column.
LEMMA MarkRunningEffect ==
  ASSUME TypeOK, NEW j \in Jobs, MarkRunning(j)
  PROVE  /\ \A k \in Jobs \ {j} : row'[k] = row[k] /\ at'[k] = at[k]
         /\ at[j] = "start"
         /\ ~Exists(j) => row'[j] = row[j] /\ at'[j] = "fail"
         /\ Exists(j) => /\ at'[j] = "task"
                         /\ row'[j].state = "running" /\ row'[j].started
                         /\ row'[j].cancel = row[j].cancel
                         /\ row'[j].finished = row[j].finished
                         /\ row'[j].result = row[j].result
<1>1. row[j] \in Row
  BY DEF TypeOK
<1>2. /\ [row[j] EXCEPT !.state = "running", !.started = TRUE].state = "running"
      /\ [row[j] EXCEPT !.state = "running", !.started = TRUE].started
      /\ [row[j] EXCEPT !.state = "running", !.started = TRUE].cancel = row[j].cancel
      /\ [row[j] EXCEPT !.state = "running", !.started = TRUE].finished = row[j].finished
      /\ [row[j] EXCEPT !.state = "running", !.started = TRUE].result = row[j].result
  BY ONLY <1>1 DEF Row
<1>3. QED BY <1>2 DEF MarkRunning, GoTo, TypeOK

LEMMA CompleteEffect ==
  ASSUME TypeOK, NEW j \in Jobs, Complete(j)
  PROVE  /\ \A k \in Jobs \ {j} : row'[k] = row[k] /\ at'[k] = at[k]
         /\ at[j] = "complete"
         /\ ~Exists(j) => row'[j] = row[j] /\ at'[j] = "fail"
         /\ Exists(j) => /\ at'[j] = "finally"
                         /\ row'[j].state = "completed" /\ row'[j].finished
                         /\ row'[j].result
                         /\ row'[j].cancel = row[j].cancel
                         /\ row'[j].started = row[j].started
<1> DEFINE rec == [row[j] EXCEPT !.state = "completed", !.finished = TRUE, !.result = TRUE]
<1>1. row[j] \in Row
  BY DEF TypeOK
<1>2. /\ rec.state = "completed" /\ rec.finished /\ rec.result
      /\ rec.cancel = row[j].cancel /\ rec.started = row[j].started
  BY ONLY <1>1 DEF Row
<1>3. QED BY <1>2 DEF Complete, GoTo, TypeOK

LEMMA HandleEffect ==
  ASSUME TypeOK, NEW j \in Jobs, Handle(j)
  PROVE  /\ \A k \in Jobs \ {j} : row'[k] = row[k] /\ at'[k] = at[k]
         /\ at[j] \in {"cancel", "fail"} /\ at'[j] = "finally"
         /\ ~Exists(j) => row'[j] = row[j]
         /\ Exists(j) => /\ row'[j].state = IF at[j] = "cancel" THEN "cancelled" ELSE "failed"
                         /\ row'[j].finished
                         /\ row'[j].result = row[j].result
                         /\ row'[j].cancel = row[j].cancel
                         /\ row'[j].started = row[j].started
<1> DEFINE verdict == IF at[j] = "cancel" THEN "cancelled" ELSE "failed"
           rec == [row[j] EXCEPT !.state = verdict, !.finished = TRUE]
<1>1. row[j] \in Row
  BY DEF TypeOK
<1>2. /\ rec.state = verdict /\ rec.finished
      /\ rec.result = row[j].result
      /\ rec.cancel = row[j].cancel /\ rec.started = row[j].started
  BY ONLY <1>1 DEF Row
<1>3. QED BY <1>2 DEF Handle, GoTo, TypeOK, Handlers

LEMMA CancelCommitEffect ==
  ASSUME TypeOK, NEW r \in Requests, CancelCommit(r)
  PROVE  /\ request[r].job \in Jobs /\ request[r].step = "commit"
         /\ \A k \in Jobs :
              \/ row'[k] = row[k]
              \/ /\ k = request[r].job /\ Exists(k)
                 /\ row'[k].cancel
                 /\ row'[k].result = row[k].result
                 /\ row'[k].started = row[k].started
                 /\ \/ row'[k].state = "cancelled" /\ row'[k].finished
                    \/ row'[k].state = row[k].state /\ row'[k].finished = row[k].finished
         /\ \/ request' = [request EXCEPT ![r] = NoRequest]
            \/ /\ request[r].saw # "queued"
               /\ request' = [request EXCEPT ![r] =
                    [step |-> "future", job |-> request[r].job, saw |-> request[r].saw]]
            \/ /\ row'[request[r].job].state = "cancelled"
               /\ request' = [request EXCEPT ![r] =
                    [step |-> "future", job |-> request[r].job, saw |-> "cancelled"]]
         /\ UNCHANGED <<route, queue, future, futures, at, crashes, faults>>
<1> DEFINE j == request[r].job
           saw == request[r].saw
           rec == CancelColumns(row[j], saw)
<1>1. j \in Jobs /\ row[j] \in Row /\ request[r].step = "commit"
  BY DEF CancelCommit, TypeOK, PendingRequest, NoRequest
<1>2. /\ rec.cancel /\ rec.result = row[j].result /\ rec.started = row[j].started
      /\ \/ saw = "queued" /\ rec.state = "cancelled" /\ rec.finished
         \/ saw # "queued" /\ rec.state = row[j].state /\ rec.finished = row[j].finished
  BY ONLY <1>1 DEF CancelColumns, Row
<1>3. CASE ~Exists(j)
  <2>1. row' = row /\ request' = [request EXCEPT ![r] = NoRequest]
    BY <1>3 DEF CancelCommit
  <2>2. UNCHANGED <<route, queue, future, futures, at, crashes, faults>>
    BY DEF CancelCommit, NotRequest
  <2>3. QED BY <1>1, <2>1, <2>2
<1>4. CASE Exists(j)
  <2>1. /\ row' = [row EXCEPT ![j] = rec]
        /\ request' = [request EXCEPT ![r] =
             [step |-> "future", job |-> j,
              saw |-> IF saw = "queued" THEN "cancelled" ELSE saw]]
    BY <1>4 DEF CancelCommit
  <2>2. UNCHANGED <<route, queue, future, futures, at, crashes, faults>>
    BY DEF CancelCommit, NotRequest
  <2>3. row'[j] = rec /\ \A k \in Jobs \ {j} : row'[k] = row[k]
    BY <1>1, <2>1 DEF TypeOK
  <2> HIDE DEF rec
  <2>4. QED BY <1>1, <1>2, <1>4, <2>1, <2>2, <2>3
<1>5. QED BY <1>3, <1>4

LEMMA CancelFutureEffect ==
  ASSUME TypeOK, NEW r \in Requests, CancelFuture(r)
  PROVE  /\ \A k \in Jobs :
              \/ future'[k] = future[k]
              \/ /\ k = request[r].job /\ k \in futures /\ request[r].saw = "cancelled"
                 /\ future[k] = "pending" /\ future'[k] = "cancelled"
         /\ LockFree /\ request[r].step = "future"
         /\ request' = [request EXCEPT ![r] = NoRequest]
         /\ UNCHANGED <<row, route, queue, futures, at, crashes, faults>>
<1>1. /\ \/ future' = future
         \/ /\ request[r].job \in futures /\ request[r].saw = "cancelled"
            /\ future[request[r].job] = "pending"
            /\ future' = [future EXCEPT ![request[r].job] = "cancelled"]
      /\ LockFree /\ request[r].step = "future"
      /\ request' = [request EXCEPT ![r] = NoRequest]
      /\ UNCHANGED <<row, route, queue, futures, at, crashes, faults>>
  BY DEF CancelFuture, NotRequest
<1>2. future \in [Jobs -> {"none", "pending", "running", "done", "cancelled"}]
  BY DEF TypeOK
<1>3. QED BY <1>1, <1>2

LEMMA NextExecInv == TypeOK /\ ExecInv /\ RowInv /\ [Next]_vars => ExecInv'
<1> SUFFICES ASSUME TypeOK, ExecInv, RowInv, [Next]_vars PROVE ExecInv'
  OBVIOUS
<1> USE DEF ExecInv, InRun, TryBody, Handlers
<1>1. ASSUME NEW j \in Jobs, Create(j) \/ AbandonStart(j) PROVE ExecInv'
  BY <1>1 DEF TypeOK, Create, AbandonStart, NoRow
<1>2. ASSUME NEW j \in Jobs, Enqueue(j) \/ Register(j) PROVE ExecInv'
  BY <1>2 DEF TypeOK, Enqueue, Register
<1>3. ASSUME NEW j \in Jobs, Worker(j) \/ WorkerFault(j) PROVE ExecInv'
  <2> USE DEF NotWorker, GoTo
  <2>1. CASE FirstCheck(j) \/ TaskReports(j) \/ FinalCheck(j)
    BY <2>1 DEF TypeOK, FirstCheck, TaskReports, FinalCheck, CheckCancelled
  <2>2. CASE MarkRunning(j)
    <3>1. UNCHANGED <<route, future, futures>>
      BY <2>2 DEF TypeOK, MarkRunning
    <3>2. \A k \in Jobs : at'[k] \in InRun <=> at[k] \in InRun
      BY <2>2, MarkRunningEffect
    <3>3. \A k \in Jobs : (row'[k].state = "absent") <=> (row[k].state = "absent")
      BY <2>2, MarkRunningEffect DEF Exists, Gone
    <3>4. \A k \in Jobs : at[k] \notin InRun => at'[k] = at[k]
      BY <2>2, MarkRunningEffect
    <3>5. QED BY <3>1, <3>2, <3>3, <3>4
  <2>3. CASE ReportProgress(j) \/ TaskEnds(j)
    BY <2>3 DEF TypeOK, ReportProgress, TaskEnds
  <2>4. CASE Complete(j)
    <3>1. UNCHANGED <<route, future, futures>>
      BY <2>4 DEF TypeOK, Complete
    <3>2. QED BY <2>4, <3>1, CompleteEffect DEF Exists, Gone
  <2>5. CASE Handle(j)
    BY <2>5 DEF TypeOK, Handle, Exists, Gone
  <2>6. CASE PopFuture(j)
    BY <2>6 DEF TypeOK, PopFuture, LockFree
  <2>7. CASE WorkerFault(j)
    BY <2>7 DEF TypeOK, WorkerFault
  <2>8. QED BY <1>3, <2>1, <2>2, <2>3, <2>4, <2>5, <2>6, <2>7 DEF Worker
<1>4. CASE Dequeue
  <2>1. Head(queue) \in Jobs
    BY <1>4 DEF TypeOK, Dequeue
  <2>2. QED BY <1>4, <2>1 DEF TypeOK, Dequeue
<1>5. ASSUME NEW r \in Requests, NEW j \in Jobs, CancelRead(r, j) PROVE ExecInv'
  BY <1>5 DEF TypeOK, CancelRead, NotRequest
<1>6. ASSUME NEW r \in Requests, CancelCommit(r) PROVE ExecInv'
  <2>1. \A j \in Jobs : (row'[j].state = "absent") <=> (row[j].state = "absent")
    BY <1>6, CancelCommitEffect DEF Exists, Gone
  <2>2. UNCHANGED <<route, future, futures, at>>
    BY <1>6, CancelCommitEffect
  <2>3. QED BY <2>1, <2>2
<1>7. ASSUME NEW r \in Requests, CancelFault(r) PROVE ExecInv'
  BY <1>7 DEF TypeOK, CancelFault
<1>8. ASSUME NEW r \in Requests, CancelFuture(r) PROVE ExecInv'
  BY <1>8, CancelFutureEffect DEF LockFree
<1>9. CASE PurgeCheck \/ PurgeDelete
  BY <1>9 DEF TypeOK, PurgeCheck, PurgeDelete, Exists, Gone, NoRow
<1>10. ASSUME NEW j \in Watched, OpenStream(j) \/ PollStream(j) PROVE ExecInv'
  BY <1>10 DEF TypeOK, OpenStream, PollStream, NotStream
<1>11. CASE Crash
  BY <1>11 DEF TypeOK, Crash
<1>12. CASE UNCHANGED vars
  BY <1>12 DEF vars
<1>13. QED
  BY <1>1, <1>2, <1>3, <1>4, <1>5, <1>6, <1>7, <1>8, <1>9, <1>10, <1>11, <1>12 DEF Next

LEMMA NextRowInv ==
  TypeOK /\ ExecInv /\ RowInv /\ TerminalEvidence /\ NoZombie /\ [Next]_vars
    => RowInv' /\ TerminalEvidence' /\ NoZombie'
<1> DEFINE P == RowInv /\ TerminalEvidence /\ NoZombie
<1> SUFFICES ASSUME TypeOK, ExecInv, P, [Next]_vars PROVE P'
  OBVIOUS
<1> USE DEF RowInv, TerminalEvidence, NoZombie
<1>0. crashes \in Nat /\ faults \in Nat
  BY JobRunnerAssumption DEF TypeOK
<1>1. ASSUME NEW j \in Jobs, Create(j) PROVE P'
  <2>1. at[j] = "idle"
    BY <1>1 DEF Create, ExecInv
  <2>2. QED BY <1>1, <2>1 DEF Create, NoRow, TypeOK, Gone, Terminal
<1>2. ASSUME NEW j \in Jobs, AbandonStart(j) \/ Enqueue(j) \/ Register(j) PROVE P'
  BY <1>2 DEF AbandonStart, Enqueue, Register
<1>3. ASSUME NEW j \in Jobs, Worker(j) PROVE P'
  <2>1. CASE FirstCheck(j) \/ TaskReports(j) \/ FinalCheck(j)
    <3>1. UNCHANGED <<row, crashes, faults>>
      BY <2>1 DEF FirstCheck, TaskReports, FinalCheck, CheckCancelled, NotWorker
    <3>2. \/ at' = [at EXCEPT ![j] = "fail"]
          \/ row[j].cancel /\ at' = [at EXCEPT ![j] = "cancel"]
          \/ at[j] = "check" /\ at' = [at EXCEPT ![j] = "start"]
          \/ at[j] = "task" /\ at' = [at EXCEPT ![j] = "report"]
          \/ at[j] = "final" /\ at' = [at EXCEPT ![j] = "complete"]
      BY <2>1 DEF FirstCheck, TaskReports, FinalCheck, CheckCancelled, GoTo
    <3>3. at[j] \in {"check", "task", "final"}
      BY <2>1 DEF FirstCheck, TaskReports, FinalCheck
    <3>4. QED BY <3>1, <3>2, <3>3 DEF TypeOK
  <2>2. CASE MarkRunning(j)
    <3>1. UNCHANGED <<crashes, faults>>
      BY <2>2 DEF MarkRunning, NotWorker
    <3>2. QED BY <2>2, <3>1, MarkRunningEffect DEF Exists, Gone, Terminal
  <2>3. CASE ReportProgress(j) \/ TaskEnds(j)
    BY <2>3 DEF ReportProgress, TaskEnds, GoTo, NotWorker, TypeOK
  <2>4. CASE Complete(j)
    <3>1. UNCHANGED <<crashes, faults>>
      BY <2>4 DEF Complete, NotWorker
    <3>2. QED BY <2>4, <3>1, CompleteEffect DEF Exists, Gone, Terminal
  <2>5. CASE Handle(j)
    <3>1. UNCHANGED <<crashes, faults>>
      BY <2>5 DEF Handle, NotWorker
    <3>2. QED BY <2>5, <3>1, HandleEffect DEF Exists, Gone, Terminal
  <2>6. CASE PopFuture(j)
    BY <2>6 DEF PopFuture, GoTo, TypeOK
  <2>7. QED BY <1>3, <2>1, <2>2, <2>3, <2>4, <2>5, <2>6 DEF Worker
<1>4. ASSUME NEW j \in Jobs, WorkerFault(j) PROVE P'
  <2>1. crashes' + faults' # 0 /\ row' = row
    BY <1>0, <1>4 DEF WorkerFault
  <2>2. QED BY <1>4, <2>1 DEF WorkerFault, GoTo, TypeOK, TryBody, Handlers
<1>5. CASE Dequeue
  <2>1. Head(queue) \in Jobs
    BY <1>5 DEF Dequeue, TypeOK
  <2>2. future[Head(queue)] = "pending" => at[Head(queue)] = "idle"
    BY <2>1 DEF ExecInv
  <2>3. /\ UNCHANGED <<row, crashes, faults>>
        /\ \/ at' = at
           \/ /\ future[Head(queue)] = "pending"
              /\ at' = [at EXCEPT ![Head(queue)] = "check"]
    BY <1>5 DEF Dequeue
  <2>4. QED BY <2>1, <2>2, <2>3 DEF TypeOK
<1>6. ASSUME NEW r \in Requests, NEW j \in Jobs, CancelRead(r, j) PROVE P'
  BY <1>6 DEF CancelRead, NotRequest
<1>7. ASSUME NEW r \in Requests, CancelCommit(r) PROVE P'
  BY <1>7, CancelCommitEffect DEF Exists, Gone, Terminal
<1>8. ASSUME NEW r \in Requests, CancelFault(r) PROVE P'
  <2>1. crashes' + faults' # 0 /\ UNCHANGED <<row, at>>
    BY <1>0, <1>8 DEF CancelFault
  <2>2. QED BY <2>1
<1>9. ASSUME NEW r \in Requests, CancelFuture(r) PROVE P'
  BY <1>9, CancelFutureEffect
<1>10. CASE PurgeCheck
  BY <1>10 DEF PurgeCheck
<1>11. CASE PurgeDelete
  <2>1. \A j \in Jobs : \/ row'[j] = row[j]
                        \/ /\ row'[j].state = "purged" /\ row[j].state \notin Gone
                           /\ ~row'[j].cancel /\ ~row'[j].started /\ ~row'[j].result
    BY <1>11 DEF PurgeDelete, Exists, NoRow
  <2>2. UNCHANGED <<at, crashes, faults>>
    BY <1>11 DEF PurgeDelete
  <2>3. QED BY <2>1, <2>2 DEF Gone, Terminal
<1>12. ASSUME NEW j \in Watched, OpenStream(j) \/ PollStream(j) PROVE P'
  BY <1>12 DEF OpenStream, PollStream, NotStream
<1>13. CASE Crash
  <2>1. crashes' + faults' # 0 /\ row' = row
    BY <1>0, <1>13 DEF Crash
  <2>2. \A j \in Jobs : at'[j] = at[j] \/ at'[j] = "over"
    BY <1>13 DEF Crash
  <2>3. QED BY <2>1, <2>2
<1>14. CASE UNCHANGED vars
  BY <1>14 DEF vars
<1>15. QED
  BY <1>1, <1>2, <1>3, <1>4, <1>5, <1>6, <1>7, <1>8, <1>9, <1>10, <1>11, <1>12,
     <1>13, <1>14 DEF Next

LEMMA NextRequestInv ==
  TypeOK /\ ExecInv /\ RowInv /\ RequestInv /\ [Next]_vars => RequestInv'
<1> SUFFICES ASSUME TypeOK, ExecInv, RowInv, RequestInv, [Next]_vars PROVE RequestInv'
  OBVIOUS
<1> USE DEF RequestInv
<1>0. \A r \in Requests : request[r].step # "idle" => request[r].job \in Jobs
  BY DEF TypeOK, NoRequest, PendingRequest
<1>1. CASE /\ UNCHANGED <<at, request, future>>
           /\ \A j \in Jobs : \/ row'[j] = row[j]
                              \/ row'[j].state \in {"cancelled", "purged"}
                              \/ row[j].state = "absent"
  <2>1. \A j \in Jobs : row[j].state = "absent" => route[j] = "new" /\ future[j] = "none"
    BY DEF ExecInv
  <2>2. \A r \in Requests : request[r].step = "future" /\ request[r].saw = "cancelled"
                              /\ at[request[r].job] = "idle"
                            => row[request[r].job].state # "absent"
    OBVIOUS
  <2>3. QED BY <1>0, <1>1, <2>1, <2>2
<1>2. ASSUME NEW j \in Jobs, Create(j) PROVE RequestInv'
  <2>1. /\ UNCHANGED <<at, request, future>>
        /\ row[j].state = "absent"
        /\ \A k \in Jobs \ {j} : row'[k] = row[k]
    BY <1>2 DEF Create, ExecInv, TypeOK
  <2>2. QED BY <1>1, <2>1
<1>3. ASSUME NEW j \in Jobs, AbandonStart(j) \/ Register(j) PROVE RequestInv'
  BY <1>3, <1>1 DEF AbandonStart, Register
<1>4. ASSUME NEW j \in Jobs, Enqueue(j) PROVE RequestInv'
  BY <1>4 DEF Enqueue, TypeOK
<1>5. ASSUME NEW j \in Jobs, Worker(j) \/ WorkerFault(j) PROVE RequestInv'
  <2>1. at[j] # "idle" /\ future[j] # "cancelled"
    BY <1>5 DEF ExecInv, InRun, TryBody, Handlers, Worker, WorkerFault, FirstCheck,
                MarkRunning, TaskReports, ReportProgress, TaskEnds, FinalCheck,
                Complete, Handle, PopFuture
  <2>2. UNCHANGED request
    BY <1>5 DEF Worker, WorkerFault, FirstCheck, MarkRunning, TaskReports,
                ReportProgress, TaskEnds, FinalCheck, Complete, Handle, PopFuture,
                CheckCancelled, NotWorker
  <2>3. /\ \A k \in Jobs \ {j} : row'[k] = row[k]
        /\ \A k \in Jobs : at'[k] = "idle" => k # j /\ at[k] = "idle"
        /\ \A k \in Jobs : future'[k] = "cancelled" => k # j /\ future[k] = "cancelled"
    <3> USE DEF GoTo, NotWorker, CheckCancelled, TypeOK
    <3>1. CASE FirstCheck(j) \/ TaskReports(j) \/ FinalCheck(j) \/ WorkerFault(j)
      BY <2>1, <3>1 DEF FirstCheck, TaskReports, FinalCheck, WorkerFault
    <3>2. CASE MarkRunning(j) \/ Complete(j) \/ Handle(j)
      BY <2>1, <3>2 DEF MarkRunning, Complete, Handle
    <3>3. CASE ReportProgress(j) \/ TaskEnds(j) \/ PopFuture(j)
      BY <2>1, <3>3 DEF ReportProgress, TaskEnds, PopFuture
    <3>4. QED BY <1>5, <3>1, <3>2, <3>3 DEF Worker
  <2>4. QED BY <1>0, <2>2, <2>3
<1>6. CASE Dequeue
  <2>1. /\ UNCHANGED <<row, request>>
        /\ \A j \in Jobs : at'[j] = "idle" => at[j] = "idle"
        /\ \A j \in Jobs : future'[j] = "cancelled" => future[j] = "cancelled"
    BY <1>6 DEF Dequeue, TypeOK
  <2>2. QED BY <1>0, <2>1
<1>7. ASSUME NEW r \in Requests, NEW j \in Jobs, CancelRead(r, j) PROVE RequestInv'
  <2>1. UNCHANGED <<row, future, at>>
    BY <1>7 DEF CancelRead, NotRequest
  <2>2. row[j].state \in Active \cup Terminal
    BY <1>7 DEF CancelRead, Exists, TypeOK, Row, RowState
  <2>3. /\ \A q \in Requests \ {r} : request'[q] = request[q]
        /\ request'[r].job = j /\ request'[r].saw = row[j].state
        /\ request'[r].step = "commit" => row[j].state \in Active
    BY <1>7, <2>2 DEF CancelRead, TypeOK
  <2>4. QED BY <2>1, <2>3
<1>8. ASSUME NEW r \in Requests, CancelCommit(r) PROVE RequestInv'
  <2>1. UNCHANGED <<future, at>>
    BY <1>8, CancelCommitEffect
  <2>2. \A k \in Jobs : row'[k].state \in {row[k].state, "cancelled"}
    BY <1>8, CancelCommitEffect
  <2>3. \/ request' = [request EXCEPT ![r] = NoRequest]
        \/ /\ request[r].saw # "cancelled"
           /\ request' = [request EXCEPT ![r] =
                [step |-> "future", job |-> request[r].job, saw |-> request[r].saw]]
        \/ /\ row'[request[r].job].state = "cancelled"
           /\ request' = [request EXCEPT ![r] =
                [step |-> "future", job |-> request[r].job, saw |-> "cancelled"]]
    BY <1>8, CancelCommitEffect DEF Active
  <2>4. \A q \in Requests : \/ request'[q] = request[q]
                            \/ request'[q] = NoRequest
                            \/ /\ request'[q].step = "future"
                               /\ request'[q].saw # "cancelled"
                            \/ /\ request'[q].step = "future"
                               /\ row'[request'[q].job].state = "cancelled"
    <3> DEFINE Late(saw) == [step |-> "future", job |-> request[r].job, saw |-> saw]
    <3>1. /\ Late("cancelled").step = "future"
          /\ Late("cancelled").job = request[r].job
          /\ \A saw : Late(saw).step = "future" /\ Late(saw).saw = saw
      OBVIOUS
    <3>2. \/ request' = [request EXCEPT ![r] = NoRequest]
          \/ request[r].saw # "cancelled" /\ request' = [request EXCEPT ![r] = Late(request[r].saw)]
          \/ /\ row'[request[r].job].state = "cancelled"
             /\ request' = [request EXCEPT ![r] = Late("cancelled")]
      BY <2>3
    <3> HIDE DEF Late
    <3>3. ASSUME NEW q \in Requests PROVE
             \/ request'[q] = request[q]
             \/ q = r /\ request'[q] = NoRequest
             \/ q = r /\ request[r].saw # "cancelled" /\ request'[q] = Late(request[r].saw)
             \/ /\ q = r /\ row'[request[r].job].state = "cancelled"
                /\ request'[q] = Late("cancelled")
      BY <3>2 DEF TypeOK
    <3>4. QED BY <3>1, <3>3
  <2>5. /\ \A q \in Requests : request'[q].step = "commit" => request'[q].saw \in Active
        /\ \A j \in Jobs : future'[j] = "cancelled" => row'[j].state \in {"cancelled", "purged"}
    BY <2>1, <2>2, <2>4 DEF NoRequest
  <2>6. ASSUME NEW q \in Requests, request'[q].step = "future",
               request'[q].saw = "cancelled", at'[request'[q].job] = "idle"
        PROVE  row'[request'[q].job].state \in {"cancelled", "purged"}
    <3>1. CASE request'[q] = request[q]
      BY <1>0, <2>1, <2>2, <2>6, <3>1
    <3>2. CASE request'[q] # request[q]
      BY <2>4, <2>6, <3>2 DEF NoRequest
    <3>3. QED BY <3>1, <3>2
  <2>7. QED BY <2>5, <2>6
<1>9. ASSUME NEW r \in Requests, CancelFault(r) \/ CancelFuture(r) PROVE RequestInv'
  <2>1. request' = [request EXCEPT ![r] = NoRequest] /\ UNCHANGED <<row, at>>
    BY <1>9, CancelFutureEffect DEF CancelFault
  <2>2. \A q \in Requests : request'[q] = request[q] \/ request'[q] = NoRequest
    BY <2>1 DEF TypeOK
  <2>3. ASSUME NEW k \in Jobs, future'[k] = "cancelled"
        PROVE  row[k].state \in {"cancelled", "purged"}
    <3>1. CASE future[k] = "cancelled"
      BY <3>1
    <3>2. CASE future[k] # "cancelled"
      <4>1. /\ CancelFuture(r) /\ k = request[r].job /\ future[k] = "pending"
            /\ request[r].saw = "cancelled" /\ request[r].step = "future"
        BY <1>9, <2>3, <3>2, CancelFutureEffect DEF CancelFault
      <4>2. QED BY <4>1 DEF ExecInv
    <3>3. QED BY <3>1, <3>2
  <2>4. QED BY <1>0, <2>1, <2>2, <2>3 DEF NoRequest
<1>10. CASE PurgeCheck
  BY <1>10, <1>1 DEF PurgeCheck
<1>11. CASE PurgeDelete
  <2>1. /\ \A j \in Jobs : row'[j] = row[j] \/ row'[j].state = "purged"
        /\ UNCHANGED <<at, request, future>>
    BY <1>11 DEF PurgeDelete, NoRow
  <2>2. QED BY <1>1, <2>1
<1>12. ASSUME NEW j \in Watched, OpenStream(j) \/ PollStream(j) PROVE RequestInv'
  BY <1>12, <1>1 DEF OpenStream, PollStream, NotStream
<1>13. CASE Crash
  BY <1>13 DEF Crash, NoRequest
<1>14. CASE UNCHANGED vars
  BY <1>14, <1>1 DEF vars
<1>15. QED
  BY <1>2, <1>3, <1>4, <1>5, <1>6, <1>7, <1>8, <1>9, <1>10, <1>11, <1>12, <1>13,
     <1>14 DEF Next

LEMMA NextIInv == IInv /\ [Next]_vars => IInv'
  BY NextTypeOK, NextExecInv, NextRowInv, NextRequestInv DEF IInv

THEOREM Invariance == Spec => []IInv
<1>1. QED BY InitIInv, NextIInv, PTL DEF Spec

-----------------------------------------------------------------------------
(* What follows for the runner *)

\* A terminal row always carries its evidence, whichever of the worker and the
\* cancelling requests wrote it last.
THEOREM Evidence == Spec => []TerminalEvidence
<1>1. IInv => TerminalEvidence
  BY DEF IInv
<1>2. QED BY <1>1, Invariance, PTL

\* A job whose Future was cancelled never ran and its row says "cancelled".
THEOREM DroppedJobs == Spec => []DroppedNeverRan
<1>1. IInv => DroppedNeverRan
  BY DEF IInv, DroppedNeverRan, ExecInv, RowInv, RequestInv
<1>2. QED BY <1>1, Invariance, PTL

\* The backlog active_job_count() reports is exact whenever no submit is in its
\* critical section: pop and insertion cannot cross.
THEOREM BacklogExact == Spec => []FuturesTrackExecutor
<1>1. IInv => FuturesTrackExecutor
  BY DEF IInv, TypeOK, FuturesTrackExecutor, ExecInv, LockFree, ActiveJobs, Unfinished
<1>2. QED BY <1>1, Invariance, PTL

\* Without a crash or a database error no row is left saying "running" by a
\* worker that has gone.
THEOREM NoZombies == Spec => []NoZombie
<1>1. IInv => NoZombie
  BY DEF IInv
<1>2. QED BY <1>1, Invariance, PTL

-----------------------------------------------------------------------------
(* Every step of the runner is a step of the lifecycle, or invisible *)

LEMMA InitRefines == Init => Client!Init
<1> SUFFICES ASSUME Init PROVE Client!Init
  OBVIOUS
<1>1. \A j \in Jobs : row[j] = NoRow /\ at[j] = "idle"
  BY DEF Init
<1>2. /\ [j \in Jobs |-> row[j].state] = [j \in Jobs |-> "absent"]
      /\ [j \in Jobs |-> row[j].cancel] = [j \in Jobs |-> FALSE]
      /\ [j \in Jobs |-> row[j].started] = [j \in Jobs |-> FALSE]
  <2>1. \A j \in Jobs : row[j].state = "absent" /\ row[j].cancel = FALSE /\ row[j].started = FALSE
    BY <1>1 DEF NoRow
  <2>2. QED BY <2>1, Zenon
<1>3. {j \in Jobs : at[j] \in {"finally", "over"}} = {}
  BY <1>1
<1>4. QED BY <1>2, <1>3 DEF Client!Init

\* What a step does to one job, as a client sees it.
SameJob(j) ==
    /\ row'[j].state = row[j].state
    /\ row'[j].cancel = row[j].cancel
    /\ row'[j].started = row[j].started

Decided(j) == at[j] \in {"finally", "over"}

\* A step that leaves the visible columns of every job alone is invisible, or
\* loses the workers of some jobs.
LEMMA InvisibleStep ==
  ASSUME \A j \in Jobs : SameJob(j) /\ (Decided(j) => at'[j] \in {"finally", "over"})
  PROVE  Client!Next
<1>1. PICK lost \in SUBSET Jobs : lost = {j \in Jobs : at'[j] \in {"finally", "over"}}
  OBVIOUS
<1>2. /\ [j \in Jobs |-> row'[j].state] = [j \in Jobs |-> row[j].state]
      /\ [j \in Jobs |-> row'[j].cancel] = [j \in Jobs |-> row[j].cancel]
      /\ [j \in Jobs |-> row'[j].started] = [j \in Jobs |-> row[j].started]
  BY Zenon DEF SameJob
<1>3. Client!Lose(lost)
  BY <1>1, <1>2 DEF Client!Lose, Decided
<1>4. QED BY <1>3 DEF Client!Next

LEMMA StepRefines == IInv /\ [Next]_vars => [Client!Next]_(Client!lvars)
<1> SUFFICES ASSUME IInv, [Next]_vars PROVE [Client!Next]_(Client!lvars)
  OBVIOUS
<1>0. TypeOK /\ ExecInv /\ RowInv
  BY DEF IInv
<1>1. ASSUME NEW j \in Jobs, Create(j) PROVE Client!Next
  <2>1. /\ row[j].state = "absent" /\ ~row[j].cancel /\ ~row[j].started
        /\ row[j].cancel \in BOOLEAN /\ row[j].started \in BOOLEAN
    BY <1>0, <1>1 DEF Create, ExecInv, RowInv, Gone, TypeOK, Row
  <2>2. /\ \A k \in Jobs \ {j} : row'[k] = row[k]
        /\ row'[j].state = "queued" /\ row'[j].cancel = FALSE /\ row'[j].started = FALSE
        /\ at' = at
    BY <1>0, <1>1 DEF Create, TypeOK, NoRow
  <2>3. Client!Create(j)
    BY <2>1, <2>2 DEF Client!Create
  <2>4. QED BY <2>3 DEF Client!Next
<1>2. ASSUME NEW j \in Jobs, AbandonStart(j) \/ Enqueue(j) \/ Register(j) PROVE Client!Next
  BY <1>2, InvisibleStep DEF AbandonStart, Enqueue, Register, SameJob, Decided
<1>3. ASSUME NEW j \in Jobs,
             FirstCheck(j) \/ TaskReports(j) \/ ReportProgress(j) \/ TaskEnds(j)
               \/ FinalCheck(j) \/ PopFuture(j) \/ WorkerFault(j)
      PROVE  Client!Next
  <2>1. row' = row /\ at[j] \notin {"over", "idle"}
    BY <1>3 DEF FirstCheck, TaskReports, ReportProgress, TaskEnds, FinalCheck, PopFuture,
                WorkerFault, CheckCancelled, NotWorker, TryBody, Handlers
  <2>2. /\ \A k \in Jobs \ {j} : at'[k] = at[k]
        /\ at[j] = "finally" => at'[j] = "over"
    BY <1>0, <1>3 DEF FirstCheck, TaskReports, ReportProgress, TaskEnds, FinalCheck,
                PopFuture, WorkerFault, CheckCancelled, GoTo, TypeOK, TryBody, Handlers
  <2>3. QED BY <2>1, <2>2, InvisibleStep DEF SameJob, Decided
<1>4. ASSUME NEW j \in Jobs, MarkRunning(j) PROVE Client!Next
  <2>1. CASE ~Exists(j)
    BY <1>0, <1>4, <2>1, MarkRunningEffect, InvisibleStep DEF SameJob, Decided
  <2>2. CASE Exists(j)
    <3>1. /\ \A k \in Jobs \ {j} : row'[k] = row[k] /\ at'[k] = at[k]
          /\ row'[j].state = "running" /\ row'[j].started
          /\ row'[j].cancel = row[j].cancel
          /\ at[j] = "start" /\ at'[j] = "task"
      BY <1>0, <1>4, <2>2, MarkRunningEffect
    <3>2. row[j].state \in {"queued", "cancelled"} /\ ~row[j].started
      BY <1>0, <2>2, <3>1 DEF RowInv, Exists, Gone
    <3>3. row'[j].started = TRUE
      <4>1. row'[j].started \in BOOLEAN
        BY <1>0, NextTypeOK DEF TypeOK, Row
      <4>2. QED BY <3>1, <4>1
    <3>4. {k \in Jobs : at'[k] \in {"finally", "over"}}
            = {k \in Jobs : at[k] \in {"finally", "over"}}
      BY <3>1
    <3>5. [k \in Jobs |-> row'[k].cancel] = [k \in Jobs |-> row[k].cancel]
      BY <3>1
    <3>6. /\ [k \in Jobs |-> row'[k].state]
               = [[k \in Jobs |-> row[k].state] EXCEPT ![j] = "running"]
          /\ [k \in Jobs |-> row'[k].started]
               = [[k \in Jobs |-> row[k].started] EXCEPT ![j] = TRUE]
      BY <3>1, <3>3
    <3>7. /\ ~[k \in Jobs |-> row[k].started][j]
          /\ j \notin {k \in Jobs : at[k] \in {"finally", "over"}}
          /\ [k \in Jobs |-> row[k].state][j] \in {"queued", "cancelled"}
      BY <3>1, <3>2
    <3>8. Client!Begin(j)
      BY <3>4, <3>5, <3>6, <3>7 DEF Client!Begin
    <3>9. QED BY <3>8 DEF Client!Next
  <2>3. QED BY <2>1, <2>2
<1>5. ASSUME NEW j \in Jobs, Complete(j) \/ Handle(j) PROVE Client!Next
  <2>1. CASE ~Exists(j)
    <3>1. at[j] \notin {"finally", "over"}
      BY <1>0, <1>5, CompleteEffect, HandleEffect
    <3>2. \A k \in Jobs : row'[k] = row[k] /\ (k # j => at'[k] = at[k])
      BY <1>0, <1>5, <2>1, CompleteEffect, HandleEffect
    <3>3. QED BY <3>1, <3>2, InvisibleStep DEF SameJob, Decided
  <2>2. CASE Exists(j)
    <3> PICK verdict : verdict = row'[j].state
      OBVIOUS
    <3>1. /\ \A k \in Jobs \ {j} : row'[k] = row[k] /\ at'[k] = at[k]
          /\ verdict \in {"completed", "failed", "cancelled"}
          /\ verdict = "completed" => at[j] = "complete"
          /\ verdict = "cancelled" => at[j] = "cancel"
          /\ row'[j].cancel = row[j].cancel /\ row'[j].started = row[j].started
          /\ at[j] \notin {"finally", "over"} /\ at'[j] = "finally"
      BY <1>0, <1>5, <2>2, CompleteEffect, HandleEffect
    <3>2. /\ verdict = "completed" => row[j].started
          /\ verdict = "cancelled" => row[j].cancel
          /\ row[j].state \notin {"absent", "purged"}
      BY <1>0, <2>2, <3>1 DEF RowInv, Exists, Gone
    <3>3. Client!Conclude(j, verdict)
      BY <3>1, <3>2 DEF Client!Conclude, Client!Live
    <3>4. QED BY <3>1, <3>3 DEF Client!Next
  <2>3. QED BY <2>1, <2>2
<1>6. CASE Dequeue
  <2>1. Head(queue) \in Jobs
    BY <1>0, <1>6 DEF Dequeue, TypeOK
  <2>2. future[Head(queue)] = "pending" => at[Head(queue)] = "idle"
    BY <1>0, <2>1 DEF ExecInv
  <2>3. row' = row /\ \A k \in Jobs : Decided(k) => at'[k] = at[k]
    BY <1>0, <1>6, <2>1, <2>2 DEF Dequeue, Decided, TypeOK
  <2>4. QED BY <2>3, InvisibleStep DEF SameJob, Decided
<1>7. ASSUME NEW r \in Requests, NEW j \in Jobs, CancelRead(r, j) PROVE Client!Next
  BY <1>7, InvisibleStep DEF CancelRead, NotRequest, SameJob, Decided
<1>8. ASSUME NEW r \in Requests, CancelCommit(r) PROVE Client!Next
  <2> DEFINE j == request[r].job
  <2>1. j \in Jobs /\ at' = at
    BY <1>0, <1>8, CancelCommitEffect
  <2>2. CASE row'[j] = row[j]
    <3>1. \A k \in Jobs : row'[k] = row[k]
      BY <1>0, <1>8, <2>2, CancelCommitEffect
    <3>2. QED BY <2>1, <3>1, InvisibleStep DEF SameJob, Decided
  <2>3. CASE row'[j] # row[j]
    <3>1. /\ \A k \in Jobs \ {j} : row'[k] = row[k]
          /\ Exists(j) /\ row'[j].cancel
          /\ row'[j].started = row[j].started
          /\ row'[j].state \in {row[j].state, "cancelled"}
      BY <1>0, <1>8, <2>1, <2>3, CancelCommitEffect
    <3>2. row'[j].cancel = TRUE
      <4>1. row'[j].cancel \in BOOLEAN
        BY <1>0, <2>1, NextTypeOK DEF TypeOK, Row
      <4>2. QED BY <3>1, <4>1
    <3> PICK new : new = row'[j].state
      OBVIOUS
    <3>3. Client!Ask(j, new)
      BY <2>1, <3>1, <3>2 DEF Client!Ask, Client!Live, Exists, Gone
    <3>4. QED BY <2>1, <3>1, <3>3 DEF Client!Next
  <2>4. QED BY <2>2, <2>3
<1>9. ASSUME NEW r \in Requests, CancelFault(r) \/ CancelFuture(r) PROVE Client!Next
  <2>1. UNCHANGED <<row, at>>
    BY <1>0, <1>9, CancelFutureEffect DEF CancelFault
  <2>2. QED BY <2>1, InvisibleStep DEF SameJob, Decided
<1>10. CASE PurgeCheck
  BY <1>10, InvisibleStep DEF PurgeCheck, SameJob, Decided
<1>11. CASE PurgeDelete
  <2>1. ASSUME NEW j \in Jobs
        PROVE  /\ Exists(j) => row'[j].state = "purged"
               /\ ~Exists(j) => row'[j].state = row[j].state
               /\ row'[j].cancel = FALSE /\ row'[j].started = FALSE
    <3>1. row[j].cancel \in BOOLEAN /\ row[j].started \in BOOLEAN
      BY <1>0 DEF TypeOK, Row
    <3>2. ~Exists(j) => row[j].cancel = FALSE /\ row[j].started = FALSE
      BY <1>0, <3>1 DEF RowInv, Exists
    <3>3. QED BY <1>11, <3>2 DEF PurgeDelete, NoRow
  <2>2. at' = at
    BY <1>11 DEF PurgeDelete
  <2>3. Client!Purge
    BY <2>1, <2>2 DEF Client!Purge, Client!Live, Exists, Gone
  <2>4. QED BY <2>3 DEF Client!Next
<1>12. ASSUME NEW j \in Watched, OpenStream(j) \/ PollStream(j) PROVE Client!Next
  BY <1>12, InvisibleStep DEF OpenStream, PollStream, NotStream, SameJob, Decided
<1>13. CASE Crash
  <2>1. row' = row /\ \A j \in Jobs : at'[j] \in {at[j], "over"}
    BY <1>13 DEF Crash
  <2>2. QED BY <2>1, InvisibleStep DEF SameJob, Decided
<1>14. CASE UNCHANGED vars
  BY <1>14 DEF vars, Client!lvars
<1>15. QED
  BY <1>1, <1>2, <1>3, <1>4, <1>5, <1>6, <1>7, <1>8, <1>9, <1>10, <1>11, <1>12,
     <1>13, <1>14 DEF Next, Worker

\* The runner implements the lifecycle a client of the jobs API may rely on.
THEOREM RunnerImplementsLifecycle == Spec => ImplementsLifecycle
<1>1. QED
  BY InitRefines, StepRefines, Invariance, PTL DEF Spec, ImplementsLifecycle, Client!Spec

-----------------------------------------------------------------------------

\* A completed or failed job is never turned into anything but "cancelled" (by a
\* late request) or deleted, and a result reference is never taken back.
THEOREM OutcomesStable == Spec => OutcomeStable
<1> DEFINE A == \A j \in Jobs :
         /\ row[j].state \in {"completed", "failed"} =>
                row'[j].state \in {row[j].state, "cancelled", "purged"}
         /\ row[j].result => row'[j].result \/ row'[j].state = "purged"
<1>1. IInv /\ [Next]_vars => [A]_vars
  <2> SUFFICES ASSUME IInv, Next PROVE A
    OBVIOUS
  <2>0. TypeOK /\ ExecInv /\ RowInv
    BY DEF IInv
  <2>1. ASSUME NEW j \in Jobs, Create(j) PROVE A
    <3>1. row[j].state = "absent" /\ ~row[j].result
      BY <2>0, <2>1 DEF Create, ExecInv, RowInv, Gone
    <3>2. \A k \in Jobs \ {j} : row'[k] = row[k]
      BY <2>0, <2>1 DEF Create, TypeOK
    <3>3. QED BY <3>1, <3>2
  <2>2. ASSUME NEW j \in Jobs, MarkRunning(j) \/ Complete(j) \/ Handle(j) PROVE A
    <3>1. row[j].state \notin {"completed", "failed"} /\ ~row[j].result
      BY <2>0, <2>2, MarkRunningEffect, CompleteEffect, HandleEffect DEF RowInv
    <3>2. \A k \in Jobs \ {j} : row'[k] = row[k]
      BY <2>0, <2>2, MarkRunningEffect, CompleteEffect, HandleEffect
    <3>3. QED BY <3>1, <3>2
  <2>3. ASSUME NEW r \in Requests, CancelCommit(r) PROVE A
    BY <2>0, <2>3, CancelCommitEffect
  <2>4. CASE PurgeDelete
    <3>1. \A j \in Jobs : row'[j] = row[j] \/ row'[j].state = "purged"
      BY <2>4 DEF PurgeDelete, NoRow
    <3>2. QED BY <3>1
  <2>5. CASE row' = row
    BY <2>5
  <2>6. \/ row' = row \/ PurgeDelete
        \/ \E j \in Jobs : Create(j) \/ MarkRunning(j) \/ Complete(j) \/ Handle(j)
        \/ \E r \in Requests : CancelCommit(r)
    BY <2>0, CancelFutureEffect
       DEF Next, Worker, AbandonStart, Enqueue, Register, FirstCheck, TaskReports,
           ReportProgress, TaskEnds, FinalCheck, PopFuture, WorkerFault, CheckCancelled,
           NotWorker, Dequeue, CancelRead, CancelFault, NotRequest, PurgeCheck,
           OpenStream, PollStream, NotStream, Crash
  <2>7. QED BY <2>1, <2>2, <2>3, <2>4, <2>5, <2>6
<1>2. QED BY <1>1, Invariance, PTL DEF Spec, OutcomeStable
=============================================================================
