---------------------------- MODULE EvidenceProofs ----------------------------
(***************************************************************************)
(* Proofs about Evidence for any principals, dumps, images and jobs, any   *)
(* requests under way and any number of crashes and failing file           *)
(* operations.                                                             *)
(***************************************************************************)
EXTENDS Evidence, TLAPS

Analyzes(j) == job[j].kind = "memory-analysis"
Inspects(j) == job[j].kind = "memory-region-inspection"
Executes(j) == job[j].kind = "dynamic-analysis"

ResultFiles == {Result(r) : r \in Results}

\* f is the file a task is to leave, by the kind of its job.
Leaves(j, f) ==
    /\ Analyzes(j) => \E t \in Stamps : f = Analysis(dump[job[j].dump].sha, t, task[j].clean)
    /\ Inspects(j) => f = Region(dump[job[j].dump].sha)
    /\ Executes(j) => f \in ResultFiles

\* Rows keep what they refer to known: a job of a dump that is deleted still knows
\* the dump, a run its job.
RunKnown(j) == run[j] # None => job[j] # None /\ run[j] \in {Pending} \cup ResultFiles
JobKnown(j) ==
    job[j] # None /\ ~Executes(j) => job[j].dump \in Dumps /\ dump[job[j].dump] # None
Known ==
    /\ \A d \in region : dump[d] # None
    /\ \A j \in Jobs : RunKnown(j) /\ JobKnown(j)

TaskKnown(j) ==
    task[j] # Idle =>
        /\ job[j] # None
        /\ task[j].step = "read" => ~Executes(j)
        /\ task[j].step = "record" => Executes(j) /\ run[j] = None
        /\ task[j].step \in {"write", "open", "close", "commit"} => Leaves(j, task[j].file)
        /\ Executes(j) /\ task[j].step # "finish" => run[j] \in {None, Pending}

RowsInv == TypeOK /\ Known /\ \A j \in Jobs : TaskKnown(j)

-----------------------------------------------------------------------------
(* Calls, tasks and rows                                                   *)

Calls == {Idle} \cup UploadCall \cup PurgeCall
Tasks == {Idle} \cup Task

LEMMA CallShape ==
  ASSUME TypeOK, NEW c \in Clients
  PROVE  /\ call[c].step = "idle" <=> call[c] = Idle
         /\ call[c].step \in {"upload-open", "upload-close", "upload-insert"} =>
               call[c] \in UploadCall
         /\ call[c].step \in {"select", "delete", "unlink"} => call[c] \in PurgeCall
<1>1. CASE call[c] = Idle
  BY <1>1 DEF Idle
<1>2. CASE call[c] \in UploadCall
  BY <1>2 DEF UploadCall, Idle
<1>3. CASE call[c] \in PurgeCall
  BY <1>3 DEF PurgeCall, Idle
<1>4. QED BY <1>1, <1>2, <1>3 DEF TypeOK

LEMMA TaskShape ==
  ASSUME TypeOK, NEW j \in Jobs
  PROVE  /\ task[j].step = "idle" <=> task[j] = Idle
         /\ task[j].step # "idle" => task[j] \in Task
         /\ task[j] \in Tasks
<1>1. CASE task[j] = Idle
  BY <1>1 DEF Idle, Tasks
<1>2. CASE task[j] \in Task
  BY <1>2 DEF Task, TaskSteps, Idle, Tasks
<1>3. QED BY <1>1, <1>2 DEF TypeOK

LEMMA FileKinds ==
  /\ \A s \in Contents : Image(s) \in Files /\ Region(s) \in Files
  /\ \A s \in Contents, t \in Stamps, clean \in BOOLEAN : Analysis(s, t, clean) \in Analyses
  /\ Analyses \subseteq Files
  /\ ResultFiles \subseteq Files
  /\ \A f \in Files : f # None /\ f # Pending
  BY NoneAssumption DEF Files, Analyses, ResultFiles, NoneAssumption

\* What a task is to leave is a file, and an analysis if its job analyzes.
LEMMA LeavesFile ==
  ASSUME RowsInv, NEW j \in Jobs, task[j].step \in {"write", "open", "close", "commit"}
  PROVE  /\ task[j].file \in Files /\ Leaves(j, task[j].file) /\ job[j] # None
         /\ Analyzes(j) => task[j].file \in Analyses
<1>1. task[j] \in Task /\ task[j] # Idle
  BY TaskShape DEF RowsInv
<1>2. job[j] # None /\ job[j] \in JobRow /\ Leaves(j, task[j].file)
  BY <1>1 DEF RowsInv, TypeOK, TaskKnown
<1>3. task[j].clean \in BOOLEAN
  BY <1>1 DEF Task
<1>4. ~Executes(j) => dump[job[j].dump].sha \in Contents
  BY <1>2 DEF RowsInv, Known, JobKnown, TypeOK, DumpRow
<1>5. Analyzes(j) \/ Inspects(j) \/ Executes(j)
  BY <1>2 DEF JobRow, Kinds, Analyzes, Inspects, Executes
<1>6. Analyzes(j) => task[j].file \in Analyses
  BY <1>2, <1>3, <1>4, FileKinds DEF Leaves, Analyzes, Executes
<1>7. task[j].file \in Files
  BY <1>2, <1>4, <1>5, <1>6, FileKinds DEF Leaves, Inspects, Executes
<1>8. QED BY <1>2, <1>6, <1>7

\* Rows of dumps and jobs are never forgotten, and keep what they are about.
RowsStay ==
    /\ \A d \in Dumps : dump[d] # None =>
          dump'[d] # None /\ dump'[d].sha = dump[d].sha /\ dump'[d].owner = dump[d].owner
    /\ \A j \in Jobs : job[j] # None =>
          /\ job'[j] # None
          /\ job'[j].kind = job[j].kind /\ job'[j].dump = job[j].dump
          /\ job'[j].owner = job[j].owner

LEMMA TaskStays ==
  ASSUME RowsInv, RowsStay, NEW j \in Jobs, task'[j] = task[j],
         run[j] = None => run'[j] = None, run[j] = Pending => run'[j] \in {None, Pending}
  PROVE  TaskKnown(j)'
<1>1. CASE task[j] = Idle
  BY <1>1 DEF TaskKnown
<1>2. CASE task[j] # Idle
  <2>1. /\ job[j] # None
        /\ job'[j] # None /\ job'[j].kind = job[j].kind /\ job'[j].dump = job[j].dump
    BY <1>2 DEF RowsInv, TaskKnown, RowsStay
  <2>2. ~Executes(j) => dump'[job'[j].dump].sha = dump[job[j].dump].sha
    BY <2>1 DEF RowsInv, Known, JobKnown, RowsStay
  <2>3. QED BY <1>2, <2>1, <2>2
           DEF RowsInv, TaskKnown, Leaves, Analyzes, Inspects, Executes
<1>3. QED BY <1>1, <1>2

LEMMA JobStays ==
  ASSUME RowsInv, RowsStay, NEW j \in Jobs, job[j] # None
  PROVE  JobKnown(j)'
  BY DEF RowsInv, RowsStay, Known, JobKnown, Executes

\* Steps that leave rows and tasks alone.
LEMMA RowsUntouched ==
  ASSUME RowsInv, UNCHANGED <<Rows, task>>,
         call' \in [Clients -> Calls], disk' \in [Files -> {"none", "torn", "whole"}],
         stray' \subseteq Files, superseded' \subseteq Analyses, contested' \subseteq Files,
         failures' \in 0..MaxFailures
  PROVE  RowsInv' /\ RowsStay
<1>1. TypeOK'
  BY DEF RowsInv, TypeOK, Rows, Calls
<1>2. Known'
  BY DEF RowsInv, Known, RunKnown, JobKnown, Executes, Rows
<1>3. \A j \in Jobs : TaskKnown(j)'
  BY DEF RowsInv, TaskKnown, Leaves, Analyzes, Inspects, Executes, Rows
<1>4. RowsStay
  BY DEF RowsStay, Rows
<1>5. QED BY <1>1, <1>2, <1>3, <1>4 DEF RowsInv

\* Steps of one task that change no row but the state of a job.
LEMMA OneTaskMoves ==
  ASSUME RowsInv, NEW j \in Jobs, NEW new \in Tasks,
         task' = [task EXCEPT ![j] = new],
         new # Idle =>
            /\ task[j] # Idle /\ task[j].step # "finish" /\ new.step \notin {"read", "record"}
            /\ new.step \in {"write", "open", "close", "commit"} => Leaves(j, new.file)',
         job' \in [Jobs -> {None} \cup JobRow],
         RowsStay, \A i \in Jobs : job'[i] # None => job[i] # None,
         UNCHANGED <<dump, region, run, call>>,
         disk' \in [Files -> {"none", "torn", "whole"}],
         stray' \subseteq Files, superseded' \subseteq Analyses, contested' \subseteq Files,
         failures' \in 0..MaxFailures
  PROVE  RowsInv'
<1>1. task' \in [Jobs -> Tasks] /\ task'[j] = new /\ \A i \in Jobs \ {j} : task'[i] = task[i]
  BY DEF RowsInv, TypeOK, Tasks
<1>2. TypeOK'
  BY <1>1 DEF RowsInv, TypeOK, Tasks
<1>3. \A i \in Jobs : JobKnown(i)'
  BY JobStays DEF JobKnown
<1>4. \A i \in Jobs : RunKnown(i)'
  BY DEF RowsInv, Known, RunKnown, RowsStay
<1>5. TaskKnown(j)'
  BY <1>1 DEF TaskKnown, RowsInv, RowsStay, Executes
<1>6. \A i \in Jobs : TaskKnown(i)'
  BY <1>1, <1>5, TaskStays
<1>7. QED BY <1>2, <1>3, <1>4, <1>6 DEF RowsInv, Known

LEMMA NamingTypes ==
  ASSUME TypeOK, NEW f \in Files, NEW old \in Analyses \cup {None}, NowNamed(f, old)
  PROVE  stray' \subseteq Files /\ superseded' \subseteq Analyses /\ contested' \subseteq Files
  BY DEF TypeOK, NowNamed

LEMMA FailureCounts ==
  ASSUME TypeOK, Failure
  PROVE  failures' \in 0..MaxFailures /\ failures' > 0
  BY EvidenceAssumption DEF TypeOK, Failure, EvidenceAssumption

LEMMA BecomeTypes ==
  ASSUME TypeOK, NEW c \in Clients, NEW new \in Calls, Become(c, new)
  PROVE  call' \in [Clients -> Calls]
  BY DEF TypeOK, Calls, Become

LEMMA IdleCall == Idle \in Calls
  BY DEF Calls

-----------------------------------------------------------------------------
(* Uploads and purges, and the rows                                        *)

LEMMA UploadLookupRows ==
  ASSUME RowsInv, NEW c \in Clients, NEW p \in Principals, NEW s \in Contents,
         UploadLookup(c, p, s)
  PROVE  RowsInv' /\ RowsStay
<1>1. [step |-> "upload-open", who |-> p, sha |-> s] \in Calls
  BY DEF Calls, UploadCall
<1>2. call' \in [Clients -> Calls]
  BY <1>1, BecomeTypes DEF UploadLookup, RowsInv
<1>3. QED BY <1>2, RowsUntouched DEF UploadLookup, History, Quiet, RowsInv, TypeOK

LEMMA UploadAdvances ==
  ASSUME TypeOK, NEW c \in Clients, NEW step \in {"upload-close", "upload-insert"},
         call[c].step \in {"upload-open", "upload-close", "upload-insert"}, Advance(c, step)
  PROVE  call' \in [Clients -> Calls]
<1>1. call[c] \in UploadCall
  BY CallShape
<1>2. [call[c] EXCEPT !.step = step] \in Calls
  BY <1>1 DEF UploadCall, Calls
<1>3. QED BY <1>2 DEF Advance, TypeOK, Calls

LEMMA UploadOpenRows ==
  ASSUME RowsInv, NEW c \in Clients, UploadOpen(c)
  PROVE  RowsInv' /\ RowsStay
<1>1. call[c] \in UploadCall
  BY CallShape DEF UploadOpen, RowsInv
<1>2. Image(call[c].sha) \in Files
  BY <1>1, FileKinds DEF UploadCall
<1>3. call' \in [Clients -> Calls]
  BY UploadAdvances DEF UploadOpen, RowsInv
<1>4. QED BY <1>2, <1>3, RowsUntouched DEF UploadOpen, History, RowsInv, TypeOK

LEMMA UploadCloseRows ==
  ASSUME RowsInv, NEW c \in Clients, UploadClose(c)
  PROVE  RowsInv' /\ RowsStay
<1>1. call[c] \in UploadCall
  BY CallShape DEF UploadClose, RowsInv
<1>2. Image(call[c].sha) \in Files
  BY <1>1, FileKinds DEF UploadCall
<1>3. call' \in [Clients -> Calls]
  BY UploadAdvances, IdleCall, BecomeTypes DEF UploadClose, RowsInv
<1>4. failures' \in 0..MaxFailures
  BY FailureCounts DEF UploadClose, RowsInv, TypeOK
<1>5. disk' \in [Files -> {"none", "torn", "whole"}] /\ stray' \subseteq Files /\ contested' \subseteq Files
  BY <1>2 DEF UploadClose, RowsInv, TypeOK, Restored
<1>6. QED BY <1>3, <1>4, <1>5, RowsUntouched DEF UploadClose, RowsInv, TypeOK

LEMMA UploadInsertRows ==
  ASSUME RowsInv, NEW c \in Clients, UploadInsert(c)
  PROVE  RowsInv' /\ RowsStay
<1> DEFINE s == call[c].sha
           row == [owner |-> call[c].who, sha |-> s, analysis |-> None, live |-> TRUE]
<1>1. call[c] \in UploadCall
  BY CallShape DEF UploadInsert, RowsInv
<1>2. row \in DumpRow /\ row # None
  <2>1. row \in DumpRow
    BY <1>1 DEF UploadCall, DumpRow
  <2>2. QED BY <2>1, NoneAssumption DEF NoneAssumption
<1>3. PICK d \in Dumps : dump[d] = None /\ dump' = [dump EXCEPT ![d] = row]
  BY DEF UploadInsert
<1>4. /\ NowNamed(Image(s), None)
      /\ Become(c, Idle)
      /\ UNCHANGED <<region, run, job, task, disk, failures>>
  BY DEF UploadInsert, Quiet
<1> HIDE DEF row
<1>5. /\ dump'[d] = row /\ \A e \in Dumps \ {d} : dump'[e] = dump[e]
      /\ dump' \in [Dumps -> {None} \cup DumpRow]
  BY <1>2, <1>3 DEF RowsInv, TypeOK
<1>6. RowsStay
  BY <1>3, <1>4, <1>5 DEF RowsStay
<1>7. stray' \subseteq Files /\ superseded' \subseteq Analyses /\ contested' \subseteq Files
  BY <1>1, <1>4, FileKinds, NamingTypes DEF UploadCall, RowsInv
<1>8. call' \in [Clients -> Calls]
  BY <1>4, IdleCall, BecomeTypes DEF RowsInv
<1>9. TypeOK'
  BY <1>4, <1>5, <1>7, <1>8 DEF RowsInv, TypeOK, Calls
<1>10. Known'
  <2>1. \A e \in region' : dump'[e] # None
    BY <1>2, <1>4, <1>5 DEF RowsInv, TypeOK, Known
  <2>2. \A j \in Jobs : JobKnown(j)'
    BY <1>4, <1>6, JobStays DEF JobKnown
  <2>3. \A j \in Jobs : RunKnown(j)'
    BY <1>4 DEF RowsInv, Known, RunKnown
  <2>4. QED BY <2>1, <2>2, <2>3 DEF Known
<1>11. \A j \in Jobs : TaskKnown(j)'
  BY <1>4, <1>6, TaskStays
<1>12. QED BY <1>6, <1>9, <1>10, <1>11 DEF RowsInv

LEMMA PurgeCheckRows ==
  ASSUME RowsInv, NEW c \in Clients, NEW p \in Principals, PurgeCheck(c, p)
  PROVE  RowsInv' /\ RowsStay
<1>1. [step |-> "select", who |-> p, paths |-> {}] \in Calls
  BY DEF Calls, PurgeCall
<1>2. call' \in [Clients -> Calls]
  BY <1>1, BecomeTypes DEF PurgeCheck, RowsInv
<1>3. QED BY <1>2, RowsUntouched DEF PurgeCheck, History, Quiet, RowsInv, TypeOK

LEMMA OwnedFiles ==
  ASSUME RowsInv, NEW p
  PROVE  Owned(p) \subseteq Files
<1>1. \A d \in DumpsOf(p) \cup RegionsOf(p) : d \in Dumps /\ dump[d] \in DumpRow
  BY DEF RowsInv, TypeOK, Known, DumpsOf, DumpExists, RegionsOf
<1>2. \A j \in RunsOf(p) : run[j] # Pending => run[j] \in Files
  BY FileKinds DEF RowsInv, Known, RunKnown, RunsOf, RunExists
<1>3. QED BY <1>1, <1>2, FileKinds DEF Owned, NamedBy, DumpRow

LEMMA PurgeSelectRows ==
  ASSUME RowsInv, NEW c \in Clients, PurgeSelect(c)
  PROVE  RowsInv' /\ RowsStay
<1> DEFINE new == [call[c] EXCEPT !.step = "delete", !.paths = Owned(call[c].who)]
<1>1. call[c] \in PurgeCall
  BY CallShape DEF PurgeSelect, RowsInv
<1>2. new \in Calls
  BY <1>1, OwnedFiles DEF PurgeCall, Calls
<1>3. call' = [call EXCEPT ![c] = new]
  BY DEF PurgeSelect
<1> HIDE DEF new
<1>4. call' \in [Clients -> Calls]
  BY <1>2, <1>3 DEF RowsInv, TypeOK, Calls
<1>5. QED BY <1>4, RowsUntouched DEF PurgeSelect, History, Quiet, RowsInv, TypeOK

LEMMA RemainingTypes ==
  ASSUME RowsInv, NEW c \in Clients, call[c] \in PurgeCall, NEW paths \in SUBSET Files,
         Remaining(c, paths)
  PROVE  call' \in [Clients -> Calls]
<1>1. Become(c, Idle) \/ Become(c, [step |-> "unlink", who |-> call[c].who, paths |-> paths])
  BY DEF Remaining
<1>2. [step |-> "unlink", who |-> call[c].who, paths |-> paths] \in Calls
  BY DEF PurgeCall, Calls
<1>3. QED BY <1>1, <1>2, IdleCall, BecomeTypes DEF RowsInv

LEMMA PurgeUnlinkRows ==
  ASSUME RowsInv, NEW c \in Clients, PurgeUnlink(c)
  PROVE  RowsInv' /\ RowsStay
<1>1. call[c] \in PurgeCall
  BY CallShape DEF PurgeUnlink, RowsInv
<1>2. PICK f \in call[c].paths :
        /\ Remaining(c, call[c].paths \ {f})
        /\ \/ /\ disk' = [disk EXCEPT ![f] = "none"]
              /\ contested' = contested \cup ({f} \cap InHand)
              /\ UNCHANGED <<stray, failures>>
           \/ /\ Failure
              /\ stray' = stray \cup {f}
              /\ UNCHANGED <<disk, contested>>
  BY DEF PurgeUnlink
<1>3. f \in Files /\ call[c].paths \ {f} \in SUBSET Files
  BY <1>1 DEF PurgeCall
<1>4. call' \in [Clients -> Calls]
  BY <1>1, <1>2, <1>3, RemainingTypes
<1>5. /\ disk' \in [Files -> {"none", "torn", "whole"}]
      /\ stray' \subseteq Files /\ contested' \subseteq Files
  BY <1>2, <1>3 DEF RowsInv, TypeOK
<1>6. failures' \in 0..MaxFailures
  BY <1>2, FailureCounts DEF RowsInv, TypeOK
<1>7. QED BY <1>4, <1>5, <1>6, RowsUntouched DEF PurgeUnlink, RowsInv, TypeOK

LEMMA PurgeCommitRows ==
  ASSUME RowsInv, NEW c \in Clients, PurgeCommit(c)
  PROVE  RowsInv' /\ RowsStay
<1> DEFINE p == call[c].who
           still == UNION {Owned(q) : q \in Principals \ {p}}
<1>1. call[c] \in PurgeCall
  BY CallShape DEF PurgeCommit, RowsInv
<1>2. /\ dump' = [d \in Dumps |->
                    IF d \in DumpsOf(p) THEN [dump[d] EXCEPT !.live = FALSE] ELSE dump[d]]
      /\ region' = region \ RegionsOf(p)
      /\ run' = [j \in Jobs |-> IF j \in RunsOf(p) THEN None ELSE run[j]]
      /\ job' = [j \in Jobs |->
                   IF j \in JobsOf(p) THEN [job[j] EXCEPT !.state = "deleted"] ELSE job[j]]
      /\ Remaining(c, call[c].paths \ still)
      /\ stray' = stray \cup (Owned(p) \ (call[c].paths \cup still))
      /\ UNCHANGED <<task, superseded, contested, disk, failures>>
  BY DEF PurgeCommit, Quiet
<1>3. call[c].paths \ still \in SUBSET Files /\ stray' \subseteq Files
  <2> HIDE DEF still
  <2>1. QED BY <1>1, <1>2, OwnedFiles DEF PurgeCall, RowsInv, TypeOK
<1> HIDE DEF still, p
<1>4. call' \in [Clients -> Calls]
  BY <1>1, <1>2, <1>3, RemainingTypes
<1>5. ASSUME NEW d \in Dumps
      PROVE  /\ dump'[d] \in {None} \cup DumpRow
             /\ dump[d] # None =>
                  dump'[d] # None /\ dump'[d].sha = dump[d].sha /\ dump'[d].owner = dump[d].owner
  <2>1. CASE d \in DumpsOf(p)
    <3>1. dump[d] \in DumpRow
      BY <2>1 DEF RowsInv, TypeOK, DumpsOf, DumpExists
    <3>2. dump'[d] = [dump[d] EXCEPT !.live = FALSE]
      BY <1>2, <2>1
    <3>3. dump'[d] \in DumpRow /\ dump'[d].sha = dump[d].sha /\ dump'[d].owner = dump[d].owner
      BY <3>1, <3>2 DEF DumpRow
    <3>4. QED BY <3>3, NoneAssumption DEF NoneAssumption
  <2>2. CASE d \notin DumpsOf(p)
    BY <1>2, <2>2 DEF RowsInv, TypeOK
  <2>3. QED BY <2>1, <2>2
<1>6. ASSUME NEW j \in Jobs
      PROVE  /\ job'[j] \in {None} \cup JobRow
             /\ job[j] = None => job'[j] = None
             /\ job[j] # None =>
                  /\ job'[j] # None
                  /\ job'[j].kind = job[j].kind /\ job'[j].dump = job[j].dump
                  /\ job'[j].owner = job[j].owner
  <2>1. CASE j \in JobsOf(p)
    <3>1. job[j] \in JobRow /\ job[j] # None
      BY <2>1 DEF RowsInv, TypeOK, JobsOf, JobExists
    <3>2. job'[j] = [job[j] EXCEPT !.state = "deleted"]
      BY <1>2, <2>1
    <3>3. /\ job'[j] \in JobRow /\ job'[j].kind = job[j].kind /\ job'[j].dump = job[j].dump
          /\ job'[j].owner = job[j].owner
      BY <3>1, <3>2 DEF JobRow
    <3>4. QED BY <3>1, <3>3, NoneAssumption DEF NoneAssumption
  <2>2. CASE j \notin JobsOf(p)
    BY <1>2, <2>2 DEF RowsInv, TypeOK
  <2>3. QED BY <2>1, <2>2
<1>7. dump' \in [Dumps -> {None} \cup DumpRow] /\ job' \in [Jobs -> {None} \cup JobRow]
  BY <1>2, <1>5, <1>6
<1>8. RowsStay
  BY <1>5, <1>6 DEF RowsStay
<1>9. TypeOK'
  BY <1>2, <1>3, <1>4, <1>7 DEF RowsInv, TypeOK, Calls
<1>10. Known'
  <2>1. \A d \in region' : dump'[d] # None
    BY <1>2, <1>8 DEF RowsInv, TypeOK, Known, RowsStay
  <2>2. \A j \in Jobs : JobKnown(j)'
    BY <1>6, <1>8, JobStays DEF JobKnown
  <2>3. \A j \in Jobs : RunKnown(j)'
    BY <1>2, <1>6 DEF RowsInv, Known, RunKnown
  <2>4. QED BY <2>1, <2>2, <2>3 DEF Known
<1>11. \A j \in Jobs : TaskKnown(j)'
  BY <1>2, <1>8, TaskStays
<1>12. QED BY <1>8, <1>9, <1>10, <1>11 DEF RowsInv

-----------------------------------------------------------------------------
(* Jobs and their tasks, and the rows *)

LEMMA SubmitRows ==
  ASSUME RowsInv, NEW j \in Jobs, NEW p \in Principals, NEW kind \in Kinds,
         NEW d \in Dumps \cup {None}, NEW step \in {"record", "read"},
         Submit(j, p, kind, d, step),
         kind = "dynamic-analysis" <=> step = "record",
         kind # "dynamic-analysis" => d \in Dumps /\ dump[d] # None
  PROVE  RowsInv' /\ RowsStay
<1> DEFINE row == [owner |-> p, kind |-> kind, dump |-> d, state |-> "active"]
           new == [step |-> step, file |-> None, clean |-> TRUE]
<1>1. /\ job[j] = None
      /\ job' = [job EXCEPT ![j] = row]
      /\ task' = [task EXCEPT ![j] = new]
      /\ UNCHANGED <<dump, region, run, call, disk, stray, superseded, contested, failures>>
  BY DEF Submit, History, Quiet
<1>2. row \in JobRow /\ row # None
  <2>1. row \in JobRow
    BY DEF JobRow
  <2>2. QED BY <2>1, NoneAssumption DEF NoneAssumption
<1>3. new \in Tasks
  BY DEF Tasks, Task, TaskSteps
<1>4. /\ job'[j] = row /\ \A i \in Jobs \ {j} : job'[i] = job[i]
      /\ task'[j] = new /\ \A i \in Jobs \ {j} : task'[i] = task[i]
      /\ job' \in [Jobs -> {None} \cup JobRow] /\ task' \in [Jobs -> Tasks]
  <2> HIDE DEF row, new
  <2>1. QED BY <1>1, <1>2, <1>3 DEF RowsInv, TypeOK, Tasks
<1>5. RowsStay
  BY <1>1, <1>4 DEF RowsStay
<1>6. TypeOK'
  BY <1>1, <1>4 DEF RowsInv, TypeOK, Tasks
<1>7. \A i \in Jobs : JobKnown(i)'
  <2>1. JobKnown(j)'
    BY <1>1, <1>4 DEF JobKnown, Executes
  <2>2. \A i \in Jobs \ {j} : JobKnown(i)'
    BY <1>1, <1>4 DEF RowsInv, Known, JobKnown, Executes
  <2>3. QED BY <2>1, <2>2
<1>8. \A i \in Jobs : RunKnown(i)'
  BY <1>1, <1>2, <1>4 DEF RowsInv, Known, RunKnown
<1>9. Known'
  BY <1>1, <1>7, <1>8 DEF RowsInv, Known
<1>10. TaskKnown(j)'
  <2>1. run'[j] = None
    BY <1>1 DEF RowsInv, Known, RunKnown
  <2>2. task'[j].step = step /\ job'[j].kind = kind /\ job'[j] # None
    BY <1>2, <1>4
  <2>3. QED BY <2>1, <2>2 DEF TaskKnown, Executes
<1>11. \A i \in Jobs : TaskKnown(i)'
  <2>1. run' = run
    BY <1>1
  <2>2. QED BY <1>4, <1>5, <1>10, <2>1, TaskStays
<1>12. QED BY <1>5, <1>6, <1>9, <1>11 DEF RowsInv

LEMMA StartRows ==
  ASSUME RowsInv, NEW j \in Jobs, Start(j)
  PROVE  RowsInv' /\ RowsStay
<1>1. ASSUME NEW p \in Principals, NEW d \in Dumps, StartAnalysis(j, p, d)
      PROVE  RowsInv' /\ RowsStay
  <2>1. dump[d] # None /\ Submit(j, p, "memory-analysis", d, "read")
    BY <1>1 DEF StartAnalysis, MaySee, DumpExists
  <2>2. "memory-analysis" \in Kinds
    BY DEF Kinds
  <2>3. QED BY <2>1, <2>2, SubmitRows
<1>2. ASSUME NEW p \in Principals, NEW d \in Dumps, InspectRegion(j, p, d)
      PROVE  RowsInv' /\ RowsStay
  <2>1. dump[d] # None /\ Submit(j, p, "memory-region-inspection", d, "read")
    BY <1>2 DEF InspectRegion, MaySee, DumpExists
  <2>2. "memory-region-inspection" \in Kinds
    BY DEF Kinds
  <2>3. QED BY <2>1, <2>2, SubmitRows
<1>3. ASSUME NEW p \in Principals, StartDynamic(j, p)
      PROVE  RowsInv' /\ RowsStay
  <2>1. Submit(j, p, "dynamic-analysis", None, "record")
    BY <1>3 DEF StartDynamic
  <2>2. "dynamic-analysis" \in Kinds
    BY DEF Kinds
  <2>3. QED BY <2>1, <2>2, SubmitRows
<1>4. QED BY <1>1, <1>2, <1>3 DEF Start

LEMMA CreateRunRows ==
  ASSUME RowsInv, NEW j \in Jobs, CreateRun(j)
  PROVE  RowsInv' /\ RowsStay
<1>1. /\ task[j].step = "record"
      /\ UNCHANGED <<dump, region, job, call, disk, stray, superseded, contested, failures>>
  BY DEF CreateRun, History, Quiet
<1>2. task[j] \in Task /\ job[j] # None
  BY <1>1, TaskShape DEF RowsInv, TaskKnown
<1>3. [task[j] EXCEPT !.step = "lookup"] \in Task
  BY <1>2 DEF Task, TaskSteps
<1>4. RowsStay
  BY <1>1 DEF RowsStay
<1>5. run' = [run EXCEPT ![j] = Pending] /\ task' = [task EXCEPT ![j].step = "lookup"]
  BY DEF CreateRun
<1>6. task'[j] = [task[j] EXCEPT !.step = "lookup"] /\ \A i \in Jobs \ {j} : task'[i] = task[i]
  BY <1>5 DEF RowsInv, TypeOK
<1>7. task' \in [Jobs -> Tasks]
  BY <1>3, <1>5 DEF RowsInv, TypeOK, Tasks
<1>8. TypeOK'
  BY <1>1, <1>5, <1>7 DEF RowsInv, TypeOK, Tasks
<1>9. \A i \in Jobs : RunKnown(i)' /\ JobKnown(i)'
  BY <1>1, <1>2, <1>5 DEF RowsInv, TypeOK, Known, RunKnown, JobKnown, Executes
<1>10. task'[j].step = "lookup" /\ run'[j] = Pending
  BY <1>2, <1>5, <1>6 DEF Task, RowsInv, TypeOK
<1>11. TaskKnown(j)'
  BY <1>1, <1>2, <1>10 DEF TaskKnown
<1>12. \A i \in Jobs : TaskKnown(i)'
  <2>1. \A i \in Jobs \ {j} : run'[i] = run[i]
    BY <1>5 DEF RowsInv, TypeOK
  <2>2. QED BY <1>4, <1>6, <1>11, <2>1, TaskStays
<1>13. QED BY <1>1, <1>4, <1>8, <1>9, <1>12 DEF RowsInv, Known

\* Ending a job changes the state of its row at most.
LEMMA JobEnds ==
  ASSUME RowsInv, NEW j \in Jobs, NEW state \in {"finished", "failed"},
         job' = IF JobExists(j) THEN [job EXCEPT ![j].state = state] ELSE job,
         UNCHANGED dump
  PROVE  /\ job' \in [Jobs -> {None} \cup JobRow]
         /\ \A i \in Jobs : job'[i] # None => job[i] # None
         /\ \A i \in Jobs \ {j} : job'[i] = job[i]
         /\ JobExists(j) => job'[j].state = state
         /\ ~JobExists(j) => job'[j] = job[j]
         /\ RowsStay
<1>1. CASE JobExists(j)
  <2> DEFINE new == [job[j] EXCEPT !.state = state]
  <2>1. job[j] \in JobRow /\ job[j] # None
    BY <1>1 DEF RowsInv, TypeOK, JobExists
  <2>2. /\ new \in JobRow /\ new.kind = job[j].kind /\ new.dump = job[j].dump
        /\ new.owner = job[j].owner /\ new.state = state
    BY <2>1 DEF JobRow
  <2>3. new # None
    BY <2>2, NoneAssumption DEF NoneAssumption
  <2>4. job' = [job EXCEPT ![j] = new]
    BY <1>1
  <2> HIDE DEF new
  <2>5. /\ job' \in [Jobs -> {None} \cup JobRow] /\ job'[j] = new
        /\ \A i \in Jobs \ {j} : job'[i] = job[i]
    BY <2>2, <2>4 DEF RowsInv, TypeOK
  <2>6. QED BY <1>1, <2>1, <2>2, <2>3, <2>5 DEF RowsStay
<1>2. CASE ~JobExists(j)
  <2>1. job' = job
    BY <1>2
  <2>2. QED BY <1>2, <2>1 DEF RowsInv, TypeOK, RowsStay
<1>3. QED BY <1>1, <1>2

LEMMA JobFailsRows ==
  ASSUME RowsInv, NEW j \in Jobs, JobFails(j), UNCHANGED <<dump, region, run, call>>,
         disk' \in [Files -> {"none", "torn", "whole"}],
         stray' \subseteq Files, superseded' \subseteq Analyses, contested' \subseteq Files,
         failures' \in 0..MaxFailures
  PROVE  RowsInv' /\ RowsStay
<1>1. /\ task' = [task EXCEPT ![j] = Idle]
      /\ job' = IF JobExists(j) THEN [job EXCEPT ![j].state = "failed"] ELSE job
  BY DEF JobFails
<1>2. /\ job' \in [Jobs -> {None} \cup JobRow] /\ RowsStay
      /\ \A i \in Jobs : job'[i] # None => job[i] # None
  BY <1>1, JobEnds
<1>3. Idle \in Tasks
  BY DEF Tasks
<1>4. QED BY <1>1, <1>2, <1>3, OneTaskMoves

LEMMA FailsRows ==
  ASSUME RowsInv, NEW j \in Jobs, NEW left \in SUBSET Files, Fails(j, left)
  PROVE  RowsInv' /\ RowsStay
  BY JobFailsRows DEF Fails, Quiet, RowsInv, TypeOK

LEMMA FinishJobRows ==
  ASSUME RowsInv, NEW j \in Jobs, FinishJob(j)
  PROVE  RowsInv' /\ RowsStay
<1>1. /\ task' = [task EXCEPT ![j] = Idle]
      /\ job' = IF JobExists(j) THEN [job EXCEPT ![j].state = "finished"] ELSE job
      /\ UNCHANGED <<dump, region, run, call, disk, stray, superseded, contested, failures>>
  BY DEF FinishJob, History, Quiet
<1>2. /\ job' \in [Jobs -> {None} \cup JobRow] /\ RowsStay
      /\ \A i \in Jobs : job'[i] # None => job[i] # None
  BY <1>1, JobEnds
<1>3. Idle \in Tasks
  BY DEF Tasks
<1>4. QED BY <1>1, <1>2, <1>3, OneTaskMoves DEF RowsInv, TypeOK

LEMMA ReadImageRows ==
  ASSUME RowsInv, NEW j \in Jobs, ReadImage(j)
  PROVE  RowsInv' /\ RowsStay
<1> DEFINE clean == (disk[Image(dump[job[j].dump].sha)] = "whole")
           new == [task[j] EXCEPT !.step = "lookup", !.clean = clean]
<1>1. /\ task[j].step = "read"
      /\ task' = [task EXCEPT ![j].step = "lookup", ![j].clean = clean]
      /\ UNCHANGED <<dump, region, run, job, call, disk, stray, superseded, contested, failures>>
  BY DEF ReadImage, Rows, History, Quiet
<1>2. task[j] \in Task /\ task[j] # Idle
  BY <1>1, TaskShape DEF RowsInv
<1>3. clean \in BOOLEAN
  OBVIOUS
<1>4. task' = [task EXCEPT ![j] = new]
  BY <1>1, <1>2 DEF RowsInv, TypeOK, Task
<1> HIDE DEF clean
<1>5. new \in Tasks /\ new.step = "lookup"
  BY <1>2, <1>3 DEF Task, TaskSteps, Tasks
<1>6. RowsStay
  BY <1>1 DEF RowsStay
<1> HIDE DEF new
<1>7. QED BY <1>1, <1>2, <1>4, <1>5, <1>6, OneTaskMoves DEF RowsInv, TypeOK

\* A task takes up or goes on with the file that its job is to leave.
LEMMA GoesOnRows ==
  ASSUME RowsInv, NEW j \in Jobs, NEW step \in TaskSteps \ {"record", "read"},
         NEW file \in Files \cup {None},
         task[j].step \notin {"idle", "finish"}, GoesOn(j, step, file),
         step \in {"write", "open", "close", "commit"} => Leaves(j, file),
         disk' \in [Files -> {"none", "torn", "whole"}], UNCHANGED failures
  PROVE  /\ RowsInv' /\ RowsStay
         /\ task'[j].step = step /\ task'[j].file = file /\ task'[j].clean = task[j].clean
         /\ \A i \in Jobs \ {j} : task'[i] = task[i]
<1> DEFINE new == [task[j] EXCEPT !.step = step, !.file = file]
<1>1. /\ task' = [task EXCEPT ![j].step = step, ![j].file = file]
      /\ UNCHANGED <<dump, region, run, job, call, stray, superseded, contested>>
  BY DEF GoesOn, Rows, History
<1>2. task[j] \in Task /\ task[j] # Idle
  BY TaskShape DEF RowsInv
<1>3. task' = [task EXCEPT ![j] = new]
  BY <1>1, <1>2 DEF RowsInv, TypeOK, Task
<1>4. /\ new \in Tasks /\ new.step = step /\ new.file = file /\ new.clean = task[j].clean
  BY <1>2 DEF Task, Tasks
<1>5. RowsStay
  BY <1>1 DEF RowsStay
<1> HIDE DEF new
<1>6. task'[j] = new /\ \A i \in Jobs \ {j} : task'[i] = task[i]
  BY <1>3 DEF RowsInv, TypeOK
<1>7. step \in {"write", "open", "close", "commit"} => Leaves(j, file)'
  BY <1>1, <1>4, <1>6 DEF Leaves, Analyzes, Inspects, Executes
<1>8. RowsInv'
  BY <1>1, <1>2, <1>3, <1>4, <1>5, <1>7, OneTaskMoves DEF RowsInv, TypeOK
<1>9. QED BY <1>4, <1>5, <1>6, <1>8

LEMMA SelectRowRows ==
  ASSUME RowsInv, NEW j \in Jobs, SelectRow(j)
  PROVE  /\ RowsInv' /\ RowsStay
         /\ task'[j].step \in {"write", "finish"} /\ task'[j].clean = task[j].clean
         /\ task'[j].step = "finish" => Inspects(j) /\ job[j].dump \in region
         /\ \A i \in Jobs \ {j} : task'[i] = task[i]
<1> DEFINE d == job[j].dump
<1>1. task[j].step = "lookup" /\ JobExists(j) /\ UNCHANGED <<disk, failures>>
  BY DEF SelectRow, Quiet
<1>2. /\ task[j] \in Task /\ job[j] \in JobRow /\ job[j] # None
      /\ disk' \in [Files -> {"none", "torn", "whole"}] /\ task[j].step # "idle"
  BY <1>1, TaskShape DEF RowsInv, TypeOK, JobExists
<1>3. task[j].clean \in BOOLEAN
  BY <1>2 DEF Task
<1>4. ~Executes(j) => dump[d].sha \in Contents
  BY <1>2 DEF RowsInv, Known, JobKnown, TypeOK, DumpRow
<1>5. {"write", "finish"} \subseteq TaskSteps \ {"record", "read"}
  BY DEF TaskSteps
<1>6. CASE Analyzes(j)
  <2>1. PICK t \in Stamps : GoesOn(j, "write", Analysis(dump[d].sha, t, task[j].clean))
    BY <1>6 DEF SelectRow, Analyzes
  <2>2. Leaves(j, Analysis(dump[d].sha, t, task[j].clean))
    BY <1>6 DEF Leaves, Analyzes, Inspects, Executes
  <2>3. Analysis(dump[d].sha, t, task[j].clean) \in Files
    BY <1>3, <1>4, <1>6, FileKinds DEF Analyzes, Executes
  <2>4. QED BY <1>1, <1>2, <1>5, <2>1, <2>2, <2>3, GoesOnRows
<1>7. CASE Inspects(j) /\ d \in region
  <2>1. GoesOn(j, "finish", None)
    BY <1>7 DEF SelectRow, Inspects
  <2>2. QED BY <1>1, <1>2, <1>5, <1>7, <2>1, GoesOnRows
<1>8. CASE Inspects(j) /\ d \notin region
  <2>1. GoesOn(j, "write", Region(dump[d].sha))
    BY <1>8 DEF SelectRow, Inspects
  <2>2. Leaves(j, Region(dump[d].sha))
    BY <1>8 DEF Leaves, Analyzes, Inspects, Executes
  <2>3. Region(dump[d].sha) \in Files
    BY <1>4, <1>8, FileKinds DEF Inspects, Executes
  <2>4. QED BY <1>1, <1>2, <1>5, <2>1, <2>2, <2>3, GoesOnRows
<1>9. CASE Executes(j)
  <2>1. PICK r \in Results : GoesOn(j, "write", Result(r))
    BY <1>9 DEF SelectRow, Executes
  <2>2. Leaves(j, Result(r))
    BY <1>9 DEF Leaves, Analyzes, Inspects, Executes, ResultFiles
  <2>3. Result(r) \in Files
    BY FileKinds DEF ResultFiles
  <2>4. QED BY <1>1, <1>2, <1>5, <2>1, <2>2, <2>3, GoesOnRows
<1>10. QED
  BY <1>2, <1>6, <1>7, <1>8, <1>9 DEF JobRow, Kinds, Analyzes, Inspects, Executes

\* A task that has its file goes on with it.
LEMMA FileStepRows ==
  ASSUME RowsInv, NEW j \in Jobs, NEW step \in {"open", "close", "commit"},
         task[j].step \in {"write", "open", "close"}, GoesOn(j, step, task[j].file),
         disk' \in [Files -> {"none", "torn", "whole"}], UNCHANGED failures
  PROVE  /\ RowsInv' /\ RowsStay
         /\ task'[j].step = step /\ task'[j].file = task[j].file
         /\ task'[j].clean = task[j].clean
         /\ \A i \in Jobs \ {j} : task'[i] = task[i]
<1>1. task[j].file \in Files /\ Leaves(j, task[j].file)
  BY LeavesFile
<1>2. step \in TaskSteps \ {"record", "read"}
  BY DEF TaskSteps
<1>3. task[j].step # "idle"
  OBVIOUS
<1>4. QED BY <1>1, <1>2, <1>3, GoesOnRows

LEMMA CheckFileRows ==
  ASSUME RowsInv, NEW j \in Jobs, CheckFile(j)
  PROVE  /\ RowsInv' /\ RowsStay
         /\ task'[j].step = IF disk[task[j].file] = "none" THEN "open" ELSE "commit"
         /\ task'[j].file = task[j].file /\ task'[j].clean = task[j].clean
         /\ \A i \in Jobs \ {j} : task'[i] = task[i]
<1> DEFINE step == IF disk[task[j].file] = "none" THEN "open" ELSE "commit"
<1>1. task[j].step = "write" /\ GoesOn(j, step, task[j].file) /\ UNCHANGED <<disk, failures>>
  BY DEF CheckFile, Quiet
<1>2. step \in {"open", "close", "commit"}
  OBVIOUS
<1>3. disk' \in [Files -> {"none", "torn", "whole"}]
  BY <1>1 DEF RowsInv, TypeOK
<1> HIDE DEF step
<1>4. /\ RowsInv' /\ RowsStay
      /\ task'[j].step = step /\ task'[j].file = task[j].file
      /\ task'[j].clean = task[j].clean
      /\ \A i \in Jobs \ {j} : task'[i] = task[i]
  BY <1>1, <1>2, <1>3, FileStepRows
<1>5. QED BY <1>4 DEF step

LEMMA OpenFileRows ==
  ASSUME RowsInv, NEW j \in Jobs, OpenFile(j)
  PROVE  /\ RowsInv' /\ RowsStay
         /\ task'[j].step = "close"
         /\ task'[j].file = task[j].file /\ task'[j].clean = task[j].clean
         /\ \A i \in Jobs \ {j} : task'[i] = task[i]
<1>1. /\ task[j].step = "open" /\ GoesOn(j, "close", task[j].file)
      /\ disk' = [disk EXCEPT ![task[j].file] = "torn"] /\ UNCHANGED failures
  BY DEF OpenFile
<1>2. disk' \in [Files -> {"none", "torn", "whole"}]
  BY <1>1 DEF RowsInv, TypeOK
<1>3. QED BY <1>1, <1>2, FileStepRows

LEMMA CloseFileRows ==
  ASSUME RowsInv, NEW j \in Jobs, CloseFile(j)
  PROVE  RowsInv' /\ RowsStay
<1> DEFINE f == task[j].file
           new == [task[j] EXCEPT !.step = "commit"]
<1>1. task[j].step = "close" /\ UNCHANGED <<dump, region, run, call, superseded>>
  BY DEF CloseFile
<1>2. f \in Files /\ Leaves(j, f)
  BY <1>1, LeavesFile
<1>3. CASE /\ disk' = [disk EXCEPT ![f] = "whole"]
           /\ Restored(f)
           /\ task' = [task EXCEPT ![j].step = "commit"]
           /\ UNCHANGED <<job, stray, failures>>
  <2>1. task[j] \in Task /\ task[j] # Idle
    BY <1>1, TaskShape DEF RowsInv
  <2>2. new \in Tasks /\ new.step = "commit" /\ new.file = f /\ new.clean = task[j].clean
    BY <2>1 DEF Task, TaskSteps, Tasks
  <2>3. task' = [task EXCEPT ![j] = new]
    BY <1>3
  <2>4. task'[j] = new
    BY <2>3 DEF RowsInv, TypeOK
  <2> HIDE DEF new
  <2>5. PICK moved : moved = new
    OBVIOUS
  <2>6. RowsStay
    BY <1>1, <1>3 DEF RowsStay
  <2>7. disk' \in [Files -> {"none", "torn", "whole"}] /\ contested' \subseteq Files
    BY <1>3 DEF RowsInv, TypeOK, Restored
  <2>8. Leaves(j, moved.file)'
    <3>1. Leaves(j, moved.file) /\ task'[j].clean = task[j].clean
      BY <1>2, <2>2, <2>4, <2>5
    <3>2. QED BY <1>1, <1>3, <3>1 DEF Leaves, Analyzes, Inspects, Executes
  <2>9. /\ moved \in Tasks /\ moved.step = "commit" /\ task' = [task EXCEPT ![j] = moved]
    BY <2>2, <2>3, <2>5
  <2>10. QED BY <1>1, <1>3, <2>1, <2>6, <2>7, <2>8, <2>9, OneTaskMoves DEF RowsInv, TypeOK
<1>4. CASE /\ Failure
           /\ JobFails(j)
           /\ stray' = stray \cup {f}
           /\ UNCHANGED <<disk, contested>>
  <2>1. stray' \subseteq Files
    BY <1>2, <1>4 DEF RowsInv, TypeOK
  <2>2. failures' \in 0..MaxFailures
    BY <1>4, FailureCounts DEF RowsInv
  <2>3. QED BY <1>1, <1>4, <2>1, <2>2, JobFailsRows DEF RowsInv, TypeOK
<1>5. QED BY <1>3, <1>4 DEF CloseFile

\* Steps of one task that commit its file to a row and leave jobs as they are.
LEMMA CommitRows ==
  ASSUME RowsInv, NEW j \in Jobs, task[j].step = "commit",
         task' = [task EXCEPT ![j].step = "finish"],
         UNCHANGED <<job, call, disk, failures>>,
         NEW old \in Analyses \cup {None}, NowNamed(task[j].file, old),
         dump' \in [Dumps -> {None} \cup DumpRow],
         \A d \in Dumps : dump[d] # None =>
            dump'[d] # None /\ dump'[d].sha = dump[d].sha /\ dump'[d].owner = dump[d].owner,
         region' \subseteq Dumps, \A d \in region' : dump'[d] # None,
         run' \in [Jobs -> {None, Pending} \cup Files], \A i \in Jobs : RunKnown(i)',
         \A i \in Jobs \ {j} : run'[i] = run[i]
  PROVE  /\ RowsInv' /\ RowsStay
         /\ task'[j].step = "finish" /\ task'[j].clean = task[j].clean
         /\ \A i \in Jobs \ {j} : task'[i] = task[i]
<1> DEFINE new == [task[j] EXCEPT !.step = "finish"]
<1>1. task[j] \in Task /\ task[j] # Idle
  BY TaskShape DEF RowsInv
<1>2. new \in Tasks /\ new.step = "finish" /\ new.clean = task[j].clean
  BY <1>1 DEF Task, TaskSteps, Tasks
<1>3. task' = [task EXCEPT ![j] = new]
  OBVIOUS
<1> HIDE DEF new
<1>4. /\ task'[j] = new /\ \A i \in Jobs \ {j} : task'[i] = task[i]
      /\ task' \in [Jobs -> Tasks]
  BY <1>2, <1>3 DEF RowsInv, TypeOK, Tasks
<1>5. RowsStay
  BY DEF RowsStay
<1>6. stray' \subseteq Files /\ superseded' \subseteq Analyses /\ contested' \subseteq Files
  BY LeavesFile, NamingTypes DEF RowsInv
<1>7. TypeOK'
  BY <1>4, <1>6 DEF RowsInv, TypeOK, Tasks
<1>8. \A i \in Jobs : JobKnown(i)'
  BY <1>5, JobStays DEF JobKnown
<1>9. TaskKnown(j)'
  BY <1>1, <1>2, <1>4 DEF RowsInv, TaskKnown
<1>10. \A i \in Jobs : TaskKnown(i)'
  BY <1>4, <1>5, <1>9, TaskStays
<1>11. QED BY <1>2, <1>4, <1>5, <1>7, <1>8, <1>10 DEF RowsInv, Known

LEMMA CommitAnalysisRows ==
  ASSUME RowsInv, NEW j \in Jobs, CommitAnalysis(j)
  PROVE  RowsInv' /\ RowsStay
<1> DEFINE d == job[j].dump
           f == task[j].file
           row == [dump[d] EXCEPT !.analysis = f]
<1>1. task[j].step = "commit" /\ Analyzes(j)
  BY DEF CommitAnalysis, Analyzes
<1>2. f \in Analyses /\ f \in Files /\ d \in Dumps
  BY <1>1, LeavesFile DEF RowsInv, Known, JobKnown, Analyzes, Executes
<1>3. CASE ~DumpExists(d) /\ Fails(j, {f})
  BY <1>2, <1>3, FailsRows
<1>4. CASE /\ DumpExists(d)
           /\ dump' = [dump EXCEPT ![d].analysis = f]
           /\ NowNamed(f, dump[d].analysis)
           /\ task' = [task EXCEPT ![j].step = "finish"]
           /\ UNCHANGED <<region, run, job, call, disk, failures>>
  <2>1. dump[d] \in DumpRow /\ dump[d] # None
    BY <1>2, <1>4 DEF DumpExists, RowsInv, TypeOK
  <2>2. /\ row \in DumpRow /\ row.sha = dump[d].sha /\ row.owner = dump[d].owner
        /\ dump[d].analysis \in Analyses \cup {None}
    BY <1>2, <2>1 DEF DumpRow
  <2>3. row # None
    BY <2>2, NoneAssumption DEF NoneAssumption
  <2>4. dump' = [dump EXCEPT ![d] = row]
    BY <1>4
  <2> HIDE DEF row
  <2>5. /\ dump' \in [Dumps -> {None} \cup DumpRow]
        /\ \A e \in Dumps : dump[e] # None =>
            dump'[e] # None /\ dump'[e].sha = dump[e].sha /\ dump'[e].owner = dump[e].owner
    BY <1>2, <2>2, <2>3, <2>4 DEF RowsInv, TypeOK
  <2>6. \A e \in region' : dump'[e] # None
    BY <1>4, <2>5 DEF RowsInv, TypeOK, Known
  <2>7. \A i \in Jobs : RunKnown(i)'
    BY <1>4 DEF RowsInv, Known, RunKnown
  <2>8. region' \subseteq Dumps /\ run' \in [Jobs -> {None, Pending} \cup Files]
    BY <1>4 DEF RowsInv, TypeOK
  <2>9. QED BY <1>1, <1>4, <2>2, <2>5, <2>6, <2>7, <2>8, CommitRows
<1>5. QED BY <1>3, <1>4 DEF CommitAnalysis, Quiet

LEMMA CommitRegionRows ==
  ASSUME RowsInv, NEW j \in Jobs, CommitRegion(j)
  PROVE  RowsInv' /\ RowsStay
<1> DEFINE d == job[j].dump
           f == task[j].file
<1>1. task[j].step = "commit" /\ Inspects(j)
  BY DEF CommitRegion, Inspects
<1>2. f \in Files /\ d \in Dumps /\ dump[d] # None
  BY <1>1, LeavesFile DEF RowsInv, Known, JobKnown, Inspects, Executes
<1>3. CASE Fails(j, {}) \/ Fails(j, {f})
  BY <1>2, <1>3, FailsRows
<1>4. CASE /\ region' = region \cup {d}
           /\ NowNamed(f, None)
           /\ task' = [task EXCEPT ![j].step = "finish"]
           /\ UNCHANGED <<dump, run, job, call, disk, failures>>
  <2>1. \A e \in region' : dump'[e] # None
    BY <1>2, <1>4 DEF RowsInv, Known
  <2>2. \A i \in Jobs : RunKnown(i)'
    BY <1>4 DEF RowsInv, Known, RunKnown
  <2>3. /\ region' \subseteq Dumps /\ run' \in [Jobs -> {None, Pending} \cup Files]
        /\ dump' \in [Dumps -> {None} \cup DumpRow]
    BY <1>2, <1>4 DEF RowsInv, TypeOK
  <2>4. None \in Analyses \cup {None}
    OBVIOUS
  <2>5. QED BY <1>1, <1>4, <2>1, <2>2, <2>3, <2>4, CommitRows
<1>5. QED BY <1>3, <1>4 DEF CommitRegion, Quiet

LEMMA CommitResultRows ==
  ASSUME RowsInv, NEW j \in Jobs, CommitResult(j)
  PROVE  RowsInv' /\ RowsStay
<1> DEFINE f == task[j].file
<1>1. task[j].step = "commit" /\ Executes(j)
  BY DEF CommitResult, Executes
<1>2. f \in Files /\ f \in ResultFiles /\ job[j] # None
  BY <1>1, LeavesFile DEF Leaves
<1>3. CASE Fails(j, {f})
  BY <1>2, <1>3, FailsRows
<1>4. CASE /\ run' = [run EXCEPT ![j] = f]
           /\ NowNamed(f, None)
           /\ task' = [task EXCEPT ![j].step = "finish"]
           /\ UNCHANGED <<dump, region, job, call, disk, failures>>
  <2>1. \A e \in region' : dump'[e] # None
    BY <1>4 DEF RowsInv, Known
  <2>2. \A i \in Jobs : RunKnown(i)'
    BY <1>2, <1>4 DEF RowsInv, TypeOK, Known, RunKnown
  <2>3. /\ region' \subseteq Dumps /\ run' \in [Jobs -> {None, Pending} \cup Files]
        /\ dump' \in [Dumps -> {None} \cup DumpRow]
    BY <1>2, <1>4 DEF RowsInv, TypeOK
  <2>4. None \in Analyses \cup {None}
    OBVIOUS
  <2>5. QED BY <1>1, <1>4, <2>1, <2>2, <2>3, <2>4, CommitRows
<1>5. QED BY <1>3, <1>4 DEF CommitResult, Quiet

LEMMA CrashRows ==
  ASSUME RowsInv, Crash
  PROVE  RowsInv' /\ RowsStay
<1>1. /\ task' = [j \in Jobs |-> Idle] /\ call' = [c \in Clients |-> Idle]
      /\ stray' = stray \cup InHand \cup Unlinking
      /\ UNCHANGED <<dump, region, run, job, disk, superseded, contested>>
      /\ failures' \in 0..MaxFailures
  BY FailureCounts DEF Crash, Rows, RowsInv
<1>2. InHand \subseteq Files
  <2>1. \A j \in TasksAt({"write", "open", "close", "commit"}) : task[j].file \in Files
    BY LeavesFile DEF TasksAt
  <2>2. \A c \in UploadsAt({"upload-open", "upload-close", "upload-insert"}) :
           Image(call[c].sha) \in Files
    BY CallShape, FileKinds DEF UploadsAt, UploadCall, RowsInv
  <2>3. QED BY <2>1, <2>2 DEF InHand
<1>3. Unlinking \subseteq Files
  BY CallShape DEF Unlinking, PurgeCall, RowsInv
<1>4. TypeOK'
  BY <1>1, <1>2, <1>3 DEF RowsInv, TypeOK
<1>5. Known' /\ RowsStay
  BY <1>1 DEF RowsInv, Known, RunKnown, JobKnown, Executes, RowsStay
<1>6. \A j \in Jobs : TaskKnown(j)'
  BY <1>1 DEF TaskKnown
<1>7. QED BY <1>4, <1>5, <1>6 DEF RowsInv

LEMMA WorkRows ==
  ASSUME RowsInv, NEW j \in Jobs, Work(j)
  PROVE  RowsInv' /\ RowsStay
<1>1. ASSUME GivesUp(j) PROVE RowsInv' /\ RowsStay
  BY <1>1, FailsRows DEF GivesUp
<1>2. QED BY <1>1, CreateRunRows, ReadImageRows, SelectRowRows, CheckFileRows, OpenFileRows,
             CloseFileRows, CommitAnalysisRows, CommitRegionRows, CommitResultRows,
             FinishJobRows DEF Work

LEMMA StepKeepsRows ==
  ASSUME RowsInv, [Next]_vars
  PROVE  RowsInv' /\ RowsStay
<1>1. ASSUME NEW c \in Clients, Upload(c) PROVE RowsInv' /\ RowsStay
  BY <1>1, UploadLookupRows, UploadOpenRows, UploadCloseRows, UploadInsertRows DEF Upload
<1>2. ASSUME NEW c \in Clients, Purge(c) PROVE RowsInv' /\ RowsStay
  BY <1>2, PurgeCheckRows, PurgeSelectRows, PurgeCommitRows, PurgeUnlinkRows DEF Purge
<1>3. CASE UNCHANGED vars
  <2>1. UNCHANGED <<Rows, task>> /\ TypeOK'
    BY <1>3 DEF vars, Rows, RowsInv, TypeOK
  <2>2. QED BY <1>3, <2>1, RowsUntouched DEF vars, RowsInv, TypeOK, Calls
<1>4. QED BY <1>1, <1>2, <1>3, StartRows, WorkRows, CrashRows DEF Next

LEMMA RowsInitially == Init => RowsInv
<1> SUFFICES ASSUME Init PROVE RowsInv
  OBVIOUS
<1>1. TypeOK
  BY EvidenceAssumption DEF Init, TypeOK, EvidenceAssumption
<1>2. Known
  BY DEF Init, Known, RunKnown, JobKnown
<1>3. \A j \in Jobs : TaskKnown(j)
  BY DEF Init, TaskKnown
<1>4. QED BY <1>1, <1>2, <1>3 DEF RowsInv

LEMMA RowsAlways == Spec => []RowsInv
<1>1. RowsInv /\ [Next]_vars => RowsInv'
  BY StepKeepsRows
<1>2. QED BY <1>1, RowsInitially, PTL DEF Spec

\* Rows, files, requests and tasks keep their form whatever overlaps, crashes or
\* fails.
THEOREM TypeCorrect == Spec => []TypeOK
<1>1. RowsInv => TypeOK
  BY DEF RowsInv
<1>2. QED BY <1>1, RowsAlways, PTL

-----------------------------------------------------------------------------
(* Every file, one at a time *)

\* Who has f, at one of the given steps.
TaskHas(f, steps) == \E j \in Jobs : task[j].step \in steps /\ task[j].file = f
UploadHas(f, steps) == \E c \in Clients : call[c].step \in steps /\ Image(call[c].sha) = f
Lists(f) == \E c \in Clients : call[c].step = "unlink" /\ f \in call[c].paths

Handled(f) == \/ TaskHas(f, {"write", "open", "close", "commit"})
              \/ UploadHas(f, {"upload-open", "upload-close", "upload-insert"})
Written(f) == TaskHas(f, {"close"}) \/ UploadHas(f, {"upload-close"})
\* Somebody has written f, or found it written, and has not named it yet.
Held(f) == \/ TaskHas(f, {"close", "commit"})
           \/ UploadHas(f, {"upload-close", "upload-insert"})

LEMMA HandsAndLists ==
  ASSUME NEW f
  PROVE  /\ f \in InHand <=> Handled(f)
         /\ f \in BeingWritten <=> Written(f)
         /\ f \in Unlinking <=> Lists(f)
  BY DEF InHand, BeingWritten, Unlinking, TasksAt, UploadsAt, Handled, Written, Lists,
         TaskHas, UploadHas

Accounted(f) == f \in Named \/ Handled(f) \/ Lists(f) \/ f \in superseded \/ f \in stray

\* What the code knows of f: a file is accounted for; a named file on a purge's list
\* is known to be; a file is half written while somebody writes it or after a failure;
\* and what is named, or is to be, is gone only if a purge took it.
FileInv(f) ==
    /\ disk[f] # "none" => Accounted(f)
    /\ Lists(f) /\ f \in Named => f \in contested
    /\ disk[f] = "torn" => Written(f) \/ failures > 0
    /\ disk[f] = "none" /\ (f \in Named \/ Held(f)) => f \in contested

\* Named depends on three tables alone.
LEMMA NamedPointwise ==
  ASSUME NEW f
  PROVE  f \in Named <=>
           \/ \E d \in Dumps : DumpExists(d) /\ f = Image(dump[d].sha)
           \/ \E d \in Dumps : DumpExists(d) /\ dump[d].analysis # None /\ f = dump[d].analysis
           \/ \E d \in region : f = Region(dump[d].sha)
           \/ \E j \in Jobs : run[j] # None /\ run[j] # Pending /\ f = run[j]
  BY DEF Named, NamedBy, RunExists

LEMMA PendingNamesNothing ==
  ASSUME NEW j \in Jobs, run[j] = None, run' = [run EXCEPT ![j] = Pending],
         run \in [Jobs -> {None, Pending} \cup Files], UNCHANGED <<dump, region>>
  PROVE  Named' = Named
<1>1. /\ \A i \in Jobs \ {j} : run'[i] = run[i]
      /\ run'[j] = Pending
  OBVIOUS
<1>2. {run[i] : i \in {x \in {y \in Jobs : RunExists(y)} : run[x] # Pending}}'
        = {run[i] : i \in {x \in {y \in Jobs : RunExists(y)} : run[x] # Pending}}
  BY <1>1 DEF RunExists
<1>3. QED BY <1>2 DEF Named, NamedBy, DumpExists

LEMMA NamedSame == UNCHANGED <<dump, region, run>> => Named' = Named
  BY DEF Named, NamedBy, DumpExists, RunExists

\* A step of one task changes what this task has, and no more.
LEMMA OneTask ==
  ASSUME NEW j \in Jobs, \A i \in Jobs \ {j} : task'[i] = task[i], NEW f, NEW steps
  PROVE  /\ TaskHas(f, steps)' =>
              TaskHas(f, steps) \/ (task'[j].step \in steps /\ task'[j].file = f)
         /\ TaskHas(f, steps) =>
              TaskHas(f, steps)' \/ (task[j].step \in steps /\ task[j].file = f)
         /\ task'[j].step \in steps /\ task'[j].file = f => TaskHas(f, steps)'
  BY DEF TaskHas

\* A step of one request changes what this request has, and no more.
LEMMA OneCall ==
  ASSUME NEW c \in Clients, \A b \in Clients \ {c} : call'[b] = call[b], NEW f, NEW steps
  PROVE  /\ UploadHas(f, steps)' =>
              UploadHas(f, steps) \/ (call'[c].step \in steps /\ Image(call'[c].sha) = f)
         /\ UploadHas(f, steps) =>
              UploadHas(f, steps)' \/ (call[c].step \in steps /\ Image(call[c].sha) = f)
         /\ call'[c].step \in steps /\ Image(call'[c].sha) = f => UploadHas(f, steps)'
         /\ Lists(f)' => Lists(f) \/ (call'[c].step = "unlink" /\ f \in call'[c].paths)
         /\ Lists(f) => Lists(f)' \/ (call[c].step = "unlink" /\ f \in call[c].paths)
         /\ call'[c].step = "unlink" /\ f \in call'[c].paths => Lists(f)'
  BY DEF UploadHas, Lists

LEMMA CallsAlone ==
  ASSUME UNCHANGED call, NEW f
  PROVE  /\ \A steps : UploadHas(f, steps)' <=> UploadHas(f, steps)
         /\ Lists(f)' <=> Lists(f)
  BY DEF UploadHas, Lists

LEMMA TasksAlone ==
  ASSUME UNCHANGED task, NEW f, NEW steps
  PROVE  TaskHas(f, steps)' <=> TaskHas(f, steps)
  BY DEF TaskHas

-----------------------------------------------------------------------------
(* Steps of tasks *)

\* A step of a task that touches no file: the file it had in hand is still in its
\* hand, named, or given up for good.
QuietTask(j) ==
    /\ UNCHANGED <<call, disk, failures, superseded, contested>>
    /\ Named' = Named /\ stray \subseteq stray'
    /\ \A i \in Jobs \ {j} : task'[i] = task[i]
    /\ task[j].step # "close" /\ task'[j].step # "close"
    /\ task[j].step \in {"write", "open", "commit"} =>
          \/ /\ task'[j].step \in {"write", "open", "commit"}
             /\ task'[j].file = task[j].file
          \/ task[j].file \in Named \cup stray'
    /\ task'[j].step = "commit" => task'[j].file = task[j].file /\ disk[task[j].file] # "none"

LEMMA QuietTaskFiles ==
  ASSUME NEW j \in Jobs, QuietTask(j), NEW f, FileInv(f)
  PROVE  FileInv(f)'
<1>1. /\ \A steps : UploadHas(f, steps)' <=> UploadHas(f, steps)
      /\ Lists(f)' <=> Lists(f)
  BY CallsAlone DEF QuietTask
<1>2. TaskHas(f, {"close"})' <=> TaskHas(f, {"close"})
  BY OneTask DEF QuietTask
<1>3. Handled(f) => Accounted(f)'
  <2>1. TaskHas(f, {"write", "open", "close", "commit"}) =>
          \/ TaskHas(f, {"write", "open", "close", "commit"})'
          \/ f \in Named \cup stray'
    BY OneTask DEF QuietTask
  <2>2. QED BY <1>1, <2>1 DEF Handled, Accounted, QuietTask
<1>4. Accounted(f) => Accounted(f)'
  BY <1>1, <1>3 DEF Accounted, QuietTask
<1>5. disk[f] = "none" /\ Held(f)' => Held(f)
  <2>1. TaskHas(f, {"close", "commit"})' /\ disk[f] = "none" => TaskHas(f, {"close", "commit"})
    BY OneTask DEF QuietTask
  <2>2. QED BY <1>1, <2>1 DEF Held
<1>6. QED BY <1>1, <1>2, <1>4, <1>5 DEF FileInv, Written, QuietTask

LEMMA OpenFileFiles ==
  ASSUME RowsInv, NEW j \in Jobs, OpenFile(j), NEW f \in Files, FileInv(f)
  PROVE  FileInv(f)'
<1> DEFINE g == task[j].file
<1>1. /\ task[j].step = "open" /\ task'[j].step = "close" /\ task'[j].file = g
      /\ \A i \in Jobs \ {j} : task'[i] = task[i]
      /\ disk' = [disk EXCEPT ![g] = "torn"]
      /\ UNCHANGED <<dump, region, run, call, stray, superseded, contested, failures>>
  BY OpenFileRows DEF OpenFile, GoesOn, Rows, History
<1>2. Named' = Named /\ (Lists(f)' <=> Lists(f))
      /\ \A steps : UploadHas(f, steps)' <=> UploadHas(f, steps)
  BY <1>1, NamedSame, CallsAlone
<1>3. CASE f = g
  <2>1. Written(f)' /\ Handled(f)' /\ disk'[f] = "torn"
    BY <1>1, <1>3, OneTask DEF Written, Handled, RowsInv, TypeOK
  <2>2. QED BY <1>1, <1>2, <2>1 DEF FileInv, Accounted
<1>4. CASE f # g
  <2>1. \A steps : TaskHas(f, steps)' <=> TaskHas(f, steps)
    BY <1>1, <1>4, OneTask
  <2>2. disk'[f] = disk[f]
    BY <1>1, <1>4 DEF RowsInv, TypeOK
  <2>3. QED BY <1>1, <1>2, <2>1, <2>2 DEF FileInv, Accounted, Handled, Written, Held
<1>5. QED BY <1>3, <1>4

LEMMA CloseFileFiles ==
  ASSUME RowsInv, NEW j \in Jobs, CloseFile(j), NEW f \in Files, FileInv(f)
  PROVE  FileInv(f)'
<1> DEFINE g == task[j].file
<1>1. /\ task[j].step = "close"
      /\ UNCHANGED <<dump, region, run, call, superseded>>
  BY DEF CloseFile
<1>2. Named' = Named /\ (Lists(f)' <=> Lists(f))
      /\ \A steps : UploadHas(f, steps)' <=> UploadHas(f, steps)
  BY <1>1, NamedSame, CallsAlone
<1>3. task[j] \in Task
  BY <1>1, TaskShape DEF RowsInv
<1>4. CASE /\ disk' = [disk EXCEPT ![g] = "whole"]
           /\ Restored(g)
           /\ task' = [task EXCEPT ![j].step = "commit"]
           /\ UNCHANGED <<job, stray, failures>>
  <2>1. /\ task'[j].step = "commit" /\ task'[j].file = g
        /\ \A i \in Jobs \ {j} : task'[i] = task[i]
    BY <1>3, <1>4 DEF RowsInv, TypeOK, Task
  <2>2. f \in contested /\ (f # g \/ Lists(f)) => f \in contested'
    BY <1>4, HandsAndLists DEF Restored
  <2>3. CASE f = g
    <3>1. Handled(f)' /\ disk'[f] = "whole"
      BY <1>4, <2>1, <2>3, OneTask DEF Handled, RowsInv, TypeOK
    <3>2. QED BY <1>2, <2>2, <3>1 DEF FileInv, Accounted
  <2>4. CASE f # g
    <3>1. \A steps : TaskHas(f, steps)' <=> TaskHas(f, steps)
      BY <2>1, <2>4, OneTask
    <3>2. disk'[f] = disk[f]
      BY <1>4, <2>4 DEF RowsInv, TypeOK
    <3>3. QED BY <1>1, <1>2, <1>4, <2>2, <2>4, <3>1, <3>2
             DEF FileInv, Accounted, Handled, Written, Held
  <2>5. QED BY <2>3, <2>4
<1>5. CASE /\ Failure
           /\ JobFails(j)
           /\ stray' = stray \cup {g}
           /\ UNCHANGED <<disk, contested>>
  <2>1. failures' > 0
    BY <1>5, FailureCounts DEF RowsInv
  <2>2. task'[j] = Idle /\ \A i \in Jobs \ {j} : task'[i] = task[i]
    BY <1>5 DEF JobFails, RowsInv, TypeOK
  <2>3. \A steps : TaskHas(f, steps) => TaskHas(f, steps)' \/ f = g
    BY <2>2, OneTask
  <2>4. TaskHas(f, {"close", "commit"})' => TaskHas(f, {"close", "commit"})
    BY <2>2, OneTask DEF Idle
  <2>5. QED BY <1>1, <1>2, <1>5, <2>1, <2>3, <2>4 DEF FileInv, Accounted, Handled, Held
<1>6. QED BY <1>4, <1>5 DEF CloseFile

\* A row comes to name g in place of old.
Names(g, old) ==
    /\ UNCHANGED <<disk, failures>>
    /\ NowNamed(g, old)
    /\ g \in Named' /\ Named' \subseteq Named \cup {g} /\ Named \subseteq Named' \cup {old}

LEMMA TaskNamesFiles ==
  ASSUME NEW j \in Jobs, task[j].step = "commit", task'[j].step = "finish",
         \A i \in Jobs \ {j} : task'[i] = task[i], UNCHANGED call,
         NEW old, Names(task[j].file, old), NEW f \in Files, FileInv(f)
  PROVE  FileInv(f)'
<1> DEFINE g == task[j].file
<1>1. /\ \A steps : UploadHas(f, steps)' <=> UploadHas(f, steps)
      /\ Lists(f)' <=> Lists(f)
  BY CallsAlone
<1>2. \A steps : TaskHas(f, steps)' => TaskHas(f, steps) \/ "finish" \in steps
  BY OneTask
<1>3. \A steps : TaskHas(f, steps) => TaskHas(f, steps)' \/ f = g
  BY OneTask
<1>4. TaskHas(f, {"close"}) => TaskHas(f, {"close"})'
  BY OneTask
<1>5. f = g => Held(f)
  BY DEF Held, TaskHas
<1>6. f # None
  BY FileKinds
<1>7. Held(f)' => Held(f)
  BY <1>1, <1>2 DEF Held
<1>8. Accounted(f) => Accounted(f)'
  BY <1>1, <1>3, <1>6 DEF Accounted, Handled, Names, NowNamed
<1>9. f \in contested => f \in contested'
  BY DEF Names, NowNamed
<1>10. f = g /\ Lists(f) => f \in contested'
  BY HandsAndLists DEF Names, NowNamed
<1>11. f \in Named' => f \in Named \/ f = g
  BY DEF Names
<1>12. Written(f) => Written(f)'
  BY <1>1, <1>4 DEF Written
<1>13. disk' = disk /\ failures' = failures
  BY DEF Names
<1> HIDE DEF g
<1>14. QED
  BY <1>1, <1>5, <1>7, <1>8, <1>9, <1>10, <1>11, <1>12, <1>13 DEF FileInv

\* What a region row and a run name does not change while it is there.
LEMMA CommitAnalysisNames ==
  ASSUME RowsInv, NEW j \in Jobs, CommitAnalysis(j), DumpExists(job[j].dump)
  PROVE  /\ task[j].step = "commit" /\ task'[j].step = "finish"
         /\ \A i \in Jobs \ {j} : task'[i] = task[i]
         /\ UNCHANGED <<call, job, region, run>>
         /\ Names(task[j].file, dump[job[j].dump].analysis)
         /\ dump'[job[j].dump].analysis = task[j].file
         /\ \A d \in Dumps : /\ DumpExists(d)' <=> DumpExists(d)
                             /\ dump[d] # None => dump'[d].sha = dump[d].sha
                             /\ d # job[j].dump => dump'[d] = dump[d]
<1> DEFINE d == job[j].dump
           f == task[j].file
           old == dump[d].analysis
           row == [dump[d] EXCEPT !.analysis = f]
<1>1. task[j].step = "commit" /\ Analyzes(j)
  BY DEF CommitAnalysis, Analyzes
<1>2. f \in Analyses /\ f \in Files /\ d \in Dumps /\ task[j] \in Task
  BY <1>1, LeavesFile, TaskShape DEF RowsInv, Known, JobKnown, Analyzes, Executes
<1>3. /\ dump' = [dump EXCEPT ![d] = row]
      /\ NowNamed(f, old)
      /\ task' = [task EXCEPT ![j].step = "finish"]
      /\ UNCHANGED <<region, run, job, call, disk, failures>>
  BY DEF CommitAnalysis, Quiet
<1>4. task'[j].step = "finish" /\ \A i \in Jobs \ {j} : task'[i] = task[i]
  BY <1>2, <1>3 DEF RowsInv, TypeOK, Task
<1>5. dump[d] \in DumpRow /\ dump[d] # None /\ dump[d].live
  BY <1>2 DEF DumpExists, RowsInv, TypeOK
<1>6. /\ row \in DumpRow /\ row.sha = dump[d].sha /\ row.analysis = f /\ row.live
      /\ row # None
  <2>1. row \in DumpRow /\ row.sha = dump[d].sha /\ row.analysis = f /\ row.live
    BY <1>2, <1>5 DEF DumpRow
  <2>2. QED BY <2>1, NoneAssumption DEF NoneAssumption
<1> HIDE DEF row
<1>7. dump'[d] = row /\ \A e \in Dumps \ {d} : dump'[e] = dump[e]
  BY <1>2, <1>3 DEF RowsInv, TypeOK
<1>8. \A e \in Dumps : /\ DumpExists(e)' <=> DumpExists(e)
                       /\ dump[e] # None => dump'[e].sha = dump[e].sha
                       /\ e # d => dump'[e] = dump[e]
  BY <1>5, <1>6, <1>7 DEF DumpExists
<1>9. f # None /\ dump'[d].analysis = f
  BY <1>2, <1>6, <1>7, FileKinds
<1>10. \A g : g \in Named' => g \in Named \/ g = f
  <2>1. ASSUME NEW g, g \in Named' PROVE g \in Named \/ g = f
    <3>1. CASE \E e \in Dumps : DumpExists(e)' /\ g = Image(dump'[e].sha)
      BY <1>8, <3>1, NamedPointwise DEF DumpExists
    <3>2. CASE \E e \in Dumps : DumpExists(e)' /\ dump'[e].analysis # None
                                  /\ g = dump'[e].analysis
      BY <1>8, <1>9, <3>2, NamedPointwise
    <3>3. CASE \E e \in region' : g = Region(dump'[e].sha)
      BY <1>3, <1>8, <3>3, NamedPointwise DEF RowsInv, TypeOK, Known
    <3>4. CASE \E i \in Jobs : run'[i] # None /\ run'[i] # Pending /\ g = run'[i]
      BY <1>3, <3>4, NamedPointwise
    <3>5. QED BY <2>1, <3>1, <3>2, <3>3, <3>4 DEF Named, NamedBy, RunExists
  <2>2. QED BY <2>1
<1>11. \A g : g \in Named => g \in Named' \/ g = old
  <2>1. ASSUME NEW g, g \in Named PROVE g \in Named' \/ g = old
    <3>1. CASE \E e \in Dumps : DumpExists(e) /\ g = Image(dump[e].sha)
      <4>1. \E e \in Dumps : DumpExists(e)' /\ g = Image(dump'[e].sha)
        BY <1>8, <3>1 DEF DumpExists
      <4>2. QED BY <4>1 DEF Named, NamedBy
    <3>2. CASE \E e \in Dumps : DumpExists(e) /\ dump[e].analysis # None
                                  /\ g = dump[e].analysis
      <4>1. g = old \/ \E e \in Dumps : DumpExists(e)' /\ dump'[e].analysis # None
                                          /\ g = dump'[e].analysis
        BY <1>8, <3>2
      <4>2. QED BY <4>1 DEF Named, NamedBy
    <3>3. CASE \E e \in region : g = Region(dump[e].sha)
      <4>1. \E e \in region' : g = Region(dump'[e].sha)
        BY <1>3, <1>8, <3>3 DEF RowsInv, TypeOK, Known
      <4>2. QED BY <4>1 DEF Named, NamedBy
    <3>4. CASE \E i \in Jobs : run[i] # None /\ run[i] # Pending /\ g = run[i]
      <4>1. \E i \in Jobs : run'[i] # None /\ run'[i] # Pending /\ g = run'[i]
        BY <1>3, <3>4
      <4>2. QED BY <4>1 DEF Named, NamedBy, RunExists
    <3>5. QED BY <2>1, <3>1, <3>2, <3>3, <3>4, NamedPointwise
  <2>2. QED BY <2>1
<1>12. f \in Named'
  BY <1>2, <1>6, <1>7, <1>9 DEF Named, NamedBy, DumpExists
<1>13. QED
  BY <1>1, <1>3, <1>4, <1>8, <1>9, <1>10, <1>11, <1>12 DEF Names

LEMMA CommitRegionNames ==
  ASSUME RowsInv, NEW j \in Jobs, CommitRegion(j), task'[j] # Idle
  PROVE  /\ task[j].step = "commit" /\ task'[j].step = "finish" /\ Inspects(j)
         /\ \A i \in Jobs \ {j} : task'[i] = task[i]
         /\ UNCHANGED <<call, job, dump, run>>
         /\ region' = region \cup {job[j].dump}
         /\ Names(task[j].file, None)
<1> DEFINE d == job[j].dump
           f == task[j].file
<1>1. task[j].step = "commit" /\ Inspects(j)
  BY DEF CommitRegion, Inspects
<1>2. d \in Dumps /\ f = Region(dump[d].sha) /\ task[j] \in Task
  BY <1>1, LeavesFile, TaskShape DEF RowsInv, Known, JobKnown, Leaves, Inspects, Executes
<1>3. \A left : Fails(j, left) => task'[j] = Idle
  BY DEF Fails, JobFails, RowsInv, TypeOK
<1>4. /\ region' = region \cup {d}
      /\ NowNamed(f, None)
      /\ task' = [task EXCEPT ![j].step = "finish"]
      /\ UNCHANGED <<dump, run, job, call, disk, failures>>
  BY <1>3 DEF CommitRegion, Quiet
<1>5. task'[j].step = "finish" /\ \A i \in Jobs \ {j} : task'[i] = task[i]
  BY <1>2, <1>4 DEF RowsInv, TypeOK, Task
<1>6. Named' = Named \cup {f}
  BY <1>2, <1>4 DEF Named, NamedBy, DumpExists, RunExists
<1>7. QED BY <1>1, <1>4, <1>5, <1>6 DEF Names

LEMMA CommitResultNames ==
  ASSUME RowsInv, NEW j \in Jobs, CommitResult(j), RunExists(j)
  PROVE  /\ task[j].step = "commit" /\ task'[j].step = "finish" /\ Executes(j)
         /\ \A i \in Jobs \ {j} : task'[i] = task[i]
         /\ UNCHANGED <<call, job, dump, region>>
         /\ run' = [run EXCEPT ![j] = task[j].file] /\ task[j].file \in ResultFiles
         /\ Names(task[j].file, None)
<1> DEFINE f == task[j].file
<1>1. task[j].step = "commit" /\ Executes(j)
  BY DEF CommitResult, Executes
<1>2. f \in ResultFiles /\ task[j] \in Task /\ run[j] \in {None, Pending}
  BY <1>1, LeavesFile, TaskShape DEF RowsInv, Leaves, TaskKnown, Idle
<1>3. /\ run' = [run EXCEPT ![j] = f]
      /\ NowNamed(f, None)
      /\ task' = [task EXCEPT ![j].step = "finish"]
      /\ UNCHANGED <<dump, region, job, call, disk, failures>>
  BY DEF CommitResult, Quiet
<1>4. task'[j].step = "finish" /\ \A i \in Jobs \ {j} : task'[i] = task[i]
  BY <1>2, <1>3 DEF RowsInv, TypeOK, Task
<1>5. /\ run'[j] = f /\ \A i \in Jobs \ {j} : run'[i] = run[i]
      /\ run[j] = Pending /\ f # None /\ f # Pending
  BY <1>2, <1>3, FileKinds DEF RowsInv, TypeOK, Known, RunKnown, RunExists
<1>6. Named' = Named \cup {f}
  BY <1>3, <1>5 DEF Named, NamedBy, DumpExists, RunExists
<1>7. QED BY <1>1, <1>2, <1>3, <1>4, <1>6 DEF Names

-----------------------------------------------------------------------------
(* Steps of requests *)

\* Steps of a request that hold no file before or after, but for an upload's name.
QuietCall(c) ==
    /\ UNCHANGED <<Rows, task, disk, stray, superseded, contested, failures>>
    /\ \A b \in Clients \ {c} : call'[b] = call[b]
    /\ call[c].step \in {"idle", "select"}
    /\ call'[c].step \in {"upload-open", "select", "delete"}

LEMMA QuietCallFiles ==
  ASSUME NEW c \in Clients, QuietCall(c), NEW f, FileInv(f)
  PROVE  FileInv(f)'
<1>1. Named' = Named
  BY NamedSame DEF QuietCall, Rows
<1>2. \A steps : TaskHas(f, steps)' <=> TaskHas(f, steps)
  BY TasksAlone DEF QuietCall
<1>3. Lists(f)' <=> Lists(f)
  BY OneCall DEF QuietCall
<1>4. /\ UploadHas(f, {"upload-close"})' <=> UploadHas(f, {"upload-close"})
      /\ UploadHas(f, {"upload-close", "upload-insert"})'
           <=> UploadHas(f, {"upload-close", "upload-insert"})
      /\ UploadHas(f, {"upload-open", "upload-close", "upload-insert"})
           => UploadHas(f, {"upload-open", "upload-close", "upload-insert"})'
  BY OneCall DEF QuietCall
<1>5. QED BY <1>1, <1>2, <1>3, <1>4 DEF FileInv, Accounted, Handled, Written, Held, QuietCall

LEMMA QuietCalls ==
  ASSUME RowsInv, NEW c \in Clients,
         \/ \E p \in Principals, s \in Contents : UploadLookup(c, p, s)
         \/ \E p \in Principals : PurgeCheck(c, p)
         \/ PurgeSelect(c)
  PROVE  QuietCall(c)
<1>1. ASSUME NEW p \in Principals, NEW s \in Contents, UploadLookup(c, p, s)
      PROVE  QuietCall(c)
  BY <1>1 DEF UploadLookup, Become, QuietCall, History, Quiet, Idle, RowsInv, TypeOK
<1>2. ASSUME NEW p \in Principals, PurgeCheck(c, p)
      PROVE  QuietCall(c)
  BY <1>2 DEF PurgeCheck, Become, QuietCall, History, Quiet, Idle, RowsInv, TypeOK
<1>3. ASSUME PurgeSelect(c)
      PROVE  QuietCall(c)
  <2>1. call[c] \in PurgeCall
    BY <1>3, CallShape DEF PurgeSelect, RowsInv
  <2> DEFINE new == [call[c] EXCEPT !.step = "delete", !.paths = Owned(call[c].who)]
  <2>2. new.step = "delete"
    BY <2>1 DEF PurgeCall
  <2>3. call' = [call EXCEPT ![c] = new]
    BY <1>3 DEF PurgeSelect
  <2> HIDE DEF new
  <2>4. QED BY <1>3, <2>2, <2>3 DEF PurgeSelect, QuietCall, History, Quiet, RowsInv, TypeOK
<1>4. QED BY <1>1, <1>2, <1>3

LEMMA UploadOpenFiles ==
  ASSUME RowsInv, NEW c \in Clients, UploadOpen(c), NEW f \in Files, FileInv(f)
  PROVE  FileInv(f)'
<1> DEFINE g == Image(call[c].sha)
<1>1. /\ call[c].step = "upload-open" /\ Advance(c, "upload-close")
      /\ disk' = [disk EXCEPT ![g] = "torn"]
      /\ UNCHANGED <<dump, region, run, job, task, stray, superseded, contested, failures>>
  BY DEF UploadOpen, Rows, History
<1>2. call[c] \in UploadCall
  BY <1>1, CallShape DEF RowsInv
<1>3. /\ call'[c].step = "upload-close" /\ Image(call'[c].sha) = g
      /\ \A b \in Clients \ {c} : call'[b] = call[b]
  BY <1>1, <1>2 DEF Advance, RowsInv, TypeOK, UploadCall
<1>4. Named' = Named /\ (Lists(f)' <=> Lists(f))
      /\ \A steps : TaskHas(f, steps)' <=> TaskHas(f, steps)
  BY <1>1, <1>3, NamedSame, TasksAlone, OneCall
<1>5. CASE f = g
  <2>1. Written(f)' /\ Handled(f)' /\ disk'[f] = "torn"
    BY <1>1, <1>3, <1>5, OneCall DEF Written, Handled, RowsInv, TypeOK
  <2>2. QED BY <1>1, <1>4, <2>1 DEF FileInv, Accounted
<1>6. CASE f # g
  <2>1. \A steps : UploadHas(f, steps)' <=> UploadHas(f, steps)
    BY <1>3, <1>6, OneCall
  <2>2. disk'[f] = disk[f]
    BY <1>1, <1>6 DEF RowsInv, TypeOK
  <2>3. QED BY <1>1, <1>4, <2>1, <2>2 DEF FileInv, Accounted, Handled, Written, Held
<1>7. QED BY <1>5, <1>6

LEMMA UploadCloseFiles ==
  ASSUME RowsInv, NEW c \in Clients, UploadClose(c), NEW f \in Files, FileInv(f)
  PROVE  FileInv(f)'
<1> DEFINE g == Image(call[c].sha)
<1>1. /\ call[c].step = "upload-close"
      /\ UNCHANGED <<dump, region, run, job, task, superseded>>
  BY DEF UploadClose, Rows
<1>2. Named' = Named /\ \A steps : TaskHas(f, steps)' <=> TaskHas(f, steps)
  BY <1>1, NamedSame, TasksAlone
<1>3. call[c] \in UploadCall
  BY <1>1, CallShape DEF RowsInv
<1>4. CASE /\ disk' = [disk EXCEPT ![g] = "whole"]
           /\ Restored(g)
           /\ Advance(c, "upload-insert")
           /\ UNCHANGED <<stray, failures>>
  <2>1. /\ call'[c].step = "upload-insert" /\ Image(call'[c].sha) = g
        /\ \A b \in Clients \ {c} : call'[b] = call[b]
    BY <1>3, <1>4 DEF Advance, RowsInv, TypeOK, UploadCall
  <2>2. f \in contested /\ (f # g \/ Lists(f)) => f \in contested'
    BY <1>4, HandsAndLists DEF Restored
  <2>3. Lists(f)' <=> Lists(f)
    BY <1>1, <2>1, OneCall
  <2>4. CASE f = g
    <3>1. Handled(f)' /\ disk'[f] = "whole"
      BY <1>4, <2>1, <2>4, OneCall DEF Handled, RowsInv, TypeOK
    <3>2. QED BY <1>2, <2>2, <2>3, <3>1 DEF FileInv, Accounted
  <2>5. CASE f # g
    <3>1. \A steps : UploadHas(f, steps)' <=> UploadHas(f, steps)
      BY <2>1, <2>5, OneCall
    <3>2. disk'[f] = disk[f]
      BY <1>4, <2>5 DEF RowsInv, TypeOK
    <3>3. QED BY <1>1, <1>2, <1>4, <2>2, <2>3, <2>5, <3>1, <3>2
             DEF FileInv, Accounted, Handled, Written, Held
  <2>6. QED BY <2>4, <2>5
<1>5. CASE /\ Failure
           /\ stray' = stray \cup {g}
           /\ Become(c, Idle)
           /\ UNCHANGED <<disk, contested>>
  <2>1. failures' > 0
    BY <1>5, FailureCounts DEF RowsInv
  <2>2. call'[c] = Idle /\ \A b \in Clients \ {c} : call'[b] = call[b]
    BY <1>5 DEF Become, RowsInv, TypeOK
  <2>3. \A steps : UploadHas(f, steps) => UploadHas(f, steps)' \/ f = g
    BY <2>2, OneCall
  <2>4. /\ UploadHas(f, {"upload-close", "upload-insert"})'
             => UploadHas(f, {"upload-close", "upload-insert"})
        /\ Lists(f)' <=> Lists(f)
    <3>1. call'[c].step = "idle"
      BY <2>2 DEF Idle
    <3>2. QED BY <1>1, <2>2, <3>1, OneCall
  <2>5. QED BY <1>1, <1>2, <1>5, <2>1, <2>3, <2>4 DEF FileInv, Accounted, Handled, Held
<1>6. QED BY <1>4, <1>5 DEF UploadClose

LEMMA UploadInsertFiles ==
  ASSUME RowsInv, NEW c \in Clients, UploadInsert(c), NEW f \in Files, FileInv(f)
  PROVE  FileInv(f)'
<1> DEFINE g == Image(call[c].sha)
           row == [owner |-> call[c].who, sha |-> call[c].sha, analysis |-> None, live |-> TRUE]
<1>1. /\ call[c].step = "upload-insert" /\ NowNamed(g, None) /\ Become(c, Idle)
      /\ UNCHANGED <<region, run, job, task, disk, failures>>
  BY DEF UploadInsert, Quiet
<1>2. PICK d \in Dumps : dump[d] = None /\ dump' = [dump EXCEPT ![d] = row]
  BY DEF UploadInsert
<1>3. row # None
  <2>1. call[c] \in UploadCall
    BY <1>1, CallShape DEF RowsInv
  <2>2. row \in DumpRow
    BY <2>1 DEF UploadCall, DumpRow
  <2>3. QED BY <2>2, NoneAssumption DEF NoneAssumption
<1>4. row.sha = call[c].sha /\ row.analysis = None /\ row.live
  OBVIOUS
<1> HIDE DEF row
<1>5. dump'[d] = row /\ \A e \in Dumps \ {d} : dump'[e] = dump[e]
  BY <1>2 DEF RowsInv, TypeOK
<1>6. d \notin region
  BY <1>2 DEF RowsInv, Known
<1>7. Named' = Named \cup {g}
  <2>1. \A e \in Dumps : DumpExists(e)' <=> DumpExists(e) \/ e = d
    BY <1>2, <1>3, <1>4, <1>5 DEF DumpExists
  <2>2. ~DumpExists(d)
    BY <1>2 DEF DumpExists
  <2>3. \A e \in region : dump'[e] = dump[e]
    BY <1>5, <1>6 DEF RowsInv, TypeOK
  <2>4. {Image(dump[e].sha) : e \in {x \in Dumps : DumpExists(x)}}'
          = {Image(dump[e].sha) : e \in {x \in Dumps : DumpExists(x)}} \cup {g}
    BY <1>4, <1>5, <2>1, <2>2
  <2>5. {dump[e].analysis : e \in {y \in {x \in Dumps : DumpExists(x)} : dump[y].analysis # None}}'
          = {dump[e].analysis : e \in {y \in {x \in Dumps : DumpExists(x)} : dump[y].analysis # None}}
    BY <1>4, <1>5, <2>1, <2>2
  <2>6. {Region(dump[e].sha) : e \in region}' = {Region(dump[e].sha) : e \in region}
    BY <1>1, <2>3
  <2>7. {run[j] : j \in {x \in {y \in Jobs : RunExists(y)} : run[x] # Pending}}'
          = {run[j] : j \in {x \in {y \in Jobs : RunExists(y)} : run[x] # Pending}}
    BY <1>1 DEF RunExists
  <2>8. QED BY <2>4, <2>5, <2>6, <2>7 DEF Named, NamedBy
<1>8. call'[c] = Idle /\ \A b \in Clients \ {c} : call'[b] = call[b]
  BY <1>1 DEF Become, RowsInv, TypeOK
<1>9. \A steps : TaskHas(f, steps)' <=> TaskHas(f, steps)
  BY <1>1, TasksAlone
<1>10. /\ UploadHas(f, {"upload-open", "upload-close", "upload-insert"})
            => UploadHas(f, {"upload-open", "upload-close", "upload-insert"})' \/ f = g
       /\ UploadHas(f, {"upload-close"}) => UploadHas(f, {"upload-close"})'
       /\ UploadHas(f, {"upload-close", "upload-insert"})'
            => UploadHas(f, {"upload-close", "upload-insert"})
       /\ Lists(f)' <=> Lists(f)
  BY <1>1, <1>8, OneCall DEF Idle
<1>11. f = g => Held(f)
  BY <1>1 DEF Held, UploadHas
<1>12. /\ f \in contested => f \in contested'
       /\ f = g /\ Lists(f) => f \in contested'
       /\ f \in superseded \cup stray => f \in superseded' \cup stray' \/ f = g
  BY <1>1, HandsAndLists, FileKinds DEF NowNamed
<1> HIDE DEF g
<1>13. QED
  BY <1>1, <1>7, <1>9, <1>10, <1>11, <1>12 DEF FileInv, Accounted, Handled, Written, Held

\* The rows of a purge's principal, and no others, stop naming files.
LEMMA PurgeUnnames ==
  ASSUME RowsInv, NEW c \in Clients, PurgeCommit(c)
  PROVE  LET still == UNION {Owned(q) : q \in Principals \ {call[c].who}} IN
         Named' = still /\ Named = still \cup Owned(call[c].who)
<1> DEFINE p == call[c].who
           others == Principals \ {p}
<1>1. call[c] \in PurgeCall /\ p \in Principals
  BY CallShape DEF PurgeCommit, PurgeCall, RowsInv
<1>2. /\ dump' = [d \in Dumps |->
                    IF d \in DumpsOf(p) THEN [dump[d] EXCEPT !.live = FALSE] ELSE dump[d]]
      /\ region' = region \ RegionsOf(p)
      /\ run' = [j \in Jobs |-> IF j \in RunsOf(p) THEN None ELSE run[j]]
  BY DEF PurgeCommit
<1>3. \A d \in Dumps : dump[d] # None => dump[d] \in DumpRow /\ dump[d].owner \in Principals
  BY DEF RowsInv, TypeOK, DumpRow
<1>4. \A j \in Jobs : run[j] # None => job[j].owner \in Principals
  BY DEF RowsInv, TypeOK, Known, RunKnown, JobRow
<1>5. \A d \in Dumps : DumpExists(d)' <=> DumpExists(d) /\ dump[d].owner # p
  <2>1. ASSUME NEW d \in Dumps, d \in DumpsOf(p) PROVE ~DumpExists(d)' /\ dump[d].owner = p
    <3>1. dump[d] \in DumpRow
      BY <1>3, <2>1 DEF DumpsOf, DumpExists
    <3>2. dump'[d] = [dump[d] EXCEPT !.live = FALSE]
      BY <1>2, <2>1
    <3>3. QED BY <2>1, <3>1, <3>2 DEF DumpExists, DumpRow, DumpsOf
  <2>2. ASSUME NEW d \in Dumps, d \notin DumpsOf(p) PROVE dump'[d] = dump[d]
    BY <1>2, <2>2
  <2>3. QED BY <2>1, <2>2 DEF DumpExists, DumpsOf
<1>6. \A d \in Dumps : DumpExists(d)' => dump'[d] = dump[d]
  BY <1>2, <1>5 DEF DumpsOf
<1>7. \A d \in Dumps : dump[d] # None => dump'[d].sha = dump[d].sha
  BY <1>2, <1>3 DEF DumpRow
<1>8. \A d : d \in region' <=> d \in region /\ dump[d].owner # p
  BY <1>2 DEF RegionsOf
<1>9. \A j \in Jobs : run'[j] = IF run[j] # None /\ job[j].owner = p THEN None ELSE run[j]
  BY <1>2 DEF RunsOf, RunExists
<1>10. ASSUME NEW f
       PROVE  /\ f \in Named' <=> \E q \in others : f \in Owned(q)
              /\ f \in Named <=> \E q \in Principals : f \in Owned(q)
  <2>1. ASSUME NEW q
        PROVE  f \in Owned(q) <=>
                 \/ \E d \in Dumps : /\ DumpExists(d) /\ dump[d].owner = q
                                     /\ f = Image(dump[d].sha)
                 \/ \E d \in Dumps : /\ DumpExists(d) /\ dump[d].owner = q
                                     /\ dump[d].analysis # None /\ f = dump[d].analysis
                 \/ \E d \in region : dump[d].owner = q /\ f = Region(dump[d].sha)
                 \/ \E j \in Jobs : /\ run[j] # None /\ job[j].owner = q
                                    /\ run[j] # Pending /\ f = run[j]
    BY DEF Owned, NamedBy, DumpsOf, RegionsOf, RunsOf, RunExists
  <2>2. region \subseteq Dumps /\ \A d \in region : dump[d] # None
    BY DEF RowsInv, TypeOK, Known
  <2>3. f \in Named <=> \E q \in Principals : f \in Owned(q)
    BY <1>3, <1>4, <2>1, <2>2, NamedPointwise DEF DumpExists
  <2>4. f \in Named' <=>
          \/ \E d \in Dumps : DumpExists(d)' /\ f = Image(dump'[d].sha)
          \/ \E d \in Dumps : DumpExists(d)' /\ dump'[d].analysis # None
                                /\ f = dump'[d].analysis
          \/ \E d \in region' : f = Region(dump'[d].sha)
          \/ \E j \in Jobs : run'[j] # None /\ run'[j] # Pending /\ f = run'[j]
    BY DEF Named, NamedBy, RunExists
  <2>5. (\E d \in Dumps : DumpExists(d)' /\ f = Image(dump'[d].sha)) <=>
          \E d \in Dumps : DumpExists(d) /\ dump[d].owner # p /\ f = Image(dump[d].sha)
    BY <1>5, <1>6
  <2>6. (\E d \in Dumps : DumpExists(d)' /\ dump'[d].analysis # None
                                /\ f = dump'[d].analysis) <=>
          \E d \in Dumps : DumpExists(d) /\ dump[d].owner # p
                             /\ dump[d].analysis # None /\ f = dump[d].analysis
    BY <1>5, <1>6
  <2>7. (\E d \in region' : f = Region(dump'[d].sha)) <=>
          \E d \in region : dump[d].owner # p /\ f = Region(dump[d].sha)
    BY <1>7, <1>8, <2>2
  <2>8. (\E j \in Jobs : run'[j] # None /\ run'[j] # Pending /\ f = run'[j]) <=>
          \E j \in Jobs : run[j] # None /\ job[j].owner # p /\ run[j] # Pending /\ f = run[j]
    BY <1>9
  <2>9. f \in Named' <=>
          \/ \E d \in Dumps : DumpExists(d) /\ dump[d].owner # p /\ f = Image(dump[d].sha)
          \/ \E d \in Dumps : DumpExists(d) /\ dump[d].owner # p
                                /\ dump[d].analysis # None /\ f = dump[d].analysis
          \/ \E d \in region : dump[d].owner # p /\ f = Region(dump[d].sha)
          \/ \E j \in Jobs : run[j] # None /\ job[j].owner # p /\ run[j] # Pending /\ f = run[j]
    BY <2>4, <2>5, <2>6, <2>7, <2>8
  <2>10. QED BY <1>3, <1>4, <2>1, <2>2, <2>3, <2>9 DEF DumpExists
<1> HIDE DEF p
<1>11. QED
  <2>1. UNION {Owned(q) : q \in others} = Named'
    BY <1>10
  <2>2. \A f : f \in Named <=> f \in Named' \/ f \in Owned(p)
    BY <1>1, <1>10
  <2>3. QED BY <2>1, <2>2 DEF p

LEMMA RemainingCall ==
  ASSUME RowsInv, NEW c \in Clients, NEW paths, Remaining(c, paths)
  PROVE  /\ \A b \in Clients \ {c} : call'[b] = call[b]
         /\ call'[c].step \in {"idle", "unlink"}
         /\ \A f : f \in paths => call'[c].step = "unlink" /\ f \in call'[c].paths
         /\ \A f : call'[c].step = "unlink" /\ f \in call'[c].paths => f \in paths
<1> DEFINE new == IF paths = {} THEN Idle
                  ELSE [step |-> "unlink", who |-> call[c].who, paths |-> paths]
<1>1. call' = [call EXCEPT ![c] = new]
  BY DEF Remaining, Become
<1>2. /\ new.step \in {"idle", "unlink"}
      /\ paths # {} => new.step = "unlink" /\ new.paths = paths
      /\ paths = {} => new.step = "idle"
  BY DEF Idle
<1> HIDE DEF new
<1>3. call'[c] = new /\ \A b \in Clients \ {c} : call'[b] = call[b]
  BY <1>1 DEF RowsInv, TypeOK
<1>4. QED BY <1>2, <1>3

LEMMA PurgeCommitFiles ==
  ASSUME RowsInv, NEW c \in Clients, PurgeCommit(c), NEW f \in Files, FileInv(f)
  PROVE  FileInv(f)'
<1> DEFINE p == call[c].who
           still == UNION {Owned(q) : q \in Principals \ {p}}
           mine == Owned(p)
<1>1. Named' = still /\ Named = still \cup mine
  BY PurgeUnnames
<1>2. /\ call[c].step = "delete"
      /\ Remaining(c, call[c].paths \ still)
      /\ stray' = stray \cup (mine \ (call[c].paths \cup still))
      /\ UNCHANGED <<task, superseded, contested, disk, failures>>
  BY DEF PurgeCommit, Quiet
<1> HIDE DEF still, mine, p
<1>3. /\ \A b \in Clients \ {c} : call'[b] = call[b]
      /\ call'[c].step \in {"idle", "unlink"}
      /\ f \in call[c].paths \ still => call'[c].step = "unlink" /\ f \in call'[c].paths
      /\ call'[c].step = "unlink" /\ f \in call'[c].paths => f \in call[c].paths \ still
  BY <1>2, RemainingCall
<1>4. /\ Lists(f)' => Lists(f) \/ f \notin Named'
      /\ Lists(f) => Lists(f)'
      /\ f \in call[c].paths \ still => Lists(f)'
  BY <1>1, <1>2, <1>3, OneCall
<1>5. \A steps : TaskHas(f, steps)' <=> TaskHas(f, steps)
  BY <1>2, TasksAlone
<1>6. /\ UploadHas(f, {"upload-open", "upload-close", "upload-insert"})'
           <=> UploadHas(f, {"upload-open", "upload-close", "upload-insert"})
      /\ UploadHas(f, {"upload-close", "upload-insert"})'
           <=> UploadHas(f, {"upload-close", "upload-insert"})
      /\ UploadHas(f, {"upload-close"})' <=> UploadHas(f, {"upload-close"})
  BY <1>2, <1>3, OneCall
<1>7. f \in Named => f \in Named' \/ Lists(f)' \/ f \in stray'
  BY <1>1, <1>2, <1>4
<1>8. f \in Named' => f \in Named
  BY <1>1
<1>9. QED BY <1>2, <1>4, <1>5, <1>6, <1>7, <1>8 DEF FileInv, Accounted, Handled, Written, Held

LEMMA PurgeUnlinkFiles ==
  ASSUME RowsInv, NEW c \in Clients, PurgeUnlink(c), NEW f \in Files, FileInv(f)
  PROVE  FileInv(f)'
<1>1. PICK g \in call[c].paths :
        /\ Remaining(c, call[c].paths \ {g})
        /\ \/ /\ disk' = [disk EXCEPT ![g] = "none"]
              /\ contested' = contested \cup ({g} \cap InHand)
              /\ UNCHANGED <<stray, failures>>
           \/ /\ Failure
              /\ stray' = stray \cup {g}
              /\ UNCHANGED <<disk, contested>>
  BY DEF PurgeUnlink
<1>2. /\ call[c].step = "unlink"
      /\ UNCHANGED <<dump, region, run, job, task, superseded>>
  BY DEF PurgeUnlink, Rows
<1>3. /\ \A b \in Clients \ {c} : call'[b] = call[b]
      /\ call'[c].step \in {"idle", "unlink"}
      /\ f \in call[c].paths \ {g} => call'[c].step = "unlink" /\ f \in call'[c].paths
      /\ call'[c].step = "unlink" /\ f \in call'[c].paths => f \in call[c].paths \ {g}
  BY <1>1, RemainingCall
<1>4. /\ Lists(f)' => Lists(f)
      /\ Lists(f) => Lists(f)' \/ f = g
      /\ f = g => Lists(f)
  <2>1. f \in call[c].paths => Lists(f)
    BY <1>2 DEF Lists
  <2>2. QED BY <1>1, <1>3, <2>1, OneCall
<1>5. Named' = Named /\ \A steps : TaskHas(f, steps)' <=> TaskHas(f, steps)
  BY <1>2, NamedSame, TasksAlone
<1>6. /\ UploadHas(f, {"upload-open", "upload-close", "upload-insert"})'
           <=> UploadHas(f, {"upload-open", "upload-close", "upload-insert"})
      /\ UploadHas(f, {"upload-close", "upload-insert"})'
           <=> UploadHas(f, {"upload-close", "upload-insert"})
      /\ UploadHas(f, {"upload-close"})' <=> UploadHas(f, {"upload-close"})
  BY <1>2, <1>3, OneCall
<1>7. (Written(f)' <=> Written(f)) /\ (Held(f)' <=> Held(f)) /\ (Handled(f)' <=> Handled(f))
  BY <1>5, <1>6 DEF Written, Held, Handled
<1>8. Held(f) => Handled(f)
  BY DEF Held, Handled, TaskHas, UploadHas
<1>9. CASE /\ disk' = [disk EXCEPT ![g] = "none"]
           /\ contested' = contested \cup ({g} \cap InHand)
           /\ UNCHANGED <<stray, failures>>
  <2>1. CASE f = g
    <3>1. disk'[f] = "none"
      BY <1>9, <2>1 DEF RowsInv, TypeOK
    <3>2. f \in contested => f \in contested'
      BY <1>9
    <3>3. Handled(f) => f \in contested'
      BY <1>9, <2>1, HandsAndLists
    <3>4. f \in Named => f \in contested'
      BY <1>4, <2>1, <3>2 DEF FileInv
    <3>5. QED BY <1>5, <1>7, <1>8, <3>1, <3>3, <3>4 DEF FileInv
  <2>2. CASE f # g
    <3>1. disk'[f] = disk[f] /\ (f \in contested' <=> f \in contested)
      BY <1>9, <2>2 DEF RowsInv, TypeOK
    <3>2. QED BY <1>2, <1>4, <1>5, <1>7, <1>9, <2>2, <3>1 DEF FileInv, Accounted
  <2>3. QED BY <2>1, <2>2
<1>10. CASE /\ Failure
            /\ stray' = stray \cup {g}
            /\ UNCHANGED <<disk, contested>>
  <2>1. failures' > 0
    BY <1>10, FailureCounts DEF RowsInv
  <2>2. QED BY <1>2, <1>4, <1>5, <1>7, <1>10, <2>1 DEF FileInv, Accounted
<1>11. QED BY <1>1, <1>9, <1>10

LEMMA CrashFiles ==
  ASSUME RowsInv, Crash, NEW f \in Files, FileInv(f)
  PROVE  FileInv(f)'
<1>1. /\ \A j \in Jobs : task'[j] = Idle
      /\ \A c \in Clients : call'[c] = Idle
      /\ stray' = stray \cup InHand \cup Unlinking
      /\ UNCHANGED <<dump, region, run, disk, superseded, contested>>
      /\ failures' > 0
  BY FailureCounts DEF Crash, Rows, RowsInv
<1>2. Named' = Named
  BY <1>1, NamedSame
<1>3. Handled(f) \/ Lists(f) => f \in stray'
  BY <1>1, HandsAndLists
<1>4. ~Held(f)' /\ ~Lists(f)'
  BY <1>1 DEF Held, Lists, TaskHas, UploadHas, Idle
<1>5. Accounted(f) => Accounted(f)'
  BY <1>1, <1>2, <1>3 DEF Accounted
<1>6. QED BY <1>1, <1>2, <1>4, <1>5 DEF FileInv

-----------------------------------------------------------------------------
(* Every step *)

LEMMA JobGivesUp ==
  ASSUME RowsInv, NEW j \in Jobs, NEW left, Fails(j, left), task[j].step # "close",
         task[j].step \in {"write", "open", "commit"} => task[j].file \in Named \cup left
  PROVE  QuietTask(j)
<1>1. /\ task'[j] = Idle /\ \A i \in Jobs \ {j} : task'[i] = task[i]
      /\ stray' = stray \cup left
      /\ UNCHANGED <<dump, region, run, call, superseded, contested, disk, failures>>
  BY DEF Fails, JobFails, Quiet, RowsInv, TypeOK
<1>2. Named' = Named
  BY <1>1, NamedSame
<1>3. task'[j].step = "idle"
  BY <1>1 DEF Idle
<1>4. QED BY <1>1, <1>2, <1>3 DEF QuietTask

LEMMA QuietTasks ==
  ASSUME RowsInv, NEW j \in Jobs,
         \/ Start(j) \/ CreateRun(j) \/ GivesUp(j) \/ ReadImage(j) \/ SelectRow(j)
         \/ CheckFile(j) \/ FinishJob(j)
  PROVE  QuietTask(j)
<1>1. CASE Start(j)
  <2>1. ASSUME NEW p, NEW kind, NEW d, NEW step \in {"record", "read"},
               Submit(j, p, kind, d, step)
        PROVE  /\ job[j] = None
               /\ \E st \in {"record", "read"} :
                    task' = [task EXCEPT ![j] = [step |-> st, file |-> None, clean |-> TRUE]]
               /\ UNCHANGED <<dump, region, run, call, disk, stray, superseded, contested,
                              failures>>
    BY <2>1 DEF Submit, History, Quiet
  <2>2. /\ job[j] = None
        /\ \E st \in {"record", "read"} :
              task' = [task EXCEPT ![j] = [step |-> st, file |-> None, clean |-> TRUE]]
        /\ UNCHANGED <<dump, region, run, call, disk, stray, superseded, contested, failures>>
    BY <1>1, <2>1 DEF Start, StartAnalysis, InspectRegion, StartDynamic
  <2>3. task[j].step = "idle"
    BY <2>2, TaskShape DEF RowsInv, TaskKnown
  <2>4. task'[j].step \in {"record", "read"} /\ \A i \in Jobs \ {j} : task'[i] = task[i]
    BY <2>2 DEF RowsInv, TypeOK
  <2>5. QED BY <2>2, <2>3, <2>4, NamedSame DEF QuietTask
<1>2. CASE CreateRun(j)
  <2>1. /\ task[j].step = "record"
        /\ UNCHANGED <<dump, region, call, disk, stray, superseded, contested, failures>>
        /\ run' = run \/ run' = [run EXCEPT ![j] = Pending]
        /\ \/ task' = [task EXCEPT ![j].step = "lookup"]
           \/ task' = [task EXCEPT ![j] = Idle]
    BY <1>2 DEF CreateRun, History, Quiet
  <2>2. task'[j].step \in {"lookup", "idle"} /\ \A i \in Jobs \ {j} : task'[i] = task[i]
    <3>1. task[j] \in Task
      BY <2>1, TaskShape DEF RowsInv
    <3>2. QED BY <2>1, <3>1 DEF RowsInv, TypeOK, Task, Idle
  <2>3. Named' = Named
    <3>1. CASE run' = run
      BY <2>1, <3>1, NamedSame
    <3>2. CASE run' = [run EXCEPT ![j] = Pending]
      <4>1. run[j] = None
        BY <2>1, TaskShape DEF RowsInv, TaskKnown
      <4>2. QED BY <2>1, <3>2, <4>1, PendingNamesNothing DEF RowsInv, TypeOK
    <3>3. QED BY <2>1, <3>1, <3>2
  <2>4. QED BY <2>1, <2>2, <2>3 DEF QuietTask
<1>3. CASE GivesUp(j)
  BY <1>3, JobGivesUp DEF GivesUp
<1>4. CASE ReadImage(j)
  <2>1. task[j].step = "read" /\ task[j] \in Task
    BY <1>4, TaskShape DEF ReadImage, RowsInv
  <2>2. /\ UNCHANGED <<dump, region, run, call, disk, stray, superseded, contested, failures>>
        /\ \E clean : task' = [task EXCEPT ![j].step = "lookup", ![j].clean = clean]
    BY <1>4 DEF ReadImage, Rows, History, Quiet
  <2>3. task'[j].step = "lookup" /\ \A i \in Jobs \ {j} : task'[i] = task[i]
    BY <2>1, <2>2 DEF RowsInv, TypeOK, Task
  <2>4. QED BY <2>1, <2>2, <2>3, NamedSame DEF QuietTask
<1>5. CASE SelectRow(j)
  <2>1. /\ task'[j].step \in {"write", "finish"}
        /\ \A i \in Jobs \ {j} : task'[i] = task[i]
    BY <1>5, SelectRowRows
  <2>2. /\ task[j].step = "lookup"
        /\ UNCHANGED <<dump, region, run, call, disk, stray, superseded, contested, failures>>
    BY <1>5 DEF SelectRow, GoesOn, Rows, History, Quiet
  <2>3. QED BY <2>1, <2>2, NamedSame DEF QuietTask
<1>6. CASE CheckFile(j)
  <2>1. /\ task'[j].step = IF disk[task[j].file] = "none" THEN "open" ELSE "commit"
        /\ task'[j].file = task[j].file
        /\ \A i \in Jobs \ {j} : task'[i] = task[i]
    BY <1>6, CheckFileRows
  <2>2. /\ task[j].step = "write"
        /\ UNCHANGED <<dump, region, run, call, disk, stray, superseded, contested, failures>>
    BY <1>6 DEF CheckFile, GoesOn, Rows, History, Quiet
  <2>3. QED BY <2>1, <2>2, NamedSame DEF QuietTask
<1>7. CASE FinishJob(j)
  <2>1. /\ task[j].step = "finish" /\ task'[j] = Idle
        /\ \A i \in Jobs \ {j} : task'[i] = task[i]
        /\ UNCHANGED <<dump, region, run, call, disk, stray, superseded, contested, failures>>
    BY <1>7 DEF FinishJob, History, Quiet, RowsInv, TypeOK
  <2>2. task'[j].step = "idle"
    BY <2>1 DEF Idle
  <2>3. QED BY <2>1, <2>2, NamedSame DEF QuietTask
<1>8. QED BY <1>1, <1>2, <1>3, <1>4, <1>5, <1>6, <1>7

LEMMA CommitFiles ==
  ASSUME RowsInv, NEW j \in Jobs, CommitAnalysis(j) \/ CommitRegion(j) \/ CommitResult(j),
         NEW f \in Files, FileInv(f)
  PROVE  FileInv(f)'
<1> DEFINE d == job[j].dump
           g == task[j].file
<1>1. task[j].step = "commit"
  BY DEF CommitAnalysis, CommitRegion, CommitResult
<1>2. Fails(j, {g}) => FileInv(f)'
  BY <1>1, JobGivesUp, QuietTaskFiles
<1>3. CASE CommitAnalysis(j)
  <2>1. CASE DumpExists(d)
    BY <1>3, <2>1, CommitAnalysisNames, TaskNamesFiles
  <2>2. CASE ~DumpExists(d)
    BY <1>2, <1>3, <2>2 DEF CommitAnalysis
  <2>3. QED BY <2>1, <2>2
<1>4. CASE CommitRegion(j)
  <2>1. CASE task'[j] # Idle
    BY <1>4, <2>1, CommitRegionNames, TaskNamesFiles
  <2>2. CASE task'[j] = Idle
    <3>1. Fails(j, {g}) \/ (d \in region /\ Fails(j, {}))
      <4>1. task' # [task EXCEPT ![j].step = "finish"]
        <5>1. task[j] \in Task
          BY <1>1, TaskShape DEF RowsInv
        <5>2. QED BY <2>2, <5>1 DEF RowsInv, TypeOK, Task, Idle
      <4>2. QED BY <1>4, <4>1 DEF CommitRegion
    <3>2. d \in region => g \in Named
      <4>1. g = Region(dump[d].sha)
        BY <1>1, <1>4, LeavesFile DEF CommitRegion, Leaves, Inspects
      <4>2. QED BY <4>1 DEF Named, NamedBy
    <3>3. QED BY <1>1, <1>2, <3>1, <3>2, JobGivesUp, QuietTaskFiles
  <2>3. QED BY <2>1, <2>2
<1>5. CASE CommitResult(j)
  <2>1. CASE RunExists(j)
    BY <1>5, <2>1, CommitResultNames, TaskNamesFiles
  <2>2. CASE ~RunExists(j)
    BY <1>2, <1>5, <2>2 DEF CommitResult
  <2>3. QED BY <2>1, <2>2
<1>6. QED BY <1>3, <1>4, <1>5

LEMMA StepKeepsFile ==
  ASSUME RowsInv, [Next]_vars, NEW f \in Files, FileInv(f)
  PROVE  FileInv(f)'
<1>1. ASSUME NEW c \in Clients, Upload(c) \/ Purge(c) PROVE FileInv(f)'
  <2>1. CASE \/ \E p \in Principals, s \in Contents : UploadLookup(c, p, s)
             \/ \E p \in Principals : PurgeCheck(c, p)
             \/ PurgeSelect(c)
    BY <2>1, QuietCalls, QuietCallFiles
  <2>2. CASE UploadOpen(c)
    BY <2>2, UploadOpenFiles
  <2>3. CASE UploadClose(c)
    BY <2>3, UploadCloseFiles
  <2>4. CASE UploadInsert(c)
    BY <2>4, UploadInsertFiles
  <2>5. CASE PurgeCommit(c)
    BY <2>5, PurgeCommitFiles
  <2>6. CASE PurgeUnlink(c)
    BY <2>6, PurgeUnlinkFiles
  <2>7. QED BY <1>1, <2>1, <2>2, <2>3, <2>4, <2>5, <2>6 DEF Upload, Purge
<1>2. ASSUME NEW j \in Jobs, Start(j) \/ Work(j) PROVE FileInv(f)'
  <2>1. CASE \/ Start(j) \/ CreateRun(j) \/ GivesUp(j) \/ ReadImage(j) \/ SelectRow(j)
             \/ CheckFile(j) \/ FinishJob(j)
    BY <2>1, QuietTasks, QuietTaskFiles
  <2>2. CASE OpenFile(j)
    BY <2>2, OpenFileFiles
  <2>3. CASE CloseFile(j)
    BY <2>3, CloseFileFiles
  <2>4. CASE CommitAnalysis(j) \/ CommitRegion(j) \/ CommitResult(j)
    BY <2>4, CommitFiles
  <2>5. QED BY <1>2, <2>1, <2>2, <2>3, <2>4 DEF Work
<1>3. CASE UNCHANGED vars
  <2>1. Named' = Named
    BY <1>3, NamedSame DEF vars
  <2>2. /\ \A steps : TaskHas(f, steps)' <=> TaskHas(f, steps)
        /\ \A steps : UploadHas(f, steps)' <=> UploadHas(f, steps)
        /\ Lists(f)' <=> Lists(f)
    BY <1>3, TasksAlone, CallsAlone DEF vars
  <2>3. QED BY <1>3, <2>1, <2>2 DEF vars, FileInv, Accounted, Handled, Written, Held
<1>4. QED BY <1>1, <1>2, <1>3, CrashFiles DEF Next

FilesInv == \A f \in Files : FileInv(f)

LEMMA FilesAlways == Spec => [](RowsInv /\ FilesInv)
<1>1. Init => FilesInv
  <2> SUFFICES ASSUME Init, NEW f \in Files PROVE FileInv(f)
    BY DEF FilesInv
  <2>1. disk[f] = "none"
    BY DEF Init
  <2>2. ~Lists(f) /\ ~Held(f)
    BY DEF Init, Lists, Held, TaskHas, UploadHas, Idle
  <2>3. f \notin Named
    BY DEF Init, Named, NamedBy, DumpExists, RunExists
  <2>4. QED BY <2>1, <2>2, <2>3 DEF FileInv
<1>2. RowsInv /\ FilesInv /\ [Next]_vars => RowsInv' /\ FilesInv'
  <2> SUFFICES ASSUME RowsInv, FilesInv, [Next]_vars PROVE RowsInv' /\ FilesInv'
    OBVIOUS
  <2>1. RowsInv'
    BY StepKeepsRows
  <2>2. \A f \in Files : FileInv(f)'
    BY StepKeepsFile DEF FilesInv
  <2>3. Files' = Files
    BY DEF Files, Analyses
  <2>4. QED BY <2>1, <2>2, <2>3 DEF FilesInv
<1>3. QED BY <1>1, <1>2, RowsInitially, PTL DEF Spec

\* No file is forgotten: each one is named by a row, about to be named or unlinked, or
\* is one the code stops tracking at a known step.
THEOREM EvidenceAccounted == Spec => []NoForgottenFiles
<1>1. FilesInv => NoForgottenFiles
  BY HandsAndLists DEF FilesInv, FileInv, Accounted, NoForgottenFiles
<1>2. QED BY <1>1, FilesAlways, PTL

-----------------------------------------------------------------------------
(* What finished jobs leave *)

\* What job j promises its owner.
Left(j) ==
    /\ Analyzes(j) /\ DumpExists(job[j].dump) => dump[job[j].dump].analysis # None
    /\ Inspects(j) /\ DumpExists(job[j].dump) => job[j].dump \in region
    /\ Executes(j) => run[j] \notin {None, Pending}

Ended(j) == job[j].state = "finished" \/ task[j].step = "finish"

EndedLeft == \A j \in Jobs : JobExists(j) /\ Ended(j) => Left(j)

\* A step takes nothing from dumps and jobs that stay, and ends no job whose evidence
\* is not there.
EvidenceStays ==
    /\ \A d \in Dumps : dump[d] # None /\ DumpExists(d)' =>
          /\ DumpExists(d)
          /\ dump[d].analysis # None => dump'[d].analysis # None
          /\ d \in region => d \in region'
    /\ \A i \in Jobs : JobExists(i)' /\ run[i] \notin {None, Pending} =>
                          run'[i] \notin {None, Pending}
Ends == \A i \in Jobs : JobExists(i)' /\ Ended(i)' => (JobExists(i) /\ Ended(i)) \/ Left(i)'

LEMMA EndedStays ==
  ASSUME RowsInv, RowsStay, EvidenceStays, Ends, EndedLeft
  PROVE  EndedLeft'
<1> SUFFICES ASSUME NEW i \in Jobs, JobExists(i)', JobExists(i), Left(i) PROVE Left(i)'
  BY DEF EndedLeft, Ends
<1>1. job[i] # None /\ job'[i].kind = job[i].kind /\ job'[i].dump = job[i].dump
  BY DEF JobExists, RowsStay
<1>2. PICK d : d = job[i].dump
  OBVIOUS
<1>3. ~Executes(i) => d \in Dumps /\ dump[d] # None
  BY <1>1, <1>2 DEF RowsInv, Known, JobKnown
<1>4. Analyzes(i) \/ Inspects(i) => ~Executes(i)
  BY DEF Analyzes, Inspects, Executes
<1>5. Analyzes(i) /\ DumpExists(d)' => dump'[d].analysis # None
  BY <1>2, <1>3, <1>4 DEF Left, EvidenceStays
<1>6. Inspects(i) /\ DumpExists(d)' => d \in region'
  BY <1>2, <1>3, <1>4 DEF Left, EvidenceStays
<1>7. Executes(i) => run'[i] \notin {None, Pending}
  BY DEF Left, EvidenceStays
<1>8. QED
  BY <1>1, <1>2, <1>5, <1>6, <1>7 DEF Left, DumpExists, Analyzes, Inspects, Executes

\* Rows of evidence stay and no job ends.
LEMMA NothingEnds ==
  ASSUME RowsInv, UNCHANGED <<dump, region, run>>,
         \A i \in Jobs : JobExists(i)' /\ Ended(i)' => JobExists(i) /\ Ended(i)
  PROVE  EvidenceStays /\ Ends
  BY DEF EvidenceStays, Ends, DumpExists

LEMMA JobsAlone ==
  ASSUME UNCHANGED job, \A i \in Jobs : task'[i].step = "finish" => task[i].step = "finish"
  PROVE  \A i \in Jobs : JobExists(i)' /\ Ended(i)' => JobExists(i) /\ Ended(i)
  BY DEF JobExists, Ended

LEMMA UploadInsertEnds ==
  ASSUME RowsInv, NEW c \in Clients, UploadInsert(c)
  PROVE  EvidenceStays /\ Ends
<1>1. PICK d \in Dumps : dump[d] = None /\ \A e \in Dumps \ {d} : dump'[e] = dump[e]
  BY DEF UploadInsert, RowsInv, TypeOK
<1>2. UNCHANGED <<region, run, job, task>>
  BY DEF UploadInsert
<1>3. EvidenceStays
  BY <1>1, <1>2 DEF EvidenceStays, DumpExists
<1>4. Ends
  BY <1>2, JobsAlone DEF Ends
<1>5. QED BY <1>3, <1>4

LEMMA PurgeCommitEnds ==
  ASSUME RowsInv, NEW c \in Clients, PurgeCommit(c)
  PROVE  EvidenceStays /\ Ends
<1> DEFINE p == call[c].who
<1>1. /\ dump' = [d \in Dumps |->
                    IF d \in DumpsOf(p) THEN [dump[d] EXCEPT !.live = FALSE] ELSE dump[d]]
      /\ region' = region \ RegionsOf(p)
      /\ run' = [j \in Jobs |-> IF j \in RunsOf(p) THEN None ELSE run[j]]
      /\ job' = [j \in Jobs |->
                   IF j \in JobsOf(p) THEN [job[j] EXCEPT !.state = "deleted"] ELSE job[j]]
      /\ UNCHANGED task
  BY DEF PurgeCommit
<1>2. ASSUME NEW d \in Dumps, DumpExists(d)'
      PROVE  dump'[d] = dump[d] /\ DumpExists(d) /\ dump[d].owner # p
  <2>1. d \notin DumpsOf(p)
    <3> SUFFICES ASSUME d \in DumpsOf(p) PROVE FALSE
      OBVIOUS
    <3>1. dump[d] \in DumpRow
      BY DEF DumpsOf, DumpExists, RowsInv, TypeOK
    <3>2. dump'[d] = [dump[d] EXCEPT !.live = FALSE]
      BY <1>1
    <3>3. QED BY <1>2, <3>1, <3>2 DEF DumpExists, DumpRow
  <2>2. QED BY <1>1, <1>2, <2>1 DEF DumpsOf, DumpExists
<1>3. ASSUME NEW i \in Jobs, JobExists(i)'
      PROVE  job'[i] = job[i] /\ JobExists(i) /\ job[i].owner # p
  <2>1. i \notin JobsOf(p)
    <3> SUFFICES ASSUME i \in JobsOf(p) PROVE FALSE
      OBVIOUS
    <3>1. job[i] \in JobRow
      BY DEF JobsOf, JobExists, RowsInv, TypeOK
    <3>2. job'[i] = [job[i] EXCEPT !.state = "deleted"]
      BY <1>1
    <3>3. QED BY <1>3, <3>1, <3>2 DEF JobExists, JobRow
  <2>2. QED BY <1>1, <1>3, <2>1 DEF JobsOf, JobExists
<1>4. EvidenceStays
  BY <1>1, <1>2, <1>3 DEF EvidenceStays, RegionsOf, RunsOf
<1>5. Ends
  BY <1>1, <1>3 DEF Ends, Ended
<1>6. QED BY <1>4, <1>5

LEMMA JobFailsEnds ==
  ASSUME RowsInv, NEW j \in Jobs, JobFails(j), UNCHANGED <<dump, region, run>>
  PROVE  EvidenceStays /\ Ends
<1>1. /\ task'[j] = Idle /\ \A i \in Jobs \ {j} : task'[i] = task[i]
      /\ job' = IF JobExists(j) THEN [job EXCEPT ![j].state = "failed"] ELSE job
  BY DEF JobFails, RowsInv, TypeOK
<1>2. /\ \A i \in Jobs : job'[i] # None => job[i] # None
      /\ \A i \in Jobs \ {j} : job'[i] = job[i]
      /\ JobExists(j) => job'[j].state = "failed"
      /\ ~JobExists(j) => job'[j] = job[j]
  BY <1>1, JobEnds
<1>3. \A i \in Jobs : JobExists(i)' /\ Ended(i)' => JobExists(i) /\ Ended(i)
  BY <1>1, <1>2 DEF JobExists, Ended, Idle
<1>4. QED BY <1>3, NothingEnds

LEMMA CommitEnds ==
  ASSUME RowsInv, NEW j \in Jobs, CommitAnalysis(j) \/ CommitRegion(j) \/ CommitResult(j)
  PROVE  EvidenceStays /\ Ends
<1> DEFINE d == job[j].dump
<1>1. \A left : Fails(j, left) => EvidenceStays /\ Ends
  BY JobFailsEnds DEF Fails
<1>2. CASE CommitAnalysis(j)
  <2>1. CASE DumpExists(d)
    <3>1. /\ \A i \in Jobs \ {j} : task'[i] = task[i]
          /\ UNCHANGED <<job, region, run>>
          /\ dump'[d].analysis = task[j].file
          /\ \A e \in Dumps : /\ DumpExists(e)' <=> DumpExists(e)
                              /\ e # d => dump'[e] = dump[e]
      BY <1>2, <2>1, CommitAnalysisNames
    <3>2. task[j].file # None /\ Analyzes(j)
      BY <1>2, LeavesFile, FileKinds DEF CommitAnalysis, Analyzes
    <3>3. EvidenceStays
      BY <3>1, <3>2 DEF EvidenceStays
    <3>4. Left(j)'
      BY <3>1, <3>2 DEF Left, Analyzes, Inspects, Executes
    <3>5. Ends
      BY <3>1, <3>4 DEF Ends, Ended, JobExists
    <3>6. QED BY <3>3, <3>5
  <2>2. CASE ~DumpExists(d)
    BY <1>1, <1>2, <2>2 DEF CommitAnalysis
  <2>3. QED BY <2>1, <2>2
<1>3. CASE CommitRegion(j)
  <2>1. CASE task'[j] # Idle
    <3>1. /\ Inspects(j)
          /\ \A i \in Jobs \ {j} : task'[i] = task[i]
          /\ UNCHANGED <<job, dump, run>>
          /\ region' = region \cup {d}
      BY <1>3, <2>1, CommitRegionNames
    <3>2. EvidenceStays
      BY <3>1 DEF EvidenceStays, DumpExists
    <3>3. Left(j)'
      BY <3>1 DEF Left, Analyzes, Inspects, Executes
    <3>4. Ends
      BY <3>1, <3>3 DEF Ends, Ended, JobExists
    <3>5. QED BY <3>2, <3>4
  <2>2. CASE task'[j] = Idle
    <3>1. task[j] \in Task
      BY <1>3, TaskShape DEF CommitRegion, RowsInv
    <3>2. task' # [task EXCEPT ![j].step = "finish"]
      BY <2>2, <3>1 DEF RowsInv, TypeOK, Task, Idle
    <3>3. QED BY <1>1, <1>3, <3>2 DEF CommitRegion
  <2>3. QED BY <2>1, <2>2
<1>4. CASE CommitResult(j)
  <2>1. CASE RunExists(j)
    <3>1. /\ Executes(j)
          /\ \A i \in Jobs \ {j} : task'[i] = task[i]
          /\ UNCHANGED <<job, dump, region>>
          /\ run' = [run EXCEPT ![j] = task[j].file] /\ task[j].file \in ResultFiles
      BY <1>4, <2>1, CommitResultNames
    <3>2. run'[j] \notin {None, Pending} /\ \A i \in Jobs \ {j} : run'[i] = run[i]
      BY <3>1, FileKinds DEF RowsInv, TypeOK
    <3>3. EvidenceStays
      BY <3>1, <3>2 DEF EvidenceStays, DumpExists
    <3>4. Left(j)'
      BY <3>1, <3>2 DEF Left, Analyzes, Inspects, Executes
    <3>5. Ends
      BY <3>1, <3>4 DEF Ends, Ended, JobExists
    <3>6. QED BY <3>3, <3>5
  <2>2. CASE ~RunExists(j)
    BY <1>1, <1>4, <2>2 DEF CommitResult
  <2>3. QED BY <2>1, <2>2
<1>5. QED BY <1>2, <1>3, <1>4

LEMMA StepEnds ==
  ASSUME RowsInv, [Next]_vars
  PROVE  EvidenceStays /\ Ends
<1>1. CASE UNCHANGED <<Rows, task>>
  BY <1>1, NothingEnds, JobsAlone DEF Rows
<1>2. ASSUME NEW c \in Clients, Upload(c) \/ Purge(c) PROVE EvidenceStays /\ Ends
  <2>1. UploadInsert(c) \/ PurgeCommit(c) \/ UNCHANGED <<Rows, task>>
    BY <1>2 DEF Upload, Purge, UploadLookup, UploadOpen, UploadClose, PurgeCheck, PurgeSelect,
                PurgeUnlink
  <2>2. QED BY <1>1, <2>1, UploadInsertEnds, PurgeCommitEnds
<1>3. ASSUME NEW j \in Jobs, Start(j) PROVE EvidenceStays /\ Ends
  <2>1. ASSUME NEW p, NEW kind, NEW d, NEW step \in {"record", "read"},
               Submit(j, p, kind, d, step)
        PROVE  EvidenceStays /\ Ends
    <3>1. /\ UNCHANGED <<dump, region, run>>
          /\ job' = [job EXCEPT ![j] = [owner |-> p, kind |-> kind, dump |-> d,
                                        state |-> "active"]]
          /\ task' = [task EXCEPT ![j] = [step |-> step, file |-> None, clean |-> TRUE]]
      BY <2>1 DEF Submit
    <3>2. /\ job'[j].state = "active" /\ task'[j].step # "finish"
          /\ \A i \in Jobs \ {j} : job'[i] = job[i] /\ task'[i] = task[i]
      BY <3>1 DEF RowsInv, TypeOK
    <3>3. QED BY <3>1, <3>2, NothingEnds DEF JobExists, Ended
  <2>2. QED BY <1>3, <2>1 DEF Start, StartAnalysis, InspectRegion, StartDynamic
<1>4. ASSUME NEW j \in Jobs, CreateRun(j) PROVE EvidenceStays /\ Ends
  <2>1. /\ task[j].step = "record"
        /\ UNCHANGED <<dump, region, job>>
        /\ run' = run \/ run' = [run EXCEPT ![j] = Pending]
        /\ \/ task' = [task EXCEPT ![j].step = "lookup"]
           \/ task' = [task EXCEPT ![j] = Idle]
    BY <1>4 DEF CreateRun
  <2>2. task[j] \in Task /\ run[j] = None
    BY <2>1, TaskShape DEF RowsInv, TaskKnown
  <2>3. task'[j].step # "finish" /\ \A i \in Jobs \ {j} : task'[i] = task[i]
    BY <2>1, <2>2 DEF RowsInv, TypeOK, Task, Idle
  <2>4. EvidenceStays
    BY <2>1, <2>2 DEF EvidenceStays, DumpExists, RowsInv, TypeOK
  <2>5. Ends
    BY <2>1, <2>3, JobsAlone DEF Ends
  <2>6. QED BY <2>4, <2>5
<1>5. ASSUME NEW j \in Jobs, GivesUp(j) PROVE EvidenceStays /\ Ends
  BY <1>5, JobFailsEnds DEF GivesUp, Fails
<1>6. ASSUME NEW j \in Jobs, UNCHANGED <<dump, region, run, job>>,
             \A i \in Jobs \ {j} : task'[i] = task[i], task'[j].step # "finish"
      PROVE  EvidenceStays /\ Ends
  BY <1>6, NothingEnds, JobsAlone
<1>7. ASSUME NEW j \in Jobs, ReadImage(j) PROVE EvidenceStays /\ Ends
  <2>1. task[j] \in Task
    BY <1>7, TaskShape DEF ReadImage, RowsInv
  <2>2. task'[j].step = "lookup" /\ \A i \in Jobs \ {j} : task'[i] = task[i]
    BY <1>7, <2>1 DEF ReadImage, RowsInv, TypeOK, Task
  <2>3. QED BY <1>6, <1>7, <2>2 DEF ReadImage, Rows
<1>8. ASSUME NEW j \in Jobs, SelectRow(j) PROVE EvidenceStays /\ Ends
  <2>1. /\ task'[j].step \in {"write", "finish"}
        /\ task'[j].step = "finish" => Inspects(j) /\ job[j].dump \in region
        /\ \A i \in Jobs \ {j} : task'[i] = task[i]
    BY <1>8, SelectRowRows
  <2>2. UNCHANGED <<dump, region, run, job>>
    BY <1>8 DEF SelectRow, GoesOn, Rows
  <2>3. CASE task'[j].step # "finish"
    BY <1>6, <2>1, <2>2, <2>3
  <2>4. CASE task'[j].step = "finish"
    <3>1. Left(j)'
      BY <2>1, <2>2, <2>4 DEF Left, Analyzes, Inspects, Executes
    <3>2. Ends
      BY <2>1, <2>2, <3>1 DEF Ends, Ended, JobExists
    <3>3. QED BY <2>2, <3>2 DEF EvidenceStays, DumpExists
  <2>5. QED BY <2>3, <2>4
<1>9. ASSUME NEW j \in Jobs, CheckFile(j) \/ OpenFile(j) PROVE EvidenceStays /\ Ends
  <2>1. task'[j].step # "finish" /\ \A i \in Jobs \ {j} : task'[i] = task[i]
    BY <1>9, CheckFileRows, OpenFileRows
  <2>2. QED BY <1>6, <1>9, <2>1 DEF CheckFile, OpenFile, GoesOn, Rows
<1>10. ASSUME NEW j \in Jobs, CloseFile(j) PROVE EvidenceStays /\ Ends
  <2>1. UNCHANGED <<dump, region, run>>
    BY <1>10 DEF CloseFile
  <2>2. CASE JobFails(j)
    BY <2>1, <2>2, JobFailsEnds
  <2>3. CASE task' = [task EXCEPT ![j].step = "commit"] /\ UNCHANGED job
    <3>1. task[j] \in Task
      BY <1>10, TaskShape DEF CloseFile, RowsInv
    <3>2. task'[j].step = "commit" /\ \A i \in Jobs \ {j} : task'[i] = task[i]
      BY <2>3, <3>1 DEF RowsInv, TypeOK, Task
    <3>3. QED BY <1>6, <2>1, <2>3, <3>2
  <2>4. QED BY <1>10, <2>2, <2>3 DEF CloseFile
<1>11. ASSUME NEW j \in Jobs, FinishJob(j) PROVE EvidenceStays /\ Ends
  <2>1. /\ task[j].step = "finish" /\ UNCHANGED <<dump, region, run>>
        /\ task'[j] = Idle /\ \A i \in Jobs \ {j} : task'[i] = task[i]
        /\ job' = IF JobExists(j) THEN [job EXCEPT ![j].state = "finished"] ELSE job
    BY <1>11 DEF FinishJob, RowsInv, TypeOK
  <2>2. /\ \A i \in Jobs : job'[i] # None => job[i] # None
        /\ \A i \in Jobs \ {j} : job'[i] = job[i]
        /\ ~JobExists(j) => job'[j] = job[j]
    BY <2>1, JobEnds
  <2>3. \A i \in Jobs : JobExists(i)' /\ Ended(i)' => JobExists(i) /\ Ended(i)
    BY <2>1, <2>2 DEF JobExists, Ended, Idle
  <2>4. QED BY <2>1, <2>3, NothingEnds
<1>12. CASE Crash
  <2>1. UNCHANGED <<dump, region, run, job>> /\ \A i \in Jobs : task'[i].step # "finish"
    BY <1>12 DEF Crash, Rows, Idle
  <2>2. QED BY <2>1, NothingEnds, JobsAlone
<1>13. CASE UNCHANGED vars
  BY <1>1, <1>13 DEF vars, Rows
<1>14. QED
  BY <1>2, <1>3, <1>4, <1>5, <1>7, <1>8, <1>9, <1>10, <1>11, <1>12, <1>13, CommitEnds
     DEF Next, Work

LEMMA EndedAlways == Spec => [](RowsInv /\ EndedLeft)
<1>1. Init => EndedLeft
  BY DEF Init, EndedLeft, JobExists
<1>2. RowsInv /\ EndedLeft /\ [Next]_vars => RowsInv' /\ EndedLeft'
  BY StepKeepsRows, StepEnds, EndedStays
<1>3. QED BY <1>1, <1>2, RowsInitially, PTL DEF Spec

\* A job that says it is finished has left its evidence where its owner finds it, for
\* any overlap of jobs and purges.
THEOREM FinishedJobsLeaveEvidence == Spec => []FinishedHasEvidence
<1>1. RowsInv /\ EndedLeft => FinishedHasEvidence
  <2> SUFFICES ASSUME RowsInv, EndedLeft, NEW j \in Jobs, JobExists(j),
                      job[j].state = "finished"
               PROVE  CASE job[j].kind = "memory-analysis" ->
                             DumpExists(job[j].dump) => dump[job[j].dump].analysis # None
                        [] job[j].kind = "memory-region-inspection" ->
                             DumpExists(job[j].dump) => job[j].dump \in region
                        [] OTHER -> run[j] \notin {None, Pending}
    BY DEF FinishedHasEvidence
  <2>1. Left(j)
    BY DEF EndedLeft, Ended
  <2>2. job[j].kind \in Kinds
    BY DEF RowsInv, TypeOK, JobRow, JobExists
  <2>3. QED BY <2>1, <2>2 DEF Left, Analyzes, Inspects, Executes, Kinds
<1>2. QED BY <1>1, EndedAlways, PTL

-----------------------------------------------------------------------------
(* Analyses of half an image *)

\* Why the image of d may have been read in part.
PartlyRead(d) ==
    \/ failures > 0
    \/ \E e \in Dumps \ {d} : dump[e] # None /\ dump[e].sha = dump[d].sha
    \/ \E c \in UploadsAt({"upload-close", "upload-insert"}) : call[c].sha = dump[d].sha

CleanInv ==
    /\ \A d \in Dumps : DumpExists(d) /\ dump[d].analysis # None =>
          dump[d].analysis[4] \/ PartlyRead(d)
    /\ \A j \in Jobs : task[j] # Idle /\ Analyzes(j) =>
          task[j].clean \/ PartlyRead(job[j].dump)

\* Failures are counted for ever.
LEMMA FailuresStay ==
  ASSUME RowsInv, [Next]_vars, failures > 0
  PROVE  failures' > 0
<1>1. failures' = failures \/ Failure
  BY DEF Next, vars, Upload, Purge, Start, Work, UploadLookup, UploadOpen, UploadClose,
         UploadInsert, PurgeCheck, PurgeSelect, PurgeCommit, PurgeUnlink, StartAnalysis,
         InspectRegion, StartDynamic, Submit, CreateRun, GivesUp, Fails, ReadImage, SelectRow,
         CheckFile, OpenFile, CloseFile, CommitAnalysis, CommitRegion, CommitResult, FinishJob,
         Crash, Quiet
<1>2. QED BY <1>1, FailureCounts DEF RowsInv

\* An upload that has opened its file goes on, becomes a row, or fails.
LEMMA UploadGoesOn ==
  ASSUME RowsInv, [Next]_vars, NEW c \in Clients,
         call[c].step \in {"upload-close", "upload-insert"}
  PROVE  \/ call'[c].step \in {"upload-close", "upload-insert"} /\ call'[c].sha = call[c].sha
         \/ \E e \in Dumps : dump[e] = None /\ dump'[e] # None /\ dump'[e].sha = call[c].sha
         \/ failures' > 0
<1>1. call[c] \in UploadCall
  BY CallShape DEF RowsInv
<1>2. CASE call'[c] = call[c]
  BY <1>2
<1>3. ASSUME NEW b \in Clients, Upload(b) \/ Purge(b), b # c
      PROVE  call'[c] = call[c]
  BY <1>3 DEF Upload, Purge, UploadLookup, UploadOpen, UploadClose, UploadInsert, PurgeCheck,
              PurgeSelect, PurgeCommit, PurgeUnlink, Remaining, Become, Advance, RowsInv, TypeOK
<1>4. ASSUME UploadClose(c)
      PROVE  \/ call'[c].step = "upload-insert" /\ call'[c].sha = call[c].sha
             \/ failures' > 0
  <2>1. Advance(c, "upload-insert") \/ Failure
    BY <1>4 DEF UploadClose
  <2>2. QED BY <1>1, <2>1, FailureCounts DEF Advance, RowsInv, TypeOK, UploadCall
<1>5. ASSUME UploadInsert(c)
      PROVE  \E e \in Dumps : dump[e] = None /\ dump'[e] # None /\ dump'[e].sha = call[c].sha
  <2> DEFINE row == [owner |-> call[c].who, sha |-> call[c].sha, analysis |-> None, live |-> TRUE]
  <2>1. PICK e \in Dumps : dump[e] = None /\ dump' = [dump EXCEPT ![e] = row]
    BY <1>5 DEF UploadInsert
  <2>2. row # None /\ row.sha = call[c].sha
    <3>1. row \in DumpRow
      BY <1>1 DEF UploadCall, DumpRow
    <3>2. QED BY <3>1, NoneAssumption DEF NoneAssumption
  <2> HIDE DEF row
  <2>3. dump'[e] = row
    BY <2>1 DEF RowsInv, TypeOK
  <2>4. QED BY <2>1, <2>2, <2>3
<1>6. ASSUME Upload(c) \/ Purge(c) PROVE UploadClose(c) \/ UploadInsert(c)
  <2>1. call[c] # Idle
    BY CallShape DEF RowsInv
  <2>2. QED BY <1>6, <2>1 DEF Upload, Purge, UploadLookup, UploadOpen, PurgeCheck, PurgeSelect,
                              PurgeCommit, PurgeUnlink
<1>7. ASSUME NEW j \in Jobs, Start(j) \/ Work(j) PROVE call'[c] = call[c]
  BY <1>7 DEF Start, Work, StartAnalysis, InspectRegion, StartDynamic, Submit, CreateRun,
              GivesUp, Fails, ReadImage, SelectRow, GoesOn, CheckFile, OpenFile, CloseFile,
              CommitAnalysis, CommitRegion, CommitResult, FinishJob
<1>8. CASE Crash
  BY <1>8, FailureCounts DEF Crash, RowsInv
<1>9. CASE UNCHANGED vars
  BY <1>9 DEF vars
<1>10. QED BY <1>2, <1>3, <1>4, <1>5, <1>6, <1>7, <1>8, <1>9 DEF Next

LEMMA PartlyReadStays ==
  ASSUME RowsInv, [Next]_vars, NEW d \in Dumps, dump[d] # None, PartlyRead(d)
  PROVE  PartlyRead(d)'
<1>1. RowsStay
  BY StepKeepsRows
<1>2. CASE failures > 0
  BY <1>2, FailuresStay DEF PartlyRead
<1>3. CASE \E e \in Dumps \ {d} : dump[e] # None /\ dump[e].sha = dump[d].sha
  BY <1>1, <1>3 DEF RowsStay, PartlyRead
<1>4. ASSUME NEW c \in Clients, call[c].step \in {"upload-close", "upload-insert"},
             call[c].sha = dump[d].sha
      PROVE  PartlyRead(d)'
  <2>1. dump'[d].sha = call[c].sha
    BY <1>1, <1>4 DEF RowsStay
  <2>2. CASE call'[c].step \in {"upload-close", "upload-insert"} /\ call'[c].sha = call[c].sha
    BY <2>1, <2>2 DEF PartlyRead, UploadsAt
  <2>3. CASE \E e \in Dumps : dump[e] = None /\ dump'[e] # None /\ dump'[e].sha = call[c].sha
    BY <2>1, <2>3 DEF PartlyRead
  <2>4. CASE failures' > 0
    BY <2>4 DEF PartlyRead
  <2>5. QED BY <1>4, <2>2, <2>3, <2>4, UploadGoesOn
<1>5. QED BY <1>2, <1>3, <1>4 DEF PartlyRead, UploadsAt

\* Tasks remember how they read, and a reading in part has its reason.
CleanTasks ==
    \A j \in Jobs : task'[j] # Idle =>
        \/ task'[j].clean
        \/ /\ task[j] # Idle
           /\ \/ task'[j].clean = task[j].clean
              \/ Analyzes(j) => PartlyRead(job[j].dump)

\* A dump's analysis stays, or is one that a task remembers.
CleanDumps ==
    \A d \in Dumps : DumpExists(d)' /\ dump'[d].analysis # None =>
        \/ DumpExists(d) /\ dump'[d].analysis = dump[d].analysis
        \/ /\ dump[d] # None
           /\ dump'[d].analysis[4] \/ PartlyRead(d)

LEMMA OneTaskClean ==
  ASSUME RowsInv, NEW j \in Jobs, \A i \in Jobs \ {j} : task'[i] = task[i],
         task'[j] # Idle => task[j] # Idle /\ task'[j].clean = task[j].clean
  PROVE  CleanTasks
  BY DEF CleanTasks

LEMMA StepOnly ==
  ASSUME RowsInv, NEW j \in Jobs, NEW step, task[j].step # "idle",
         task' = [task EXCEPT ![j].step = step]
  PROVE  CleanTasks
<1>1. task[j] \in Task /\ task[j] # Idle
  BY TaskShape DEF RowsInv
<1>2. task'[j].clean = task[j].clean /\ \A i \in Jobs \ {j} : task'[i] = task[i]
  BY <1>1 DEF RowsInv, TypeOK, Task
<1>3. QED BY <1>1, <1>2, OneTaskClean

LEMMA TaskEnds ==
  ASSUME RowsInv, NEW j \in Jobs, task' = [task EXCEPT ![j] = Idle]
  PROVE  CleanTasks
<1>1. task'[j] = Idle /\ \A i \in Jobs \ {j} : task'[i] = task[i]
  BY DEF RowsInv, TypeOK
<1>2. QED BY <1>1, OneTaskClean

LEMMA ReadImageClean ==
  ASSUME RowsInv, FilesInv, NEW j \in Jobs, ReadImage(j)
  PROVE  CleanTasks
<1> DEFINE d == job[j].dump
           content == disk[Image(dump[d].sha)]
<1>1. /\ task[j].step = "read"
      /\ content = "whole" \/ (content = "torn" /\ Analyzes(j))
      /\ task' = [task EXCEPT ![j].step = "lookup", ![j].clean = (content = "whole")]
  BY DEF ReadImage, Analyzes
<1>2. task[j] \in Task
  BY <1>1, TaskShape DEF RowsInv
<1>3. task'[j].clean = (content = "whole") /\ \A i \in Jobs \ {j} : task'[i] = task[i]
  BY <1>1, <1>2 DEF RowsInv, TypeOK, Task
<1>4. content = "torn" => PartlyRead(d)
  <2> SUFFICES ASSUME content = "torn" PROVE PartlyRead(d)
    OBVIOUS
  <2>1. dump[d].sha \in Contents
    BY <1>1, TaskShape
       DEF RowsInv, TaskKnown, Known, JobKnown, TypeOK, DumpRow, Idle
  <2>2. Written(Image(dump[d].sha)) \/ failures > 0
    BY <2>1, FileKinds DEF FilesInv, FileInv
  <2>3. ~TaskHas(Image(dump[d].sha), {"close"})
    <3> SUFFICES ASSUME NEW i \in Jobs, task[i].step = "close",
                        task[i].file = Image(dump[d].sha)
                 PROVE  FALSE
      BY DEF TaskHas
    <3>1. Leaves(i, Image(dump[d].sha)) /\ job[i] # None
      BY LeavesFile
    <3>2. Analyzes(i) \/ Inspects(i) \/ Executes(i)
      BY <3>1 DEF RowsInv, TypeOK, JobRow, Kinds, Analyzes, Inspects, Executes
    <3>3. QED BY <3>1, <3>2 DEF Leaves, Image, Analysis, Region, ResultFiles, Result
  <2>4. UploadHas(Image(dump[d].sha), {"upload-close"}) => PartlyRead(d)
    BY DEF UploadHas, PartlyRead, UploadsAt, Image
  <2>5. QED BY <2>2, <2>3, <2>4 DEF Written, PartlyRead
<1>5. task[j] # Idle
  BY <1>1, TaskShape DEF RowsInv
<1>6. QED BY <1>1, <1>3, <1>4, <1>5 DEF CleanTasks

LEMMA StepClean ==
  ASSUME RowsInv, FilesInv, [Next]_vars
  PROVE  CleanTasks
<1>1. CASE UNCHANGED task
  BY <1>1 DEF CleanTasks
<1>2. ASSUME NEW j \in Jobs, Start(j) PROVE CleanTasks
  <2>1. ASSUME NEW p, NEW kind, NEW d, NEW step, Submit(j, p, kind, d, step)
        PROVE  CleanTasks
    <3>1. task'[j].clean /\ \A i \in Jobs \ {j} : task'[i] = task[i]
      BY <2>1 DEF Submit, RowsInv, TypeOK
    <3>2. QED BY <3>1 DEF CleanTasks
  <2>2. QED BY <1>2, <2>1 DEF Start, StartAnalysis, InspectRegion, StartDynamic
<1>3. ASSUME NEW j \in Jobs, CreateRun(j) PROVE CleanTasks
  <2>1. /\ task[j].step # "idle"
        /\ \/ task' = [task EXCEPT ![j].step = "lookup"]
           \/ task' = [task EXCEPT ![j] = Idle]
    BY <1>3 DEF CreateRun
  <2>2. QED BY <2>1, StepOnly, TaskEnds
<1>4. ASSUME NEW j \in Jobs, NEW left, Fails(j, left) PROVE CleanTasks
  BY <1>4, TaskEnds DEF Fails, JobFails
<1>5. ASSUME NEW j \in Jobs, SelectRow(j) PROVE CleanTasks
  <2>1. task[j] # Idle
    BY <1>5, TaskShape DEF SelectRow, RowsInv
  <2>2. QED BY <1>5, <2>1, SelectRowRows, OneTaskClean
<1>6. ASSUME NEW j \in Jobs, CheckFile(j) \/ OpenFile(j) PROVE CleanTasks
  <2>1. task[j] # Idle
    BY <1>6, TaskShape DEF CheckFile, OpenFile, RowsInv
  <2>2. QED BY <1>6, <2>1, CheckFileRows, OpenFileRows, OneTaskClean
<1>7. ASSUME NEW j \in Jobs, CloseFile(j) PROVE CleanTasks
  <2>1. /\ task[j].step # "idle"
        /\ \/ task' = [task EXCEPT ![j].step = "commit"]
           \/ task' = [task EXCEPT ![j] = Idle]
    BY <1>7 DEF CloseFile, JobFails
  <2>2. QED BY <2>1, StepOnly, TaskEnds
<1>8. ASSUME NEW j \in Jobs, CommitAnalysis(j) \/ CommitRegion(j) \/ CommitResult(j)
      PROVE  CleanTasks
  <2>1. /\ task[j].step # "idle"
        /\ \/ task' = [task EXCEPT ![j].step = "finish"]
           \/ \E left : Fails(j, left)
    BY <1>8 DEF CommitAnalysis, CommitRegion, CommitResult
  <2>2. QED BY <1>4, <2>1, StepOnly
<1>9. ASSUME NEW j \in Jobs, GivesUp(j) PROVE CleanTasks
  BY <1>4, <1>9 DEF GivesUp
<1>10. ASSUME NEW j \in Jobs, FinishJob(j) PROVE CleanTasks
  BY <1>10, TaskEnds DEF FinishJob
<1>11. CASE Crash
  BY <1>11 DEF Crash, CleanTasks
<1>12. ASSUME NEW c \in Clients, Upload(c) \/ Purge(c) PROVE UNCHANGED task
  BY <1>12 DEF Upload, Purge, UploadLookup, UploadOpen, UploadClose, UploadInsert, PurgeCheck,
               PurgeSelect, PurgeCommit, PurgeUnlink
<1>13. CASE UNCHANGED vars
  BY <1>1, <1>13 DEF vars
<1>14. QED
  BY <1>1, <1>2, <1>3, <1>5, <1>6, <1>7, <1>8, <1>9, <1>10, <1>11, <1>12, <1>13,
     ReadImageClean DEF Next, Work

LEMMA StepCleanDumps ==
  ASSUME RowsInv, CleanInv, [Next]_vars
  PROVE  CleanDumps
<1>1. CASE UNCHANGED dump
  BY <1>1 DEF CleanDumps, DumpExists
<1>2. ASSUME NEW c \in Clients, UploadInsert(c) PROVE CleanDumps
  <2> DEFINE row == [owner |-> call[c].who, sha |-> call[c].sha, analysis |-> None, live |-> TRUE]
  <2>1. PICK d \in Dumps : dump[d] = None /\ dump' = [dump EXCEPT ![d] = row]
    BY <1>2 DEF UploadInsert
  <2>2. dump'[d].analysis = None /\ \A e \in Dumps \ {d} : dump'[e] = dump[e]
    BY <2>1 DEF RowsInv, TypeOK
  <2>3. QED BY <2>2 DEF CleanDumps, DumpExists
<1>3. ASSUME NEW c \in Clients, PurgeCommit(c) PROVE CleanDumps
  <2>1. ASSUME NEW d \in Dumps, DumpExists(d)'
        PROVE  DumpExists(d) /\ dump'[d].analysis = dump[d].analysis
    <3>1. CASE d \in DumpsOf(call[c].who)
      <4>1. dump'[d] = [dump[d] EXCEPT !.live = FALSE] /\ dump[d] \in DumpRow
        BY <1>3, <3>1 DEF PurgeCommit, DumpsOf, DumpExists, RowsInv, TypeOK
      <4>2. QED BY <2>1, <4>1 DEF DumpExists, DumpRow
    <3>2. CASE d \notin DumpsOf(call[c].who)
      BY <1>3, <2>1, <3>2 DEF PurgeCommit, DumpExists
    <3>3. QED BY <3>1, <3>2
  <2>2. QED BY <2>1 DEF CleanDumps
<1>4. ASSUME NEW j \in Jobs, CommitAnalysis(j) PROVE CleanDumps
  <2> DEFINE d == job[j].dump
  <2>1. CASE ~DumpExists(d)
    BY <1>1, <1>4, <2>1 DEF CommitAnalysis, Fails
  <2>2. CASE DumpExists(d)
    <3>1. /\ dump'[d].analysis = task[j].file
          /\ \A e \in Dumps : /\ DumpExists(e)' <=> DumpExists(e)
                              /\ e # d => dump'[e] = dump[e]
      BY <1>4, <2>2, CommitAnalysisNames
    <3>2. task[j].step = "commit" /\ Analyzes(j)
      BY <1>4 DEF CommitAnalysis, Analyzes
    <3>3. \E t \in Stamps : task[j].file = Analysis(dump[d].sha, t, task[j].clean)
      BY <3>2, LeavesFile DEF Leaves
    <3>4. task[j].file[4] = task[j].clean
      BY <3>3 DEF Analysis
    <3>5. task[j].clean \/ PartlyRead(d)
      BY <3>2, TaskShape DEF RowsInv, CleanInv
    <3>6. QED BY <2>2, <3>1, <3>4, <3>5 DEF CleanDumps, DumpExists
  <2>3. QED BY <2>1, <2>2
<1>5. ASSUME NEW c \in Clients, Upload(c) \/ Purge(c)
      PROVE  UNCHANGED dump \/ UploadInsert(c) \/ PurgeCommit(c)
  BY <1>5 DEF Upload, Purge, UploadLookup, UploadOpen, UploadClose, PurgeCheck, PurgeSelect,
              PurgeUnlink, Rows
<1>6. ASSUME NEW j \in Jobs, Start(j) \/ Work(j) PROVE UNCHANGED dump \/ CommitAnalysis(j)
  BY <1>6 DEF Start, Work, StartAnalysis, InspectRegion, StartDynamic, Submit, CreateRun,
              GivesUp, Fails, ReadImage, SelectRow, GoesOn, CheckFile, OpenFile, CloseFile,
              CommitRegion, CommitResult, FinishJob, Rows
<1>7. CASE Crash \/ UNCHANGED vars
  BY <1>1, <1>7 DEF Crash, vars, Rows
<1>8. QED BY <1>1, <1>2, <1>3, <1>4, <1>5, <1>6, <1>7 DEF Next

LEMMA StepKeepsClean ==
  ASSUME RowsInv, FilesInv, CleanInv, [Next]_vars
  PROVE  CleanInv'
<1>1. RowsStay /\ CleanTasks /\ CleanDumps
  BY StepKeepsRows, StepClean, StepCleanDumps
<1>2. ASSUME NEW d \in Dumps, DumpExists(d)', dump'[d].analysis # None
      PROVE  dump'[d].analysis[4] \/ PartlyRead(d)'
  <2>1. dump[d] # None /\ (dump'[d].analysis[4] \/ PartlyRead(d))
    BY <1>1, <1>2 DEF CleanDumps, CleanInv, DumpExists
  <2>2. QED BY <2>1, PartlyReadStays
<1>3. ASSUME NEW j \in Jobs, task'[j] # Idle, Analyzes(j)', ~task'[j].clean
      PROVE  PartlyRead(job[j].dump)'
  <2>1. /\ task[j] # Idle
        /\ task'[j].clean = task[j].clean \/ (Analyzes(j) => PartlyRead(job[j].dump))
    BY <1>1, <1>3 DEF CleanTasks
  <2>2. job[j] # None /\ job'[j].kind = job[j].kind /\ job'[j].dump = job[j].dump
    BY <1>1, <2>1 DEF RowsInv, TaskKnown, RowsStay
  <2>3. Analyzes(j) /\ job[j].dump \in Dumps /\ dump[job[j].dump] # None
    BY <1>3, <2>2 DEF Analyzes, Executes, RowsInv, Known, JobKnown
  <2>4. PartlyRead(job[j].dump)
    BY <1>3, <2>1, <2>3 DEF CleanInv
  <2>5. PICK d \in Dumps : d = job[j].dump /\ d = job'[j].dump
    BY <2>2, <2>3
  <2>6. PartlyRead(d)'
    BY <2>3, <2>4, <2>5, PartlyReadStays
  <2>7. QED BY <2>5, <2>6 DEF PartlyRead
<1>4. QED BY <1>2, <1>3 DEF CleanInv

LEMMA CleanAlways == Spec => [](RowsInv /\ FilesInv /\ CleanInv)
<1>1. Init => CleanInv
  BY DEF Init, CleanInv, DumpExists
<1>2. RowsInv /\ FilesInv /\ CleanInv /\ [Next]_vars => CleanInv'
  BY StepKeepsClean
<1>3. QED BY <1>1, <1>2, FilesAlways, PTL DEF Spec

\* A file that a row names can be read, or its state has one of the three excuses.
LEMMA NamedServed ==
  ASSUME FilesInv, TypeOK, NEW f \in Files, f \in Named
  PROVE  disk[f] = "whole" \/ Excused(f)
  BY HandsAndLists DEF FilesInv, FileInv, TypeOK, Excused

\* Evidence with a row can be read, and is of the whole image, unless one of the named
\* reasons holds: whatever uploads, jobs and purges overlap.
THEOREM EvidenceAlwaysServed == Spec => []EvidenceServed
<1>1. RowsInv /\ FilesInv /\ CleanInv => EvidenceServed
  <2> SUFFICES ASSUME RowsInv, FilesInv, CleanInv PROVE EvidenceServed
    OBVIOUS
  <2> USE DEF RowsInv
  <2>1. ASSUME NEW d \in Dumps, DumpExists(d)
        PROVE  disk[Image(dump[d].sha)] = "whole" \/ Excused(Image(dump[d].sha))
    <3>1. Image(dump[d].sha) \in Files
      BY <2>1, FileKinds DEF TypeOK, DumpRow, DumpExists
    <3>2. Image(dump[d].sha) \in Named
      BY <2>1, NamedPointwise
    <3>3. QED BY <3>1, <3>2, NamedServed
  <2>2. ASSUME NEW d \in Dumps, DumpExists(d)
        PROVE  AnalysisAnswer(d) \in {"not completed", "payload"} \/ Excused(dump[d].analysis)
    <3>1. CASE dump[d].analysis = None
      BY <3>1 DEF AnalysisAnswer
    <3>2. CASE dump[d].analysis # None
      <4>1. dump[d].analysis \in Files
        BY <2>2, <3>2, FileKinds DEF TypeOK, DumpRow, DumpExists
      <4>2. dump[d].analysis \in Named
        BY <2>2, <3>2, NamedPointwise
      <4>3. disk[dump[d].analysis] = "whole" \/ Excused(dump[d].analysis)
        BY <4>1, <4>2, NamedServed
      <4>4. QED BY <3>2, <4>3 DEF AnalysisAnswer
    <3>3. QED BY <3>1, <3>2
  <2>3. ASSUME NEW d \in Dumps, DumpExists(d), d \in region
        PROVE  RegionAnswer(d) = "bytes" \/ Excused(Region(dump[d].sha))
    <3>1. Region(dump[d].sha) \in Files
      BY <2>3, FileKinds DEF TypeOK, DumpRow, DumpExists
    <3>2. Region(dump[d].sha) \in Named
      BY <2>3, NamedPointwise
    <3>3. QED BY <3>1, <3>2, NamedServed DEF RegionAnswer
  <2>4. ASSUME NEW j \in Jobs, run[j] \notin {None, Pending}
        PROVE  disk[run[j]] = "whole" \/ Excused(run[j])
    <3>1. run[j] \in Files
      BY <2>4 DEF TypeOK
    <3>2. run[j] \in Named
      BY <2>4, NamedPointwise
    <3>3. QED BY <3>1, <3>2, NamedServed
  <2>5. QED BY <2>1, <2>2, <2>3, <2>4 DEF EvidenceServed, CleanInv, PartlyRead
<1>2. QED BY <1>1, CleanAlways, PTL
=============================================================================
