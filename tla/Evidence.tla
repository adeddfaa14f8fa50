------------------------------- MODULE Evidence -------------------------------
(***************************************************************************)
(* What memory and dynamic analyses leave behind: rows of memory_dumps,    *)
(* memory_region_artifacts and dynamic_analysis_runs and the files they    *)
(* name (MemoryDumpRepository, DynamicRunRepository, the routes that start *)
(* and read them), next to the purge of one principal (RetentionRepository *)
(* .purge).                                                                *)
(*                                                                         *)
(* Uploads run on the event loop, one at a time; purges on pool threads;   *)
(* jobs in the background.  A step is one file operation, one SELECT or    *)
(* one write transaction, and foreign keys are not enforced: the database  *)
(* is SQLite, the default, with one writer at a time.  (Module             *)
(* StoreOnPostgres has two overlapping purges of a shared file on          *)
(* PostgreSQL.)  The job runner is module JobRunner: here a job has a row  *)
(* that is active or not and a task that does its work, which goes on when *)
(* the row is deleted.  A dump has one VAD, extracted for one              *)
(* architecture.  Samples are module ContentStore's and are taken for      *)
(* granted here.                                                           *)
(*                                                                         *)
(* Definitions headed "Mutant" are plausible errors of the definition that *)
(* follows them; no specification uses them.                               *)
(***************************************************************************)
EXTENDS Naturals

CONSTANTS
    Clients,      \* requests that can be under way at once
    Principals,
    Admins,       \* principals with the admin role: they see every dump
    Dumps,        \* row ids of memory_dumps, each used once
    Contents,     \* memory images, by SHA-256
    Jobs,         \* job ids, each used once; a run has its job's id
    Stamps,       \* the seconds gzip.compress writes into its header
    Results,      \* compressed results of dynamic runs, by SHA-256
    None,         \* no row, no file
    Pending,      \* a run without a result yet
    MaxFailures   \* bound: crashes and failing file operations considered

ASSUME EvidenceAssumption ==
    /\ Admins \subseteq Principals
    /\ MaxFailures \in Nat

VARIABLES
    dump,      \* the row of each dump
    region,    \* the dumps whose VAD has a region artifact row
    run,       \* per job, the row of its dynamic run
    job,       \* the row of each job
    task,      \* what the process does for each job
    call,      \* what each client's request is doing
    disk,      \* what is stored under each name
    stray,     \* history: files a step of the code stopped keeping track of
    superseded, \* history: analyses that a later one of the same dump replaced
    contested, \* history: files a purge took from somebody about to name them
    failures   \* crashes and failed file operations so far

vars == <<dump, region, run, job, task, call, disk, stray, superseded, contested,
          failures>>

Rows == <<dump, region, run, job>>
History == <<stray, superseded, contested>>

-----------------------------------------------------------------------------

\* Names on the disk.  An analysis is compressed with the current time in its
\* header, so the second of two analyses of an image has a name of its own unless
\* it ends within the same second; "clean" tells whether the whole image was read.
Image(s) == <<"memory", s>>
Analysis(s, t, clean) == <<"memory-analysis", s, t, clean>>
Region(s) == <<"memory-region", s>>
Result(r) == <<"dynamic", r>>

Analyses == {Analysis(s, t, clean) : s \in Contents, t \in Stamps, clean \in BOOLEAN}
Files == {Image(s) : s \in Contents} \cup Analyses
           \cup {Region(s) : s \in Contents} \cup {Result(r) : r \in Results}

DumpRow == [owner : Principals, sha : Contents, analysis : Analyses \cup {None},
            live : BOOLEAN]
Kinds == {"memory-analysis", "memory-region-inspection", "dynamic-analysis"}
JobRow == [owner : Principals, kind : Kinds, dump : Dumps \cup {None},
           state : {"active", "finished", "failed", "deleted"}]

Idle == [step |-> "idle"]
TaskSteps == {"record", "read", "lookup", "write", "open", "close", "commit", "finish"}
Task == [step : TaskSteps, file : Files \cup {None}, clean : BOOLEAN]

UploadCall == [step : {"upload-open", "upload-close", "upload-insert"},
               who : Principals, sha : Contents]
PurgeCall == [step : {"select", "delete", "unlink"}, who : Principals,
              paths : SUBSET Files]

ASSUME NoneAssumption ==
    /\ None # Pending /\ {None, Pending} \cap Files = {}
    /\ None \notin DumpRow \cup JobRow

TypeOK ==
    /\ dump \in [Dumps -> {None} \cup DumpRow]
    /\ region \subseteq Dumps
    /\ run \in [Jobs -> {None, Pending} \cup Files]
    /\ job \in [Jobs -> {None} \cup JobRow]
    /\ task \in [Jobs -> {Idle} \cup Task]
    /\ call \in [Clients -> {Idle} \cup UploadCall \cup PurgeCall]
    /\ disk \in [Files -> {"none", "torn", "whole"}]
    /\ stray \subseteq Files
    /\ superseded \subseteq Analyses
    /\ contested \subseteq Files
    /\ failures \in 0..MaxFailures

Init ==
    /\ dump = [d \in Dumps |-> None]
    /\ region = {}
    /\ run = [j \in Jobs |-> None]
    /\ job = [j \in Jobs |-> None]
    /\ task = [j \in Jobs |-> Idle]
    /\ call = [c \in Clients |-> Idle]
    /\ disk = [f \in Files |-> "none"]
    /\ stray = {}
    /\ superseded = {}
    /\ contested = {}
    /\ failures = 0

\* A deleted row is kept, marked, so that what referred to it stays known.
DumpExists(d) == dump[d] # None /\ dump[d].live
JobExists(j) == job[j] # None /\ job[j].state # "deleted"
Active(j) == JobExists(j) /\ job[j].state = "active"
DumpsOf(p) == {d \in Dumps : DumpExists(d) /\ dump[d].owner = p}
JobsOf(p) == {j \in Jobs : JobExists(j) /\ job[j].owner = p}
RunExists(j) == run[j] # None

\* The files that the given rows name.
NamedBy(dumps, regions, runs) ==
    {Image(dump[d].sha) : d \in dumps}
      \cup {dump[d].analysis : d \in {x \in dumps : dump[x].analysis # None}}
      \cup {Region(dump[d].sha) : d \in regions}
      \cup {run[j] : j \in {x \in runs : run[x] # Pending}}

Named == NamedBy({d \in Dumps : DumpExists(d)},
                 region, {j \in Jobs : RunExists(j)})

Unlinking == UNION {call[c].paths : c \in {x \in Clients : call[x].step = "unlink"}}
TasksAt(steps) == {j \in Jobs : task[j].step \in steps}
UploadsAt(steps) == {c \in Clients : call[c].step \in steps}

\* Files some task or upload has found or is writing and will name in a row.
InHand == {task[j].file : j \in TasksAt({"write", "open", "close", "commit"})}
            \cup {Image(call[c].sha) :
                    c \in UploadsAt({"upload-open", "upload-close", "upload-insert"})}

BeingWritten == {task[j].file : j \in TasksAt({"close"})}
                  \cup {Image(call[c].sha) : c \in UploadsAt({"upload-close"})}

\* A row starts to name f, which may be on a purge's list already, and no longer
\* names old, which is on nobody's list.
NowNamed(f, old) ==
    /\ superseded' = (superseded \cup {old}) \ {f, None}
    /\ stray' = stray \ {f}
    /\ contested' = contested \cup ({f} \cap Unlinking)

\* f is whole again, and stays so unless a purge has it on its list.
Restored(f) == contested' = contested \ ({f} \ Unlinking)

\* A step that ends with row changes only, with no file operation.
Quiet == UNCHANGED <<disk, failures>>

\* A crash, or a file operation that raises.
Failure ==
    /\ failures < MaxFailures
    /\ failures' = failures + 1

-----------------------------------------------------------------------------
(* POST /memory-dumps: MemoryDumpRepository.save *)

Become(c, new) == call' = [call EXCEPT ![c] = new]
Advance(c, step) == call' = [call EXCEPT ![c].step = step]

\* The owner's own row of the same image is returned as it is.
UploadLookup(c, p, s) ==
    /\ call[c] = Idle
    /\ UploadsAt({"upload-open", "upload-close", "upload-insert"}) = {}
    /\ \A d \in DumpsOf(p) : dump[d].sha # s
    /\ Become(c, [step |-> "upload-open", who |-> p, sha |-> s])
    /\ UNCHANGED <<Rows, task, History>> /\ Quiet

\* write_bytes truncates a file that is there already ...
UploadOpen(c) ==
    /\ call[c].step = "upload-open"
    /\ disk' = [disk EXCEPT ![Image(call[c].sha)] = "torn"]
    /\ Advance(c, "upload-close")
    /\ UNCHANGED <<Rows, task, History, failures>>

\* ... and has it whole at the end, or raises and leaves a part.
UploadClose(c) ==
    LET f == Image(call[c].sha) IN
    /\ call[c].step = "upload-close"
    /\ \/ /\ disk' = [disk EXCEPT ![f] = "whole"]
          /\ Restored(f)
          /\ Advance(c, "upload-insert")
          /\ UNCHANGED <<stray, failures>>
       \/ /\ Failure
          /\ stray' = stray \cup {f}
          /\ Become(c, Idle)
          /\ UNCHANGED <<disk, contested>>
    /\ UNCHANGED <<Rows, task, superseded>>

UploadInsert(c) ==
    LET s == call[c].sha
        row == [owner |-> call[c].who, sha |-> s, analysis |-> None, live |-> TRUE]
    IN
    /\ call[c].step = "upload-insert"
    /\ \E d \in Dumps : dump[d] = None /\ dump' = [dump EXCEPT ![d] = row]
    /\ NowNamed(Image(s), None)
    /\ Become(c, Idle)
    /\ UNCHANGED <<region, run, job, task>> /\ Quiet

-----------------------------------------------------------------------------
(* Starting a job: the handler checks, commits the job row and submits.      *)

MaySee(p, d) == DumpExists(d) /\ (p \in Admins \/ dump[d].owner = p)

\* _result: what a view of the analysis answers; a truncated file is a 500, by
\* the handler's clause or by the EOFError it does not name.
AnalysisAnswer(d) ==
    IF dump[d].analysis = None THEN "not completed"
    ELSE CASE disk[dump[d].analysis] = "none" -> "missing"
           [] disk[dump[d].analysis] = "torn" -> "corrupt"
           [] OTHER -> "payload"

\* read_region_artifact: length and digest are checked before every answer.
RegionAnswer(d) ==
    IF disk[Region(dump[d].sha)] = "whole" THEN "bytes" ELSE "failed validation"

Submit(j, p, kind, d, step) ==
    /\ job[j] = None
    /\ job' = [job EXCEPT ![j] = [owner |-> p, kind |-> kind, dump |-> d,
                                  state |-> "active"]]
    /\ task' = [task EXCEPT ![j] = [step |-> step, file |-> None, clean |-> TRUE]]
    /\ UNCHANGED <<dump, region, run, call, History>> /\ Quiet

StartAnalysis(j, p, d) ==
    /\ MaySee(p, d)
    /\ Submit(j, p, "memory-analysis", d, "read")

\* The VAD is looked up in the stored analysis: no region without one.
InspectRegion(j, p, d) ==
    /\ MaySee(p, d)
    /\ disk[Image(dump[d].sha)] # "none"
    /\ AnalysisAnswer(d) = "payload"
    /\ Submit(j, p, "memory-region-inspection", d, "read")

StartDynamic(j, p) == Submit(j, p, "dynamic-analysis", None, "record")

\* runs.create, in a transaction after the job's.
CreateRun(j) ==
    /\ task[j].step = "record"
    /\ run' = [run EXCEPT ![j] = Pending]
    /\ task' = [task EXCEPT ![j].step = "lookup"]
    /\ UNCHANGED <<dump, region, job, call, History>> /\ Quiet

-----------------------------------------------------------------------------
(* The job's task                                                            *)

JobFails(j) ==
    /\ task' = [task EXCEPT ![j] = Idle]
    /\ job' = IF JobExists(j) THEN [job EXCEPT ![j].state = "failed"] ELSE job

\* A step that gives up and leaves the files it wrote.
Fails(j, left) ==
    /\ JobFails(j)
    /\ stray' = stray \cup left
    /\ UNCHANGED <<dump, region, run, call, superseded, contested>> /\ Quiet

GoesOn(j, step, file) ==
    /\ task' = [task EXCEPT ![j].step = step, ![j].file = file]
    /\ UNCHANGED <<Rows, call, History>>

\* Cancelled at a checkpoint, or the provider failed.
GivesUp(j) ==
    /\ task[j].step \in {"read", "lookup"}
    /\ Fails(j, {})

\* analyze_memory takes whatever the file holds; an extraction from half an image
\* does not have the size of the VAD.
ReadImage(j) ==
    LET content == disk[Image(dump[job[j].dump].sha)] IN
    /\ task[j].step = "read"
    /\ content = "whole" \/ (content = "torn" /\ job[j].kind = "memory-analysis")
    /\ task' = [task EXCEPT ![j].step = "lookup", ![j].clean = (content = "whole")]
    /\ UNCHANGED <<Rows, call, History>> /\ Quiet

\* The last progress report, which needs the job row, and then the row that is to
\* name the file: set_analysis, save_region_artifact and set_result begin.
SelectRow(j) ==
    LET d == job[j].dump IN
    /\ task[j].step = "lookup"
    /\ JobExists(j)
    /\ CASE job[j].kind = "memory-analysis" ->
              /\ DumpExists(d)
              /\ \E t \in Stamps : GoesOn(j, "write", Analysis(dump[d].sha, t, task[j].clean))
         [] job[j].kind = "memory-region-inspection" ->
              /\ DumpExists(d)
              /\ IF d \in region THEN GoesOn(j, "finish", None)
                                 ELSE GoesOn(j, "write", Region(dump[d].sha))
         [] OTHER -> RunExists(j) /\ \E r \in Results : GoesOn(j, "write", Result(r))
    /\ Quiet

\* Mutant: a file that is there already is taken for work that is done.
CheckFileDone(j) ==
    /\ task[j].step = "write"
    /\ GoesOn(j, IF disk[task[j].file] = "none" THEN "open" ELSE "finish", task[j].file)
    /\ Quiet

\* if not path.exists(): path.write_bytes(data)
CheckFile(j) ==
    /\ task[j].step = "write"
    /\ GoesOn(j, IF disk[task[j].file] = "none" THEN "open" ELSE "commit", task[j].file)
    /\ Quiet

OpenFile(j) ==
    /\ task[j].step = "open"
    /\ disk' = [disk EXCEPT ![task[j].file] = "torn"]
    /\ GoesOn(j, "close", task[j].file)
    /\ UNCHANGED failures

CloseFile(j) ==
    LET f == task[j].file IN
    /\ task[j].step = "close"
    /\ \/ /\ disk' = [disk EXCEPT ![f] = "whole"]
          /\ Restored(f)
          /\ task' = [task EXCEPT ![j].step = "commit"]
          /\ UNCHANGED <<job, stray, failures>>
       \/ /\ Failure
          /\ JobFails(j)
          /\ stray' = stray \cup {f}
          /\ UNCHANGED <<disk, contested>>
    /\ UNCHANGED <<dump, region, run, call, superseded>>

\* The row selected before is updated; if it was deleted since, SQLAlchemy
\* raises StaleDataError.
CommitAnalysis(j) ==
    LET d == job[j].dump
        f == task[j].file
    IN
    /\ task[j].step = "commit" /\ job[j].kind = "memory-analysis"
    /\ \/ /\ DumpExists(d)
          /\ dump' = [dump EXCEPT ![d].analysis = f]
          /\ NowNamed(f, dump[d].analysis)
          /\ task' = [task EXCEPT ![j].step = "finish"]
          /\ UNCHANGED <<region, run, job, call>> /\ Quiet
       \/ ~DumpExists(d) /\ Fails(j, {f})

\* Mutant: the path goes into the dump's own row.
CommitRegionToDump(j) ==
    LET d == job[j].dump IN
    /\ task[j].step = "commit" /\ job[j].kind = "memory-region-inspection"
    /\ DumpExists(d)
    /\ dump' = [dump EXCEPT ![d].analysis = task[j].file]
    /\ NowNamed(task[j].file, None)
    /\ task' = [task EXCEPT ![j].step = "finish"]
    /\ UNCHANGED <<region, run, job, call>> /\ Quiet

\* The unique constraint refuses a second row; nothing refuses one without dump.
CommitRegion(j) ==
    LET d == job[j].dump
        f == task[j].file
    IN
    /\ task[j].step = "commit" /\ job[j].kind = "memory-region-inspection"
    /\ \/ /\ d \notin region
          /\ region' = region \cup {d}
          /\ NowNamed(f, None)
          /\ task' = [task EXCEPT ![j].step = "finish"]
          /\ UNCHANGED <<dump, run, job, call>> /\ Quiet
       \/ d \in region /\ Fails(j, {})

CommitResult(j) ==
    LET f == task[j].file IN
    /\ task[j].step = "commit" /\ job[j].kind = "dynamic-analysis"
    /\ \/ /\ RunExists(j)
          /\ run' = [run EXCEPT ![j] = f]
          /\ NowNamed(f, None)
          /\ task' = [task EXCEPT ![j].step = "finish"]
          /\ UNCHANGED <<dump, region, job, call>> /\ Quiet
       \/ ~RunExists(j) /\ Fails(j, {f})

\* The runner's verdict (module JobRunner).
FinishJob(j) ==
    /\ task[j].step = "finish"
    /\ job' = IF JobExists(j) THEN [job EXCEPT ![j].state = "finished"] ELSE job
    /\ task' = [task EXCEPT ![j] = Idle]
    /\ UNCHANGED <<dump, region, run, call, History>> /\ Quiet

-----------------------------------------------------------------------------
(* POST /retention/purge *)

\* _active_jobs counts the principal's own jobs.
PurgeCheck(c, p) ==
    /\ call[c] = Idle
    /\ \A j \in JobsOf(p) : ~Active(j)
    /\ Become(c, [step |-> "select", who |-> p, paths |-> {}])
    /\ UNCHANGED <<Rows, task, History>> /\ Quiet

RegionsOf(p) == {d \in region : dump[d].owner = p}
RunsOf(p) == {j \in Jobs : RunExists(j) /\ job[j].owner = p}

\* Mutant: forgets the results of dynamic runs.
OwnedButResults(p) == NamedBy(DumpsOf(p), RegionsOf(p), {})

Owned(p) == NamedBy(DumpsOf(p), RegionsOf(p), RunsOf(p))

PurgeSelect(c) ==
    /\ call[c].step = "select"
    /\ call' = [call EXCEPT ![c].step = "delete", ![c].paths = Owned(call[c].who)]
    /\ UNCHANGED <<Rows, task, History>> /\ Quiet

Remaining(c, paths) ==
    Become(c, IF paths = {} THEN Idle
              ELSE [step |-> "unlink", who |-> call[c].who, paths |-> paths])

\* Mutant: removes the files without looking who else names them.
PurgeCommitAlone(c) ==
    LET p == call[c].who IN
    /\ call[c].step = "delete"
    /\ dump' = [d \in Dumps |->
                  IF d \in DumpsOf(p) THEN [dump[d] EXCEPT !.live = FALSE] ELSE dump[d]]
    /\ region' = region \ RegionsOf(p)
    /\ run' = [j \in Jobs |-> IF j \in RunsOf(p) THEN None ELSE run[j]]
    /\ job' = [j \in Jobs |->
                 IF j \in JobsOf(p) THEN [job[j] EXCEPT !.state = "deleted"] ELSE job[j]]
    /\ Remaining(c, call[c].paths)
    /\ stray' = stray \cup (Owned(p) \ call[c].paths)
    /\ UNCHANGED <<task, superseded, contested>> /\ Quiet

\* The rows go by owner, not by what was selected; files that rows of others
\* still name stay (_path_has_reference).
PurgeCommit(c) ==
    LET p == call[c].who
        still == UNION {Owned(q) : q \in Principals \ {p}}
    IN
    /\ call[c].step = "delete"
    /\ dump' = [d \in Dumps |->
                  IF d \in DumpsOf(p) THEN [dump[d] EXCEPT !.live = FALSE] ELSE dump[d]]
    /\ region' = region \ RegionsOf(p)
    /\ run' = [j \in Jobs |-> IF j \in RunsOf(p) THEN None ELSE run[j]]
    /\ job' = [j \in Jobs |->
                 IF j \in JobsOf(p) THEN [job[j] EXCEPT !.state = "deleted"] ELSE job[j]]
    /\ Remaining(c, call[c].paths \ still)
    /\ stray' = stray \cup (Owned(p) \ (call[c].paths \cup still))
    /\ UNCHANGED <<task, superseded, contested>> /\ Quiet

\* _remove_files, one file after the other; one that fails is skipped.
PurgeUnlink(c) ==
    /\ call[c].step = "unlink"
    /\ \E f \in call[c].paths :
          /\ Remaining(c, call[c].paths \ {f})
          /\ \/ /\ disk' = [disk EXCEPT ![f] = "none"]
                /\ contested' = contested \cup ({f} \cap InHand)
                /\ UNCHANGED <<stray, failures>>
             \/ /\ Failure
                /\ stray' = stray \cup {f}
                /\ UNCHANGED <<disk, contested>>
    /\ UNCHANGED <<Rows, task, superseded>>

-----------------------------------------------------------------------------

\* The process dies with its requests and tasks; rows and files stay.
Crash ==
    /\ Failure
    /\ task' = [j \in Jobs |-> Idle]
    /\ call' = [c \in Clients |-> Idle]
    /\ stray' = stray \cup InHand \cup Unlinking
    /\ UNCHANGED <<Rows, disk, superseded, contested>>

Upload(c) ==
    \/ \E p \in Principals, s \in Contents : UploadLookup(c, p, s)
    \/ UploadOpen(c) \/ UploadClose(c) \/ UploadInsert(c)

Start(j) ==
    \E p \in Principals :
        \/ \E d \in Dumps : StartAnalysis(j, p, d) \/ InspectRegion(j, p, d)
        \/ StartDynamic(j, p)

Work(j) ==
    \/ CreateRun(j) \/ GivesUp(j) \/ ReadImage(j) \/ SelectRow(j)
    \/ CheckFile(j) \/ OpenFile(j) \/ CloseFile(j)
    \/ CommitAnalysis(j) \/ CommitRegion(j) \/ CommitResult(j) \/ FinishJob(j)

Purge(c) ==
    \/ \E p \in Principals : PurgeCheck(c, p)
    \/ PurgeSelect(c) \/ PurgeCommit(c) \/ PurgeUnlink(c)

Next ==
    \/ \E c \in Clients : Upload(c) \/ Purge(c)
    \/ \E j \in Jobs : Start(j) \/ Work(j)
    \/ Crash

Spec == Init /\ [][Next]_vars

-----------------------------------------------------------------------------
(* Properties *)

\* What a row names may be unreadable for three reasons only.
Excused(f) ==
    \/ f \in contested
    \/ f \in BeingWritten
    \/ disk[f] = "torn" /\ failures > 0

\* Evidence with a row can be read: image, analysis, region bytes and dynamic
\* result, whatever uploads, jobs and purges of other principals overlap, unless
\* a purge chose the file before the row named it, somebody is writing it, or a
\* write failed.  In particular a purge spares what others share.  And an analysis
\* is of the whole image, unless a write failed or the same image was uploaded a
\* second time, which rewrites the file while the first owner's job may read it.
EvidenceServed ==
    /\ \A d \in Dumps : DumpExists(d) =>
          /\ disk[Image(dump[d].sha)] = "whole" \/ Excused(Image(dump[d].sha))
          /\ AnalysisAnswer(d) \in {"not completed", "payload"}
                \/ Excused(dump[d].analysis)
          /\ d \in region => RegionAnswer(d) = "bytes" \/ Excused(Region(dump[d].sha))
    /\ \A j \in Jobs : run[j] \notin {None, Pending} =>
          disk[run[j]] = "whole" \/ Excused(run[j])
    /\ \A d \in Dumps :
          DumpExists(d) /\ dump[d].analysis # None =>
              \/ dump[d].analysis[4]
              \/ failures > 0
              \/ \E e \in Dumps \ {d} : dump[e] # None /\ dump[e].sha = dump[d].sha
              \/ \E c \in UploadsAt({"upload-close", "upload-insert"}) : call[c].sha = dump[d].sha

\* A file that no row names is being written or removed, or is one of the files
\* the code stops tracking: an analysis superseded by another, a file whose row
\* a purge deleted too early or too late, the rest of a failed step or a crash.
NoForgottenFiles ==
    \A f \in Files :
        disk[f] # "none" =>
            f \in Named \cup InHand \cup Unlinking \cup superseded \cup stray

\* A job that says it is finished has left its evidence where its owner finds it,
\* however purges and other jobs overlapped, as long as the dump is there.
FinishedHasEvidence ==
    \A j \in Jobs :
        JobExists(j) /\ job[j].state = "finished" =>
            CASE job[j].kind = "memory-analysis" ->
                   DumpExists(job[j].dump) => dump[job[j].dump].analysis # None
              [] job[j].kind = "memory-region-inspection" ->
                   DumpExists(job[j].dump) => job[j].dump \in region
              [] OTHER -> run[j] \notin {None, Pending}
=============================================================================
