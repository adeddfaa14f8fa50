# Formal models of the Reversing Lab backend

TLA+ modules, TLC configurations and TLAPS proofs for the backend under
`src/backend/reversing_lab` (paths below are relative to it unless they start
with `docs/`). Every definition is translated from the code; `PROJECT.json`
gives the lines each one stands for.

## 1. Inventory of the system

The backend is a FastAPI application. Handlers declared `def` run on a thread
pool, those declared `async def` on the event loop. State lives in SQL (SQLite
by default, PostgreSQL supported) and in content-addressed files; a session is
opened per request or per repository call, and nothing else is shared but a few
module-level dictionaries behind locks.

| component | state | operations | talks to | what makes it correct |
|---|---|---|---|---|
| Job runner `jobs/runner.py` | executor queue, Futures, `_futures`, a lock | submit, run, cancel, count | job rows, tasks, metrics | every job settles; dictionary = backlog; a cancellation is honoured |
| Job repository and routes `database/repository.py`, `api/routes/jobs.py` | `analysis_jobs` | create, update, request_cancel, stream | runner, purge | a verdict is backed by evidence and is stable |
| Sample store (`BinaryRepository`, `ArtifactRepository`) | `binaries`, `binary_access`, `analysis_artifacts`, files | save, grant, get, load, derive | upload and unpack routes, purge | a row has its bytes; references resolve |
| Retention `database/retention.py` | none of its own | preview, purge | all tables and files | removes what only the principal refers to, nothing else, and leaves nothing behind |
| Control-flow graphs `disassembler/cfg.py`, `classify.py` | locals of one call | sweep, slice, connect, worklist, fixed point | Capstone | the graph has the program's flow; dominators are dominators |
| Linear disassembly `disassembler/disassembler.py` | none | page of instructions | Capstone | shows the code from the right place; `truncated` is raised when there is more |
| Functions and call graph `analysis/functions.py` | locals | candidates from entry, symbols and calls; bodies; callers; breadth-first graph | disassembler | bodies do not overlap; branches of a body stay inside unless a limit is reported; the graph is the nodes within the depth |
| Program flow and obfuscation `analysis/flow.py`, `analyzer/obfuscation.py` | locals | findings, stages | functions, imports | nothing found is lost unless the limit is used up |
| Memory dumps `MemoryDumpRepository`, `api/routes/memory.py` | dumps, region artifacts, files | upload, analysis job, region extraction, reads | runner, Volatility, purge | what a row names can be read; a finished job has left its evidence |
| Memory analyzer `memory/` | locals | normalise, merge, correlate, cut | Volatility's output | an address is attributed to the region that holds it; what is cut is announced |
| Dynamic runs `dynamic/`, `api/routes/dynamic.py` | runs, result files | guardrails, start, cancel, result | runner, provider | a result is found through its row, or nothing is left |
| Rate limiter `api/rate_limit.py` | window start and count per key, a lock | check | a dependency of every route | at most N requests in a window, windows do not overlap, Retry-After is true |
| Audit trail `api/audit_log.py`, `audit/export.py` | `audit_events` | record, list, export | observability middleware | one event per mutation; an export holds what it announced, in scope |
| Access `api/auth.py`, `dependencies.py` | none | principal, role, scope | every route | stateless |
| Parse cache `api/services.py` | LRU dictionary shared by all threads | lookup, insert, evict | parsers | bounded; a call without company succeeds |
| Decompilers and tools `decompiler/`, `integrations/`, `analyzer/unpacking.py` | none | provider selection, fallback, subprocesses | external tools | somebody answers; a tool that misbehaves is reported, not blamed on the request |
| Malware triage `malware/` | none | indicators, capabilities, signatures, score | strings, imports, Ghidra | the score does not depend on optional tools |
| Format parsers, other analyzers, reports | none | pure functions | each other | data conversion |
| Annotations, bookmarks, projects, CTF workspaces | rows | upsert, create, add, patch, delete | purge | analysts write their own rows; one row per target |
| Challenges | rows | generate, submit | | one row per request |
| Migrations `database/migrate.py` | schema version | adopt, upgrade | Alembic, `init_db` | stamps only what matches |

What is hard here: request threads, worker threads and the purge interleave at
every SQL statement; rows and files change in different steps; the process can
stop between any two steps and recovers nothing when it starts; decisions are
taken on selected values that are stale when written; loops over Python sets
run in an order nobody determines. The `hazards` of `PROJECT.json` list each
place with the properties that watch it.

## 2. The modules

### JobRunner, JobLifecycle

`JobRunner` models the runner, the rows and their users, one action per
statement that can interleave:

| code | actions |
|---|---|
| `jobs.create`, then `submit_job` under the lock | `Create`, `AbandonStart`, `Enqueue`, `Register` |
| a pool thread takes a work item | `Dequeue` |
| `run()`, top to bottom | `FirstCheck`, `MarkRunning`, `TaskReports`, `ReportProgress`, `TaskEnds`, `FinalCheck`, `Complete`, `Handle`, `PopFuture`; `WorkerFault` for a repository call that raises |
| `cancel_job` = SELECT, UPDATE, `future.cancel()` | `CancelRead`, `CancelCommit` / `CancelFault`, `CancelFuture` |
| the purge's check and its deletes | `PurgeCheck`, `PurgeDelete` |
| the event stream | `OpenStream`, `PollStream` |
| the process dies | `Crash` |

`row[j]` holds the columns control depends on, `future[j]` the state of the
Future, `at[j]` the place of the worker inside `run()`, `request[r]` what a
cancelling thread has selected. SELECT and UPDATE of one session are separate
steps wherever what is written depends on what was read (`request_cancel`); the
module's header says why `update` is one step.

`JobLifecycle` is what a client of `/api/jobs` may rely on. `JobRunner`
implements it: `Client` is the refinement mapping and `ImplementsLifecycle` is
both checked by TLC and proved.

### ContentStore

Rows (`binary`, `access`, `artifact`) and files (`disk`: missing, torn, whole)
of samples and of one derived artifact per sample, with three requests, each a
sequence of steps: upload (`UploadLookup`, `UploadWrite`, `UploadInsert` or
`Grant`), unpack (`UnpackStart`, `RequireAccess`, `UnpackLookup`, `UnpackWrite`,
`UnpackInsert`) and purge (`PurgeStart`, `PurgeHashes`, `PurgeCommit`,
`PurgeUnlink`, `PurgeEnd`), with `Crash` anywhere. A write transaction is one
step, because the database is SQLite, the default, which admits one writer at a
time; the deletes and counts of a purge are inside one. SQLite as configured here
does not enforce foreign keys, and nothing in the module refuses a dangling
reference. `upload_binary` is `async` and calls `save` without
awaiting, so two uploads never overlap; the other two handlers run on pool
threads and do. The history variable `contested` remembers the files that a row named, or was about to, while
a purge of an earlier row still had them to remove, until somebody writes them
again; no action depends on it.

### StoreOnPostgres

`ContentStore` on PostgreSQL, where neither of the two holds: foreign keys are
enforced and a purge's transaction interleaves with the commits of others. Its
statements are actions: `DeleteOwned`, `LookAt` (the next of the owner's samples:
row and references), `DeleteFound` or `Refused` (the flushed DELETE, which waits for
a lock, finds the row gone, or is refused by the foreign key and rolled back with
everything else), `AskPath` (`_path_has_reference`, path after path) and `Commit`.
A statement sees what is committed when it starts and what its own transaction
deleted (`SeenReferences`), which is READ COMMITTED, PostgreSQL's default. Inserts of
the other requests wait for the rows an open transaction has deleted, and fail if
they go. Everything else is `ContentStore`'s.

### Cfg

`build_cfg` in the order of its own comments: `Decode` (the bounded sweep),
`Slice` (leaders, cut to `max_cfg_nodes`), `Connect` (blocks and successors),
`Visit` (one turn of the worklist loop), `StartDominators`, `Refine` (one
assignment of the fixed-point loop), `Finish`; then the loop headers, the
immediate dominators and the typed edges as operators over the finished state.
Both loops pick blocks in any order. Position i stands at address 2i, so that
branch targets can be inside an instruction. An instruction is what
`classify.py` can tell apart: groups, mnemonic class, link operand, immediate
target.

### Gateway, RateLimiter, AuditTrail

What every request passes. `RateLimiter` has the counters of
`FixedWindowRateLimiter` and what `check` does under its lock, for a given clock
reading; `AuditTrail` has the table, its unique request ids and the export
(`ExportCount`, then `ExportStream`, in another session). `Gateway` composes
them along a request:

| code | actions |
|---|---|
| the audit middleware around a request that has no route, no valid key, or is a viewer's mutation | `Reject` |
| `authorize_request` passes, `enforce_rate_limit` reads the clock | `Arrive` |
| `check` takes the lock: the request is counted or refused | `Check` |
| the handler ends; `_persist_event` for mutations | `Handle` |
| the clock, an export, the end of the process | `Tick`, `Exporting`, `Crash` |

Between `Arrive` and `Check` anything may happen, other requests' windows
included: the dependency runs on a pool thread and reads the clock before it
takes the lock. The handler itself is not modelled here; its end and the
recording are one step, because the middleware is a coroutine that awaits
nothing in between. A time unit is a tick; the wall clock is taken to advance
between two commits of events, which gives exports a single order.

### Evidence

What jobs leave behind, on SQLite: one writer at a time and no foreign keys, as in
`ContentStore`. `ContentStore` is about samples; here the rows are
memory dumps, region artifacts and dynamic runs, the files are the images
(shared by content), the analyses (gzip, whose header holds the second), the
region bytes and the results, named by their contents.

| code | actions |
|---|---|
| `upload_memory_dump` with `MemoryDumpRepository.save`, on the event loop | `UploadLookup`, `UploadOpen`, `UploadClose`, `UploadInsert` |
| the routes that start a job | `StartAnalysis`, `InspectRegion`, `StartDynamic`, `CreateRun` |
| a task: reads its input, then `set_analysis`, `save_region_artifact` or `set_result` | `ReadImage`, `GivesUp`, `SelectRow`, `CheckFile`, `OpenFile`, `CloseFile`, `CommitAnalysis`, `CommitRegion`, `CommitResult`, `FinishJob` |
| `purge` | `PurgeCheck`, `PurgeSelect`, `PurgeCommit`, `PurgeUnlink` |
| the process dies | `Crash` |

A file that cannot be opened or written is a branch of these actions
(`Failure`). The runner is `JobRunner`'s; here a job has a row that is active
or not and a task that goes on when the row is gone. Three history variables
say why a file may be without a row (`stray`, `superseded`) or a row without
its file (`contested`), so that the properties state everything else; `NowNamed`
and `Restored` are all that happens to them when a row or a file is written.

### ParseCache and Overlays

`ParseCache` has one action per access of `parse_cached` to the dictionary that
the pool threads share without a lock: `Get`, `Touch`, `Store`, `Promote`,
`Compare`, `Evict`, `Return`. `Overlays` has what analysts write: each request
reads in one step (`ReadUpsert`, `ReadAdd`, `ReadPatch`) and commits in a later
one (`CommitInsert`, `CommitUpdate`, `CommitAdd`, `CommitPatch`); `engine` says
how row numbers are given out and whether references are checked.

### The algorithms

Operators, each with its reference statement among the module's properties.

* `Classify`: what an instruction is, shared by `Cfg` and `FunctionInventory`.
* `FunctionInventory`: `Decoded` (the bounded sweep), `Candidates`, `Body`
  (extent, limits), `Inventory`, `Found`, and `CallGraph`, turn after turn of
  the breadth-first queue. Reference: the graph holds the functions within the
  depth, found by paths.
* `Listings`: `Disassemble`, `DisassembleRegion`, `HexPage`, `Page`.
  Reference: consecutive pages tile the list.
* `Arrangement`: what the analyses build lists with, in a form that can be
  reasoned about: the stable `sorted` as an arrangement of positions (`RowsAt`), a
  list comprehension with a condition (`Filtered`) and a loop over rows (`Folded`).
* `MemoryAnalysis`: from plugin rows (`AllRows`, `Kept`) to `Merged`,
  `Processes`, the findings and their limits. `Bisected` is the binary search;
  its reference is containment.
* `ExternalTools`: each adapter is a table from the ways a run can end to what
  the adapter makes of it, JSON in four wrong `Shapes` included;
  `DecompileFunction` is the registry's loop. A sample may be `unmapped`: the
  address is in none of its functions, or its code cannot be disassembled, and the
  built-in decompiler raises `DisassemblyError`, which the registry passes on.
* `Migration`: schemas as sets of what revisions add; `Bootstrap` on every
  database the models, the migrations or an application start can have made.
* `Triage`: `Indicators` with suppression and limit, `Score`, `Verdict`.
* `Heuristics`: `Obfuscation` and its cut, `Flow`.

`MCAnalyses` asks one question per state (an input of one of these) and carries
the two small state machines beside them.

## 3. What is checked

| run | bounds | properties | distinct states |
|---|---|---|---|
| `jobs_safety` | 2 jobs, 1 worker, 2 cancelling threads, 1 crash, 1 fault | `TypeOK`, `TerminalEvidence`, `DroppedNeverRan`, `FuturesTrackExecutor`, `NoZombie`, `OutcomeStable`, `ImplementsLifecycle` | 914,666 |
| `jobs_live` | 2 jobs, 1 worker, 1 cancelling thread, 1 stream | `SubmittedSettles`, `CancelHonoured`, `StreamEnds` | 86 thousand |
| `store_worlds` | 2 clients, 2 principals. One request at a time: 2 samples, 2 crashes, 2 faults, no admin; overlapping requests on SQLite, and on PostgreSQL: one principal an admin, 1 sample, 1 crash, 1 fault | `RowsHaveBytes`, `ArtifactsHaveFiles`, `SerialReferencesResolve`, `SerialSamplesHaveHolders`, `SerialNoForgottenFiles`, `PostgresSamplesNotForgotten` | 2,206,563 |
| `cfg_graphs` | every region of 3 instructions of 16 kinds, of 4 of 9 kinds, of 5 of 6 kinds; two pairs of limits | `TypeOK`, `SweepClosed`, `EdgesMatchFlow`, `ReachableExact`, `DominatorsExact`, `ImmediateDominatorTree`, `LoopHeadersLoop`, `LabelsMatchTargets`, `Termination` | 357,516 |
| `evidence` | 1 client (an upload or a purge at a time), 2 jobs, 2 principals (one admin), 2 dumps of 1 image, 1 crash or failing file operation | `TypeOK`, `EvidenceServed`, `NoForgottenFiles`, `FinishedHasEvidence` | 2,643,829 |
| `analyses` | inputs below; cache: 3 threads, 3 keys, capacity 2; overlays: 2 analysts (one admin), 1 target, 1 folder, 1 sample, 2 requests, both databases | `ListingsExact`, `MemoryFaithful`, `ToolsDegrade`, `SchemaAdopted`, `CacheServes`, `OverlaysKept` | 304,110 |
| `gateway_safety` | 3 requests, limit 1, window 2. Mixed: an admin and a viewer, clock to 2, 1 shared id, export cap 1, 1 crash or fault; patient: one principal, clock to 5 | `TypeOK`, `WindowBudget`, `RetryHonest`, `TrailMatchesAnswers`, `ExportExact` | 2,141,212 |

Why the bounds are enough. Jobs interact only through the executor's slots and
the purge, so two jobs on one worker show waiting, contention and a purge that
takes both; two cancelling threads are what it takes for one stale commit to
follow another thread's. In the store, two principals are what sharing takes,
two samples what a purge that must spare one takes, and two requests every pair
of overlapping handlers. `MCStore` chooses one of three worlds at the start and
stays in it: `serial`, where the properties about rows and forgotten files are
claimed, which two requests on SQLite can break (see below), and the two databases.
Nobody acts as an admin in `serial`, since an admin's artifact keeps a sample that
nobody else can see. At the gateway, three requests of one key are what it
takes to fill a window, be refused and be refused again, and clock 2 is the end
of a window of 2. In the patient setting of `MCGateway` the clock goes to 5: a window that opens at 0
to 2 and refuses the next request gives it a `Retry-After` that ends at 3 at the
earliest, so requests come back before it, at it and after it. On PostgreSQL two
requests are every pair of a purge and another handler, two purges included. Five instructions give graphs with nested loops, loops
with two entries, unreachable blocks and joins; the proofs cover every size.

In `evidence`, two jobs and one request are what it takes for a purge or an
upload to fall between the steps of one job while another works on the same
dump or image; the second image adds nothing, since files of different images
never meet. In `analyses`, the inputs are: binaries of two code sections (4
instructions of 6 kinds, then one or two), with limits that do not bite, that
cut everything (`Tight`), or that cut nothing but the bodies (`Short`), the second
section stored in part with a symbol behind the stored bytes; sections that are empty, or stored in part; lists of up to 3 entries under every
filter; up to 2 rows of the process list, a row of the tree, regions that
overlap, are empty or inverted, with a thread and endpoints, under limits 1, 2
and 4; every triple of outcomes of the three decompilers on samples that are
whole, unmapped, damaged or gone, and every pair of two plugins; every revision made by models or migrations, started
with any models, crashed or not; strings that cover each other's hosts; three
functions with and without each sign. Two rows are what a collision takes, two
regions an overlap, and three threads what it takes to evict an entry between
two steps of a call while the dictionary is full.

Symmetry is used on requests, request threads, principals, samples, dumps and jobs, and only where
invariants and action properties are checked. Deadlock checking is off: a
server without requests, and a function that has returned, may stop.

Fairness. `JobRunner!Fairness`: threads that have begun something go on, the
pool takes work, streams poll; a task that reports progress forever is excluded
by strong fairness of `TaskEnds` (every provider call has a timeout). Nobody
has to create, cancel, watch or purge. Crashes and database errors are absent
from the liveness run, because the code recovers neither: after a crash a
queued or running row stays as it is. `Cfg!FairSpec`: a function call goes on
until it returns.

### Disagreements between code and documents

Each is a run that ends in a counterexample.

* `jobs_cancel_overtaken`: "terminal cancellation"
  (`docs/IMPLEMENTATION_PLAN.md:53`), but a job reported cancelled becomes
  running when the worker's unconditional `update(state="running")` follows a
  check made before. `CancelHonoured` shows that such a job still ends.
* `store_unlink_race`: "referenced content-addressed binaries remain intact"
  (`docs/ARCHITECTURE.md:106`), but files are chosen before the commit and
  removed after it; a sample uploaded in between loses its bytes for good.
* `gateway_audit_lost`: the server "records POST, PUT, PATCH, and DELETE request
  metadata" (`docs/AUDIT_LOGGING.md:5`), but a proxy's `X-Request-ID` is reused
  as the unique key of the event, so the second mutation under one trace id
  leaves none; the error is logged and the request succeeds.

* `overlay_crossed`: "resource reads/writes are owner-scoped" (`docs/API.md:13`),
  but on SQLite an update decided before its bookmark was deleted lands in the
  row that has taken over the number, another analyst's (two analysts with
  access to the sample, neither an admin). `OverlaysKept` shows
  that it takes reused numbers.
* `tools_degrade`: four promises about tools that fail, and each is broken by itself.
  Decompilation shall "always degrade to pseudo-C" (`decompiler/registry.py:45`), but
  Ghidra's JSON of another shape raises `KeyError`, `AttributeError` or `TypeError`,
  which the registry does not catch. "A malformed result from one plugin" shall not
  discard the others' (`docs/MEMORY_ANALYSIS.md:79`), but output that is not UTF-8 fails
  the analysis. An adapter "raises `IntegrationUnavailableError` rather than crashing"
  (`integrations/base.py:5`), but not when a tool cannot be started or its output cannot
  be decoded, nor for radare2's JSON of another shape. The enrichment "never raises for
  an operational Ghidra problem" (`malware/ghidra_enrichment.py:62`), but it does for a
  launcher that cannot be started. TLC reports the first that it meets.

The models show further consequences of the code that no run singles out:

* On SQLite a grant decided on a sample's row that a purge then deletes is committed
  after it and refers to nothing (`repository.py:94`), although a purge "deletes
  physical hash content only if no grant or analysis reference remains"
  (`docs/API.md:138`) and `models.py:56` declares a foreign key: nothing enforces it
  there. `ReferencesResolve` is therefore claimed of one request at a time.
* On PostgreSQL two owners of a sample who purge at the same time each count the
  other's uncommitted grant (`retention.py:248`), and the sample stays with its file
  and nobody who may purge it; the tests purge one after the other
  (`backend/tests/test_auth.py:351`). `SamplesNotForgotten` claims of such overlaps
  that a stored sample has its row, not that it has an owner.
* The host of a url is cut at the first slash and colon only (`iocs.py:111`): of
  `http://evil.com?x=1` it is `evil.com?x=1`, and evil.com is listed next to the url
  in spite of the docstring (`iocs.py:77`). `Host` is a constant, and the run's has
  such a url.
* A purge checks for active jobs once (`retention.py:152`) and deletes rows some
  statements later, so a job created in between loses its row while queued or
  running (`PurgeCheck`, `PurgeDelete` in `JobRunner`). `NoZombie` and
  `FinishedHasEvidence` hold nevertheless.
* After a failed write a retry adopts the torn artifact because its path exists
  (`repository.py:577`; likewise region bytes, `repository.py:770`): `CheckFile`
  goes on to the commit, and `EvidenceServed` excuses torn files after failures
  only.
* When `max_cfg_nodes` cuts the leaders, the last block takes in the rest of the
  region, branches included (`cfg.py:147`); `EdgesMatchFlow` speaks of regions
  below the limit.
* A second upload of an image rewrites the file (`repository.py:705`) while the
  first owner's job may be reading it; `EvidenceServed` states that analyses are
  of whole images in all other cases.
* `truncated` is raised when the code ends exactly at the limit
  (`disassembler.py:138`); `DisassemblyHonest` states that this is the only
  spurious case and that there is no missed one.
* The built-in decompiler raises `DisassemblyError` for an address in no function.
  The routes look the function up first (`api/routes/analysis.py:212`), so it takes
  another caller of the registry, or code that cannot be disassembled.
* Starting the application with newer models before an old database is adopted
  leaves a mixture that is refused, or, for a database under version control, an
  upgrade that cannot be applied (`Adopted` states exactly when); see
  `docs/DEVELOPMENT.md:67`.

### Mutants

Each property has a plausible error of the code (a definition headed "Mutant",
used by no specification) under which TLC finds it violated.

## 4. What is proved

For every value of the constants that meets the modules' assumptions.

**JobRunnerProofs.** `IInv` is `TypeOK` and the facts the properties need to be
inductive: what each place of `run()` implies about the row (a worker about to
complete has started its job), which Futures have a worker, that the queue
holds each pending Future once, and what a request's selected state still
guarantees at its commit. `Invariance` proves it, action by action; `Evidence`,
`DroppedJobs`, `BacklogExact` and `NoZombies` follow, `OutcomesStable` is an
action property proved from it, and `RunnerImplementsLifecycle` maps every step
to a step of `JobLifecycle` or a stutter.

**ContentStoreProofs.** Two parts, both for any number of samples, principals,
crashes and file errors, on SQLite. For any overlap of requests: `TypeCorrect`,
`SamplesKeepBytes` and
`ArtifactsKeepFiles`: a row has its file unless the file is `contested`. Their
invariant `OverlapInv` says that what rows name, or requests have written and are
about to name, is stored and nobody's to remove, unless contested (`FilesKept`);
that uploads exclude one another and the one that writes has found no row
(`UploadsApart`), without which a torn write could hit a file in use; and that
before its commit a purge has chosen derived files only (`ChoicesDerived`).
`MoveKeepsFiles` is the argument for a step of one client, stated once; the lemma
of each action supplies its four conditions. `store_unlink_race` shows that
the exception is real.
`SamplesNeverForgotten` is the converse for samples: as long as no grant or artifact
has been left without its sample, and without crash or failure, a sample's file has
a row or is in the hand of an upload or a purge. The premise is needed: a dangling
grant, as an upload that overlaps a purge can leave one, makes a later upload's insert
fail after its write. Of derived files it is false.

Under `Serial`, one request at a time: `NothingContested` (so that the two theorems
above hold without exception), `SerialReferencesResolve`, `SamplesKeepHolders`
(without admins) and `NothingForgotten`: what `store_worlds` checks in its world
`serial`. `Serial` is not
something the code guarantees, and the last two are false without it: a grant
or an artifact that the owner gets after the purge has listed what there is goes
with the rest, and leaves a sample without a holder or a file without a row. Admins are
excluded from `SamplesKeepHolders` because an admin's artifact keeps a sample that
nobody holds a grant to. The inductive invariant `SerialInv` says what each step of
the one request under way relies on (`ClaimsHold`): what it has looked up is still
so. `HoldersInv` and `FilesAccounted` add who
is about to get a grant and which files without a row the request still has in
hand.

**CfgProofs.** The invariant says what each phase has established: the kept
leaders, last instructions and successors are those of the definitions;
everything marked reachable is in every closed set that holds the entry, and
its successors are marked or their block is on the worklist; the dominator sets
contain every true dominator. From it: `RegionClosed`, `GraphMatchesFlow`,
`ReachabilityExact`, `DominanceExact` (a fixed point contains nothing but
dominators), `ImmediateDominators`, `LoopHeadersOnCycles` and `LabelsRight`
(every typed edge has the label of the branch that makes it). `LoopsRunOut` is
the safety half of `Termination`: each turn of the worklist lowers the number of
unmarked and waiting blocks by one, each turn of the fixed point the number of
claims of dominance, so neither loop can run for ever. Dominance is
stated with closed sets instead of paths, which needs no induction over paths;
the lemma `LeastElement` replaces the induction over block positions and over
chains of dominators.

**GatewayProofs.** All invariants of `gateway_safety`. `WindowBudgetCorrect`
rests on `BudgetInv`: a key's counter is at least the number of requests its
current window admitted, and every earlier window ended before it began; a
request that carries an old clock reading can only join the current window or be
refused by it. `RetryHonestCorrect` adds that a refused request read the clock
before its window's end. `ExportExactCorrect` rests on the counted events coming
before all later ones in scope, and on a lemma about the oldest n of a finite
set. `TrailCorrect` needs no strengthening but the type invariant. The first two
properties are about one process: the counters do not survive it.
`OwnIdsAreRecorded` is the other side of the run `gateway_audit_lost`: as long as
no two mutations carry the same trace id and the database works, the trail has
one event for each, by a bijection between events and answered mutations.

**EvidenceProofs.** All four invariants of the run `evidence`, for any overlap of
uploads, jobs and purges, any number of crashes and failing file operations, on
SQLite: that a purge's counts and deletes are one step is what its single writer
gives. `RowsInv` is the types and what rows and tasks know
of each other (a job of a deleted dump still has the dump's hash; a task's file
is the one its kind of job leaves). `EvidenceAccounted` adds `FilesInv`, which
says of every step between opening a file and committing a row that the file is
in hand. `FinishedJobsLeaveEvidence` adds that a task that is past its commit has
left its row (`EndedLeft`), `EvidenceAlwaysServed` that a file in hand that its
task believes to be there is whole or excused, and that a clean analysis was
made from a whole image (`CleanInv`). The history variables carry the
exceptions: without `contested` the invariant is false, since a purge removes
the files it chose before its commit. `Restored` says when a file written again
is no longer excused.

**OverlaysProofs.** `AnalystsKeepTheirWork`, for any analysts and requests. The
invariant relates what a waiting request has read to the tables: until another
request's write meets it (`met`), a row it found is still there and a row it
missed still missing, and on PostgreSQL a number once read belongs to its reader
or to nobody, because the next number is above all that were read.

**ParseCacheProofs.** `CacheAlwaysServes`, for any threads and capacity. The
entries above the capacity are counted against the calls between `Store` and
`Evict`; a call that was alone so far knows that its key is the last entry.
Lemmas say what `move_to_end` and `popitem` do to a sequence without repetition.

**AnalysesProofs.** Statements about the algorithms for inputs of every size,
where the runs try small ones; together they are all of what the run `analyses`
asks of the algorithms. They rest on `ArrangedFacts` (an arrangement of a finite
set by a strict total order has each element once, in order), on `InOrderOrders`
(sorting by keys, equal ones by position, is such an order) and on
`IterationExists`, `SameLoop` and `FirstFailure`, which give a recursive function
its values and replace an induction by a least counterexample.

* Functions: `InventoryAlwaysExact` is the whole of `FunctionsExact`, for any
  symbols and limits and any code sections that do not overlap (`Binary`). The
  sweep goes through the code in the order of its addresses (`CodeFacts`), so what
  a function extends over ends before the next candidate; what `Bounded` keeps
  bounds the jumps that stay inside. `GraphAlwaysExact`: before each turn of the
  breadth-first queue, what has been seen is what is within the depth reached, in
  the order of the depths (`TurnOnLevel`, `TurnKeepsUnderway`), and the set within
  a depth is given by paths (`NearExists`). `WholeGraphHonest` rests on
  `LowestExact`: the lowest n of a finite set are n of them.
* Listings: `RegionsHonest`, `DisassembliesHonest`; `PagesAlwaysTile` and
  `HexAlwaysTiles` say that the pages one after the other are the list and the file
  (each page goes on where the ones before it end: `PagesJoin`, `TilesJoin`);
  `EveryByteShownOnce` and `EveryItemOnOnePage` say the same of single bytes and
  items.
* Heuristics: `FindingsAlwaysReachFlow`. Of two lists put together, what is cut is
  the end, so a finding of the sample is lost only if both exceed the limit; the
  flow names a technique if a finding has it (`ThoseFacts`).
* Triage: `TriageAlwaysSteady`. The search keeps `FoundSoFar` (each indicator once,
  none after what covers it) and only appends (`GoesOn`); one more string is one
  more turn of the loop, so what was listed stays in front (`IndicatorsGrow`), and
  the points of each kind, capped as they are, grow with what is listed
  (`PointsGrow`).
* Memory: `EveryMemoryFaithful` is the whole of `MemoryFaithful`, for reports of
  any length with any numbers (negative or missing ones included) and texts,
  whichever plugins failed, under any limits. Its four parts have theorems of their
  own: `OrphansAlwaysHonest` and `NothingEverLost` (from what the loops of
  `_merge_processes` keep true of the table, row after row: one entry per pid, and
  exactly the pids of the rows so far), `ThreadsAlwaysCorrelated` (from the sort
  being by pid and then by start and from `BisectionExact`: over sorted regions that
  do not overlap, the binary search is containment) and `FindingsAlwaysWarned`.
* Tools: `DecompilationAlwaysInOrder` rests on `BuiltInLast` (every list of
  candidates has the built-in decompiler at its end and only there) and on what each
  adapter does with each way a tool can end (`DecompilerEnds`). It claims an answer
  for a function of a whole sample only while no tool writes JSON of another shape,
  which is all that `tools_degrade` leaves. `PluginsAlwaysAccounted` and
  `NeverResultWithoutRun` go through the same tables.
* Databases: `EveryDatabaseAdopted` is the whole of `Adopted`: an upgrade loses
  nothing, keeps the version table true and gets from exactly the schema of a
  revision to the current one (`UpgradeFacts`), and an unversioned database with
  exactly the schema of a revision is recognised as of that revision
  (`LegacyFacts`).

`RunsEnumerate` and `RunsAsk` are the invariants that the inputs of the runs are
inputs of these theorems, whence `RunsListingsExact`, `RunsMemoryFaithful`,
`RunsToolsDegrade` and `RunsSchemaAdopted`: that the inputs of the theorems include
those the runs enumerate also shows that their hypotheses are met. What the
hypotheses leave out: code sections that overlap, sections with more bytes in the
file than their size (the code never reads those), two functions with one address,
and rules whose severity is none of the five.

Assumptions on constants: the sets of workers, threads and requests are finite
where something is counted, `None` and the markers of states are no names
(`NoneAssumption`, `OverlaysAssumption`), Python's `None` is no number and no truth
value (`UnknownAssumption`), the limits are natural numbers. TLC
evaluates them in every run.

Only model-checked, and why:

* `SubmittedSettles`, `CancelHonoured`, `StreamEnds`, `Termination`: liveness
  under fairness is out of the proof system's reach.
* `RowsHaveBytes` and `ArtifactsHaveFiles` on PostgreSQL, and
  `PostgresSamplesNotForgotten`: the proofs about the store are of SQLite.

Every other invariant and step property that a passing run checks is proved.

## 5. What is not modelled

Dumps, regions and runs on PostgreSQL: what overlapping transactions do to counts of
references is modelled for samples and artifacts (`StoreOnPostgres`); two purges of a
shared image miss each other there in the same way.
Text, logging, formatting, the percentage and the messages of jobs; the
external tools (Capstone, LIEF, UPX, Volatility, decompilers) beyond the ways
they can end and what they return; the comparison of keys and roles beyond its
outcomes; the filters and hash chain of exports; the health probe's exemption.
The format parsers and the byte-level conversions (transforms, entropy, strings)
have no state, no order and no error path but refusal: unit tests reach what
they do. The challenges are generators, `api/schemas.py` declares shapes, the
frontend is a client. A report cuts lists to fixed lengths and lays them out. Names, confidences and evidence texts are left out of the
analyses; downgrades, which no code calls, and the rows that upgrades carry over
are left out of `Migration`. Nothing reads the event stream or the metrics for a
decision. `PROJECT.json` lists every component with its status.

## 6. Plan

1. Done: `JobRunner`, `JobLifecycle`, `ContentStore`, `Cfg`, `Gateway` with
   `RateLimiter` and `AuditTrail`, and their proofs.
2. Done: `Evidence`, `ParseCache`, `Overlays` and the algorithms, model-checked.
3. Done: the invariants of all state machines proved, and what the algorithms do
   for inputs of every size.
4. Done: the files of samples however requests overlap, with the history of what a
   purge chose before a row named it.
5. Done: the store on PostgreSQL, model-checked; what tools do with malformed answers
   and where the documents promise more.
