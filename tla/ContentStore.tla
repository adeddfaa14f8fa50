----------------------------- MODULE ContentStore -----------------------------
(***************************************************************************)
(* Content-addressed samples and derived artifacts: rows in SQL, bytes in  *)
(* files named by their hash, shared by all principals (BinaryRepository,  *)
(* ArtifactRepository) and the purge of one principal's data               *)
(* (RetentionRepository).                                                  *)
(*                                                                         *)
(* Row and file change in different steps, and files are outside every     *)
(* transaction.  A step here is one SELECT, one file operation, or one     *)
(* write transaction, and foreign keys are not enforced: the database is   *)
(* SQLite, the default, which admits one writer at a time, so that what a  *)
(* purge deletes and counts before it commits is one step.  On PostgreSQL  *)
(* neither is so: module StoreOnPostgres.                                  *)
(* Uploads run on the event loop and never overlap; unpacking and purging  *)
(* run on pool threads and do.                                             *)
(*                                                                         *)
(* One derived artifact per sample stands for every reference that has a   *)
(* file of its own.  Memory dumps, region artifacts and dynamic results    *)
(* are written, committed and purged in the same order.  References        *)
(* without a file (annotations, bookmarks, ...) and the purge's check for  *)
(* active jobs (module JobRunner) are left out.                            *)
(*                                                                         *)
(* Definitions headed "Mutant" are plausible errors of the definition that *)
(* follows them; no specification uses them.                               *)
(***************************************************************************)
EXTENDS Naturals

CONSTANTS
    Clients,      \* requests that can be under way at once
    Principals,
    Admins,       \* principals with the admin role: reads are unrestricted
    Hashes,       \* samples, by SHA-256
    MaxCrashes,   \* bound: process crashes considered
    MaxFaults     \* bound: failing file operations considered

ASSUME ContentStoreAssumption ==
    /\ Admins \subseteq Principals
    /\ MaxCrashes \in Nat
    /\ MaxFaults \in Nat

VARIABLES
    binary,    \* the hashes that have a row in binaries
    access,    \* the rows of binary_access
    artifact,  \* the rows of analysis_artifacts: owner and sample
    disk,      \* what is stored under each name
    call,      \* what each client's request is doing
    contested, \* history: files named by a row although a purge still had them to remove
    crashes,
    faults

vars == <<binary, access, artifact, disk, call, contested, crashes, faults>>

Rows == <<binary, access, artifact>>
Bounded == <<crashes, faults>>

-----------------------------------------------------------------------------

Sample(h) == <<"sample", h>>
Derived(h) == <<"derived", h>>
Files == {Sample(h) : h \in Hashes} \cup {Derived(h) : h \in Hashes}

Pairs == Principals \X Hashes

\* A call has a step, a principal and a sample; a purge has what it selected.
Idle == [step |-> "idle"]
UploadSteps == {"upload-write", "upload-insert", "grant"}
UnpackSteps == {"require", "lookup", "write", "insert"}
PurgeSteps == {"hashes", "delete", "unlink"}

UploadCall == [step : UploadSteps, who : Principals, hash : Hashes]
UnpackCall == [step : UnpackSteps, who : Principals, hash : Hashes]
PurgeCall == [step : PurgeSteps, who : Principals, grants : BOOLEAN,
              owned : SUBSET Hashes, paths : SUBSET Files]

TypeOK ==
    /\ binary \subseteq Hashes
    /\ access \subseteq Pairs
    /\ artifact \subseteq Pairs
    /\ disk \in [Files -> {"none", "torn", "whole"}]
    /\ call \in [Clients -> {Idle} \cup UploadCall \cup UnpackCall \cup PurgeCall]
    /\ contested \subseteq Files
    /\ crashes \in 0..MaxCrashes
    /\ faults \in 0..MaxFaults

Init ==
    /\ binary = {}
    /\ access = {}
    /\ artifact = {}
    /\ disk = [f \in Files |-> "none"]
    /\ call = [c \in Clients |-> Idle]
    /\ contested = {}
    /\ crashes = 0
    /\ faults = 0

Become(c, new) == call' = [call EXCEPT ![c] = new]
Advance(c, step) == call' = [call EXCEPT ![c].step = step]
Finish(c) == Become(c, Idle)

\* write_bytes truncates and writes; when it fails the file is left torn.
WriteFile(f) ==
    \/ /\ disk' = [disk EXCEPT ![f] = "whole"]
       /\ UNCHANGED faults
    \/ /\ faults < MaxFaults
       /\ faults' = faults + 1
       /\ disk' = [disk EXCEPT ![f] = "torn"]

-----------------------------------------------------------------------------
(* POST /binaries: BinaryRepository.save *)

Uploading == \E c \in Clients : call[c].step \in UploadSteps

UploadLookup(c, p, h) ==
    /\ call[c] = Idle
    /\ ~Uploading
    /\ Become(c, [step |-> IF h \in binary THEN "grant" ELSE "upload-write",
                  who |-> p, hash |-> h])
    /\ UNCHANGED <<Rows, disk, Bounded>>

\* Mutant: trusts a file that is already there.
UploadWriteOnce(c) ==
    LET f == Sample(call[c].hash) IN
    /\ call[c].step = "upload-write"
    /\ IF disk[f] # "none" THEN UNCHANGED <<disk, faults>> ELSE WriteFile(f)
    /\ IF disk'[f] = "torn" /\ faults' # faults THEN Finish(c)
                                               ELSE Advance(c, "upload-insert")
    /\ UNCHANGED <<Rows, crashes>>

UploadWrite(c) ==
    LET f == Sample(call[c].hash) IN
    /\ call[c].step = "upload-write"
    /\ WriteFile(f)
    /\ IF disk'[f] = "whole" THEN Advance(c, "upload-insert") ELSE Finish(c)
    /\ UNCHANGED <<Rows, crashes>>

\* Row and grant in one transaction; an IntegrityError if either is there.
UploadInsert(c) ==
    LET h == call[c].hash
        grant == <<call[c].who, h>>
    IN
    /\ call[c].step = "upload-insert"
    /\ IF h \in binary \/ grant \in access
         THEN UNCHANGED <<binary, access>>
         ELSE /\ binary' = binary \cup {h}
              /\ access' = access \cup {grant}
    /\ Finish(c)
    /\ UNCHANGED <<artifact, disk, Bounded>>

\* _grant_access; the row selected before may have been deleted since, and nothing
\* refuses the grant then.
Grant(c) ==
    LET h == call[c].hash IN
    /\ call[c].step = "grant"
    /\ access' = access \cup {<<call[c].who, h>>}
    /\ Finish(c)
    /\ UNCHANGED <<binary, artifact, disk, Bounded>>

-----------------------------------------------------------------------------
(* POST /binaries/{id}/unpack: BinaryRepository.get, then ArtifactRepository.save *)

MaySee(p, h) == p \in Admins \/ <<p, h>> \in access

\* The route loads the record and runs UPX on the stored file.
UnpackStart(c, p, h) ==
    /\ call[c] = Idle
    /\ h \in binary
    /\ MaySee(p, h)
    /\ disk[Sample(h)] = "whole"
    /\ Become(c, [step |-> "require", who |-> p, hash |-> h])
    /\ UNCHANGED <<Rows, disk, Bounded>>

\* _require_binary_access: the session still holds the binary it loaded before
\* UPX ran, so only the grant is selected again.
RequireAccess(c) ==
    /\ call[c].step = "require"
    /\ IF MaySee(call[c].who, call[c].hash) THEN Advance(c, "lookup") ELSE Finish(c)
    /\ UNCHANGED <<Rows, disk, Bounded>>

\* An artifact this owner has already is returned; a file with the right name is
\* taken for the right bytes.
UnpackLookup(c) ==
    LET h == call[c].hash IN
    /\ call[c].step = "lookup"
    /\ IF <<call[c].who, h>> \in artifact THEN Finish(c)
       ELSE Advance(c, IF disk[Derived(h)] = "none" THEN "write" ELSE "insert")
    /\ UNCHANGED <<Rows, disk, Bounded>>

UnpackWrite(c) ==
    LET f == Derived(call[c].hash) IN
    /\ call[c].step = "write"
    /\ WriteFile(f)
    /\ IF disk'[f] = "whole" THEN Advance(c, "insert") ELSE Finish(c)
    /\ UNCHANGED <<Rows, crashes>>

\* The unique constraint refuses a second row for the same owner and content.
UnpackInsert(c) ==
    LET h == call[c].hash IN
    /\ call[c].step = "insert"
    /\ artifact' = artifact \cup {<<call[c].who, h>>}
    /\ Finish(c)
    /\ UNCHANGED <<binary, access, disk, Bounded>>

-----------------------------------------------------------------------------
(* POST /retention/purge *)

\* The paths of the owner's artifacts, read before anything is deleted ...
PurgeStart(c, p, grants) ==
    /\ call[c] = Idle
    /\ Become(c, [step |-> "hashes", who |-> p, grants |-> grants, owned |-> {},
                  paths |-> {Derived(h) : h \in {x \in Hashes : <<p, x>> \in artifact}}])
    /\ UNCHANGED <<Rows, disk, Bounded>>

\* ... and, by another SELECT, the samples granted to the owner.
PurgeHashes(c) ==
    /\ call[c].step = "hashes"
    /\ call' = [call EXCEPT ![c].step = "delete",
                  ![c].owned = {h \in Hashes : <<call[c].who, h>> \in access}]
    /\ UNCHANGED <<Rows, disk, Bounded>>

OfOthers(pairs, p) == {pair \in pairs : pair[1] # p}
Referenced(pairs, h) == \E p \in Principals : <<p, h>> \in pairs

\* Mutants of the next two definitions: only artifacts count as references; the
\* references are counted before the owner's rows are deleted; every file the
\* owner named is removed; the files of deleted samples are not.
UnreferencedByArtifact(owned, grants, derived) ==
    {h \in owned : ~Referenced(derived, h)}
UnreferencedEarly(owned, grants, derived) ==
    {h \in owned : ~Referenced(access, h)}
RemovableAlways(paths, derived, dead) == paths \cup {Sample(h) : h \in dead}
RemovableNotSamples(paths, derived, dead) ==
    {f \in paths : ~\E h \in Hashes : f = Derived(h) /\ Referenced(derived, h)}

\* _binary_has_references, after the owner's rows are gone.
Unreferenced(owned, grants, derived) ==
    {h \in owned : ~Referenced(grants, h) /\ ~Referenced(derived, h)}

\* _path_has_reference: a deleted binary's file is always removable.
Removable(paths, derived, dead) ==
    {f \in paths : ~\E h \in Hashes : f = Derived(h) /\ Referenced(derived, h)}
      \cup {Sample(h) : h \in dead}

\* From the first DELETE to the commit: delete the owner's rows, then binaries
\* nobody refers to any more, and note the files to remove.
PurgeCommit(c) ==
    LET p == call[c].who
        artifacts == OfOthers(artifact, p)
        grants == IF call[c].grants THEN OfOthers(access, p) ELSE access
        dead == IF call[c].grants
                  THEN Unreferenced(call[c].owned, grants, artifacts) \cap binary
                  ELSE {}
    IN
    /\ call[c].step = "delete"
    /\ artifact' = artifacts
    /\ access' = grants
    /\ binary' = binary \ dead
    /\ call' = [call EXCEPT ![c].step = "unlink",
                            ![c].paths = Removable(@, artifacts, dead)]
    /\ UNCHANGED <<disk, Bounded>>

\* _remove_files, one file after the other; one that fails is skipped.
PurgeUnlink(c) ==
    /\ call[c].step = "unlink"
    /\ \E f \in call[c].paths :
          /\ call' = [call EXCEPT ![c].paths = @ \ {f}]
          /\ \/ /\ disk' = [disk EXCEPT ![f] = "none"]
                /\ UNCHANGED faults
             \/ /\ faults < MaxFaults
                /\ faults' = faults + 1
                /\ UNCHANGED disk
    /\ UNCHANGED <<Rows, crashes>>

PurgeEnd(c) ==
    /\ call[c].step = "unlink"
    /\ call[c].paths = {}
    /\ Finish(c)
    /\ UNCHANGED <<Rows, disk, Bounded>>

-----------------------------------------------------------------------------
(* The process dies: what was committed and what was written stays, and a   *)
(* file being written is torn.                                              *)

BeingWritten ==
    {Sample(call[c].hash) : c \in {x \in Clients : call[x].step = "upload-write"}}
      \cup {Derived(call[c].hash) : c \in {x \in Clients : call[x].step = "write"}}

Crash ==
    /\ crashes < MaxCrashes
    /\ crashes' = crashes + 1
    /\ \E torn \in SUBSET BeingWritten :
          disk' = [f \in Files |-> IF f \in torn THEN "torn" ELSE disk[f]]
    /\ call' = [c \in Clients |-> Idle]
    /\ UNCHANGED <<Rows, faults>>

-----------------------------------------------------------------------------

Upload(c) ==
    \/ \E p \in Principals, h \in Hashes : UploadLookup(c, p, h)
    \/ UploadWrite(c) \/ UploadInsert(c) \/ Grant(c)

Unpack(c) ==
    \/ \E p \in Principals, h \in Hashes : UnpackStart(c, p, h)
    \/ RequireAccess(c) \/ UnpackLookup(c) \/ UnpackWrite(c) \/ UnpackInsert(c)

Purge(c) ==
    \/ \E p \in Principals, grants \in BOOLEAN : PurgeStart(c, p, grants)
    \/ PurgeHashes(c) \/ PurgeCommit(c) \/ PurgeUnlink(c) \/ PurgeEnd(c)

Step == (\E c \in Clients : Upload(c) \/ Unpack(c) \/ Purge(c)) \/ Crash

\* What client c has written or found and is about to commit a row for, and what the
\* purges that are past their commit go on to remove.
Claims(c) ==
    CASE call[c].step = "upload-insert" -> {Sample(call[c].hash)}
      [] call[c].step = "insert" -> {Derived(call[c].hash)}
      [] OTHER -> {}
Claimed == UNION {Claims(c) : c \in Clients}
Doomed == UNION {call[c].paths : c \in {x \in Clients : call[x].step = "unlink"}}

\* A file is contested from the moment it is both, until somebody has written or found
\* it again.  Nothing else depends on this history.
Contest ==
    contested' = (contested \ UNION {Claims(c)' \ Claims(c) : c \in Clients})
                    \cup (Claimed' \cap Doomed')

Next == Step /\ Contest

Spec == Init /\ [][Next]_vars

-----------------------------------------------------------------------------
(* Properties *)

\* Every grant and every artifact row names a sample that has its row: binaries are
\* deleted only when nobody refers to them, by a grant or by an artifact of another
\* owner.  One request at a time; with two, docs/API.md:139 (content is deleted only
\* if no grant or analysis reference remains) fails, since a grant decided before a
\* purge's commit is added after it.
ReferencesResolve ==
    \A p \in Principals, h \in Hashes :
        <<p, h>> \in access \cup artifact => h \in binary

\* A sample that has its row has its bytes, all of them: files are written before
\* the row is committed and removed after its deletion is, and a torn file left
\* by a failed write is written again.  Crashes, failing writes and overlapping
\* requests included, with one exception: the file was written while a purge of an
\* earlier row still had it to remove.
RowsHaveBytes ==
    \A h \in binary : Sample(h) \notin contested => disk[Sample(h)] = "whole"

\* No purge orphans a sample: while it has a row, somebody can still see it and
\* so purge it.  One request at a time and no admin, whose artifacts refer to
\* samples without a grant.
SamplesHaveHolders == \A h \in binary : Referenced(access, h)

\* What a purge leaves alone: another principal's artifact keeps its file even
\* though the two share it, whatever overlaps, with the same exception: an unpacking
\* was about to name the file when a purge chose it or still had it to remove.
ArtifactsHaveFiles ==
    \A p \in Principals, h \in Hashes :
        <<p, h>> \in artifact /\ Derived(h) \notin contested => disk[Derived(h)] # "none"

\* Between requests nothing of a purged sample is left on the disk: every file
\* has a row, unless a crash or a failing file operation left it behind.
NoForgottenFiles ==
    crashes + faults = 0 /\ (\A c \in Clients : call[c] = Idle) =>
        \A h \in Hashes :
            /\ disk[Sample(h)] # "none" => h \in binary
            /\ disk[Derived(h)] # "none" => Referenced(artifact, h)

\* docs/ARCHITECTURE.md:106: referenced content-addressed binaries remain intact.
ReferencedRemainIntact ==
    \A p \in Principals, h \in Hashes :
        <<p, h>> \in access /\ h \in binary => disk[Sample(h)] = "whole"
=============================================================================
