-------------------------- MODULE ContentStoreProofs --------------------------
(***************************************************************************)
(* Proofs about ContentStore for any clients, principals and samples and   *)
(* any number of crashes and file errors: types, the files of rows and     *)
(* forgotten samples for every interleaving of requests; references,       *)
(* holders and forgotten files for one request at a time (Serial).         *)
(***************************************************************************)
EXTENDS ContentStore, TLAPS

\* A binary is deleted only when neither a remaining grant nor a remaining
\* artifact names it.
LEMMA PurgeSparesReferenced ==
  ASSUME NEW c \in Clients, PurgeCommit(c), ReferencesResolve
  PROVE  ReferencesResolve'
<1> DEFINE p == call[c].who
           artifacts == OfOthers(artifact, p)
           grants == IF call[c].grants THEN OfOthers(access, p) ELSE access
           dead == IF call[c].grants
                     THEN Unreferenced(call[c].owned, grants, artifacts) \cap binary
                     ELSE {}
<1>1. artifact' = artifacts /\ access' = grants /\ binary' = binary \ dead
  BY DEF PurgeCommit
<1>2. artifacts \subseteq artifact /\ grants \subseteq access
  BY DEF OfOthers
<1>3. \A q \in Principals, h \in dead : <<q, h>> \notin grants \cup artifacts
  BY DEF Unreferenced, Referenced
<1> HIDE DEF artifacts, grants, dead
<1>4. ASSUME NEW q \in Principals, NEW h \in Hashes, <<q, h>> \in access' \cup artifact'
      PROVE  h \in binary'
  <2>1. h \in binary
    BY <1>1, <1>2, <1>4 DEF ReferencesResolve
  <2>2. h \notin dead
    BY <1>1, <1>3, <1>4
  <2>3. QED BY <1>1, <2>1, <2>2
<1>5. QED BY <1>4 DEF ReferencesResolve

-----------------------------------------------------------------------------
(* Type correctness *)

\* The step of a call says which fields it has.
LEMMA CallShape ==
  ASSUME TypeOK, NEW c \in Clients
  PROVE  /\ call[c].step \in {"idle"} \cup UploadSteps \cup UnpackSteps \cup PurgeSteps
         /\ call[c].step = "idle" <=> call[c] = Idle
         /\ call[c].step \in UploadSteps => call[c] \in UploadCall
         /\ call[c].step \in UnpackSteps => call[c] \in UnpackCall
         /\ call[c].step \in PurgeSteps => call[c] \in PurgeCall
<1>1. call[c] \in {Idle} \cup UploadCall \cup UnpackCall \cup PurgeCall
  BY DEF TypeOK
<1>2. CASE call[c] = Idle
  BY <1>2 DEF Idle, UploadSteps, UnpackSteps, PurgeSteps
<1>3. CASE call[c] \in UploadCall
  BY <1>3 DEF UploadCall, Idle, UploadSteps, UnpackSteps, PurgeSteps
<1>4. CASE call[c] \in UnpackCall
  BY <1>4 DEF UnpackCall, Idle, UploadSteps, UnpackSteps, PurgeSteps
<1>5. CASE call[c] \in PurgeCall
  BY <1>5 DEF PurgeCall, Idle, UploadSteps, UnpackSteps, PurgeSteps
<1>6. QED BY <1>1, <1>2, <1>3, <1>4, <1>5

LEMMA CallShapeNext ==
  ASSUME TypeOK', NEW c \in Clients
  PROVE  /\ call'[c].step \in UploadSteps => call'[c] \in UploadCall
         /\ call'[c].step \in UnpackSteps => call'[c] \in UnpackCall
         /\ call'[c].step \in PurgeSteps => call'[c] \in PurgeCall
<1>1. call'[c] \in {Idle} \cup UploadCall \cup UnpackCall \cup PurgeCall
  BY DEF TypeOK
<1>2. QED BY <1>1 DEF Idle, UploadCall, UnpackCall, PurgeCall, UploadSteps, UnpackSteps,
                      PurgeSteps

\* No two names of files are the same.
LEMMA FilesApart ==
  ASSUME NEW g, NEW h
  PROVE  /\ Sample(g) = Sample(h) <=> g = h
         /\ Derived(g) = Derived(h) <=> g = h
         /\ Sample(g) # Derived(h)
  BY DEF Sample, Derived

Calls == {Idle} \cup UploadCall \cup UnpackCall \cup PurgeCall

\* Giving one call a value keeps the type of all of them.
LEMMA BecomeKeepsCalls ==
  ASSUME TypeOK, NEW c \in Clients, NEW new \in Calls, Become(c, new)
  PROVE  call' \in [Clients -> Calls]
  BY DEF TypeOK, Calls, Become

\* So does moving an upload, or an unpacking, to another of its steps.
LEMMA AdvanceKeepsCalls ==
  ASSUME TypeOK, NEW c \in Clients, NEW step, Advance(c, step),
         \/ call[c].step \in UploadSteps /\ step \in UploadSteps
         \/ call[c].step \in UnpackSteps /\ step \in UnpackSteps
  PROVE  /\ call' \in [Clients -> Calls]
         /\ call'[c] = [call[c] EXCEPT !.step = step]
<1>1. call' = [call EXCEPT ![c] = [call[c] EXCEPT !.step = step]]
  BY DEF Advance
<1>2. [call[c] EXCEPT !.step = step] \in Calls
  <2>1. CASE call[c].step \in UploadSteps /\ step \in UploadSteps
    <3>1. call[c] \in UploadCall
      BY <2>1, CallShape
    <3>2. [call[c] EXCEPT !.step = step] \in UploadCall
      BY <2>1, <3>1 DEF UploadCall
    <3>3. QED BY <3>2 DEF Calls
  <2>2. CASE call[c].step \in UnpackSteps /\ step \in UnpackSteps
    <3>1. call[c] \in UnpackCall
      BY <2>2, CallShape
    <3>2. [call[c] EXCEPT !.step = step] \in UnpackCall
      BY <2>2, <3>1 DEF UnpackCall
    <3>3. QED BY <3>2 DEF Calls
  <2>3. QED BY <2>1, <2>2
<1>3. call \in [Clients -> Calls]
  BY DEF TypeOK, Calls
<1>4. QED BY <1>1, <1>2, <1>3

LEMMA FinishKeepsCalls ==
  ASSUME TypeOK, NEW c \in Clients, Finish(c)
  PROVE  call' \in [Clients -> Calls]
<1>1. Idle \in Calls
  BY DEF Calls
<1>2. QED BY <1>1, BecomeKeepsCalls DEF Finish

\* A write leaves a whole file, or a torn one and a fault that is counted.
LEMMA WriteFileType ==
  ASSUME TypeOK, NEW f \in Files, WriteFile(f), ContentStoreAssumption
  PROVE  /\ disk' \in [Files -> {"none", "torn", "whole"}]
         /\ faults' \in 0..MaxFaults
  BY DEF TypeOK, WriteFile, ContentStoreAssumption

\* The type invariant without the history.
StateOK ==
    /\ binary \subseteq Hashes
    /\ access \subseteq Pairs
    /\ artifact \subseteq Pairs
    /\ disk \in [Files -> {"none", "torn", "whole"}]
    /\ call \in [Clients -> Calls]
    /\ crashes \in 0..MaxCrashes
    /\ faults \in 0..MaxFaults

LEMMA StepKeepsState ==
  ASSUME TypeOK, [Next]_vars
  PROVE  StateOK'
<1> USE ContentStoreAssumption DEF StateOK
<1>1. ASSUME NEW c \in Clients, NEW p \in Principals, NEW h \in Hashes, UploadLookup(c, p, h)
      PROVE  StateOK'
  <2>1. \E step \in UploadSteps : Become(c, [step |-> step, who |-> p, hash |-> h])
    BY <1>1 DEF UploadLookup, UploadSteps
  <2>2. PICK step \in UploadSteps : Become(c, [step |-> step, who |-> p, hash |-> h])
    BY <2>1
  <2>3. [step |-> step, who |-> p, hash |-> h] \in Calls
    BY DEF Calls, UploadCall
  <2>4. call' \in [Clients -> Calls]
    BY <2>2, <2>3, BecomeKeepsCalls
  <2>5. QED BY <1>1, <2>4 DEF TypeOK, UploadLookup, Rows, Bounded, Calls
<1>2. ASSUME NEW c \in Clients, UploadWrite(c) PROVE StateOK'
  <2>1. call[c].step \in UploadSteps /\ call[c].hash \in Hashes
    BY <1>2, CallShape DEF UploadWrite, UploadSteps, UploadCall
  <2>2. Sample(call[c].hash) \in Files
    BY <2>1 DEF Files
  <2>3. call' \in [Clients -> Calls]
    BY <1>2, <2>1, AdvanceKeepsCalls, FinishKeepsCalls DEF UploadWrite, UploadSteps
  <2>4. QED BY <1>2, <2>2, <2>3, WriteFileType DEF UploadWrite, TypeOK, Rows, Calls
<1>3. ASSUME NEW c \in Clients, UploadInsert(c) PROVE StateOK'
  <2>1. call[c].hash \in Hashes /\ call[c].who \in Principals
    BY <1>3, CallShape DEF UploadInsert, UploadSteps, UploadCall
  <2>2. call' \in [Clients -> Calls]
    BY <1>3, FinishKeepsCalls DEF UploadInsert
  <2>3. binary' \subseteq Hashes /\ access' \subseteq Pairs
    BY <1>3, <2>1 DEF UploadInsert, TypeOK, Pairs
  <2>4. QED BY <1>3, <2>2, <2>3 DEF UploadInsert, TypeOK, Bounded, Calls
<1>4. ASSUME NEW c \in Clients, Grant(c) PROVE StateOK'
  <2>1. call[c].hash \in Hashes /\ call[c].who \in Principals
    BY <1>4, CallShape DEF Grant, UploadSteps, UploadCall
  <2>2. call' \in [Clients -> Calls]
    BY <1>4, FinishKeepsCalls DEF Grant
  <2>3. access' \subseteq Pairs
    BY <1>4, <2>1 DEF Grant, TypeOK, Pairs
  <2>4. QED BY <1>4, <2>2, <2>3 DEF Grant, TypeOK, Bounded, Calls
<1>5. ASSUME NEW c \in Clients, NEW p \in Principals, NEW h \in Hashes, UnpackStart(c, p, h)
      PROVE  StateOK'
  <2>1. [step |-> "require", who |-> p, hash |-> h] \in Calls
    BY DEF Calls, UnpackCall, UnpackSteps
  <2>2. call' \in [Clients -> Calls]
    BY <1>5, <2>1, BecomeKeepsCalls DEF UnpackStart
  <2>3. QED BY <1>5, <2>2 DEF UnpackStart, TypeOK, Rows, Bounded, Calls
<1>6. ASSUME NEW c \in Clients, RequireAccess(c) PROVE StateOK'
  <2>1. call' \in [Clients -> Calls]
    BY <1>6, AdvanceKeepsCalls, FinishKeepsCalls DEF RequireAccess, UnpackSteps
  <2>2. QED BY <1>6, <2>1 DEF RequireAccess, TypeOK, Rows, Bounded, Calls
<1>7. ASSUME NEW c \in Clients, UnpackLookup(c) PROVE StateOK'
  <2>1. call' \in [Clients -> Calls]
    BY <1>7, AdvanceKeepsCalls, FinishKeepsCalls DEF UnpackLookup, UnpackSteps
  <2>2. QED BY <1>7, <2>1 DEF UnpackLookup, TypeOK, Rows, Bounded, Calls
<1>8. ASSUME NEW c \in Clients, UnpackWrite(c) PROVE StateOK'
  <2>1. call[c].step \in UnpackSteps /\ call[c].hash \in Hashes
    BY <1>8, CallShape DEF UnpackWrite, UnpackSteps, UnpackCall
  <2>2. Derived(call[c].hash) \in Files
    BY <2>1 DEF Files
  <2>3. call' \in [Clients -> Calls]
    BY <1>8, <2>1, AdvanceKeepsCalls, FinishKeepsCalls DEF UnpackWrite, UnpackSteps
  <2>4. QED BY <1>8, <2>2, <2>3, WriteFileType DEF UnpackWrite, TypeOK, Rows, Calls
<1>9. ASSUME NEW c \in Clients, UnpackInsert(c) PROVE StateOK'
  <2>1. call[c].hash \in Hashes /\ call[c].who \in Principals
    BY <1>9, CallShape DEF UnpackInsert, UnpackSteps, UnpackCall
  <2>2. call' \in [Clients -> Calls]
    BY <1>9, FinishKeepsCalls DEF UnpackInsert
  <2>3. artifact' \subseteq Pairs
    BY <1>9, <2>1 DEF UnpackInsert, TypeOK, Pairs
  <2>4. QED BY <1>9, <2>2, <2>3 DEF UnpackInsert, TypeOK, Bounded, Calls
<1>10. ASSUME NEW c \in Clients, NEW p \in Principals, NEW grants \in BOOLEAN,
              PurgeStart(c, p, grants)
       PROVE  StateOK'
  <2> DEFINE paths == {Derived(h) : h \in {x \in Hashes : <<p, x>> \in artifact}}
             new == [step |-> "hashes", who |-> p, grants |-> grants, owned |-> {},
                     paths |-> paths]
  <2>1. paths \subseteq Files
    BY DEF Files
  <2>2. new \in Calls
    BY <2>1 DEF Calls, PurgeCall, PurgeSteps
  <2>3. call' \in [Clients -> Calls]
    BY <1>10, <2>2, BecomeKeepsCalls DEF PurgeStart
  <2>4. QED BY <1>10, <2>3 DEF PurgeStart, TypeOK, Rows, Bounded, Calls
<1>11. ASSUME NEW c \in Clients, PurgeHashes(c) PROVE StateOK'
  <2>1. call[c] \in PurgeCall
    BY <1>11, CallShape DEF PurgeHashes, PurgeSteps
  <2>2. [call[c] EXCEPT !.step = "delete",
                        !.owned = {h \in Hashes : <<call[c].who, h>> \in access}] \in PurgeCall
    BY <2>1 DEF PurgeCall, PurgeSteps
  <2>3. call' \in [Clients -> Calls]
    BY <1>11, <2>2 DEF PurgeHashes, TypeOK, Calls
  <2>4. QED BY <1>11, <2>3 DEF PurgeHashes, TypeOK, Rows, Bounded, Calls
<1>12. ASSUME NEW c \in Clients, PurgeCommit(c) PROVE StateOK'
  <2> DEFINE p == call[c].who
             artifacts == OfOthers(artifact, p)
             grants == IF call[c].grants THEN OfOthers(access, p) ELSE access
             dead == IF call[c].grants
                       THEN Unreferenced(call[c].owned, grants, artifacts) \cap binary
                       ELSE {}
             paths == Removable(call[c].paths, artifacts, dead)
  <2>1. call[c] \in PurgeCall
    BY <1>12, CallShape DEF PurgeCommit, PurgeSteps
  <2>2. dead \subseteq Hashes
    BY DEF TypeOK
  <2>3. paths \subseteq Files
    <3> HIDE DEF dead, artifacts
    <3> QED BY <2>1, <2>2 DEF Removable, Files, PurgeCall
  <2>4. artifacts \subseteq artifact /\ grants \subseteq access /\ binary \ dead \subseteq binary
    BY DEF OfOthers
  <2>5. /\ artifact' = artifacts /\ access' = grants /\ binary' = binary \ dead
        /\ call' = [call EXCEPT ![c] = [call[c] EXCEPT !.step = "unlink", !.paths = paths]]
        /\ UNCHANGED <<disk, Bounded>>
    BY <1>12 DEF PurgeCommit
  <2> HIDE DEF artifacts, grants, dead, paths
  <2>6. [call[c] EXCEPT !.step = "unlink", !.paths = paths] \in PurgeCall
    BY <2>1, <2>3 DEF PurgeCall, PurgeSteps
  <2>7. call' \in [Clients -> Calls]
    BY <2>5, <2>6 DEF TypeOK, Calls
  <2>8. QED BY <2>4, <2>5, <2>7 DEF TypeOK, Bounded, Calls
<1>13. ASSUME NEW c \in Clients, PurgeUnlink(c) PROVE StateOK'
  <2>1. call[c] \in PurgeCall
    BY <1>13, CallShape DEF PurgeUnlink, PurgeSteps
  <2>2. PICK f \in call[c].paths :
          /\ call' = [call EXCEPT ![c] = [call[c] EXCEPT !.paths = call[c].paths \ {f}]]
          /\ \/ /\ disk' = [disk EXCEPT ![f] = "none"]
                /\ UNCHANGED faults
             \/ /\ faults < MaxFaults
                /\ faults' = faults + 1
                /\ UNCHANGED disk
    BY <1>13 DEF PurgeUnlink
  <2>3. [call[c] EXCEPT !.paths = call[c].paths \ {f}] \in PurgeCall
    BY <2>1 DEF PurgeCall
  <2>4. call' \in [Clients -> Calls]
    BY <2>2, <2>3 DEF TypeOK, Calls
  <2>5. disk' \in [Files -> {"none", "torn", "whole"}] /\ faults' \in 0..MaxFaults
    BY <2>2 DEF TypeOK, ContentStoreAssumption
  <2>6. QED BY <1>13, <2>4, <2>5 DEF PurgeUnlink, TypeOK, Rows, Calls
<1>14. ASSUME NEW c \in Clients, PurgeEnd(c) PROVE StateOK'
  <2>1. call' \in [Clients -> Calls]
    BY <1>14, FinishKeepsCalls DEF PurgeEnd
  <2>2. QED BY <1>14, <2>1 DEF PurgeEnd, TypeOK, Rows, Bounded, Calls
<1>15. CASE Crash
  <2>1. call' \in [Clients -> Calls]
    BY <1>15 DEF Crash, Calls
  <2>2. disk' \in [Files -> {"none", "torn", "whole"}]
    BY <1>15 DEF Crash, TypeOK
  <2>3. crashes' \in 0..MaxCrashes
    BY <1>15 DEF Crash, TypeOK, ContentStoreAssumption
  <2>4. QED BY <1>15, <2>1, <2>2, <2>3 DEF Crash, TypeOK, Rows, Calls
<1>16. CASE UNCHANGED vars
  BY <1>16 DEF vars, TypeOK, Calls
<1>17. QED
  BY <1>1, <1>2, <1>3, <1>4, <1>5, <1>6, <1>7, <1>8, <1>9, <1>10, <1>11, <1>12, <1>13,
     <1>14, <1>15, <1>16 DEF Next, Step, Upload, Unpack, Purge

LEMMA StepKeepsType ==
  ASSUME TypeOK, [Next]_vars
  PROVE  TypeOK'
<1>1. StateOK'
  BY StepKeepsState
<1>2. Doomed' \subseteq Files
  <2>1. ASSUME NEW c \in Clients, call'[c].step = "unlink" PROVE call'[c].paths \subseteq Files
    <3>1. call'[c] \in Calls
      BY <1>1 DEF StateOK
    <3>2. call'[c] \in PurgeCall
      BY <2>1, <3>1 DEF Calls, Idle, UploadCall, UploadSteps, UnpackCall, UnpackSteps
    <3>3. QED BY <3>2 DEF PurgeCall
  <2>2. QED BY <2>1 DEF Doomed
<1>3. contested' \subseteq Files
  BY <1>2 DEF Next, Contest, vars, TypeOK
<1>4. QED BY <1>1, <1>3 DEF StateOK, TypeOK, Calls

\* Rows, files and requests keep their form whatever overlaps, crashes or fails.
THEOREM TypeCorrect == Spec => []TypeOK
<1>1. Init => TypeOK
  BY ContentStoreAssumption DEF Init, TypeOK, ContentStoreAssumption, Files
<1>2. TypeOK /\ [Next]_vars => TypeOK'
  BY StepKeepsType
<1>3. QED BY <1>1, <1>2, PTL DEF Spec

-----------------------------------------------------------------------------
(* Files, however requests overlap                                          *)

\* The files that rows name, and what a row can rely on.
Named ==
    {Sample(h) : h \in binary}
      \cup {Derived(h) : h \in {x \in Hashes : Referenced(artifact, x)}}
InUse == Named \cup Claimed
Stored(f) == IF f \in {Sample(h) : h \in Hashes} THEN disk[f] = "whole" ELSE disk[f] # "none"

\* What is named or about to be is stored and nobody's to remove, unless contested.
FilesKept ==
    /\ Doomed \cap InUse \subseteq contested
    /\ \A f \in InUse \ contested : Stored(f)

\* Uploads exclude one another; the one that writes has found no row, and so there is
\* none until it commits its own.
UploadsApart ==
    /\ \A c, d \in Clients :
          call[c].step \in UploadSteps /\ call[d].step \in UploadSteps => c = d
    /\ \A c \in Clients :
          call[c].step \in {"upload-write", "upload-insert"} => call[c].hash \notin binary

\* Before its commit a purge has chosen derived files only.
ChoicesDerived ==
    \A c \in Clients :
        call[c].step \in {"hashes", "delete"} =>
            call[c].paths \subseteq {Derived(h) : h \in Hashes}

OverlapInv == TypeOK /\ UploadsApart /\ ChoicesDerived /\ FilesKept

Dooms(c) == IF call[c].step = "unlink" THEN call[c].paths ELSE {}

\* A step of one client keeps FilesKept if what it names it has claimed, what it claims
\* is stored, it leaves stored what is in use, and it chooses nothing that is named.
LEMMA MoveKeepsFiles ==
  ASSUME FilesKept, Next, NEW c \in Clients,
         \A d \in Clients \ {c} : call'[d] = call[d],
         Named' \subseteq Named \cup Claims(c),
         \A f \in Claims(c)' \ Claims(c) : Stored(f)',
         \A f \in InUse' \ Doomed : Stored(f) => Stored(f)',
         Dooms(c)' \cap Named' \subseteq Doomed
  PROVE  FilesKept'
<1>1. \A d \in Clients \ {c} : Claims(d)' = Claims(d) /\ Dooms(d)' = Dooms(d)
  BY DEF Claims, Dooms
<1>2. /\ Doomed = UNION {Dooms(d) : d \in Clients}
      /\ Doomed' = UNION {Dooms(d)' : d \in Clients}
  BY DEF Doomed, Dooms
<1>3. /\ Claimed = UNION {Claims(d) : d \in Clients}
      /\ Claimed' = UNION {Claims(d)' : d \in Clients}
  BY DEF Claimed
<1> DEFINE new == Claims(c)' \ Claims(c)
<1>4. contested' = (contested \ new) \cup (Claimed' \cap Doomed')
  <2>1. UNION {Claims(d)' \ Claims(d) : d \in Clients} = new
    BY <1>1
  <2>2. QED BY <2>1 DEF Next, Contest
<1>5. \A f \in InUse' : f \in new \/ f \in InUse
  BY <1>1, <1>3 DEF InUse
<1>6. \A f \in Doomed' : f \in Doomed \/ f \in Dooms(c)'
  BY <1>1, <1>2
<1> HIDE DEF new
<1>7. \A f \in new : f \in Claimed'
  BY <1>3 DEF new
<1>8. ASSUME NEW f \in Doomed' \cap InUse' PROVE f \in contested'
  <2>1. CASE f \in Claimed'
    BY <1>4, <1>8, <2>1
  <2>2. CASE f \notin Claimed'
    <3>1. f \in Named' /\ f \in Doomed
      BY <1>6, <1>8, <2>2 DEF InUse
    <3>2. f \in InUse /\ f \notin new
      BY <1>5, <1>7, <1>8, <2>2
    <3>3. QED BY <1>4, <3>1, <3>2 DEF FilesKept
  <2>3. QED BY <2>1, <2>2
<1>9. ASSUME NEW f \in InUse' \ contested' PROVE Stored(f)'
  <2>1. CASE f \in new
    BY <2>1 DEF new
  <2>2. CASE f \notin new
    <3>1. f \in InUse \ contested
      BY <1>4, <1>5, <1>9, <2>2
    <3>2. Stored(f) /\ f \notin Doomed
      BY <3>1 DEF FilesKept
    <3>3. QED BY <1>9, <3>2
  <2>3. QED BY <2>1, <2>2
<1>10. QED BY <1>8, <1>9 DEF FilesKept

\* A step that leaves rows and files alone, and starts neither to claim nor to remove.
LEMMA QuietKeepsFiles ==
  ASSUME FilesKept, Next, NEW c \in Clients,
         \A d \in Clients \ {c} : call'[d] = call[d],
         UNCHANGED <<binary, artifact, disk>>,
         Claims(c)' = {}, Dooms(c)' = {}
  PROVE  FilesKept'
<1>1. Named' = Named
  BY DEF Named, Referenced
<1>2. \A f : Stored(f)' <=> Stored(f)
  BY DEF Stored
<1>3. QED BY <1>1, <1>2, MoveKeepsFiles

LEMMA OnlyOneMoves ==
  ASSUME TypeOK, NEW c \in Clients, NEW new, Become(c, new)
  PROVE  call'[c] = new /\ \A d \in Clients \ {c} : call'[d] = call[d]
  BY DEF Become, TypeOK

\* Every step that is neither a write, an insert, a commit nor a removal is quiet.
LEMMA QuietSteps ==
  ASSUME OverlapInv, Next, NEW c \in Clients,
         \/ \E p \in Principals, h \in Hashes : UploadLookup(c, p, h) \/ UnpackStart(c, p, h)
         \/ \E p \in Principals, grants \in BOOLEAN : PurgeStart(c, p, grants)
         \/ Grant(c) \/ RequireAccess(c) \/ PurgeHashes(c) \/ PurgeEnd(c)
  PROVE  FilesKept'
<1>1. UNCHANGED <<binary, artifact, disk>>
  BY DEF UploadLookup, UnpackStart, PurgeStart, Grant, RequireAccess, PurgeHashes, PurgeEnd, Rows
<1>2. /\ call'[c].step \in {"idle", "upload-write", "grant", "require", "lookup", "hashes",
                            "delete"}
      /\ \A d \in Clients \ {c} : call'[d] = call[d]
  <2>1. CASE \E p \in Principals, h \in Hashes : UploadLookup(c, p, h) \/ UnpackStart(c, p, h)
    BY <2>1, OnlyOneMoves DEF UploadLookup, UnpackStart, OverlapInv
  <2>2. CASE \E p \in Principals, grants \in BOOLEAN : PurgeStart(c, p, grants)
    BY <2>2, OnlyOneMoves DEF PurgeStart, OverlapInv
  <2>3. CASE Finish(c)
    BY <2>3, OnlyOneMoves DEF Finish, Idle, OverlapInv
  <2>4. CASE RequireAccess(c) /\ Advance(c, "lookup")
    <3>1. call[c] \in UnpackCall
      BY <2>4, CallShape DEF RequireAccess, UnpackSteps, OverlapInv
    <3>2. QED BY <2>4, <3>1 DEF Advance, OverlapInv, TypeOK, UnpackCall
  <2>5. CASE PurgeHashes(c)
    <3>1. call[c] \in PurgeCall
      BY <2>5, CallShape DEF PurgeHashes, PurgeSteps, OverlapInv
    <3>2. QED BY <2>5, <3>1 DEF PurgeHashes, OverlapInv, TypeOK, PurgeCall
  <2>6. QED BY <2>1, <2>2, <2>3, <2>4, <2>5 DEF Grant, RequireAccess, PurgeEnd
<1>3. Claims(c)' = {} /\ Dooms(c)' = {}
  BY <1>2 DEF Claims, Dooms
<1>4. QED BY <1>1, <1>2, <1>3, QuietKeepsFiles DEF OverlapInv

LEMMA InUseAreFiles ==
  ASSUME TypeOK, Next
  PROVE  InUse' \subseteq Files
<1>1. TypeOK'
  BY StepKeepsType
<1>2. Named' \subseteq Files
  BY <1>1 DEF Named, Files, TypeOK
<1>3. ASSUME NEW d \in Clients PROVE Claims(d)' \subseteq Files
  <2>1. call'[d].step \in {"upload-insert", "insert"} => call'[d].hash \in Hashes
    BY <1>1, CallShapeNext DEF UploadCall, UnpackCall, UploadSteps, UnpackSteps
  <2>2. QED BY <2>1 DEF Claims, Files
<1>4. QED BY <1>2, <1>3 DEF InUse, Claimed

LEMMA UploadWriteKeepsFiles ==
  ASSUME OverlapInv, Next, NEW c \in Clients, UploadWrite(c)
  PROVE  FilesKept'
<1> DEFINE h == call[c].hash
           f == Sample(h)
<1>1. call[c] \in UploadCall /\ h \in Hashes /\ f \in Files
  BY CallShape DEF OverlapInv, UploadWrite, UploadSteps, UploadCall, Files
<1>2. h \notin binary /\ UNCHANGED <<binary, artifact>> /\ call[c].step = "upload-write"
  BY DEF OverlapInv, UploadsApart, UploadWrite, Rows
<1>3. PICK content \in {"whole", "torn"} : disk' = [disk EXCEPT ![f] = content]
  BY DEF UploadWrite, WriteFile
<1>4. (\A g \in Files \ {f} : disk'[g] = disk[g]) /\ disk'[f] = content
  BY <1>1, <1>3 DEF OverlapInv, TypeOK
<1>5. Named' = Named /\ f \notin Named /\ InUse' \subseteq Files
  BY <1>2, FilesApart, InUseAreFiles DEF Named, Referenced, OverlapInv
<1>6. \A d \in Clients \ {c} : call'[d] = call[d] /\ f \notin Claims(d)
  <2>1. \A d \in Clients \ {c} : call'[d] = call[d]
    BY DEF UploadWrite, Advance, Finish, Become, OverlapInv, TypeOK
  <2>2. \A d \in Clients \ {c} : call[d].step # "upload-insert"
    BY <1>2 DEF OverlapInv, UploadsApart, UploadSteps
  <2>3. QED BY <2>1, <2>2, FilesApart DEF Claims
<1>7. CASE content = "whole"
  <2>1. call'[c] = [call[c] EXCEPT !.step = "upload-insert"]
    BY <1>4, <1>7, AdvanceKeepsCalls DEF UploadWrite, OverlapInv, UploadSteps
  <2>2. Claims(c)' = {f} /\ Dooms(c)' = {}
    BY <1>1, <2>1 DEF UploadCall, Claims, Dooms, Sample
  <2>3. \A g \in Files : Stored(g) => Stored(g)'
    BY <1>4, <1>7 DEF Stored
  <2>4. \A g \in Claims(c)' : Stored(g)'
    BY <1>4, <1>7, <2>2 DEF Stored
  <2>5. QED BY <1>5, <1>6, <2>2, <2>3, <2>4, MoveKeepsFiles DEF OverlapInv
<1>8. CASE content = "torn"
  <2>1. call'[c] = Idle
    BY <1>4, <1>8, OnlyOneMoves DEF UploadWrite, Finish, OverlapInv
  <2>2. Claims(c)' = {} /\ Dooms(c)' = {}
    BY <2>1 DEF Claims, Dooms, Idle
  <2>3. f \notin InUse'
    <3>1. \A d \in Clients \ {c} : Claims(d)' = Claims(d)
      BY <1>6 DEF Claims
    <3>2. f \notin Claimed'
      BY <1>6, <2>2, <3>1 DEF Claimed
    <3>3. QED BY <1>5, <3>2 DEF InUse
  <2>4. \A g \in InUse' : Stored(g) => Stored(g)'
    BY <1>4, <1>5, <2>3 DEF Stored
  <2>5. QED BY <1>5, <1>6, <2>2, <2>4, MoveKeepsFiles DEF OverlapInv
<1>9. QED BY <1>7, <1>8

\* The row names what the upload had claimed.
LEMMA UploadInsertKeepsFiles ==
  ASSUME OverlapInv, Next, NEW c \in Clients, UploadInsert(c)
  PROVE  FilesKept'
<1> DEFINE f == Sample(call[c].hash)
<1>1. call'[c] = Idle /\ \A d \in Clients \ {c} : call'[d] = call[d]
  BY OnlyOneMoves DEF UploadInsert, Finish, OverlapInv
<1>2. Claims(c) = {f} /\ Claims(c)' = {} /\ Dooms(c)' = {}
  BY <1>1 DEF Claims, Dooms, Idle, UploadInsert
<1>3. /\ UNCHANGED <<artifact, disk>>
      /\ binary' = binary \/ binary' = binary \cup {call[c].hash}
  BY DEF UploadInsert
<1>4. Named' \subseteq Named \cup Claims(c)
  BY <1>2, <1>3 DEF Named, Referenced
<1>5. \A g : Stored(g)' <=> Stored(g)
  BY <1>3 DEF Stored
<1>6. QED BY <1>1, <1>2, <1>4, <1>5, MoveKeepsFiles DEF OverlapInv

LEMMA UnpackInsertKeepsFiles ==
  ASSUME OverlapInv, Next, NEW c \in Clients, UnpackInsert(c)
  PROVE  FilesKept'
<1> DEFINE h == call[c].hash
           f == Derived(h)
<1>1. call'[c] = Idle /\ \A d \in Clients \ {c} : call'[d] = call[d]
  BY OnlyOneMoves DEF UnpackInsert, Finish, OverlapInv
<1>2. Claims(c) = {f} /\ Claims(c)' = {} /\ Dooms(c)' = {}
  BY <1>1 DEF Claims, Dooms, Idle, UnpackInsert
<1>3. /\ UNCHANGED <<binary, disk>>
      /\ artifact' = artifact \/ artifact' = artifact \cup {<<call[c].who, h>>}
  BY DEF UnpackInsert
<1>4. ASSUME NEW x \in Hashes, Referenced(artifact, x)' PROVE Referenced(artifact, x) \/ x = h
  BY <1>3, <1>4 DEF Referenced
<1>5. Named' \subseteq Named \cup Claims(c)
  BY <1>2, <1>3, <1>4 DEF Named
<1>6. \A g : Stored(g)' <=> Stored(g)
  BY <1>3 DEF Stored
<1>7. QED BY <1>1, <1>2, <1>5, <1>6, MoveKeepsFiles DEF OverlapInv

\* The file that an unpacking has found, or written, is there.
LEMMA UnpackLookupKeepsFiles ==
  ASSUME OverlapInv, Next, NEW c \in Clients, UnpackLookup(c)
  PROVE  FilesKept'
<1> DEFINE h == call[c].hash
           f == Derived(h)
           next == IF disk[f] = "none" THEN "write" ELSE "insert"
<1>1. UNCHANGED <<binary, artifact, disk>>
  BY DEF UnpackLookup, Rows
<1>2. CASE Finish(c)
  <2>1. call'[c] = Idle /\ \A d \in Clients \ {c} : call'[d] = call[d]
    BY <1>2, OnlyOneMoves DEF Finish, OverlapInv
  <2>2. Claims(c)' = {} /\ Dooms(c)' = {}
    BY <2>1 DEF Claims, Dooms, Idle
  <2>3. QED BY <1>1, <2>1, <2>2, QuietKeepsFiles DEF OverlapInv
<1>3. CASE Advance(c, next)
  <2>1. call[c] \in UnpackCall
    BY CallShape DEF UnpackLookup, UnpackSteps, OverlapInv
  <2>2. /\ call'[c].step = next /\ call'[c].hash = h
        /\ \A d \in Clients \ {c} : call'[d] = call[d]
    BY <1>3, <2>1 DEF Advance, OverlapInv, TypeOK, UnpackCall
  <2>3. Claims(c)' = (IF next = "insert" THEN {f} ELSE {}) /\ Dooms(c)' = {}
    BY <2>2 DEF Claims, Dooms, Derived
  <2>4. \A g \in Claims(c)' : Stored(g)'
    BY <1>1, <2>3, FilesApart DEF Stored
  <2>5. Named' = Named /\ \A g : Stored(g)' <=> Stored(g)
    BY <1>1 DEF Named, Referenced, Stored
  <2>6. QED BY <2>2, <2>3, <2>4, <2>5, MoveKeepsFiles DEF OverlapInv
<1>4. QED BY <1>2, <1>3 DEF UnpackLookup

LEMMA UnpackWriteKeepsFiles ==
  ASSUME OverlapInv, Next, NEW c \in Clients, UnpackWrite(c)
  PROVE  FilesKept'
<1> DEFINE h == call[c].hash
           f == Derived(h)
<1>1. call[c] \in UnpackCall /\ h \in Hashes /\ f \in Files
  BY CallShape DEF OverlapInv, UnpackWrite, UnpackSteps, UnpackCall, Files
<1>2. UNCHANGED <<binary, artifact>>
  BY DEF UnpackWrite, Rows
<1>3. PICK content \in {"whole", "torn"} : disk' = [disk EXCEPT ![f] = content]
  BY DEF UnpackWrite, WriteFile
<1>4. disk' = [disk EXCEPT ![f] = content] /\ disk'[f] = content
  BY <1>1, <1>3 DEF OverlapInv, TypeOK
<1>5. Named' = Named /\ \A d \in Clients \ {c} : call'[d] = call[d]
  BY <1>2 DEF Named, Referenced, UnpackWrite, Advance, Finish, Become, OverlapInv, TypeOK
<1>6. /\ \A g \in {f} : Stored(g)'
      /\ \A g \in InUse' : Stored(g) => Stored(g)'
  <2>1. \A g \in {f} : Stored(g)'
    BY <1>4, FilesApart DEF Stored
  <2>2. \A g \in Files : g # f => disk'[g] = disk[g]
    BY <1>3 DEF OverlapInv, TypeOK
  <2>3. InUse' \subseteq Files
    BY InUseAreFiles DEF OverlapInv
  <2>4. ASSUME NEW g \in InUse', Stored(g) PROVE Stored(g)'
    <3>1. CASE g = f
      BY <2>1, <3>1
    <3>2. CASE g # f
      <4>1. disk'[g] = disk[g]
        BY <2>2, <2>3, <2>4, <3>2
      <4>2. QED BY <2>4, <4>1 DEF Stored
    <3>3. QED BY <3>1, <3>2
  <2>5. QED BY <2>1, <2>4
<1>7. Claims(c)' \subseteq {f} /\ Dooms(c)' = {}
  <2>1. CASE Finish(c)
    BY <2>1, OnlyOneMoves DEF Finish, OverlapInv, Claims, Dooms, Idle
  <2>2. CASE Advance(c, "insert")
    <3>1. call'[c].step = "insert" /\ call'[c].hash = h
      BY <1>1, <2>2 DEF Advance, OverlapInv, TypeOK, UnpackCall
    <3>2. QED BY <3>1 DEF Claims, Dooms, Derived
  <2>3. QED BY <2>1, <2>2 DEF UnpackWrite
<1>8. QED BY <1>5, <1>6, <1>7, MoveKeepsFiles DEF OverlapInv

\* What a purge chooses, no remaining row names.
LEMMA PurgeCommitKeepsFiles ==
  ASSUME OverlapInv, Next, NEW c \in Clients, PurgeCommit(c)
  PROVE  FilesKept'
<1> DEFINE p == call[c].who
           artifacts == OfOthers(artifact, p)
           grants == IF call[c].grants THEN OfOthers(access, p) ELSE access
           dead == IF call[c].grants
                     THEN Unreferenced(call[c].owned, grants, artifacts) \cap binary
                     ELSE {}
           paths == Removable(call[c].paths, artifacts, dead)
<1>1. call[c] \in PurgeCall
  BY CallShape DEF PurgeCommit, PurgeSteps, OverlapInv
<1>2. /\ artifact' = artifacts /\ binary' = binary \ dead /\ UNCHANGED disk
      /\ call' = [call EXCEPT ![c] = [call[c] EXCEPT !.step = "unlink", !.paths = paths]]
  BY DEF PurgeCommit
<1>3. call[c].paths \subseteq {Derived(h) : h \in Hashes}
  BY DEF PurgeCommit, OverlapInv, ChoicesDerived
<1>4. artifacts \subseteq artifact
  BY DEF OfOthers
<1> HIDE DEF artifacts, grants, dead
<1>5. /\ call'[c].step = "unlink" /\ call'[c].paths = paths
      /\ \A d \in Clients \ {c} : call'[d] = call[d]
  BY <1>1, <1>2 DEF PurgeCall, OverlapInv, TypeOK
<1>6. Claims(c)' = {} /\ Dooms(c)' = paths
  BY <1>5 DEF Claims, Dooms
<1>7. Named' \subseteq Named
  BY <1>2, <1>4 DEF Named, Referenced
<1>8. ASSUME NEW h \in binary' PROVE Sample(h) \notin paths
  <2>1. Sample(h) \notin call[c].paths
    BY <1>3, FilesApart
  <2>2. h \notin dead
    BY <1>2, <1>8
  <2>3. QED BY <2>1, <2>2, FilesApart DEF Removable
<1>9. ASSUME NEW h \in Hashes, Referenced(artifacts, h) PROVE Derived(h) \notin paths
  <2>1. Derived(h) \notin {Sample(g) : g \in dead}
    BY FilesApart
  <2>2. QED BY <1>9, <2>1 DEF Removable
<1>10. Dooms(c)' \cap Named' = {}
  <2> HIDE DEF paths
  <2> QED BY <1>2, <1>6, <1>8, <1>9 DEF Named, Referenced, Sample, Derived
<1>11. \A g : Stored(g)' <=> Stored(g)
  BY <1>2 DEF Stored
<1>12. QED BY <1>5, <1>6, <1>7, <1>10, <1>11, MoveKeepsFiles DEF OverlapInv

LEMMA PurgeUnlinkKeepsFiles ==
  ASSUME OverlapInv, Next, NEW c \in Clients, PurgeUnlink(c)
  PROVE  FilesKept'
<1>1. call[c] \in PurgeCall /\ call[c].step = "unlink"
  BY CallShape DEF PurgeUnlink, PurgeSteps, OverlapInv
<1>2. PICK f \in call[c].paths :
        /\ call' = [call EXCEPT ![c] = [call[c] EXCEPT !.paths = call[c].paths \ {f}]]
        /\ disk' = [disk EXCEPT ![f] = "none"] \/ UNCHANGED disk
  BY DEF PurgeUnlink
<1>3. /\ call'[c].step = "unlink" /\ call'[c].paths \subseteq call[c].paths
      /\ \A d \in Clients \ {c} : call'[d] = call[d]
  BY <1>1, <1>2 DEF PurgeCall, OverlapInv, TypeOK
<1>4. call[c].paths \subseteq Doomed
  BY <1>1 DEF Doomed
<1>5. Claims(c)' = {} /\ Dooms(c)' \subseteq Doomed
  BY <1>3, <1>4 DEF Claims, Dooms
<1>6. Named' = Named
  BY DEF PurgeUnlink, Rows, Named, Referenced
<1>7. \A g \in Files : g # f => disk'[g] = disk[g]
  BY <1>2 DEF OverlapInv, TypeOK
<1>8. \A g \in InUse' \ Doomed : Stored(g) => Stored(g)'
  BY <1>2, <1>4, <1>7, InUseAreFiles DEF Stored, OverlapInv
<1>9. QED BY <1>3, <1>5, <1>6, <1>8, MoveKeepsFiles DEF OverlapInv

\* What a crash tears is a derived file, which stays, or a sample without a row.
LEMMA CrashKeepsFiles ==
  ASSUME OverlapInv, Next, Crash
  PROVE  FilesKept'
<1>1. PICK torn \in SUBSET BeingWritten :
        disk' = [f \in Files |-> IF f \in torn THEN "torn" ELSE disk[f]]
  BY DEF Crash
<1>2. UNCHANGED <<binary, artifact>> /\ \A c \in Clients : call'[c] = Idle
  BY DEF Crash, Rows
<1>3. Claimed' = {} /\ Doomed' = {}
  BY <1>2 DEF Claimed, Claims, Doomed, Idle
<1>4. contested' = contested
  <2>1. \A c \in Clients : Claims(c)' = {}
    BY <1>2 DEF Claims, Idle
  <2>2. QED BY <1>3, <2>1 DEF Next, Contest
<1>5. InUse' = Named /\ Named \subseteq Files
  BY <1>2, <1>3 DEF InUse, Named, Referenced, OverlapInv, TypeOK, Files
<1>6. ASSUME NEW h \in binary PROVE Sample(h) \notin torn
  BY <1>1, FilesApart DEF BeingWritten, OverlapInv, UploadsApart
<1>7. ASSUME NEW f \in Named, Stored(f) PROVE Stored(f)'
  <2>1. CASE \E h \in binary : f = Sample(h)
    BY <1>1, <1>5, <1>6, <1>7, <2>1 DEF Stored
  <2>2. CASE \E h \in Hashes : f = Derived(h)
    BY <1>1, <1>5, <1>7, <2>2, FilesApart DEF Stored
  <2>3. QED BY <2>1, <2>2 DEF Named
<1>8. \A f \in Named \ contested : Stored(f)
  BY DEF OverlapInv, FilesKept, InUse
<1>9. QED BY <1>3, <1>4, <1>5, <1>7, <1>8 DEF FilesKept

\* A client that starts no upload and no selection, while no row is added, disturbs
\* neither of the two invariants about them.
LEMMA OthersApart ==
  ASSUME UploadsApart, ChoicesDerived, NEW c \in Clients,
         \A d \in Clients \ {c} : call'[d] = call[d],
         binary' \subseteq binary,
         call'[c].step \notin UploadSteps \cup {"hashes", "delete"}
  PROVE  UploadsApart' /\ ChoicesDerived'
<1>1. UploadsApart'
  BY DEF UploadsApart, UploadSteps
<1>2. ChoicesDerived'
  BY DEF ChoicesDerived
<1>3. QED BY <1>1, <1>2

LEMMA UploadsStayApart ==
  ASSUME OverlapInv, NEW c \in Clients, Upload(c)
  PROVE  UploadsApart' /\ ChoicesDerived'
<1>1. ASSUME NEW p \in Principals, NEW h \in Hashes, UploadLookup(c, p, h)
      PROVE  UploadsApart' /\ ChoicesDerived'
  <2> DEFINE next == IF h \in binary THEN "grant" ELSE "upload-write"
  <2>1. /\ call'[c] = [step |-> next, who |-> p, hash |-> h]
        /\ \A d \in Clients \ {c} : call'[d] = call[d]
    BY <1>1, OnlyOneMoves DEF UploadLookup, OverlapInv
  <2>2. call'[c].step = next /\ call'[c].hash = h /\ binary' = binary
    BY <2>1, <1>1 DEF UploadLookup, Rows
  <2>3. \A d \in Clients : call[d].step \notin UploadSteps
    BY <1>1 DEF UploadLookup, Uploading
  <2>4. UploadsApart'
    BY <2>1, <2>2, <2>3 DEF UploadsApart, UploadSteps
  <2>5. ChoicesDerived'
    BY <2>1, <2>2 DEF ChoicesDerived, OverlapInv
  <2>6. QED BY <2>4, <2>5
<1>2. CASE UploadWrite(c)
  <2>1. call[c] \in UploadCall /\ call[c].step = "upload-write" /\ binary' = binary
    BY <1>2, CallShape DEF UploadWrite, UploadSteps, OverlapInv, Rows
  <2>2. CASE Finish(c)
    BY <2>1, <2>2, OnlyOneMoves, OthersApart DEF Finish, Idle, OverlapInv, UploadSteps
  <2>3. CASE Advance(c, "upload-insert")
    <3>1. /\ call'[c].step = "upload-insert" /\ call'[c].hash = call[c].hash
          /\ \A d \in Clients \ {c} : call'[d] = call[d]
      BY <2>1, <2>3 DEF Advance, OverlapInv, TypeOK, UploadCall
    <3>2. UploadsApart'
      BY <2>1, <3>1 DEF UploadsApart, UploadSteps, OverlapInv
    <3>3. ChoicesDerived'
      BY <3>1 DEF ChoicesDerived, OverlapInv
    <3>4. QED BY <3>2, <3>3
  <2>4. QED BY <1>2, <2>2, <2>3 DEF UploadWrite
<1>3. CASE UploadInsert(c)
  <2>1. call'[c] = Idle /\ \A d \in Clients \ {c} : call'[d] = call[d]
    BY <1>3, OnlyOneMoves DEF UploadInsert, Finish, OverlapInv
  <2>2. \A d \in Clients \ {c} : call[d].step \notin UploadSteps
    BY <1>3 DEF UploadInsert, OverlapInv, UploadsApart, UploadSteps
  <2>3. \A d \in Clients : call'[d].step \notin UploadSteps
    BY <2>1, <2>2 DEF Idle, UploadSteps
  <2>4. UploadsApart'
    BY <2>3 DEF UploadsApart, UploadSteps
  <2>5. ChoicesDerived'
    BY <2>1 DEF ChoicesDerived, Idle, OverlapInv
  <2>6. QED BY <2>4, <2>5
<1>4. CASE Grant(c)
  BY <1>4, OnlyOneMoves, OthersApart DEF Grant, Finish, Idle, OverlapInv, UploadSteps
<1>5. QED BY <1>1, <1>2, <1>3, <1>4 DEF Upload

LEMMA PurgesChooseDerived ==
  ASSUME OverlapInv, NEW c \in Clients, Purge(c)
  PROVE  UploadsApart' /\ ChoicesDerived'
<1>1. ASSUME NEW p \in Principals, NEW grants \in BOOLEAN, PurgeStart(c, p, grants)
      PROVE  UploadsApart' /\ ChoicesDerived'
  <2> DEFINE paths == {Derived(h) : h \in {x \in Hashes : <<p, x>> \in artifact}}
  <2>1. /\ call'[c].step = "hashes" /\ call'[c].paths = paths
        /\ \A d \in Clients \ {c} : call'[d] = call[d]
    BY <1>1, OnlyOneMoves DEF PurgeStart, OverlapInv
  <2>2. UploadsApart'
    BY <1>1, <2>1 DEF PurgeStart, UploadsApart, UploadSteps, OverlapInv, Rows
  <2>3. paths \subseteq {Derived(h) : h \in Hashes}
    OBVIOUS
  <2>4. ChoicesDerived'
    <3> HIDE DEF paths
    <3> QED BY <2>1, <2>3 DEF ChoicesDerived, OverlapInv, Derived
  <2>5. QED BY <2>2, <2>4
<1>2. CASE PurgeHashes(c)
  <2>1. call[c] \in PurgeCall /\ call[c].step = "hashes"
    BY <1>2, CallShape DEF PurgeHashes, PurgeSteps, OverlapInv
  <2>2. /\ call'[c].step = "delete" /\ call'[c].paths = call[c].paths
        /\ \A d \in Clients \ {c} : call'[d] = call[d]
    BY <2>1, <1>2 DEF PurgeHashes, OverlapInv, TypeOK, PurgeCall
  <2>3. UploadsApart'
    <3>1. binary' = binary
      BY <1>2 DEF PurgeHashes, Rows
    <3>2. QED BY <2>2, <3>1 DEF UploadsApart, UploadSteps, OverlapInv
  <2>4. ChoicesDerived'
    BY <2>1, <2>2 DEF ChoicesDerived, OverlapInv, Derived
  <2>5. QED BY <2>3, <2>4
<1>3. CASE PurgeCommit(c)
  <2>1. call[c] \in PurgeCall
    BY <1>3, CallShape DEF PurgeCommit, PurgeSteps, OverlapInv
  <2>2. /\ call'[c].step = "unlink" /\ binary' \subseteq binary
        /\ \A d \in Clients \ {c} : call'[d] = call[d]
    BY <2>1, <1>3 DEF PurgeCommit, OverlapInv, TypeOK, PurgeCall
  <2>3. QED BY <2>2, OthersApart DEF UploadSteps, OverlapInv
<1>4. CASE PurgeUnlink(c)
  <2>1. call[c] \in PurgeCall /\ call[c].step = "unlink"
    BY <1>4, CallShape DEF PurgeUnlink, PurgeSteps, OverlapInv
  <2>2. /\ call'[c].step = "unlink" /\ binary' = binary
        /\ \A d \in Clients \ {c} : call'[d] = call[d]
    BY <2>1, <1>4 DEF PurgeUnlink, OverlapInv, TypeOK, PurgeCall, Rows
  <2>3. QED BY <2>2, OthersApart DEF UploadSteps, OverlapInv
<1>5. CASE PurgeEnd(c)
  BY <1>5, OnlyOneMoves, OthersApart DEF PurgeEnd, Finish, Idle, OverlapInv, UploadSteps, Rows
<1>6. QED BY <1>1, <1>2, <1>3, <1>4, <1>5 DEF Purge

LEMMA UnpacksStayApart ==
  ASSUME OverlapInv, NEW c \in Clients, Unpack(c)
  PROVE  UploadsApart' /\ ChoicesDerived'
<1>1. binary' = binary
  BY DEF Unpack, UnpackStart, RequireAccess, UnpackLookup, UnpackWrite, UnpackInsert, Rows
<1>2. CASE \E p \in Principals, h \in Hashes : UnpackStart(c, p, h)
  BY <1>1, <1>2, OnlyOneMoves, OthersApart DEF UnpackStart, OverlapInv, UploadSteps
<1>3. CASE Finish(c)
  BY <1>1, <1>3, OnlyOneMoves, OthersApart DEF Finish, Idle, OverlapInv, UploadSteps
<1>4. ASSUME NEW step \in UnpackSteps, Advance(c, step), call[c].step \in UnpackSteps
      PROVE  UploadsApart' /\ ChoicesDerived'
  <2>1. call[c] \in UnpackCall
    BY <1>4, CallShape DEF OverlapInv
  <2>2. call'[c].step = step /\ \A d \in Clients \ {c} : call'[d] = call[d]
    BY <2>1, <1>4 DEF Advance, OverlapInv, TypeOK, UnpackCall
  <2>3. QED BY <1>1, <2>2, OthersApart DEF UploadSteps, UnpackSteps, OverlapInv
<1>5. QED
  BY <1>2, <1>3, <1>4
     DEF Unpack, RequireAccess, UnpackLookup, UnpackWrite, UnpackInsert, UnpackSteps

LEMMA StepKeepsOverlapInv ==
  ASSUME OverlapInv, [Next]_vars
  PROVE  OverlapInv'
<1>1. TypeOK'
  BY StepKeepsType DEF OverlapInv
<1>2. CASE UNCHANGED vars
  BY <1>1, <1>2 DEF vars, OverlapInv, UploadsApart, ChoicesDerived, FilesKept, Doomed, InUse,
                    Named, Claimed, Claims, Stored, Referenced
<1>3. ASSUME Next, Crash PROVE OverlapInv'
  <2>1. UploadsApart' /\ ChoicesDerived'
    BY <1>3 DEF Crash, UploadsApart, ChoicesDerived, Idle, UploadSteps
  <2>2. QED BY <1>1, <1>3, <2>1, CrashKeepsFiles DEF OverlapInv
<1>4. ASSUME Next, NEW c \in Clients, Upload(c) \/ Unpack(c) \/ Purge(c) PROVE OverlapInv'
  <2>1. FilesKept'
    BY <1>4, QuietSteps, UploadWriteKeepsFiles, UploadInsertKeepsFiles, UnpackLookupKeepsFiles,
       UnpackWriteKeepsFiles, UnpackInsertKeepsFiles, PurgeCommitKeepsFiles,
       PurgeUnlinkKeepsFiles DEF Upload, Unpack, Purge
  <2>2. UploadsApart' /\ ChoicesDerived'
    BY <1>4, UploadsStayApart, UnpacksStayApart, PurgesChooseDerived
  <2>3. QED BY <1>1, <2>1, <2>2 DEF OverlapInv
<1>5. QED BY <1>2, <1>3, <1>4 DEF Next, Step

LEMMA InitOverlapInv == Init => OverlapInv
<1>1. Init => TypeOK
  BY ContentStoreAssumption DEF Init, TypeOK, ContentStoreAssumption, Files
<1>2. Init => UploadsApart /\ ChoicesDerived
  BY DEF Init, UploadsApart, ChoicesDerived, Idle, UploadSteps
<1>3. Init => FilesKept
  BY DEF Init, FilesKept, InUse, Named, Claimed, Claims, Doomed, Referenced, Idle
<1>4. QED BY <1>1, <1>2, <1>3 DEF OverlapInv

\* However uploads, unpacking and purges overlap, and whatever crashes and fails, a
\* sample that has its row has its bytes, unless they were written while a purge of an
\* earlier row still had the file to remove.
THEOREM SamplesKeepBytes == Spec => []RowsHaveBytes
<1>1. OverlapInv => RowsHaveBytes
  <2> SUFFICES ASSUME OverlapInv, NEW h \in binary, Sample(h) \notin contested
               PROVE  disk[Sample(h)] = "whole"
    BY DEF RowsHaveBytes
  <2>1. h \in Hashes /\ Sample(h) \in InUse
    BY DEF OverlapInv, TypeOK, InUse, Named
  <2>2. QED BY <2>1 DEF OverlapInv, FilesKept, Stored
<1>2. OverlapInv /\ [Next]_vars => OverlapInv'
  BY StepKeepsOverlapInv
<1>3. QED BY InitOverlapInv, <1>1, <1>2, PTL DEF Spec

\* In the same way an artifact keeps its file, unless a purge that had chosen it was
\* still to remove it when an unpacking named it.
THEOREM ArtifactsKeepFiles == Spec => []ArtifactsHaveFiles
<1>1. OverlapInv => ArtifactsHaveFiles
  <2> SUFFICES ASSUME OverlapInv, NEW p \in Principals, NEW h \in Hashes,
                      <<p, h>> \in artifact, Derived(h) \notin contested
               PROVE  disk[Derived(h)] # "none"
    BY DEF ArtifactsHaveFiles
  <2>1. Derived(h) \in InUse
    BY DEF InUse, Named, Referenced
  <2>2. Stored(Derived(h))
    BY <2>1 DEF OverlapInv, FilesKept
  <2>3. QED BY <2>2, FilesApart DEF Stored
<1>2. OverlapInv /\ [Next]_vars => OverlapInv'
  BY StepKeepsOverlapInv
<1>3. QED BY InitOverlapInv, <1>1, <1>2, PTL DEF Spec

-----------------------------------------------------------------------------
(* No sample is forgotten, however requests overlap                         *)

\* Unless a crash or a failing file operation left it, a stored sample has a row, or a
\* request has it in hand: an upload on the way to its row, or a purge that removes it.
SamplesInHand ==
    crashes + faults = 0 =>
        \A h \in Hashes :
            disk[Sample(h)] # "none" => h \in binary \/ Sample(h) \in Claimed \cup Doomed

HandInv == OverlapInv /\ ReferencesResolve /\ SamplesInHand

\* A step of one client keeps this if what it stores it claims, and what it had in hand
\* or takes the row of it removes, records or keeps in hand.
LEMMA MoveForgetsNothing ==
  ASSUME SamplesInHand, NEW c \in Clients,
         \A d \in Clients \ {c} : call'[d] = call[d],
         crashes' + faults' = 0 => crashes + faults = 0,
         ASSUME crashes' + faults' = 0, NEW h \in Hashes, disk'[Sample(h)] # "none"
         PROVE  /\ disk[Sample(h)] # "none" \/ Sample(h) \in Claims(c)'
                /\ h \in binary \/ Sample(h) \in Claims(c) \cup Dooms(c) =>
                      h \in binary' \/ Sample(h) \in Claims(c)' \cup Dooms(c)'
  PROVE  SamplesInHand'
<1> SUFFICES ASSUME crashes' + faults' = 0, NEW h \in Hashes, disk'[Sample(h)] # "none"
             PROVE  h \in binary' \/ Sample(h) \in Claimed' \cup Doomed'
  BY DEF SamplesInHand
<1>1. \A d \in Clients \ {c} : Claims(d)' = Claims(d) /\ Dooms(d)' = Dooms(d)
  BY DEF Claims, Dooms
<1>2. /\ Claimed = UNION {Claims(d) : d \in Clients}
      /\ Claimed' = UNION {Claims(d)' : d \in Clients}
      /\ Doomed = UNION {Dooms(d) : d \in Clients}
      /\ Doomed' = UNION {Dooms(d)' : d \in Clients}
  BY DEF Claimed, Doomed, Dooms
<1>3. CASE Sample(h) \in Claims(c)'
  BY <1>2, <1>3
<1>4. CASE Sample(h) \notin Claims(c)'
  <2>1. h \in binary \/ Sample(h) \in Claimed \cup Doomed
    BY <1>4 DEF SamplesInHand
  <2>2. CASE h \in binary \/ Sample(h) \in Claims(c) \cup Dooms(c)
    BY <1>2, <2>2
  <2>3. CASE ~(h \in binary \/ Sample(h) \in Claims(c) \cup Dooms(c))
    BY <1>1, <1>2, <2>1, <2>3
  <2>4. QED BY <2>2, <2>3
<1>5. QED BY <1>3, <1>4

\* In particular a step that leaves samples alone, with none of them in hand.
LEMMA BystandersForgetNothing ==
  ASSUME SamplesInHand, NEW c \in Clients,
         \A d \in Clients \ {c} : call'[d] = call[d],
         crashes' + faults' = 0 => crashes + faults = 0,
         \A h \in Hashes : disk'[Sample(h)] = disk[Sample(h)],
         binary \subseteq binary',
         \A h \in Hashes : Sample(h) \notin Claims(c) \cup Dooms(c)
  PROVE  SamplesInHand'
BY MoveForgetsNothing

LEMMA OnlyThisCallMoves ==
  ASSUME TypeOK, NEW c \in Clients, Upload(c) \/ Unpack(c) \/ Purge(c)
  PROVE  \A d \in Clients \ {c} : call'[d] = call[d]
BY DEF Upload, UploadLookup, UploadWrite, UploadInsert, Grant, Unpack, UnpackStart,
       RequireAccess, UnpackLookup, UnpackWrite, UnpackInsert, Purge, PurgeStart, PurgeHashes,
       PurgeCommit, PurgeUnlink, PurgeEnd, Finish, Advance, Become, TypeOK

LEMMA FaultsStayCounted ==
  ASSUME TypeOK, ContentStoreAssumption, NEW c \in Clients,
         Upload(c) \/ Unpack(c) \/ Purge(c)
  PROVE  crashes' + faults' = 0 => crashes + faults = 0
<1>1. crashes \in Nat /\ faults \in Nat
  BY DEF TypeOK, ContentStoreAssumption
<1>2. crashes' = crashes /\ (faults' = faults \/ faults' = faults + 1)
  BY DEF Upload, UploadLookup, UploadWrite, UploadInsert, Grant, Unpack, UnpackStart,
         RequireAccess, UnpackLookup, UnpackWrite, UnpackInsert, Purge, PurgeStart, PurgeHashes,
         PurgeCommit, PurgeUnlink, PurgeEnd, WriteFile, Rows, Bounded
<1>3. QED BY <1>1, <1>2

LEMMA UploadsForgetNothing ==
  ASSUME HandInv, NEW c \in Clients, Upload(c)
  PROVE  SamplesInHand'
<1> USE ContentStoreAssumption
<1> DEFINE h == call[c].hash
<1>1. TypeOK /\ SamplesInHand /\ ReferencesResolve /\ UploadsApart
  BY DEF HandInv, OverlapInv
<1>2. /\ \A d \in Clients \ {c} : call'[d] = call[d]
      /\ crashes' + faults' = 0 => crashes + faults = 0
  BY <1>1, OnlyThisCallMoves, FaultsStayCounted
<1>3. CASE call[c].step \in {"idle", "grant"}
  <2>1. UNCHANGED <<binary, disk>>
    BY <1>3 DEF Upload, UploadLookup, UploadWrite, UploadInsert, Grant, Rows
  <2>2. Claims(c) = {} /\ Dooms(c) = {}
    BY <1>3 DEF Claims, Dooms
  <2>3. QED BY <1>1, <1>2, <2>1, <2>2, BystandersForgetNothing
<1>4. CASE UploadWrite(c)
  <2>1. call[c] \in UploadCall /\ call[c].step = "upload-write" /\ binary' = binary
    BY <1>1, <1>4, CallShape DEF UploadWrite, UploadSteps, Rows
  <2>2. Claims(c) = {} /\ Dooms(c) = {}
    BY <2>1 DEF Claims, Dooms
  <2>3. Sample(h) \in Files
    BY <2>1 DEF UploadCall, Files
  <2>4. CASE disk' = [disk EXCEPT ![Sample(h)] = "whole"]
    <3>1. disk'[Sample(h)] = "whole" /\ \A g \in Files \ {Sample(h)} : disk'[g] = disk[g]
      BY <1>1, <2>3, <2>4 DEF TypeOK
    <3>2. call'[c] = [call[c] EXCEPT !.step = "upload-insert"]
      BY <1>1, <1>4, <3>1, AdvanceKeepsCalls DEF UploadWrite, UploadSteps
    <3>3. Claims(c)' = {Sample(h)}
      BY <2>1, <3>2 DEF UploadCall, Claims, Sample
    <3>4. \A x \in Hashes : disk'[Sample(x)] = disk[Sample(x)] \/ Sample(x) \in Claims(c)'
      BY <3>1, <3>3 DEF Files
    <3>5. QED BY <1>1, <1>2, <2>1, <2>2, <3>4, MoveForgetsNothing
  <2>5. CASE faults' = faults + 1
    <3>1. crashes' + faults' # 0
      BY <1>1, <1>4, <2>5 DEF TypeOK, UploadWrite
    <3>2. QED BY <3>1 DEF SamplesInHand
  <2>6. QED BY <1>4, <2>4, <2>5 DEF UploadWrite, WriteFile
<1>5. CASE UploadInsert(c)
  <2>1. call[c] \in UploadCall /\ call[c].step = "upload-insert" /\ UNCHANGED disk
    BY <1>1, <1>5, CallShape DEF UploadInsert, UploadSteps
  <2>2. h \in Hashes /\ call[c].who \in Principals
    BY <2>1 DEF UploadCall
  <2>3. h \notin binary
    BY <1>1, <2>1 DEF UploadsApart
  <2>4. <<call[c].who, h>> \notin access
    BY <1>1, <2>2, <2>3 DEF ReferencesResolve
  <2>5. binary' = binary \cup {h}
    BY <1>5, <2>3, <2>4 DEF UploadInsert
  <2>6. Claims(c) = {Sample(h)} /\ Dooms(c) = {}
    BY <2>1 DEF Claims, Dooms
  <2>7. \A x \in Hashes : x \in binary \/ Sample(x) \in Claims(c) \cup Dooms(c) => x \in binary'
    BY <2>5, <2>6, FilesApart
  <2>8. QED BY <1>1, <1>2, <2>1, <2>7, MoveForgetsNothing
<1>6. QED
  <2>1. ASSUME NEW p \in Principals, NEW x \in Hashes, UploadLookup(c, p, x)
        PROVE  call[c].step = "idle"
    BY <2>1 DEF UploadLookup, Idle
  <2>2. ASSUME Grant(c) PROVE call[c].step = "grant"
    BY <2>2 DEF Grant
  <2>3. QED BY <1>3, <1>4, <1>5, <2>1, <2>2 DEF Upload

LEMMA UnpacksForgetNothing ==
  ASSUME HandInv, NEW c \in Clients, Unpack(c)
  PROVE  SamplesInHand'
<1> USE ContentStoreAssumption
<1>1. TypeOK /\ SamplesInHand
  BY DEF HandInv, OverlapInv
<1>2. /\ \A d \in Clients \ {c} : call'[d] = call[d]
      /\ crashes' + faults' = 0 => crashes + faults = 0
  BY <1>1, OnlyThisCallMoves, FaultsStayCounted
<1>3. call[c].step \in {"idle"} \cup UnpackSteps /\ binary' = binary
  <2>1. call[c] = Idle \/ call[c].step \in UnpackSteps
    BY DEF Unpack, UnpackStart, RequireAccess, UnpackLookup, UnpackWrite, UnpackInsert,
           UnpackSteps
  <2>2. binary' = binary
    BY DEF Unpack, UnpackStart, RequireAccess, UnpackLookup, UnpackWrite, UnpackInsert, Rows
  <2>3. QED BY <2>1, <2>2 DEF Idle
<1>4. \A h \in Hashes : Sample(h) \notin Claims(c) \cup Dooms(c)
  BY <1>3, FilesApart DEF Claims, Dooms, UnpackSteps
<1>5. \A h \in Hashes : disk'[Sample(h)] = disk[Sample(h)]
  <2>1. CASE UNCHANGED disk
    BY <2>1
  <2>2. ASSUME NEW content, disk' = [disk EXCEPT ![Derived(call[c].hash)] = content]
        PROVE  \A h \in Hashes : disk'[Sample(h)] = disk[Sample(h)]
    BY <1>1, <2>2, FilesApart DEF TypeOK, Files
  <2>3. QED BY <2>1, <2>2 DEF Unpack, UnpackStart, RequireAccess, UnpackLookup, UnpackWrite,
                              UnpackInsert, WriteFile
<1>6. QED BY <1>1, <1>2, <1>3, <1>4, <1>5, BystandersForgetNothing

LEMMA PurgesForgetNothing ==
  ASSUME HandInv, NEW c \in Clients, Purge(c)
  PROVE  SamplesInHand'
<1> USE ContentStoreAssumption
<1>1. TypeOK /\ SamplesInHand
  BY DEF HandInv, OverlapInv
<1>2. /\ \A d \in Clients \ {c} : call'[d] = call[d]
      /\ crashes' + faults' = 0 => crashes + faults = 0
  BY <1>1, OnlyThisCallMoves, FaultsStayCounted
<1>3. CASE call[c].step \in {"idle", "hashes"}
  <2>1. UNCHANGED <<binary, disk>>
    BY <1>3 DEF Purge, PurgeStart, PurgeHashes, PurgeCommit, PurgeUnlink, PurgeEnd, Rows
  <2>2. Claims(c) = {} /\ Dooms(c) = {}
    BY <1>3 DEF Claims, Dooms
  <2>3. QED BY <1>1, <1>2, <2>1, <2>2, BystandersForgetNothing
<1>4. CASE PurgeCommit(c)
  <2> DEFINE p == call[c].who
             artifacts == OfOthers(artifact, p)
             grants == IF call[c].grants THEN OfOthers(access, p) ELSE access
             dead == IF call[c].grants
                       THEN Unreferenced(call[c].owned, grants, artifacts) \cap binary
                       ELSE {}
             paths == Removable(call[c].paths, artifacts, dead)
  <2>1. call[c] \in PurgeCall /\ call[c].step = "delete"
    BY <1>1, <1>4, CallShape DEF PurgeCommit, PurgeSteps
  <2>2. /\ binary' = binary \ dead /\ UNCHANGED disk
        /\ call' = [call EXCEPT ![c] = [call[c] EXCEPT !.step = "unlink", !.paths = paths]]
    BY <1>4 DEF PurgeCommit
  <2> HIDE DEF artifacts, grants, dead
  <2>3. call'[c].step = "unlink" /\ call'[c].paths = paths
    BY <1>1, <2>1, <2>2 DEF PurgeCall, TypeOK
  <2>4. Dooms(c)' = paths /\ Claims(c) = {} /\ Dooms(c) = {}
    BY <2>1, <2>3 DEF Dooms, Claims
  <2>5. \A h \in dead : Sample(h) \in paths
    BY DEF Removable
  <2> HIDE DEF paths
  <2>6. QED BY <1>1, <1>2, <2>2, <2>4, <2>5, MoveForgetsNothing
<1>5. CASE PurgeUnlink(c)
  <2>1. call[c] \in PurgeCall /\ call[c].step = "unlink" /\ binary' = binary
    BY <1>1, <1>5, CallShape DEF PurgeUnlink, PurgeSteps, Rows
  <2>2. PICK f \in call[c].paths :
          /\ call' = [call EXCEPT ![c] = [call[c] EXCEPT !.paths = call[c].paths \ {f}]]
          /\ disk' = [disk EXCEPT ![f] = "none"] \/ faults' = faults + 1
    BY <1>5 DEF PurgeUnlink
  <2>3. call'[c].step = "unlink" /\ call'[c].paths = call[c].paths \ {f}
    BY <1>1, <2>1, <2>2 DEF PurgeCall, TypeOK
  <2>4. /\ Dooms(c) = call[c].paths /\ Dooms(c)' = call[c].paths \ {f}
        /\ Claims(c) = {}
    BY <2>1, <2>3 DEF Dooms, Claims
  <2>5. CASE disk' = [disk EXCEPT ![f] = "none"]
    <3>1. f \in Files
      BY <2>1 DEF PurgeCall
    <3>2. disk'[f] = "none" /\ \A g \in Files \ {f} : disk'[g] = disk[g]
      BY <1>1, <2>5, <3>1 DEF TypeOK
    <3>3. \A h \in Hashes : disk'[Sample(h)] # "none" =>
                              Sample(h) # f /\ disk'[Sample(h)] = disk[Sample(h)]
      BY <3>2 DEF Files
    <3>4. QED BY <1>1, <1>2, <2>1, <2>4, <3>3, MoveForgetsNothing
  <2>6. CASE faults' = faults + 1
    <3>1. crashes' + faults' # 0
      BY <1>1, <1>5, <2>6 DEF TypeOK, PurgeUnlink
    <3>2. QED BY <3>1 DEF SamplesInHand
  <2>7. QED BY <2>2, <2>5, <2>6
<1>6. CASE PurgeEnd(c)
  <2>1. UNCHANGED <<binary, disk>> /\ Claims(c) = {} /\ Dooms(c) = {}
    BY <1>6 DEF PurgeEnd, Rows, Claims, Dooms
  <2>2. QED BY <1>1, <1>2, <2>1, BystandersForgetNothing
<1>7. QED
  <2>1. ASSUME NEW p \in Principals, NEW grants \in BOOLEAN, PurgeStart(c, p, grants)
        PROVE  call[c].step = "idle"
    BY <2>1 DEF PurgeStart, Idle
  <2>2. ASSUME PurgeHashes(c) PROVE call[c].step = "hashes"
    BY <2>2 DEF PurgeHashes
  <2>3. QED BY <1>3, <1>4, <1>5, <1>6, <2>1, <2>2 DEF Purge

LEMMA StepKeepsHandInv ==
  ASSUME HandInv, ReferencesResolve', [Next]_vars
  PROVE  HandInv'
<1>1. OverlapInv' /\ ReferencesResolve'
  BY StepKeepsOverlapInv DEF HandInv
<1>2. ASSUME UNCHANGED vars PROVE SamplesInHand'
  BY <1>2 DEF vars, HandInv, SamplesInHand, Claimed, Claims, Doomed
<1>3. ASSUME Crash PROVE SamplesInHand'
  <2>1. crashes' + faults' # 0
    <3>1. crashes' = crashes + 1 /\ faults' = faults
      BY <1>3 DEF Crash
    <3>2. crashes \in Nat /\ faults \in Nat
      BY ContentStoreAssumption DEF HandInv, OverlapInv, TypeOK, ContentStoreAssumption
    <3>3. QED BY <3>1, <3>2
  <2>2. QED BY <2>1 DEF SamplesInHand
<1>4. ASSUME NEW c \in Clients, Upload(c) \/ Unpack(c) \/ Purge(c) PROVE SamplesInHand'
  BY <1>4, UploadsForgetNothing, UnpacksForgetNothing, PurgesForgetNothing
<1>5. SamplesInHand'
  BY <1>2, <1>3, <1>4 DEF Next, Step, HandInv
<1>6. QED BY <1>1, <1>5 DEF HandInv

\* As long as no grant is left dangling, uploads and purges leave no sample behind that
\* no row names, however they overlap, while nothing crashes or fails.  (A dangling
\* grant makes its owner's next upload of the sample fail after the file is written.)
THEOREM SamplesNeverForgotten ==
  Spec => ([]ReferencesResolve => []SamplesInHand)
<1>1. Init => HandInv
  <2>1. Init => SamplesInHand
    BY DEF Init, SamplesInHand, Files
  <2>2. Init => ReferencesResolve
    BY DEF Init, ReferencesResolve
  <2>3. QED BY InitOverlapInv, <2>1, <2>2 DEF HandInv
<1>2. HandInv /\ [Next]_vars /\ ReferencesResolve' => HandInv'
  BY StepKeepsHandInv
<1>3. HandInv => SamplesInHand
  BY DEF HandInv
<1>4. QED BY <1>1, <1>2, <1>3, PTL DEF Spec

-----------------------------------------------------------------------------
(* One request at a time                                                   *)

Serial == \A c, d \in Clients : c = d

\* What the step of a request says of rows and files when nobody else runs:
\* what it looked up is still so, and what it wrote or deleted is done.
ClaimsHold(c) ==
    LET k == call[c] IN
    /\ k.step \in {"upload-write", "upload-insert"} => k.hash \notin binary
    /\ k.step \in {"grant"} \cup UnpackSteps => k.hash \in binary
    /\ k.step \in {"hashes", "delete"} =>
          k.paths = {Derived(h) : h \in {x \in Hashes : <<k.who, x>> \in artifact}}
    /\ k.step = "delete" => k.owned = {h \in Hashes : <<k.who, h>> \in access}

StoreConsistent ==
    /\ ReferencesResolve
    /\ \A c \in Clients : ClaimsHold(c)

SerialInv == TypeOK /\ StoreConsistent

\* A request that is over claims nothing.
LEMMA FinishedClaimsNothing ==
  ASSUME TypeOK, NEW c \in Clients, Finish(c)
  PROVE  ClaimsHold(c)'
<1>1. call'[c] = Idle
  BY DEF Finish, Become, TypeOK
<1>2. QED BY <1>1 DEF ClaimsHold, Idle, UnpackSteps

LEMMA UploadInsertSafe ==
  ASSUME SerialInv, Serial, NEW c \in Clients, UploadInsert(c)
  PROVE  StoreConsistent'
<1> DEFINE h == call[c].hash
<1>1. h \in Hashes /\ call[c].who \in Principals
  BY CallShape DEF SerialInv, UploadInsert, UploadSteps, UploadCall
<1>2. h \notin binary
  BY DEF SerialInv, StoreConsistent, ClaimsHold, UploadInsert
<1>3. <<call[c].who, h>> \notin access
  BY <1>1, <1>2 DEF SerialInv, StoreConsistent, ReferencesResolve
<1>4. /\ binary' = binary \cup {h}
      /\ access' = access \cup {<<call[c].who, h>>}
      /\ UNCHANGED artifact
  BY <1>2, <1>3 DEF UploadInsert
<1>5. ReferencesResolve'
  BY <1>4 DEF SerialInv, StoreConsistent, ReferencesResolve
<1>6. ClaimsHold(c)'
  BY FinishedClaimsNothing DEF UploadInsert, SerialInv
<1>7. QED BY <1>5, <1>6 DEF StoreConsistent, Serial

LEMMA GrantSafe ==
  ASSUME SerialInv, Serial, NEW c \in Clients, Grant(c)
  PROVE  StoreConsistent'
<1>1. call[c].hash \in binary
  BY DEF SerialInv, StoreConsistent, ClaimsHold, Grant
<1>2. /\ access' = access \cup {<<call[c].who, call[c].hash>>}
      /\ UNCHANGED <<binary, artifact>>
  BY <1>1 DEF Grant
<1>3. ReferencesResolve'
  BY <1>1, <1>2 DEF SerialInv, StoreConsistent, ReferencesResolve
<1>4. ClaimsHold(c)'
  BY FinishedClaimsNothing DEF Grant, SerialInv
<1>5. QED BY <1>3, <1>4 DEF StoreConsistent, Serial

LEMMA UnpackInsertSafe ==
  ASSUME SerialInv, Serial, NEW c \in Clients, UnpackInsert(c)
  PROVE  StoreConsistent'
<1> DEFINE h == call[c].hash
<1>1. h \in binary
  BY DEF SerialInv, StoreConsistent, ClaimsHold, UnpackInsert, UnpackSteps
<1>2. /\ artifact' = artifact \cup {<<call[c].who, h>>}
      /\ UNCHANGED <<binary, access>>
  BY <1>1 DEF UnpackInsert
<1>3. ReferencesResolve'
  BY <1>1, <1>2 DEF SerialInv, StoreConsistent, ReferencesResolve
<1>4. ClaimsHold(c)'
  BY FinishedClaimsNothing DEF UnpackInsert, SerialInv
<1>5. QED BY <1>3, <1>4 DEF StoreConsistent, Serial

\* Steps that change no row are safe when their own claims hold.
LEMMA QuietStepSafe ==
  ASSUME SerialInv, Serial, NEW c \in Clients, UNCHANGED Rows, ClaimsHold(c)'
  PROVE  StoreConsistent'
<1>1. ReferencesResolve'
  BY DEF SerialInv, StoreConsistent, ReferencesResolve, Rows
<1>2. QED BY <1>1 DEF StoreConsistent, Serial

LEMMA LookupsSafe ==
  ASSUME SerialInv, Serial, NEW c \in Clients,
         \/ \E p \in Principals, h \in Hashes : UploadLookup(c, p, h)
         \/ \E p \in Principals, h \in Hashes : UnpackStart(c, p, h)
         \/ RequireAccess(c)
         \/ UnpackLookup(c)
         \/ UploadWrite(c)
         \/ UnpackWrite(c)
         \/ PurgeUnlink(c)
         \/ PurgeEnd(c)
  PROVE  StoreConsistent'
<1>1. UNCHANGED Rows
  BY DEF UploadLookup, UnpackStart, RequireAccess, UnpackLookup, UploadWrite, UnpackWrite,
         PurgeUnlink, PurgeEnd
<1> SUFFICES ClaimsHold(c)'
  BY <1>1, QuietStepSafe
<1>2. ASSUME NEW p \in Principals, NEW h \in Hashes, UploadLookup(c, p, h)
      PROVE  ClaimsHold(c)'
  <2>1. call'[c] = [step |-> IF h \in binary THEN "grant" ELSE "upload-write",
                    who |-> p, hash |-> h]
    BY <1>2 DEF UploadLookup, Become, SerialInv, TypeOK
  <2>2. QED BY <2>1, <1>1 DEF ClaimsHold, Rows, UnpackSteps
<1>3. ASSUME NEW p \in Principals, NEW h \in Hashes, UnpackStart(c, p, h)
      PROVE  ClaimsHold(c)'
  <2>1. call'[c] = [step |-> "require", who |-> p, hash |-> h]
    BY <1>3 DEF UnpackStart, Become, SerialInv, TypeOK
  <2>2. QED BY <2>1, <1>1, <1>3 DEF ClaimsHold, Rows, UnpackSteps, UnpackStart
<1>4. CASE RequireAccess(c)
  <2>1. CASE Finish(c)
    BY <2>1, FinishedClaimsNothing DEF SerialInv
  <2>2. CASE Advance(c, "lookup")
    <3>1. call'[c] = [call[c] EXCEPT !.step = "lookup"]
      BY <2>2, <1>4, AdvanceKeepsCalls DEF RequireAccess, SerialInv, UnpackSteps
    <3>2. call'[c].step = "lookup" /\ call'[c].hash = call[c].hash
      BY <3>1, <1>4, CallShape DEF UnpackCall, RequireAccess, SerialInv, UnpackSteps
    <3>3. call[c].hash \in binary
      BY <1>4 DEF SerialInv, StoreConsistent, ClaimsHold, RequireAccess, UnpackSteps
    <3>4. QED BY <3>2, <3>3, <1>1 DEF ClaimsHold, Rows, UnpackSteps
  <2>3. QED BY <1>4, <2>1, <2>2 DEF RequireAccess
<1>5. CASE UnpackLookup(c)
  <2> DEFINE next == IF disk[Derived(call[c].hash)] = "none" THEN "write" ELSE "insert"
  <2>1. CASE Finish(c)
    BY <2>1, FinishedClaimsNothing DEF SerialInv
  <2>2. CASE Advance(c, next)
    <3>1. call'[c] = [call[c] EXCEPT !.step = next]
      BY <2>2, <1>5, AdvanceKeepsCalls DEF UnpackLookup, SerialInv, UnpackSteps
    <3>2. call'[c].step = next /\ call'[c].hash = call[c].hash
      BY <3>1, <1>5, CallShape DEF UnpackCall, UnpackLookup, SerialInv, UnpackSteps
    <3>3. call[c].hash \in binary
      BY <1>5 DEF SerialInv, StoreConsistent, ClaimsHold, UnpackLookup, UnpackSteps
    <3>4. QED BY <3>2, <3>3, <1>1 DEF ClaimsHold, Rows, UnpackSteps
  <2>3. QED BY <1>5, <2>1, <2>2 DEF UnpackLookup
<1>6. CASE PurgeEnd(c)
  BY <1>6, FinishedClaimsNothing DEF PurgeEnd, SerialInv
<1>7. CASE UploadWrite(c)
  <2>1. CASE Finish(c)
    BY <2>1, FinishedClaimsNothing DEF SerialInv
  <2>2. CASE Advance(c, "upload-insert")
    <3>1. call[c] \in UploadCall /\ call[c].hash \notin binary
      BY <1>7, CallShape DEF UploadWrite, SerialInv, StoreConsistent, ClaimsHold, UploadSteps
    <3>2. call'[c].step = "upload-insert" /\ call'[c].hash = call[c].hash
      BY <2>2, <3>1 DEF Advance, SerialInv, TypeOK, UploadCall
    <3>3. QED BY <3>1, <3>2, <1>1 DEF ClaimsHold, Rows, UnpackSteps
  <2>3. QED BY <1>7, <2>1, <2>2 DEF UploadWrite
<1>8. CASE UnpackWrite(c)
  <2>1. CASE Finish(c)
    BY <2>1, FinishedClaimsNothing DEF SerialInv
  <2>2. CASE Advance(c, "insert")
    <3>1. call[c] \in UnpackCall /\ call[c].hash \in binary
      BY <1>8, CallShape DEF UnpackWrite, SerialInv, StoreConsistent, ClaimsHold, UnpackSteps
    <3>2. call'[c].step = "insert" /\ call'[c].hash = call[c].hash
      BY <2>2, <3>1 DEF Advance, SerialInv, TypeOK, UnpackCall
    <3>3. QED BY <3>1, <3>2, <1>1 DEF ClaimsHold, Rows, UnpackSteps
  <2>3. QED BY <1>8, <2>1, <2>2 DEF UnpackWrite
<1>9. CASE PurgeUnlink(c)
  <2>1. call[c] \in PurgeCall /\ call[c].step = "unlink"
    BY <1>9, CallShape DEF PurgeUnlink, PurgeSteps, SerialInv
  <2>2. call'[c].step = "unlink"
    BY <1>9, <2>1 DEF PurgeUnlink, SerialInv, TypeOK, PurgeCall
  <2>3. QED BY <2>2 DEF ClaimsHold, UnpackSteps
<1>10. QED BY <1>2, <1>3, <1>4, <1>5, <1>6, <1>7, <1>8, <1>9

LEMMA SelectionsSafe ==
  ASSUME SerialInv, Serial, NEW c \in Clients,
         \/ \E p \in Principals, grants \in BOOLEAN : PurgeStart(c, p, grants)
         \/ PurgeHashes(c)
  PROVE  StoreConsistent'
<1>1. UNCHANGED Rows
  BY DEF PurgeStart, PurgeHashes
<1> SUFFICES ClaimsHold(c)'
  BY <1>1, QuietStepSafe
<1>2. ASSUME NEW p \in Principals, NEW grants \in BOOLEAN, PurgeStart(c, p, grants)
      PROVE  ClaimsHold(c)'
  <2>1. call'[c] = [step |-> "hashes", who |-> p, grants |-> grants, owned |-> {},
                    paths |-> {Derived(h) : h \in {x \in Hashes : <<p, x>> \in artifact}}]
    BY <1>2 DEF PurgeStart, Become, SerialInv, TypeOK
  <2>2. QED BY <2>1, <1>1 DEF ClaimsHold, Rows, UnpackSteps
<1>3. CASE PurgeHashes(c)
  <2>1. call[c] \in PurgeCall
    BY <1>3, CallShape DEF PurgeHashes, PurgeSteps, SerialInv
  <2>2. call'[c] = [call[c] EXCEPT !.step = "delete",
                       !.owned = {h \in Hashes : <<call[c].who, h>> \in access}]
    BY <1>3 DEF PurgeHashes, SerialInv, TypeOK
  <2>3. /\ call'[c].step = "delete"
        /\ call'[c].owned = {h \in Hashes : <<call[c].who, h>> \in access}
        /\ call'[c].who = call[c].who
        /\ call'[c].paths = call[c].paths
    BY <2>1, <2>2 DEF PurgeCall
  <2>4. call[c].paths
          = {Derived(h) : h \in {x \in Hashes : <<call[c].who, x>> \in artifact}}
    BY <1>3 DEF PurgeHashes, SerialInv, StoreConsistent, ClaimsHold
  <2>5. QED BY <2>3, <2>4, <1>1 DEF ClaimsHold, Rows, UnpackSteps
<1>4. QED BY <1>2, <1>3

\* The deletions of a purge leave the rows consistent.
LEMMA PurgeCommitSafe ==
  ASSUME SerialInv, Serial, NEW c \in Clients, PurgeCommit(c)
  PROVE  StoreConsistent'
<1>1. call[c] \in PurgeCall
  BY CallShape DEF PurgeCommit, PurgeSteps, SerialInv
<1>2. ReferencesResolve'
  BY PurgeSparesReferenced DEF SerialInv, StoreConsistent
<1>3. call'[c].step = "unlink"
  BY <1>1 DEF PurgeCommit, PurgeCall, SerialInv, TypeOK
<1>4. ClaimsHold(c)'
  BY <1>3 DEF ClaimsHold, UnpackSteps
<1>5. QED BY <1>2, <1>4 DEF StoreConsistent, Serial

LEMMA CrashSafe ==
  ASSUME SerialInv, Crash
  PROVE  StoreConsistent'
  BY DEF Crash, Rows, SerialInv, StoreConsistent, ReferencesResolve, ClaimsHold, Idle, UnpackSteps

LEMMA StepKeepsSerialInv ==
  ASSUME SerialInv, Serial, [Next]_vars
  PROVE  SerialInv'
<1>1. TypeOK'
  BY StepKeepsType DEF SerialInv
<1>2. CASE UNCHANGED vars
  BY <1>1, <1>2 DEF vars, SerialInv, StoreConsistent, ReferencesResolve, ClaimsHold
<1>3. CASE Crash
  BY <1>1, <1>3, CrashSafe DEF SerialInv
<1>4. ASSUME NEW c \in Clients, Upload(c) \/ Unpack(c) \/ Purge(c)
      PROVE  StoreConsistent'
  BY <1>4, UploadInsertSafe, GrantSafe, UnpackInsertSafe, LookupsSafe, SelectionsSafe,
     PurgeCommitSafe DEF Upload, Unpack, Purge
<1>5. QED BY <1>1, <1>2, <1>3, <1>4 DEF Next, Step, SerialInv

LEMMA InitSerialInv == Init => SerialInv
  BY ContentStoreAssumption
     DEF Init, SerialInv, TypeOK, StoreConsistent, ReferencesResolve, ClaimsHold, Idle,
         UnpackSteps, ContentStoreAssumption, Files

Uncontested == contested = {}

\* One request at a time no file is ever contested, so that the two theorems above hold
\* without exception.
THEOREM NothingContested ==
  ASSUME Serial
  PROVE  Spec => []Uncontested
<1>1. Init => Uncontested
  BY DEF Init, Uncontested
<1>2. Uncontested /\ [Next]_vars => Uncontested'
  <2> SUFFICES ASSUME contested = {}, Next PROVE contested' = {}
    BY DEF Uncontested, vars
  <2>1. Claimed' \cap Doomed' = {}
    <3>1. ASSUME NEW f \in Claimed', f \in Doomed' PROVE FALSE
      <4>1. PICK c \in Clients : f \in Claims(c)'
        BY <3>1 DEF Claimed
      <4>2. PICK d \in Clients : call'[d].step = "unlink"
        BY <3>1 DEF Doomed
      <4>3. QED BY <4>1, <4>2 DEF Serial, Claims
    <3>2. QED BY <3>1
  <2>2. QED BY <2>1 DEF Next, Contest
<1>3. QED BY <1>1, <1>2, PTL DEF Spec

\* One request at a time the references resolve also without foreign keys.
THEOREM SerialReferencesResolve ==
  ASSUME Serial
  PROVE  Spec => []ReferencesResolve
<1>1. SerialInv /\ [Next]_vars => SerialInv'
  BY StepKeepsSerialInv
<1>2. SerialInv => ReferencesResolve
  BY DEF SerialInv, StoreConsistent
<1>3. QED BY InitSerialInv, <1>1, <1>2, PTL DEF Spec

-----------------------------------------------------------------------------
(* No sample without a holder: without admins, an artifact's owner has a grant *)

HasGrant(c) == <<call[c].who, call[c].hash>> \in access

HoldersInv ==
    /\ SamplesHaveHolders
    /\ artifact \subseteq access
    /\ \A c \in Clients : call[c].step \in {"lookup", "write", "insert"} => HasGrant(c)

LEMMA PurgeCommitKeepsHolders ==
  ASSUME SerialInv, Serial, HoldersInv, NEW c \in Clients, PurgeCommit(c)
  PROVE  HoldersInv'
<1> DEFINE p == call[c].who
           artifacts == OfOthers(artifact, p)
           grants == IF call[c].grants THEN OfOthers(access, p) ELSE access
           dead == IF call[c].grants
                     THEN Unreferenced(call[c].owned, grants, artifacts) \cap binary
                     ELSE {}
<1>1. call[c] \in PurgeCall /\ call[c].grants \in BOOLEAN
  BY CallShape DEF PurgeCommit, PurgeSteps, SerialInv, PurgeCall
<1>2. /\ artifact' = artifacts /\ access' = grants /\ binary' = binary \ dead
      /\ call'[c].step = "unlink"
  BY <1>1 DEF PurgeCommit, SerialInv, TypeOK, PurgeCall
<1>3. artifacts \subseteq grants
  BY DEF HoldersInv, OfOthers
<1>4. ASSUME NEW h \in binary \ dead PROVE Referenced(grants, h)
  <2>1. h \in Hashes /\ Referenced(access, h)
    BY DEF SerialInv, TypeOK, HoldersInv, SamplesHaveHolders
  <2>2. CASE ~call[c].grants
    BY <2>1, <2>2
  <2>3. CASE call[c].grants /\ h \notin call[c].owned
    <3>1. <<p, h>> \notin access
      BY <2>1, <2>3 DEF PurgeCommit, SerialInv, StoreConsistent, ClaimsHold
    <3>2. QED BY <2>1, <2>3, <3>1 DEF Referenced, OfOthers
  <2>4. CASE call[c].grants /\ h \in call[c].owned
    <3>1. Referenced(grants, h) \/ Referenced(artifacts, h)
      BY <2>4 DEF Unreferenced
    <3>2. QED BY <3>1, <1>3 DEF Referenced
  <2>5. QED BY <2>2, <2>3, <2>4
<1>5. SamplesHaveHolders'
  <2> HIDE DEF artifacts, grants, dead
  <2> QED BY <1>2, <1>4 DEF SamplesHaveHolders, Referenced
<1>6. QED BY <1>2, <1>3, <1>5 DEF HoldersInv, Serial

LEMMA StepKeepsHolders ==
  ASSUME SerialInv, Serial, Admins = {}, HoldersInv, [Next]_vars
  PROVE  HoldersInv'
<1>1. CASE UNCHANGED vars
  BY <1>1 DEF vars, HoldersInv, SamplesHaveHolders, Referenced, HasGrant
<1>2. CASE Crash
  BY <1>2 DEF Crash, Rows, HoldersInv, SamplesHaveHolders, Referenced, Idle
<1>3. ASSUME NEW c \in Clients,
             UNCHANGED Rows,
             call'[c].step \in {"lookup", "write", "insert"} =>
                <<call'[c].who, call'[c].hash>> \in access
      PROVE  HoldersInv'
  BY <1>3 DEF Rows, HoldersInv, SamplesHaveHolders, Referenced, Serial, HasGrant
<1>4. ASSUME NEW c \in Clients, Finish(c) PROVE call'[c].step = "idle"
  BY <1>4 DEF Finish, Become, Idle, SerialInv, TypeOK
<1>5. ASSUME NEW c \in Clients, NEW p \in Principals, NEW h \in Hashes, UploadLookup(c, p, h)
      PROVE  HoldersInv'
  <2>1. call'[c].step \in UploadSteps /\ UNCHANGED Rows
    BY <1>5 DEF UploadLookup, Become, SerialInv, TypeOK, UploadSteps
  <2>2. QED BY <2>1, <1>3 DEF UploadSteps
<1>6. ASSUME NEW c \in Clients, UploadWrite(c) PROVE HoldersInv'
  <2>1. call'[c].step \in {"idle", "upload-insert"} /\ UNCHANGED Rows
    <3>1. CASE Finish(c)
      BY <3>1, <1>4, <1>6 DEF UploadWrite
    <3>2. CASE Advance(c, "upload-insert")
      <4>1. call'[c] = [call[c] EXCEPT !.step = "upload-insert"] /\ call[c] \in UploadCall
        BY <3>2, <1>6, AdvanceKeepsCalls, CallShape DEF UploadWrite, SerialInv, UploadSteps
      <4>2. QED BY <4>1, <1>6 DEF UploadCall, UploadWrite
    <3>3. QED BY <1>6, <3>1, <3>2 DEF UploadWrite
  <2>2. QED BY <2>1, <1>3
<1>7. ASSUME NEW c \in Clients, UploadInsert(c) PROVE HoldersInv'
  <2>1. call'[c].step = "idle" /\ UNCHANGED artifact
    BY <1>4, <1>7 DEF UploadInsert
  <2>2. call[c].who \in Principals
    BY <1>7, CallShape DEF SerialInv, UploadInsert, UploadSteps, UploadCall
  <2>3. \/ UNCHANGED <<binary, access>>
        \/ /\ binary' = binary \cup {call[c].hash}
           /\ access' = access \cup {<<call[c].who, call[c].hash>>}
    BY <1>7 DEF UploadInsert
  <2>4. QED BY <2>1, <2>2, <2>3 DEF HoldersInv, SamplesHaveHolders, Referenced, Serial
<1>8. ASSUME NEW c \in Clients, Grant(c) PROVE HoldersInv'
  <2>1. call'[c].step = "idle" /\ UNCHANGED <<binary, artifact>>
    BY <1>4, <1>8 DEF Grant
  <2>2. access \subseteq access'
    BY <1>8 DEF Grant
  <2>3. QED BY <2>1, <2>2 DEF HoldersInv, SamplesHaveHolders, Referenced, Serial
<1>9. ASSUME NEW c \in Clients, NEW p \in Principals, NEW h \in Hashes, UnpackStart(c, p, h)
      PROVE  HoldersInv'
  <2>1. call'[c].step = "require" /\ UNCHANGED Rows
    BY <1>9 DEF UnpackStart, Become, SerialInv, TypeOK
  <2>2. QED BY <2>1, <1>3
<1>10. ASSUME NEW c \in Clients, NEW step \in UnpackSteps, Advance(c, step),
              call[c].step \in UnpackSteps, HasGrant(c)
       PROVE  <<call'[c].who, call'[c].hash>> \in access
  <2>1. call'[c] = [call[c] EXCEPT !.step = step] /\ call[c] \in UnpackCall
    BY <1>10, AdvanceKeepsCalls, CallShape DEF SerialInv
  <2>2. QED BY <2>1, <1>10 DEF UnpackCall, HasGrant
<1>11. ASSUME NEW c \in Clients, RequireAccess(c) PROVE HoldersInv'
  <2>1. CASE Finish(c)
    BY <2>1, <1>3, <1>4, <1>11 DEF RequireAccess
  <2>2. CASE Advance(c, "lookup") /\ MaySee(call[c].who, call[c].hash)
    <3>1. HasGrant(c)
      BY <2>2 DEF MaySee, HasGrant
    <3>2. QED BY <3>1, <2>2, <1>3, <1>10, <1>11 DEF RequireAccess, UnpackSteps
  <2>3. QED BY <1>11, <2>1, <2>2 DEF RequireAccess
<1>12. ASSUME NEW c \in Clients, UnpackLookup(c) PROVE HoldersInv'
  <2>1. HasGrant(c)
    BY <1>12 DEF HoldersInv, UnpackLookup
  <2>2. CASE Finish(c)
    BY <2>2, <1>3, <1>4, <1>12 DEF UnpackLookup
  <2>3. CASE \E step \in UnpackSteps : Advance(c, step)
    BY <2>1, <2>3, <1>3, <1>10, <1>12 DEF UnpackLookup, UnpackSteps
  <2>4. QED BY <1>12, <2>2, <2>3 DEF UnpackLookup, UnpackSteps
<1>13. ASSUME NEW c \in Clients, UnpackWrite(c) PROVE HoldersInv'
  <2>1. HasGrant(c)
    BY <1>13 DEF HoldersInv, UnpackWrite
  <2>2. CASE Finish(c)
    BY <2>2, <1>3, <1>4, <1>13 DEF UnpackWrite
  <2>3. CASE Advance(c, "insert")
    BY <2>1, <2>3, <1>3, <1>10, <1>13 DEF UnpackWrite, UnpackSteps
  <2>4. QED BY <1>13, <2>2, <2>3 DEF UnpackWrite
<1>14. ASSUME NEW c \in Clients, UnpackInsert(c) PROVE HoldersInv'
  <2>1. HasGrant(c)
    BY <1>14 DEF HoldersInv, UnpackInsert
  <2>2. call'[c].step = "idle" /\ UNCHANGED <<binary, access>>
    BY <1>4, <1>14 DEF UnpackInsert
  <2>3. artifact' \subseteq artifact \cup {<<call[c].who, call[c].hash>>}
    BY <1>14 DEF UnpackInsert
  <2>4. QED BY <2>1, <2>2, <2>3
              DEF HoldersInv, SamplesHaveHolders, Referenced, HasGrant, Serial
<1>15. ASSUME NEW c \in Clients, NEW p \in Principals, NEW grants \in BOOLEAN,
              PurgeStart(c, p, grants)
       PROVE  HoldersInv'
  <2>1. call'[c].step = "hashes" /\ UNCHANGED Rows
    BY <1>15 DEF PurgeStart, Become, SerialInv, TypeOK
  <2>2. QED BY <2>1, <1>3
<1>16. ASSUME NEW c \in Clients, PurgeHashes(c) PROVE HoldersInv'
  <2>1. call[c] \in PurgeCall
    BY <1>16, CallShape DEF PurgeHashes, PurgeSteps, SerialInv
  <2>2. call'[c].step = "delete" /\ UNCHANGED Rows
    BY <2>1, <1>16 DEF PurgeHashes, SerialInv, TypeOK, PurgeCall
  <2>3. QED BY <2>2, <1>3
<1>17. ASSUME NEW c \in Clients, PurgeCommit(c) PROVE HoldersInv'
  BY <1>17, PurgeCommitKeepsHolders
<1>18. ASSUME NEW c \in Clients, PurgeUnlink(c) PROVE HoldersInv'
  <2>1. call[c] \in PurgeCall
    BY <1>18, CallShape DEF PurgeUnlink, PurgeSteps, SerialInv
  <2>2. call'[c].step = "unlink" /\ UNCHANGED Rows
    BY <2>1, <1>18 DEF PurgeUnlink, SerialInv, TypeOK, PurgeCall
  <2>3. QED BY <2>2, <1>3
<1>19. ASSUME NEW c \in Clients, PurgeEnd(c) PROVE HoldersInv'
  BY <1>3, <1>4, <1>19 DEF PurgeEnd
<1>20. QED
  BY <1>1, <1>2, <1>5, <1>6, <1>7, <1>8, <1>9, <1>11, <1>12, <1>13, <1>14, <1>15, <1>16,
     <1>17, <1>18, <1>19 DEF Next, Step, Upload, Unpack, Purge

\* One request at a time and without admins, no purge leaves a sample behind that
\* nobody can see or purge any more.
THEOREM SamplesKeepHolders ==
  ASSUME Serial, Admins = {}
  PROVE  Spec => []SamplesHaveHolders
<1>1. Init => HoldersInv
  BY DEF Init, HoldersInv, SamplesHaveHolders, Idle
<1>2. SerialInv /\ HoldersInv /\ [Next]_vars => SerialInv' /\ HoldersInv'
  BY StepKeepsSerialInv, StepKeepsHolders
<1>3. HoldersInv => SamplesHaveHolders
  BY DEF HoldersInv
<1>4. QED BY InitSerialInv, <1>1, <1>2, <1>3, PTL DEF Spec

-----------------------------------------------------------------------------
(* No file is forgotten: each has its row, or a request that is about to      *)
(* commit the row or to remove the file                                       *)

SampleHeld(c, h) ==
    \/ call[c].step = "upload-insert" /\ call[c].hash = h
    \/ call[c].step = "unlink" /\ Sample(h) \in call[c].paths

DerivedHeld(c, h) ==
    \/ call[c].step = "insert" /\ call[c].hash = h
    \/ call[c].step = "unlink" /\ Derived(h) \in call[c].paths

SampleAccounted(h) ==
    disk[Sample(h)] # "none" => h \in binary \/ \E c \in Clients : SampleHeld(c, h)

DerivedAccounted(h) ==
    disk[Derived(h)] # "none" =>
        Referenced(artifact, h) \/ \E c \in Clients : DerivedHeld(c, h)

FilesAccounted ==
    crashes + faults = 0 => \A h \in Hashes : SampleAccounted(h) /\ DerivedAccounted(h)

LEMMA ZeroSum ==
  ASSUME NEW m \in Nat, NEW n \in Nat, m + n = 0
  PROVE  m = 0 /\ n = 0
  OBVIOUS

\* Crashes and faults are counted, never uncounted.
LEMMA CountersGrow ==
  ASSUME TypeOK, TypeOK', [Next]_vars, crashes' + faults' = 0
  PROVE  crashes = 0 /\ faults = 0 /\ UNCHANGED faults /\ ~Crash
<1>1. /\ crashes \in Nat /\ faults \in Nat /\ crashes' \in Nat /\ faults' \in Nat
  BY ContentStoreAssumption DEF TypeOK, ContentStoreAssumption
<1>2. crashes' = 0 /\ faults' = 0
  BY <1>1, ZeroSum
<1>3. ~Crash
  BY <1>1, <1>2 DEF Crash
<1>4. \A f : WriteFile(f) => faults' \in {faults, faults + 1}
  BY DEF WriteFile
<1>5. crashes' = crashes /\ faults' \in {faults, faults + 1}
  BY <1>3, <1>4 DEF Next, Step, Upload, Unpack, Purge, UploadLookup, UploadWrite, UploadInsert, Grant,
     UnpackStart, RequireAccess, UnpackLookup, UnpackWrite, UnpackInsert, PurgeStart, PurgeHashes,
     PurgeCommit, PurgeUnlink, PurgeEnd, vars, Bounded
<1>6. QED BY <1>1, <1>2, <1>3, <1>5

LEMMA StepKeepsAccounts ==
  ASSUME SerialInv, SerialInv', Serial, FilesAccounted, [Next]_vars
  PROVE  FilesAccounted'
<1> SUFFICES ASSUME crashes' + faults' = 0, NEW h \in Hashes
             PROVE  SampleAccounted(h)' /\ DerivedAccounted(h)'
  BY DEF FilesAccounted
<1>1. UNCHANGED faults /\ ~Crash /\ SampleAccounted(h) /\ DerivedAccounted(h)
  BY CountersGrow DEF SerialInv, FilesAccounted
<1>2. Sample(h) \in Files /\ Derived(h) \in Files
  BY DEF Files
<1>3. CASE UNCHANGED vars
  BY <1>1, <1>3 DEF vars, SampleAccounted, DerivedAccounted, SampleHeld, DerivedHeld, Referenced
<1>4. ASSUME NEW c \in Clients, ~SampleHeld(c, h), ~DerivedHeld(c, h), UNCHANGED disk,
             binary \subseteq binary', artifact \subseteq artifact'
      PROVE  SampleAccounted(h)' /\ DerivedAccounted(h)'
  BY <1>1, <1>4 DEF SampleAccounted, DerivedAccounted, Referenced, Serial
<1>5. ASSUME NEW c \in Clients,
             \/ \E p \in Principals, g \in Hashes : UploadLookup(c, p, g) \/ UnpackStart(c, p, g)
             \/ \E p \in Principals, grants \in BOOLEAN : PurgeStart(c, p, grants)
             \/ Grant(c) \/ RequireAccess(c) \/ UnpackLookup(c) \/ PurgeHashes(c) \/ PurgeEnd(c)
      PROVE  SampleAccounted(h)' /\ DerivedAccounted(h)'
  <2>1. /\ UNCHANGED disk
        /\ binary \subseteq binary'
        /\ artifact \subseteq artifact'
    BY <1>5 DEF UploadLookup, UnpackStart, PurgeStart, Grant, RequireAccess, UnpackLookup,
                PurgeHashes, PurgeEnd, Rows
  <2>2. \/ call[c] = Idle
        \/ call[c].step \in {"grant", "require", "lookup", "hashes"}
        \/ call[c].step = "unlink" /\ call[c].paths = {}
    BY <1>5 DEF UploadLookup, UnpackStart, PurgeStart, Grant, RequireAccess, UnpackLookup,
                PurgeHashes, PurgeEnd
  <2>3. ~SampleHeld(c, h) /\ ~DerivedHeld(c, h)
    BY <2>2 DEF SampleHeld, DerivedHeld, Idle
  <2>4. QED BY <2>1, <2>3, <1>4
<1>6. ASSUME NEW c \in Clients, UploadWrite(c)
      PROVE  SampleAccounted(h)' /\ DerivedAccounted(h)'
  <2> DEFINE g == call[c].hash
  <2>1. call[c] \in UploadCall /\ g \in Hashes /\ Sample(g) \in Files
    BY <1>6, CallShape DEF SerialInv, UploadWrite, UploadSteps, UploadCall, Files
  <2>2. disk' = [disk EXCEPT ![Sample(g)] = "whole"]
    BY <1>1, <1>6, ContentStoreAssumption
       DEF UploadWrite, WriteFile, SerialInv, TypeOK, ContentStoreAssumption
  <2>3. disk'[Sample(g)] = "whole" /\ disk'[Derived(h)] = disk[Derived(h)]
        /\ (g # h => disk'[Sample(h)] = disk[Sample(h)])
    BY <1>2, <2>1, <2>2, FilesApart DEF SerialInv, TypeOK
  <2>4. call'[c] = [call[c] EXCEPT !.step = "upload-insert"]
    BY <1>6, <2>3, AdvanceKeepsCalls DEF UploadWrite, SerialInv, UploadSteps
  <2>5. h = g => SampleHeld(c, h)'
    BY <2>1, <2>4 DEF SampleHeld, UploadCall
  <2>6. ~SampleHeld(c, h) /\ ~DerivedHeld(c, h) /\ UNCHANGED <<binary, artifact>>
    BY <1>6 DEF SampleHeld, DerivedHeld, UploadWrite, Rows
  <2>7. SampleAccounted(h)'
    <3>1. CASE g = h
      BY <2>5, <3>1 DEF SampleAccounted
    <3>2. CASE g # h
      BY <1>1, <2>3, <2>6, <3>2 DEF SampleAccounted, Serial, Sample
    <3>3. QED BY <3>1, <3>2
  <2>8. DerivedAccounted(h)'
    BY <1>1, <2>3, <2>6 DEF DerivedAccounted, Serial, Derived, Referenced
  <2>9. QED BY <2>7, <2>8
<1>7. ASSUME NEW c \in Clients, UploadInsert(c)
      PROVE  SampleAccounted(h)' /\ DerivedAccounted(h)'
  <2>1. call[c].hash \notin binary /\ call[c] \in UploadCall
    BY <1>7, CallShape DEF SerialInv, StoreConsistent, ClaimsHold, UploadInsert, UploadSteps
  <2>2. <<call[c].who, call[c].hash>> \notin access
    BY <2>1 DEF SerialInv, StoreConsistent, ReferencesResolve, UploadCall
  <2>3. binary' = binary \cup {call[c].hash} /\ UNCHANGED <<artifact, disk>>
    BY <1>7, <2>1, <2>2 DEF UploadInsert
  <2>4. SampleHeld(c, h) => h = call[c].hash
    BY <1>7 DEF SampleHeld, UploadInsert
  <2>5. ~DerivedHeld(c, h)
    BY <1>7 DEF DerivedHeld, UploadInsert
  <2>6. SampleAccounted(h)'
    BY <1>1, <2>3, <2>4 DEF SampleAccounted, Serial, Sample
  <2>7. DerivedAccounted(h)'
    BY <1>1, <2>3, <2>5 DEF DerivedAccounted, Serial, Derived, Referenced
  <2>8. QED BY <2>6, <2>7
<1>8. ASSUME NEW c \in Clients, UnpackWrite(c)
      PROVE  SampleAccounted(h)' /\ DerivedAccounted(h)'
  <2> DEFINE g == call[c].hash
  <2>1. call[c] \in UnpackCall /\ g \in Hashes /\ Derived(g) \in Files
    BY <1>8, CallShape DEF SerialInv, UnpackWrite, UnpackSteps, UnpackCall, Files
  <2>2. disk' = [disk EXCEPT ![Derived(g)] = "whole"]
    BY <1>1, <1>8, ContentStoreAssumption
       DEF UnpackWrite, WriteFile, SerialInv, TypeOK, ContentStoreAssumption
  <2>3. disk'[Derived(g)] = "whole" /\ disk'[Sample(h)] = disk[Sample(h)]
        /\ (g # h => disk'[Derived(h)] = disk[Derived(h)])
    BY <1>2, <2>1, <2>2, FilesApart DEF SerialInv, TypeOK
  <2>4. call'[c] = [call[c] EXCEPT !.step = "insert"]
    BY <1>8, <2>3, AdvanceKeepsCalls DEF UnpackWrite, SerialInv, UnpackSteps
  <2>5. h = g => DerivedHeld(c, h)'
    BY <2>1, <2>4 DEF DerivedHeld, UnpackCall
  <2>6. ~SampleHeld(c, h) /\ ~DerivedHeld(c, h) /\ UNCHANGED <<binary, artifact>>
    BY <1>8 DEF SampleHeld, DerivedHeld, UnpackWrite, Rows
  <2>7. SampleAccounted(h)'
    BY <1>1, <2>3, <2>6 DEF SampleAccounted, Serial, Sample
  <2>8. DerivedAccounted(h)'
    <3>1. CASE g = h
      BY <2>5, <3>1 DEF DerivedAccounted
    <3>2. CASE g # h
      BY <1>1, <2>3, <2>6, <3>2 DEF DerivedAccounted, Serial, Derived, Referenced
    <3>3. QED BY <3>1, <3>2
  <2>9. QED BY <2>7, <2>8
<1>9. ASSUME NEW c \in Clients, UnpackInsert(c)
      PROVE  SampleAccounted(h)' /\ DerivedAccounted(h)'
  <2>1. call[c].hash \in binary /\ call[c] \in UnpackCall
    BY <1>9, CallShape DEF SerialInv, StoreConsistent, ClaimsHold, UnpackInsert, UnpackSteps
  <2>2. /\ artifact' = artifact \cup {<<call[c].who, call[c].hash>>}
        /\ UNCHANGED <<binary, disk>>
    BY <1>9, <2>1 DEF UnpackInsert
  <2>3. ~SampleHeld(c, h) /\ (DerivedHeld(c, h) => h = call[c].hash)
    BY <1>9 DEF SampleHeld, DerivedHeld, UnpackInsert
  <2>4. SampleAccounted(h)'
    BY <1>1, <2>2, <2>3 DEF SampleAccounted, Serial, Sample
  <2>5. DerivedAccounted(h)'
    BY <1>1, <2>1, <2>2, <2>3 DEF DerivedAccounted, Serial, Derived, Referenced, UnpackCall
  <2>6. QED BY <2>4, <2>5
<1>10. ASSUME NEW c \in Clients, PurgeCommit(c)
       PROVE  SampleAccounted(h)' /\ DerivedAccounted(h)'
  <2> DEFINE p == call[c].who
             artifacts == OfOthers(artifact, p)
             grants == IF call[c].grants THEN OfOthers(access, p) ELSE access
             dead == IF call[c].grants
                       THEN Unreferenced(call[c].owned, grants, artifacts) \cap binary
                       ELSE {}
             paths == Removable(call[c].paths, artifacts, dead)
  <2>1. call[c] \in PurgeCall
    BY <1>10, CallShape DEF PurgeCommit, PurgeSteps, SerialInv
  <2>2. /\ artifact' = artifacts /\ binary' = binary \ dead /\ UNCHANGED disk
        /\ call' = [call EXCEPT ![c] = [call[c] EXCEPT !.step = "unlink", !.paths = paths]]
    BY <1>10 DEF PurgeCommit
  <2>3. call[c].paths = {Derived(g) : g \in {x \in Hashes : <<p, x>> \in artifact}}
    BY <1>10 DEF PurgeCommit, SerialInv, StoreConsistent, ClaimsHold
  <2>4. ~SampleHeld(c, h) /\ ~DerivedHeld(c, h)
    BY <1>10 DEF SampleHeld, DerivedHeld, PurgeCommit
  <2> HIDE DEF grants, dead
  <2>5. call'[c].step = "unlink" /\ call'[c].paths = paths
    BY <2>1, <2>2 DEF PurgeCall, SerialInv, TypeOK
  <2>6. h \in binary => h \in binary' \/ SampleHeld(c, h)'
    <3>1. h \in dead => Sample(h) \in paths
      BY DEF Removable
    <3>2. QED BY <3>1, <2>2, <2>5 DEF SampleHeld, Sample
  <2>7. Referenced(artifact, h) => Referenced(artifact, h)' \/ DerivedHeld(c, h)'
    <3> SUFFICES ASSUME Referenced(artifact, h), ~Referenced(artifacts, h)
                 PROVE  DerivedHeld(c, h)'
      BY <2>2 DEF Referenced
    <3>1. Derived(h) \in call[c].paths
      BY <2>3 DEF Referenced, OfOthers
    <3>2. Derived(h) \in paths
      BY <3>1, FilesApart DEF Removable
    <3> HIDE DEF paths
    <3>3. QED BY <3>2, <2>5 DEF DerivedHeld, Derived
  <2>8. SampleAccounted(h)'
    BY <1>1, <2>2, <2>4, <2>6 DEF SampleAccounted, Serial, Sample
  <2>9. DerivedAccounted(h)'
    <3> HIDE DEF artifacts, paths
    <3>1. disk'[Derived(h)] # "none" => Referenced(artifact, h)
      BY <1>1, <2>2, <2>4 DEF DerivedAccounted, Serial
    <3>2. QED BY <3>1, <2>7 DEF DerivedAccounted, Derived
  <2>10. QED BY <2>8, <2>9
<1>11. ASSUME NEW c \in Clients, PurgeUnlink(c)
       PROVE  SampleAccounted(h)' /\ DerivedAccounted(h)'
  <2>1. call[c] \in PurgeCall
    BY <1>11, CallShape DEF PurgeUnlink, PurgeSteps, SerialInv
  <2>2. PICK f \in call[c].paths :
          /\ call' = [call EXCEPT ![c] = [call[c] EXCEPT !.paths = call[c].paths \ {f}]]
          /\ disk' = [disk EXCEPT ![f] = "none"]
    <3>1. faults' # faults + 1
      BY <1>1, ContentStoreAssumption DEF SerialInv, TypeOK, ContentStoreAssumption
    <3>2. QED BY <3>1, <1>11 DEF PurgeUnlink
  <2>3. call'[c].step = "unlink" /\ call'[c].paths = call[c].paths \ {f}
    BY <2>1, <2>2, <1>11 DEF PurgeCall, SerialInv, TypeOK, PurgeUnlink
  <2>4. UNCHANGED <<binary, artifact>> /\ call[c].step = "unlink"
    BY <1>11 DEF PurgeUnlink, Rows
  <2>5. \A g \in Files : IF g = f THEN disk'[g] = "none" ELSE disk'[g] = disk[g]
    BY <2>2 DEF SerialInv, TypeOK
  <2>6. SampleAccounted(h)'
    BY <1>1, <1>2, <2>3, <2>4, <2>5 DEF SampleAccounted, SampleHeld, Serial, Sample
  <2>7. DerivedAccounted(h)'
    BY <1>1, <1>2, <2>3, <2>4, <2>5 DEF DerivedAccounted, DerivedHeld, Serial, Derived, Referenced
  <2>8. QED BY <2>6, <2>7
<1>12. QED
  BY <1>1, <1>3, <1>5, <1>6, <1>7, <1>8, <1>9, <1>10, <1>11 DEF Next, Step, Upload, Unpack, Purge

\* One request at a time, between requests, every file of the store has a row,
\* unless a crash or a failing file operation left it behind.
THEOREM NothingForgotten ==
  ASSUME Serial
  PROVE  Spec => []NoForgottenFiles
<1>1. Init => FilesAccounted
  BY DEF Init, FilesAccounted, SampleAccounted, DerivedAccounted, Files
<1>2. SerialInv /\ FilesAccounted /\ [Next]_vars => SerialInv' /\ FilesAccounted'
  BY StepKeepsSerialInv, StepKeepsAccounts
<1>3. FilesAccounted => NoForgottenFiles
  BY DEF FilesAccounted, NoForgottenFiles, SampleAccounted, DerivedAccounted, SampleHeld,
         DerivedHeld, Idle
<1>4. QED BY InitSerialInv, <1>1, <1>2, <1>3, PTL DEF Spec
=============================================================================
