--------------------------- MODULE StoreOnPostgres ---------------------------
(***************************************************************************)
(* ContentStore on PostgreSQL: foreign keys are enforced, and writers      *)
(* overlap.  A purge's transaction is READ COMMITTED and takes many        *)
(* statements; each sees what is committed when it starts and what its own *)
(* transaction deleted, and nothing other open transactions deleted.  Rows *)
(* deleted in an open transaction are locked: a writer that needs them     *)
(* waits for its end, which is a guard here.  The other requests write in  *)
(* transactions of one or two statements, which are one step as before.    *)
(*                                                                         *)
(* The purge's DELETEs are one step: between them only rows can be added,  *)
(* which is as if they were added before or after all of them.             *)
(***************************************************************************)
EXTENDS ContentStore

VARIABLE txn  \* the open transaction of each client's purge

pgvars == <<vars, txn>>

\* What the transaction deleted (artifact rows, grants, samples), the hashes it has yet
\* to look at, the one it found unreferenced and has yet to delete, and the paths it has
\* yet to ask about.
NoTxn == [open |-> FALSE, artifacts |-> {}, grants |-> {}, dead |-> {},
          left |-> {}, found |-> {}, asked |-> {}]
Txns == [open : BOOLEAN, artifacts : SUBSET Pairs, grants : SUBSET Pairs,
         dead : SUBSET Hashes, left : SUBSET Hashes, found : SUBSET Hashes,
         asked : SUBSET Files]

PgTypeOK == TypeOK /\ txn \in [Clients -> Txns]

PgInit == Init /\ txn = [c \in Clients |-> NoTxn]

Transactions == {c \in Clients : txn[c].open}

\* The committed rows as transaction c sees them.
SeenArtifacts(c) == artifact \ txn[c].artifacts
SeenGrants(c) == access \ txn[c].grants
SeenReferences(c) == SeenArtifacts(c) \cup SeenGrants(c)

-----------------------------------------------------------------------------
(* Inserts wait for the rows they need and find them or not *)

\* Nobody is deleting the sample the new row refers to.
SampleSettled(h) == \A e \in Transactions : h \notin txn[e].dead

PgUploadInsert(c) ==
    /\ call[c].step = "upload-insert"
    /\ SampleSettled(call[c].hash)
    /\ \A e \in Transactions : <<call[c].who, call[c].hash>> \notin txn[e].grants
    /\ UploadInsert(c)
    /\ UNCHANGED txn

\* The foreign key refuses a grant to a sample that was deleted since.
PgGrant(c) ==
    /\ call[c].step = "grant"
    /\ SampleSettled(call[c].hash)
    /\ \A e \in Transactions : <<call[c].who, call[c].hash>> \notin txn[e].grants
    /\ \/ call[c].hash \in binary /\ Grant(c)
       \/ /\ call[c].hash \notin binary
          /\ Finish(c)
          /\ UNCHANGED <<Rows, disk, Bounded>>
    /\ UNCHANGED txn

PgUnpackInsert(c) ==
    /\ call[c].step = "insert"
    /\ SampleSettled(call[c].hash)
    /\ \A e \in Transactions : <<call[c].who, call[c].hash>> \notin txn[e].artifacts
    /\ \/ call[c].hash \in binary /\ UnpackInsert(c)
       \/ /\ call[c].hash \notin binary
          /\ Finish(c)
          /\ UNCHANGED <<Rows, disk, Bounded>>
    /\ UNCHANGED txn

-----------------------------------------------------------------------------
(* The purge's transaction *)

Inside(c, new) == txn' = [txn EXCEPT ![c] = new]

\* The owner's rows, unless another purge of the same principal is deleting them.
DeleteOwned(c) ==
    LET p == call[c].who
        artifacts == artifact \ OfOthers(artifact, p)
        grants == IF call[c].grants THEN access \ OfOthers(access, p) ELSE {}
    IN
    /\ call[c].step = "delete"
    /\ c \notin Transactions
    /\ \A e \in Transactions :
          artifacts \cap txn[e].artifacts = {} /\ grants \cap txn[e].grants = {}
    /\ Inside(c, [NoTxn EXCEPT !.open = TRUE, !.artifacts = artifacts, !.grants = grants,
                               !.left = IF call[c].grants THEN call[c].owned ELSE {},
                               !.asked = call[c].paths])
    /\ UNCHANGED <<Rows, disk, call, Bounded>>

\* The next of the owner's samples: session.get and _binary_has_references.
LookAt(c) ==
    /\ c \in Transactions
    /\ txn[c].found = {}
    /\ \E h \in txn[c].left :
          Inside(c, [txn[c] EXCEPT !.left = @ \ {h},
                       !.found = IF h \in binary /\ ~Referenced(SeenReferences(c), h)
                                   THEN {h} ELSE {}])
    /\ UNCHANGED <<Rows, disk, call, Bounded>>

\* session.delete takes effect when the session is flushed, before the next SELECT.
\* Whoever else deletes the sample, or a row that refers to it, comes first.
MayDelete(c, h) ==
    \A e \in Transactions \ {c} :
        h \notin txn[e].dead /\ ~Referenced(txn[e].grants \cup txn[e].artifacts, h)

\* Mutant: the file of the deleted sample is no candidate.
DeleteFoundOnly(c) ==
    /\ \E h \in txn[c].found :
          /\ MayDelete(c, h)
          /\ ~Referenced(SeenReferences(c), h)
          /\ Inside(c, [txn[c] EXCEPT !.found = {}, !.dead = @ \cup {h}])
    /\ UNCHANGED <<Rows, disk, call, Bounded>>

\* A sample that was deleted in the meantime is deleted all the same (0 rows match, a
\* warning); its file is a candidate in any case.
DeleteFound(c) ==
    /\ \E h \in txn[c].found :
          /\ MayDelete(c, h)
          /\ ~Referenced(SeenReferences(c), h) \/ h \notin binary
          /\ Inside(c, [txn[c] EXCEPT !.found = {}, !.dead = @ \cup ({h} \cap binary)])
          /\ call' = [call EXCEPT ![c].paths = @ \cup {Sample(h)}]
    /\ UNCHANGED <<Rows, disk, Bounded>>

\* Mutant: the error is caught and the purge goes on, the file still a candidate.
RefusedGoesOn(c) ==
    /\ \E h \in txn[c].found :
          /\ Referenced(SeenReferences(c), h)
          /\ Inside(c, [txn[c] EXCEPT !.found = {}])
          /\ call' = [call EXCEPT ![c].paths = @ \cup {Sample(h)}]
    /\ UNCHANGED <<Rows, disk, Bounded>>

\* The foreign key refuses the deletion, as the sample is referred to by now, or two
\* purges wait for each other and the database ends one: all is rolled back, the request
\* fails.
Refused(c) ==
    /\ \E h \in txn[c].found : ~MayDelete(c, h) \/ Referenced(SeenReferences(c), h)
    /\ Inside(c, NoTxn)
    /\ Finish(c)
    /\ UNCHANGED <<Rows, disk, Bounded>>

\* Mutant: only the owner's rows are counted, and none is left.
AskPathOwned(c) ==
    /\ c \in Transactions
    /\ txn[c].left = {} /\ txn[c].found = {}
    /\ \E f \in txn[c].asked : Inside(c, [txn[c] EXCEPT !.asked = @ \ {f}])
    /\ UNCHANGED <<Rows, disk, call, Bounded>>

\* _path_has_reference, for one path after the other.
AskPath(c) ==
    /\ c \in Transactions
    /\ txn[c].left = {} /\ txn[c].found = {}
    /\ \E f \in txn[c].asked :
          /\ Inside(c, [txn[c] EXCEPT !.asked = @ \ {f}])
          /\ call' = [call EXCEPT ![c].paths =
                        Removable(@ \cap {f}, SeenArtifacts(c), {}) \cup (@ \ {f})]
    /\ UNCHANGED <<Rows, disk, Bounded>>

Commit(c) ==
    /\ c \in Transactions
    /\ txn[c].left = {} /\ txn[c].found = {} /\ txn[c].asked = {}
    /\ artifact' = SeenArtifacts(c)
    /\ access' = SeenGrants(c)
    /\ binary' = binary \ txn[c].dead
    /\ Inside(c, NoTxn)
    /\ Advance(c, "unlink")
    /\ UNCHANGED <<disk, Bounded>>

-----------------------------------------------------------------------------

PgUpload(c) ==
    \/ /\ \/ \E p \in Principals, h \in Hashes : UploadLookup(c, p, h)
          \/ UploadWrite(c)
       /\ UNCHANGED txn
    \/ PgUploadInsert(c) \/ PgGrant(c)

PgUnpack(c) ==
    \/ /\ \/ \E p \in Principals, h \in Hashes : UnpackStart(c, p, h)
          \/ RequireAccess(c) \/ UnpackLookup(c) \/ UnpackWrite(c)
       /\ UNCHANGED txn
    \/ PgUnpackInsert(c)

PgPurge(c) ==
    \/ /\ \/ \E p \in Principals, grants \in BOOLEAN : PurgeStart(c, p, grants)
          \/ PurgeHashes(c) \/ PurgeUnlink(c) \/ PurgeEnd(c)
       /\ UNCHANGED txn
    \/ DeleteOwned(c) \/ LookAt(c) \/ DeleteFound(c) \/ Refused(c) \/ AskPath(c) \/ Commit(c)

\* What was not committed is rolled back.
PgCrash == Crash /\ txn' = [c \in Clients |-> NoTxn]

PgStep == (\E c \in Clients : PgUpload(c) \/ PgUnpack(c) \/ PgPurge(c)) \/ PgCrash

\* What a purge removes is settled as soon as it has asked, before its commit.
Settled(c) ==
    IF txn[c].open THEN call[c].paths \ txn[c].asked
    ELSE IF call[c].step = "unlink" THEN call[c].paths ELSE {}

PgNext ==
    /\ PgStep
    /\ contested' = (contested \ UNION {Claims(c)' \ Claims(c) : c \in Clients})
                       \cup (Claimed' \cap UNION {Settled(c)' : c \in Clients})

PgSpec == PgInit /\ [][PgNext]_pgvars

-----------------------------------------------------------------------------
(* Properties *)

\* A stored sample has a row, or a request has it in hand, while nothing crashes or
\* fails: no overlap of uploads and purges, refused, waiting or granted, leaves bytes
\* that no purge will ever remove.
SamplesNotForgotten ==
    crashes + faults = 0 =>
        \A h \in Hashes :
            disk[Sample(h)] # "none" =>
                \/ h \in binary
                \/ Sample(h) \in Claimed \cup UNION {Settled(c) : c \in Clients}
=============================================================================
