------------------------------- MODULE Overlays -------------------------------
(***************************************************************************)
(* What analysts write on top of the analyses: annotations and bookmarks,  *)
(* projects with their samples, CTF workspaces with their notes            *)
(* (database/repository.py and the routes that call it).                   *)
(*                                                                         *)
(* A request reads in one step, deciding between an insert, an update and  *)
(* a refusal, and commits in a later one.  What it read may have changed.  *)
(* SQLite gives a new row the number after the highest one in the table    *)
(* and checks no foreign key; PostgreSQL never gives a number twice and    *)
(* refuses a row whose parent is gone.                                     *)
(*                                                                         *)
(* A target is a sample and an address (and a kind of annotation).  A      *)
(* folder is a project, whose items are samples, or a CTF workspace, whose *)
(* items are notes.  The text of a row is the analyst who wrote it.  The   *)
(* grants and the sample records are those of ContentStore and stay as     *)
(* they are.                                                               *)
(***************************************************************************)
EXTENDS Naturals, FiniteSets, FiniteSetsExt

CONSTANTS Analysts, Admins, Targets, Granted, Folders, Items, Note, Requests,
          MaxRow   \* bound: rows the table numbers

ASSUME OverlaysAssumption ==
    /\ {"unused", "deleted"} \cap Analysts = {}
    /\ Admins \subseteq Analysts
    /\ Granted \subseteq Analysts \X (Targets \cup Items)
    /\ MaxRow \in Nat

VARIABLES
    engine,    \* "sqlite" or "postgresql"
    rows,      \* row number -> [owner, target, text]
    next,      \* PostgreSQL's sequence of row numbers
    folders,   \* folder -> its owner, or "unused" or "deleted"
    items,     \* <<folder, item>>
    requests   \* request -> what it has read

overlayVars == <<engine, rows, next, folders, items, requests>>

Unstarted == [step |-> "idle", what |-> "none", who |-> CHOOSE a \in Analysts : TRUE,
              on |-> <<>>, row |-> 0, met |-> FALSE]

OverlaysInit ==
    /\ engine \in {"sqlite", "postgresql"}
    /\ rows = <<>>
    /\ next = 1
    /\ folders = [f \in Folders |-> "unused"]
    /\ items = {}
    /\ requests = [r \in Requests |-> Unstarted]

\* _require_binary_access: admins are unrestricted.
Allowed(who, sample) == who \in Admins \/ <<who, sample>> \in Granted

\* The owner's row of a target; 0 when there is none.
RowOf(who, target) ==
    LET found == {n \in DOMAIN rows : rows[n].owner = who /\ rows[n].target = target} IN
    IF found = {} THEN 0 ELSE CHOOSE n \in found : TRUE

\* Mutant: selects the row of the target whoever owns it.
SelectedAnyOwner(who, target) ==
    LET found == {n \in DOMAIN rows : rows[n].target = target} IN
    IF found = {} THEN 0 ELSE CHOOSE n \in found : TRUE

\* The select of upsert.
Selected(who, target) == RowOf(who, target)

\* A folder is visible to its owner and to admins.
Visible(who, f) ==
    /\ folders[f] \notin {"unused", "deleted"}
    /\ folders[f] = who \/ who \in Admins

Waiting == {r \in Requests : requests[r].step = "read"}

\* What a commit of request r (0 for one of a single step) does to the others: those
\* that wait to write one of the same things have met it.
Met(others, touched) ==
    [q \in Requests |->
        IF q \in others /\ requests[q].on \in touched
        THEN [requests[q] EXCEPT !.met = TRUE] ELSE requests[q]]

\* An answered request is over; one that failed is seen to have.
Finish(r, outcome, touched) ==
    requests' = [Met(Waiting \ {r}, touched) EXCEPT
                   ![r] = IF outcome = "answered" THEN Unstarted ELSE [@ EXCEPT !.step = outcome]]

Begin(r, what, who, on, row) ==
    /\ requests[r].step = "idle"
    /\ requests' = [requests EXCEPT ![r] = [step |-> "read", what |-> what, who |-> who,
                                            on |-> on, row |-> row, met |-> FALSE]]
    /\ UNCHANGED <<engine, rows, next, folders, items>>

-----------------------------------------------------------------------------
(* Annotations and bookmarks *)

ReadUpsert(r, who, target) ==
    /\ Allowed(who, target)
    /\ Begin(r, "upsert", who, <<who, target>>, Selected(who, target))

NewRow ==
    IF engine = "postgresql" THEN next
    ELSE 1 + (IF rows = <<>> THEN 0 ELSE Max(DOMAIN rows))

\* The unique constraint of owner and target refuses a second row.
CommitInsert(r) ==
    LET q == requests[r] IN
    /\ r \in Waiting /\ q.what = "upsert" /\ q.row = 0
    /\ IF RowOf(q.on[1], q.on[2]) # 0
       THEN Finish(r, "failed", {}) /\ UNCHANGED <<rows, next>>
       ELSE /\ NewRow <= MaxRow
            /\ rows' = [n \in DOMAIN rows \cup {NewRow} |->
                          IF n = NewRow
                          THEN [owner |-> q.who, target |-> q.on[2], text |-> q.who]
                          ELSE rows[n]]
            /\ next' = IF engine = "postgresql" THEN next + 1 ELSE next
            /\ Finish(r, "answered", {q.on})
    /\ UNCHANGED <<engine, folders, items>>

\* The update names the row by its number alone; no row of that number is an error.
CommitUpdate(r) ==
    LET q == requests[r] IN
    /\ r \in Waiting /\ q.what = "upsert" /\ q.row # 0
    /\ IF q.row \in DOMAIN rows
       THEN rows' = [rows EXCEPT ![q.row].text = q.who] /\ Finish(r, "answered", {q.on})
       ELSE UNCHANGED rows /\ Finish(r, "failed", {})
    /\ UNCHANGED <<engine, next, folders, items>>

Without(gone) == [n \in DOMAIN rows \ gone |-> rows[n]]

DeleteBookmark(who, target) ==
    /\ Allowed(who, target)
    /\ RowOf(who, target) # 0
    /\ rows' = Without({RowOf(who, target)})
    /\ requests' = Met(Waiting, {<<who, target>>})
    /\ UNCHANGED <<engine, next, folders, items>>

-----------------------------------------------------------------------------
(* Projects and CTF workspaces *)

CreateFolder(who, f) ==
    /\ folders[f] = "unused"
    /\ folders' = [folders EXCEPT ![f] = who]
    /\ UNCHANGED <<engine, rows, next, items, requests>>

\* A sample that is in the project already is answered without a write.
ReadAdd(r, who, f, item) ==
    /\ Visible(who, f)
    /\ item = Note \/ (Allowed(who, item) /\ <<f, item>> \notin items)
    /\ Begin(r, "add", who, <<f, item>>, 0)

\* The primary key of a membership refuses a second one; notes are numbered afresh.
CommitAdd(r) ==
    LET q == requests[r]
        refused == \/ q.on[2] # Note /\ q.on \in items
                   \/ engine = "postgresql" /\ folders[q.on[1]] = "deleted"
    IN /\ r \in Waiting /\ q.what = "add"
       /\ items' = IF refused THEN items ELSE items \cup {q.on}
       /\ Finish(r, IF refused THEN "failed" ELSE "answered",
                 IF refused THEN {} ELSE {q.on})
       /\ UNCHANGED <<engine, rows, next, folders>>

ReadPatch(r, who, f) == Visible(who, f) /\ Begin(r, "patch", who, <<f>>, 0)

CommitPatch(r) ==
    LET q == requests[r] IN
    /\ r \in Waiting /\ q.what = "patch"
    /\ Finish(r, IF folders[q.on[1]] = "deleted" THEN "failed" ELSE "answered", {})
    /\ UNCHANGED <<engine, rows, next, folders, items>>

\* DELETE /retention/me: everything of one analyst, and the items of his folders.
PurgeOverlays(who) ==
    LET mine == {f \in Folders : folders[f] = who}
        gone == {n \in DOMAIN rows : rows[n].owner = who}
    IN /\ mine \cup gone # {}
       /\ rows' = Without(gone)
       /\ folders' = [f \in Folders |-> IF f \in mine THEN "deleted" ELSE folders[f]]
       /\ items' = {i \in items : i[1] \notin mine}
       /\ requests' = Met(Waiting, {requests[q].on : q \in
                            {q \in Waiting : requests[q].on[1] \in mine \cup {who}}})
       /\ UNCHANGED <<engine, next>>

Fail(r) ==
    /\ requests[r].step = "failed"
    /\ requests' = [requests EXCEPT ![r] = Unstarted]
    /\ UNCHANGED <<engine, rows, next, folders, items>>

OverlaysNext ==
    \/ \E r \in Requests, who \in Analysts :
          \/ \E target \in Targets : ReadUpsert(r, who, target)
          \/ \E f \in Folders :
                \/ \E item \in Items \cup {Note} : ReadAdd(r, who, f, item)
                \/ ReadPatch(r, who, f)
    \/ \E r \in Requests :
          CommitInsert(r) \/ CommitUpdate(r) \/ CommitAdd(r) \/ CommitPatch(r) \/ Fail(r)
    \/ \E who \in Analysts :
          \/ \E target \in Targets : DeleteBookmark(who, target)
          \/ \E f \in Folders : CreateFolder(who, f)
          \/ PurgeOverlays(who)

OverlaysSpec == OverlaysInit /\ [][OverlaysNext]_overlayVars

-----------------------------------------------------------------------------
(* Properties *)

\* docs/API.md:13: "Resource reads/writes are owner-scoped for non-admin users."  An
\* update decided before its row was deleted must not reach the row that has the
\* number now.
OwnersWrite == \A n \in DOMAIN rows : rows[n].text = rows[n].owner

\* No item is left in a folder that is gone, where no list shows it, no purge removes
\* it, and a sample keeps its bytes for it.
NoOrphans == \A i \in items : folders[i[1]] # "deleted"

\* A request fails only if another one wrote what it was about to write; an analyst has
\* one row per target; and where row numbers are not reused and foreign keys are
\* checked, analysts write their own rows and leave no orphans.
OverlaysKept ==
    /\ \A r \in Requests : requests[r].step = "failed" => requests[r].met
    /\ \A m, n \in DOMAIN rows :
          m # n => <<rows[m].owner, rows[m].target>> # <<rows[n].owner, rows[n].target>>
    /\ engine = "postgresql" => OwnersWrite /\ NoOrphans
=============================================================================
