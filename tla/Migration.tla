------------------------------ MODULE Migration ------------------------------
(***************************************************************************)
(* Adoption and upgrade of a database (database/migrate.py) beside the     *)
(* tables the application creates when it starts (init_db).                *)
(*                                                                         *)
(* A schema is the set of what revisions add: the initial tables, then     *)
(* the projects' owner, 64-bit columns, grants with the owners of all      *)
(* other rows, audit events, region artifacts.  "revision" is the number   *)
(* in the version table, 0 without one.                                    *)
(*                                                                         *)
(* Left out: indexes, constraints, and the data, which upgrades carry      *)
(* over.  A revision is applied and recorded in one transaction, as on     *)
(* PostgreSQL.                                                             *)
(***************************************************************************)
EXTENDS Arrangement

Revisions == 1..6
Latest == 6

InitialSchema == {"initial"}
ProjectOwnership == {"project_owner"}
Values64Bit == {"bigint"}
ResourceOwnership == {"grants", "owners"}
AuditEvents == {"audit_events"}
MemoryRegionArtifacts == {"region_artifacts"}

Added(r) == <<InitialSchema, ProjectOwnership, Values64Bit, ResourceOwnership, AuditEvents,
              MemoryRegionArtifacts>>[r]

Tables == {"initial", "grants", "audit_events", "region_artifacts"}

Schema(r) == UNION {Added(k) : k \in 1..r}
Empty == [has |-> {}, revision |-> 0]

\* create_all of the models of revision r: the tables that are missing, as they are in
\* r; columns of tables that exist stay as they are.
CreateAll(db, r) ==
    [db EXCEPT !.has = IF "initial" \in @ THEN @ \cup (Schema(r) \cap Tables) ELSE Schema(r)]

\* A step fails if its table or column is there already.
CanApply(db, r) == Added(r) \cap db.has \subseteq {"bigint"}
Apply(db, r) == [has |-> db.has \cup Added(r), revision |-> r]

\* upgrade head: one revision after the other, up to the first that fails.
Advance(db, r) == IF db.revision = r - 1 /\ CanApply(db, r) THEN Apply(db, r) ELSE db
Upgraded(db) == Folded(db, [r \in Revisions |-> r], Advance)

\* The revision whose tables and columns the database has, if it is one that
\* _legacy_revision knows; it looks at the newest tables first.
TablesOf(r) == Schema(r) \cap Tables

\* Mutant: does not look at the columns.
LegacyByTables(db) ==
    {r \in {6, 5, 4, 3} : db.has \cap Tables = TablesOf(r)}

Legacy(db) ==
    LET tables == db.has \cap Tables
        owned == "grants" \in tables
        columns == owned => "owners" \in db.has
    IN IF tables \notin {TablesOf(r) : r \in 3..6} \/ ~columns THEN {}
       ELSE IF tables # TablesOf(3) THEN {r \in 4..6 : tables = TablesOf(r)}
       ELSE IF "project_owner" \notin db.has THEN {1}
       ELSE IF "bigint" \in db.has THEN {3} ELSE {2}

\* bootstrap_database; crash interrupts it after the stamp.
Bootstrap(db, crash) ==
    IF db.revision # 0 \/ db.has = {} THEN Upgraded(db)
    ELSE IF Legacy(db) = {} THEN db
    ELSE LET stamped == [db EXCEPT !.revision = CHOOSE r \in Legacy(db) : TRUE] IN
         IF crash THEN stamped ELSE Upgraded(stamped)

\* A database made by the models of revision r or by the migrations up to r, then
\* perhaps started once with later models before it is migrated.
Made(r, by) ==
    CASE by = "models" -> CreateAll(Empty, r)
      [] OTHER -> [has |-> Schema(r), revision |-> r]

History(r, by, started) ==
    LET db == Made(r, by) IN
    IF started = 0 THEN db ELSE CreateAll(db, started)

-----------------------------------------------------------------------------
(* Properties *)

Current(db) == db.revision = Latest /\ db.has = Schema(Latest)

\* A revision in the version table is one whose tables and columns are all there.
StampTrue(db) == db.revision # 0 => Schema(db.revision) \subseteq db.has

\* docs/DEVELOPMENT.md:60: a bootstrap leaves the current schema, also when an earlier
\* one was interrupted after its stamp, or it leaves an unversioned database alone;
\* every database made by the models of one revision is recognised.  The one way to
\* be stuck between revisions is to start the application before the bootstrap
\* (docs/DEVELOPMENT.md:67).
Adopted(r, by, started, crash) ==
    LET before == History(r, by, started)
        once == Bootstrap(before, crash)
        after == Bootstrap(once, FALSE)
    IN /\ StampTrue(once) /\ StampTrue(after)
       /\ \/ Current(after)
          \/ after = before /\ after.revision = 0 /\ started > r
          \/ started > r /\ by = "migrations"
       /\ started \in 0..r => Current(after)
       /\ before.has \subseteq after.has
=============================================================================
