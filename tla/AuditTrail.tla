------------------------------ MODULE AuditTrail ------------------------------
(***************************************************************************)
(* The append-only table audit_events (AuditRepository.record) and its     *)
(* export (routes/audit.py): one SELECT counts the events in scope and     *)
(* another, limited to that many and oldest first, is streamed.            *)
(*                                                                         *)
(* Events stand in the order of their commits.  They are recorded on the   *)
(* event loop, one after the other, and the model takes the wall clock to  *)
(* advance in between, so this is the order of created_at, too.            *)
(*                                                                         *)
(* Left out: the filters of an export other than its scope, and the hashes *)
(* that chain its lines.                                                   *)
(***************************************************************************)
EXTENDS Naturals, Sequences, FiniteSets

CONSTANTS
    Principals,
    Admins,     \* export all principals' events
    Nobody,     \* the "anonymous" of events without a principal
    Ids,        \* X-Request-ID values
    MaxExport   \* settings.max_audit_export_records

ASSUME AuditTrailAssumption ==
    /\ Admins \subseteq Principals
    /\ Nobody \notin Principals
    /\ MaxExport \in Nat

VARIABLES
    events,  \* the table
    export   \* one export request

Event == [id : Ids, who : Principals \cup {Nobody},
          outcome : {"succeeded", "denied", "failed"}]

NoExport == [step |-> "idle", who |-> Nobody, counted |-> {}, lines |-> {}]

TrailTypeOK ==
    /\ events \in Seq(Event)
    /\ export \in [step : {"idle", "stream", "done"}, who : Principals \cup {Nobody},
                   counted : SUBSET (1..Len(events)), lines : SUBSET (1..Len(events))]

TrailInit == events = <<>> /\ export = NoExport

Recorded(id) == \E i \in DOMAIN events : events[i].id = id

\* request_id is unique: a second event with the same one is refused, and the
\* middleware logs the error and goes on.
Accepts(id) == ~Recorded(id)

Record(id, who, outcome) ==
    events' = IF Accepts(id)
                THEN Append(events, [id |-> id, who |-> who, outcome |-> outcome])
                ELSE events

\* The events a principal may read, by their places.
InScope(who) == {i \in DOMAIN events : who \in Admins \/ events[i].who = who}

\* Mutant: newest first.
NewestOf(places, n) == {i \in places : Cardinality({k \in places : k >= i}) <= n}

OldestOf(places, n) == {i \in places : Cardinality({k \in places : k <= i}) <= n}

\* export_count; above the cap the request is refused and nothing is streamed.
ExportCount(who) ==
    /\ export.step = "idle"
    /\ Cardinality(InScope(who)) <= MaxExport
    /\ export' = [step |-> "stream", who |-> who, counted |-> InScope(who), lines |-> {}]
    /\ UNCHANGED events

\* iter_export, once the response is being sent.
ExportStream ==
    /\ export.step = "stream"
    /\ export' = [export EXCEPT !.step = "done",
                    !.lines = OldestOf(InScope(export.who), Cardinality(export.counted))]
    /\ UNCHANGED events

\* The file an auditor downloads has the events that were counted, although more
\* have been recorded since: as many as its X-Audit-Export-Records header and its
\* footer say, and none of another principal (export_audit_events, iter_export).
ExportExact ==
    export.step = "done" =>
        /\ export.lines = export.counted
        /\ \A i \in export.lines :
              export.who \in Admins \/ events[i].who = export.who
=============================================================================
