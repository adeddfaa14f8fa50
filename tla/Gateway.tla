------------------------------- MODULE Gateway -------------------------------
(***************************************************************************)
(* What every API request passes (api/app.py): the correlation middleware  *)
(* gives it an id, the audit middleware inside that one records mutations  *)
(* after they have been handled, and two dependencies, authorize_request   *)
(* and enforce_rate_limit, run before the handler.                         *)
(*                                                                         *)
(* The middlewares and authorize_request run on the event loop and await   *)
(* only the next layer.  enforce_rate_limit runs on a pool thread, and     *)
(* other requests may be served between its clock reading and its lock.    *)
(* What a handler does is not modelled here, so its end and the recording  *)
(* that follows are one step.                                              *)
(*                                                                         *)
(* Definitions headed "Mutant", here and in the two modules it extends,    *)
(* are plausible errors of the definition that follows them; no specification  *)
(* uses them.                                                              *)
(*                                                                         *)
(* Left out: the health probe, which is exempt from the limit; reads that  *)
(* are rejected, which change nothing; the metrics and the access log.     *)
(***************************************************************************)
EXTENDS RateLimiter, AuditTrail

CONSTANTS
    Requests,    \* each request is its own minted id (uuid4)
    Inbound,     \* ids clients and proxies send
    Viewers,     \* principals that may only read
    MaxTime,     \* bound: the clock
    MaxFailures  \* bound: process crashes and database errors considered

ASSUME GatewayAssumption ==
    /\ Keys = Principals
    /\ IsFiniteSet(Requests)
    /\ Ids = Requests \cup Inbound
    /\ Requests \cap Inbound = {}
    /\ Viewers \subseteq Principals
    /\ MaxTime \in Nat /\ MaxFailures \in Nat

VARIABLES
    request,
    crashes,  \* of the process, which loses its memory
    faults    \* of the database, which lose an event

vars == <<clock, windows, events, export, request, crashes, faults>>

\* now: the clock reading of check(); window: the start of the window it was
\* counted or refused in; until: when Retry-After is over.
Request ==
    [step : {"new", "check", "handle", "answered", "lost"},
     who : Principals \cup {Nobody}, mutates : BOOLEAN, id : Ids,
     status : {"none", "succeeded", "denied", "failed", "limited"},
     now : Nat, window : Nat, until : Nat]

TypeOK ==
    /\ LimiterTypeOK
    /\ TrailTypeOK
    /\ request \in [Requests -> Request]
    /\ crashes \in Nat /\ faults \in Nat
    /\ crashes + faults <= MaxFailures

NewRequest(r) ==
    [step |-> "new", who |-> Nobody, mutates |-> FALSE, id |-> r,
     status |-> "none", now |-> 0, window |-> 0, until |-> 0]

Init ==
    /\ LimiterInit
    /\ TrailInit
    /\ request = [r \in Requests |-> NewRequest(r)]
    /\ crashes = 0
    /\ faults = 0

-----------------------------------------------------------------------------

Tick ==
    /\ clock < MaxTime
    /\ clock' = clock + 1
    /\ UNCHANGED <<windows, events, export, request, crashes, faults>>

\* By the status code: 429 is neither below 400 nor 401 or 403.
Outcome(status) == IF status = "limited" THEN "failed" ELSE status

\* _persist_event, and the response leaves; in place of the event may come any
\* other error of the database, which is logged (on PostgreSQL, also that an inbound
\* id is longer than the column).
Answer(r, answered) ==
    /\ request' = [request EXCEPT ![r] = [answered EXCEPT !.step = "answered"]]
    /\ IF answered.mutates
         THEN \/ /\ Record(answered.id, answered.who, Outcome(answered.status))
                 /\ UNCHANGED faults
              \/ /\ crashes + faults < MaxFailures
                 /\ faults' = faults + 1
                 /\ UNCHANGED events
         ELSE UNCHANGED <<events, faults>>

\* Why a mutation never reaches the limiter: it has no route (and its principal is
\* not even looked at), no valid key, or is a viewer's.
Rejections(who) ==
    {<<Nobody, "failed">>}
      \cup (IF who = Nobody \/ who \in Viewers THEN {<<who, "denied">>} ELSE {})

\* Such a request changes and reads nothing before it is recorded.
Reject(r) ==
    /\ request[r].step = "new"
    /\ \E who \in Principals \cup {Nobody}, id \in Inbound \cup {r} :
         \E rejection \in Rejections(who) :
            Answer(r, [request[r] EXCEPT !.who = rejection[1], !.mutates = TRUE,
                                         !.id = id, !.status = rejection[2]])
    /\ UNCHANGED <<clock, windows, export, crashes>>

\* _incoming_request_id: the client's id or a new one.  What a read's id is makes
\* no difference.
RequestId(r, mutates) == {r} \cup (IF mutates THEN Inbound ELSE {})

\* authorize_request lets it pass, and enforce_rate_limit reads the clock.
Arrive(r) ==
    /\ request[r].step = "new"
    /\ \E who \in Principals, mutates \in BOOLEAN :
         /\ ~(who \in Viewers /\ mutates)
         /\ \E id \in RequestId(r, mutates) : request' = [request EXCEPT ![r] =
                [@ EXCEPT !.step = "check", !.who = who, !.mutates = mutates, !.id = id,
                          !.now = clock]]
    /\ UNCHANGED <<clock, windows, events, export, crashes, faults>>

\* check() under the lock.
Check(r) ==
    LET k == request[r].who
        now == request[r].now
    IN
    /\ request[r].step = "check"
    /\ Hit(k, now)
    /\ request' = [request EXCEPT ![r] =
          [request[r] EXCEPT
              !.step = "handle",
              !.window = Current(k, now).start,
              !.status = IF Refuses(k, now) THEN "limited" ELSE "none",
              !.until = IF Refuses(k, now) THEN clock + RetryAfter(k, now) ELSE 0]]
    /\ UNCHANGED <<clock, events, export, crashes, faults>>

\* Mutant: only successful mutations are recorded.
HandleSuccesses(r) ==
    /\ request[r].step = "handle"
    /\ \E status \in IF request[r].status = "limited" THEN {"limited"}
                                                     ELSE {"succeeded", "failed"} :
          /\ request' = [request EXCEPT ![r].step = "answered", ![r].status = status]
          /\ IF request[r].mutates /\ status = "succeeded"
               THEN Record(request[r].id, request[r].who, status) ELSE UNCHANGED events
    /\ UNCHANGED <<clock, windows, export, crashes, faults>>

\* The handler answers or raises, or was not called; audit_mutations goes on.
Handle(r) ==
    /\ request[r].step = "handle"
    /\ \E status \in IF request[r].status = "limited" THEN {"limited"}
                                                     ELSE {"succeeded", "failed"} :
          Answer(r, [request[r] EXCEPT !.status = status])
    /\ UNCHANGED <<clock, windows, export, crashes>>

\* The counters live in process memory; the table survives.  The readings kept for
\* the properties are those of one process.
Crash ==
    /\ crashes + faults < MaxFailures
    /\ crashes' = crashes + 1
    /\ windows' = NoWindows
    /\ export' = NoExport
    /\ request' = [r \in Requests |->
                     IF request[r].step \in {"check", "handle"}
                       THEN [NewRequest(r) EXCEPT !.step = "lost"]
                       ELSE [request[r] EXCEPT !.now = 0, !.window = 0, !.until = 0]]
    /\ UNCHANGED <<clock, events, faults>>

Exporting ==
    /\ (\E who \in Principals : ExportCount(who)) \/ ExportStream
    /\ UNCHANGED <<clock, windows, request, crashes, faults>>

Next ==
    \/ \E r \in Requests :
          Reject(r) \/ Arrive(r) \/ Check(r) \/ Handle(r)
    \/ Tick \/ Exporting \/ Crash

Spec == Init /\ [][Next]_vars

-----------------------------------------------------------------------------
(* Properties *)

\* Requests the limiter counted: everything that has passed check() unrefused.
Admitted(k) ==
    {r \in Requests :
        /\ request[r].who = k
        /\ request[r].step \in {"handle", "answered"}
        /\ request[r].status \in {"none", "succeeded", "failed"}}

\* In one process, however long requests wait for the lock after reading the
\* clock: the windows of a key are at least a window's length apart, none admits
\* more than the limit, and nobody is counted after the window's end.
WindowBudget ==
    crashes = 0 =>
        \A k \in Keys :
            /\ \A r, s \in Admitted(k) :
                  request[r].window < request[s].window =>
                      request[r].window + Window <= request[s].window
            /\ \A r \in Admitted(k) :
                  /\ request[r].now < request[r].window + Window
                  /\ Cardinality({s \in Admitted(k) : request[s].window = request[r].window})
                        <= Limit

\* A client that comes back after the time Retry-After told it is not refused by
\* the same window again (check and enforce_rate_limit).
RetryHonest ==
    crashes = 0 =>
        \A r, s \in Requests :
            /\ request[r].status = "limited" /\ request[s].status = "limited"
            /\ request[r].who = request[s].who /\ request[r].window = request[s].window
            => request[s].now < request[r].until

\* Every event is that of one request that was handled, no id has two, and every
\* answered mutation finds an event under its id (if the database works): also a denied, a refused and a failed one.
TrailMatchesAnswers ==
    /\ \A i, j \in DOMAIN events : events[i].id = events[j].id => i = j
    /\ \A i \in DOMAIN events : \E r \in Requests :
          /\ request[r].step = "answered" /\ request[r].mutates
          /\ events[i] = [id |-> request[r].id, who |-> request[r].who,
                          outcome |-> Outcome(request[r].status)]
    /\ faults = 0 =>
          \A r \in Requests :
              request[r].step = "answered" /\ request[r].mutates
              => Recorded(request[r].id)

\* docs/AUDIT_LOGGING.md:5: "Reversing Lab records POST, PUT, PATCH, and DELETE
\* request metadata after handling", so there are as many events as there are
\* answered mutations.
EveryMutationRecorded ==
    crashes = 0 /\ faults = 0 =>
        Len(events) = Cardinality({r \in Requests : /\ request[r].step = "answered"
                                                    /\ request[r].mutates})
=============================================================================
