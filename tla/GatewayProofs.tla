---------------------------- MODULE GatewayProofs ----------------------------
(***************************************************************************)
(* Proofs about Gateway for any number of requests, principals and ids,    *)
(* any limit, window and export cap, and any number of crashes and         *)
(* database errors.                                                        *)
(***************************************************************************)
EXTENDS Gateway, FiniteSetTheorems, TLAPS

-----------------------------------------------------------------------------
(* The inductive invariant *)

\* What a request can hold at each step.
StepInv ==
    \A r \in Requests :
        /\ request[r].step \in {"new", "check", "lost"} => request[r].status = "none"
        /\ request[r].step = "handle" => request[r].status \in {"none", "limited"}
        /\ request[r].step \in {"check", "handle"} => request[r].who \in Keys

\* The requests a window has admitted.
InWindow(k, start) == {r \in Admitted(k) : request[r].window = start}

\* The counter of a key counts its window, which is the last one.
BudgetInv ==
    crashes = 0 =>
        \A k \in Keys :
            /\ Cardinality(InWindow(k, windows[k].start)) <= windows[k].count
            /\ \A r \in Admitted(k) :
                  /\ windows[k].count > 0
                  /\ \/ request[r].window = windows[k].start
                     \/ request[r].window + Window <= windows[k].start

\* A refused request read the clock before its window was over, and is told a time
\* after it.
RetryInv ==
    crashes = 0 =>
        \A r \in Requests :
            /\ request[r].step = "check" => request[r].now <= clock
            /\ request[r].status = "limited" =>
                /\ request[r].now < request[r].window + Window
                /\ request[r].window + Window < request[r].until

\* Events recorded since the count come after the counted ones.
ExportInv ==
    /\ export.counted \subseteq InScope(export.who)
    /\ \A i \in export.counted, k \in InScope(export.who) \ export.counted : i < k
    /\ export.step = "done" => export.lines = export.counted

Typed == TypeOK /\ StepInv

-----------------------------------------------------------------------------
(* Type correctness *)

LEMMA InitTyped == Init => Typed
<1> SUFFICES ASSUME Init PROVE Typed
  OBVIOUS
<1> USE RateLimiterAssumption, AuditTrailAssumption, GatewayAssumption
<1>1. LimiterTypeOK
  BY DEF Init, LimiterInit, LimiterTypeOK, NoWindows
<1>2. TrailTypeOK
  BY DEF Init, TrailInit, TrailTypeOK, NoExport
<1>3. \A r \in Requests : NewRequest(r) \in Request
  BY DEF NewRequest, Request
<1>4. QED
  BY <1>1, <1>2, <1>3 DEF Init, Typed, TypeOK, StepInv, NewRequest

\* What the window of a request is, whether it is refused or not.
LEMMA CurrentWindow ==
  ASSUME LimiterTypeOK, NEW k \in Keys, NEW now \in Nat
  PROVE  LET w == Current(k, now)
         IN /\ w \in [start : Nat, count : 0..Limit]
            /\ now < w.start + Window
            /\ Refuses(k, now) => w = windows[k] /\ w.count > 0
            /\ ~Refuses(k, now) => w.count + 1 \in 0..Limit
            /\ w # windows[k] => w.count = 0 /\ w.start = now
            /\ w # windows[k] /\ windows[k].count > 0 => windows[k].start + Window <= w.start
  BY RateLimiterAssumption DEF LimiterTypeOK, Current, Refuses

\* Appending an event, or not, keeps the table, and places in it, well-formed.
LEMMA RecordType ==
  ASSUME TrailTypeOK, NEW id \in Ids, NEW who \in Principals \cup {Nobody},
         NEW outcome \in {"succeeded", "denied", "failed"},
         Record(id, who, outcome), UNCHANGED export
  PROVE  TrailTypeOK'
<1>1. [id |-> id, who |-> who, outcome |-> outcome] \in Event
  BY DEF Event
<1>2. events' \in Seq(Event) /\ Len(events) <= Len(events')
  BY <1>1 DEF Record, TrailTypeOK
<1>3. Len(events) \in Nat /\ Len(events') \in Nat
  BY <1>2 DEF TrailTypeOK
<1>4. 1..Len(events) \subseteq 1..Len(events')
  BY <1>2, <1>3
<1>5. QED BY <1>2, <1>4 DEF TrailTypeOK

LEMMA AnswerType ==
  ASSUME TypeOK, NEW r \in Requests, NEW answered \in Request, Answer(r, answered),
         answered.status # "none", UNCHANGED <<clock, windows, export, crashes>>
  PROVE  TypeOK'
<1> USE GatewayAssumption DEF TypeOK
<1>1. [answered EXCEPT !.step = "answered"] \in Request
  BY DEF Request
<1>2. request' \in [Requests -> Request]
  BY <1>1 DEF Answer
<1>3. LimiterTypeOK'
  BY DEF LimiterTypeOK
<1>4. Outcome(answered.status) \in {"succeeded", "denied", "failed"}
  BY DEF Outcome, Request
<1>5. answered.id \in Ids /\ answered.who \in Principals \cup {Nobody}
  BY DEF Request
<1>6. CASE Record(answered.id, answered.who, Outcome(answered.status)) /\ UNCHANGED faults
  <2>1. TrailTypeOK'
    BY <1>4, <1>5, <1>6, RecordType
  <2>2. QED BY <1>2, <1>3, <1>6, <2>1
<1>7. CASE crashes + faults < MaxFailures /\ faults' = faults + 1 /\ UNCHANGED events
  BY <1>2, <1>3, <1>7 DEF TrailTypeOK
<1>8. CASE UNCHANGED <<events, faults>>
  BY <1>2, <1>3, <1>8 DEF TrailTypeOK
<1>9. QED BY <1>6, <1>7, <1>8 DEF Answer

\* The answers the two actions give.
Rejected(r, id, rejection) ==
    [request[r] EXCEPT !.who = rejection[1], !.mutates = TRUE,
                       !.id = id, !.status = rejection[2]]

LEMMA RejectionType ==
  ASSUME Typed, NEW r \in Requests, NEW who \in Principals \cup {Nobody},
         NEW id \in Inbound \cup {r}, NEW rejection \in Rejections(who)
  PROVE  /\ Rejected(r, id, rejection) \in Request
         /\ Rejected(r, id, rejection).status \in {"denied", "failed"}
         /\ Rejected(r, id, rejection).status = "failed" =>
                Rejected(r, id, rejection).who = Nobody
         /\ Rejected(r, id, rejection).window = request[r].window
         /\ Rejected(r, id, rejection).now = request[r].now
         /\ Rejected(r, id, rejection).until = request[r].until
<1>1. rejection = <<Nobody, "failed">> \/ rejection = <<who, "denied">>
  BY DEF Rejections
<1>2. /\ rejection[1] \in Principals \cup {Nobody}
      /\ rejection[2] \in {"denied", "failed"}
      /\ rejection[2] = "failed" => rejection[1] = Nobody
  BY <1>1
<1>3. request[r] \in Request /\ id \in Ids
  BY GatewayAssumption DEF Typed, TypeOK
<1>4. QED BY <1>2, <1>3 DEF Rejected, Request

LEMMA HandledType ==
  ASSUME Typed, NEW r \in Requests, NEW status \in {"succeeded", "failed", "limited"}
  PROVE  [request[r] EXCEPT !.status = status] \in Request
  BY DEF Typed, TypeOK, Request

LEMMA NextTyped == Typed /\ [Next]_vars => Typed'
<1> SUFFICES ASSUME Typed, [Next]_vars PROVE Typed'
  OBVIOUS
<1> USE GatewayAssumption
<1>1. ASSUME NEW r \in Requests, Reject(r) PROVE Typed'
  <2>1. PICK who \in Principals \cup {Nobody}, id \in Inbound \cup {r} :
          \E rejection \in Rejections(who) :
            Answer(r, [request[r] EXCEPT !.who = rejection[1], !.mutates = TRUE,
                                         !.id = id, !.status = rejection[2]])
    BY <1>1 DEF Reject
  <2>2. PICK rejection \in Rejections(who) :
            Answer(r, [request[r] EXCEPT !.who = rejection[1], !.mutates = TRUE,
                                         !.id = id, !.status = rejection[2]])
    BY <2>1
  <2> DEFINE a == Rejected(r, id, rejection)
  <2>3. a \in Request /\ a.status \in {"denied", "failed"}
    BY RejectionType
  <2>4. UNCHANGED <<clock, windows, export, crashes>>
    BY <1>1 DEF Reject
  <2>5. Answer(r, a)
    BY <2>2 DEF Rejected
  <2> HIDE DEF a
  <2>6. TypeOK'
    BY <2>3, <2>4, <2>5, AnswerType DEF Typed
  <2>7. StepInv'
    BY <2>3, <2>5 DEF Typed, TypeOK, StepInv, Answer, Request
  <2>8. QED BY <2>6, <2>7 DEF Typed
<1>2. ASSUME NEW r \in Requests, Arrive(r) PROVE Typed'
  <2>1. PICK who \in Principals, mutates \in BOOLEAN, id \in Requests \cup Inbound :
          request' = [request EXCEPT ![r] =
                [@ EXCEPT !.step = "check", !.who = who, !.mutates = mutates, !.id = id,
                          !.now = clock]]
    BY <1>2 DEF Arrive, RequestId
  <2>2. id \in Ids
    OBVIOUS
  <2>3. [request[r] EXCEPT !.step = "check", !.who = who, !.mutates = mutates,
                           !.id = id, !.now = clock] \in Request
    BY <2>2 DEF Typed, TypeOK, Request, LimiterTypeOK
  <2>4. request' \in [Requests -> Request]
    BY <2>1, <2>3 DEF Typed, TypeOK
  <2>5. StepInv'
    BY <1>2, <2>1, <2>4 DEF Typed, TypeOK, StepInv, Request, Arrive
  <2>6. QED BY <1>2, <2>4, <2>5 DEF Arrive, Typed, TypeOK, LimiterTypeOK, TrailTypeOK
<1>3. ASSUME NEW r \in Requests, Check(r) PROVE Typed'
  <2> DEFINE k == request[r].who
             now == request[r].now
             w == Current(k, now)
             checked == [request[r] EXCEPT !.step = "handle",
                           !.window = Current(k, now).start,
                           !.status = IF Refuses(k, now) THEN "limited" ELSE "none",
                           !.until = IF Refuses(k, now) THEN clock + RetryAfter(k, now) ELSE 0]
  <2>1. k \in Keys /\ now \in Nat /\ request[r] \in Request /\ request[r].status = "none"
    BY <1>3 DEF Check, Typed, TypeOK, StepInv, Request
  <2>2. /\ w \in [start : Nat, count : 0..Limit]
        /\ now < w.start + Window
        /\ ~Refuses(k, now) => w.count + 1 \in 0..Limit
    BY <2>1, CurrentWindow DEF Typed, TypeOK
  <2>3. RetryAfter(k, now) \in Nat /\ clock \in Nat
    BY <2>1, <2>2, RateLimiterAssumption DEF RetryAfter, Typed, TypeOK, LimiterTypeOK
  <2>4. checked \in Request
    <3>1. /\ Current(k, now).start \in Nat
          /\ clock + RetryAfter(k, now) \in Nat
      BY <2>2, <2>3
    <3>2. QED BY <2>1, <3>1 DEF Request
  <2>5. request' = [request EXCEPT ![r] = checked]
    BY <1>3 DEF Check
  <2>6. LimiterTypeOK'
    BY <1>3, <2>2 DEF Check, Hit, Typed, TypeOK, LimiterTypeOK
  <2>7. TypeOK'
    BY <1>3, <2>4, <2>5, <2>6 DEF Check, Typed, TypeOK, TrailTypeOK
  <2>8. StepInv'
    BY <2>1, <2>5 DEF Typed, TypeOK, StepInv, Request
  <2>9. QED BY <2>7, <2>8 DEF Typed
<1>4. ASSUME NEW r \in Requests, Handle(r) PROVE Typed'
  <2>1. PICK status \in {"succeeded", "failed", "limited"} :
          Answer(r, [request[r] EXCEPT !.status = status])
    BY <1>4 DEF Handle
  <2> DEFINE a == [request[r] EXCEPT !.status = status]
  <2>2. a \in Request /\ a.status = status
    BY HandledType DEF Typed, TypeOK, Request
  <2>3. UNCHANGED <<clock, windows, export, crashes>>
    BY <1>4 DEF Handle
  <2> HIDE DEF a
  <2>4. Answer(r, a)
    BY <2>1 DEF a
  <2>5. TypeOK'
    BY <2>2, <2>3, <2>4, AnswerType DEF Typed
  <2>6. StepInv'
    BY <2>2, <2>4 DEF Typed, TypeOK, StepInv, Answer, Request
  <2>7. QED BY <2>5, <2>6 DEF Typed
<1>5. CASE Tick
  BY <1>5 DEF Tick, Typed, TypeOK, StepInv, LimiterTypeOK, TrailTypeOK
<1>6. CASE Exporting
  <2>1. \A who \in Principals \cup {Nobody}, n \in Nat :
          /\ InScope(who) \subseteq 1..Len(events)
          /\ OldestOf(InScope(who), n) \subseteq 1..Len(events)
    BY DEF Typed, TypeOK, TrailTypeOK, InScope, OldestOf
  <2>2. ASSUME NEW who \in Principals, ExportCount(who) PROVE TrailTypeOK'
    BY <2>1, <2>2 DEF ExportCount, Typed, TypeOK, TrailTypeOK
  <2>3. ASSUME ExportStream PROVE TrailTypeOK'
    <3> DEFINE lines == OldestOf(InScope(export.who), Cardinality(export.counted))
    <3>1. lines \subseteq 1..Len(events)
      BY DEF Typed, TypeOK, TrailTypeOK, InScope, OldestOf
    <3> HIDE DEF lines
    <3>2. export' = [export EXCEPT !.step = "done", !.lines = lines] /\ UNCHANGED events
      BY <2>3 DEF ExportStream, lines
    <3>3. QED BY <3>1, <3>2 DEF Typed, TypeOK, TrailTypeOK
  <2>4. TrailTypeOK'
    BY <1>6, <2>2, <2>3 DEF Exporting
  <2>5. QED BY <1>6, <2>4 DEF Exporting, Typed, TypeOK, StepInv, LimiterTypeOK
<1>7. CASE Crash
  <2>1. \A r \in Requests :
          /\ [NewRequest(r) EXCEPT !.step = "lost"] \in Request
          /\ [request[r] EXCEPT !.now = 0, !.window = 0, !.until = 0] \in Request
    BY DEF NewRequest, Request, Typed, TypeOK
  <2>2. request' \in [Requests -> Request]
    BY <1>7, <2>1 DEF Crash
  <2>c. /\ crashes + faults < MaxFailures /\ crashes' = crashes + 1
        /\ windows' = NoWindows /\ UNCHANGED <<clock, events, faults>>
    BY <1>7, Zenon DEF Crash
  <2>3. LimiterTypeOK'
    BY <2>c, RateLimiterAssumption DEF Typed, TypeOK, LimiterTypeOK, NoWindows
  <2>4. TrailTypeOK'
    BY <1>7 DEF Crash, Typed, TypeOK, TrailTypeOK, NoExport
  <2>5. StepInv'
    <3>1. \A r \in Requests :
            /\ request'[r].step = "lost" /\ request'[r].status = "none"
            \/ /\ request[r].step \in {"new", "answered", "lost"}
               /\ request'[r].step = request[r].step
               /\ request'[r].status = request[r].status
      BY <1>7, <2>1 DEF Crash, Typed, TypeOK, Request, NewRequest
    <3>2. QED BY <3>1 DEF Typed, StepInv
  <2>6. crashes' + faults' <= MaxFailures /\ crashes' \in Nat /\ faults' \in Nat
    BY <2>c DEF Typed, TypeOK
  <2>7. QED BY <2>2, <2>3, <2>4, <2>5, <2>6 DEF Typed, TypeOK
<1>8. CASE UNCHANGED vars
  BY <1>8 DEF vars, Typed, TypeOK, StepInv, LimiterTypeOK, TrailTypeOK
<1>9. QED BY <1>1, <1>2, <1>3, <1>4, <1>5, <1>6, <1>7, <1>8 DEF Next

\* Counters, table, export and requests have their types, whatever is interleaved.
THEOREM TypeCorrect == Spec => []TypeOK
<1>1. Typed => TypeOK
  BY DEF Typed
<1>2. QED BY <1>1, InitTyped, NextTyped, PTL DEF Spec

-----------------------------------------------------------------------------
(* The rate limit *)

\* Steps that admit nobody and leave the counters alone.
LEMMA BudgetStable ==
  ASSUME BudgetInv, WindowBudget, crashes' = 0 => crashes = 0 /\ windows' = windows,
         crashes' = 0 =>
           \A k \in Keys :
             /\ Admitted(k)' = Admitted(k)
             /\ \A r \in Admitted(k) : /\ request'[r].window = request[r].window
                                       /\ request'[r].now = request[r].now
  PROVE  BudgetInv' /\ WindowBudget'
<1> SUFFICES ASSUME crashes' = 0 PROVE BudgetInv' /\ WindowBudget'
  BY DEF BudgetInv, WindowBudget
<1>1. ASSUME NEW k \in Keys, NEW start
      PROVE  {r \in Admitted(k)' : request'[r].window = start} = InWindow(k, start)
  BY DEF InWindow
<1>2. BudgetInv'
  BY <1>1 DEF BudgetInv, InWindow
<1>3. ASSUME NEW k \in Keys
      PROVE  /\ \A r, s \in Admitted(k) :
                    request[r].window < request[s].window =>
                        request[r].window + Window <= request[s].window
             /\ \A r \in Admitted(k) :
                    /\ request[r].now < request[r].window + Window
                    /\ Cardinality(InWindow(k, request[r].window)) <= Limit
  BY DEF WindowBudget, InWindow
<1>4. WindowBudget'
  BY <1>1, <1>3 DEF WindowBudget
<1>5. QED BY <1>2, <1>4

LEMMA CheckBudget ==
  ASSUME Typed, Typed', BudgetInv, WindowBudget, NEW r \in Requests, Check(r)
  PROVE  BudgetInv' /\ WindowBudget'
<1> DEFINE k == request[r].who
           now == request[r].now
           w == Current(k, now)
<1>1. /\ k \in Keys /\ now \in Nat /\ request[r].step = "check"
      /\ request \in [Requests -> Request] /\ LimiterTypeOK /\ LimiterTypeOK'
  BY DEF Check, Typed, TypeOK, StepInv, Request
<1>2. /\ crashes' = crashes
      /\ \A s \in Requests \ {r} : request'[s] = request[s]
      /\ request'[r].step = "handle" /\ request'[r].who = k /\ request'[r].now = now
      /\ request'[r].window = w.start
      /\ request'[r].status = IF Refuses(k, now) THEN "limited" ELSE "none"
  BY <1>1 DEF Check, Request
<1>3. /\ w \in [start : Nat, count : 0..Limit]
      /\ now < w.start + Window
      /\ Refuses(k, now) => w = windows[k]
      /\ w # windows[k] => w.count = 0
      /\ w # windows[k] /\ windows[k].count > 0 => windows[k].start + Window <= w.start
  BY <1>1, CurrentWindow
<1>4. windows' = [windows EXCEPT ![k] = IF Refuses(k, now) THEN w
                                        ELSE [w EXCEPT !.count = @ + 1]]
  BY DEF Check, Hit
<1> HIDE DEF w
<1>5. \A j \in Keys \ {k} : Admitted(j)' = Admitted(j) /\ r \notin Admitted(j)
  BY <1>1, <1>2 DEF Admitted
<1>6. CASE Refuses(k, now)
  <2>1. windows' = windows
    BY <1>1, <1>3, <1>4, <1>6 DEF LimiterTypeOK
  <2>2. \A j \in Keys : Admitted(j)' = Admitted(j) /\ r \notin Admitted(j)
    BY <1>1, <1>2, <1>6 DEF Admitted
  <2>3. \A j \in Keys : \A s \in Admitted(j) : request'[s] = request[s]
    BY <1>2, <2>2 DEF Admitted
  <2>4. QED BY <1>2, <2>1, <2>2, <2>3, BudgetStable
<1>7. CASE ~Refuses(k, now)
  <2> SUFFICES ASSUME crashes = 0 PROVE BudgetInv' /\ WindowBudget'
    BY <1>2 DEF BudgetInv, WindowBudget
  <2>1. Admitted(k)' = Admitted(k) \cup {r} /\ r \notin Admitted(k)
    BY <1>1, <1>2, <1>7 DEF Admitted
  <2>2. \A j \in Keys : \A s \in Admitted(j) :
            /\ request'[s] = request[s] /\ s \in Requests
            /\ request[s].window \in Nat /\ request[s].now \in Nat
    BY <1>1, <1>2, <1>5, <2>1 DEF Admitted, Request
  <2>3. /\ windows'[k].start = w.start /\ windows'[k].count = w.count + 1
        /\ \A j \in Keys \ {k} : windows'[j] = windows[j]
        /\ \A j \in Keys : /\ windows[j].start \in Nat /\ windows[j].count \in Nat
                           /\ windows'[j].count <= Limit
    BY <1>1, <1>3, <1>4, <1>7, RateLimiterAssumption DEF LimiterTypeOK
  \* Another key's window.
  <2>4. ASSUME NEW j \in Keys \ {k}, NEW start
        PROVE  {s \in Admitted(j)' : request'[s].window = start} = InWindow(j, start)
    BY <1>5, <2>2 DEF InWindow
  \* An earlier window of this key, and the one the request is counted in.
  <2>5. ASSUME NEW start, start # w.start
        PROVE  {s \in Admitted(k)' : request'[s].window = start} = InWindow(k, start)
    BY <1>2, <2>1, <2>2, <2>5, <1>1 DEF InWindow
  <2>6. {s \in Admitted(k)' : request'[s].window = w.start} = InWindow(k, w.start) \cup {r}
    BY <1>2, <2>1, <2>2, <1>1 DEF InWindow
  <2>7. \A s \in Admitted(k) :
          /\ windows[k].count > 0
          /\ request[s].window = windows[k].start \/ request[s].window + Window <= windows[k].start
    BY <1>1 DEF BudgetInv
  <2>8. IsFiniteSet(InWindow(k, w.start)) /\ Cardinality(InWindow(k, w.start)) \in Nat
    <3>1. InWindow(k, w.start) \subseteq Requests
      BY DEF InWindow, Admitted
    <3>2. QED BY <3>1, FS_Subset, FS_CardinalityType, GatewayAssumption
  <2>9. Cardinality(InWindow(k, w.start)) <= w.count
    <3>1. CASE w = windows[k]
      BY <1>1, <3>1 DEF BudgetInv
    <3>2. CASE w # windows[k]
      <4>1. \A s \in Admitted(k) : request[s].window < w.start
        BY <1>1, <1>3, <2>2, <2>3, <2>7, <3>2, RateLimiterAssumption
      <4>2. InWindow(k, w.start) = {}
        BY <1>3, <2>2, <4>1, <1>1 DEF InWindow
      <4>3. QED BY <1>3, <3>2, <4>2, FS_EmptySet
    <3>3. QED BY <3>1, <3>2
  <2>10. Cardinality({s \in Admitted(k)' : request'[s].window = w.start}) <= w.count + 1
    <3>1. \/ Cardinality(InWindow(k, w.start) \cup {r}) = Cardinality(InWindow(k, w.start)) + 1
          \/ Cardinality(InWindow(k, w.start) \cup {r}) = Cardinality(InWindow(k, w.start))
      BY <2>8, FS_AddElement
    <3>2. w.count \in Nat
      BY <1>3, RateLimiterAssumption
    <3>3. Cardinality(InWindow(k, w.start) \cup {r}) <= w.count + 1
      BY <2>8, <2>9, <3>1, <3>2
    <3>4. QED BY <2>6, <3>3
  <2>11. \A s \in Admitted(k)' :
            \/ request'[s].window = w.start
            \/ request'[s].window + Window <= w.start
    BY <1>1, <1>2, <1>3, <2>1, <2>2, <2>3, <2>7, RateLimiterAssumption
  <2>12. BudgetInv'
    <3> DEFINE Kept(j) ==
          /\ Cardinality({s \in Admitted(j)' : request'[s].window = windows'[j].start})
                <= windows'[j].count
          /\ \A s \in Admitted(j)' :
                /\ windows'[j].count > 0
                /\ \/ request'[s].window = windows'[j].start
                   \/ request'[s].window + Window <= windows'[j].start
    <3>1. Kept(k)
      BY <1>3, <2>3, <2>10, <2>11, RateLimiterAssumption
    <3>2. ASSUME NEW j \in Keys \ {k} PROVE Kept(j)
      <4>1. /\ Cardinality(InWindow(j, windows[j].start)) <= windows[j].count
            /\ \A s \in Admitted(j) :
                /\ windows[j].count > 0
                /\ \/ request[s].window = windows[j].start
                   \/ request[s].window + Window <= windows[j].start
        BY DEF BudgetInv
      <4>2. windows'[j] = windows[j] /\ Admitted(j)' = Admitted(j)
        BY <1>5, <2>3
      <4>3. {s \in Admitted(j)' : request'[s].window = windows'[j].start}
              = InWindow(j, windows[j].start)
        BY <2>4, <4>2
      <4>4. \A s \in Admitted(j) : request'[s] = request[s]
        BY <2>2
      <4>5. QED BY <4>1, <4>2, <4>3, <4>4
    <3> HIDE DEF Kept
    <3>3. \A j \in Keys : Kept(j)
      BY <3>1, <3>2
    <3>4. QED BY <3>3 DEF BudgetInv, InWindow, Kept
  <2>13. WindowBudget'
    <3> DEFINE Kept(j) ==
          /\ \A s, t \in Admitted(j)' :
                request'[s].window < request'[t].window =>
                    request'[s].window + Window <= request'[t].window
          /\ \A s \in Admitted(j)' :
                /\ request'[s].now < request'[s].window + Window
                /\ Cardinality({t \in Admitted(j)' :
                                  request'[t].window = request'[s].window}) <= Limit
    <3>1. ASSUME NEW j \in Keys
          PROVE  /\ \A s, t \in Admitted(j) :
                        request[s].window < request[t].window =>
                            request[s].window + Window <= request[t].window
                 /\ \A s \in Admitted(j) :
                        /\ request[s].now < request[s].window + Window
                        /\ Cardinality(InWindow(j, request[s].window)) <= Limit
      BY DEF WindowBudget, InWindow
    <3>2. ASSUME NEW j \in Keys \ {k} PROVE Kept(j)
      <4>1. Admitted(j)' = Admitted(j) /\ \A s \in Admitted(j) : request'[s] = request[s]
        BY <1>5, <2>2
      <4>2. \A s \in Admitted(j) :
              {t \in Admitted(j)' : request'[t].window = request'[s].window}
                = InWindow(j, request[s].window)
        BY <2>4, <4>1
      <4>3. j \in Keys
        OBVIOUS
      <4>4. \A s, t \in Admitted(j)' :
               request'[s].window < request'[t].window =>
                   request'[s].window + Window <= request'[t].window
        BY <3>1, <4>1, <4>3
      <4>5. ASSUME NEW s \in Admitted(j)'
            PROVE  /\ request'[s].now < request'[s].window + Window
                   /\ Cardinality({t \in Admitted(j)' :
                                     request'[t].window = request'[s].window}) <= Limit
        <5>1. s \in Admitted(j) /\ request'[s] = request[s]
          BY <4>1
        <5>2. {t \in Admitted(j)' : request'[t].window = request'[s].window}
                = InWindow(j, request[s].window)
          BY <4>2, <5>1
        <5>3. /\ request[s].now < request[s].window + Window
              /\ Cardinality(InWindow(j, request[s].window)) <= Limit
          BY <3>1, <4>3, <5>1
        <5>4. QED BY <5>1, <5>2, <5>3
      <4>6. QED BY <4>4, <4>5
    <3>3. Kept(k)
      <4>1. \A s, t \in Admitted(k)' :
               request'[s].window < request'[t].window =>
                   request'[s].window + Window <= request'[t].window
        BY <1>1, <1>2, <1>3, <2>1, <2>2, <2>11, <3>1, RateLimiterAssumption
      <4>2. \A s \in Admitted(k)' : request'[s].now < request'[s].window + Window
        BY <1>1, <1>2, <1>3, <2>1, <2>2, <3>1
      <4>3. ASSUME NEW s \in Admitted(k)'
            PROVE  Cardinality({t \in Admitted(k)' :
                                  request'[t].window = request'[s].window}) <= Limit
        <5>1. CASE request'[s].window = w.start
          <6>1. Cardinality({t \in Admitted(k)' : request'[t].window = w.start}) \in Nat
            BY <2>6, <2>8, FS_AddElement, FS_CardinalityType
          <6>2. w.count + 1 <= Limit
            BY <2>3, <1>1
          <6>3. QED BY <2>10, <5>1, <6>1, <6>2, <1>3, RateLimiterAssumption
        <5>2. CASE request'[s].window # w.start
          <6>1. s \in Admitted(k) /\ request'[s] = request[s]
            BY <1>1, <1>2, <2>1, <2>2, <5>2
          <6>2. {t \in Admitted(k)' : request'[t].window = request'[s].window}
                  = InWindow(k, request[s].window)
            BY <2>5, <5>2, <6>1
          <6>3. QED BY <1>1, <3>1, <6>1, <6>2
        <5>3. QED BY <5>1, <5>2
      <4>4. QED BY <4>1, <4>2, <4>3
    <3> HIDE DEF Kept
    <3>4. \A j \in Keys : Kept(j)
      BY <3>2, <3>3
    <3>5. QED BY <3>4 DEF WindowBudget, Kept
  <2>14. QED BY <2>12, <2>13
<1>8. QED BY <1>6, <1>7

\* The two ways a request is answered.
Answering(r, a) ==
    /\ Answer(r, a)
    /\ UNCHANGED <<clock, windows, export, crashes>>
    /\ a.window = request[r].window /\ a.now = request[r].now
    /\ a.until = request[r].until
    /\ \/ /\ request[r].step = "new" /\ a.status \in {"denied", "failed"}
          /\ a.status = "failed" => a.who = Nobody
       \/ /\ request[r].step = "handle" /\ a.who = request[r].who
          /\ \/ request[r].status = "none" /\ a.status \in {"succeeded", "failed"}
             \/ request[r].status = "limited" /\ a.status = "limited"

LEMMA AnswerStep ==
  ASSUME Typed, NEW r \in Requests, Reject(r) \/ Handle(r)
  PROVE  \E a \in Request : Answering(r, a)
<1>1. CASE Reject(r)
  <2>1. PICK who \in Principals \cup {Nobody}, id \in Inbound \cup {r} :
          \E rejection \in Rejections(who) :
            Answer(r, [request[r] EXCEPT !.who = rejection[1], !.mutates = TRUE,
                                         !.id = id, !.status = rejection[2]])
    BY <1>1 DEF Reject
  <2>2. PICK rejection \in Rejections(who) :
            Answer(r, [request[r] EXCEPT !.who = rejection[1], !.mutates = TRUE,
                                         !.id = id, !.status = rejection[2]])
    BY <2>1
  <2> DEFINE a == Rejected(r, id, rejection)
  <2>3. /\ a \in Request /\ a.status \in {"denied", "failed"}
        /\ a.status = "failed" => a.who = Nobody
        /\ a.window = request[r].window /\ a.now = request[r].now
        /\ a.until = request[r].until
    BY RejectionType
  <2>5. request[r].step = "new" /\ UNCHANGED <<clock, windows, export, crashes>>
    BY <1>1 DEF Reject
  <2>6. Answer(r, a)
    BY <2>2 DEF Rejected
  <2> HIDE DEF a
  <2>7. QED BY <2>3, <2>5, <2>6 DEF Answering
<1>2. CASE Handle(r)
  <2>1. PICK status \in IF request[r].status = "limited" THEN {"limited"}
                                                        ELSE {"succeeded", "failed"} :
          Answer(r, [request[r] EXCEPT !.status = status])
    BY <1>2 DEF Handle
  <2> DEFINE a == [request[r] EXCEPT !.status = status]
  <2>2. a \in Request /\ a.status = status
    BY HandledType DEF Typed, TypeOK, Request
  <2>3. /\ a.window = request[r].window /\ a.now = request[r].now
        /\ a.until = request[r].until /\ a.who = request[r].who
    BY DEF Typed, TypeOK, Request
  <2>4. request[r].step = "handle" /\ UNCHANGED <<clock, windows, export, crashes>>
    BY <1>2 DEF Handle
  <2>5. request[r].status \in {"none", "limited"}
    BY <2>4 DEF Typed, StepInv
  <2>6. Answer(r, a)
    BY <2>1
  <2> HIDE DEF a
  <2>7. QED BY <2>1, <2>2, <2>3, <2>4, <2>5, <2>6 DEF Answering
<1>3. QED BY <1>1, <1>2

\* Answering a request, rejecting one included, admits none.
LEMMA AnswerBudget ==
  ASSUME Typed, BudgetInv, WindowBudget, NEW r \in Requests, Reject(r) \/ Handle(r)
  PROVE  BudgetInv' /\ WindowBudget'
<1>1. PICK a \in Request : Answering(r, a)
  BY AnswerStep
<1>2. /\ \A s \in Requests \ {r} : request'[s] = request[s]
      /\ request'[r].step = "answered" /\ request'[r].who = a.who
      /\ request'[r].status = a.status /\ request'[r].window = a.window
      /\ request'[r].now = a.now
  BY <1>1 DEF Answering, Answer, Typed, TypeOK, Request
<1>3. Nobody \notin Keys
  BY AuditTrailAssumption, GatewayAssumption
<1>4. \A k \in Keys : Admitted(k)' = Admitted(k)
  BY <1>1, <1>2, <1>3 DEF Answering, Admitted
<1>5. \A s \in Requests : /\ request'[s].window = request[s].window
                          /\ request'[s].now = request[s].now
  BY <1>1, <1>2 DEF Answering
<1>6. QED BY <1>1, <1>4, <1>5, BudgetStable DEF Answering, Admitted

LEMMA NextBudget ==
  ASSUME Typed, Typed', BudgetInv, WindowBudget, [Next]_vars
  PROVE  BudgetInv' /\ WindowBudget'
<1>1. ASSUME NEW r \in Requests, Reject(r) \/ Handle(r) PROVE BudgetInv' /\ WindowBudget'
  BY <1>1, AnswerBudget
<1>2. ASSUME NEW r \in Requests, Arrive(r) PROVE BudgetInv' /\ WindowBudget'
  <2>1. /\ request[r].step = "new" /\ request'[r].step = "check"
        /\ \A s \in Requests \ {r} : request'[s] = request[s]
        /\ UNCHANGED <<windows, crashes>>
    BY <1>2 DEF Arrive, Typed, TypeOK, Request
  <2>2. \A k \in Keys : Admitted(k)' = Admitted(k) /\ r \notin Admitted(k)
    BY <2>1 DEF Admitted
  <2>3. QED BY <2>1, <2>2, BudgetStable DEF Admitted
<1>3. ASSUME NEW r \in Requests, Check(r) PROVE BudgetInv' /\ WindowBudget'
  BY <1>3, CheckBudget
<1>4. CASE Crash
  <2>1. crashes' # 0
    <3>1. crashes' = crashes + 1
      BY <1>4, Zenon DEF Crash
    <3>2. QED BY <3>1 DEF Typed, TypeOK
  <2>2. QED BY <2>1 DEF BudgetInv, WindowBudget
<1>5. CASE Tick \/ Exporting \/ UNCHANGED vars
  <2>1. UNCHANGED <<windows, request, crashes>>
    BY <1>5 DEF Tick, Exporting, vars
  <2>2. \A k \in Keys : Admitted(k)' = Admitted(k)
    BY <2>1 DEF Admitted
  <2>3. QED BY <2>1, <2>2, BudgetStable
<1>6. QED BY <1>1, <1>2, <1>3, <1>4, <1>5 DEF Next

LEMMA InitBudget == Init => BudgetInv /\ WindowBudget
<1> SUFFICES ASSUME Init PROVE BudgetInv /\ WindowBudget
  OBVIOUS
<1>1. \A k \in Keys : Admitted(k) = {}
  BY DEF Init, NewRequest, Admitted
<1>2. \A k \in Keys : \A start : InWindow(k, start) = {}
  BY <1>1 DEF InWindow
<1>3. \A k \in Keys : windows[k].count = 0
  BY DEF Init, LimiterInit, NoWindows
<1>4. QED BY <1>1, <1>2, <1>3, FS_EmptySet DEF BudgetInv, WindowBudget

\* No window of the process admits more than the limit, windows do not overlap and
\* nobody is counted after a window's end, whatever waits for the lock how long.
THEOREM WindowBudgetCorrect == Spec => []WindowBudget
<1>1. Init => Typed /\ BudgetInv /\ WindowBudget
  BY InitTyped, InitBudget
<1>2. (Typed /\ BudgetInv /\ WindowBudget) /\ [Next]_vars
        => (Typed /\ BudgetInv /\ WindowBudget)'
  BY NextTyped, NextBudget
<1>3. QED BY <1>1, <1>2, PTL DEF Spec

-----------------------------------------------------------------------------
(* Retry-After *)

LEMMA CheckRetry ==
  ASSUME Typed, RetryInv, NEW r \in Requests, Check(r)
  PROVE  RetryInv'
<1> DEFINE k == request[r].who
           now == request[r].now
           w == Current(k, now)
<1>1. /\ k \in Keys /\ now \in Nat /\ request[r].step = "check"
      /\ request \in [Requests -> Request] /\ LimiterTypeOK
  BY DEF Check, Typed, TypeOK, StepInv, Request
<1>2. /\ crashes' = crashes /\ clock' = clock
      /\ \A s \in Requests \ {r} : request'[s] = request[s]
      /\ request'[r].step = "handle" /\ request'[r].now = now
      /\ request'[r].window = w.start
      /\ request'[r].until = IF Refuses(k, now) THEN clock + RetryAfter(k, now) ELSE 0
      /\ request'[r].status = IF Refuses(k, now) THEN "limited" ELSE "none"
  BY <1>1 DEF Check, Request
<1>3. w.start \in Nat /\ now < w.start + Window
  BY <1>1, CurrentWindow
<1>4. RetryAfter(k, now) = (w.start + Window - now) + 1
  BY DEF RetryAfter
<1> HIDE DEF w
<1>5. ASSUME crashes = 0, Refuses(k, now) PROVE w.start + Window < clock + RetryAfter(k, now)
  <2>1. now <= clock
    BY <1>1, <1>5 DEF RetryInv
  <2>2. clock \in Nat
    BY <1>1 DEF LimiterTypeOK
  <2>3. QED BY <1>1, <1>3, <1>4, <2>1, <2>2, RateLimiterAssumption
<1>6. QED BY <1>2, <1>3, <1>5 DEF RetryInv

LEMMA NextRetry == Typed /\ RetryInv /\ [Next]_vars => RetryInv'
<1> SUFFICES ASSUME Typed, RetryInv, [Next]_vars PROVE RetryInv'
  OBVIOUS
<1>1. ASSUME NEW r \in Requests, Reject(r) \/ Handle(r) PROVE RetryInv'
  <2>1. PICK a \in Request : Answering(r, a)
    BY <1>1, AnswerStep
  <2>2. /\ \A s \in Requests \ {r} : request'[s] = request[s]
        /\ request'[r].step = "answered" /\ request'[r].status = a.status
        /\ request'[r].window = a.window /\ request'[r].now = a.now
        /\ request'[r].until = a.until
    BY <2>1 DEF Answering, Answer, Typed, TypeOK, Request
  <2>3. QED BY <2>1, <2>2 DEF Answering, RetryInv
<1>2. ASSUME NEW r \in Requests, Arrive(r) PROVE RetryInv'
  <2>1. /\ request'[r].step = "check" /\ request'[r].now = clock
        /\ request'[r].status = request[r].status /\ request[r].step = "new"
        /\ \A s \in Requests \ {r} : request'[s] = request[s]
        /\ UNCHANGED <<clock, crashes>>
    BY <1>2 DEF Arrive, Typed, TypeOK, Request
  <2>2. request[r].status = "none" /\ clock \in Nat
    BY <2>1 DEF Typed, TypeOK, StepInv, LimiterTypeOK
  <2>3. QED BY <2>1, <2>2 DEF RetryInv
<1>3. ASSUME NEW r \in Requests, Check(r) PROVE RetryInv'
  BY <1>3, CheckRetry
<1>4. CASE Crash
  <2>1. crashes' = crashes + 1
    BY <1>4, Zenon DEF Crash
  <2>2. QED BY <2>1 DEF RetryInv, Typed, TypeOK
<1>5. CASE Tick
  BY <1>5 DEF Tick, RetryInv, Typed, TypeOK, LimiterTypeOK, Request
<1>6. CASE Exporting \/ UNCHANGED vars
  <2>1. UNCHANGED <<clock, request, crashes>>
    BY <1>6 DEF Exporting, vars
  <2>2. QED BY <2>1 DEF RetryInv
<1>7. QED BY <1>1, <1>2, <1>3, <1>4, <1>5, <1>6 DEF Next

\* A client that waits as long as Retry-After said is not refused by that window again.
THEOREM RetryHonestCorrect == Spec => []RetryHonest
<1>1. Init => Typed /\ RetryInv
  BY InitTyped DEF Init, RetryInv, NewRequest
<1>2. (Typed /\ RetryInv) /\ [Next]_vars => (Typed /\ RetryInv)'
  BY NextTyped, NextRetry
<1>3. Typed /\ RetryInv => RetryHonest
  BY RateLimiterAssumption DEF Typed, TypeOK, Request, RetryInv, RetryHonest
<1>4. QED BY <1>1, <1>2, <1>3, PTL DEF Spec

-----------------------------------------------------------------------------
(* The export *)

\* The oldest of the events in scope now, as many as were counted, are the counted ones.
LEMMA OldestAreCounted ==
  ASSUME NEW places, IsFiniteSet(places), places \subseteq Nat,
         NEW counted, counted \subseteq places,
         \A i \in counted, k \in places \ counted : i < k
  PROVE  OldestOf(places, Cardinality(counted)) = counted
<1>1. IsFiniteSet(counted) /\ Cardinality(counted) \in Nat
  BY FS_Subset, FS_CardinalityType
<1>2. ASSUME NEW i \in counted
      PROVE  Cardinality({k \in places : k <= i}) <= Cardinality(counted)
  <2>1. ASSUME NEW k \in places, k <= i, k \notin counted PROVE FALSE
    <3>1. i < k /\ i \in Nat /\ k \in Nat
      BY <2>1
    <3>2. QED BY <2>1, <3>1
  <2>2. {k \in places : k <= i} \subseteq counted
    BY <2>1
  <2>3. QED BY <1>1, <2>2, FS_Subset
<1>3. ASSUME NEW i \in places \ counted
      PROVE  ~(Cardinality({k \in places : k <= i}) <= Cardinality(counted))
  <2> DEFINE before == {k \in places : k <= i}
  <2>1. counted \cup {i} \subseteq before
    OBVIOUS
  <2>2. before \subseteq places
    OBVIOUS
  <2>3. IsFiniteSet(before) /\ Cardinality(before) \in Nat
    BY <2>2, FS_Subset, FS_CardinalityType
  <2> HIDE DEF before
  <2>4. Cardinality(counted \cup {i}) = Cardinality(counted) + 1
    BY <1>1, FS_AddElement
  <2>5. Cardinality(counted \cup {i}) <= Cardinality(before)
    BY <2>1, <2>3, FS_Subset
  <2>6. ~(Cardinality(before) <= Cardinality(counted))
    BY <1>1, <2>3, <2>4, <2>5
  <2>7. QED BY <2>6 DEF before
<1>4. QED BY <1>2, <1>3 DEF OldestOf

\* A new event is the last one.
LEMMA RecordExport ==
  ASSUME TrailTypeOK, ExportInv, NEW id, NEW who, NEW outcome, Record(id, who, outcome),
         UNCHANGED export, events' \in Seq(Event)
  PROVE  ExportInv'
<1>1. CASE events' = events
  BY <1>1 DEF ExportInv, InScope
<1>2. CASE events' # events
  <2>1. /\ events \in Seq(Event)
        /\ DOMAIN events = 1..Len(events) /\ Len(events) \in Nat
        /\ DOMAIN events' = 1..(Len(events) + 1)
        /\ \A i \in DOMAIN events : events'[i] = events[i]
    BY <1>2 DEF Record, TrailTypeOK
  <2>2. /\ InScope(export.who) \subseteq InScope(export.who)'
        /\ InScope(export.who)' \subseteq InScope(export.who) \cup {Len(events) + 1}
    BY <2>1 DEF InScope
  <2>3. \A i \in export.counted : i < Len(events) + 1
    BY <2>1 DEF TrailTypeOK
  <2>4. QED BY <2>2, <2>3 DEF ExportInv
<1>3. QED BY <1>1, <1>2

LEMMA NextExport == Typed /\ Typed' /\ ExportInv /\ [Next]_vars => ExportInv'
<1> SUFFICES ASSUME Typed, Typed', ExportInv, [Next]_vars PROVE ExportInv'
  OBVIOUS
<1>1. ASSUME NEW r \in Requests, Reject(r) \/ Handle(r) PROVE ExportInv'
  <2>1. PICK a \in Request : Answer(r, a) /\ UNCHANGED export
    BY <1>1, AnswerStep DEF Answering
  <2>2. CASE UNCHANGED events
    BY <2>1, <2>2 DEF ExportInv, InScope
  <2>3. CASE Record(a.id, a.who, Outcome(a.status))
    BY <2>1, <2>3, RecordExport DEF Typed, TypeOK, TrailTypeOK
  <2>4. QED BY <2>1, <2>2, <2>3 DEF Answer
<1>2. ASSUME ExportStream PROVE ExportInv'
  <2>1. InScope(export.who) \subseteq Nat /\ IsFiniteSet(InScope(export.who))
    <3>1. InScope(export.who) \subseteq 1..Len(events) /\ Len(events) \in Nat
      BY DEF InScope, Typed, TypeOK, TrailTypeOK
    <3>2. IsFiniteSet(1..Len(events))
      BY <3>1, FS_Interval
    <3>3. QED BY <3>1, <3>2, FS_Subset
  <2>2. OldestOf(InScope(export.who), Cardinality(export.counted)) = export.counted
    BY <2>1, OldestAreCounted DEF ExportInv
  <2>3. /\ export'.who = export.who /\ export'.counted = export.counted
        /\ export'.lines = export.counted /\ events' = events
    BY <1>2, <2>2 DEF ExportStream, Typed, TypeOK, TrailTypeOK
  <2>4. QED BY <2>3 DEF ExportInv, InScope
<1>3. ASSUME NEW who \in Principals, ExportCount(who) PROVE ExportInv'
  BY <1>3 DEF ExportCount, ExportInv, InScope
<1>4. CASE Crash
  <2>1. export' = NoExport
    BY <1>4, Zenon DEF Crash
  <2>2. QED BY <2>1 DEF NoExport, ExportInv, InScope
<1>5. CASE Tick \/ (\E r \in Requests : Arrive(r) \/ Check(r)) \/ UNCHANGED vars
  <2>1. UNCHANGED <<events, export>>
    BY <1>5 DEF Tick, Arrive, Check, vars
  <2>2. QED BY <2>1 DEF ExportInv, InScope
<1>6. QED BY <1>1, <1>2, <1>3, <1>4, <1>5 DEF Next, Exporting

\* An export holds what was counted for it, and nothing out of the caller's scope,
\* whatever is recorded between the count and the stream.
THEOREM ExportExactCorrect == Spec => []ExportExact
<1>1. Init => Typed /\ ExportInv
  BY InitTyped DEF Init, TrailInit, NoExport, ExportInv, InScope
<1>2. (Typed /\ ExportInv) /\ [Next]_vars => (Typed /\ ExportInv)'
  BY NextTyped, NextExport
<1>3. Typed /\ ExportInv => ExportExact
  BY DEF ExportInv, ExportExact, InScope
<1>4. QED BY <1>1, <1>2, <1>3, PTL DEF Spec

-----------------------------------------------------------------------------
(* The audit trail *)

LEMMA AnswerTrail ==
  ASSUME Typed, Typed', TrailMatchesAnswers, NEW r \in Requests, Reject(r) \/ Handle(r)
  PROVE  TrailMatchesAnswers'
<1>1. PICK a \in Request :
        /\ Answer(r, a)
        /\ request[r].step \in {"new", "handle"}
  BY AnswerStep DEF Answering
<1>2. /\ \A s \in Requests \ {r} : request'[s] = request[s]
      /\ request'[r].step = "answered" /\ request'[r].mutates = a.mutates
      /\ request'[r].id = a.id /\ request'[r].who = a.who
      /\ request'[r].status = a.status
  BY <1>1 DEF Answer, Typed, TypeOK, Request
<1>3. \A s \in Requests : request[s].step = "answered" =>
                          s # r /\ request'[s] = request[s]
  BY <1>1, <1>2
<1>4. faults \in Nat
  BY DEF Typed, TypeOK
<1>5. CASE a.mutates /\ faults' = faults + 1 /\ UNCHANGED events
  BY <1>3, <1>4, <1>5 DEF TrailMatchesAnswers
<1>6. CASE ~a.mutates /\ UNCHANGED <<events, faults>>
  BY <1>2, <1>3, <1>6 DEF TrailMatchesAnswers, Recorded
<1>7. CASE /\ a.mutates /\ UNCHANGED faults
           /\ Record(a.id, a.who, Outcome(a.status)) /\ ~Accepts(a.id)
  <2>1. UNCHANGED events /\ Recorded(a.id)
    BY <1>7 DEF Record, Accepts
  <2>2. QED BY <1>2, <1>3, <1>7, <2>1 DEF TrailMatchesAnswers, Recorded
<1>8. CASE /\ a.mutates /\ UNCHANGED faults
           /\ Record(a.id, a.who, Outcome(a.status)) /\ Accepts(a.id)
  <2> DEFINE e == [id |-> a.id, who |-> a.who, outcome |-> Outcome(a.status)]
             n == Len(events) + 1
  <2>1. events \in Seq(Event) /\ events' = Append(events, e)
    BY <1>8 DEF Record, Typed, TypeOK, TrailTypeOK
  <2>2. /\ DOMAIN events' = DOMAIN events \cup {n} /\ n \notin DOMAIN events
        /\ \A i \in DOMAIN events : events'[i] = events[i]
        /\ events'[n] = e
    BY <2>1
  <2>3. e.id = a.id
    OBVIOUS
  <2>4. \A i \in DOMAIN events : events[i].id # a.id
    BY <1>8 DEF Accepts, Recorded
  <2>5. e = [id |-> request'[r].id, who |-> request'[r].who,
             outcome |-> Outcome(request'[r].status)]
    BY <1>2
  <2> HIDE DEF e, n
  <2>6. \A i, k \in DOMAIN events' : events'[i].id = events'[k].id => i = k
    BY <2>2, <2>3, <2>4 DEF TrailMatchesAnswers
  <2>7. \A i \in DOMAIN events' : \E s \in Requests :
          /\ request'[s].step = "answered" /\ request'[s].mutates
          /\ events'[i] = [id |-> request'[s].id, who |-> request'[s].who,
                           outcome |-> Outcome(request'[s].status)]
    <3>1. ASSUME NEW i \in DOMAIN events
          PROVE  \E s \in Requests :
                   /\ request'[s].step = "answered" /\ request'[s].mutates
                   /\ events'[i] = [id |-> request'[s].id, who |-> request'[s].who,
                                    outcome |-> Outcome(request'[s].status)]
      BY <1>3, <2>2 DEF TrailMatchesAnswers
    <3>2. QED BY <1>2, <1>8, <2>2, <2>5, <3>1
  <2>8. ASSUME faults = 0, NEW s \in Requests,
               request'[s].step = "answered", request'[s].mutates
        PROVE  \E i \in DOMAIN events' : events'[i].id = request'[s].id
    <3>1. CASE s = r
      BY <1>2, <2>2, <2>3, <3>1
    <3>2. CASE s # r
      <4>1. \E i \in DOMAIN events : events[i].id = request[s].id
        BY <1>2, <2>8, <3>2 DEF TrailMatchesAnswers, Recorded
      <4>2. QED BY <1>2, <2>2, <3>2, <4>1
    <3>3. QED BY <3>1, <3>2
  <2>9. QED BY <1>8, <2>6, <2>7, <2>8 DEF TrailMatchesAnswers, Recorded
<1>9. QED BY <1>1, <1>5, <1>6, <1>7, <1>8 DEF Answer

LEMMA NextTrail ==
  ASSUME Typed, Typed', TrailMatchesAnswers, [Next]_vars
  PROVE  TrailMatchesAnswers'
<1>1. ASSUME NEW r \in Requests, Reject(r) \/ Handle(r) PROVE TrailMatchesAnswers'
  BY <1>1, AnswerTrail
\* No other step answers a request or changes what an answered one has said.
<1>2. ASSUME UNCHANGED <<events, faults>>,
             \A s \in Requests :
               \/ request[s].step # "answered" /\ request'[s].step # "answered"
               \/ /\ request'[s].step = request[s].step
                  /\ request'[s].mutates = request[s].mutates
                  /\ request'[s].id = request[s].id /\ request'[s].who = request[s].who
                  /\ request'[s].status = request[s].status
      PROVE  TrailMatchesAnswers'
  <2>1. ASSUME NEW i \in DOMAIN events
        PROVE  \E s \in Requests :
                 /\ request'[s].step = "answered" /\ request'[s].mutates
                 /\ events[i] = [id |-> request'[s].id, who |-> request'[s].who,
                                 outcome |-> Outcome(request'[s].status)]
    <3>1. PICK s \in Requests :
                 /\ request[s].step = "answered" /\ request[s].mutates
                 /\ events[i] = [id |-> request[s].id, who |-> request[s].who,
                                 outcome |-> Outcome(request[s].status)]
      BY DEF TrailMatchesAnswers
    <3>2. QED BY <1>2, <3>1
  <2>2. faults = 0 => \A s \in Requests :
          request'[s].step = "answered" /\ request'[s].mutates =>
              \E i \in DOMAIN events : events[i].id = request'[s].id
    BY <1>2 DEF TrailMatchesAnswers, Recorded
  <2>3. QED BY <1>2, <2>1, <2>2 DEF TrailMatchesAnswers, Recorded
<1>3. ASSUME NEW r \in Requests, Arrive(r) \/ Check(r) PROVE TrailMatchesAnswers'
  <2>1. /\ request[r].step \in {"new", "check"} /\ request'[r].step \in {"check", "handle"}
        /\ \A s \in Requests \ {r} : request'[s] = request[s]
        /\ UNCHANGED <<events, faults>>
    <3>1. CASE Arrive(r)
      BY <3>1 DEF Arrive, Typed, TypeOK, Request
    <3>2. CASE Check(r)
      BY <3>2 DEF Check, Typed, TypeOK, Request
    <3>3. QED BY <1>3, <3>1, <3>2
  <2>2. QED BY <1>2, <2>1
<1>4. CASE Crash
  <2>1. /\ UNCHANGED <<events, faults>>
        /\ request' = [s \in Requests |->
                         IF request[s].step \in {"check", "handle"}
                           THEN [NewRequest(s) EXCEPT !.step = "lost"]
                           ELSE [request[s] EXCEPT !.now = 0, !.window = 0, !.until = 0]]
    BY <1>4, Zenon DEF Crash
  <2>2. ASSUME NEW s \in Requests
        PROVE  \/ request[s].step # "answered" /\ request'[s].step # "answered"
               \/ /\ request'[s].step = request[s].step
                  /\ request'[s].mutates = request[s].mutates
                  /\ request'[s].id = request[s].id /\ request'[s].who = request[s].who
                  /\ request'[s].status = request[s].status
    <3>1. request[s] \in Request
      BY DEF Typed, TypeOK
    <3>2. CASE request[s].step \in {"check", "handle"}
      BY <2>1, <3>2 DEF NewRequest
    <3>3. CASE request[s].step \notin {"check", "handle"}
      <4>1. request'[s] = [request[s] EXCEPT !.now = 0, !.window = 0, !.until = 0]
        BY <2>1, <3>3
      <4>2. QED BY <3>1, <4>1 DEF Request
    <3>4. QED BY <3>2, <3>3
  <2>3. QED BY <1>2, <2>1, <2>2
<1>5. CASE Tick \/ Exporting \/ UNCHANGED vars
  <2>1. UNCHANGED <<events, faults, request>>
    BY <1>5 DEF Tick, Exporting, ExportCount, ExportStream, vars
  <2>2. QED BY <1>2, <2>1
<1>6. QED BY <1>1, <1>3, <1>4, <1>5 DEF Next

\* Every event is an answered mutation's, ids are unique, and while the database works
\* every answered mutation's id is in the trail.
THEOREM TrailCorrect == Spec => []TrailMatchesAnswers
<1>1. Init => Typed /\ TrailMatchesAnswers
  BY InitTyped DEF Init, TrailInit, NewRequest, TrailMatchesAnswers
<1>2. (Typed /\ TrailMatchesAnswers) /\ [Next]_vars => (Typed /\ TrailMatchesAnswers)'
  BY NextTyped, NextTrail
<1>3. QED BY <1>1, <1>2, PTL DEF Spec

\* The requests that docs/AUDIT_LOGGING.md promises an event for.
Mutations == {r \in Requests : request[r].step = "answered" /\ request[r].mutates}

\* No trace id is shared by two mutations.
OwnIds == \A r, s \in Mutations : request[r].id = request[s].id => r = s

\* The documented promise holds as far as clients and proxies keep to one mutation per
\* id: with the database at work, there is one event for each answered mutation.
\* Shared ids are thus the only way to lose one (run gateway_audit_lost shows it).
THEOREM OwnIdsAreRecorded == Spec => [](OwnIds => EveryMutationRecorded)
<1>1. Typed /\ TrailMatchesAnswers => (OwnIds => EveryMutationRecorded)
  <2> SUFFICES ASSUME Typed, TrailMatchesAnswers, OwnIds, faults = 0
               PROVE  Len(events) = Cardinality(Mutations)
    BY DEF EveryMutationRecorded, Mutations
  <2> DEFINE Place(r) == CHOOSE i \in DOMAIN events : events[i].id = request[r].id
             F == [r \in Mutations |-> Place(r)]
  <2>1. Len(events) \in Nat /\ DOMAIN events = 1..Len(events)
    BY DEF Typed, TypeOK, TrailTypeOK
  <2>2. \A r \in Mutations : Place(r) \in DOMAIN events /\ events[Place(r)].id = request[r].id
    BY DEF TrailMatchesAnswers, Recorded, Mutations
  <2>3. \A i, j \in DOMAIN events : events[i].id = events[j].id => i = j
    BY DEF TrailMatchesAnswers
  <2>4. \A i \in DOMAIN events : \E r \in Mutations : events[i].id = request[r].id
    BY DEF TrailMatchesAnswers, Mutations
  <2> HIDE DEF Place
  <2>5. F \in [Mutations -> DOMAIN events]
    BY <2>2
  <2>6. \A r, s \in Mutations : F[r] = F[s] => r = s
    BY <2>2 DEF OwnIds
  <2>7. \A i \in DOMAIN events : \E r \in Mutations : F[r] = i
    <3> TAKE i \in DOMAIN events
    <3>1. PICK r \in Mutations : events[i].id = request[r].id
      BY <2>4
    <3>2. Place(r) = i
      BY <2>2, <2>3, <3>1
    <3>3. QED BY <3>1, <3>2
  <2> HIDE DEF F
  <2>8. F \in Bijection(Mutations, DOMAIN events)
    BY <2>5, <2>6, <2>7 DEF Bijection, Injection, Surjection, IsInjective
  <2>9. IsFiniteSet(Mutations)
    BY GatewayAssumption, FS_Subset DEF Mutations, GatewayAssumption
  <2>10. Cardinality(DOMAIN events) = Cardinality(Mutations)
    BY <2>8, <2>9, FS_Bijection DEF ExistsBijection
  <2>11. Cardinality(1..Len(events)) = Len(events)
    <3> DEFINE n == Len(events)
    <3>1. n \in Int /\ 1 \in Int
      BY <2>1
    <3> HIDE DEF n
    <3>2. Cardinality(1..n) = IF 1 > n THEN 0 ELSE n - 1 + 1
      BY <3>1, FS_Interval
    <3>3. Cardinality(1..n) = n
      BY <2>1, <3>2 DEF n
    <3>4. QED BY <3>3 DEF n
  <2>12. QED BY <2>1, <2>10, <2>11
<1>2. Init => Typed /\ TrailMatchesAnswers
  BY InitTyped DEF Init, TrailInit, NewRequest, TrailMatchesAnswers
<1>3. (Typed /\ TrailMatchesAnswers) /\ [Next]_vars => (Typed /\ TrailMatchesAnswers)'
  BY NextTyped, NextTrail
<1>4. QED BY <1>1, <1>2, <1>3, PTL DEF Spec
=============================================================================
