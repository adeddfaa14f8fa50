---------------------------- MODULE OverlaysProofs ----------------------------
(***************************************************************************)
(* Proofs about Overlays for any analysts, targets, folders and requests   *)
(* and tables of any size.                                                 *)
(***************************************************************************)
EXTENDS Overlays, WellFoundedInduction, TLAPS

Row == [owner : Analysts, target : Targets, text : Analysts]

\* What a request is on: an analyst's row of a target, an item of a folder, a folder.
Things == (Analysts \X Targets) \cup (Folders \X (Items \cup {Note}))
            \cup {<<f>> : f \in Folders} \cup {<<>>}

Request == [step : {"idle", "read", "failed"}, what : {"none", "upsert", "add", "patch"},
            who : Analysts \cup {Unstarted.who}, on : Things, row : 0..MaxRow, met : BOOLEAN]

OverlaysTypeOK ==
    /\ engine \in {"sqlite", "postgresql"}
    /\ DOMAIN rows \subseteq 1..MaxRow
    /\ rows \in [DOMAIN rows -> Row]
    /\ next \in Nat \ {0}
    /\ folders \in [Folders -> Analysts \cup {"unused", "deleted"}]
    /\ items \subseteq Folders \X (Items \cup {Note})
    /\ requests \in [Requests -> Request]

Upserting(r) == requests[r].step = "read" /\ requests[r].what = "upsert"
Adding(r) == requests[r].step = "read" /\ requests[r].what = "add"
Patching(r) == requests[r].step = "read" /\ requests[r].what = "patch"

\* What a waiting request is on has the form its kind has.
WellFormed(r) ==
    LET q == requests[r] IN
    /\ q.step = "read" => q.what # "none"
    /\ Upserting(r) => q.who \in Analysts /\ \E target \in Targets : q.on = <<q.who, target>>
    /\ Adding(r) => \E f \in Folders, item \in Items \cup {Note} : q.on = <<f, item>>
    /\ Patching(r) => \E f \in Folders : q.on = <<f>>

FolderThere(f) == folders[f] \notin {"unused", "deleted"}

\* Until it meets another request's write, a request finds what it has read.
Unmet(r) ==
    LET q == requests[r] IN
    ~q.met =>
        /\ Upserting(r) /\ q.row = 0 =>
              \A n \in DOMAIN rows : <<rows[n].owner, rows[n].target>> # q.on
        /\ Upserting(r) /\ q.row # 0 =>
              q.row \in DOMAIN rows /\ <<rows[q.row].owner, rows[q.row].target>> = q.on
        /\ Adding(r) => /\ FolderThere(q.on[1])
                        /\ q.on[2] # Note => q.on \notin items
        /\ Patching(r) => FolderThere(q.on[1])

FailuresMet == \A r \in Requests : requests[r].step = "failed" => requests[r].met

OneRowEach ==
    \A m, n \in DOMAIN rows :
        m # n => <<rows[m].owner, rows[m].target>> # <<rows[n].owner, rows[n].target>>

\* Where numbers are not reused, a number read is that of a row of the reader's own
\* or of no row any more.
NumbersStay ==
    engine = "postgresql" =>
        /\ \A n \in DOMAIN rows : n < next
        /\ \A r \in Requests : Upserting(r) /\ requests[r].row # 0 =>
              /\ requests[r].row < next
              /\ requests[r].row \in DOMAIN rows =>
                    rows[requests[r].row].owner = requests[r].who

OverlaysInv ==
    /\ OverlaysTypeOK
    /\ \A r \in Requests : WellFormed(r) /\ Unmet(r)
    /\ FailuresMet
    /\ OneRowEach
    /\ NumbersStay
    /\ engine = "postgresql" => OwnersWrite /\ NoOrphans

-----------------------------------------------------------------------------
(* Requests                                                                *)

LEMMA UnstartedIsRequest == Unstarted \in Request /\ Unstarted.step = "idle"
  BY OverlaysAssumption DEF OverlaysAssumption, Unstarted, Request, Things

\* Request q keeps what it read and meets the writes to what it is on.
Carried(q, touched) ==
    /\ requests'[q].step = requests[q].step
    /\ requests'[q].what = requests[q].what
    /\ requests'[q].who = requests[q].who
    /\ requests'[q].on = requests[q].on
    /\ requests'[q].row = requests[q].row
    /\ requests[q].met => requests'[q].met
    /\ ~requests'[q].met /\ requests[q].step = "read" => requests[q].on \notin touched

LEMMA MetCarries ==
  ASSUME OverlaysTypeOK, NEW others, NEW touched, NEW q \in Requests
  PROVE  LET m == Met(others, touched)[q] IN
         /\ m \in Request
         /\ m.step = requests[q].step
         /\ m.what = requests[q].what
         /\ m.who = requests[q].who
         /\ m.on = requests[q].on
         /\ m.row = requests[q].row
         /\ requests[q].met => m.met
         /\ ~m.met /\ q \in others => requests[q].on \notin touched
<1>1. requests[q] \in Request
  BY DEF OverlaysTypeOK
<1>2. Met(others, touched)[q]
        = IF q \in others /\ requests[q].on \in touched
          THEN [requests[q] EXCEPT !.met = TRUE] ELSE requests[q]
  BY DEF Met
<1>3. CASE q \in others /\ requests[q].on \in touched
  <2>1. Met(others, touched)[q] = [requests[q] EXCEPT !.met = TRUE]
    BY <1>2, <1>3
  <2>2. QED BY <1>1, <2>1 DEF Request
<1>4. CASE ~(q \in others /\ requests[q].on \in touched)
  <2>1. Met(others, touched)[q] = requests[q]
    BY <1>2, <1>4
  <2>2. QED BY <1>1, <1>4, <2>1
<1>5. QED BY <1>3, <1>4

LEMMA MeetingCarries ==
  ASSUME OverlaysTypeOK, NEW touched, requests' = Met(Waiting, touched)
  PROVE  /\ requests' \in [Requests -> Request]
         /\ \A q \in Requests : Carried(q, touched)
<1>1. \A q \in Requests : requests'[q] \in Request /\ Carried(q, touched)
  BY MetCarries DEF Carried, Waiting
<1>2. requests' = [q \in Requests |-> requests'[q]]
  BY DEF Met
<1>3. QED BY <1>1, <1>2

LEMMA FinishCarries ==
  ASSUME OverlaysTypeOK, NEW r \in Requests, NEW outcome \in {"answered", "failed"},
         NEW touched, Finish(r, outcome, touched)
  PROVE  /\ requests' \in [Requests -> Request]
         /\ \A q \in Requests \ {r} : Carried(q, touched)
         /\ outcome = "answered" => requests'[r] = Unstarted
         /\ outcome = "failed" =>
               requests'[r].step = "failed" /\ requests'[r].met = requests[r].met
<1> DEFINE met == Met(Waiting \ {r}, touched)
           last == IF outcome = "answered" THEN Unstarted ELSE [met[r] EXCEPT !.step = outcome]
<1>1. met = [q \in Requests |-> met[q]] /\ met[r] = requests[r]
  BY DEF Met
<1>2. requests' = [met EXCEPT ![r] = last]
  BY DEF Finish
<1>3. \A q \in Requests : met[q] \in Request
  BY MetCarries
<1>4. requests[r] \in Request
  BY DEF OverlaysTypeOK
<1>5. last \in Request
  <2>1. CASE outcome = "answered"
    BY <2>1, UnstartedIsRequest
  <2>2. CASE outcome = "failed"
    <3>1. last = [requests[r] EXCEPT !.step = "failed"]
      BY <2>2, <1>1
    <3> HIDE DEF last
    <3>2. QED BY <3>1, <1>4 DEF Request
  <2>3. QED BY <2>1, <2>2
<1>6. outcome = "failed" => last.step = "failed" /\ last.met = requests[r].met
  BY <1>1, <1>4 DEF Request
<1>7. \A q \in Requests \ {r} : q \in Waiting \ {r} <=> requests[q].step = "read"
  BY DEF Waiting
<1>8. ASSUME NEW q \in Requests \ {r} PROVE Carried(q, touched)
  <2>1. requests'[q] = met[q]
    BY <1>1, <1>2
  <2>2. QED BY <2>1, <1>7, MetCarries DEF Carried
<1>9. met \in [Requests -> Request]
  BY <1>1, <1>3
<1> HIDE DEF met, last
<1>10. requests' \in [Requests -> Request] /\ requests'[r] = last
  BY <1>2, <1>5, <1>9
<1>11. QED BY <1>6, <1>8, <1>10 DEF last

\* A waiting request finds what it has read, and keeps its form, when the world
\* still holds it or the request has met the write that changed it.
LEMMA CarriedWellFormed ==
  ASSUME OverlaysInv, NEW q \in Requests, NEW touched, Carried(q, touched)
  PROVE  WellFormed(q)' /\ (requests'[q].step = "failed" => requests'[q].met)
  BY DEF OverlaysInv, FailuresMet, WellFormed, Carried, Upserting, Adding, Patching

LEMMA CarriedUnmet ==
  ASSUME OverlaysInv, NEW q \in Requests, NEW touched, Carried(q, touched),
         UNCHANGED <<rows, folders, items>>
  PROVE  Unmet(q)'
  BY DEF OverlaysInv, Unmet, Carried, Upserting, Adding, Patching, FolderThere

\* Writes to rows that leave an unmet upsert what it has read.
LEMMA RowsUnmet ==
  ASSUME OverlaysInv, NEW q \in Requests, NEW touched, Carried(q, touched),
         UNCHANGED <<folders, items>>,
         ~requests[q].met /\ Upserting(q) /\ requests[q].on \notin touched =>
            /\ requests[q].row = 0 =>
                  \A n \in DOMAIN rows' : <<rows'[n].owner, rows'[n].target>> # requests[q].on
            /\ requests[q].row # 0 =>
                  /\ requests[q].row \in DOMAIN rows'
                  /\ <<rows'[requests[q].row].owner, rows'[requests[q].row].target>>
                       = requests[q].on
  PROVE  Unmet(q)'
  BY DEF OverlaysInv, Unmet, Carried, Upserting, Adding, Patching, FolderThere

-----------------------------------------------------------------------------
(* Rows and their numbers                                                  *)

LEMMA GreatestExists ==
  ASSUME NEW bound \in Nat, NEW S \in SUBSET (1..bound), S # {}
  PROVE  Max(S) \in S /\ \A n \in S : Max(S) >= n
<1> DEFINE mirrored == {bound - n : n \in S}
<1>1. mirrored \subseteq Nat /\ mirrored # {}
  <2>1. \A n \in S : n \in 1..bound /\ bound - n \in Nat
    OBVIOUS
  <2>2. QED BY <2>1
<1> HIDE DEF mirrored
<1>2. PICK least \in mirrored : \A n \in mirrored : least <= n
  <2> DEFINE less == OpToRel(<, Nat)
  <2>1. \A m, n \in Nat : m < n => <<m, n>> \in less
    BY DEF OpToRel
  <2>2. IsWellFoundedOn(less, Nat)
    BY NatLessThanWellFounded
  <2> HIDE DEF less
  <2>3. PICK least \in mirrored : \A n \in mirrored : <<n, least>> \notin less
    BY <1>1, <2>2, WFMin
  <2>4. ASSUME NEW n \in mirrored PROVE least <= n
    <3>1. n \in Nat /\ least \in Nat
      BY <1>1
    <3>2. ~(n < least)
      BY <2>1, <2>3, <3>1
    <3>3. QED BY <3>1, <3>2
  <2>5. QED BY <2>4
<1>3. PICK top \in S : least = bound - top
  BY <1>2 DEF mirrored
<1>4. ASSUME NEW n \in S PROVE top >= n
  <2>1. bound - top <= bound - n
    BY <1>2, <1>3 DEF mirrored
  <2>2. QED BY <2>1
<1>5. QED BY <1>3, <1>4 DEF Max

\* The number of a new row is nobody's.
LEMMA NewRowIsFree ==
  ASSUME OverlaysInv
  PROVE  NewRow \in Nat \ {0} /\ NewRow \notin DOMAIN rows
<1>1. CASE engine = "postgresql"
  <2>1. NewRow = next /\ next \in Nat \ {0} /\ \A n \in DOMAIN rows : n < next
    BY <1>1 DEF NewRow, OverlaysInv, OverlaysTypeOK, NumbersStay
  <2>2. next \notin DOMAIN rows
    BY <2>1
  <2>3. QED BY <2>1, <2>2
<1>2. CASE engine # "postgresql"
  <2>1. DOMAIN rows \in SUBSET (1..MaxRow) /\ MaxRow \in Nat
    BY OverlaysAssumption DEF OverlaysInv, OverlaysTypeOK, OverlaysAssumption
  <2>2. CASE DOMAIN rows = {}
    <3>1. rows = <<>>
      BY <2>2 DEF OverlaysInv, OverlaysTypeOK
    <3>2. NewRow = 1
      BY <1>2, <3>1 DEF NewRow
    <3>3. QED BY <2>2, <3>2
  <2>3. CASE DOMAIN rows # {}
    <3>1. rows # <<>>
      BY <2>3
    <3>2. NewRow = 1 + Max(DOMAIN rows)
      BY <1>2, <3>1 DEF NewRow
    <3>3. Max(DOMAIN rows) \in DOMAIN rows /\ \A n \in DOMAIN rows : Max(DOMAIN rows) >= n
      BY <2>1, <2>3, GreatestExists
    <3> DEFINE m == Max(DOMAIN rows)
    <3> HIDE DEF m
    <3>4. m \in 1..MaxRow /\ \A n \in DOMAIN rows : m >= n /\ n \in 1..MaxRow
      BY <2>1, <3>3 DEF m
    <3>5. 1 + m \in Nat \ {0} /\ 1 + m \notin DOMAIN rows
      BY <2>1, <3>4
    <3>6. QED BY <3>2, <3>5 DEF m
  <2>4. QED BY <2>2, <2>3
<1>3. QED BY <1>1, <1>2

\* RowOf answers the one row of the owner and target.
LEMMA RowOfFinds ==
  ASSUME OverlaysTypeOK, NEW who, NEW target
  PROVE  LET n == RowOf(who, target) IN
         /\ n = 0 => \A m \in DOMAIN rows : <<rows[m].owner, rows[m].target>> # <<who, target>>
         /\ n # 0 => n \in DOMAIN rows /\ rows[n].owner = who /\ rows[n].target = target
         /\ n \in 0..MaxRow
<1> DEFINE found == {n \in DOMAIN rows : rows[n].owner = who /\ rows[n].target = target}
<1>1. \A n \in DOMAIN rows : n \in 1..MaxRow /\ n # 0
  BY DEF OverlaysTypeOK
<1>2. CASE found = {}
  <2>1. RowOf(who, target) = 0
    BY <1>2 DEF RowOf
  <2>2. QED BY <1>2, <2>1, OverlaysAssumption DEF OverlaysAssumption
<1>3. CASE found # {}
  <2>1. RowOf(who, target) \in found
    BY <1>3 DEF RowOf
  <2>2. QED BY <1>1, <2>1
<1>4. QED BY <1>2, <1>3

-----------------------------------------------------------------------------
(* The reads                                                               *)

LEMMA BeginKeepsOthers ==
  ASSUME OverlaysInv, NEW r \in Requests, NEW new \in Request,
         requests' = [requests EXCEPT ![r] = new],
         UNCHANGED <<engine, rows, next, folders, items>>,
         WellFormed(r)', Unmet(r)', new.step = "failed" => new.met,
         engine = "postgresql" /\ new.step = "read" /\ new.what = "upsert" /\ new.row # 0 =>
            /\ new.row < next
            /\ new.row \in DOMAIN rows => rows[new.row].owner = new.who
  PROVE  OverlaysInv'
<1>1. requests' \in [Requests -> Request] /\ requests'[r] = new
      /\ \A q \in Requests \ {r} : requests'[q] = requests[q]
  BY DEF OverlaysInv, OverlaysTypeOK
<1>2. OverlaysTypeOK'
  BY <1>1 DEF OverlaysInv, OverlaysTypeOK
<1>3. \A q \in Requests \ {r} : WellFormed(q)' /\ Unmet(q)'
  BY <1>1 DEF OverlaysInv, WellFormed, Unmet, Upserting, Adding, Patching, FolderThere
<1>4. FailuresMet'
  BY <1>1 DEF OverlaysInv, FailuresMet
<1>5. OneRowEach'
  BY DEF OverlaysInv, OneRowEach
<1>6. NumbersStay'
  BY <1>1 DEF OverlaysInv, NumbersStay, Upserting
<1>7. engine' = "postgresql" => OwnersWrite' /\ NoOrphans'
  BY DEF OverlaysInv, OwnersWrite, NoOrphans
<1>8. QED BY <1>2, <1>3, <1>4, <1>5, <1>6, <1>7 DEF OverlaysInv

LEMMA ReadUpsertKeeps ==
  ASSUME OverlaysInv, NEW r \in Requests, NEW who \in Analysts, NEW target \in Targets,
         ReadUpsert(r, who, target)
  PROVE  OverlaysInv'
<1> DEFINE n == RowOf(who, target)
           new == [step |-> "read", what |-> "upsert", who |-> who, on |-> <<who, target>>,
                   row |-> n, met |-> FALSE]
<1>1. requests' = [requests EXCEPT ![r] = new]
      /\ UNCHANGED <<engine, rows, next, folders, items>>
  BY DEF ReadUpsert, Begin, Selected
<1>2. /\ n = 0 => \A m \in DOMAIN rows : <<rows[m].owner, rows[m].target>> # <<who, target>>
      /\ n # 0 => n \in DOMAIN rows /\ rows[n].owner = who /\ rows[n].target = target
      /\ n \in 0..MaxRow
  BY RowOfFinds DEF OverlaysInv
<1> HIDE DEF n
<1>3. new \in Request
  BY <1>2 DEF Request, Things
<1>4. requests'[r] = new
  BY <1>1 DEF OverlaysInv, OverlaysTypeOK
<1>5. WellFormed(r)'
  BY <1>4 DEF WellFormed, Upserting, Adding, Patching
<1>6. Unmet(r)'
  BY <1>1, <1>2, <1>4 DEF Unmet, Upserting, Adding, Patching
<1>7. engine = "postgresql" /\ n # 0 => n < next /\ rows[n].owner = who
  BY <1>2 DEF OverlaysInv, NumbersStay
<1>8. QED BY <1>1, <1>3, <1>5, <1>6, <1>7, BeginKeepsOthers

LEMMA ReadAddKeeps ==
  ASSUME OverlaysInv, NEW r \in Requests, NEW who \in Analysts, NEW f \in Folders,
         NEW item \in Items \cup {Note}, ReadAdd(r, who, f, item)
  PROVE  OverlaysInv'
<1> DEFINE new == [step |-> "read", what |-> "add", who |-> who, on |-> <<f, item>>,
                   row |-> 0, met |-> FALSE]
<1>1. /\ requests' = [requests EXCEPT ![r] = new]
      /\ UNCHANGED <<engine, rows, next, folders, items>>
      /\ FolderThere(f)
      /\ item # Note => <<f, item>> \notin items
  BY DEF ReadAdd, Begin, Visible, FolderThere
<1>2. new \in Request
  BY OverlaysAssumption DEF Request, Things, OverlaysAssumption
<1>3. requests'[r] = new
  BY <1>1 DEF OverlaysInv, OverlaysTypeOK
<1>4. WellFormed(r)'
  BY <1>3 DEF WellFormed, Upserting, Adding, Patching
<1>5. Unmet(r)'
  BY <1>1, <1>3 DEF Unmet, Upserting, Adding, Patching, FolderThere
<1>6. QED BY <1>1, <1>2, <1>4, <1>5, BeginKeepsOthers

LEMMA ReadPatchKeeps ==
  ASSUME OverlaysInv, NEW r \in Requests, NEW who \in Analysts, NEW f \in Folders,
         ReadPatch(r, who, f)
  PROVE  OverlaysInv'
<1> DEFINE new == [step |-> "read", what |-> "patch", who |-> who, on |-> <<f>>,
                   row |-> 0, met |-> FALSE]
<1>1. /\ requests' = [requests EXCEPT ![r] = new]
      /\ UNCHANGED <<engine, rows, next, folders, items>>
      /\ FolderThere(f)
  BY DEF ReadPatch, Begin, Visible, FolderThere
<1>2. new \in Request
  BY OverlaysAssumption DEF Request, Things, OverlaysAssumption
<1>3. requests'[r] = new
  BY <1>1 DEF OverlaysInv, OverlaysTypeOK
<1>4. WellFormed(r)'
  BY <1>3 DEF WellFormed, Upserting, Adding, Patching
<1>5. Unmet(r)'
  BY <1>1, <1>3 DEF Unmet, Upserting, Adding, Patching, FolderThere
<1>6. QED BY <1>1, <1>2, <1>4, <1>5, BeginKeepsOthers

LEMMA FailKeeps ==
  ASSUME OverlaysInv, NEW r \in Requests, Fail(r)
  PROVE  OverlaysInv'
<1>1. /\ requests' = [requests EXCEPT ![r] = Unstarted]
      /\ UNCHANGED <<engine, rows, next, folders, items>>
  BY DEF Fail
<1>2. requests'[r].step = "idle"
  BY <1>1, UnstartedIsRequest DEF OverlaysInv, OverlaysTypeOK
<1>3. WellFormed(r)' /\ Unmet(r)'
  BY <1>2 DEF WellFormed, Unmet, Upserting, Adding, Patching
<1>4. QED BY <1>1, <1>3, UnstartedIsRequest, BeginKeepsOthers

-----------------------------------------------------------------------------
(* The commits                                                             *)

\* A request that is answered, or that failed after it had met another write, has
\* nothing left to keep.
LEMMA DoneKeeps ==
  ASSUME NEW r \in Requests,
         \/ requests'[r] = Unstarted
         \/ requests'[r].step = "failed" /\ requests'[r].met
  PROVE  /\ WellFormed(r)' /\ Unmet(r)' /\ ~Upserting(r)'
         /\ requests'[r].step = "failed" => requests'[r].met
<1>1. requests'[r].step # "read" /\ (requests'[r].step = "failed" => requests'[r].met)
  BY UnstartedIsRequest
<1>2. QED BY <1>1 DEF WellFormed, Unmet, Upserting, Adding, Patching

\* A commit that is refused changes nothing but its own request.
LEMMA RefusalKeeps ==
  ASSUME OverlaysInv, NEW r \in Requests, Finish(r, "failed", {}), requests[r].met,
         UNCHANGED <<engine, rows, next, folders, items>>
  PROVE  OverlaysInv'
<1>1. /\ requests' \in [Requests -> Request]
      /\ \A q \in Requests \ {r} : Carried(q, {})
      /\ requests'[r].step = "failed" /\ requests'[r].met
  BY FinishCarries DEF OverlaysInv
<1>2. OverlaysTypeOK'
  BY <1>1 DEF OverlaysInv, OverlaysTypeOK
<1>3. \A q \in Requests : WellFormed(q)' /\ Unmet(q)'
  BY <1>1, DoneKeeps, CarriedWellFormed, CarriedUnmet
<1>4. FailuresMet'
  BY <1>1, DoneKeeps, CarriedWellFormed DEF FailuresMet
<1>5. OneRowEach'
  BY DEF OverlaysInv, OneRowEach
<1>6. NumbersStay'
  BY <1>1 DEF OverlaysInv, NumbersStay, Upserting, Carried
<1>7. engine' = "postgresql" => OwnersWrite' /\ NoOrphans'
  BY DEF OverlaysInv, OwnersWrite, NoOrphans
<1>8. QED BY <1>2, <1>3, <1>4, <1>5, <1>6, <1>7 DEF OverlaysInv

LEMMA CommitPatchKeeps ==
  ASSUME OverlaysInv, NEW r \in Requests, CommitPatch(r)
  PROVE  OverlaysInv'
<1>1. UNCHANGED <<engine, rows, next, folders, items>> /\ Patching(r)
  BY DEF CommitPatch, Waiting, Patching
<1>2. CASE folders[requests[r].on[1]] = "deleted"
  <2>1. requests[r].met
    BY <1>1, <1>2 DEF OverlaysInv, Unmet, FolderThere
  <2>2. QED BY <1>1, <1>2, <2>1, RefusalKeeps DEF CommitPatch
<1>3. CASE folders[requests[r].on[1]] # "deleted"
  <2>1. Finish(r, "answered", {})
    BY <1>3 DEF CommitPatch
  <2>2. /\ requests' \in [Requests -> Request]
        /\ \A q \in Requests \ {r} : Carried(q, {})
        /\ requests'[r] = Unstarted
    BY <2>1, FinishCarries DEF OverlaysInv
  <2>3. OverlaysTypeOK'
    BY <1>1, <2>2 DEF OverlaysInv, OverlaysTypeOK
  <2>4. \A q \in Requests : WellFormed(q)' /\ Unmet(q)'
    BY <1>1, <2>2, DoneKeeps, CarriedWellFormed, CarriedUnmet
  <2>5. FailuresMet'
    BY <2>2, DoneKeeps, CarriedWellFormed DEF FailuresMet
  <2>6. OneRowEach'
    BY <1>1 DEF OverlaysInv, OneRowEach
  <2>7. NumbersStay'
    BY <1>1, <2>2, DoneKeeps DEF OverlaysInv, NumbersStay, Upserting, Carried
  <2>8. engine' = "postgresql" => OwnersWrite' /\ NoOrphans'
    BY <1>1 DEF OverlaysInv, OwnersWrite, NoOrphans
  <2>9. QED BY <2>3, <2>4, <2>5, <2>6, <2>7, <2>8 DEF OverlaysInv
<1>4. QED BY <1>2, <1>3

LEMMA CommitAddKeeps ==
  ASSUME OverlaysInv, NEW r \in Requests, CommitAdd(r)
  PROVE  OverlaysInv'
<1> DEFINE on == requests[r].on
           refused == \/ on[2] # Note /\ on \in items
                      \/ engine = "postgresql" /\ folders[on[1]] = "deleted"
<1>1. UNCHANGED <<engine, rows, next, folders>> /\ Adding(r)
  BY DEF CommitAdd, Waiting, Adding
<1>2. CASE refused
  <2>1. requests[r].met
    BY <1>1, <1>2 DEF OverlaysInv, Unmet, FolderThere
  <2>2. UNCHANGED items /\ Finish(r, "failed", {})
    BY <1>2 DEF CommitAdd
  <2>3. QED BY <1>1, <2>1, <2>2, RefusalKeeps
<1>3. CASE ~refused
  <2>1. items' = items \cup {on} /\ Finish(r, "answered", {on})
    BY <1>3 DEF CommitAdd
  <2>2. /\ requests' \in [Requests -> Request]
        /\ \A q \in Requests \ {r} : Carried(q, {on})
        /\ requests'[r] = Unstarted
    BY <2>1, FinishCarries DEF OverlaysInv
  <2>3. PICK f \in Folders, item \in Items \cup {Note} : on = <<f, item>>
    BY <1>1 DEF OverlaysInv, WellFormed
  <2>4. OverlaysTypeOK'
    BY <1>1, <2>1, <2>2, <2>3 DEF OverlaysInv, OverlaysTypeOK
  <2>5. ASSUME NEW q \in Requests PROVE WellFormed(q)' /\ Unmet(q)'
    <3>1. CASE q = r
      BY <2>2, <3>1, DoneKeeps
    <3>2. CASE q # r
      <4>1. Carried(q, {on})
        BY <2>2, <3>2
      <4>2. Unmet(q)'
        BY <1>1, <2>1, <4>1 DEF OverlaysInv, Unmet, Carried, Upserting, Adding, Patching, FolderThere
      <4>3. QED BY <4>1, <4>2, CarriedWellFormed
    <3>3. QED BY <3>1, <3>2
  <2>6. FailuresMet'
    BY <2>2, DoneKeeps, CarriedWellFormed DEF FailuresMet
  <2>7. OneRowEach'
    BY <1>1 DEF OverlaysInv, OneRowEach
  <2>8. NumbersStay'
    BY <1>1, <2>2, DoneKeeps DEF OverlaysInv, NumbersStay, Upserting, Carried
  <2>9. engine' = "postgresql" => OwnersWrite' /\ NoOrphans'
    BY <1>1, <1>3, <2>1 DEF OverlaysInv, OwnersWrite, NoOrphans
  <2>10. QED BY <2>4, <2>5, <2>6, <2>7, <2>8, <2>9 DEF OverlaysInv
<1>4. QED BY <1>2, <1>3

\* An insertion takes a number that no row has and no waiting request has read.
LEMMA CommitInsertKeeps ==
  ASSUME OverlaysInv, NEW r \in Requests, CommitInsert(r)
  PROVE  OverlaysInv'
<1> DEFINE on == requests[r].on
           who == requests[r].who
<1>1. UNCHANGED <<engine, folders, items>> /\ Upserting(r) /\ requests[r].row = 0
  BY DEF CommitInsert, Waiting, Upserting
<1>2. PICK target \in Targets : who \in Analysts /\ on = <<who, target>>
  BY <1>1 DEF OverlaysInv, WellFormed
<1>3. CASE RowOf(on[1], on[2]) # 0
  <2>1. \E m \in DOMAIN rows : <<rows[m].owner, rows[m].target>> = on
    BY <1>2, <1>3, RowOfFinds DEF OverlaysInv
  <2>2. requests[r].met
    BY <1>1, <2>1 DEF OverlaysInv, Unmet
  <2>3. UNCHANGED <<rows, next>> /\ Finish(r, "failed", {})
    BY <1>3 DEF CommitInsert
  <2>4. QED BY <1>1, <2>2, <2>3, RefusalKeeps
<1>4. CASE RowOf(on[1], on[2]) = 0
  <2> DEFINE n == NewRow
             new == [owner |-> who, target |-> target, text |-> who]
  <2>1. /\ n <= MaxRow
        /\ rows' = [m \in DOMAIN rows \cup {n} |-> IF m = n THEN new ELSE rows[m]]
        /\ next' = IF engine = "postgresql" THEN next + 1 ELSE next
        /\ Finish(r, "answered", {on})
    BY <1>2, <1>4 DEF CommitInsert
  <2>2. n \in Nat \ {0} /\ n \notin DOMAIN rows /\ (engine = "postgresql" => n = next)
    BY NewRowIsFree DEF NewRow
  <2> HIDE DEF n
  <2>3. /\ requests' \in [Requests -> Request]
        /\ \A q \in Requests \ {r} : Carried(q, {on})
        /\ requests'[r] = Unstarted
    BY <2>1, FinishCarries DEF OverlaysInv
  <2>4. /\ DOMAIN rows' = DOMAIN rows \cup {n}
        /\ rows'[n] = new
        /\ \A m \in DOMAIN rows : rows'[m] = rows[m]
    BY <2>1, <2>2
  <2>5. \A m \in DOMAIN rows : <<rows[m].owner, rows[m].target>> # on
    BY <1>2, <1>4, RowOfFinds DEF OverlaysInv
  <2>6. OverlaysTypeOK'
    <3>1. DOMAIN rows' \subseteq 1..MaxRow
      BY <2>1, <2>2, <2>4, OverlaysAssumption DEF OverlaysInv, OverlaysTypeOK, OverlaysAssumption
    <3>2. new \in Row
      BY <1>2 DEF Row
    <3>3. rows' \in [DOMAIN rows' -> Row]
      BY <2>1, <2>4, <3>2 DEF OverlaysInv, OverlaysTypeOK
    <3>4. next' \in Nat \ {0}
      BY <2>1 DEF OverlaysInv, OverlaysTypeOK
    <3>5. QED BY <1>1, <2>3, <3>1, <3>3, <3>4 DEF OverlaysInv, OverlaysTypeOK
  <2>7. ASSUME NEW q \in Requests PROVE WellFormed(q)' /\ Unmet(q)'
    <3>1. CASE q = r
      BY <2>3, <3>1, DoneKeeps
    <3>2. CASE q # r
      <4>1. Carried(q, {on})
        BY <2>3, <3>2
      <4>2. Unmet(q)'
        <5> SUFFICES ASSUME ~requests[q].met, Upserting(q), requests[q].on # on
                     PROVE  /\ requests[q].row = 0 =>
                                  \A m \in DOMAIN rows' :
                                    <<rows'[m].owner, rows'[m].target>> # requests[q].on
                            /\ requests[q].row # 0 =>
                                  /\ requests[q].row \in DOMAIN rows'
                                  /\ <<rows'[requests[q].row].owner, rows'[requests[q].row].target>>
                                       = requests[q].on
          BY <1>1, <4>1, RowsUnmet
        <5>1. <<rows'[n].owner, rows'[n].target>> = on
          BY <1>2, <2>4
        <5>2. QED BY <2>4, <5>1 DEF OverlaysInv, Unmet
      <4>3. QED BY <4>1, <4>2, CarriedWellFormed
    <3>3. QED BY <3>1, <3>2
  <2>8. FailuresMet'
    BY <2>3, DoneKeeps, CarriedWellFormed DEF FailuresMet
  <2>9. OneRowEach'
    BY <1>2, <2>4, <2>5 DEF OverlaysInv, OneRowEach
  <2>10. NumbersStay'
    <3> SUFFICES ASSUME engine = "postgresql" PROVE NumbersStay'
      BY <1>1 DEF NumbersStay
    <3>1. n = next /\ next' = next + 1 /\ next \in Nat
      BY <2>1, <2>2 DEF OverlaysInv, OverlaysTypeOK
    <3>2. \A m \in DOMAIN rows' : m < next'
      <4>1. \A m \in DOMAIN rows : m < next /\ m \in Nat
        BY DEF OverlaysInv, OverlaysTypeOK, NumbersStay
      <4>2. QED BY <2>4, <3>1, <4>1
    <3>3. ASSUME NEW q \in Requests, Upserting(q)', requests'[q].row # 0
          PROVE  /\ requests'[q].row < next'
                 /\ requests'[q].row \in DOMAIN rows' =>
                       rows'[requests'[q].row].owner = requests'[q].who
      <4>1. q # r /\ Carried(q, {on})
        BY <2>3, <3>3, DoneKeeps
      <4>2. /\ requests[q].row < next /\ requests[q].row \in Nat
            /\ requests[q].row \in DOMAIN rows => rows[requests[q].row].owner = requests[q].who
        BY <3>3, <4>1 DEF OverlaysInv, OverlaysTypeOK, Request, NumbersStay, Carried, Upserting
      <4>3. requests[q].row # n
        BY <3>1, <4>2
      <4>4. requests[q].row < next'
        BY <3>1, <4>2
      <4>5. QED BY <2>4, <4>1, <4>2, <4>3, <4>4 DEF Carried
    <3>4. QED BY <3>2, <3>3 DEF NumbersStay
  <2>11. engine' = "postgresql" => OwnersWrite' /\ NoOrphans'
    BY <1>1, <2>4 DEF OverlaysInv, OwnersWrite, NoOrphans
  <2>12. QED BY <2>6, <2>7, <2>8, <2>9, <2>10, <2>11 DEF OverlaysInv
<1>5. QED BY <1>3, <1>4

LEMMA CommitUpdateKeeps ==
  ASSUME OverlaysInv, NEW r \in Requests, CommitUpdate(r)
  PROVE  OverlaysInv'
<1> DEFINE on == requests[r].on
           who == requests[r].who
           n == requests[r].row
<1>1. UNCHANGED <<engine, next, folders, items>> /\ Upserting(r) /\ n # 0 /\ who \in Analysts
  BY DEF CommitUpdate, Waiting, Upserting, OverlaysInv, WellFormed
<1>2. CASE n \notin DOMAIN rows
  <2>1. requests[r].met
    BY <1>1, <1>2 DEF OverlaysInv, Unmet
  <2>2. UNCHANGED rows /\ Finish(r, "failed", {})
    BY <1>2 DEF CommitUpdate
  <2>3. QED BY <1>1, <2>1, <2>2, RefusalKeeps
<1>3. CASE n \in DOMAIN rows
  <2>1. rows' = [rows EXCEPT ![n] = [rows[n] EXCEPT !.text = who]] /\ Finish(r, "answered", {on})
    BY <1>3 DEF CommitUpdate
  <2>2. rows[n] \in Row
    BY <1>3 DEF OverlaysInv, OverlaysTypeOK
  <2>3. [rows[n] EXCEPT !.text = who] \in Row
    BY <1>1, <2>2 DEF Row
  <2>4. /\ DOMAIN rows' = DOMAIN rows
        /\ \A m \in DOMAIN rows : /\ rows'[m].owner = rows[m].owner
                                  /\ rows'[m].target = rows[m].target
                                  /\ rows'[m].text = IF m = n THEN who ELSE rows[m].text
        /\ rows' \in [DOMAIN rows -> Row]
    BY <1>3, <2>1, <2>2, <2>3 DEF Row, OverlaysInv, OverlaysTypeOK
  <2>5. /\ requests' \in [Requests -> Request]
        /\ \A q \in Requests \ {r} : Carried(q, {on})
        /\ requests'[r] = Unstarted
    BY <2>1, FinishCarries DEF OverlaysInv
  <2>6. OverlaysTypeOK'
    BY <1>1, <2>4, <2>5 DEF OverlaysInv, OverlaysTypeOK
  <2>7. ASSUME NEW q \in Requests PROVE WellFormed(q)' /\ Unmet(q)'
    <3>1. CASE q = r
      BY <2>5, <3>1, DoneKeeps
    <3>2. CASE q # r
      <4>1. Carried(q, {on})
        BY <2>5, <3>2
      <4>2. Unmet(q)'
        BY <1>1, <2>4, <4>1 DEF OverlaysInv, Unmet, Carried, Upserting, Adding, Patching, FolderThere
      <4>3. QED BY <4>1, <4>2, CarriedWellFormed
    <3>3. QED BY <3>1, <3>2
  <2>8. FailuresMet'
    BY <2>5, DoneKeeps, CarriedWellFormed DEF FailuresMet
  <2>9. OneRowEach'
    BY <2>4 DEF OverlaysInv, OneRowEach
  <2>10. NumbersStay'
    BY <1>1, <2>4, <2>5, DoneKeeps DEF OverlaysInv, NumbersStay, Upserting, Carried
  <2>11. engine' = "postgresql" => OwnersWrite' /\ NoOrphans'
    <3>1. engine = "postgresql" => rows[n].owner = who
      BY <1>1, <1>3 DEF OverlaysInv, NumbersStay
    <3>2. QED BY <1>1, <2>4, <3>1 DEF OverlaysInv, OwnersWrite, NoOrphans
  <2>12. QED BY <2>6, <2>7, <2>8, <2>9, <2>10, <2>11 DEF OverlaysInv
<1>4. QED BY <1>2, <1>3

-----------------------------------------------------------------------------
(* The requests of a single step *)

LEMMA RowsWithout ==
  ASSUME NEW gone, rows' = Without(gone)
  PROVE  /\ DOMAIN rows' = DOMAIN rows \ gone
         /\ \A n \in DOMAIN rows' : n \in DOMAIN rows /\ rows'[n] = rows[n]
  BY DEF Without

LEMMA DeleteBookmarkKeeps ==
  ASSUME OverlaysInv, NEW who \in Analysts, NEW target \in Targets, DeleteBookmark(who, target)
  PROVE  OverlaysInv'
<1> DEFINE n == RowOf(who, target)
           on == <<who, target>>
<1>1. /\ UNCHANGED <<engine, next, folders, items>>
      /\ rows' = Without({n})
      /\ requests' = Met(Waiting, {on})
      /\ n # 0
  BY DEF DeleteBookmark
<1>2. n \in DOMAIN rows /\ <<rows[n].owner, rows[n].target>> = on
  BY <1>1, RowOfFinds DEF OverlaysInv
<1> HIDE DEF n
<1>3. /\ DOMAIN rows' = DOMAIN rows \ {n}
      /\ \A m \in DOMAIN rows' : m \in DOMAIN rows /\ rows'[m] = rows[m]
  BY <1>1, RowsWithout
<1>4. /\ requests' \in [Requests -> Request]
      /\ \A q \in Requests : Carried(q, {on})
  BY <1>1, MeetingCarries DEF OverlaysInv
<1>5. OverlaysTypeOK'
  <2>1. rows' \in [DOMAIN rows' -> Row]
    BY <1>1, <1>3 DEF OverlaysInv, OverlaysTypeOK, Without
  <2>2. QED BY <1>1, <1>3, <1>4, <2>1 DEF OverlaysInv, OverlaysTypeOK
<1>6. ASSUME NEW q \in Requests PROVE WellFormed(q)' /\ Unmet(q)'
  <2>1. Carried(q, {on})
    BY <1>4
  <2>2. Unmet(q)'
    <3> SUFFICES ASSUME ~requests[q].met, Upserting(q), requests[q].on # on
                 PROVE  /\ requests[q].row = 0 =>
                              \A m \in DOMAIN rows' :
                                <<rows'[m].owner, rows'[m].target>> # requests[q].on
                        /\ requests[q].row # 0 =>
                              /\ requests[q].row \in DOMAIN rows'
                              /\ <<rows'[requests[q].row].owner, rows'[requests[q].row].target>>
                                   = requests[q].on
      BY <1>1, <2>1, RowsUnmet
    <3>1. QED BY <1>2, <1>3 DEF OverlaysInv, Unmet
  <2>3. QED BY <2>1, <2>2, CarriedWellFormed
<1>7. FailuresMet'
  BY <1>4, CarriedWellFormed DEF FailuresMet
<1>8. OneRowEach'
  BY <1>3 DEF OverlaysInv, OneRowEach
<1>9. NumbersStay'
  <2>1. \A q \in Requests : Upserting(q)' /\ requests'[q].row # 0 =>
          /\ Upserting(q) /\ requests[q].row # 0
          /\ requests'[q].row = requests[q].row /\ requests'[q].who = requests[q].who
    BY <1>4 DEF Upserting, Carried
  <2>2. QED BY <1>1, <1>3, <2>1 DEF OverlaysInv, NumbersStay
<1>10. engine' = "postgresql" => OwnersWrite' /\ NoOrphans'
  BY <1>1, <1>3 DEF OverlaysInv, OwnersWrite, NoOrphans
<1>11. QED BY <1>5, <1>6, <1>7, <1>8, <1>9, <1>10 DEF OverlaysInv

LEMMA CreateFolderKeeps ==
  ASSUME OverlaysInv, NEW who \in Analysts, NEW f \in Folders, CreateFolder(who, f)
  PROVE  OverlaysInv'
<1>1. /\ UNCHANGED <<engine, rows, next, items, requests>>
      /\ folders' = [folders EXCEPT ![f] = who]
      /\ who \notin {"unused", "deleted"}
  BY OverlaysAssumption DEF CreateFolder, OverlaysAssumption
<1>2. OverlaysTypeOK'
  BY <1>1 DEF OverlaysInv, OverlaysTypeOK
<1>3. /\ \A g : FolderThere(g) /\ g \in Folders => folders'[g] \notin {"unused", "deleted"}
      /\ \A g \in Folders : folders[g] # "deleted" => folders'[g] # "deleted"
  BY <1>1 DEF FolderThere, OverlaysInv, OverlaysTypeOK
<1>4. ASSUME NEW q \in Requests PROVE WellFormed(q)' /\ Unmet(q)'
  <2>1. WellFormed(q)'
    BY <1>1 DEF OverlaysInv, WellFormed, Upserting, Adding, Patching
  <2>2. Adding(q) \/ Patching(q) => requests[q].on[1] \in Folders
    BY DEF OverlaysInv, WellFormed
  <2>3. Unmet(q)'
    BY <1>1, <1>3, <2>2 DEF OverlaysInv, Unmet, Upserting, Adding, Patching, FolderThere
  <2>4. QED BY <2>1, <2>3
<1>5. FailuresMet' /\ OneRowEach'
  BY <1>1 DEF OverlaysInv, FailuresMet, OneRowEach
<1>6. NumbersStay'
  BY <1>1 DEF OverlaysInv, NumbersStay, Upserting
<1>7. engine' = "postgresql" => OwnersWrite' /\ NoOrphans'
  BY <1>1, <1>3 DEF OverlaysInv, OverlaysTypeOK, OwnersWrite, NoOrphans
<1>8. QED BY <1>2, <1>4, <1>5, <1>6, <1>7 DEF OverlaysInv

\* A purge takes the rows and folders of one analyst; every request that waits to
\* write one of his things meets it.
LEMMA PurgeOverlaysKeeps ==
  ASSUME OverlaysInv, NEW who \in Analysts, PurgeOverlays(who)
  PROVE  OverlaysInv'
<1> DEFINE mine == {f \in Folders : folders[f] = who}
           gone == {n \in DOMAIN rows : rows[n].owner = who}
           touched == {requests[q].on : q \in
                         {q \in Waiting : requests[q].on[1] \in mine \cup {who}}}
<1>1. /\ UNCHANGED <<engine, next>>
      /\ rows' = Without(gone)
      /\ folders' = [f \in Folders |-> IF f \in mine THEN "deleted" ELSE folders[f]]
      /\ items' = {i \in items : i[1] \notin mine}
      /\ requests' = Met(Waiting, touched)
  BY DEF PurgeOverlays
<1>2. \A q \in Requests : requests[q].step = "read" /\ requests[q].on \notin touched =>
        requests[q].on[1] \notin mine /\ requests[q].on[1] # who
  BY DEF Waiting
<1>3. /\ requests' \in [Requests -> Request]
      /\ \A q \in Requests : Carried(q, touched)
  <2> HIDE DEF touched
  <2>1. QED BY <1>1, MeetingCarries DEF OverlaysInv
<1>4. /\ DOMAIN rows' = {n \in DOMAIN rows : rows[n].owner # who}
      /\ \A n \in DOMAIN rows' : n \in DOMAIN rows /\ rows'[n] = rows[n]
  <2> HIDE DEF gone
  <2>1. /\ DOMAIN rows' = DOMAIN rows \ gone
        /\ \A n \in DOMAIN rows' : n \in DOMAIN rows /\ rows'[n] = rows[n]
    BY <1>1, RowsWithout
  <2>2. QED BY <2>1 DEF gone
<1>5. /\ \A f \in Folders \ mine : folders'[f] = folders[f]
      /\ \A i \in items' : i \in items /\ i[1] \in Folders \ mine
  BY <1>1 DEF OverlaysInv, OverlaysTypeOK
<1>6. OverlaysTypeOK'
  <2>1. rows' \in [DOMAIN rows' -> Row]
    BY <1>1, <1>4 DEF OverlaysInv, OverlaysTypeOK, Without
  <2>2. folders' \in [Folders -> Analysts \cup {"unused", "deleted"}]
    BY <1>1 DEF OverlaysInv, OverlaysTypeOK
  <2>3. QED BY <1>1, <1>3, <1>4, <1>5, <2>1, <2>2 DEF OverlaysInv, OverlaysTypeOK
<1> HIDE DEF mine, gone, touched
<1>7. ASSUME NEW q \in Requests PROVE WellFormed(q)' /\ Unmet(q)'
  <2>1. Carried(q, touched)
    BY <1>3
  <2>2. Unmet(q)'
    <3> SUFFICES ASSUME ~requests'[q].met, requests[q].step = "read" PROVE Unmet(q)'
      BY <2>1 DEF Unmet, Carried, Upserting, Adding, Patching
    <3>1. ~requests[q].met /\ requests[q].on[1] \notin mine /\ requests[q].on[1] # who
      BY <1>2, <2>1 DEF Carried
    <3>2. CASE Upserting(q)
      <4>1. requests[q].row = 0 =>
              \A m \in DOMAIN rows' : <<rows'[m].owner, rows'[m].target>> # requests[q].on
        BY <1>4, <3>1, <3>2 DEF OverlaysInv, Unmet
      <4>2. requests[q].row # 0 =>
              /\ requests[q].row \in DOMAIN rows'
              /\ <<rows'[requests[q].row].owner, rows'[requests[q].row].target>>
                   = requests[q].on
        <5> SUFFICES ASSUME requests[q].row # 0
                     PROVE  /\ requests[q].row \in DOMAIN rows'
                            /\ <<rows'[requests[q].row].owner, rows'[requests[q].row].target>>
                                 = requests[q].on
          OBVIOUS
        <5>1. /\ requests[q].row \in DOMAIN rows
              /\ <<rows[requests[q].row].owner, rows[requests[q].row].target>> = requests[q].on
          BY <3>1, <3>2 DEF OverlaysInv, Unmet
        <5>2. rows[requests[q].row].owner # who
          BY <3>1, <5>1
        <5>3. QED BY <1>4, <5>1, <5>2
      <4>3. QED BY <2>1, <3>2, <4>1, <4>2 DEF Unmet, Carried, Upserting, Adding, Patching
    <3>3. CASE Adding(q)
      <4>1. requests[q].on[1] \in Folders \ mine
        BY <3>1, <3>3 DEF OverlaysInv, WellFormed
      <4>2. /\ folders'[requests[q].on[1]] \notin {"unused", "deleted"}
            /\ requests[q].on[2] # Note => requests[q].on \notin items'
        BY <1>5, <3>1, <3>3, <4>1 DEF OverlaysInv, Unmet, FolderThere
      <4>3. QED BY <2>1, <3>3, <4>2 DEF Unmet, Carried, Upserting, Adding, Patching, FolderThere
    <3>4. CASE Patching(q)
      <4>1. requests[q].on[1] \in Folders \ mine
        BY <3>1, <3>4 DEF OverlaysInv, WellFormed
      <4>2. folders'[requests[q].on[1]] \notin {"unused", "deleted"}
        BY <1>5, <3>1, <3>4, <4>1 DEF OverlaysInv, Unmet, FolderThere
      <4>3. QED BY <2>1, <3>4, <4>2 DEF Unmet, Carried, Upserting, Adding, Patching, FolderThere
    <3>5. CASE ~(Upserting(q) \/ Adding(q) \/ Patching(q))
      BY <2>1, <3>5 DEF Unmet, Carried, Upserting, Adding, Patching
    <3>6. QED BY <3>2, <3>3, <3>4, <3>5
  <2>3. QED BY <2>1, <2>2, CarriedWellFormed
<1>8. FailuresMet'
  BY <1>3, CarriedWellFormed DEF FailuresMet
<1>9. OneRowEach'
  BY <1>4 DEF OverlaysInv, OneRowEach
<1>10. NumbersStay'
  BY <1>1, <1>3, <1>4 DEF OverlaysInv, NumbersStay, Upserting, Carried
<1>11. engine' = "postgresql" => OwnersWrite' /\ NoOrphans'
  BY <1>1, <1>4, <1>5 DEF OverlaysInv, OwnersWrite, NoOrphans
<1>12. QED BY <1>6, <1>7, <1>8, <1>9, <1>10, <1>11 DEF OverlaysInv

-----------------------------------------------------------------------------
(* The theorem *)

LEMMA OverlaysInitially == OverlaysInit => OverlaysInv
<1> SUFFICES ASSUME OverlaysInit PROVE OverlaysInv
  OBVIOUS
<1>1. \A r \in Requests : requests[r] = Unstarted
  BY DEF OverlaysInit
<1>2. DOMAIN rows = {} /\ rows \in [DOMAIN rows -> Row]
  BY DEF OverlaysInit
<1>3. OverlaysTypeOK
  BY <1>2, UnstartedIsRequest DEF OverlaysInit, OverlaysTypeOK
<1>4. \A r \in Requests : WellFormed(r) /\ Unmet(r) /\ ~Upserting(r)
  BY <1>1, UnstartedIsRequest DEF WellFormed, Unmet, Upserting, Adding, Patching
<1>5. FailuresMet /\ OneRowEach /\ NumbersStay
  BY <1>1, <1>2, <1>4, UnstartedIsRequest DEF FailuresMet, OneRowEach, NumbersStay
<1>6. OwnersWrite /\ NoOrphans
  BY <1>2 DEF OverlaysInit, OwnersWrite, NoOrphans
<1>7. QED BY <1>3, <1>4, <1>5, <1>6 DEF OverlaysInv

LEMMA OverlaysStep == OverlaysInv /\ [OverlaysNext]_overlayVars => OverlaysInv'
<1> SUFFICES ASSUME OverlaysInv, [OverlaysNext]_overlayVars PROVE OverlaysInv'
  OBVIOUS
<1>1. CASE UNCHANGED overlayVars
  BY <1>1 DEF overlayVars, OverlaysInv, OverlaysTypeOK, WellFormed, Unmet, FailuresMet,
              OneRowEach, NumbersStay, OwnersWrite, NoOrphans, Upserting, Adding, Patching,
              FolderThere
<1>2. CASE \E r \in Requests, who \in Analysts, target \in Targets : ReadUpsert(r, who, target)
  BY <1>2, ReadUpsertKeeps
<1>3. CASE \E r \in Requests, who \in Analysts, f \in Folders :
             \/ \E item \in Items \cup {Note} : ReadAdd(r, who, f, item)
             \/ ReadPatch(r, who, f)
  BY <1>3, ReadAddKeeps, ReadPatchKeeps
<1>4. CASE \E r \in Requests :
             CommitInsert(r) \/ CommitUpdate(r) \/ CommitAdd(r) \/ CommitPatch(r) \/ Fail(r)
  BY <1>4, CommitInsertKeeps, CommitUpdateKeeps, CommitAddKeeps, CommitPatchKeeps, FailKeeps
<1>5. CASE \E who \in Analysts :
             \/ \E target \in Targets : DeleteBookmark(who, target)
             \/ \E f \in Folders : CreateFolder(who, f)
             \/ PurgeOverlays(who)
  BY <1>5, DeleteBookmarkKeeps, CreateFolderKeeps, PurgeOverlaysKeeps
<1>6. QED BY <1>1, <1>2, <1>3, <1>4, <1>5 DEF OverlaysNext

\* A request on annotations, bookmarks, projects or workspaces fails only if another
\* one wrote what it was about to write, an analyst has one row per target, and where
\* row numbers are not reused and foreign keys are checked no update reaches another
\* analyst's row and no item outlives its folder: with any analysts, targets, folders
\* and requests in flight, and tables of any size.
THEOREM AnalystsKeepTheirWork == OverlaysSpec => []OverlaysKept
<1>1. OverlaysInv => OverlaysKept
  BY DEF OverlaysInv, OverlaysKept, FailuresMet, OneRowEach
<1>2. QED BY <1>1, OverlaysInitially, OverlaysStep, PTL DEF OverlaysSpec
=============================================================================
