------------------------------ MODULE ParseCache ------------------------------
(***************************************************************************)
(* The least-recently-used caches of api/services.py, parse_cached and     *)
(* functions_cached, which run the same code over different dictionaries.  *)
(*                                                                         *)
(* Requests run in the threads of a pool and no lock is taken: each        *)
(* operation on the OrderedDict is atomic, and what comes between two of   *)
(* them is not.  The cache is the sequence of its keys, the least recently *)
(* used first.  The value of a key is the deterministic parse of that      *)
(* sample and is left out.                                                 *)
(***************************************************************************)
EXTENDS Naturals, Sequences, FiniteSets, SequencesExt

CONSTANTS Threads, Keys, Capacity

ASSUME CacheAssumption == IsFiniteSet(Threads) /\ Capacity \in Nat \ {0}

VARIABLES
    cache,   \* keys, from the oldest
    calls    \* thread -> what it is doing

cacheVars == <<cache, calls>>

\* idle; found: get returned an entry; missed: it did not, and the sample is being
\* parsed; stored: the entry is set; trimming: about to compare the size with the
\* capacity; evicting: the size was above it; answered; failed: KeyError.
Steps == {"idle", "found", "missed", "stored", "trimming", "evicting", "answered", "failed"}

\* alone: no other call has overlapped this one.
Idle == [step |-> "idle", alone |-> TRUE, sample |-> CHOOSE s \in Keys : TRUE]

CacheInit == cache = <<>> /\ calls = [t \in Threads |-> Idle]

Busy == {t \in Threads : calls[t].step \notin {"idle", "answered", "failed"}}
InStep(t, step) == calls[t].step = step
Cached(s) == s \in Range(cache)

Go(t, step) == calls' = [calls EXCEPT ![t].step = step]

\* get decides between a hit and a miss.
Get(t, s) ==
    /\ InStep(t, "idle")
    /\ calls' = [u \in Threads |->
                   IF u = t
                   THEN [step |-> IF Cached(s) THEN "found" ELSE "missed",
                         alone |-> Busy = {}, sample |-> s]
                   ELSE IF u \in Busy THEN [calls[u] EXCEPT !.alone = FALSE]
                   ELSE calls[u]]
    /\ UNCHANGED cache

Place(s) == CHOOSE i \in DOMAIN cache : cache[i] = s

\* move_to_end raises KeyError for an entry evicted since it was found or stored.
MoveToEnd(t, next) ==
    LET s == calls[t].sample IN
    IF Cached(s) THEN cache' = Append(RemoveAt(cache, Place(s)), s) /\ Go(t, next)
    ELSE UNCHANGED cache /\ Go(t, "failed")

Touch(t) == InStep(t, "found") /\ MoveToEnd(t, "answered")

\* An entry that another thread has stored meanwhile keeps its place.
Store(t) ==
    /\ InStep(t, "missed")
    /\ cache' = IF Cached(calls[t].sample) THEN cache ELSE Append(cache, calls[t].sample)
    /\ Go(t, "stored")

Promote(t) == InStep(t, "stored") /\ MoveToEnd(t, "trimming")

\* Mutant: lets one entry too many stay.
CompareLate(t) ==
    /\ InStep(t, "trimming")
    /\ Go(t, IF Len(cache) > Capacity + 1 THEN "evicting" ELSE "answered")
    /\ UNCHANGED cache

Compare(t) ==
    /\ InStep(t, "trimming")
    /\ Go(t, IF Len(cache) > Capacity THEN "evicting" ELSE "answered")
    /\ UNCHANGED cache

\* popitem(last=False)
Evict(t) ==
    /\ InStep(t, "evicting")
    /\ IF cache = <<>> THEN UNCHANGED cache /\ Go(t, "failed")
       ELSE cache' = Tail(cache) /\ Go(t, "trimming")

Return(t) ==
    /\ calls[t].step \in {"answered", "failed"}
    /\ calls' = [calls EXCEPT ![t] = Idle]
    /\ UNCHANGED cache

CacheNext ==
    \E t \in Threads :
        \/ \E s \in Keys : Get(t, s)
        \/ Touch(t) \/ Store(t) \/ Promote(t) \/ Compare(t) \/ Evict(t) \/ Return(t)

CacheSpec == CacheInit /\ [][CacheNext]_cacheVars

-----------------------------------------------------------------------------
(* Properties *)

\* A key has one entry; the cache exceeds its capacity by no more entries than calls
\* are between storing and trimming; a call fails only if others overlapped it.
CacheServes ==
    /\ \A i, j \in DOMAIN cache : cache[i] = cache[j] => i = j
    /\ Len(cache) <= Capacity + Cardinality({t \in Threads :
                                     calls[t].step \in {"stored", "trimming", "evicting"}})
    /\ \A t \in Threads : InStep(t, "failed") => ~calls[t].alone
=============================================================================
