--------------------------- MODULE ParseCacheProofs ---------------------------
(***************************************************************************)
(* Proofs about ParseCache for any number of threads, any samples and any  *)
(* capacity.                                                               *)
(***************************************************************************)
EXTENDS ParseCache, SequenceTheorems, FiniteSetTheorems, TLAPS

\* Every entry of a sequence is there once.
OneEach(q) == \A i, j \in DOMAIN q : q[i] = q[j] => i = j

LEMMA AppendElements ==
  ASSUME NEW S, NEW q \in Seq(S), NEW s \in S
  PROVE  /\ Append(q, s) \in Seq(S)
         /\ Len(q) \in Nat
         /\ Len(Append(q, s)) = Len(q) + 1
         /\ DOMAIN Append(q, s) = 1..(Len(q) + 1)
         /\ \A k \in 1..(Len(q) + 1) : Append(q, s)[k] = IF k = Len(q) + 1 THEN s ELSE q[k]
<1>1. Len(q) \in Nat /\ DOMAIN q = 1..Len(q)
  BY LenProperties
<1>2. QED BY <1>1

LEMMA MovedToEnd ==
  ASSUME NEW S, NEW q \in Seq(S), NEW i \in 1..Len(q), OneEach(q)
  PROVE  LET r == Append(RemoveAt(q, i), q[i]) IN
         /\ r \in Seq(S)
         /\ Len(r) = Len(q)
         /\ OneEach(r)
         /\ Range(r) = Range(q)
<1> DEFINE front == SubSeq(q, 1, i - 1)
           back == SubSeq(q, i + 1, Len(q))
           rest == front \o back
           r == Append(rest, q[i])
<1>n. PICK n \in Nat : n = Len(q)
  BY LenProperties
<1>1. DOMAIN q = 1..n /\ i \in 1..n /\ \A k \in 1..n : q[k] \in S
  BY <1>n, LenProperties, ElementOfSeq
<1>2. /\ front \in Seq(S)
      /\ Len(front) = i - 1
      /\ \A k \in 1..(i - 1) : front[k] = q[k]
  <2>1. \A k \in 1..(i - 1) : q[k] \in S
    BY <1>1
  <2>2. i - 1 \in Int /\ 1 \in Int /\ i - 1 - 1 + 1 = i - 1 /\ \A k \in 1..(i - 1) : 1 + k - 1 = k
    BY <1>1
  <2> HIDE DEF front
  <2>3. /\ SubSeq(q, 1, i - 1) \in Seq(S)
        /\ Len(SubSeq(q, 1, i - 1)) = IF 1 <= i - 1 THEN i - 1 - 1 + 1 ELSE 0
        /\ \A k \in 1..(i - 1 - 1 + 1) : SubSeq(q, 1, i - 1)[k] = q[1 + k - 1]
    BY <2>1, <2>2, SubSeqProperties
  <2>4. QED BY <1>1, <2>2, <2>3 DEF front
<1>3. /\ back \in Seq(S)
      /\ Len(back) = n - i
      /\ \A k \in 1..(n - i) : back[k] = q[i + k]
  <2>1. \A k \in (i + 1)..n : q[k] \in S
    BY <1>1
  <2>2. /\ i + 1 \in Int /\ n \in Int
        /\ n - (i + 1) + 1 = n - i
        /\ \A k \in 1..(n - i) : i + 1 + k - 1 = i + k
    BY <1>1
  <2>3. /\ SubSeq(q, i + 1, n) \in Seq(S)
        /\ Len(SubSeq(q, i + 1, n))
             = IF i + 1 <= n THEN n - (i + 1) + 1 ELSE 0
        /\ \A k \in 1..(n - (i + 1) + 1) :
              SubSeq(q, i + 1, n)[k] = q[i + 1 + k - 1]
    BY <2>1, <2>2, SubSeqProperties
  <2> HIDE DEF back
  <2>4. QED BY <1>n, <1>1, <2>2, <2>3 DEF back
<1> HIDE DEF front, back
<1>4. /\ rest \in Seq(S)
      /\ Len(rest) = n - 1
      /\ \A k \in 1..(n - 1) : rest[k] = IF k < i THEN q[k] ELSE q[k + 1]
  <2>1. /\ rest \in Seq(S)
        /\ Len(rest) = Len(front) + Len(back)
        /\ \A k \in 1..(Len(front) + Len(back)) :
              rest[k] = IF k <= Len(front) THEN front[k] ELSE back[k - Len(front)]
    BY <1>2, <1>3, ConcatProperties
  <2>2. Len(front) + Len(back) = n - 1
    BY <1>1, <1>2, <1>3
  <2>3. ASSUME NEW k \in 1..(n - 1)
        PROVE  rest[k] = IF k < i THEN q[k] ELSE q[k + 1]
    <3>1. CASE k < i
      <4>1. k <= Len(front) /\ k \in 1..(i - 1)
        BY <1>1, <1>2, <3>1
      <4>2. QED BY <4>1, <2>1, <2>2, <1>2, <3>1
    <3>2. CASE ~(k < i)
      <4>1. ~(k <= Len(front)) /\ k - Len(front) \in 1..(n - i)
            /\ i + (k - Len(front)) = k + 1
        BY <1>1, <1>2, <3>2
      <4>2. QED BY <4>1, <2>1, <2>2, <1>3, <3>2
    <3>3. QED BY <3>1, <3>2
  <2>4. QED BY <2>1, <2>2, <2>3
<1> HIDE DEF rest
<1>5. /\ r \in Seq(S)
      /\ Len(r) = n
      /\ DOMAIN r = 1..n
      /\ \A k \in 1..n :
            r[k] = IF k < i THEN q[k] ELSE IF k < n THEN q[k + 1] ELSE q[i]
  <2>1. q[i] \in S
    BY <1>1
  <2>2. /\ r \in Seq(S)
        /\ Len(r) = Len(rest) + 1
        /\ DOMAIN r = 1..(Len(rest) + 1)
        /\ \A k \in 1..(Len(rest) + 1) : r[k] = IF k = Len(rest) + 1 THEN q[i] ELSE rest[k]
    BY <1>4, <2>1, AppendElements
  <2> HIDE DEF r
  <2>3. Len(rest) + 1 = n
    BY <1>1, <1>4
  <2>4. \A k \in 1..n : r[k] = IF k = n THEN q[i] ELSE rest[k]
    BY <2>2, <2>3
  <2>5. ASSUME NEW k \in 1..n
        PROVE  r[k] = IF k < i THEN q[k] ELSE IF k < n THEN q[k + 1] ELSE q[i]
    <3>1. CASE k = n
      <4>1. ~(k < i) /\ ~(k < n)
        BY <1>1, <3>1
      <4>2. QED BY <2>4, <3>1, <4>1
    <3>2. CASE k # n
      <4>1. k < n /\ k \in 1..(n - 1)
        BY <1>1, <3>2
      <4>2. QED BY <1>4, <2>4, <3>2, <4>1
    <3>3. QED BY <3>1, <3>2
  <2>6. QED BY <2>2, <2>3, <2>5
<1> HIDE DEF r
<1> DEFINE origin(k) == IF k < i THEN k ELSE IF k < n THEN k + 1 ELSE i
<1>6. \A k \in 1..n : origin(k) \in 1..n /\ r[k] = q[origin(k)]
  BY <1>1, <1>5
<1>7. \A j, k \in 1..n : origin(j) = origin(k) => j = k
  BY <1>1
<1>8. \A k \in 1..n : \E m \in 1..n : origin(m) = k
  <2> SUFFICES ASSUME NEW k \in 1..n PROVE \E m \in 1..n : origin(m) = k
    OBVIOUS
  <2>1. CASE k < i
    BY <1>1, <2>1
  <2>2. CASE k = i
    <3>1. n \in 1..n /\ origin(n) = i
      BY <1>1
    <3>2. QED BY <2>2, <3>1
  <2>3. CASE k > i
    <3>1. k - 1 \in 1..n /\ origin(k - 1) = k
      BY <1>1, <2>3
    <3>2. QED BY <3>1
  <2>4. QED BY <1>1, <2>1, <2>2, <2>3
<1> HIDE DEF origin
<1>9. DOMAIN q = 1..n /\ DOMAIN r = 1..n
  BY <1>1, <1>5
<1>10. OneEach(r)
  <2> SUFFICES ASSUME NEW j \in 1..n, NEW k \in 1..n, r[j] = r[k] PROVE j = k
    BY <1>9 DEF OneEach
  <2>1. origin(j) = origin(k)
    BY <1>6, <1>9 DEF OneEach
  <2>2. QED BY <2>1, <1>7
<1>11. Range(r) = Range(q)
  <2>1. \A k \in 1..n : \E m \in 1..n : r[k] = q[m]
    BY <1>6
  <2>2. \A k \in 1..n : \E m \in 1..n : q[k] = r[m]
    BY <1>6, <1>8
  <2>3. Range(r) = {r[k] : k \in 1..n} /\ Range(q) = {q[k] : k \in 1..n}
    BY <1>9 DEF Range
  <2>4. QED BY <2>1, <2>2, <2>3
<1>12. QED BY <1>n, <1>5, <1>10, <1>11 DEF r, rest, front, back, RemoveAt

LEMMA Appended ==
  ASSUME NEW S, NEW q \in Seq(S), NEW s \in S, OneEach(q), s \notin Range(q)
  PROVE  /\ Append(q, s) \in Seq(S)
         /\ Len(Append(q, s)) = Len(q) + 1
         /\ OneEach(Append(q, s))
         /\ Range(Append(q, s)) = Range(q) \cup {s}
<1>1. Len(q) \in Nat /\ DOMAIN q = 1..Len(q)
  BY LenProperties
<1>2. /\ Append(q, s) \in Seq(S)
      /\ Len(Append(q, s)) = Len(q) + 1
      /\ DOMAIN Append(q, s) = 1..(Len(q) + 1)
      /\ \A k \in 1..(Len(q) + 1) : Append(q, s)[k] = IF k = Len(q) + 1 THEN s ELSE q[k]
  BY AppendElements
<1>3. \A k \in 1..Len(q) : q[k] # s
  BY <1>1 DEF Range
<1>4. OneEach(Append(q, s))
  BY <1>1, <1>2, <1>3 DEF OneEach
<1>5. Range(Append(q, s)) = Range(q) \cup {s}
  <2> DEFINE r == Append(q, s)
  <2> HIDE DEF r
  <2>1. ASSUME NEW k \in 1..Len(q) PROVE k \in 1..(Len(q) + 1) /\ r[k] = q[k]
    BY <1>1, <1>2 DEF r
  <2>2. Len(q) + 1 \in 1..(Len(q) + 1) /\ r[Len(q) + 1] = s
    BY <1>1, <1>2 DEF r
  <2>3. \A k \in 1..(Len(q) + 1) : k \in 1..Len(q) \/ k = Len(q) + 1
    BY <1>1
  <2>4. DOMAIN r = 1..(Len(q) + 1)
    BY <1>2 DEF r
  <2>5. Range(r) = Range(q) \cup {s}
    BY <1>1, <2>1, <2>2, <2>3, <2>4 DEF Range
  <2>6. QED BY <2>5 DEF r
<1>6. QED BY <1>2, <1>4, <1>5

LEMMA Dropped ==
  ASSUME NEW S, NEW q \in Seq(S), q # <<>>, OneEach(q)
  PROVE  /\ Tail(q) \in Seq(S)
         /\ Len(Tail(q)) = Len(q) - 1
         /\ OneEach(Tail(q))
         /\ Range(Tail(q)) \subseteq Range(q)
<1>1. /\ Len(q) \in Nat /\ DOMAIN q = 1..Len(q)
      /\ Tail(q) \in Seq(S)
      /\ Len(Tail(q)) = Len(q) - 1
      /\ \A k \in 1..Len(Tail(q)) : Tail(q)[k] = q[k + 1]
  BY LenProperties, HeadTailProperties
<1>2. DOMAIN Tail(q) = 1..(Len(q) - 1)
  BY <1>1, LenProperties
<1>3. \A k \in 1..(Len(q) - 1) : Tail(q)[k] = q[k + 1] /\ k + 1 \in 1..Len(q)
  BY <1>1
<1>4. OneEach(Tail(q))
  BY <1>1, <1>2, <1>3 DEF OneEach
<1>5. Range(Tail(q)) \subseteq Range(q)
  BY <1>1, <1>2, <1>3 DEF Range
<1>6. QED BY <1>1, <1>4, <1>5

\* A sequence without duplicates is as long as it has elements.
LEMMA LengthCounts ==
  ASSUME NEW S, NEW q \in Seq(S), OneEach(q)
  PROVE  IsFiniteSet(Range(q)) /\ Cardinality(Range(q)) = Len(q)
<1>1. Len(q) \in Nat /\ DOMAIN q = 1..Len(q) /\ q \in [1..Len(q) -> S]
  BY LenProperties
<1>2. q \in Bijection(1..Len(q), Range(q))
  BY <1>1 DEF OneEach, Bijection, Injection, Surjection, Range, IsInjective
<1>3. IsFiniteSet(1..Len(q)) /\ Cardinality(1..Len(q)) = Len(q)
  BY <1>1, FS_Interval
<1>4. QED BY <1>2, <1>3, FS_Bijection DEF ExistsBijection

-----------------------------------------------------------------------------
(* Type correctness and one entry per key *)

Call == [step : Steps, alone : BOOLEAN, sample : Keys \cup {Idle.sample}]

Working == {"found", "missed", "stored", "trimming", "evicting"}

CacheTypeOK ==
    /\ cache \in Seq(Keys)
    /\ OneEach(cache)
    /\ calls \in [Threads -> Call]
    /\ \A t \in Threads : calls[t].step \in Working => calls[t].sample \in Keys

\* What one step of the cache does to the keys: it leaves them alone, moves one to
\* the end, adds a new one, or drops the oldest.
LEMMA CacheSteps ==
  ASSUME CacheTypeOK, NEW t \in Threads
  PROVE  /\ \A next : Cached(calls[t].sample) /\ MoveToEnd(t, next) =>
               /\ cache' \in Seq(Keys) /\ OneEach(cache')
               /\ Len(cache') = Len(cache) /\ Range(cache') = Range(cache)
         /\ Store(t) /\ ~Cached(calls[t].sample) =>
               /\ cache' \in Seq(Keys) /\ OneEach(cache')
               /\ Len(cache') = Len(cache) + 1
               /\ Range(cache') = Range(cache) \cup {calls[t].sample}
         /\ Evict(t) /\ cache # <<>> =>
               /\ cache' \in Seq(Keys) /\ OneEach(cache')
               /\ Len(cache') = Len(cache) - 1
               /\ Range(cache') \subseteq Range(cache)
<1> DEFINE s == calls[t].sample
<1>1. ASSUME NEW next, Cached(s), MoveToEnd(t, next)
      PROVE  /\ cache' \in Seq(Keys) /\ OneEach(cache')
             /\ Len(cache') = Len(cache) /\ Range(cache') = Range(cache)
  <2>1. \E i \in DOMAIN cache : cache[i] = s
    BY <1>1 DEF Cached, Range
  <2>2. Place(s) \in DOMAIN cache /\ cache[Place(s)] = s
    BY <2>1 DEF Place
  <2>3. Place(s) \in 1..Len(cache)
    BY <2>2, LenProperties DEF CacheTypeOK
  <2>4. cache' = Append(RemoveAt(cache, Place(s)), cache[Place(s)])
    BY <1>1, <2>2 DEF MoveToEnd
  <2>5. QED BY <2>3, <2>4, MovedToEnd DEF CacheTypeOK
<1>2. ASSUME Store(t), ~Cached(s)
      PROVE  /\ cache' \in Seq(Keys) /\ OneEach(cache')
             /\ Len(cache') = Len(cache) + 1
             /\ Range(cache') = Range(cache) \cup {s}
  <2>1. s \in Keys /\ cache' = Append(cache, s) /\ s \notin Range(cache)
    BY <1>2 DEF Store, InStep, CacheTypeOK, Working, Cached
  <2>2. QED BY <2>1, Appended DEF CacheTypeOK
<1>3. ASSUME Evict(t), cache # <<>>
      PROVE  /\ cache' \in Seq(Keys) /\ OneEach(cache')
             /\ Len(cache') = Len(cache) - 1
             /\ Range(cache') \subseteq Range(cache)
  <2>1. cache' = Tail(cache)
    BY <1>3 DEF Evict
  <2>2. QED BY <1>3, <2>1, Dropped DEF CacheTypeOK
<1>4. QED BY <1>1, <1>2, <1>3

LEMMA GoSets ==
  ASSUME CacheTypeOK, NEW t \in Threads, NEW step \in Steps, Go(t, step)
  PROVE  /\ calls' \in [Threads -> Call]
         /\ calls'[t].step = step
         /\ calls'[t].alone = calls[t].alone
         /\ calls'[t].sample = calls[t].sample
         /\ \A u \in Threads \ {t} : calls'[u] = calls[u]
<1>1. calls' = [calls EXCEPT ![t] = [calls[t] EXCEPT !.step = step]]
  BY DEF Go
<1>2. calls \in [Threads -> Call] /\ calls[t] \in Call
  BY DEF CacheTypeOK
<1>3. [calls[t] EXCEPT !.step = step] \in Call
  BY <1>2 DEF Call
<1>4. QED BY <1>1, <1>2, <1>3 DEF Call

\* What each operation of a call does to the call, and when it touches the cache.
LEMMA OperationShapes ==
  ASSUME CacheTypeOK, NEW t \in Threads
  PROVE  /\ Touch(t) => /\ calls[t].step = "found"
                        /\ IF Cached(calls[t].sample)
                             THEN Go(t, "answered") /\ MoveToEnd(t, "answered")
                             ELSE Go(t, "failed") /\ UNCHANGED cache
         /\ Promote(t) => /\ calls[t].step = "stored"
                          /\ IF Cached(calls[t].sample)
                               THEN Go(t, "trimming") /\ MoveToEnd(t, "trimming")
                               ELSE Go(t, "failed") /\ UNCHANGED cache
         /\ Store(t) => /\ calls[t].step = "missed" /\ Go(t, "stored")
                        /\ Cached(calls[t].sample) => UNCHANGED cache
         /\ Compare(t) => /\ calls[t].step = "trimming" /\ UNCHANGED cache
                          /\ \/ Len(cache) > Capacity /\ Go(t, "evicting")
                             \/ ~(Len(cache) > Capacity) /\ Go(t, "answered")
         /\ Evict(t) => /\ calls[t].step = "evicting"
                        /\ IF cache = <<>> THEN UNCHANGED cache /\ Go(t, "failed")
                                           ELSE Go(t, "trimming")
  BY DEF Touch, Promote, Store, Compare, Evict, InStep, MoveToEnd

LEMMA StepKeepsCacheType ==
  ASSUME CacheTypeOK, [CacheNext]_cacheVars
  PROVE  CacheTypeOK'
<1>1. CASE UNCHANGED cacheVars
  BY <1>1 DEF cacheVars, CacheTypeOK
<1>2. ASSUME NEW t \in Threads, NEW s \in Keys, Get(t, s) PROVE CacheTypeOK'
  <2>1. ASSUME NEW u \in Threads
        PROVE  calls'[u] \in Call /\ (calls'[u].step \in Working => calls'[u].sample \in Keys)
    <3>0. calls[u] \in Call /\ (calls[u].step \in Working => calls[u].sample \in Keys)
      BY DEF CacheTypeOK
    <3>1. CASE u = t
      <4>1. calls'[u] = [step |-> IF Cached(s) THEN "found" ELSE "missed",
                         alone |-> Busy = {}, sample |-> s]
        BY <1>2, <3>1 DEF Get
      <4>2. (Busy = {}) \in BOOLEAN
        OBVIOUS
      <4>3. QED BY <4>1, <4>2 DEF Call, Steps, Working
    <3>2. CASE u # t /\ u \in Busy
      <4>1. calls'[u] = [calls[u] EXCEPT !.alone = FALSE]
        BY <1>2, <3>2 DEF Get
      <4>2. QED BY <3>0, <4>1 DEF Call
    <3>3. CASE u # t /\ u \notin Busy
      BY <1>2, <3>0, <3>3 DEF Get
    <3>4. QED BY <3>1, <3>2, <3>3
  <2>2. calls' = [u \in Threads |-> calls'[u]]
    BY <1>2 DEF Get
  <2>3. calls' \in [Threads -> Call]
    BY <2>1, <2>2
  <2>4. QED BY <1>2, <2>1, <2>3 DEF CacheTypeOK, Get
<1>3. ASSUME NEW t \in Threads, Return(t) PROVE CacheTypeOK'
  <2>1. Idle \in Call /\ Idle.step = "idle"
    BY DEF Idle, Call, Steps
  <2>2. calls' \in [Threads -> Call] /\ calls'[t] = Idle
        /\ \A u \in Threads \ {t} : calls'[u] = calls[u]
    BY <1>3, <2>1 DEF Return, CacheTypeOK
  <2>3. QED BY <1>3, <2>1, <2>2 DEF Return, CacheTypeOK, Working
<1>4. ASSUME NEW t \in Threads, NEW step \in Steps, Go(t, step),
             calls[t].sample \in Keys, cache' \in Seq(Keys), OneEach(cache')
      PROVE  CacheTypeOK'
  BY <1>4, GoSets DEF CacheTypeOK
<1>5. ASSUME NEW t \in Threads, Touch(t) \/ Store(t) \/ Promote(t) \/ Compare(t) \/ Evict(t)
      PROVE  CacheTypeOK'
  <2>1. calls[t].step \in Working /\ calls[t].sample \in Keys
    BY <1>5, OperationShapes DEF Working, CacheTypeOK
  <2>2. \E step \in Steps : Go(t, step)
    <3>1. Go(t, "answered") \/ Go(t, "failed") \/ Go(t, "trimming") \/ Go(t, "stored")
            \/ Go(t, "evicting")
      BY <1>5, OperationShapes
    <3>2. QED BY <3>1 DEF Steps
  <2>3. cache' \in Seq(Keys) /\ OneEach(cache')
    <3>1. CASE UNCHANGED cache
      BY <3>1 DEF CacheTypeOK
    <3>2. CASE cache' # cache
      BY <1>5, <3>2, OperationShapes, CacheSteps DEF Evict
    <3>3. QED BY <3>1, <3>2
  <2>4. QED BY <1>4, <2>1, <2>2, <2>3
<1>6. QED BY <1>1, <1>2, <1>3, <1>5 DEF CacheNext

-----------------------------------------------------------------------------
(* A call fails only if others overlapped it                               *)

\* A working call that nobody overlapped is the only one, its key is in the cache
\* once it was found or stored, and there is an entry to evict when it goes to.
AloneInv ==
    \A t \in Threads :
        /\ calls[t].step \in Working /\ calls[t].alone =>
              /\ Busy = {t}
              /\ calls[t].step \in {"found", "stored"} => Cached(calls[t].sample)
              /\ calls[t].step = "evicting" => cache # <<>>
        /\ calls[t].step = "failed" => ~calls[t].alone

LEMMA BusyWorks ==
  ASSUME CacheTypeOK, NEW t \in Threads
  PROVE  t \in Busy <=> calls[t].step \in Working
  BY DEF CacheTypeOK, Call, Busy, Working, Steps

LEMMA StepKeepsAlone ==
  ASSUME CacheTypeOK, CacheTypeOK', AloneInv, [CacheNext]_cacheVars
  PROVE  AloneInv'
<1>1. CASE UNCHANGED cacheVars
  BY <1>1 DEF cacheVars, AloneInv, Busy, Cached
<1>2. ASSUME NEW t \in Threads, NEW s \in Keys, Get(t, s) PROVE AloneInv'
  <2>1. calls'[t] = [step |-> IF Cached(s) THEN "found" ELSE "missed",
                     alone |-> Busy = {}, sample |-> s]
    BY <1>2 DEF Get
  <2>2. UNCHANGED cache /\ t \notin Busy
    BY <1>2 DEF Get, InStep, Busy
  <2>3. \A u \in Threads \ {t} :
           IF u \in Busy THEN calls'[u] = [calls[u] EXCEPT !.alone = FALSE]
                         ELSE calls'[u] = calls[u]
    BY <1>2 DEF Get
  <2>4. \A u \in Busy : calls'[u].step = calls[u].step /\ calls'[u].alone = FALSE
    BY <2>2, <2>3 DEF Busy, CacheTypeOK, Call
  <2>5. Busy' = Busy \cup {t}
    <3>1. t \in Busy'
      BY <2>1 DEF Busy
    <3>2. \A u \in Threads \ {t} : calls'[u].step = calls[u].step
      BY <2>3, <2>4
    <3>3. \A u \in Threads \ {t} : u \in Busy' <=> u \in Busy
      BY <3>2 DEF Busy
    <3>4. QED BY <3>1, <3>3 DEF Busy
  <2> SUFFICES ASSUME NEW u \in Threads
               PROVE  /\ calls'[u].step \in Working /\ calls'[u].alone =>
                            /\ Busy' = {u}
                            /\ calls'[u].step \in {"found", "stored"} => Cached(calls[u].sample)'
                            /\ calls'[u].step = "evicting" => cache' # <<>>
                      /\ calls'[u].step = "failed" => ~calls'[u].alone
    BY DEF AloneInv, Cached
  <2>6. CASE u = t
    <3>1. calls'[t].step \in {"found", "missed"} /\ calls'[t].alone = (Busy = {})
          /\ calls'[t].sample = s /\ (calls'[t].step = "found" => Cached(s))
      BY <2>1
    <3>2. calls'[t].step = "found" => Cached(calls[t].sample)'
      BY <2>2, <3>1 DEF Cached
    <3>3. calls'[t].alone => Busy' = {t}
      BY <2>5, <3>1
    <3>4. QED BY <2>6, <3>1, <3>2, <3>3
  <2>7. CASE u # t /\ u \in Busy
    BY <2>4, <2>7, BusyWorks DEF Working
  <2>8. CASE u # t /\ u \notin Busy
    BY <2>3, <2>8, BusyWorks DEF AloneInv
  <2>9. QED BY <2>6, <2>7, <2>8
<1>3. ASSUME NEW t \in Threads, Return(t) PROVE AloneInv'
  <2>1. calls'[t] = Idle /\ UNCHANGED cache
        /\ \A u \in Threads \ {t} : calls'[u] = calls[u]
    BY <1>3 DEF Return, CacheTypeOK
  <2>2. Idle.step = "idle" /\ Idle.step \notin Working /\ Idle.step # "failed"
    BY DEF Idle, Working
  <2>3. Busy' = Busy
    <3>1. t \notin Busy
      BY <1>3 DEF Return, Busy
    <3>2. t \notin Busy'
      BY <2>1, <2>2 DEF Busy
    <3>3. \A u \in Threads \ {t} : u \in Busy' <=> u \in Busy
      BY <2>1 DEF Busy
    <3>4. QED BY <3>1, <3>2, <3>3 DEF Busy
  <2>4. QED BY <2>1, <2>2, <2>3 DEF AloneInv, Cached
<1>4. ASSUME NEW t \in Threads, NEW step \in Steps, Go(t, step), calls[t].step \in Working,
             calls[t].alone =>
                /\ step # "failed"
                /\ step \in {"found", "stored"} => Cached(calls[t].sample)'
                /\ step = "evicting" => cache' # <<>>
      PROVE  AloneInv'
  <2>1. /\ calls'[t].step = step /\ calls'[t].alone = calls[t].alone
        /\ \A u \in Threads \ {t} : calls'[u] = calls[u]
    BY <1>4, GoSets
  <2>2. Busy' \subseteq Busy /\ t \in Busy
    <3>1. t \in Busy
      BY <1>4, BusyWorks
    <3>2. QED BY <2>1, <3>1 DEF Busy
  <2>3. ASSUME NEW u \in Threads, u # t
        PROVE  /\ calls'[u].step \in Working => ~calls'[u].alone
               /\ calls'[u].step = "failed" => ~calls'[u].alone
    BY <2>1, <2>2, <2>3 DEF AloneInv
  <2>4. calls'[t].step \in Working /\ calls'[t].alone => Busy' = {t}
    <3> SUFFICES ASSUME calls'[t].step \in Working, calls[t].alone PROVE Busy' = {t}
      BY <2>1
    <3>1. Busy = {t}
      BY <1>4 DEF AloneInv
    <3>2. t \in Busy'
      BY <2>1 DEF Busy, Working
    <3>3. QED BY <2>2, <3>1, <3>2
  <2>5. ASSUME NEW u \in Threads
        PROVE  /\ calls'[u].step \in Working /\ calls'[u].alone =>
                     /\ Busy' = {u}
                     /\ calls'[u].step \in {"found", "stored"} => Cached(calls[u].sample)'
                     /\ calls'[u].step = "evicting" => cache' # <<>>
               /\ calls'[u].step = "failed" => ~calls'[u].alone
    <3>1. CASE u = t
      BY <1>4, <2>1, <2>4, <3>1
    <3>2. CASE u # t
      BY <2>3, <3>2
    <3>3. QED BY <3>1, <3>2
  <2>6. QED BY <2>5 DEF AloneInv, Cached
<1>5. ASSUME NEW t \in Threads, Touch(t) PROVE AloneInv'
  <2>1. calls[t].step = "found" /\ (calls[t].alone => Cached(calls[t].sample))
    BY <1>5, OperationShapes DEF AloneInv, Working
  <2>2. QED BY <1>4, <1>5, <2>1, OperationShapes DEF Working, Steps
<1>6. ASSUME NEW t \in Threads, Store(t) PROVE AloneInv'
  <2>1. calls[t].step = "missed" /\ Go(t, "stored")
    BY <1>6, OperationShapes
  <2>2. calls'[t].sample = calls[t].sample
    BY <2>1, GoSets DEF Steps
  <2>3. calls[t].sample \in Range(cache')
    BY <1>6, OperationShapes, CacheSteps DEF Cached
  <2>4. QED BY <1>4, <2>1, <2>2, <2>3 DEF Working, Steps, Cached
<1>7. ASSUME NEW t \in Threads, Promote(t) PROVE AloneInv'
  <2>1. calls[t].step = "stored" /\ (calls[t].alone => Cached(calls[t].sample))
    BY <1>7, OperationShapes DEF AloneInv, Working
  <2>2. QED BY <1>4, <1>7, <2>1, OperationShapes DEF Working, Steps
<1>8. ASSUME NEW t \in Threads, Compare(t) PROVE AloneInv'
  <2>1. Len(cache) > Capacity => cache # <<>>
    BY CacheAssumption, EmptySeq DEF CacheAssumption
  <2>2. QED BY <1>4, <1>8, <2>1, OperationShapes DEF Working, Steps
<1>9. ASSUME NEW t \in Threads, Evict(t) PROVE AloneInv'
  <2>1. calls[t].step = "evicting" /\ (calls[t].alone => cache # <<>>)
    BY <1>9, OperationShapes DEF AloneInv, Working
  <2>2. QED BY <1>4, <1>9, <2>1, OperationShapes DEF Working, Steps
<1>10. QED BY <1>1, <1>2, <1>3, <1>5, <1>6, <1>7, <1>8, <1>9 DEF CacheNext

-----------------------------------------------------------------------------
(* The size of the cache                                                   *)

CallsIn(steps) == {t \in Threads : calls[t].step \in steps}
Held == {calls[t].sample : t \in CallsIn({"stored"})}
Loose == Range(cache) \ Held

\* The keys that no call has just stored are at most as many as fit, and one more
\* for each call that is about to compare or to evict: only those remove entries.
SizeInv == Cardinality(Loose) <= Capacity + Cardinality(CallsIn({"trimming", "evicting"}))

LEMMA CacheFinite ==
  ASSUME CacheTypeOK
  PROVE  /\ IsFiniteSet(Range(cache)) /\ Cardinality(Range(cache)) = Len(cache)
         /\ Len(cache) \in Nat
         /\ IsFiniteSet(Loose) /\ Cardinality(Loose) \in Nat
         /\ Cardinality(Loose) <= Len(cache)
         /\ \A steps : /\ IsFiniteSet(CallsIn(steps))
                       /\ Cardinality(CallsIn(steps)) \in Nat
<1>1. IsFiniteSet(Range(cache)) /\ Cardinality(Range(cache)) = Len(cache)
  BY LengthCounts DEF CacheTypeOK
<1>2. Loose \in SUBSET Range(cache)
  BY DEF Loose
<1>3. IsFiniteSet(Loose) /\ Cardinality(Loose) <= Len(cache)
  BY <1>1, <1>2, FS_Subset
<1>4. \A steps : CallsIn(steps) \in SUBSET Threads
  BY DEF CallsIn
<1>5. \A steps : IsFiniteSet(CallsIn(steps))
  BY <1>4, FS_Subset, CacheAssumption DEF CacheAssumption
<1>6. QED BY <1>1, <1>3, <1>5, FS_CardinalityType

\* Loose keys do not become more when no key is added loose and as many calls trim.
LEMMA SizeKept ==
  ASSUME CacheTypeOK, CacheTypeOK', SizeInv, Loose' \subseteq Loose,
         CallsIn({"trimming", "evicting"}) \subseteq CallsIn({"trimming", "evicting"})'
  PROVE  SizeInv'
<1> DEFINE before == CallsIn({"trimming", "evicting"})
           after == CallsIn({"trimming", "evicting"})'
<1>1. Cardinality(Loose') <= Cardinality(Loose) /\ Cardinality(Loose') \in Nat
      /\ Cardinality(Loose) \in Nat
  BY CacheFinite, FS_Subset, FS_CardinalityType
<1>2. IsFiniteSet(after) /\ Cardinality(after) \in Nat /\ Cardinality(before) \in Nat
  <2>1. IsFiniteSet(after)
    <3>1. after \in SUBSET Threads
      BY DEF CallsIn
    <3>2. QED BY <3>1, FS_Subset, CacheAssumption DEF CacheAssumption
  <2>2. QED BY <2>1, CacheFinite, FS_CardinalityType
<1>3. Cardinality(before) <= Cardinality(after)
  BY <1>2, FS_Subset
<1>4. Cardinality(Loose) <= Capacity + Cardinality(before) /\ Capacity \in Nat
  BY CacheAssumption DEF SizeInv, CacheAssumption
<1> HIDE DEF before
<1>5. Cardinality(Loose') <= Capacity + Cardinality(after)
  <2> HIDE DEF after
  <2>1. QED BY <1>1, <1>2, <1>3, <1>4
<1>6. QED BY <1>5 DEF SizeInv

LEMMA StepKeepsSize ==
  ASSUME CacheTypeOK, CacheTypeOK', SizeInv, [CacheNext]_cacheVars
  PROVE  SizeInv'
<1> DEFINE Trimming == CallsIn({"trimming", "evicting"})
<1>1. CASE UNCHANGED cacheVars
  <2>1. Loose' = Loose /\ Trimming' = Trimming
    BY <1>1 DEF cacheVars, Loose, Held, CallsIn
  <2>2. QED BY <2>1, SizeKept
<1>2. ASSUME NEW t \in Threads, NEW s \in Keys, Get(t, s) PROVE SizeInv'
  <2>1. UNCHANGED cache /\ calls[t].step = "idle" /\ calls'[t].step \in {"found", "missed"}
    BY <1>2 DEF Get, InStep
  <2>2. \A u \in Threads \ {t} : calls'[u].step = calls[u].step /\ calls'[u].sample = calls[u].sample
    <3>1. ASSUME NEW u \in Threads \ {t}
          PROVE  calls'[u].step = calls[u].step /\ calls'[u].sample = calls[u].sample
      <4>1. calls'[u] \in {calls[u], [calls[u] EXCEPT !.alone = FALSE]} /\ calls[u] \in Call
        BY <1>2 DEF Get, CacheTypeOK
      <4>2. QED BY <4>1 DEF Call
    <3>2. QED BY <3>1
  <2>3. Trimming' = Trimming /\ CallsIn({"stored"})' = CallsIn({"stored"})
    BY <2>1, <2>2 DEF CallsIn
  <2>4. Held' = Held
    BY <2>1, <2>2, <2>3 DEF Held, CallsIn
  <2>5. QED BY <2>1, <2>3, <2>4, SizeKept DEF Loose
<1>3. ASSUME NEW t \in Threads, Return(t) PROVE SizeInv'
  <2>1. calls[t].step \in {"answered", "failed"} /\ calls'[t].step = "idle" /\ UNCHANGED cache
        /\ \A u \in Threads \ {t} : calls'[u] = calls[u]
    BY <1>3 DEF Return, CacheTypeOK, Idle
  <2>2. Trimming' = Trimming /\ CallsIn({"stored"})' = CallsIn({"stored"})
    BY <2>1 DEF CallsIn
  <2>3. Held' = Held
    BY <2>1, <2>2 DEF Held, CallsIn
  <2>4. QED BY <2>1, <2>2, <2>3, SizeKept DEF Loose
<1>4. ASSUME NEW t \in Threads, Touch(t) PROVE SizeInv'
  <2>1. /\ calls[t].step = "found"
        /\ \E step \in {"answered", "failed"} : Go(t, step)
        /\ Range(cache') = Range(cache)
    BY <1>4, OperationShapes, CacheSteps
  <2>2. calls'[t].step \in {"answered", "failed"}
        /\ \A u \in Threads \ {t} : calls'[u] = calls[u]
    BY <2>1, GoSets DEF Steps
  <2>3. Trimming' = Trimming /\ CallsIn({"stored"})' = CallsIn({"stored"})
    BY <2>1, <2>2 DEF CallsIn
  <2>4. Held' = Held
    BY <2>1, <2>2, <2>3 DEF Held, CallsIn
  <2>5. QED BY <2>1, <2>3, <2>4, SizeKept DEF Loose
<1>5. ASSUME NEW t \in Threads, Store(t) PROVE SizeInv'
  <2>1. /\ calls[t].step = "missed"
        /\ Go(t, "stored")
        /\ Range(cache') \subseteq Range(cache) \cup {calls[t].sample}
    BY <1>5, OperationShapes, CacheSteps
  <2>2. calls'[t].step = "stored" /\ calls'[t].sample = calls[t].sample
        /\ \A u \in Threads \ {t} : calls'[u] = calls[u]
    BY <2>1, GoSets DEF Steps
  <2>3. Trimming' = Trimming
    BY <2>1, <2>2 DEF CallsIn
  <2>4. Held \subseteq Held' /\ calls[t].sample \in Held'
    <3>1. \A u \in CallsIn({"stored"}) : u \in CallsIn({"stored"})' /\ calls'[u].sample = calls[u].sample
      BY <2>1, <2>2 DEF CallsIn
    <3>2. t \in CallsIn({"stored"})'
      BY <2>2 DEF CallsIn
    <3>3. QED BY <3>1, <3>2, <2>2 DEF Held
  <2>5. Loose' \subseteq Loose
    BY <2>1, <2>4 DEF Loose
  <2>6. QED BY <2>3, <2>5, SizeKept
<1>6. ASSUME NEW t \in Threads, Promote(t) PROVE SizeInv'
  <2> DEFINE s == calls[t].sample
  <2>1. /\ calls[t].step = "stored"
        /\ Range(cache') = Range(cache)
        /\ \/ Go(t, "trimming")
           \/ Go(t, "failed") /\ s \notin Range(cache)
    BY <1>6, OperationShapes, CacheSteps DEF Cached
  <2>2. calls'[t].step \in {"trimming", "failed"}
        /\ \A u \in Threads \ {t} : calls'[u] = calls[u]
    BY <2>1, GoSets DEF Steps
  <2>3. Held \ {s} \subseteq Held'
    <3>1. \A u \in CallsIn({"stored"}) \ {t} :
            u \in CallsIn({"stored"})' /\ calls'[u].sample = calls[u].sample
      BY <2>2 DEF CallsIn
    <3>2. QED BY <3>1 DEF Held
  <2>4. CASE Go(t, "failed") /\ s \notin Range(cache)
    <3>1. Loose' \subseteq Loose
      BY <2>1, <2>3, <2>4 DEF Loose
    <3>2. Trimming \subseteq Trimming'
      BY <2>1, <2>2 DEF CallsIn
    <3>3. QED BY <3>1, <3>2, SizeKept
  <2>5. CASE Go(t, "trimming")
    <3>1. Loose' \subseteq Loose \cup {s}
      BY <2>1, <2>3 DEF Loose
    <3>2. Trimming' = Trimming \cup {t} /\ t \notin Trimming
      <4>1. calls'[t].step = "trimming"
        BY <2>5, GoSets DEF Steps
      <4>2. QED BY <4>1, <2>1, <2>2 DEF CallsIn
    <3>3. Cardinality(Trimming') = Cardinality(Trimming) + 1 /\ Cardinality(Trimming) \in Nat
      BY <3>2, CacheFinite, FS_AddElement
    <3>4. IsFiniteSet(Loose \cup {s}) /\ Cardinality(Loose \cup {s}) <= Cardinality(Loose) + 1
          /\ Cardinality(Loose) \in Nat
      <4>1. IsFiniteSet(Loose) /\ Cardinality(Loose) \in Nat
        BY CacheFinite
      <4>2. IsFiniteSet(Loose \cup {s})
            /\ Cardinality(Loose \cup {s})
                 = IF s \in Loose THEN Cardinality(Loose) ELSE Cardinality(Loose) + 1
        BY <4>1, FS_AddElement
      <4>3. QED BY <4>1, <4>2
    <3>5. /\ Cardinality(Loose') <= Cardinality(Loose \cup {s})
          /\ Cardinality(Loose') \in Nat /\ Cardinality(Loose \cup {s}) \in Nat
      BY <3>1, <3>4, FS_Subset, FS_CardinalityType
    <3>6. Cardinality(Loose) <= Capacity + Cardinality(Trimming) /\ Capacity \in Nat
      BY CacheAssumption DEF SizeInv, CacheAssumption
    <3> HIDE DEF Trimming
    <3>7. Cardinality(Loose') <= Capacity + Cardinality(Trimming')
      BY <3>3, <3>4, <3>5, <3>6
    <3>8. QED BY <3>7 DEF SizeInv, Trimming
  <2>6. QED BY <2>1, <2>4, <2>5
<1>7. ASSUME NEW t \in Threads, ~(Len(cache') > Capacity) PROVE SizeInv'
  <2>1. Cardinality(Loose') <= Len(cache') /\ Cardinality(Loose') \in Nat /\ Len(cache') \in Nat
    <3>1. IsFiniteSet(Range(cache')) /\ Cardinality(Range(cache')) = Len(cache')
      BY LengthCounts DEF CacheTypeOK
    <3>2. Loose' \in SUBSET Range(cache')
      BY DEF Loose
    <3>3. QED BY <3>1, <3>2, FS_Subset, FS_CardinalityType
  <2>2. Cardinality(Trimming') \in Nat
    <3>1. Trimming' \in SUBSET Threads
      BY DEF CallsIn
    <3>2. QED BY <3>1, FS_Subset, FS_CardinalityType, CacheAssumption DEF CacheAssumption
  <2> HIDE DEF Trimming
  <2>3. Cardinality(Loose') <= Capacity + Cardinality(Trimming')
    BY <1>7, <2>1, <2>2, CacheAssumption DEF CacheAssumption
  <2>4. QED BY <2>3 DEF SizeInv, Trimming
<1>8. ASSUME NEW t \in Threads, Compare(t) PROVE SizeInv'
  <2>1. CASE ~(Len(cache) > Capacity)
    BY <1>7, <1>8, <2>1, OperationShapes
  <2>2. CASE Go(t, "evicting")
    <3>1. calls[t].step = "trimming" /\ UNCHANGED cache
      BY <1>8, OperationShapes
    <3>2. calls'[t].step = "evicting" /\ \A u \in Threads \ {t} : calls'[u] = calls[u]
      BY <2>2, GoSets DEF Steps
    <3>3. Trimming' = Trimming /\ CallsIn({"stored"})' = CallsIn({"stored"})
      BY <3>1, <3>2 DEF CallsIn
    <3>4. Held' = Held
      BY <3>1, <3>2, <3>3 DEF Held, CallsIn
    <3>5. QED BY <3>1, <3>3, <3>4, SizeKept DEF Loose
  <2>3. QED BY <1>8, <2>1, <2>2, OperationShapes
<1>9. ASSUME NEW t \in Threads, Evict(t) PROVE SizeInv'
  <2>1. CASE cache = <<>>
    <3>1. Len(cache') = 0
      BY <1>9, <2>1, OperationShapes, EmptySeq
    <3>2. ~(Len(cache') > Capacity)
      BY <3>1, CacheAssumption DEF CacheAssumption
    <3>3. QED BY <3>2, <1>7
  <2>2. CASE cache # <<>>
    <3>1. calls[t].step = "evicting" /\ Go(t, "trimming") /\ Range(cache') \subseteq Range(cache)
      BY <1>9, <2>2, OperationShapes, CacheSteps
    <3>2. calls'[t].step = "trimming" /\ \A u \in Threads \ {t} : calls'[u] = calls[u]
      BY <3>1, GoSets DEF Steps
    <3>3. Trimming' = Trimming /\ CallsIn({"stored"})' = CallsIn({"stored"})
      BY <3>1, <3>2 DEF CallsIn
    <3>4. Held' = Held
      BY <3>1, <3>2, <3>3 DEF Held, CallsIn
    <3>5. Loose' \subseteq Loose
      BY <3>1, <3>4 DEF Loose
    <3>6. QED BY <3>3, <3>5, SizeKept
  <2>3. QED BY <2>1, <2>2
<1>10. QED BY <1>1, <1>2, <1>3, <1>4, <1>5, <1>6, <1>8, <1>9 DEF CacheNext

\* Each call that stored a key holds one key at most.
LEMMA SizeBounded ==
  ASSUME CacheTypeOK, SizeInv
  PROVE  Len(cache) <= Capacity
           + Cardinality({t \in Threads : calls[t].step \in {"stored", "trimming", "evicting"}})
<1> DEFINE stored == CallsIn({"stored"})
           trimming == CallsIn({"trimming", "evicting"})
           all == {t \in Threads : calls[t].step \in {"stored", "trimming", "evicting"}}
           kept == Range(cache) \cap Held
<1>1. IsFiniteSet(Held) /\ Cardinality(Held) <= Cardinality(stored) /\ Cardinality(Held) \in Nat
  <2> DEFINE f == [t \in stored |-> calls[t].sample]
  <2>1. f \in Surjection(stored, Held)
    BY DEF Held, Surjection
  <2>2. IsFiniteSet(stored)
    BY CacheFinite
  <2> HIDE DEF f, stored
  <2>3. QED BY <2>1, <2>2, FS_Surjection, FS_CardinalityType
<1>2. IsFiniteSet(kept) /\ Cardinality(kept) <= Cardinality(Held) /\ Cardinality(kept) \in Nat
  BY <1>1, FS_Intersection, FS_CardinalityType
<1>3. Len(cache) = Cardinality(Loose) + Cardinality(kept)
  <2>1. Range(cache) = Loose \cup kept /\ Loose \cap kept = {}
    BY DEF Loose
  <2>2. Cardinality(Loose \cup kept)
          = Cardinality(Loose) + Cardinality(kept) - Cardinality(Loose \cap kept)
    BY <1>2, CacheFinite, FS_Union
  <2>3. Cardinality(Loose \cap kept) = 0
    BY <2>1, FS_EmptySet
  <2> HIDE DEF kept
  <2>4. QED BY <1>2, <2>1, <2>2, <2>3, CacheFinite
<1>4. Cardinality(all) = Cardinality(stored) + Cardinality(trimming)
  <2>1. all = stored \cup trimming /\ stored \cap trimming = {}
    BY DEF CallsIn
  <2>2. Cardinality(stored \cup trimming)
          = Cardinality(stored) + Cardinality(trimming) - Cardinality(stored \cap trimming)
    BY CacheFinite, FS_Union
  <2>3. Cardinality(stored \cap trimming) = 0
    BY <2>1, FS_EmptySet
  <2>4. Cardinality(stored) \in Nat /\ Cardinality(trimming) \in Nat
    BY CacheFinite
  <2> HIDE DEF stored, trimming, all
  <2>5. QED BY <2>1, <2>2, <2>3, <2>4
<1>5. Cardinality(stored) \in Nat /\ Cardinality(trimming) \in Nat /\ Cardinality(Loose) \in Nat
  BY CacheFinite
<1>6. Cardinality(Loose) <= Capacity + Cardinality(trimming) /\ Capacity \in Nat
  BY CacheAssumption DEF SizeInv, CacheAssumption
<1> HIDE DEF stored, trimming, kept, all
<1>7. Len(cache) <= Capacity + Cardinality(all)
  BY <1>1, <1>2, <1>3, <1>4, <1>5, <1>6
<1>8. QED BY <1>7 DEF all

CacheInv == CacheTypeOK /\ AloneInv /\ SizeInv

LEMMA InitCacheInv == CacheInit => CacheInv
<1> SUFFICES ASSUME CacheInit PROVE CacheInv
  OBVIOUS
<1>1. \A t \in Threads : calls[t] = Idle
  BY DEF CacheInit
<1>2. Idle \in Call /\ Idle.step = "idle"
  BY DEF Idle, Call, Steps
<1>3. CacheTypeOK
  BY <1>1, <1>2, EmptySeq DEF CacheInit, CacheTypeOK, OneEach, Working
<1>4. AloneInv
  BY <1>1, <1>2 DEF AloneInv, Working
<1>5. SizeInv
  <2> DEFINE trimming == CallsIn({"trimming", "evicting"})
  <2>1. Len(cache) = 0
    BY EmptySeq DEF CacheInit
  <2>2. Cardinality(Loose) <= Len(cache) /\ Cardinality(Loose) \in Nat
        /\ Cardinality(trimming) \in Nat
    BY <1>3, CacheFinite
  <2> HIDE DEF trimming
  <2>3. Cardinality(Loose) <= Capacity + Cardinality(trimming)
    BY <2>1, <2>2, CacheAssumption DEF CacheAssumption
  <2>4. QED BY <2>3 DEF SizeInv, trimming
<1>6. QED BY <1>3, <1>4, <1>5 DEF CacheInv

\* Whatever calls overlap in however many threads: a key has one entry, the cache
\* never exceeds its capacity by more than the calls that are still trimming it, and
\* a call that nobody overlapped does not fail.
THEOREM CacheAlwaysServes == CacheSpec => []CacheServes
<1>1. CacheInv /\ [CacheNext]_cacheVars => CacheInv'
  BY StepKeepsCacheType, StepKeepsAlone, StepKeepsSize DEF CacheInv
<1>2. CacheInv => CacheServes
  BY SizeBounded DEF CacheInv, CacheTypeOK, AloneInv, OneEach, InStep, CacheServes
<1>3. QED BY InitCacheInv, <1>1, <1>2, PTL DEF CacheSpec
=============================================================================
