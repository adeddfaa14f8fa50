---------------------------- MODULE AnalysesProofs ----------------------------
(***************************************************************************)
(* Proofs about the algorithms of the analyses, for inputs of every size.  *)
(***************************************************************************)
EXTENDS MCAnalyses, FiniteSetTheorems, WellFoundedInduction, TLAPS

-----------------------------------------------------------------------------
(* Least and greatest of two or three numbers *)

LEMMA LeastOf ==
  ASSUME NEW S \in SUBSET Int, NEW m \in S, \A x \in S : m <= x
  PROVE  Min(S) = m
<1>1. Min(S) \in S /\ \A x \in S : Min(S) <= x
  BY Zenon DEF Min
<1>2. Min(S) \in Int /\ m \in Int /\ Min(S) <= m /\ m <= Min(S)
  BY <1>1
<1> QED
  BY <1>2

LEMMA GreatestOf ==
  ASSUME NEW S \in SUBSET Int, NEW m \in S, \A x \in S : m >= x
  PROVE  Max(S) = m
<1>1. Max(S) \in S /\ \A x \in S : Max(S) >= x
  BY Zenon DEF Max
<1>2. Max(S) \in Int /\ m \in Int /\ Max(S) >= m /\ m >= Max(S)
  BY <1>1
<1> QED
  BY <1>2

LEMMA MinOfTwo ==
  ASSUME NEW a \in Int, NEW b \in Int
  PROVE  Min({a, b}) = IF a <= b THEN a ELSE b
<1>1. CASE a <= b
  BY <1>1, LeastOf, {a, b} \in SUBSET Int
<1>2. CASE ~(a <= b)
  BY <1>2, LeastOf, {a, b} \in SUBSET Int
<1> QED
  BY <1>1, <1>2

LEMMA MaxOfTwo ==
  ASSUME NEW a \in Int, NEW b \in Int
  PROVE  Max({a, b}) = IF a >= b THEN a ELSE b
<1>1. CASE a >= b
  BY <1>1, GreatestOf, {a, b} \in SUBSET Int
<1>2. CASE ~(a >= b)
  BY <1>2, GreatestOf, {a, b} \in SUBSET Int
<1> QED
  BY <1>1, <1>2

LEMMA MinOfThree ==
  ASSUME NEW a \in Int, NEW b \in Int, NEW c \in Int
  PROVE  /\ Min({a, b, c}) \in {a, b, c}
         /\ Min({a, b, c}) <= a /\ Min({a, b, c}) <= b /\ Min({a, b, c}) <= c
<1>1. \E m \in {a, b, c} : \A x \in {a, b, c} : m <= x
  OBVIOUS
<1>2. PICK m \in {a, b, c} : \A x \in {a, b, c} : m <= x
  BY <1>1
<1>3. Min({a, b, c}) = m
  BY <1>2, LeastOf, {a, b, c} \in SUBSET Int
<1> QED
  BY <1>2, <1>3

LEMMA LeastExists ==
  ASSUME NEW S \in SUBSET Nat, S # {}
  PROVE  Min(S) \in S /\ \A x \in S : Min(S) <= x
<1> DEFINE R == OpToRel(<, Nat)
<1>1. IsWellFoundedOn(R, Nat)
  BY NatLessThanWellFounded
<1> HIDE DEF R
<1>2. PICK m \in S : \A y \in S : ~(<<y, m>> \in R)
  BY <1>1, WFMin
<1>3. \A y \in S : y < m => <<y, m>> \in R
  BY DEF R, OpToRel
<1>4. \A y \in S : y \in Nat /\ m \in Nat /\ ~(y < m)
  BY <1>2, <1>3
<1>5. \A y \in S : m <= y
  BY <1>4
<1>6. Min(S) = m
  BY <1>5, LeastOf, S \in SUBSET Int
<1> QED
  BY <1>5, <1>6

LEMMA GreatestExists ==
  ASSUME NEW n \in Nat, NEW S \in SUBSET (1..n), S # {}
  PROVE  Max(S) \in S /\ \A x \in S : Max(S) >= x
<1> DEFINE D == {n - x : x \in S}
<1>1. D \in SUBSET Nat /\ D # {}
  OBVIOUS
<1>2. Min(D) \in D /\ \A d \in D : Min(D) <= d
  BY <1>1, LeastExists
<1>3. PICK m \in S : Min(D) = n - m
  BY <1>2
<1>4. \A x \in S : n - x \in D
  OBVIOUS
<1>5. \A x \in S : m >= x
  <2>1. \A x \in S : n - m <= n - x
    BY <1>2, <1>3, <1>4
  <2>2. \A x \in S : x \in Int /\ m \in Int
    OBVIOUS
  <2> QED
    BY <2>1, <2>2
<1>6. Max(S) = m
  BY <1>5, GreatestOf, S \in SUBSET Int
<1> QED
  BY <1>5, <1>6

-----------------------------------------------------------------------------
(* Arrangements *)

Orders(before, S) ==
    /\ \A x \in S : <<x, x>> \notin before
    /\ \A x, y, z \in S : <<x, y>> \in before /\ <<y, z>> \in before => <<x, z>> \in before
    /\ \A x, y \in S : x = y \/ <<x, y>> \in before \/ <<y, x>> \in before

\* A finite set arranged in an order is a list of its elements, each of them once, the
\* earlier ones first.
LEMMA ArrangedFacts ==
  ASSUME NEW S, IsFiniteSet(S), NEW before, Orders(before, S)
  PROVE  LET n == Cardinality(S)
             arranged == Arranged(S, before)
         IN /\ n \in Nat /\ arranged \in [1..n -> S]
            /\ \A x \in S : \E k \in 1..n : arranged[k] = x
            /\ \A i, j \in 1..n : i < j => <<arranged[i], arranged[j]>> \in before
<1> DEFINE n == Cardinality(S)
           arranged == Arranged(S, before)
           earlier(x) == {y \in S : <<y, x>> \in before}
           rank(x) == Cardinality(earlier(x))
           place == [x \in S |-> rank(x) + 1]
<1>1. n \in Nat
  BY FS_CardinalityType
<1>2. \A x \in S : earlier(x) \in SUBSET S /\ x \notin earlier(x)
  BY DEF Orders
<1>3. \A x, y \in S : <<x, y>> \in before => earlier(x) \cup {x} \subseteq earlier(y)
  BY DEF Orders
<1> HIDE DEF earlier
<1>4. ASSUME NEW T \in SUBSET S, NEW x \in S, earlier(x) \cup {x} \subseteq T
      PROVE  rank(x) \in Nat /\ Cardinality(T) \in Nat /\ rank(x) < Cardinality(T)
  <2>1. IsFiniteSet(earlier(x)) /\ IsFiniteSet(T)
    BY <1>2, FS_Subset
  <2>2. rank(x) \in Nat /\ Cardinality(T) \in Nat
    BY <2>1, FS_CardinalityType
  <2>3. Cardinality(earlier(x) \cup {x}) = rank(x) + 1
    BY <1>2, <2>1, FS_AddElement
  <2>4. Cardinality(earlier(x) \cup {x}) <= Cardinality(T)
    BY <1>4, <2>1, FS_Subset
  <2> QED
    BY <2>2, <2>3, <2>4
<1>5. \A x \in S : rank(x) \in Nat /\ rank(x) < n
  <2> SUFFICES ASSUME NEW x \in S PROVE rank(x) \in Nat /\ rank(x) < n
    OBVIOUS
  <2>1. earlier(x) \cup {x} \subseteq S
    BY <1>2
  <2> QED
    BY <1>4, <2>1, S \in SUBSET S
<1>6. \A x, y \in S : <<x, y>> \in before => rank(x) < rank(y)
  <2> SUFFICES ASSUME NEW x \in S, NEW y \in S, <<x, y>> \in before
               PROVE  rank(x) < rank(y)
    OBVIOUS
  <2>1. earlier(x) \cup {x} \subseteq earlier(y) /\ earlier(y) \in SUBSET S
    BY <1>2, <1>3
  <2> QED
    BY <1>4, <2>1
<1>7. arranged = [k \in 1..n |-> CHOOSE x \in S : rank(x) = k - 1]
  BY DEF Arranged, earlier
<1> HIDE DEF rank, n, arranged
<1>8. \A x, y \in S : rank(x) = rank(y) => x = y
  <2> SUFFICES ASSUME NEW x \in S, NEW y \in S, x # y PROVE rank(x) # rank(y)
    OBVIOUS
  <2>1. <<x, y>> \in before \/ <<y, x>> \in before
    BY DEF Orders
  <2>2. rank(x) < rank(y) \/ rank(y) < rank(x)
    BY <1>6, <2>1
  <2> QED
    BY <1>5, <2>2
<1>9. place \in Injection(S, 1..n)
  <2>1. \A x \in S : place[x] = rank(x) + 1 /\ rank(x) + 1 \in 1..n
    BY <1>1, <1>5
  <2>2. place \in [S -> 1..n]
    BY <2>1
  <2>3. \A x, y \in S : place[x] = place[y] => x = y
    BY <1>5, <1>8, <2>1
  <2> HIDE DEF place
  <2> QED
    BY <2>2, <2>3 DEF Injection, IsInjective
<1>10. place \in Surjection(S, 1..n)
  <2>1. IsFiniteSet(1..n) /\ Cardinality(1..n) = n
    BY <1>1, FS_Interval, 1 \in Int, n \in Int
  <2> HIDE DEF place
  <2> QED
    BY <1>9, <2>1, FS_Injection DEF n
<1>11. \A k \in 1..n : \E x \in S : rank(x) = k - 1
  <2> SUFFICES ASSUME NEW k \in 1..n PROVE \E x \in S : rank(x) = k - 1
    OBVIOUS
  <2>1. PICK x \in S : place[x] = k
    BY <1>10 DEF Surjection
  <2> QED
    BY <1>1, <1>5, <2>1
<1>12. \A k \in 1..n : arranged[k] \in S /\ rank(arranged[k]) = k - 1
  BY <1>7, <1>11
<1>13. arranged \in [1..n -> S]
  BY <1>7, <1>11
<1>14. ASSUME NEW x \in S
       PROVE  \E k \in 1..n : arranged[k] = x
  <2>1. rank(x) + 1 \in 1..n /\ (rank(x) + 1) - 1 = rank(x)
    BY <1>1, <1>5
  <2> QED
    BY <1>8, <1>12, <2>1
<1>15. ASSUME NEW i \in 1..n, NEW j \in 1..n, i < j
       PROVE  <<arranged[i], arranged[j]>> \in before
  <2>1. rank(arranged[i]) = i - 1 /\ rank(arranged[j]) = j - 1
    BY <1>12
  <2>2. arranged[i] # arranged[j] /\ ~(rank(arranged[j]) < rank(arranged[i]))
    BY <1>1, <1>15, <2>1
  <2> QED
    BY <1>6, <1>12, <2>2 DEF Orders
<1>16. /\ n \in Nat /\ arranged \in [1..n -> S]
       /\ \A x \in S : \E k \in 1..n : arranged[k] = x
       /\ \A i, j \in 1..n : i < j => <<arranged[i], arranged[j]>> \in before
  BY <1>1, <1>13, <1>14, <1>15
<1> QED
  BY <1>16, Zenon DEF n, arranged

LEMMA BelowOrders ==
  ASSUME NEW S \in SUBSET Int
  PROVE  Orders(Below(S), S)
<1>1. \A x, y \in S : <<x, y>> \in Below(S) <=> x < y
  BY DEF Below
<1> QED
  BY <1>1 DEF Orders

\* The list some holds the rows at the positions, each position once, in the order given.
Lists(some, lines, positions, before) ==
    \E at \in [1..Len(some) -> positions] :
        /\ \A k \in 1..Len(some) : some[k] = lines[at[k]]
        /\ \A p \in positions : \E k \in 1..Len(some) : at[k] = p
        /\ \A j, k \in 1..Len(some) : j < k => <<at[j], at[k]>> \in before

LEMMA RowsAtFacts ==
  ASSUME NEW T, NEW lines, NEW positions, IsFiniteSet(positions),
         \A p \in positions : lines[p] \in T,
         NEW before, Orders(before, positions)
  PROVE  /\ RowsAt(lines, positions, before) \in Seq(T)
         /\ Lists(RowsAt(lines, positions, before), lines, positions, before)
<1> DEFINE n == Cardinality(positions)
           at == Arranged(positions, before)
           some == RowsAt(lines, positions, before)
<1>1. /\ n \in Nat /\ at \in [1..n -> positions]
      /\ \A p \in positions : \E k \in 1..n : at[k] = p
      /\ \A j, k \in 1..n : j < k => <<at[j], at[k]>> \in before
  BY ArrangedFacts
<1>2. some = [k \in 1..n |-> lines[at[k]]]
  BY DEF RowsAt
<1> HIDE DEF n, at, some
<1>3. \A k \in 1..n : some[k] = lines[at[k]] /\ lines[at[k]] \in T
  BY <1>1, <1>2
<1>4. some \in Seq(T) /\ Len(some) = n
  BY <1>1, <1>2, <1>3
<1>5. Lists(some, lines, positions, before)
  BY <1>1, <1>3, <1>4, Zenon DEF Lists
<1> QED
  BY <1>4, <1>5 DEF some

LEMMA FilteredFacts ==
  ASSUME NEW T, NEW lines, NEW m \in Nat, NEW positions \in SUBSET (1..m),
         \A p \in positions : lines[p] \in T
  PROVE  /\ Filtered(lines, positions) \in Seq(T)
         /\ Lists(Filtered(lines, positions), lines, positions, Below(positions))
<1>1. IsFiniteSet(positions)
  BY FS_Interval, FS_Subset, 1 \in Int, m \in Int
<1>2. Orders(Below(positions), positions)
  BY BelowOrders, positions \in SUBSET Int
<1> QED
  BY <1>1, <1>2, RowsAtFacts DEF Filtered

\* The least number at which something first goes wrong.
LEMMA FirstFailure ==
  ASSUME NEW N \in Nat, NEW good \in SUBSET (0..N), 0 \in good,
         \A n \in 1..N : n - 1 \in good => n \in good
  PROVE  good = 0..N
<1> DEFINE bad == (0..N) \ good
<1> SUFFICES ASSUME bad # {} PROVE FALSE
  OBVIOUS
<1>1. bad \in SUBSET Nat
  OBVIOUS
<1>2. PICK m \in bad : \A x \in bad : m <= x
  BY <1>1, LeastExists
<1>3. m # 0 /\ m \in 0..N
  OBVIOUS
<1>4. m \in 1..N /\ m - 1 \in 0..N /\ ~(m <= m - 1)
  BY <1>3
<1>5. m - 1 \in good
  BY <1>2, <1>4
<1> QED
  BY <1>4, <1>5

\* A list of steps can be taken one after the other.
Turns(T, N) == [1..N -> [T -> T]]
Iterates(f, T, N, start, step) ==
    /\ f \in [0..N -> T]
    /\ f[0] = start
    /\ \A n \in 1..N : f[n] = step[n][f[n - 1]]

LEMMA IterationExists ==
  ASSUME NEW T, NEW N \in Nat, NEW start \in T, NEW step \in Turns(T, N)
  PROVE  \E f : Iterates(f, T, N, start, step)
<1> USE DEF Turns
<1> DEFINE upTo(m, g) == Iterates(g, T, m, start, step)
           good == {m \in 0..N : \E g : upTo(m, g)}
<1>1. 0 \in good
  <2> DEFINE g == [i \in 0..0 |-> start]
  <2>1. g \in [0..0 -> T] /\ g[0] = start /\ 1..0 = {}
    OBVIOUS
  <2> HIDE DEF g
  <2>2. upTo(0, g)
    BY <2>1 DEF Iterates
  <2> QED
    BY <2>1, <2>2, 0 \in 0..N
<1>2. ASSUME NEW n \in 1..N, n - 1 \in good
      PROVE  n \in good
  <2>1. PICK g : /\ g \in [0..(n - 1) -> T]
                 /\ g[0] = start
                 /\ \A i \in 1..(n - 1) : g[i] = step[i][g[i - 1]]
    BY <1>2 DEF Iterates
  <2> DEFINE h == [i \in 0..n |-> IF i = n THEN step[n][g[n - 1]] ELSE g[i]]
  <2>2. \A i \in 0..n : i # n => i \in 0..(n - 1)
    OBVIOUS
  <2>3. step[n][g[n - 1]] \in T
    <3>1. step[n] \in [T -> T] /\ g[n - 1] \in T
      BY <2>1
    <3> QED
      BY <3>1
  <2>4. h \in [0..n -> T]
    BY <2>1, <2>2, <2>3
  <2>5. h[0] = start
    BY <2>1, 0 # n, 0 \in 0..n
  <2>6. ASSUME NEW i \in 1..n
        PROVE  h[i] = step[i][h[i - 1]]
    <3>1. h[i - 1] = g[i - 1]
      BY i - 1 # n, i - 1 \in 0..n
    <3>2. CASE i = n
      BY <3>1, <3>2
    <3>3. CASE i # n
      BY <2>1, <3>1, <3>3, i \in 1..(n - 1)
    <3> QED
      BY <3>2, <3>3
  <2> HIDE DEF h
  <2>7. upTo(n, h)
    BY <2>4, <2>5, <2>6 DEF Iterates
  <2> QED
    BY <2>4, <2>7, n \in 0..N
<1>3. good = 0..N
  <2>1. good \in SUBSET (0..N)
    OBVIOUS
  <2> HIDE DEF good
  <2> QED
    BY <1>1, <1>2, <2>1, FirstFailure
<1> QED
  BY <1>3, N \in 0..N

-----------------------------------------------------------------------------
(* Listings *)

\* The listing of a stored region is marked truncated exactly when code follows it,
\* whatever the size of the region, the offset, the count and the limit
\* (memory/inspection.py).
THEOREM RegionsHonest ==
  ASSUME NEW n \in Nat, NEW offset \in Int, NEW count \in Int, NEW limit \in Nat \ {0}
  PROVE  RegionHonest(n, offset, count, limit)
<1> DEFINE listed == Min({count, limit, n - offset})
<1>1. CASE offset < 0 \/ offset > n \/ count < 1
  BY <1>1 DEF RegionHonest, DisassembleRegion, IsError, Error
<1>2. CASE ~(offset < 0 \/ offset > n \/ count < 1)
  <2>1. DisassembleRegion(n, offset, count, limit)
          = [from |-> offset, listed |-> listed,
             truncated |-> listed > 0 /\ offset + listed < n /\ listed >= Min({count, limit})]
    BY <1>2 DEF DisassembleRegion
  <2>2. /\ listed \in {count, limit, n - offset}
        /\ listed <= count /\ listed <= limit /\ listed <= n - offset
    <3>1. count \in Int /\ limit \in Int /\ n - offset \in Int
      OBVIOUS
    <3> QED
      BY <3>1, MinOfThree
  <2>3. Min({count, limit}) = IF count <= limit THEN count ELSE limit
    BY MinOfTwo
  <2> HIDE DEF listed
  <2>4. (listed > 0 /\ offset + listed < n /\ listed >= Min({count, limit}))
          <=> offset + listed < n
    BY <1>2, <2>2, <2>3
  <2>5. /\ DisassembleRegion(n, offset, count, limit).listed = listed
        /\ DisassembleRegion(n, offset, count, limit).truncated
             = (listed > 0 /\ offset + listed < n /\ listed >= Min({count, limit}))
    BY <2>1
  <2> QED
    BY <2>4, <2>5, Zenon DEF RegionHonest
<1> QED
  BY <1>1, <1>2

\* What a sweep is asked: sections with no more bytes in the file than their size, and an
\* address and a count that are given or not.
CodeSections ==
    {sections \in Seq([base : Nat, size : Nat, stored : Nat, code : BOOLEAN]) :
        \A i \in DOMAIN sections : sections[i].stored <= sections[i].size}
Optional(set) == {{}} \cup {{x} : x \in set}

LEMMA GivenValue ==
  ASSUME NEW given \in Optional(Int), given # {}
  PROVE  Min(given) \in Int /\ given = {Min(given)}
<1>1. PICK a \in Int : given = {a}
  BY DEF Optional
<1>2. Min(given) = a
  BY <1>1, LeastOf, given \in SUBSET Int, a \in given, \A x \in given : a <= x
<1> QED
  BY <1>1, <1>2

LEMMA SectionFacts ==
  ASSUME NEW sections \in CodeSections, NEW i \in DOMAIN sections
  PROVE  /\ sections[i] \in [base : Nat, size : Nat, stored : Nat, code : BOOLEAN]
         /\ sections[i].stored <= sections[i].size
<1> DEFINE S == [base : Nat, size : Nat, stored : Nat, code : BOOLEAN]
<1>1. sections \in Seq(S)
  BY DEF CodeSections
<1> HIDE DEF S
<1>2. sections[i] \in S
  BY <1>1
<1> QED
  BY <1>2 DEF CodeSections, S

\* The section chosen is one of the sections that hold code.
LEMMA SectionChosen ==
  ASSUME NEW sections \in CodeSections, NEW target \in Int,
         CodeSection(sections, target) # {}
  PROVE  \E i \in DOMAIN sections :
            sections[i].code /\ CodeSection(sections, target) = {sections[i]}
<1> DEFINE holding == {i \in DOMAIN sections : sections[i].code /\ InSection(sections[i], target)}
           nonempty == {i \in DOMAIN sections : sections[i].code /\ sections[i].size > 0}
<1>1. holding \in SUBSET Nat /\ nonempty \in SUBSET Nat
  BY DEF CodeSections
<1>2. CASE holding # {}
  <2>1. CodeSection(sections, target) = {sections[Min(holding)]}
    BY <1>2 DEF CodeSection
  <2>2. Min(holding) \in holding
    BY <1>1, <1>2, LeastExists
  <2> QED
    BY <2>1, <2>2
<1>3. CASE holding = {} /\ nonempty # {}
  <2>1. CodeSection(sections, target) = {sections[Min(nonempty)]}
    BY <1>3 DEF CodeSection
  <2>2. Min(nonempty) \in nonempty
    BY <1>1, <1>3, LeastExists
  <2> QED
    BY <2>1, <2>2
<1>4. CASE holding = {} /\ nonempty = {}
  BY <1>4 DEF CodeSection
<1> QED
  BY <1>2, <1>3, <1>4

\* A disassembly that is not marked truncated shows the code up to the end of the
\* section, a marked one has no room for more, and the code shown belongs to a code
\* section, whatever the sections, the entry, the address, the count and the limit
\* (disassembler/disassembler.py).
THEOREM DisassembliesHonest ==
  ASSUME NEW sections \in CodeSections, NEW entry \in Nat,
         NEW address \in Optional(Nat), NEW count \in Optional(Int),
         NEW limit \in Nat \ {0}
  PROVE  DisassemblyHonest(sections, entry, address, count, limit)
<1> DEFINE target == IF address # {} THEN Min(address) ELSE entry
           chosen == CodeSection(sections, target)
           s == CHOOSE x \in chosen : TRUE
           start == StartAddress(s, entry, address)
           available == s.base + s.stored - start
           bound == ListingLimit(count, limit)
           shown == Min({bound, available})
           listing == Disassemble(sections, entry, address, count, limit)
<1>1. address \in Optional(Int)
  BY DEF Optional
<1>2. target \in Int
  BY <1>1, GivenValue
<1>3. CASE chosen = {} \/ available <= 0
  BY <1>3 DEF DisassemblyHonest, Disassemble, IsError, Error
<1>4. CASE ~(chosen = {} \/ available <= 0)
  <2>1. listing = [from |-> start, listed |-> shown, available |-> available,
                   truncated |-> shown >= bound]
    BY <1>4 DEF Disassemble
  <2>2. PICK i \in DOMAIN sections : sections[i].code /\ chosen = {sections[i]}
    BY <1>2, <1>4, SectionChosen
  <2>3. s = sections[i]
    BY <2>2
  <2>4. sections[i] \in [base : Nat, size : Nat, stored : Nat, code : BOOLEAN]
        /\ sections[i].stored <= sections[i].size
    BY SectionFacts
  <2>5. s.base \in Nat /\ s.size \in Nat /\ s.stored \in Nat /\ s.stored <= s.size
    BY <2>3, <2>4
  <2> HIDE DEF s
  <2>6. start \in Int /\ (InSection(s, start) \/ start = s.base)
    <3> DEFINE wanted == IF address # {} THEN Min(address) ELSE Max({entry, s.base})
    <3>1. wanted \in Int
      BY <1>1, <2>5, GivenValue, MaxOfTwo
    <3> QED
      BY <2>5, <3>1 DEF StartAddress
  <2>7. bound \in Int
    <3>1. CASE count = {}
      BY <3>1 DEF ListingLimit
    <3>2. CASE count # {}
      <4>1. Min(count) \in Int
        BY <3>2, GivenValue
      <4>2. Max({Min(count), 0}) \in Int
        BY <4>1, MaxOfTwo
      <4>3. Min({limit, Max({Min(count), 0})}) \in Int
        BY <4>2, limit \in Int, MinOfTwo
      <4> QED
        BY <3>2, <4>3 DEF ListingLimit
    <3> QED
      BY <3>1, <3>2
  <2> HIDE DEF start, bound
  <2>8. available \in Int /\ available > 0
    BY <1>4, <2>5, <2>6
  <2>9. shown = IF bound <= available THEN bound ELSE available
    BY <2>7, <2>8, MinOfTwo
  <2>10. InSection(s, start)
    BY <2>5, <2>6, <2>8 DEF InSection
  <2> HIDE DEF available, shown
  <2>11. /\ ~(shown >= bound) => shown = available
         /\ shown >= bound => shown < available \/ available = bound
    BY <2>7, <2>8, <2>9
  <2>12. /\ listing.from = start /\ listing.listed = shown /\ listing.available = available
         /\ listing.truncated = (shown >= bound)
    BY <2>1
  <2> HIDE DEF listing
  <2>13. sections[i].code /\ InSection(sections[i], listing.from)
    BY <2>2, <2>3, <2>10, <2>12
  <2>14. /\ ~listing.truncated => listing.listed = listing.available
         /\ listing.truncated =>
              \/ listing.listed < listing.available
              \/ listing.available = ListingLimit(count, limit)
    BY <2>11, <2>12, Zenon DEF bound
  <2> QED
    BY <2>13, <2>14, Zenon DEF DisassemblyHonest, listing
<1> QED
  BY <1>3, <1>4

-----------------------------------------------------------------------------
(* Hex dumps *)

Shows(row, b) == row.offset <= b /\ b < row.offset + row.size

LEMMA HexPageFields ==
  ASSUME NEW n \in Nat, NEW offset \in Nat, NEW length \in Nat \ {0}
  PROVE  LET start == IF offset <= n THEN offset ELSE n
             end == IF start + length <= n THEN start + length ELSE n
             page == HexPage(n, offset, length)
             count == (end - start + 15) \div 16
         IN /\ DOMAIN page.rows = 1..count
            /\ \A i \in 1..count :
                 /\ page.rows[i].offset = start + 16 * (i - 1)
                 /\ page.rows[i].size = IF 16 <= end - start - 16 * (i - 1) THEN 16
                                        ELSE end - start - 16 * (i - 1)
<1> DEFINE start == IF offset <= n THEN offset ELSE n
           end == IF start + length <= n THEN start + length ELSE n
           count == (end - start + 15) \div 16
           size(i) == IF 16 <= end - start - 16 * (i - 1) THEN 16
                      ELSE end - start - 16 * (i - 1)
           page == HexPage(n, offset, length)
           lines == [i \in 1..count |->
                      [offset |-> start + 16 * (i - 1),
                       size |-> Min({16, end - start - 16 * (i - 1)})]]
<1>1. Min({offset, n}) = start
  BY MinOfTwo
<1>2. start \in Int /\ start + length \in Int
  OBVIOUS
<1> HIDE DEF start
<1>3. Min({start + length, n}) = end
  BY <1>2, MinOfTwo
<1>4. end \in Int /\ ~(offset < 0 \/ length <= 0)
  BY <1>2
<1> HIDE DEF end
<1>5. (end - start + RowSize - 1) \div RowSize = count
  BY <1>2, <1>4 DEF RowSize
<1>6. count \in Int
  BY <1>2, <1>4
<1> HIDE DEF count
<1>7. page.rows = lines
  BY <1>1, <1>3, <1>4, <1>5 DEF HexPage, RowSize
<1> HIDE DEF page
<1>8. ASSUME NEW i \in 1..count
      PROVE  Min({16, end - start - 16 * (i - 1)}) = size(i)
  <2>1. count \in Int /\ end - start - 16 * (i - 1) \in Int
    BY <1>2, <1>4, <1>6
  <2> QED
    BY <2>1, MinOfTwo
<1>9. /\ DOMAIN page.rows = 1..count
      /\ \A i \in 1..count : /\ page.rows[i].offset = start + 16 * (i - 1)
                             /\ page.rows[i].size = size(i)
  BY <1>7, <1>8
<1> QED
  BY <1>9, Zenon DEF start, end, count, page

\* The rows of a page are its bytes: each byte of the page is in exactly one row, and no
\* row holds another byte.
LEMMA RowsTilePage ==
  ASSUME NEW n \in Nat, NEW offset \in Nat, NEW length \in Nat \ {0}, NEW b \in Nat
  PROVE  LET lines == HexPage(n, offset, length).rows IN
         /\ (\E i \in DOMAIN lines : Shows(lines[i], b))
              <=> offset <= b /\ b < offset + length /\ b < n
         /\ \A i, j \in DOMAIN lines : Shows(lines[i], b) /\ Shows(lines[j], b) => i = j
<1> DEFINE start == IF offset <= n THEN offset ELSE n
           end == IF start + length <= n THEN start + length ELSE n
           lines == HexPage(n, offset, length).rows
           count == (end - start + 15) \div 16
           at == (b - start) \div 16 + 1
<1>1. /\ DOMAIN lines = 1..count
      /\ \A i \in 1..count :
           /\ lines[i].offset = start + 16 * (i - 1)
           /\ lines[i].size = IF 16 <= end - start - 16 * (i - 1) THEN 16
                             ELSE end - start - 16 * (i - 1)
  BY HexPageFields
<1>2. /\ start \in Nat /\ end \in Nat /\ start <= end
      /\ start <= b /\ b < end <=> offset <= b /\ b < offset + length /\ b < n
  OBVIOUS
<1>3. count \in Nat /\ 16 * count >= end - start /\ 16 * count < end - start + 16
  BY <1>2
<1> HIDE DEF lines, start, end, count
<1>4. ASSUME NEW i \in 1..count, Shows(lines[i], b)
      PROVE  /\ start + 16 * (i - 1) <= b /\ b < start + 16 * i
             /\ start <= b /\ b < end
  <2>1. lines[i].offset = start + 16 * (i - 1)
        /\ lines[i].size = IF 16 <= end - start - 16 * (i - 1) THEN 16
                          ELSE end - start - 16 * (i - 1)
    BY <1>1
  <2>2. i \in Nat /\ i >= 1
    BY <1>3
  <2>3. lines[i].size \in Int /\ lines[i].size <= 16
        /\ lines[i].size <= end - start - 16 * (i - 1)
    BY <1>2, <2>1, <2>2
  <2>4. start + 16 * (i - 1) <= b /\ b < start + 16 * (i - 1) + lines[i].size
    BY <1>4, <2>1 DEF Shows
  <2> QED
    BY <1>2, <2>2, <2>3, <2>4
<1>5. ASSUME start <= b, b < end
      PROVE  \E i \in 1..count : Shows(lines[i], b)
  <2>1. at \in Int /\ start + 16 * (at - 1) <= b /\ b < start + 16 * at
    BY <1>2, <1>5
  <2> HIDE DEF at
  <2>2. at \in 1..count
    BY <1>2, <1>3, <1>5, <2>1
  <2>3. Shows(lines[at], b)
    BY <1>1, <1>2, <1>5, <2>1, <2>2 DEF Shows
  <2> QED
    BY <2>2, <2>3
<1>6. ASSUME NEW i \in 1..count, NEW j \in 1..count, Shows(lines[i], b), Shows(lines[j], b)
      PROVE  i = j
  <2>1. start + 16 * (i - 1) <= b /\ b < start + 16 * i
    BY <1>4, <1>6
  <2>2. start + 16 * (j - 1) <= b /\ b < start + 16 * j
    BY <1>4, <1>6
  <2> QED
    BY <1>2, <1>3, <2>1, <2>2
<1>7. /\ (\E i \in DOMAIN lines : Shows(lines[i], b))
           <=> offset <= b /\ b < offset + length /\ b < n
      /\ \A i, j \in DOMAIN lines : Shows(lines[i], b) /\ Shows(lines[j], b) => i = j
  BY <1>1, <1>2, <1>4, <1>5, <1>6
<1> QED
  BY <1>7, Zenon DEF lines

LEMMA PageOf ==
  ASSUME NEW b \in Nat, NEW length \in Nat \ {0}
  PROVE  /\ b \div length \in Nat
         /\ length * (b \div length) <= b /\ b < length * (b \div length) + length
OBVIOUS

LEMMA OnePage ==
  ASSUME NEW b \in Nat, NEW length \in Nat \ {0}, NEW k \in Nat, NEW m \in Nat,
         length * k <= b, b < length * k + length,
         length * m <= b, b < length * m + length
  PROVE  k = m
<1>1. ASSUME NEW x \in Nat, NEW y \in Nat, x < y
      PROVE  length * x + length <= length * y
  BY <1>1
<1> QED
  BY <1>1

\* Pages one after the other show every byte once, in one row of one page, whatever the
\* size of the file and of the page (analyzer/hexdump.py).
THEOREM EveryByteShownOnce ==
  ASSUME NEW n \in Nat, NEW length \in Nat \ {0}, NEW b \in 0..(n - 1)
  PROVE  LET lines(k) == HexPage(n, length * k, length).rows IN
         \E k \in Nat : \E i \in DOMAIN lines(k) :
            /\ Shows(lines(k)[i], b)
            /\ \A m \in Nat : \A j \in DOMAIN lines(m) :
                  Shows(lines(m)[j], b) => m = k /\ j = i
<1> DEFINE lines(k) == HexPage(n, length * k, length).rows
           k == b \div length
<1>1. /\ k \in Nat /\ length * k <= b /\ b < length * k + length
  BY PageOf
<1> HIDE DEF k
<1>2. \A m \in Nat : length * m \in Nat
  OBVIOUS
<1>3. \A m \in Nat :
        /\ (\E i \in DOMAIN lines(m) : Shows(lines(m)[i], b))
             <=> length * m <= b /\ b < length * m + length /\ b < n
        /\ \A i, j \in DOMAIN lines(m) : Shows(lines(m)[i], b) /\ Shows(lines(m)[j], b) => i = j
  BY <1>2, RowsTilePage
<1> HIDE DEF lines
<1>4. b < n
  OBVIOUS
<1>5. PICK i \in DOMAIN lines(k) : Shows(lines(k)[i], b)
  BY <1>1, <1>3, <1>4
<1>6. ASSUME NEW m \in Nat, NEW j \in DOMAIN lines(m), Shows(lines(m)[j], b)
      PROVE  m = k /\ j = i
  <2>1. length * m <= b /\ b < length * m + length
    BY <1>3, <1>6
  <2>2. m = k
    BY <1>1, <2>1, OnePage
  <2> QED
    BY <1>1, <1>3, <1>5, <1>6, <2>2
<1> QED
  BY <1>1, <1>5, <1>6 DEF lines

-----------------------------------------------------------------------------
(* Pages and reports *)

\* The length of a page that starts after f of n items.
PageLength(f, n, limit) == IF f + limit <= n THEN limit ELSE IF f <= n THEN n - f ELSE 0

LEMMA SliceFacts ==
  ASSUME NEW T, NEW elements \in Seq(T), NEW offset \in Nat, NEW limit \in Nat
  PROVE  /\ Len(Slice(elements, offset, limit)) = PageLength(offset, Len(elements), limit)
         /\ DOMAIN Slice(elements, offset, limit) = 1..Len(Slice(elements, offset, limit))
         /\ \A i \in DOMAIN Slice(elements, offset, limit) :
              Slice(elements, offset, limit)[i] = elements[offset + i]
<1> DEFINE last == IF offset + limit <= Len(elements) THEN offset + limit ELSE Len(elements)
<1>1. Len(elements) \in Nat /\ offset + limit \in Int
  OBVIOUS
<1>2. Min({offset + limit, Len(elements)}) = last
  BY <1>1, MinOfTwo
<1>3. Slice(elements, offset, limit) = SubSeq(elements, offset + 1, last)
  BY <1>2 DEF Slice
<1>4. last \in Nat /\ last <= Len(elements)
  BY <1>1
<1>5. SubSeq(elements, offset + 1, last) = [i \in 1..(last - offset) |-> elements[offset + i]]
  BY <1>4
<1>6. Len(SubSeq(elements, offset + 1, last)) = IF offset <= last THEN last - offset ELSE 0
  BY <1>4
<1>7. DOMAIN SubSeq(elements, offset + 1, last) = 1..Len(SubSeq(elements, offset + 1, last))
  BY <1>4
<1> QED
  BY <1>1, <1>3, <1>5, <1>6, <1>7 DEF PageLength

LEMMA PageBounds ==
  ASSUME NEW f \in Nat, NEW n \in Nat, NEW limit \in Nat
  PROVE  LET len == PageLength(f, n, limit) IN
         /\ len \in Nat /\ len <= limit
         /\ \A p \in 1..len : p \in 1..limit /\ f + p \in 1..n
         /\ \A j \in 1..n : f <= j - 1 /\ j - 1 < f + limit => j - f \in 1..len
<1> DEFINE len == PageLength(f, n, limit)
<1>1. len \in Nat /\ len <= limit /\ (len > 0 => f + len <= n)
  BY DEF PageLength
<1> HIDE DEF len
<1>2. \A p \in 1..len : p \in 1..limit /\ f + p \in 1..n
  BY <1>1
<1>3. \A j \in 1..n : f <= j - 1 /\ j - 1 < f + limit => j - f \in 1..len
  BY DEF len, PageLength
<1> QED
  BY <1>1, <1>2, <1>3 DEF len

\* Pages one after the other show every item once, at its place, and no page is longer
\* than the limit, whatever the list and the limit (api/routes/memory.py).
THEOREM EveryItemOnOnePage ==
  ASSUME NEW T, NEW elements \in Seq(T), NEW limit \in Nat \ {0}, NEW j \in 1..Len(elements)
  PROVE  LET page(k) == Slice(elements, limit * k, limit) IN
         /\ \A k \in Nat : Len(page(k)) <= limit
         /\ \E k \in Nat : \E i \in DOMAIN page(k) :
              /\ page(k)[i] = elements[j] /\ limit * k + i = j
              /\ \A m \in Nat : \A p \in DOMAIN page(m) :
                    limit * m + p = j => m = k /\ p = i
         /\ \A k \in Nat : \A i \in DOMAIN page(k) :
              limit * k + i \in DOMAIN elements /\ page(k)[i] = elements[limit * k + i]
<1> DEFINE first(k) == limit * k
           page(k) == Slice(elements, limit * k, limit)
           k == (j - 1) \div limit
           i == j - first(k)
           n == Len(elements)
<1>1. k \in Nat /\ first(k) <= j - 1 /\ j - 1 < first(k) + limit
  BY PageOf
<1>2. n \in Nat /\ DOMAIN elements = 1..n /\ \A m \in Nat : first(m) \in Nat
  OBVIOUS
<1> HIDE DEF k
<1>3. \A m \in Nat :
        /\ Len(page(m)) = PageLength(first(m), n, limit)
        /\ DOMAIN page(m) = 1..Len(page(m))
        /\ \A p \in DOMAIN page(m) : page(m)[p] = elements[first(m) + p]
  <2> SUFFICES ASSUME NEW m \in Nat
               PROVE  /\ Len(page(m)) = PageLength(first(m), n, limit)
                      /\ DOMAIN page(m) = 1..Len(page(m))
                      /\ \A p \in DOMAIN page(m) : page(m)[p] = elements[first(m) + p]
    OBVIOUS
  <2>1. first(m) \in Nat /\ limit \in Nat
    BY <1>2
  <2>2. page(m) = Slice(elements, first(m), limit)
    OBVIOUS
  <2> HIDE DEF first, page
  <2> QED
    BY <2>1, <2>2, SliceFacts
<1>4. ASSUME NEW m \in Nat, first(m) <= j - 1, j - 1 < first(m) + limit
      PROVE  m = k
  BY <1>1, <1>4, j - 1 \in Nat, OnePage
<1> HIDE DEF page, first, n
<1>5. ASSUME NEW m \in Nat
      PROVE  /\ Len(page(m)) \in Nat /\ Len(page(m)) <= limit
             /\ \A p \in DOMAIN page(m) : p \in 1..limit /\ first(m) + p \in 1..n
  <2>1. first(m) \in Nat
    BY <1>2
  <2>2. Len(page(m)) = PageLength(first(m), n, limit)
    BY <1>3
  <2>3. /\ Len(page(m)) \in Nat /\ Len(page(m)) <= limit
        /\ \A p \in 1..Len(page(m)) : p \in 1..limit /\ first(m) + p \in 1..n
    <3> DEFINE f == first(m)
               len == PageLength(f, n, limit)
    <3>1. f \in Nat /\ n \in Nat /\ limit \in Nat
      BY <1>2
    <3> HIDE DEF f
    <3>2. /\ len \in Nat /\ len <= limit
          /\ \A p \in 1..len : p \in 1..limit /\ f + p \in 1..n
      BY <3>1, PageBounds
    <3> HIDE DEF len
    <3> QED
      BY <2>2, <3>2 DEF f, len
  <2> QED
    BY <1>3, <2>3
<1>6. i \in DOMAIN page(k) /\ first(k) + i = j
  <2>1. first(k) \in Nat /\ j \in 1..n
    BY <1>1, <1>2 DEF n
  <2>2. Len(page(k)) = PageLength(first(k), n, limit)
    BY <1>1, <1>3
  <2>3. j - first(k) \in 1..Len(page(k))
    BY <1>1, <1>2, <2>1, <2>2, limit \in Nat, PageBounds
  <2>4. first(k) + (j - first(k)) = j
    BY <2>1
  <2> QED
    BY <1>1, <1>3, <2>3, <2>4
<1>7. page(k)[i] = elements[j]
  BY <1>1, <1>3, <1>6
<1>8. ASSUME NEW m \in Nat, NEW p \in DOMAIN page(m), first(m) + p = j
      PROVE  m = k /\ p = i
  <2>1. p \in 1..limit /\ first(m) \in Nat
    BY <1>2, <1>5
  <2>2. first(m) <= j - 1 /\ j - 1 < first(m) + limit
    BY <1>8, <2>1
  <2>3. m = k
    BY <1>4, <2>2
  <2>4. p = j - first(m)
    BY <1>8, <2>1
  <2> QED
    BY <2>3, <2>4
<1>9. \E kk \in Nat : \E ii \in DOMAIN page(kk) :
        /\ page(kk)[ii] = elements[j] /\ first(kk) + ii = j
        /\ \A m \in Nat : \A p \in DOMAIN page(m) : first(m) + p = j => m = kk /\ p = ii
  BY <1>1, <1>6, <1>7, <1>8
<1>10. /\ \A m \in Nat : Len(page(m)) <= limit
       /\ \A m \in Nat : \A p \in DOMAIN page(m) :
            first(m) + p \in DOMAIN elements /\ page(m)[p] = elements[first(m) + p]
  BY <1>2, <1>3, <1>5
<1> QED
  BY <1>9, <1>10, Zenon DEF page, first

-----------------------------------------------------------------------------
(* Memory analyses *)

LEMMA FirstOfFacts ==
  ASSUME NEW T, NEW seq \in Seq(T), NEW n \in Nat
  PROVE  /\ Len(FirstOf(seq, n)) = IF n <= Len(seq) THEN n ELSE Len(seq)
         /\ DOMAIN FirstOf(seq, n) = 1..Len(FirstOf(seq, n))
         /\ \A i \in DOMAIN FirstOf(seq, n) : i \in DOMAIN seq /\ FirstOf(seq, n)[i] = seq[i]
<1> DEFINE last == IF n <= Len(seq) THEN n ELSE Len(seq)
<1>1. Len(seq) \in Nat /\ n \in Int
  OBVIOUS
<1>2. Min({n, Len(seq)}) = last
  BY <1>1, MinOfTwo
<1>3. FirstOf(seq, n) = SubSeq(seq, 1, last)
  BY <1>2 DEF FirstOf
<1>4. last \in Nat /\ last <= Len(seq)
  BY <1>1
<1> HIDE DEF last
<1>5. SubSeq(seq, 1, last) = [i \in 1..last |-> seq[i]]
  BY <1>1, <1>4
<1>6. Len(SubSeq(seq, 1, last)) = last
  BY <1>1, <1>4
<1>7. \A i \in 1..last : i \in DOMAIN seq
  BY <1>1, <1>4
<1> QED
  BY <1>3, <1>5, <1>6, <1>7 DEF last

\* The rows of a list in the order of their keys.
LEMMA InOrderOrders ==
  ASSUME NEW lines, NEW column, Len(lines) \in Nat, NEW S \in SUBSET (1..Len(lines)),
         \A i \in 1..Len(lines) : Key(lines[i], "pid") \in Int /\ Key(lines[i], column) \in Int
  PROVE  Orders(InOrder(lines, column), S)
<1> DEFINE a(i) == Key(lines[i], "pid")
           b(i) == Key(lines[i], column)
           less(i, j) == a(i) < a(j) \/ (a(i) = a(j) /\ b(i) < b(j))
           order == InOrder(lines, column)
<1>1. \A i, j \in S : <<i, j>> \in order <=> less(i, j) \/ (i < j /\ ~less(j, i))
  BY DEF InOrder, Before
<1>2. \A i \in S : i \in Int /\ a(i) \in Int /\ b(i) \in Int
  OBVIOUS
<1> HIDE DEF a, b, order
<1>3. \A x \in S : <<x, x>> \notin order
  BY <1>1, <1>2
<1>4. ASSUME NEW x \in S, NEW y \in S
      PROVE  x = y \/ <<x, y>> \in order \/ <<y, x>> \in order
  <2>1. /\ x \in Int /\ a(x) \in Int /\ b(x) \in Int
        /\ y \in Int /\ a(y) \in Int /\ b(y) \in Int
    BY <1>2
  <2>2. /\ <<x, y>> \in order <=> less(x, y) \/ (x < y /\ ~less(y, x))
        /\ <<y, x>> \in order <=> less(y, x) \/ (y < x /\ ~less(x, y))
    BY <1>1
  <2> HIDE DEF less
  <2>3. x = y \/ x < y \/ y < x
    BY <2>1
  <2> QED
    BY <2>2, <2>3
<1>5. ASSUME NEW x \in S, NEW y \in S, NEW z \in S,
             <<x, y>> \in order, <<y, z>> \in order
      PROVE  <<x, z>> \in order
  <2>1. /\ x \in Int /\ a(x) \in Int /\ b(x) \in Int
        /\ y \in Int /\ a(y) \in Int /\ b(y) \in Int
        /\ z \in Int /\ a(z) \in Int /\ b(z) \in Int
    BY <1>2
  <2>2. /\ less(x, y) \/ (x < y /\ ~less(y, x))
        /\ less(y, z) \/ (y < z /\ ~less(z, y))
        /\ <<x, z>> \in order <=> less(x, z) \/ (x < z /\ ~less(z, x))
    BY <1>1, <1>5
  <2>3. \A xi, ai, bi, yi, ay, by, zi, az, bz \in Int :
          LET before(i, ka, kb, j, la, lb) ==
                ka < la \/ (ka = la /\ kb < lb) \/ (i < j /\ ka = la /\ kb = lb)
          IN before(xi, ai, bi, yi, ay, by) /\ before(yi, ay, by, zi, az, bz)
               => before(xi, ai, bi, zi, az, bz)
    OBVIOUS
  <2>4. \A i, ka, kb, j, la, lb \in Int :
          (ka < la \/ (ka = la /\ kb < lb) \/ (i < j /\ ka = la /\ kb = lb))
            <=> \/ ka < la \/ (ka = la /\ kb < lb)
                \/ i < j /\ ~(la < ka \/ (la = ka /\ lb < kb))
    OBVIOUS
  <2> QED
    BY <2>1, <2>2, <2>3, <2>4
<1> QED
  BY <1>3, <1>4, <1>5 DEF Orders, order

\* What the binary search of memory/analyzer.py finds contains the address, whatever the
\* regions.
LEMMA BisectedContains ==
  ASSUME NEW regions, DOMAIN regions \in SUBSET Nat, NEW n \in Nat, DOMAIN regions = 1..n,
         NEW address, NEW i \in Bisected(regions, address)
  PROVE  /\ i \in DOMAIN regions
         /\ regions[i].start <= address /\ address <= regions[i].end
<1> DEFINE before == {k \in DOMAIN regions : regions[k].start <= address}
<1>1. before # {} /\ i = Max(before) /\ address <= regions[i].end
  BY DEF Bisected
<1>2. Max(before) \in before
  BY <1>1, GreatestExists, before \in SUBSET (1..n)
<1> QED
  BY <1>1, <1>2

\* For regions in the order of their starts that do not overlap, the binary search finds
\* exactly the regions that contain the address, however many there are
\* (memory/analyzer.py).
THEOREM BisectionExact ==
  ASSUME NEW R, NEW regions \in Seq(R), NEW address \in Nat, address # Unknown,
         \A i \in DOMAIN regions :
            /\ regions[i].start \in Nat /\ regions[i].end \in Nat
            /\ regions[i].start <= regions[i].end,
         \A i, j \in DOMAIN regions : i < j => regions[i].end < regions[j].start
  PROVE  Bisected(regions, address)
           = {i \in DOMAIN regions : regions[i].start <= address /\ address <= regions[i].end}
<1> DEFINE before == {k \in DOMAIN regions : regions[k].start <= address}
           n == Len(regions)
<1>1. DOMAIN regions = 1..n /\ n \in Nat
  OBVIOUS
<1>2. \A i \in DOMAIN regions : regions[i].start \in Nat /\ regions[i].end \in Nat
  OBVIOUS
<1> HIDE DEF n
<1>3. ASSUME NEW i \in Bisected(regions, address)
      PROVE  /\ i \in DOMAIN regions
             /\ regions[i].start <= address /\ address <= regions[i].end
  <2>1. DOMAIN regions \in SUBSET Nat
    BY <1>1
  <2> QED
    BY <1>1, <1>3, <2>1, BisectedContains
<1>4. ASSUME NEW i \in DOMAIN regions,
             regions[i].start <= address, address <= regions[i].end
      PROVE  i \in Bisected(regions, address)
  <2>1. i \in before
    BY <1>4
  <2>2. \A k \in before : i >= k
    <3> SUFFICES ASSUME NEW k \in before, ~(i >= k) PROVE FALSE
      OBVIOUS
    <3>1. i < k /\ k \in DOMAIN regions /\ regions[k].start <= address
      BY <1>1
    <3>2. regions[i].end < regions[k].start
      BY <3>1
    <3> QED
      BY <1>2, <1>4, <3>1, <3>2
  <2>3. before \in SUBSET Int
    BY <1>1
  <2>4. Max(before) = i
    <3> HIDE DEF before
    <3> QED
      BY <2>1, <2>2, <2>3, GreatestOf
  <2> QED
    BY <1>4, <2>1, <2>4 DEF Bisected
<1> QED
  BY <1>3, <1>4

\* Whatever regions a process has, in whatever order and however they overlap, the region
\* named for one of its threads contains the address it is named for
\* (memory/analyzer.py).
LEMMA MatchesContainAddress ==
  ASSUME NEW reports, NEW limits, NEW thread, NEW Rows,
         RegionsOfPid(reports, limits, thread.pid) \in Seq(Rows),
         NEW match \in ThreadMatch(reports, limits, thread)
  PROVE  match.region.start <= match.address /\ match.address <= match.region.end
<1> DEFINE regions == RegionsOfPid(reports, limits, thread.pid)
           hits(a) == {[address |-> a, region |-> regions[i]] : i \in Bisected(regions, a)}
<1>1. match \in hits(thread.win32) \/ match \in hits(thread.kernel)
  BY DEF ThreadMatch, MatchIn
<1>2. DOMAIN regions = 1..Len(regions) /\ Len(regions) \in Nat
  OBVIOUS
<1> HIDE DEF regions
<1>3. ASSUME NEW a, match \in hits(a)
      PROVE  match.region.start <= match.address /\ match.address <= match.region.end
  <2>1. PICK i \in Bisected(regions, a) : match = [address |-> a, region |-> regions[i]]
    BY <1>3
  <2>2. match.address = a /\ match.region = regions[i]
    BY <2>1
  <2>3. DOMAIN regions \in SUBSET Nat
    BY <1>2
  <2>4. regions[i].start <= a /\ a <= regions[i].end
    BY <1>2, <2>3, BisectedContains
  <2> QED
    BY <2>2, <2>4
<1> QED
  BY <1>1, <1>3

\* However many findings there are of each kind, they fit the limit and a warning says
\* when, and only when, some are missing.
LEMMA FindingsOfAnyNumber ==
  ASSUME NEW reports, NEW limits, limits.findings \in Nat, NEW secret \in Nat, NEW Rows,
         SuspiciousRegions(reports, limits) \in Seq(Rows),
         SuspiciousThreads(reports, limits) \in Seq(Rows),
         NotableEndpoints(reports, limits) \in Seq(Rows)
  PROVE  FindingsWarned(reports, limits, secret)
<1> DEFINE regions == SuspiciousRegions(reports, limits)
           threads == SuspiciousThreads(reports, limits)
           network == NotableEndpoints(reports, limits)
           limit == limits.findings
           r == Len(regions)
           t == Len(threads)
           n == Len(network)
           room(used) == IF limit >= used THEN limit - used ELSE 0
           least(a, b) == IF a <= b THEN a ELSE b
           kept == Findings(reports, limits, secret)
           kr == Len(kept.regions)
           kt == Len(kept.threads)
           kn == Len(kept.network)
<1>1. r \in Nat /\ t \in Nat /\ n \in Nat
  OBVIOUS
<1>2. ASSUME NEW used \in Nat
      PROVE  Room(limits, used) = room(used) /\ room(used) \in Nat
  <2>1. limit - used \in Int /\ 0 \in Int
    OBVIOUS
  <2>2. Max({limit - used, 0}) = IF limit - used >= 0 THEN limit - used ELSE 0
    BY <2>1, MaxOfTwo
  <2>3. Room(limits, used) = Max({limit - used, 0})
    BY DEF Room
  <2> QED
    BY <2>1, <2>2, <2>3
<1>3. ASSUME NEW seq \in Seq(Rows), NEW used \in Nat
       PROVE  /\ Len(FirstOf(seq, Room(limits, used))) = least(room(used), Len(seq))
              /\ Len(FirstOf(seq, Room(limits, used))) \in Nat
  <2>1. Room(limits, used) = room(used) /\ room(used) \in Nat
    BY <1>2
  <2>2. Len(FirstOf(seq, room(used))) = IF room(used) <= Len(seq) THEN room(used) ELSE Len(seq)
    <3> HIDE DEF room
    <3> QED
      BY <2>1, FirstOfFacts
  <2>3. Len(seq) \in Nat
    OBVIOUS
  <2> QED
    BY <2>1, <2>2, <2>3
<1>4. regions \in Seq(Rows) /\ threads \in Seq(Rows) /\ network \in Seq(Rows)
  OBVIOUS
<1>5. kept.regions = FirstOf(regions, Room(limits, secret))
  BY DEF Findings, Shares
<1>6. kept.threads = FirstOf(threads, Room(limits, secret + kr))
  BY DEF Findings, Shares
<1>7. kept.network = FirstOf(network, Room(limits, secret + kr + kt))
  BY DEF Findings, Shares
<1>8. FindingsCut(reports, limits, secret)
        <=> \/ r > Room(limits, secret)
            \/ t > Room(limits, secret + kr)
            \/ n > Room(limits, secret + kr + kt)
  BY DEF FindingsCut
<1> HIDE DEF kept, regions, threads, network
<1>9. kr = least(room(secret), r) /\ kr \in Nat
  BY <1>5, <1>3, <1>4
<1>10. secret + kr \in Nat
  BY <1>9
<1> HIDE DEF kr
<1>11. kt = least(room(secret + kr), t) /\ kt \in Nat
  BY <1>6, <1>10, <1>3, <1>4
<1>12. secret + kr + kt \in Nat
  BY <1>10, <1>11
<1> HIDE DEF kt
<1>13. kn = least(room(secret + kr + kt), n) /\ kn \in Nat
  BY <1>7, <1>12, <1>3, <1>4
<1> HIDE DEF kn
<1> DEFINE total == secret + r + t + n
           shown == secret + kr + kt + kn
<1>14. total \in Int /\ shown \in Int /\ limit \in Int
  <2> HIDE DEF r, t, n, least, room
  <2>0. kr \in Nat /\ kt \in Nat /\ kn \in Nat
    BY <1>9, <1>11, <1>13
  <2>1. total \in Int /\ shown \in Int
    BY <1>1, <2>0
  <2>2. limit \in Int
    OBVIOUS
  <2> QED
    BY <2>1, <2>2
<1>15. /\ Max({limit, secret}) = IF limit >= secret THEN limit ELSE secret
       /\ Min({total, limit}) = least(total, limit)
  <2>1. secret \in Int
    OBVIOUS
  <2> HIDE DEF total, limit
  <2>2. Max({limit, secret}) = IF limit >= secret THEN limit ELSE secret
    BY <1>14, <2>1, MaxOfTwo
  <2>3. Min({total, limit}) = IF total <= limit THEN total ELSE limit
    BY <1>14, MinOfTwo
  <2> QED
    BY <2>2, <2>3
<1>16. Max({secret, Min({total, limit})})
         = IF secret >= least(total, limit) THEN secret ELSE least(total, limit)
  <2>1. least(total, limit) \in Int /\ secret \in Int
    BY <1>14
  <2> HIDE DEF total
  <2>2. Max({secret, least(total, limit)})
          = IF secret >= least(total, limit) THEN secret ELSE least(total, limit)
    <3> HIDE DEF least
    <3> QED
      BY <2>1, MaxOfTwo
  <2> QED
    BY <1>15, <2>2
<1>17. FindingsCut(reports, limits, secret)
         <=> \/ r > room(secret) \/ t > room(secret + kr) \/ n > room(secret + kr + kt)
  BY <1>2, <1>8, <1>10, <1>12
<1> HIDE DEF r, t, n, limit
<1>18. limit \in Nat
  BY DEF limit
<1>19. /\ shown <= IF limit >= secret THEN limit ELSE secret
       /\ (\/ r > room(secret) \/ t > room(secret + kr) \/ n > room(secret + kr + kt))
            <=> shown < total
       /\ shown = IF secret >= least(total, limit) THEN secret ELSE least(total, limit)
  BY <1>1, <1>9, <1>10, <1>11, <1>12, <1>13, <1>18
<1>20. /\ shown <= Max({limit, secret})
       /\ FindingsCut(reports, limits, secret) <=> shown < total
       /\ shown = Max({secret, Min({total, limit})})
  BY <1>15, <1>16, <1>17, <1>19
<1> QED
  BY <1>20, Zenon DEF FindingsWarned, kr, kt, kn, r, t, n, limit, kept, regions, threads,
                      network

-----------------------------------------------------------------------------
(* The rows of the reports *)

\* What the tool may print in the columns the code reads: any number, negative ones and
\* none included, and any text.
Number == Int \cup {Unknown}
Count == Nat \cup {Unknown}

RowsOf(plugin, Text) ==
    CASE plugin \in {"pslist", "pstree"} ->
           [pid : Number, ppid : Number, name : Text, command : Text]
      [] plugin = "cmdline" -> [pid : Number, name : Text, command : Text]
      [] plugin = "dlllist" -> [pid : Number, base : Number]
      [] plugin = "vadinfo" ->
           [pid : Number, start : Number, end : Number, protection : SUBSET Text,
            private : Text, file : Text]
      [] plugin = "netscan" ->
           [protocol : Text, pid : Number, name : Text, local : Text, localPort : Number,
            remote : Text, global : BOOLEAN, port : Number, listening : BOOLEAN]
      [] plugin = "handles" -> [pid : Number]
      [] OTHER -> [pid : Number, tid : Number, name : Text, kernel : Number, win32 : Number]

\* Reports of any length and limits of any size.
Reported(reports, Text) ==
    /\ Unknown \in Text
    /\ \A p \in Plugins : reports[p].rows \in Seq(RowsOf(p, Text))
Limited(limits) ==
    /\ \A p \in Plugins : limits[p] \in Nat
    /\ limits.processes \in Nat /\ limits.findings \in Nat

\* The rows the normalizers let through.
CleanProcesses(Text) == [pid : Nat, ppid : Count, name : Text, command : Text]
CleanCommands(Text) == [pid : Nat, name : Text, command : Text]
CleanRegions(Text) ==
    {r \in [pid : Count, start : Nat, end : Nat, protection : SUBSET Text, private : Text,
            file : Text] : r.start <= r.end}
CleanThreads(Text) == [pid : Nat, tid : Nat, name : Text, kernel : Count, win32 : Count]
CleanRows(plugin, Text) ==
    CASE plugin \in {"pslist", "pstree"} -> CleanProcesses(Text)
      [] plugin = "cmdline" -> CleanCommands(Text)
      [] plugin = "vadinfo" -> CleanRegions(Text)
      [] plugin = "threads" -> CleanThreads(Text)
      [] OTHER -> RowsOf(plugin, Text)

LEMMA ClampedCounts ==
  ASSUME NEW n \in Number
  PROVE  Clamped(n) \in Count /\ (Counted(n) => n \in Nat)
BY UnknownAssumption DEF Clamped, Counted, Number, Count

LEMMA NormalizedClean ==
  ASSUME NEW Text, NEW p \in Plugins, NEW row \in RowsOf(p, Text), Usable(p, row)
  PROVE  Normalized(p, row) \in CleanRows(p, Text)
<1>1. CASE p \in {"pslist", "pstree"}
  <2>1. row \in [pid : Number, ppid : Number, name : Text, command : Text]
    BY <1>1 DEF RowsOf
  <2>2. Counted(row.pid)
    BY <1>1 DEF Usable
  <2>3. row.pid \in Nat /\ Clamped(row.ppid) \in Count
    BY <2>1, <2>2, ClampedCounts
  <2>4. Normalized(p, row) = [row EXCEPT !.ppid = Clamped(@)]
    BY <1>1 DEF Normalized
  <2>5. Normalized(p, row) \in CleanProcesses(Text)
    BY <2>1, <2>3, <2>4 DEF CleanProcesses
  <2> QED
    BY <1>1, <2>5 DEF CleanRows
<1>2. CASE p = "cmdline"
  <2>1. row \in [pid : Number, name : Text, command : Text]
    BY <1>2 DEF RowsOf
  <2>2. Counted(row.pid)
    BY <1>2 DEF Usable
  <2>3. row.pid \in Nat
    BY <2>1, <2>2, ClampedCounts
  <2>4. Normalized(p, row) = row
    BY <1>2 DEF Normalized
  <2>5. Normalized(p, row) \in CleanCommands(Text)
    BY <2>1, <2>3, <2>4 DEF CleanCommands
  <2> QED
    BY <1>2, <2>5 DEF CleanRows
<1>3. CASE p = "vadinfo"
  <2>1. row \in [pid : Number, start : Number, end : Number, protection : SUBSET Text,
                 private : Text, file : Text]
    BY <1>3 DEF RowsOf
  <2>2. Counted(row.start) /\ row.end # Unknown /\ row.end >= row.start
    BY <1>3 DEF Usable
  <2>3. row.start \in Nat /\ row.end \in Int /\ Clamped(row.pid) \in Count
    BY <2>1, <2>2, ClampedCounts DEF Number
  <2>4. Normalized(p, row) = [row EXCEPT !.pid = Clamped(@)]
    BY <1>3 DEF Normalized
  <2>5. row.end \in Nat
    BY <2>2, <2>3
  <2>6. Normalized(p, row) \in CleanRegions(Text)
    BY <2>1, <2>2, <2>3, <2>4, <2>5 DEF CleanRegions
  <2> QED
    BY <1>3, <2>6 DEF CleanRows
<1>4. CASE p = "threads"
  <2>1. row \in [pid : Number, tid : Number, name : Text, kernel : Number, win32 : Number]
    BY <1>4 DEF RowsOf
  <2>2. Counted(row.pid) /\ Counted(row.tid)
    BY <1>4 DEF Usable
  <2>3. /\ row.pid \in Nat /\ row.tid \in Nat
        /\ Clamped(row.kernel) \in Count /\ Clamped(row.win32) \in Count
    BY <2>1, <2>2, ClampedCounts
  <2>4. Normalized(p, row) = [row EXCEPT !.kernel = Clamped(@), !.win32 = Clamped(@)]
    BY <1>4 DEF Normalized
  <2>5. Normalized(p, row) \in CleanThreads(Text)
    BY <2>1, <2>3, <2>4 DEF CleanThreads
  <2> QED
    BY <1>4, <2>5 DEF CleanRows
<1>5. CASE p \in {"dlllist", "handles"}
  BY <1>5 DEF Normalized, CleanRows
<1>6. CASE p = "netscan"
  <2>1. CleanRows(p, Text) = RowsOf("netscan", Text)
    BY <1>6 DEF CleanRows
  <2>2. row \in RowsOf("netscan", Text)
    BY <1>6
  <2>3. \A n \in Number : Port(n) \in Number /\ Clamped(n) \in Number
    BY DEF Port, Clamped, Number
  <2>4. /\ Clamped(row.pid) \in Number /\ Port(row.localPort) \in Number
        /\ Port(row.port) \in Number
    BY <2>2, <2>3 DEF RowsOf
  <2>5. Normalized(p, row) = [row EXCEPT !.pid = Clamped(@), !.localPort = Port(@),
                                         !.port = Port(@)]
    BY <1>6 DEF Normalized
  <2> QED
    BY <2>1, <2>2, <2>4, <2>5 DEF RowsOf
<1> QED
  BY <1>1, <1>2, <1>3, <1>4, <1>5, <1>6 DEF Plugins

LEMMA AllRowsClean ==
  ASSUME NEW Text, NEW reports, Reported(reports, Text), NEW p \in Plugins
  PROVE  AllRows(reports, p) \in Seq(CleanRows(p, Text))
<1> DEFINE given == reports[p].rows
           positions == {i \in DOMAIN given : Usable(p, given[i])}
           passed == {row \in RowsOf(p, Text) : Usable(p, row)}
           usable == Filtered(given, positions)
<1>1. given \in Seq(RowsOf(p, Text))
  BY DEF Reported
<1>2. positions \in SUBSET (1..Len(given)) /\ Len(given) \in Nat
      /\ \A i \in positions : given[i] \in passed
  BY <1>1
<1> HIDE DEF given, positions, passed
<1>3. usable \in Seq(passed)
  BY <1>2, FilteredFacts
<1>4. AllRows(reports, p) = IF reports[p].completed
                            THEN [i \in DOMAIN usable |-> Normalized(p, usable[i])]
                            ELSE <<>>
  BY DEF AllRows, given, positions
<1> HIDE DEF usable
<1>5. \A i \in DOMAIN usable : Normalized(p, usable[i]) \in CleanRows(p, Text)
  <2> SUFFICES ASSUME NEW i \in DOMAIN usable
               PROVE  Normalized(p, usable[i]) \in CleanRows(p, Text)
    OBVIOUS
  <2>1. usable[i] \in passed
    BY <1>3
  <2> QED
    BY <2>1, NormalizedClean DEF passed
<1>6. DOMAIN usable = 1..Len(usable) /\ Len(usable) \in Nat
  BY <1>3
<1>7. [i \in DOMAIN usable |-> Normalized(p, usable[i])] \in Seq(CleanRows(p, Text))
  BY <1>5, <1>6
<1> QED
  BY <1>4, <1>7

LEMMA KeptFacts ==
  ASSUME NEW Text, NEW reports, Reported(reports, Text), NEW limits, Limited(limits),
         NEW p \in Plugins
  PROVE  /\ Kept(reports, p, limits) \in Seq(CleanRows(p, Text))
         /\ p \notin CutPlugins(reports, limits) =>
              Kept(reports, p, limits) = AllRows(reports, p)
<1> DEFINE all == AllRows(reports, p)
           kept == Kept(reports, p, limits)
           n == limits[p]
<1>1. all \in Seq(CleanRows(p, Text))
  BY AllRowsClean
<1>2. n \in Nat
  BY DEF Limited
<1>3. kept = FirstOf(all, n)
  BY DEF Kept
<1>4. p \in CutPlugins(reports, limits) <=> Len(all) > n
  BY DEF CutPlugins
<1>5. Min({n, Len(all)}) = IF n <= Len(all) THEN n ELSE Len(all)
  BY <1>1, <1>2, MinOfTwo, n \in Int, Len(all) \in Int
<1> HIDE DEF all, kept, n
<1>6. kept = SubSeq(all, 1, IF n <= Len(all) THEN n ELSE Len(all))
  BY <1>3, <1>5 DEF FirstOf
<1>7. kept \in Seq(CleanRows(p, Text))
  BY <1>1, <1>2, <1>6
<1>8. ~(Len(all) > n) => kept = all
  BY <1>1, <1>2, <1>6
<1> QED
  BY <1>4, <1>7, <1>8 DEF all, kept

-----------------------------------------------------------------------------
(* The merged table of processes *)

CleanTables(Text) == Seq(CleanProcesses(Text))

LEMMA TableFacts ==
  ASSUME NEW Text, NEW table \in CleanTables(Text)
  PROVE  /\ DOMAIN table = 1..Len(table) /\ Len(table) \in Nat
         /\ \A i \in DOMAIN table : table[i] \in CleanProcesses(Text)
BY DEF CleanTables

\* Putting a row into the table adds its pid and no other.
LEMMA PutFacts ==
  ASSUME NEW Text, NEW table \in CleanTables(Text), NEW row \in CleanProcesses(Text)
  PROVE  /\ Put(table, row) \in CleanTables(Text)
         /\ Pids(Put(table, row)) = Pids(table) \cup {row.pid}
<1>1. /\ DOMAIN table = 1..Len(table) /\ Len(table) \in Nat
      /\ \A i \in DOMAIN table : table[i] \in CleanProcesses(Text)
  BY TableFacts
<1>2. CASE row.pid \in Pids(table)
  <2> DEFINE put == [i \in DOMAIN table |-> IF table[i].pid = row.pid THEN row ELSE table[i]]
  <2>1. Put(table, row) = put
    BY <1>2 DEF Put
  <2>2. put \in CleanTables(Text)
    BY <1>1 DEF CleanTables
  <2>3. \A i \in DOMAIN table : put[i].pid = table[i].pid
    OBVIOUS
  <2>4. DOMAIN put = DOMAIN table
    OBVIOUS
  <2> HIDE DEF put
  <2>5. Pids(put) = Pids(table)
    BY <2>3, <2>4 DEF Pids
  <2> QED
    BY <1>2, <2>1, <2>2, <2>5
<1>3. CASE row.pid \notin Pids(table)
  <2> DEFINE put == Append(table, row)
             n == Len(table)
  <2>1. Put(table, row) = put
    BY <1>3 DEF Put
  <2>2. put \in CleanTables(Text) /\ DOMAIN put = 1..(n + 1)
    BY DEF CleanTables
  <2>3. put[n + 1] = row /\ \A i \in 1..n : put[i] = table[i]
    BY DEF CleanTables
  <2>4. n \in Nat /\ DOMAIN table = 1..n
    BY <1>1
  <2> HIDE DEF put, n
  <2>5. 1..(n + 1) = (1..n) \cup {n + 1}
    BY <2>4
  <2>6. Pids(put) = Pids(table) \cup {row.pid}
    BY <2>2, <2>3, <2>4, <2>5 DEF Pids
  <2> QED
    BY <2>1, <2>2, <2>6
<1> QED
  BY <1>2, <1>3

LEMMA EntryFacts ==
  ASSUME NEW Text, NEW table \in CleanTables(Text), NEW row \in CleanProcesses(Text)
  PROVE  EntryOf(table, row) \in CleanProcesses(Text) /\ EntryOf(table, row).pid = row.pid
<1>1. \A i \in DOMAIN table : table[i] \in CleanProcesses(Text)
  BY TableFacts
<1>2. CASE row.pid \in Pids(table)
  <2>1. \E i \in DOMAIN table : table[i].pid = row.pid
    BY <1>2 DEF Pids
  <2> DEFINE at == CHOOSE i \in DOMAIN table : table[i].pid = row.pid
  <2>2. at \in DOMAIN table /\ table[at].pid = row.pid
    BY <2>1
  <2>3. EntryOf(table, row) = table[at]
    BY <1>2 DEF EntryOf
  <2> QED
    BY <1>1, <2>2, <2>3
<1> QED
  BY <1>2 DEF EntryOf

LEMMA ListedFacts ==
  ASSUME NEW Text, Unknown \in Text, NEW table \in CleanTables(Text),
         NEW row \in CleanProcesses(Text)
  PROVE  /\ AddListed(table, row) \in CleanTables(Text)
         /\ Pids(AddListed(table, row)) = Pids(table) \cup {row.pid}
<1> DEFINE added == [row EXCEPT !.command = Unknown]
<1>1. added \in CleanProcesses(Text) /\ added.pid = row.pid
  BY DEF CleanProcesses
<1>2. AddListed(table, row) = Put(table, added)
  BY DEF AddListed
<1> HIDE DEF added
<1> QED
  BY <1>1, <1>2, PutFacts

LEMMA TreeFacts ==
  ASSUME NEW Text, Unknown \in Text, NEW table \in CleanTables(Text),
         NEW row \in CleanProcesses(Text)
  PROVE  /\ AddTree(table, row) \in CleanTables(Text)
         /\ Pids(AddTree(table, row)) = Pids(table) \cup {row.pid}
<1> DEFINE old == EntryOf(table, row)
           added == [pid |-> row.pid,
                     ppid |-> IF row.ppid # Unknown THEN row.ppid ELSE old.ppid,
                     name |-> IF old.name = Unknown THEN row.name ELSE old.name,
                     command |-> IF row.command # Unknown THEN row.command ELSE old.command]
<1>1. old \in CleanProcesses(Text)
  BY EntryFacts
<1>2. AddTree(table, row) = Put(table, added)
  BY DEF AddTree
<1> HIDE DEF old
<1>3. added \in CleanProcesses(Text) /\ added.pid = row.pid
  BY <1>1 DEF CleanProcesses
<1> HIDE DEF added
<1> QED
  BY <1>2, <1>3, PutFacts

LEMMA CommandFacts ==
  ASSUME NEW Text, Unknown \in Text, NEW table \in CleanTables(Text),
         NEW row \in CleanCommands(Text)
  PROVE  /\ AddCommand(table, row) \in CleanTables(Text)
         /\ Pids(AddCommand(table, row)) = Pids(table) \cup {row.pid}
<1> DEFINE fresh == [pid |-> row.pid, ppid |-> Unknown, name |-> row.name, command |-> Unknown]
           old == EntryOf(table, fresh)
           added == [old EXCEPT !.name = IF @ = Unknown THEN row.name ELSE @,
                                !.command = row.command]
<1>1. fresh \in CleanProcesses(Text) /\ fresh.pid = row.pid
  BY DEF CleanProcesses, CleanCommands, Count
<1>2. AddCommand(table, row) = Put(table, added)
  BY DEF AddCommand
<1> HIDE DEF fresh
<1>3. old \in CleanProcesses(Text) /\ old.pid = row.pid
  BY <1>1, EntryFacts
<1> HIDE DEF old
<1>4. added \in CleanProcesses(Text) /\ added.pid = row.pid
  BY <1>3 DEF CleanProcesses, CleanCommands
<1> HIDE DEF added
<1> QED
  BY <1>2, <1>4, PutFacts

\* A loop that adds the pid of its row at each turn adds those of all the rows.
AddsPids(after, T, N, lines) ==
    /\ after[0] \in T
    /\ \A n \in 1..N : after[n - 1] \in T =>
          after[n] \in T /\ Pids(after[n]) = Pids(after[n - 1]) \cup {lines[n].pid}

LEMMA LoopFacts ==
  ASSUME NEW T, NEW N \in Nat, NEW lines, DOMAIN lines = 1..N,
         NEW after, AddsPids(after, T, N, lines)
  PROVE  /\ after[N] \in T
         /\ Pids(after[N]) = Pids(after[0]) \cup Pids(lines)
<1> DEFINE upTo(n) == {lines[i].pid : i \in 1..n}
           good == {n \in 0..N : /\ after[n] \in T
                                 /\ Pids(after[n]) = Pids(after[0]) \cup upTo(n)}
<1> USE DEF AddsPids
<1>1. 0 \in good
  <2>1. upTo(0) = {}
    BY 1..0 = {}
  <2> QED
    BY <2>1, 0 \in 0..N
<1>2. ASSUME NEW n \in 1..N, n - 1 \in good
      PROVE  n \in good
  <2>1. 1..n = (1..(n - 1)) \cup {n} /\ n \in 0..N
    OBVIOUS
  <2>2. upTo(n) = upTo(n - 1) \cup {lines[n].pid}
    BY <2>1
  <2>3. after[n - 1] \in T /\ Pids(after[n - 1]) = Pids(after[0]) \cup upTo(n - 1)
    BY <1>2
  <2> QED
    BY <2>1, <2>2, <2>3
<1>3. good = 0..N
  <2>1. good \in SUBSET (0..N)
    OBVIOUS
  <2> HIDE DEF good
  <2> QED
    BY <1>1, <1>2, <2>1, FirstFailure
<1> QED
  BY <1>3, N \in 0..N DEF Pids

\* The three loops of _merge_processes (memory/volatility.py).
LEMMA ListedLoop ==
  ASSUME NEW Text, Unknown \in Text, NEW start \in CleanTables(Text),
         NEW lines \in Seq(CleanProcesses(Text))
  PROVE  /\ Folded(start, lines, AddListed) \in CleanTables(Text)
         /\ Pids(Folded(start, lines, AddListed)) = Pids(start) \cup Pids(lines)
<1> DEFINE T == CleanTables(Text)
           N == Len(lines)
           step == [n \in 1..N |-> [table \in T |-> AddListed(table, lines[n])]]
           loop(f) == f = [n \in 0..N |-> IF n = 0 THEN start ELSE AddListed(f[n - 1], lines[n])]
           after == CHOOSE f : loop(f)
<1>1. /\ N \in Nat /\ DOMAIN lines = 1..N /\ start \in T
      /\ \A n \in 1..N : lines[n] \in CleanProcesses(Text)
  OBVIOUS
<1>2. \A n \in 1..N : \A table \in T :
         /\ AddListed(table, lines[n]) \in T
         /\ Pids(AddListed(table, lines[n])) = Pids(table) \cup {lines[n].pid}
  BY <1>1, ListedFacts
<1>3. Folded(start, lines, AddListed) = after[N]
  BY DEF Folded
<1> HIDE DEF T, N
<1>4. /\ step \in Turns(T, N)
      /\ \A n \in 1..N : \A table \in T : step[n][table] = AddListed(table, lines[n])
  BY <1>2 DEF Turns
<1> HIDE DEF step
<1>5. \E f : loop(f)
  <2>1. PICK f : Iterates(f, T, N, start, step)
    BY <1>1, <1>4, IterationExists
  <2>2. /\ f \in [0..N -> T] /\ f[0] = start
        /\ \A n \in 1..N : f[n] = step[n][f[n - 1]]
    BY <2>1 DEF Iterates
  <2>3. \A n \in 0..N : f[n] = IF n = 0 THEN start ELSE AddListed(f[n - 1], lines[n])
    <3> SUFFICES ASSUME NEW n \in 0..N, n # 0 PROVE f[n] = AddListed(f[n - 1], lines[n])
      BY <2>2
    <3>1. n \in 1..N /\ n - 1 \in 0..N
      BY <1>1
    <3> QED
      BY <1>4, <2>2, <3>1
  <2> QED
    BY <2>2, <2>3
<1>6. loop(after)
  BY <1>5
<1> HIDE DEF after
<1>7. after[0] = start /\ \A n \in 1..N : after[n] = AddListed(after[n - 1], lines[n])
  BY <1>1, <1>6, 0 \in 0..N
<1>8. AddsPids(after, T, N, lines)
  BY <1>1, <1>2, <1>7 DEF AddsPids
<1>9. after[N] \in T /\ Pids(after[N]) = Pids(start) \cup Pids(lines)
  <2>1. after[N] \in T /\ Pids(after[N]) = Pids(after[0]) \cup Pids(lines)
    BY <1>1, <1>8, LoopFacts
  <2> QED
    BY <1>7, <2>1
<1> QED
  BY <1>3, <1>9 DEF T

LEMMA TreeLoop ==
  ASSUME NEW Text, Unknown \in Text, NEW start \in CleanTables(Text),
         NEW lines \in Seq(CleanProcesses(Text))
  PROVE  /\ Folded(start, lines, AddTree) \in CleanTables(Text)
         /\ Pids(Folded(start, lines, AddTree)) = Pids(start) \cup Pids(lines)
<1> DEFINE T == CleanTables(Text)
           N == Len(lines)
           step == [n \in 1..N |-> [table \in T |-> AddTree(table, lines[n])]]
           loop(f) == f = [n \in 0..N |-> IF n = 0 THEN start ELSE AddTree(f[n - 1], lines[n])]
           after == CHOOSE f : loop(f)
<1>1. /\ N \in Nat /\ DOMAIN lines = 1..N /\ start \in T
      /\ \A n \in 1..N : lines[n] \in CleanProcesses(Text)
  OBVIOUS
<1>2. \A n \in 1..N : \A table \in T :
         /\ AddTree(table, lines[n]) \in T
         /\ Pids(AddTree(table, lines[n])) = Pids(table) \cup {lines[n].pid}
  BY <1>1, TreeFacts
<1>3. Folded(start, lines, AddTree) = after[N]
  BY DEF Folded
<1> HIDE DEF T, N
<1>4. /\ step \in Turns(T, N)
      /\ \A n \in 1..N : \A table \in T : step[n][table] = AddTree(table, lines[n])
  BY <1>2 DEF Turns
<1> HIDE DEF step
<1>5. \E f : loop(f)
  <2>1. PICK f : Iterates(f, T, N, start, step)
    BY <1>1, <1>4, IterationExists
  <2>2. /\ f \in [0..N -> T] /\ f[0] = start
        /\ \A n \in 1..N : f[n] = step[n][f[n - 1]]
    BY <2>1 DEF Iterates
  <2>3. \A n \in 0..N : f[n] = IF n = 0 THEN start ELSE AddTree(f[n - 1], lines[n])
    <3> SUFFICES ASSUME NEW n \in 0..N, n # 0 PROVE f[n] = AddTree(f[n - 1], lines[n])
      BY <2>2
    <3>1. n \in 1..N /\ n - 1 \in 0..N
      BY <1>1
    <3> QED
      BY <1>4, <2>2, <3>1
  <2> QED
    BY <2>2, <2>3
<1>6. loop(after)
  BY <1>5
<1> HIDE DEF after
<1>7. after[0] = start /\ \A n \in 1..N : after[n] = AddTree(after[n - 1], lines[n])
  BY <1>1, <1>6, 0 \in 0..N
<1>8. AddsPids(after, T, N, lines)
  BY <1>1, <1>2, <1>7 DEF AddsPids
<1>9. after[N] \in T /\ Pids(after[N]) = Pids(start) \cup Pids(lines)
  <2>1. after[N] \in T /\ Pids(after[N]) = Pids(after[0]) \cup Pids(lines)
    BY <1>1, <1>8, LoopFacts
  <2> QED
    BY <1>7, <2>1
<1> QED
  BY <1>3, <1>9 DEF T

LEMMA CommandLoop ==
  ASSUME NEW Text, Unknown \in Text, NEW start \in CleanTables(Text),
         NEW lines \in Seq(CleanCommands(Text))
  PROVE  /\ Folded(start, lines, AddCommand) \in CleanTables(Text)
         /\ Pids(Folded(start, lines, AddCommand)) = Pids(start) \cup Pids(lines)
<1> DEFINE T == CleanTables(Text)
           N == Len(lines)
           step == [n \in 1..N |-> [table \in T |-> AddCommand(table, lines[n])]]
           loop(f) == f = [n \in 0..N |-> IF n = 0 THEN start ELSE AddCommand(f[n - 1], lines[n])]
           after == CHOOSE f : loop(f)
<1>1. /\ N \in Nat /\ DOMAIN lines = 1..N /\ start \in T
      /\ \A n \in 1..N : lines[n] \in CleanCommands(Text)
  OBVIOUS
<1>2. \A n \in 1..N : \A table \in T :
         /\ AddCommand(table, lines[n]) \in T
         /\ Pids(AddCommand(table, lines[n])) = Pids(table) \cup {lines[n].pid}
  BY <1>1, CommandFacts
<1>3. Folded(start, lines, AddCommand) = after[N]
  BY DEF Folded
<1> HIDE DEF T, N
<1>4. /\ step \in Turns(T, N)
      /\ \A n \in 1..N : \A table \in T : step[n][table] = AddCommand(table, lines[n])
  BY <1>2 DEF Turns
<1> HIDE DEF step
<1>5. \E f : loop(f)
  <2>1. PICK f : Iterates(f, T, N, start, step)
    BY <1>1, <1>4, IterationExists
  <2>2. /\ f \in [0..N -> T] /\ f[0] = start
        /\ \A n \in 1..N : f[n] = step[n][f[n - 1]]
    BY <2>1 DEF Iterates
  <2>3. \A n \in 0..N : f[n] = IF n = 0 THEN start ELSE AddCommand(f[n - 1], lines[n])
    <3> SUFFICES ASSUME NEW n \in 0..N, n # 0 PROVE f[n] = AddCommand(f[n - 1], lines[n])
      BY <2>2
    <3>1. n \in 1..N /\ n - 1 \in 0..N
      BY <1>1
    <3> QED
      BY <1>4, <2>2, <3>1
  <2> QED
    BY <2>2, <2>3
<1>6. loop(after)
  BY <1>5
<1> HIDE DEF after
<1>7. after[0] = start /\ \A n \in 1..N : after[n] = AddCommand(after[n - 1], lines[n])
  BY <1>1, <1>6, 0 \in 0..N
<1>8. AddsPids(after, T, N, lines)
  BY <1>1, <1>2, <1>7 DEF AddsPids
<1>9. after[N] \in T /\ Pids(after[N]) = Pids(start) \cup Pids(lines)
  <2>1. after[N] \in T /\ Pids(after[N]) = Pids(after[0]) \cup Pids(lines)
    BY <1>1, <1>8, LoopFacts
  <2> QED
    BY <1>7, <2>1
<1> QED
  BY <1>3, <1>9 DEF T

\* The table has the pids of the three reports, whatever rows they share.
LEMMA MergedFacts ==
  ASSUME NEW Text, NEW reports, Reported(reports, Text), NEW limits, Limited(limits)
  PROVE  /\ Merged(reports, limits) \in CleanTables(Text)
         /\ Pids(Merged(reports, limits))
              = UNION {Pids(Kept(reports, p, limits)) : p \in {"pslist", "pstree", "cmdline"}}
<1> DEFINE list == Kept(reports, "pslist", limits)
           tree == Kept(reports, "pstree", limits)
           commands == Kept(reports, "cmdline", limits)
           listed == Folded(<<>>, list, AddListed)
           grown == Folded(listed, tree, AddTree)
           merged == Folded(grown, commands, AddCommand)
<1>1. Unknown \in Text
  BY DEF Reported
<1>2. list \in Seq(CleanProcesses(Text)) /\ tree \in Seq(CleanProcesses(Text))
  BY KeptFacts DEF Plugins, CleanRows
<1>3. commands \in Seq(CleanCommands(Text))
  BY KeptFacts DEF Plugins, CleanRows
<1>4. Merged(reports, limits) = merged
  BY DEF Merged
<1> HIDE DEF list, tree, commands
<1>5. <<>> \in CleanTables(Text) /\ Pids(<<>>) = {}
  BY DEF CleanTables, Pids
<1>6. listed \in CleanTables(Text) /\ Pids(listed) = Pids(list)
  <2>1. /\ Folded(<<>>, list, AddListed) \in CleanTables(Text)
        /\ Pids(Folded(<<>>, list, AddListed)) = Pids(<<>>) \cup Pids(list)
    BY <1>1, <1>2, <1>5, ListedLoop
  <2> QED
    BY <1>5, <2>1
<1> HIDE DEF listed
<1>7. grown \in CleanTables(Text) /\ Pids(grown) = Pids(list) \cup Pids(tree)
  BY <1>1, <1>2, <1>6, TreeLoop
<1> HIDE DEF grown
<1>8. /\ merged \in CleanTables(Text)
      /\ Pids(merged) = Pids(list) \cup Pids(tree) \cup Pids(commands)
  BY <1>1, <1>3, <1>7, CommandLoop
<1> QED
  BY <1>4, <1>8 DEF list, tree, commands

-----------------------------------------------------------------------------
(* Processes *)

LEMMA ShownPids ==
  ASSUME NEW reports, NEW limits, limits.processes \in Nat,
         NEW Rows, Merged(reports, limits) \in Seq(Rows)
  PROVE  LET shown == {p.row.pid : p \in Processes(reports, limits)} IN
         /\ shown \subseteq Known(reports, limits)
         /\ ~ProcessesCut(reports, limits) => shown = Known(reports, limits)
<1> DEFINE merged == Merged(reports, limits)
           table == FirstOf(merged, limits.processes)
           marked(i) == [row |-> table[i], orphaned |-> Orphaned(reports, limits, table[i])]
           processes == {marked(i) : i \in DOMAIN table}
           shown == {p.row.pid : p \in processes}
<1>1. /\ Len(table) = IF limits.processes <= Len(merged) THEN limits.processes ELSE Len(merged)
      /\ DOMAIN table = 1..Len(table)
      /\ \A i \in DOMAIN table : i \in DOMAIN merged /\ table[i] = merged[i]
  BY FirstOfFacts
<1>2. DOMAIN merged = 1..Len(merged) /\ Len(merged) \in Nat
  OBVIOUS
<1>3. ProcessesCut(reports, limits) <=> Len(merged) > limits.processes
  BY DEF ProcessesCut
<1>4. Known(reports, limits) = {merged[i].pid : i \in DOMAIN merged}
  BY DEF Known, Pids
<1>5. Processes(reports, limits) = processes
  BY DEF Processes
<1>6. \A i : marked(i).row = table[i]
  OBVIOUS
<1> HIDE DEF merged, table, marked
<1>7. shown = {table[i].pid : i \in DOMAIN table}
  BY <1>6
<1> HIDE DEF shown
<1>8. shown \subseteq Known(reports, limits)
  BY <1>1, <1>4, <1>7
<1>9. ASSUME ~ProcessesCut(reports, limits)
      PROVE  shown = Known(reports, limits)
  <2>1. Len(table) = Len(merged)
    BY <1>1, <1>2, <1>3, <1>9
  <2>2. DOMAIN table = DOMAIN merged
    BY <1>1, <1>2, <2>1
  <2> QED
    BY <1>1, <1>4, <1>7, <2>2
<1> QED
  BY <1>5, <1>8, <1>9 DEF shown

\* A process marked orphaned has a parent that is not in the result, and in a result that
\* was not cut the mark is exact, whatever the plugins reported and whichever of them
\* failed (memory/volatility.py).
THEOREM OrphansAlwaysHonest ==
  ASSUME NEW Text, NEW reports, Reported(reports, Text), NEW limits, Limited(limits)
  PROVE  OrphansHonest(reports, limits)
<1> DEFINE processes == Processes(reports, limits)
           shown == {p.row.pid : p \in processes}
           known == Known(reports, limits)
           orphaned(row) == Orphaned(reports, limits, row)
           table == FirstOf(Merged(reports, limits), limits.processes)
<1>1. Merged(reports, limits) \in Seq(CleanProcesses(Text)) /\ limits.processes \in Nat
  BY MergedFacts DEF CleanTables, Limited
<1>2. shown \subseteq known /\ (~ProcessesCut(reports, limits) => shown = known)
  BY <1>1, ShownPids
<1>3. processes = {[row |-> table[i], orphaned |-> orphaned(table[i])] : i \in DOMAIN table}
  BY DEF Processes
<1>4. \A row : /\ orphaned(row) = TRUE => row.ppid \notin {Unknown, 0} \cup known
               /\ orphaned(row) = FALSE => row.ppid \in {Unknown, 0} \cup known
  BY UnknownAssumption DEF Orphaned
<1> HIDE DEF processes, known, orphaned, table
<1>5. ASSUME NEW p \in processes
      PROVE  /\ p.orphaned = TRUE => p.row.ppid \notin shown
             /\ p.orphaned = FALSE /\ ~ProcessesCut(reports, limits) =>
                  p.row.ppid \in {Unknown, 0} \cup shown
  <2>1. PICK i \in DOMAIN table : p = [row |-> table[i], orphaned |-> orphaned(table[i])]
    BY <1>3
  <2>2. p.row = table[i] /\ p.orphaned = orphaned(p.row)
    BY <2>1
  <2> HIDE DEF shown
  <2> QED
    BY <1>2, <1>4, <2>2
<1> QED
  BY <1>5 DEF OrphansHonest, processes

\* Unless a warning says that something was cut, the result has every process that a
\* completed plugin reported and no other, whichever plugins failed
\* (memory/volatility.py).
THEOREM NothingEverLost ==
  ASSUME NEW Text, NEW reports, Reported(reports, Text), NEW limits, Limited(limits)
  PROVE  NothingLostSilently(reports, limits)
<1> DEFINE sources == {"pslist", "pstree", "cmdline"}
           shown == {p.row.pid : p \in Processes(reports, limits)}
<1>1. Merged(reports, limits) \in Seq(CleanProcesses(Text)) /\ limits.processes \in Nat
  BY MergedFacts DEF CleanTables, Limited
<1>2. ~ProcessesCut(reports, limits) => shown = Known(reports, limits)
  BY <1>1, ShownPids
<1>3. Known(reports, limits) = UNION {Pids(Kept(reports, p, limits)) : p \in sources}
  BY MergedFacts DEF Known
<1>4. ASSUME CutPlugins(reports, limits) = {}
      PROVE  UNION {Pids(Kept(reports, p, limits)) : p \in sources}
               = UNION {Pids(AllRows(reports, p)) : p \in sources}
  <2>1. \A p \in sources : p \in Plugins
    BY DEF Plugins
  <2>2. \A p \in sources : Kept(reports, p, limits) = AllRows(reports, p)
    BY <1>4, <2>1, KeptFacts
  <2> HIDE DEF sources
  <2> QED
    BY <2>2
<1>5. UNION {{AllRows(reports, p)[i].pid : i \in DOMAIN AllRows(reports, p)} : p \in sources}
        = UNION {Pids(AllRows(reports, p)) : p \in sources}
  BY DEF Pids
<1> HIDE DEF shown, sources
<1>6. \/ CutPlugins(reports, limits) # {}
      \/ ProcessesCut(reports, limits)
      \/ UNION {{AllRows(reports, p)[i].pid : i \in DOMAIN AllRows(reports, p)} : p \in sources}
           = shown
  BY <1>2, <1>3, <1>4, <1>5
<1> QED
  BY <1>6, Zenon DEF NothingLostSilently, shown, sources

-----------------------------------------------------------------------------
(* Findings of a memory analysis *)

LEMMA KeysAreNumbers ==
  ASSUME NEW row, NEW column, row[column] \in Number
  PROVE  Key(row, column) \in Int
BY DEF Key, Number

LEMMA KeptRows ==
  ASSUME NEW Text, NEW reports, Reported(reports, Text), NEW limits, Limited(limits)
  PROVE  /\ Kept(reports, "vadinfo", limits) \in Seq(CleanRegions(Text))
         /\ Kept(reports, "threads", limits) \in Seq(CleanThreads(Text))
         /\ Kept(reports, "netscan", limits) \in Seq(RowsOf("netscan", Text))
BY KeptFacts DEF Plugins, CleanRows

\* The suspicious regions are the ones kept that are, by pid and then by address.
LEMMA RegionsFacts ==
  ASSUME NEW Text, NEW reports, Reported(reports, Text), NEW limits, Limited(limits)
  PROVE  LET lines == Kept(reports, "vadinfo", limits)
             found == SuspiciousRegions(reports, limits)
         IN /\ found \in Seq(CleanRegions(Text))
            /\ Lists(found, lines, {i \in DOMAIN lines : Suspicious(lines[i])},
                     InOrder(lines, "start"))
<1> DEFINE lines == Kept(reports, "vadinfo", limits)
           at == {i \in DOMAIN lines : Suspicious(lines[i])}
           order == InOrder(lines, "start")
<1>1. lines \in Seq(CleanRegions(Text))
  BY KeptRows
<1>2. SuspiciousRegions(reports, limits) = RowsAt(lines, at, order)
  BY DEF SuspiciousRegions
<1> HIDE DEF lines
<1>3. /\ Len(lines) \in Nat /\ DOMAIN lines = 1..Len(lines)
      /\ \A i \in 1..Len(lines) : lines[i] \in CleanRegions(Text)
  BY <1>1
<1>4. \A i \in 1..Len(lines) : Key(lines[i], "pid") \in Int /\ Key(lines[i], "start") \in Int
  <2> SUFFICES ASSUME NEW i \in 1..Len(lines)
               PROVE  Key(lines[i], "pid") \in Int /\ Key(lines[i], "start") \in Int
    OBVIOUS
  <2>1. lines[i]["pid"] \in Number /\ lines[i]["start"] \in Number
    BY <1>3 DEF CleanRegions, Number, Count
  <2> QED
    BY <2>1, KeysAreNumbers
<1>5. at \in SUBSET (1..Len(lines)) /\ \A p \in at : lines[p] \in CleanRegions(Text)
  BY <1>3
<1> HIDE DEF at
<1>6. Orders(order, at)
  BY <1>3, <1>4, <1>5, InOrderOrders
<1>7. IsFiniteSet(at)
  BY <1>3, <1>5, FS_Interval, FS_Subset, 1 \in Int, Len(lines) \in Int
<1> HIDE DEF order
<1>8. /\ RowsAt(lines, at, order) \in Seq(CleanRegions(Text))
      /\ Lists(RowsAt(lines, at, order), lines, at, order)
  BY <1>5, <1>6, <1>7, RowsAtFacts
<1> QED
  BY <1>2, <1>8 DEF lines, at, order

LEMMA ThreadsFacts ==
  ASSUME NEW Text, NEW reports, Reported(reports, Text), NEW limits, Limited(limits)
  PROVE  SuspiciousThreads(reports, limits) \in Seq(CleanThreads(Text))
<1> DEFINE lines == Kept(reports, "threads", limits)
           at == {i \in DOMAIN lines : ThreadMatch(reports, limits, lines[i]) # {}}
           order == InOrder(lines, "tid")
<1>1. lines \in Seq(CleanThreads(Text))
  BY KeptRows
<1>2. SuspiciousThreads(reports, limits) = RowsAt(lines, at, order)
  BY DEF SuspiciousThreads
<1> HIDE DEF lines
<1>3. /\ Len(lines) \in Nat /\ DOMAIN lines = 1..Len(lines)
      /\ \A i \in 1..Len(lines) : lines[i] \in CleanThreads(Text)
  BY <1>1
<1>4. \A i \in 1..Len(lines) : Key(lines[i], "pid") \in Int /\ Key(lines[i], "tid") \in Int
  <2> SUFFICES ASSUME NEW i \in 1..Len(lines)
               PROVE  Key(lines[i], "pid") \in Int /\ Key(lines[i], "tid") \in Int
    OBVIOUS
  <2>1. lines[i]["pid"] \in Number /\ lines[i]["tid"] \in Number
    BY <1>3 DEF CleanThreads, Number, Count
  <2> QED
    BY <2>1, KeysAreNumbers
<1>5. at \in SUBSET (1..Len(lines)) /\ \A p \in at : lines[p] \in CleanThreads(Text)
  BY <1>3
<1> HIDE DEF at
<1>6. Orders(order, at)
  BY <1>3, <1>4, <1>5, InOrderOrders
<1>7. IsFiniteSet(at)
  BY <1>3, <1>5, FS_Interval, FS_Subset, 1 \in Int, Len(lines) \in Int
<1> HIDE DEF order
<1> QED
  BY <1>2, <1>5, <1>6, <1>7, RowsAtFacts

LEMMA EndpointsFacts ==
  ASSUME NEW Text, NEW reports, Reported(reports, Text), NEW limits, Limited(limits)
  PROVE  NotableEndpoints(reports, limits) \in Seq(RowsOf("netscan", Text))
<1> DEFINE lines == Kept(reports, "netscan", limits)
           order == InOrder(lines, "pid")
           notable == {i \in DOMAIN lines : Notable(lines[i])}
           at == {i \in notable : ~\E j \in notable :
                     <<j, i>> \in order /\ NetworkKey(lines[j]) = NetworkKey(lines[i])}
<1>1. lines \in Seq(RowsOf("netscan", Text))
  BY KeptRows
<1>2. NotableEndpoints(reports, limits) = RowsAt(lines, at, order)
  BY DEF NotableEndpoints
<1> HIDE DEF lines
<1>3. /\ Len(lines) \in Nat /\ DOMAIN lines = 1..Len(lines)
      /\ \A i \in 1..Len(lines) : lines[i] \in RowsOf("netscan", Text)
  BY <1>1
<1>4. \A i \in 1..Len(lines) : Key(lines[i], "pid") \in Int
  <2> SUFFICES ASSUME NEW i \in 1..Len(lines) PROVE Key(lines[i], "pid") \in Int
    OBVIOUS
  <2>1. lines[i]["pid"] \in Number
    BY <1>3 DEF RowsOf
  <2> QED
    BY <2>1, KeysAreNumbers
<1>5. at \in SUBSET (1..Len(lines)) /\ \A p \in at : lines[p] \in RowsOf("netscan", Text)
  BY <1>3
<1> HIDE DEF at
<1>6. Orders(order, at)
  BY <1>3, <1>4, <1>5, InOrderOrders
<1>7. IsFiniteSet(at)
  BY <1>3, <1>5, FS_Interval, FS_Subset, 1 \in Int, Len(lines) \in Int
<1> HIDE DEF order
<1> QED
  BY <1>2, <1>5, <1>6, <1>7, RowsAtFacts

LEMMA WiderSequences ==
  ASSUME NEW S, NEW T, S \subseteq T, NEW seq \in Seq(S)
  PROVE  seq \in Seq(T)
OBVIOUS

\* The findings fit the limit and a warning says when, and only when, some are missing,
\* whatever the plugins reported (memory/analyzer.py).
THEOREM FindingsAlwaysWarned ==
  ASSUME NEW Text, NEW reports, Reported(reports, Text), NEW limits, Limited(limits),
         NEW secret \in Nat
  PROVE  FindingsWarned(reports, limits, secret)
<1> DEFINE Rows == CleanRegions(Text) \cup CleanThreads(Text) \cup RowsOf("netscan", Text)
<1>1. /\ SuspiciousRegions(reports, limits) \in Seq(CleanRegions(Text))
      /\ SuspiciousThreads(reports, limits) \in Seq(CleanThreads(Text))
      /\ NotableEndpoints(reports, limits) \in Seq(RowsOf("netscan", Text))
  BY RegionsFacts, ThreadsFacts, EndpointsFacts
<1>2. /\ CleanRegions(Text) \subseteq Rows /\ CleanThreads(Text) \subseteq Rows
      /\ RowsOf("netscan", Text) \subseteq Rows
  OBVIOUS
<1> HIDE DEF Rows
<1>3. /\ SuspiciousRegions(reports, limits) \in Seq(Rows)
      /\ SuspiciousThreads(reports, limits) \in Seq(Rows)
      /\ NotableEndpoints(reports, limits) \in Seq(Rows)
  BY <1>1, <1>2, WiderSequences
<1>4. limits.findings \in Nat
  BY DEF Limited
<1> QED
  BY <1>3, <1>4, FindingsOfAnyNumber

-----------------------------------------------------------------------------
(* Threads and regions *)

\* The suspicious regions of a process are in the order of their starts, and every
\* suspicious region that was kept is among those of its process.
LEMMA RegionsOfPidFacts ==
  ASSUME NEW Text, NEW reports, Reported(reports, Text), NEW limits, Limited(limits),
         NEW pid \in Nat
  PROVE  LET lines == Kept(reports, "vadinfo", limits)
             found == SuspiciousRegions(reports, limits)
             own == RegionsOfPid(reports, limits, pid)
         IN /\ own \in Seq(CleanRegions(Text))
            /\ \A i, j \in DOMAIN own : i < j => own[i].start <= own[j].start
            /\ \A i \in DOMAIN own :
                 \E k \in DOMAIN lines :
                    Suspicious(lines[k]) /\ lines[k].pid = pid /\ own[i] = lines[k]
            /\ \A k \in DOMAIN lines :
                 Suspicious(lines[k]) /\ lines[k].pid = pid =>
                   \E i \in DOMAIN own : own[i] = lines[k]
            /\ Disjoint(reports, limits) =>
                 \A i, j \in DOMAIN own :
                    i # j => own[i].end < own[j].start \/ own[j].end < own[i].start
<1> DEFINE lines == Kept(reports, "vadinfo", limits)
           bad == {i \in DOMAIN lines : Suspicious(lines[i])}
           order == InOrder(lines, "start")
           found == SuspiciousRegions(reports, limits)
           at == {i \in DOMAIN found : found[i].pid = pid}
           own == RegionsOfPid(reports, limits, pid)
<1>1. lines \in Seq(CleanRegions(Text))
  BY KeptRows
<1>2. found \in Seq(CleanRegions(Text)) /\ Lists(found, lines, bad, order)
  BY RegionsFacts
<1>3. own = Filtered(found, at)
  BY DEF RegionsOfPid, OfPid
<1>4. Disjoint(reports, limits) =>
        \A i, j \in DOMAIN found : i # j /\ found[i].pid = found[j].pid =>
            found[i].end < found[j].start \/ found[j].end < found[i].start
  BY DEF Disjoint
<1> HIDE DEF lines, found, own
<1>5. /\ Len(found) \in Nat /\ DOMAIN found = 1..Len(found)
      /\ \A i \in DOMAIN found : found[i] \in CleanRegions(Text)
  BY <1>2
<1>6. at \in SUBSET (1..Len(found)) /\ \A p \in at : found[p] \in CleanRegions(Text)
  BY <1>5
<1> HIDE DEF at
<1>7. own \in Seq(CleanRegions(Text)) /\ Lists(own, found, at, Below(at))
  BY <1>3, <1>5, <1>6, FilteredFacts
<1>8. DOMAIN own = 1..Len(own) /\ Len(own) \in Nat
  BY <1>7
<1>9. PICK f \in [1..Len(found) -> bad] :
        /\ \A k \in 1..Len(found) : found[k] = lines[f[k]]
        /\ \A p \in bad : \E k \in 1..Len(found) : f[k] = p
        /\ \A j, k \in 1..Len(found) : j < k => <<f[j], f[k]>> \in order
  BY <1>2 DEF Lists
<1>10. PICK g \in [1..Len(own) -> at] :
        /\ \A k \in 1..Len(own) : own[k] = found[g[k]]
        /\ \A p \in at : \E k \in 1..Len(own) : g[k] = p
        /\ \A j, k \in 1..Len(own) : j < k => <<g[j], g[k]>> \in Below(at)
  BY <1>7 DEF Lists
<1>11. \A j, k \in DOMAIN own : j < k => g[j] < g[k]
  BY <1>8, <1>10 DEF Below
<1>12. \A k \in DOMAIN own : g[k] \in at /\ g[k] \in DOMAIN found /\ own[k] = found[g[k]]
  BY <1>5, <1>6, <1>8, <1>10
<1>13. \A k \in DOMAIN own : own[k].pid = pid
  BY <1>12 DEF at
<1>14. ASSUME NEW i \in DOMAIN found, NEW j \in DOMAIN found, i < j,
              found[i].pid = pid, found[j].pid = pid
       PROVE  found[i].start <= found[j].start
  <2>1. <<f[i], f[j]>> \in order /\ found[i] = lines[f[i]] /\ found[j] = lines[f[j]]
    BY <1>5, <1>9, <1>14
  <2>2. /\ found[i].start \in Nat /\ found[j].start \in Nat
    BY <1>5 DEF CleanRegions
  <2>3. \/ Before(lines[f[i]], lines[f[j]], "start")
        \/ ~Before(lines[f[j]], lines[f[i]], "start")
    BY <2>1 DEF InOrder
  <2>4. /\ Key(found[i], "pid") = pid /\ Key(found[j], "pid") = pid
        /\ Key(found[i], "start") = found[i].start /\ Key(found[j], "start") = found[j].start
    BY <1>14, <2>2, UnknownAssumption DEF Key
  <2> QED
    BY <2>1, <2>2, <2>3, <2>4 DEF Before
<1>15. \A i, j \in DOMAIN own : i < j => own[i].start <= own[j].start
  BY <1>11, <1>12, <1>13, <1>14
<1>16. ASSUME NEW i \in DOMAIN own
       PROVE  \E k \in DOMAIN lines :
                 Suspicious(lines[k]) /\ lines[k].pid = pid /\ own[i] = lines[k]
  <2>1. g[i] \in 1..Len(found) /\ own[i] = found[g[i]]
    BY <1>5, <1>12
  <2>2. f[g[i]] \in bad /\ own[i] = lines[f[g[i]]]
    BY <1>9, <2>1
  <2> QED
    BY <1>13, <2>2
<1>17. ASSUME NEW k \in DOMAIN lines, Suspicious(lines[k]), lines[k].pid = pid
       PROVE  \E i \in DOMAIN own : own[i] = lines[k]
  <2>1. k \in bad
    BY <1>17
  <2>2. PICK n \in 1..Len(found) : f[n] = k
    BY <1>9, <2>1
  <2>3. found[n] = lines[k] /\ n \in DOMAIN found
    BY <1>5, <1>9, <2>2
  <2>4. n \in at
    BY <1>17, <2>3 DEF at
  <2>5. PICK i \in 1..Len(own) : g[i] = n
    BY <1>10, <2>4
  <2> QED
    BY <1>8, <1>10, <2>3, <2>5
<1>18. ASSUME Disjoint(reports, limits), NEW i \in DOMAIN own, NEW j \in DOMAIN own, i # j
       PROVE  own[i].end < own[j].start \/ own[j].end < own[i].start
  <2>1. i < j \/ j < i
    BY <1>8, <1>18
  <2>2. g[i] # g[j]
    <3>1. \A k \in DOMAIN own : g[k] \in Int
      BY <1>5, <1>12
    <3> QED
      BY <1>11, <2>1, <3>1
  <2> QED
    BY <1>4, <1>12, <1>13, <1>18, <2>2
<1>19. /\ own \in Seq(CleanRegions(Text))
       /\ \A i, j \in DOMAIN own : i < j => own[i].start <= own[j].start
       /\ \A i \in DOMAIN own :
            \E k \in DOMAIN lines :
               Suspicious(lines[k]) /\ lines[k].pid = pid /\ own[i] = lines[k]
       /\ \A k \in DOMAIN lines :
            Suspicious(lines[k]) /\ lines[k].pid = pid => \E i \in DOMAIN own : own[i] = lines[k]
       /\ Disjoint(reports, limits) =>
            \A i, j \in DOMAIN own :
               i # j => own[i].end < own[j].start \/ own[j].end < own[i].start
  BY <1>7, <1>15, <1>16, <1>17, <1>18
<1> QED
  BY <1>19, Zenon DEF lines, own

\* For a thread of a process the search finds a region exactly if a suspicious one of the
\* process contains one of the start addresses, whatever the plugins reported; regions
\* that overlap may hide one, and a region that is found contains the address it is found
\* for (memory/analyzer.py).
THEOREM ThreadsAlwaysCorrelated ==
  ASSUME NEW Text, NEW reports, Reported(reports, Text), NEW limits, Limited(limits)
  PROVE  ThreadsCorrelated(reports, limits)
<1> DEFINE all == Kept(reports, "threads", limits)
           lines == Kept(reports, "vadinfo", limits)
           own(x) == RegionsOfPid(reports, limits, x.pid)
           hits(x, a) == {[address |-> a, region |-> own(x)[i]] : i \in Bisected(own(x), a)}
           match(x) == ThreadMatch(reports, limits, x)
           inside(x) == \E i \in DOMAIN lines, a \in {x.kernel, x.win32} \ {Unknown} :
                           /\ Suspicious(lines[i]) /\ lines[i].pid = x.pid
                           /\ lines[i].start <= a /\ a <= lines[i].end
<1>1. all \in Seq(CleanThreads(Text))
  BY KeptRows
<1>2. \A x : match(x) = IF hits(x, x.win32) # {} THEN hits(x, x.win32) ELSE hits(x, x.kernel)
  BY DEF ThreadMatch, MatchIn
<1> SUFFICES ASSUME NEW k \in DOMAIN all
             PROVE  /\ match(all[k]) # {} => inside(all[k])
                    /\ \A m \in match(all[k]) :
                         m.region.start <= m.address /\ m.address <= m.region.end
                    /\ Disjoint(reports, limits) /\ inside(all[k]) => match(all[k]) # {}
  BY Zenon DEF ThreadsCorrelated
<1> DEFINE thread == all[k]
<1>3. thread \in CleanThreads(Text)
  BY <1>1
<1>4. thread.pid \in Nat /\ thread.kernel \in Count /\ thread.win32 \in Count
  BY <1>3 DEF CleanThreads
<1> HIDE DEF thread, all, lines, match
<1>5. /\ own(thread) \in Seq(CleanRegions(Text))
      /\ \A i, j \in DOMAIN own(thread) : i < j => own(thread)[i].start <= own(thread)[j].start
      /\ \A i \in DOMAIN own(thread) :
           \E n \in DOMAIN lines :
              Suspicious(lines[n]) /\ lines[n].pid = thread.pid /\ own(thread)[i] = lines[n]
      /\ \A n \in DOMAIN lines :
           Suspicious(lines[n]) /\ lines[n].pid = thread.pid =>
              \E i \in DOMAIN own(thread) : own(thread)[i] = lines[n]
      /\ Disjoint(reports, limits) =>
           \A i, j \in DOMAIN own(thread) :
              i # j => \/ own(thread)[i].end < own(thread)[j].start
                       \/ own(thread)[j].end < own(thread)[i].start
  BY <1>4, RegionsOfPidFacts DEF lines
<1> DEFINE regions == own(thread)
<1>6. hits(thread, thread.win32) = {[address |-> thread.win32, region |-> regions[i]] :
                            i \in Bisected(regions, thread.win32)}
      /\ hits(thread, thread.kernel) = {[address |-> thread.kernel, region |-> regions[i]] :
                            i \in Bisected(regions, thread.kernel)}
  OBVIOUS
<1> HIDE DEF own, hits
<1>7. /\ DOMAIN regions = 1..Len(regions) /\ Len(regions) \in Nat
      /\ \A i \in DOMAIN regions :
           /\ regions[i].start \in Nat /\ regions[i].end \in Nat
           /\ regions[i].start <= regions[i].end
  BY <1>5 DEF CleanRegions
<1> HIDE DEF regions
<1>8. ASSUME NEW m \in match(thread)
      PROVE  /\ m.region.start <= m.address /\ m.address <= m.region.end
             /\ inside(thread)
  <2>1. PICK a \in {thread.win32, thread.kernel} :
          \E i \in Bisected(regions, a) : m = [address |-> a, region |-> regions[i]]
    BY <1>2, <1>6
  <2>2. PICK i \in Bisected(regions, a) : m = [address |-> a, region |-> regions[i]]
    BY <2>1
  <2>3. m.address = a /\ m.region = regions[i]
    BY <2>2
  <2>4. i \in DOMAIN regions /\ regions[i].start <= a /\ a <= regions[i].end
    BY <1>7, BisectedContains, DOMAIN regions \in SUBSET Nat
  <2>5. a # Unknown
    BY <2>2 DEF Bisected
  <2>6. PICK n \in DOMAIN lines :
          Suspicious(lines[n]) /\ lines[n].pid = thread.pid /\ regions[i] = lines[n]
    BY <1>5, <2>4 DEF regions
  <2>7. inside(thread)
    BY <2>4, <2>5, <2>6
  <2> QED
    BY <2>3, <2>4, <2>7
<1>9. ASSUME Disjoint(reports, limits), inside(thread)
      PROVE  match(thread) # {}
  <2>1. PICK n \in DOMAIN lines, a \in {thread.kernel, thread.win32} \ {Unknown} :
          /\ Suspicious(lines[n]) /\ lines[n].pid = thread.pid
          /\ lines[n].start <= a /\ a <= lines[n].end
    BY <1>9
  <2>2. PICK i \in DOMAIN regions : regions[i] = lines[n]
    BY <1>5, <2>1 DEF regions
  <2>3. a \in Nat /\ a # Unknown
    BY <1>4, <2>1 DEF Count
  <2>4. \A j, l \in DOMAIN regions : j < l => regions[j].end < regions[l].start
    <3> SUFFICES ASSUME NEW j \in DOMAIN regions, NEW l \in DOMAIN regions, j < l
                 PROVE  regions[j].end < regions[l].start
      OBVIOUS
    <3>1. j # l
      BY <1>7
    <3>2. regions[j].end < regions[l].start \/ regions[l].end < regions[j].start
      BY <1>5, <1>9, <3>1 DEF regions
    <3>3. regions[j].start <= regions[l].start
      BY <1>5 DEF regions
    <3> QED
      BY <1>7, <3>2, <3>3
  <2>5. regions \in Seq(CleanRegions(Text))
    BY <1>5 DEF regions
  <2>6. Bisected(regions, a)
          = {j \in DOMAIN regions : regions[j].start <= a /\ a <= regions[j].end}
    BY <1>7, <2>3, <2>4, <2>5, BisectionExact
  <2>7. i \in Bisected(regions, a)
    BY <2>1, <2>2, <2>6
  <2>8. CASE a = thread.win32
    <3>1. i \in Bisected(regions, thread.win32)
      BY <2>7, <2>8
    <3>2. [address |-> thread.win32, region |-> regions[i]] \in hits(thread, thread.win32)
      BY <1>6, <3>1, Zenon
    <3> QED
      BY <1>2, <3>2
  <2>9. CASE a = thread.kernel
    <3>1. i \in Bisected(regions, thread.kernel)
      BY <2>7, <2>9
    <3>2. [address |-> thread.kernel, region |-> regions[i]] \in hits(thread, thread.kernel)
      BY <1>6, <3>1, Zenon
    <3> QED
      BY <1>2, <3>2
  <2> QED
    BY <2>1, <2>8, <2>9
<1> QED
  BY <1>8, <1>9 DEF thread

-----------------------------------------------------------------------------
(* The result of a memory analysis *)

\* The result of a memory analysis follows from what the plugins reported: of every set of
\* reports, however long, and of all limits (memory/volatility.py, memory/analyzer.py).
THEOREM EveryMemoryFaithful ==
  ASSUME NEW Text,
         Asked("memory") => /\ Reported(question.reports, Text)
                            /\ Limited(question.limits)
                            /\ question.secret \in Nat
  PROVE  MemoryFaithful
<1> SUFFICES ASSUME Asked("memory")
             PROVE  /\ OrphansHonest(question.reports, question.limits)
                    /\ NothingLostSilently(question.reports, question.limits)
                    /\ ThreadsCorrelated(question.reports, question.limits)
                    /\ FindingsWarned(question.reports, question.limits, question.secret)
  BY Zenon DEF MemoryFaithful
<1> QED
  BY OrphansAlwaysHonest, NothingEverLost, ThreadsAlwaysCorrelated, FindingsAlwaysWarned

-----------------------------------------------------------------------------
(* Tools *)

\* The outputs that an adapter reads, of a run that ended normally.
Read == Outcomes \ NotRun

\* The ends that every adapter reports as an unavailable integration.
Failing == {"missing", "vanished", "timed_out", "failed"}

LEMMA OutcomesSplit ==
  /\ NotRun = Failing \cup {"cannot_start"}
  /\ Read = {"no_output", "too_large", "not_text", "not_json", "not_object", "not_list",
             "lacks_key", "not_number", "empty", "usable"}
  /\ \A outcome \in Outcomes : outcome \in Failing \/ outcome = "cannot_start" \/ outcome \in Read
BY DEF NotRun, Failing, Read, Outcomes, Shapes

\* What comes of a run, whatever the adapter.
LEMMA RunCases ==
  ASSUME NEW outcome \in Outcomes, NEW reads
  PROVE  /\ outcome \in Failing => Run(outcome, reads) = IU
         /\ outcome = "cannot_start" => Run(outcome, reads) = "OSError"
         /\ outcome \in Read => Run(outcome, reads) = reads[outcome]
<1>1. ASSUME outcome \in Failing PROVE Run(outcome, reads) = IU
  BY <1>1 DEF Run, Failing
<1>2. ASSUME outcome = "cannot_start" PROVE Run(outcome, reads) = "OSError"
  BY <1>2 DEF Run
<1>3. ASSUME outcome \in Read
      PROVE  Run(outcome, reads) = reads[outcome]
  BY <1>3, OutcomesSplit DEF Run
<1> QED
  BY <1>1, <1>2, <1>3

-----------------------------------------------------------------------------
(* Plugins *)

LEMMA PluginEndings ==
  ASSUME NEW outcome \in Outcomes
  PROVE  /\ PluginEnds(outcome) = "escaped" <=> outcome \in {"cannot_start", "not_text"}
         /\ PluginEnds(outcome) = "completed" <=>
              outcome \in {"empty", "usable", "not_object", "not_number"}
         /\ PluginEnds(outcome) \in {"completed", "warning", "escaped"}
<1> DEFINE result == Run(outcome, PluginReads)
<1>1. CASE outcome \in Failing
  <2>1. result = IU
    BY <1>1, RunCases
  <2>2. PluginEnds(outcome) = "warning"
    BY <2>1 DEF PluginEnds, IU
  <2> QED
    BY <1>1, <2>2 DEF Failing
<1>2. CASE outcome = "cannot_start"
  <2>1. result = "OSError"
    BY <1>2, RunCases
  <2>2. PluginEnds(outcome) = "escaped"
    BY <2>1 DEF PluginEnds, IU
  <2> QED
    BY <1>2, <2>2
<1>3. CASE outcome \in {"no_output", "too_large", "not_json", "not_list", "lacks_key"}
  <2>1. result \in {IU, "unsupported"}
    BY <1>3, RunCases, OutcomesSplit DEF PluginReads
  <2>2. PluginEnds(outcome) = "warning"
    BY <2>1 DEF PluginEnds, IU
  <2> QED
    BY <1>3, <2>2
<1>4. CASE outcome = "not_text"
  <2>1. result = "UnicodeDecodeError"
    BY <1>4, RunCases, OutcomesSplit DEF PluginReads
  <2>2. PluginEnds(outcome) = "escaped"
    BY <2>1 DEF PluginEnds, IU
  <2> QED
    BY <1>4, <2>2
<1>5. CASE outcome \in {"empty", "usable", "not_object", "not_number"}
  <2>1. result = "answer"
    BY <1>5, RunCases, OutcomesSplit DEF PluginReads
  <2>2. PluginEnds(outcome) = "completed"
    BY <2>1 DEF PluginEnds, IU
  <2> QED
    BY <1>5, <2>2
<1> QED
  BY <1>1, <1>2, <1>3, <1>4, <1>5, OutcomesSplit

\* Of an analysis that ends every plugin completed or left a warning, for any number of
\* plugins (memory/volatility.py).
LEMMA PluginsAlwaysAccounted ==
  ASSUME NEW Ran, NEW outcomes \in [Ran -> Outcomes]
  PROVE  PluginsAccounted(outcomes)
<1> DEFINE ends(p) == PluginEnds(outcomes[p])
           reports == PluginReports(outcomes)
<1>1. DOMAIN outcomes = Ran /\ \A p \in Ran : outcomes[p] \in Outcomes
  OBVIOUS
<1>2. \A p \in Ran :
        /\ ends(p) = "escaped" <=> outcomes[p] \in {"cannot_start", "not_text"}
        /\ ends(p) = "completed" <=>
             outcomes[p] \in {"empty", "usable", "not_object", "not_number"}
        /\ ends(p) \in {"completed", "warning", "escaped"}
  BY <1>1, PluginEndings
<1> HIDE DEF ends
<1>3. /\ reports.completed = {p \in Ran : ends(p) = "completed"}
      /\ reports.warned = {p \in Ran : ends(p) = "warning"}
      /\ reports.analysed = (\A p \in Ran : ends(p) # "escaped")
  BY <1>1 DEF PluginReports, ends
<1> HIDE DEF reports
<1>4. (\A p \in Ran : outcomes[p] \notin {"cannot_start", "not_text"}) => reports.analysed
  BY <1>2, <1>3
<1>5. ASSUME reports.analysed
      PROVE  /\ reports.completed \cup reports.warned = Ran
             /\ reports.completed \cap reports.warned = {}
  <2>1. \A p \in Ran : ends(p) # "escaped"
    BY <1>3, <1>5
  <2> QED
    BY <1>2, <1>3, <2>1
<1>6. \A p \in reports.completed :
        outcomes[p] \in {"empty", "usable", "not_object", "not_number"}
  BY <1>2, <1>3
<1> QED
  BY <1>1, <1>4, <1>5, <1>6 DEF PluginsAccounted, reports

-----------------------------------------------------------------------------
(* Decompilers *)

\* The adapters of the registry.
Decompilers == {"ghidra", "r2ghidra", "retdec", "pseudo_c"}

\* How a decompiler ends: with what the registry passes over on a sample that is gone,
\* and with an answer or that on a whole one, unless Ghidra's JSON has another shape.
LEMMA DecompilerEnds ==
  ASSUME NEW outcomes \in [Tools -> Outcomes], NEW a \in Decompilers
  PROVE  /\ "answer" \notin Caught
         /\ Decompile("pseudo_c", outcomes, "whole") = "answer"
         /\ Decompile(a, outcomes, "gone") \in Caught
         /\ (\A t \in Tools : outcomes[t] \notin Shapes) =>
              Decompile(a, outcomes, "whole") \in Caught \cup {"answer"}
<1>1. "answer" \notin Caught /\ IU \in Caught /\ "OSError" \in Caught
  BY DEF Caught, IU
<1>2. \A reads : OnSample(outcomes[a], "gone", reads) = IU
  BY DEF OnSample
<1>3. \A reads : OnSample(outcomes[a], "whole", reads) = Run(outcomes[a], reads)
  BY DEF OnSample
<1>4. /\ Decompile("pseudo_c", outcomes, "whole") = "answer"
      /\ Decompile("pseudo_c", outcomes, "gone") = "FileNotFoundError"
  BY DEF Decompile, PseudoC
<1>5. /\ \A o \in Read \ Shapes : GhidraReads[o] \in Caught \cup {"answer"}
      /\ \A o \in Read \ Shapes : R2Reads[o] \in Caught \cup {"answer"}
      /\ \A o \in Read \ Shapes : RetDecReads[o] \in Caught \cup {"answer"}
  BY OutcomesSplit DEF GhidraReads, R2Reads, RetDecReads, Shapes, Caught
<1>6. CASE a = "pseudo_c"
  BY <1>1, <1>4, <1>6 DEF Caught
<1>7. CASE a \in Tools
  <2>1. outcomes[a] \in Outcomes
    BY <1>7
  <2>2. ASSUME NEW reads, \A o \in Read \ Shapes : reads[o] \in Caught \cup {"answer"},
               \A t \in Tools : outcomes[t] \notin Shapes
        PROVE  Run(outcomes[a], reads) \in Caught \cup {"answer"}
    <3>1. outcomes[a] \notin Shapes
      BY <1>7, <2>2
    <3> QED
      BY <1>1, <2>1, <2>2, <3>1, RunCases, OutcomesSplit
  <2>3. CASE a = "ghidra"
    <3>1. /\ Decompile(a, outcomes, "whole") = Run(outcomes[a], GhidraReads)
          /\ Decompile(a, outcomes, "gone") = IU
      BY <1>2, <1>3, <2>3 DEF Decompile
    <3> QED
      BY <1>1, <1>4, <1>5, <2>2, <3>1
  <2>4. CASE a = "r2ghidra"
    <3>1. /\ Decompile(a, outcomes, "whole") = Run(outcomes[a], R2Reads)
          /\ Decompile(a, outcomes, "gone") = IU
      BY <1>2, <1>3, <2>4 DEF Decompile
    <3> QED
      BY <1>1, <1>4, <1>5, <2>2, <3>1
  <2>5. CASE a = "retdec"
    <3>1. /\ Decompile(a, outcomes, "whole") = Run(outcomes[a], RetDecReads)
          /\ Decompile(a, outcomes, "gone") = IU
      BY <1>2, <1>3, <2>5 DEF Decompile
    <3> QED
      BY <1>1, <1>4, <1>5, <2>2, <3>1
  <2> QED
    BY <1>7, <2>3, <2>4, <2>5 DEF Tools
<1> QED
  BY <1>6, <1>7 DEF Decompilers, Tools

\* The candidates for any provider: decompilers, the built-in one last.
LEMMA BuiltInLast ==
  ASSUME NEW provider
  PROVE  /\ Providers(provider) \in Seq(Decompilers)
         /\ Len(Providers(provider)) >= 1
         /\ \A k \in 1..Len(Providers(provider)) :
              Providers(provider)[k] = "pseudo_c" <=> k = Len(Providers(provider))
<1> DEFINE wanted == {i \in DOMAIN Adapters : provider \in {"auto", Adapters[i]}}
           named == Filtered(Adapters, wanted)
<1>1. /\ DOMAIN Adapters = 1..4 /\ \A i \in 1..4 : Adapters[i] \in Decompilers
      /\ \A i \in 1..4 : Adapters[i] = "pseudo_c" <=> i = 4
  BY DEF Adapters, Decompilers
<1>2. wanted \in SUBSET (1..4)
  BY <1>1
<1>3. Providers(provider) = IF \E i \in 1..Len(named) : named[i] = "pseudo_c" THEN named
                            ELSE Append(named, "pseudo_c")
  BY DEF Providers, Contains
<1> HIDE DEF wanted
<1>4. named \in Seq(Decompilers) /\ Lists(named, Adapters, wanted, Below(wanted))
  BY <1>1, <1>2, FilteredFacts, 4 \in Nat
<1> HIDE DEF named
<1>5. PICK at \in [1..Len(named) -> wanted] :
        /\ \A k \in 1..Len(named) : named[k] = Adapters[at[k]]
        /\ \A j, k \in 1..Len(named) : j < k => <<at[j], at[k]>> \in Below(wanted)
  BY <1>4 DEF Lists
<1>6. CASE \E i \in 1..Len(named) : named[i] = "pseudo_c"
  <2>1. PICK i \in 1..Len(named) : named[i] = "pseudo_c"
    BY <1>6
  <2>2. Len(named) \in Nat /\ Len(named) >= 1
    BY <1>4, <2>1
  <2>3. ASSUME NEW k \in 1..Len(named), named[k] = "pseudo_c"
        PROVE  k = Len(named)
    <3>1. at[k] = 4
      BY <1>1, <1>2, <1>5, <2>3
    <3>2. ~(k < Len(named))
      <4>1. ASSUME k < Len(named)
            PROVE  FALSE
        <5>1. <<at[k], at[Len(named)]>> \in Below(wanted)
          BY <1>5, <2>2, <4>1
        <5>2. at[k] < at[Len(named)]
          BY <5>1 DEF Below
        <5>3. at[Len(named)] \in 1..4
          BY <1>2, <1>5, <2>2
        <5> QED
          BY <3>1, <5>2, <5>3
      <4> QED
        BY <4>1
    <3> QED
      BY <2>2, <3>2
  <2>4. Providers(provider) = named
    BY <1>3, <1>6
  <2>5. i = Len(named)
    BY <2>1, <2>3
  <2> QED
    BY <1>4, <2>1, <2>2, <2>3, <2>4, <2>5
<1>7. CASE ~\E i \in 1..Len(named) : named[i] = "pseudo_c"
  <2>1. Providers(provider) = Append(named, "pseudo_c")
    BY <1>3, <1>7
  <2>2. "pseudo_c" \in Decompilers
    BY DEF Decompilers
  <2> QED
    BY <1>4, <1>7, <2>1, <2>2
<1> QED
  BY <1>6, <1>7

\* For every way in which the tools can end and every provider asked for, an answer comes
\* from the first candidate that works, and from the built-in one only if no tool asked
\* for works; a sample that is gone has none, and a whole one is answered as long as no
\* tool writes JSON of another shape (decompiler/registry.py).
THEOREM DecompilationAlwaysInOrder ==
  ASSUME NEW outcomes \in [Tools -> Outcomes]
  PROVE  DecompilationInOrder(outcomes)
<1> SUFFICES
      ASSUME NEW provider \in Asking, NEW sample \in SampleStates
      PROVE  LET answered == DecompileFunction(provider, outcomes, sample)
                 works(name) == /\ Decompile(name, outcomes, sample) = "answer"
                                /\ IsAvailable(name, outcomes)
                 asked == ToSet(Providers(provider))
             IN /\ answered.result = "answer" =>
                     /\ works(answered.provider)
                     /\ \A a \in answered.skipped : ~works(a)
                     /\ answered.provider = "pseudo_c" =>
                          \A a \in asked \cap Tools : ~works(a)
                /\ sample = "gone" => answered.result = IU
                /\ sample = "whole" /\ (\A t \in Tools : outcomes[t] \notin Shapes) =>
                     answered.result = "answer"
  BY DEF DecompilationInOrder
<1> DEFINE answered == DecompileFunction(provider, outcomes, sample)
           works(name) == /\ Decompile(name, outcomes, sample) = "answer"
                          /\ IsAvailable(name, outcomes)
           providers == Providers(provider)
           n == Len(providers)
           ends == {i \in 1..n : ~PassedOver(providers[i], outcomes, sample)}
           m == Min(ends)
<1>1. /\ n \in Nat /\ n >= 1
      /\ \A k \in 1..n : providers[k] = "pseudo_c" <=> k = n
  BY BuiltInLast
<1>1a. /\ DOMAIN providers = 1..n
      /\ \A k \in 1..n : providers[k] \in Decompilers
  <2>1. providers \in Seq(Decompilers)
    BY BuiltInLast
  <2> HIDE DEF providers
  <2> QED
    BY <2>1
<1>2. /\ ends = {} => answered.result = IU
      /\ ends # {} => /\ answered.result = Decompile(providers[m], outcomes, sample)
                      /\ answered.provider = providers[m]
                      /\ answered.skipped = {providers[i] : i \in 1..(m - 1)}
  <2>1. /\ ends = {} => answered.result = IU
        /\ ends # {} => answered = [result |-> Decompile(providers[m], outcomes, sample),
                                    provider |-> providers[m],
                                    skipped |-> {providers[i] : i \in 1..(m - 1)}]
    BY <1>1a DEF DecompileFunction
  <2> HIDE DEF answered, providers, ends, m
  <2> QED
    BY <2>1
<1>3. ToSet(Providers(provider)) = {providers[i] : i \in 1..n}
  BY <1>1a DEF ToSet
<1>4. ASSUME NEW i \in 1..n
      PROVE  i \notin ends <=> PassedOver(providers[i], outcomes, sample)
  OBVIOUS
<1>5. ends \in SUBSET (1..n)
  OBVIOUS
<1> HIDE DEF answered, providers, n, ends
<1>6. ends # {} => m \in ends /\ \A i \in ends : m <= i
  BY <1>1, <1>5, LeastExists
<1> HIDE DEF m
<1>7. ASSUME NEW a, PassedOver(a, outcomes, sample)
      PROVE  ~works(a)
  BY <1>7, DecompilerEnds, "pseudo_c" \in Decompilers DEF PassedOver, Decompilers
<1>8. ASSUME answered.result = "answer"
      PROVE  /\ works(answered.provider)
             /\ \A a \in answered.skipped : ~works(a)
             /\ answered.provider = "pseudo_c" =>
                  \A a \in ToSet(Providers(provider)) \cap Tools : ~works(a)
  <2>1. ends # {}
    BY <1>2, <1>8 DEF IU
  <2>2. m \in 1..n /\ m \in ends
    BY <1>5, <1>6, <2>1
  <2>3. ~PassedOver(providers[m], outcomes, sample)
    BY <1>4, <2>2
  <2>4. works(answered.provider)
    BY <1>2, <1>8, <2>1, <2>3 DEF PassedOver
  <2>5. ASSUME NEW i \in 1..(m - 1)
        PROVE  ~works(providers[i])
    <3>1. i \in 1..n /\ ~(m <= i)
      BY <1>1, <2>2
    <3> HIDE DEF works
    <3> QED
      BY <1>4, <1>6, <1>7, <2>1, <3>1
  <2>6. ASSUME answered.provider = "pseudo_c",
               NEW a \in ToSet(Providers(provider)) \cap Tools
        PROVE  ~works(a)
    <3>1. PICK i \in 1..n : a = providers[i]
      BY <1>3
    <3>2. m = n /\ i # n
      BY <1>1, <1>2, <2>1, <2>2, <2>6, <3>1 DEF Tools
    <3>3. i \in 1..(m - 1)
      BY <1>1, <3>1, <3>2
    <3> QED
      BY <2>5, <3>1, <3>3
  <2> HIDE DEF works
  <2> QED
    BY <1>2, <2>1, <2>4, <2>5, <2>6
<1>9. ASSUME sample = "gone"
      PROVE  answered.result = IU
  <2>1. \A i \in 1..n : PassedOver(providers[i], outcomes, sample)
    BY <1>1a, <1>9, DecompilerEnds DEF PassedOver
  <2>2. ends = {}
    BY <1>4, <1>5, <2>1
  <2> QED
    BY <1>2, <2>2
<1>10. ASSUME sample = "whole", \A t \in Tools : outcomes[t] \notin Shapes
       PROVE  answered.result = "answer"
  <2>1. n \in 1..n /\ providers[n] = "pseudo_c"
    BY <1>1
  <2>2. ~PassedOver("pseudo_c", outcomes, sample)
    BY <1>10, DecompilerEnds, "pseudo_c" \in Decompilers DEF PassedOver, IsAvailable, Decompilers
  <2>3. n \in ends
    BY <1>4, <2>1, <2>2
  <2>4. m \in 1..n /\ ~PassedOver(providers[m], outcomes, sample)
    BY <1>4, <1>5, <1>6, <2>3
  <2>5. providers[m] \in Decompilers
    BY <1>1a, <2>4
  <2> QED
    BY <1>2, <1>10, <2>3, <2>4, <2>5, DecompilerEnds DEF PassedOver
<1> HIDE DEF works
<1> QED
  BY <1>8, <1>9, <1>10, Zenon DEF answered, works

-----------------------------------------------------------------------------
(* The other tools *)

LEMMA Statuses ==
  /\ Status("answer") = 200 /\ Status(IU) = 503 /\ Status("ParseError") = 422
  /\ Status("OSError") = 500 /\ Status("UnicodeDecodeError") = 500
  /\ IU # "answer"
BY DEF Status, IU

\* No result comes of a tool that was not run to its end, nor of a file that is not the
\* one asked for (integrations/base.py, memory/volatility.py, analyzer/unpacking.py).
LEMMA NeverResultWithoutRun ==
  ASSUME NEW outcome \in Outcomes
  PROVE  NoResultWithoutRun(outcome)
<1>1. ASSUME NEW reads
      PROVE  /\ outcome \in NotRun => Run(outcome, reads) \in {IU, "OSError"}
             /\ outcome = "missing" => Run(outcome, reads) = IU
             /\ outcome \in Read => Run(outcome, reads) = reads[outcome]
  BY RunCases, OutcomesSplit DEF Failing
<1>2. outcome \in NotRun \/ outcome \in Read
  BY DEF Read
<1>3. ASSUME NEW name \in {"ghidra", "radare2", "binary_ninja"}
      PROVE  /\ outcome \in NotRun => Integrate(name, outcome) # "answer"
             /\ outcome = "missing" => Status(Integrate(name, outcome)) = 503
  <2>1. CASE name = "ghidra"
    <3>1. Integrate(name, outcome) = Run(outcome, GhidraLogReads)
      BY <2>1 DEF Integrate
    <3> QED
      BY <1>1, <3>1, Statuses
  <2>2. CASE name = "radare2"
    <3>1. Integrate(name, outcome) = Run(outcome, R2FunctionsReads)
      BY <2>2 DEF Integrate
    <3> QED
      BY <1>1, <3>1, Statuses
  <2>3. CASE name = "binary_ninja"
    <3>1. outcome \in NotRun \cup {"missing"} => Integrate(name, outcome) = IU
      BY <2>3 DEF Integrate, NotRun
    <3> QED
      BY <3>1, Statuses
  <2> QED
    BY <2>1, <2>2, <2>3
<1>4. ASSUME NEW matches \in 0..2, NEW size \in 0..2, NEW written \in 0..2, NEW inside \in BOOLEAN,
             Status(ExtractRegion(outcome, matches, [size |-> size, limit |-> 1],
                                  [inside |-> inside, size |-> written])) = 200
      PROVE  /\ outcome \in {"empty", "usable"}
             /\ matches = 1 /\ inside /\ written = size /\ size = 1
  <2> DEFINE reads == [o \in DOMAIN PluginReads |-> IF o \in Shapes THEN IU ELSE PluginReads[o]]
             result == ExtractRegion(outcome, matches, [size |-> size, limit |-> 1],
                                     [inside |-> inside, size |-> written])
             exact == /\ matches = 1 /\ size <= 1 /\ inside /\ written = size /\ written >= 1
  <2>1. result = IF Run(outcome, reads) = "answer" /\ ~exact THEN IU ELSE Run(outcome, reads)
    BY DEF ExtractRegion
  <2>2. DOMAIN PluginReads = Read
    BY OutcomesSplit DEF PluginReads
  <2>3. \A o \in Read :
          /\ PluginReads[o] \in {IU, "answer", "UnicodeDecodeError"} \/ o \in Shapes
          /\ PluginReads[o] = "answer" => o \in {"empty", "usable"} \/ o \in Shapes
    BY OutcomesSplit DEF PluginReads, Shapes, IU
  <2>4. \A o \in Read : /\ reads[o] \in {IU, "answer", "UnicodeDecodeError"}
                        /\ reads[o] = "answer" => o \in {"empty", "usable"}
    BY <2>2, <2>3, Statuses
  <2> HIDE DEF result, reads
  <2>5. /\ Run(outcome, reads) \in {IU, "answer", "OSError", "UnicodeDecodeError"}
        /\ Run(outcome, reads) = "answer" => outcome \in {"empty", "usable"}
    BY <1>1, <1>2, <2>4, Statuses
  <2>6. exact => matches = 1 /\ inside /\ written = size /\ size = 1
    OBVIOUS
  <2> HIDE DEF exact
  <2>7. Status(result) = 200
    BY <1>4 DEF result
  <2>8. Run(outcome, reads) = "answer" /\ exact
    BY <2>1, <2>5, <2>7, Statuses
  <2> QED
    BY <2>5, <2>6, <2>8
<1>5. ASSUME NEW sample \in SampleStates, Status(Unpack(outcome, sample)) = 200
      PROVE  /\ sample \notin {"damaged", "gone"}
             /\ outcome \in {"usable", "not_text", "not_json"}
  <2>1. \A o \in Read : \/ UpxReads[o] \in {IU, "ParseError"}
                        \/ UpxReads[o] = "answer" /\ o \in {"usable", "not_text", "not_json"}
    BY OutcomesSplit DEF UpxReads
  <2>2. ~(outcome = "missing" \/ sample = "gone")
    <3>1. ASSUME outcome = "missing" \/ sample = "gone"
          PROVE  Unpack(outcome, sample) = IU
      BY <3>1 DEF Unpack
    <3> QED
      BY <1>5, <3>1, Statuses
  <2>3. sample # "damaged"
    <3>1. ASSUME sample = "damaged"
          PROVE  Unpack(outcome, sample) = "ParseError"
      BY <2>2, <3>1 DEF Unpack
    <3> QED
      BY <1>5, <3>1, Statuses
  <2>4. Unpack(outcome, sample) = Run(outcome, UpxReads)
    BY <2>2, <2>3 DEF Unpack
  <2> QED
    BY <1>1, <1>2, <1>5, <2>1, <2>2, <2>3, <2>4, Statuses
<1>6. ASSUME NEW sample \in SampleStates, Enrich(outcome, sample) = "answer"
      PROVE  sample # "gone" /\ outcome \notin NotRun /\ TriageReads[outcome] = "answer"
  <2>1. ~(sample = "gone" \/ outcome \in Failing)
    <3>1. ASSUME sample = "gone" \/ outcome \in Failing
          PROVE  Enrich(outcome, sample) = "detail"
      BY <3>1 DEF Enrich, Failing
    <3> QED
      BY <1>6, <3>1
  <2>2. outcome # "cannot_start"
    <3>1. ASSUME outcome = "cannot_start"
          PROVE  Enrich(outcome, sample) = "OSError"
      BY <2>1, <3>1 DEF Enrich
    <3> QED
      BY <1>6, <3>1
  <2>3. Enrich(outcome, sample) = TriageReads[outcome]
    BY <2>1, <2>2 DEF Enrich, Failing
  <2> QED
    BY <1>6, <2>1, <2>2, <2>3, OutcomesSplit
<1> QED
  BY <1>3, <1>4, <1>5, <1>6, Zenon DEF NoResultWithoutRun

-----------------------------------------------------------------------------
(* Databases *)

\* The revision that adds each part of a schema.
Since ==
    [piece \in {"initial", "project_owner", "bigint", "grants", "owners", "audit_events",
                "region_artifacts"} |->
        CASE piece = "initial" -> 1 [] piece = "project_owner" -> 2 [] piece = "bigint" -> 3
          [] piece \in {"grants", "owners"} -> 4 [] piece = "audit_events" -> 5 [] OTHER -> 6]
Everything == DOMAIN Since

Databases == [has : SUBSET Everything, revision : 0..6]

\* What a revision adds and what there is at one.
LEMMA SinceAdded ==
  /\ \A piece \in Everything : Since[piece] \in 1..6
  /\ \A r \in 1..6 : Added(r) = {piece \in Everything : Since[piece] = r}
  /\ Tables \subseteq Everything
<1>1. Everything = {"initial", "project_owner", "bigint", "grants", "owners", "audit_events",
                    "region_artifacts"}
  BY DEF Everything, Since
<1>2. /\ Since["initial"] = 1 /\ Since["project_owner"] = 2 /\ Since["bigint"] = 3
      /\ Since["grants"] = 4 /\ Since["owners"] = 4 /\ Since["audit_events"] = 5
      /\ Since["region_artifacts"] = 6
  BY DEF Since
<1>3. /\ Added(1) = {"initial"} /\ Added(2) = {"project_owner"} /\ Added(3) = {"bigint"}
      /\ Added(4) = {"grants", "owners"} /\ Added(5) = {"audit_events"}
      /\ Added(6) = {"region_artifacts"}
  BY DEF Added, InitialSchema, ProjectOwnership, Values64Bit, ResourceOwnership, AuditEvents,
         MemoryRegionArtifacts
<1>4. \A piece \in Everything : Since[piece] \in 1..6
  BY <1>1, <1>2
<1>5. ASSUME NEW r \in 1..6
      PROVE  Added(r) = {piece \in Everything : Since[piece] = r}
  <2>1. r = 1 \/ r = 2 \/ r = 3 \/ r = 4 \/ r = 5 \/ r = 6
    OBVIOUS
  <2> QED
    BY <1>1, <1>2, <1>3, <2>1
<1> QED
  BY <1>1, <1>4, <1>5 DEF Tables

\* A schema is what came with its revision or before.
LEMMA SchemaIs ==
  ASSUME NEW r \in 0..6
  PROVE  Schema(r) = {piece \in Everything : Since[piece] <= r}
<1>1. ASSUME NEW piece \in Schema(r)
      PROVE  piece \in Everything /\ Since[piece] <= r
  <2>1. PICK k \in 1..r : piece \in Added(k)
    BY <1>1 DEF Schema
  <2>2. k \in 1..6
    OBVIOUS
  <2> QED
    BY <2>1, <2>2, SinceAdded
<1>2. ASSUME NEW piece \in Everything, Since[piece] <= r
      PROVE  piece \in Schema(r)
  <2>1. Since[piece] \in 1..6 /\ Since[piece] \in 1..r
    BY <1>2, SinceAdded
  <2>2. piece \in Added(Since[piece])
    BY <2>1, SinceAdded
  <2> QED
    BY <2>1, <2>2 DEF Schema
<1> QED
  BY <1>1, <1>2

\* A revision loses nothing, and is applied to the one before it.
LEMMA AdvanceFacts ==
  ASSUME NEW db \in Databases, NEW r \in 1..6
  PROVE  /\ Advance(db, r) \in Databases
         /\ db.has \subseteq Advance(db, r).has
         /\ StampTrue(db) => StampTrue(Advance(db, r))
         /\ db.revision # 0 => Advance(db, r).revision # 0
         /\ db.revision # r - 1 => Advance(db, r) = db
         /\ db = [has |-> Schema(r - 1), revision |-> r - 1] =>
              Advance(db, r) = [has |-> Schema(r), revision |-> r]
<1>1. Added(r) \subseteq Everything /\ r - 1 \in 0..6 /\ r \in 0..6
  BY SinceAdded
<1>2. Schema(r) = Schema(r - 1) \cup Added(r)
  <2>1. \A piece \in Everything : Since[piece] <= r <=> Since[piece] <= r - 1 \/ Since[piece] = r
    BY SinceAdded
  <2> QED
    BY <1>1, <2>1, SchemaIs, SinceAdded
<1>3. Added(r) \cap Schema(r - 1) = {}
  BY <1>1, SchemaIs, SinceAdded
<1>4. db.has \in SUBSET Everything /\ db.revision \in 0..6
  BY DEF Databases
<1>5. CASE db.revision = r - 1 /\ CanApply(db, r)
  <2>1. Advance(db, r) = [has |-> db.has \cup Added(r), revision |-> r]
    BY <1>5 DEF Advance, Apply
  <2>2. Advance(db, r) \in Databases
    BY <1>1, <1>4, <2>1 DEF Databases
  <2>3. ASSUME StampTrue(db)
        PROVE  StampTrue(Advance(db, r))
    <3>1. Schema(r - 1) \subseteq db.has
      <4>1. CASE r = 1
        BY <4>1, 1..0 = {} DEF Schema
      <4>2. CASE r # 1
        BY <1>5, <2>3, <4>2 DEF StampTrue
      <4> QED
        BY <4>1, <4>2
    <3> QED
      BY <1>2, <2>1, <3>1 DEF StampTrue
  <2>4. db.has \subseteq Advance(db, r).has
    BY <2>1
  <2>5. ASSUME db = [has |-> Schema(r - 1), revision |-> r - 1]
        PROVE  Advance(db, r) = [has |-> Schema(r), revision |-> r]
    <3>1. db.has = Schema(r - 1)
      BY <2>5
    <3> QED
      BY <1>2, <2>1, <3>1
  <2>6. Advance(db, r).revision # 0
    BY <2>1
  <2> QED
    BY <1>5, <2>2, <2>3, <2>4, <2>5, <2>6
<1>6. CASE ~(db.revision = r - 1 /\ CanApply(db, r))
  <2>1. Advance(db, r) = db
    BY <1>6 DEF Advance
  <2>2. db # [has |-> Schema(r - 1), revision |-> r - 1]
    BY <1>3, <1>6 DEF CanApply
  <2> QED
    BY <2>1, <2>2
<1> QED
  BY <1>5, <1>6

\* An upgrade is the six revisions one after the other.
Upgrades(after, db) ==
    /\ after \in [0..6 -> Databases]
    /\ after[0] = db
    /\ \A n \in 1..6 : after[n] = Advance(after[n - 1], n)

LEMMA UpgradeLoop ==
  ASSUME NEW db \in Databases
  PROVE  \E after : Upgrades(after, db) /\ Upgraded(db) = after[6]
<1> DEFINE lines == [r \in Revisions |-> r]
           step == [n \in 1..6 |-> [d \in Databases |-> Advance(d, n)]]
           loop(f) == f = [n \in 0..Len(lines) |->
                             IF n = 0 THEN db ELSE Advance(f[n - 1], lines[n])]
           after == CHOOSE f : loop(f)
<1>1. lines \in Seq(Nat) /\ Len(lines) = 6 /\ \A n \in 1..6 : lines[n] = n
  BY DEF Revisions
<1>2. Upgraded(db) = after[Len(lines)]
  BY DEF Upgraded, Folded
<1> HIDE DEF lines
<1>3. /\ step \in Turns(Databases, 6)
      /\ \A n \in 1..6 : \A d \in Databases : step[n][d] = Advance(d, n)
  BY AdvanceFacts DEF Turns
<1> HIDE DEF step
<1>4. \E f : loop(f)
  <2>1. PICK f : Iterates(f, Databases, 6, db, step)
    BY <1>3, IterationExists, 6 \in Nat
  <2>2. /\ f \in [0..6 -> Databases] /\ f[0] = db
        /\ \A n \in 1..6 : f[n] = step[n][f[n - 1]]
    BY <2>1 DEF Iterates
  <2>3. \A n \in 0..6 : f[n] = IF n = 0 THEN db ELSE Advance(f[n - 1], lines[n])
    <3> SUFFICES ASSUME NEW n \in 0..6, n # 0 PROVE f[n] = Advance(f[n - 1], lines[n])
      BY <2>2
    <3>1. n \in 1..6 /\ n - 1 \in 0..6
      OBVIOUS
    <3> QED
      BY <1>1, <1>3, <2>2, <3>1
  <2> QED
    BY <1>1, <2>2, <2>3
<1>5. loop(after)
  BY <1>4
<1> HIDE DEF after
<1>6. after[0] = db /\ \A n \in 1..6 : after[n] = Advance(after[n - 1], n)
  BY <1>1, <1>5, 0 \in 0..6
<1>7. DOMAIN after = 0..6 /\ after = [n \in 0..6 |-> after[n]]
  BY <1>1, <1>5
<1> DEFINE good == {n \in 0..6 : after[n] \in Databases}
<1>8. good = 0..6
  <2>1. 0 \in good /\ good \in SUBSET (0..6)
    BY <1>6
  <2>2. \A n \in 1..6 : n - 1 \in good => n \in good
    BY <1>6, AdvanceFacts
  <2> HIDE DEF good
  <2> QED
    BY <2>1, <2>2, FirstFailure, 6 \in Nat
<1>9. after \in [0..6 -> Databases]
  BY <1>7, <1>8
<1> QED
  BY <1>1, <1>2, <1>6, <1>9 DEF Upgrades

\* An upgrade loses nothing and keeps the version table true; from a revision with
\* exactly its schema it gets to the current one.
LEMMA UpgradeFacts ==
  ASSUME NEW db \in Databases
  PROVE  /\ Upgraded(db) \in Databases
         /\ db.has \subseteq Upgraded(db).has
         /\ StampTrue(db) => StampTrue(Upgraded(db))
         /\ db.revision # 0 => Upgraded(db).revision # 0
         /\ db.has = Schema(db.revision) => Upgraded(db) = [has |-> Schema(6), revision |-> 6]
<1>1. PICK after : /\ after \in [0..6 -> Databases] /\ after[0] = db
                   /\ \A n \in 1..6 : after[n] = Advance(after[n - 1], n)
                   /\ Upgraded(db) = after[6]
  BY UpgradeLoop DEF Upgrades
<1> DEFINE good == {n \in 0..6 : /\ db.has \subseteq after[n].has
                                 /\ StampTrue(db) => StampTrue(after[n])
                                 /\ db.revision # 0 => after[n].revision # 0}
<1>2. good = 0..6
  <2>1. 0 \in good /\ good \in SUBSET (0..6)
    BY <1>1
  <2>2. \A n \in 1..6 : n - 1 \in good => n \in good
    <3> SUFFICES ASSUME NEW n \in 1..6, n - 1 \in good PROVE n \in good
      OBVIOUS
    <3>1. after[n - 1] \in Databases /\ n \in 0..6
      BY <1>1
    <3> QED
      BY <1>1, <3>1, AdvanceFacts
  <2> HIDE DEF good
  <2> QED
    BY <2>1, <2>2, FirstFailure, 6 \in Nat
<1>3. ASSUME db.has = Schema(db.revision)
      PROVE  Upgraded(db) = [has |-> Schema(6), revision |-> 6]
  <2> DEFINE v == db.revision
             clean == {n \in 0..6 : after[n] = IF n <= v THEN db
                                               ELSE [has |-> Schema(n), revision |-> n]}
  <2>1. v \in 0..6 /\ db = [has |-> Schema(v), revision |-> v]
    BY <1>3 DEF Databases
  <2> HIDE DEF v
  <2>2. 0 \in clean /\ clean \in SUBSET (0..6)
    BY <1>1, <2>1
  <2>3. ASSUME NEW n \in 1..6, n - 1 \in clean
        PROVE  n \in clean
    <3>1. after[n - 1] \in Databases /\ n \in 0..6 /\ after[n] = Advance(after[n - 1], n)
      BY <1>1
    <3>2. CASE n <= v
      <4>1. after[n - 1] = db
        BY <2>1, <2>3, <3>2
      <4>2. db.revision # n - 1
        BY <2>1, <3>2
      <4> QED
        BY <3>1, <3>2, <4>1, <4>2, AdvanceFacts
    <3>3. CASE ~(n <= v)
      <4>1. after[n - 1] = [has |-> Schema(n - 1), revision |-> n - 1]
        <5>1. CASE n - 1 <= v
          <6>1. n - 1 = v
            BY <2>1, <3>3, <5>1
          <6> QED
            BY <2>1, <2>3, <6>1
        <5>2. CASE ~(n - 1 <= v)
          BY <2>3, <5>2
        <5> QED
          BY <5>1, <5>2
      <4> QED
        BY <3>1, <3>3, <4>1, AdvanceFacts
    <3> QED
      BY <3>2, <3>3
  <2>4. clean = 0..6
    <3> HIDE DEF clean
    <3> QED
      BY <2>2, <2>3, FirstFailure, 6 \in Nat
  <2>5. 6 \in clean
    BY <2>4
  <2>6. after[6] = IF 6 <= v THEN db ELSE [has |-> Schema(6), revision |-> 6]
    BY <2>5
  <2> QED
    BY <1>1, <2>1, <2>6
<1>4. 6 \in good /\ 6 \in 0..6
  BY <1>2
<1> QED
  BY <1>1, <1>3, <1>4

\* A database that has exactly the schema of a revision is recognised as of this one.
LEMMA LegacyFacts ==
  ASSUME NEW db \in Databases
  PROVE  \A r \in Revisions : db.has = Schema(r) => Legacy(db) = {r}
<1>1. /\ \A piece \in Tables : piece \in {"initial", "grants", "audit_events", "region_artifacts"}
      /\ \A piece \in {"initial", "grants", "audit_events", "region_artifacts"} : piece \in Tables
      /\ Everything = {"initial", "project_owner", "bigint", "grants", "owners",
                       "audit_events", "region_artifacts"}
  BY DEF Tables, Everything, Since
<1>2. /\ Since["initial"] = 1 /\ Since["project_owner"] = 2 /\ Since["bigint"] = 3
      /\ Since["grants"] = 4 /\ Since["owners"] = 4 /\ Since["audit_events"] = 5
      /\ Since["region_artifacts"] = 6
  BY DEF Since
<1>3. /\ TablesOf(1) = {"initial"} /\ TablesOf(2) = {"initial"} /\ TablesOf(3) = {"initial"}
      /\ TablesOf(4) = {"initial", "grants"}
      /\ TablesOf(5) = {"initial", "grants", "audit_events"}
      /\ TablesOf(6) = {"initial", "grants", "audit_events", "region_artifacts"}
  BY <1>1, <1>2, SchemaIs DEF TablesOf
<1>4. \A r \in 1..6 : /\ "grants" \in Schema(r) <=> r >= 4
                      /\ "owners" \in Schema(r) <=> r >= 4
                      /\ "project_owner" \in Schema(r) <=> r >= 2
                      /\ "bigint" \in Schema(r) <=> r >= 3
  BY <1>1, <1>2, SchemaIs
<1> SUFFICES ASSUME NEW r \in 1..6, db.has = Schema(r) PROVE Legacy(db) = {r}
  BY DEF Revisions
<1>5. db.has \cap Tables = TablesOf(r)
  BY DEF TablesOf
<1>6. CASE r >= 4
  <2>1. TablesOf(r) # TablesOf(3) /\ \A k \in 4..6 : TablesOf(r) = TablesOf(k) <=> k = r
    BY <1>3, <1>6
  <2>2. Legacy(db) = {k \in 4..6 : TablesOf(r) = TablesOf(k)}
    BY <1>4, <1>5, <1>6, <2>1 DEF Legacy
  <2> QED
    BY <1>6, <2>1, <2>2
<1>7. CASE ~(r >= 4)
  <2>1. r \in 1..3 /\ TablesOf(r) = TablesOf(3)
    BY <1>3, <1>7
  <2>2. Legacy(db) = IF "project_owner" \notin db.has THEN {1}
                     ELSE IF "bigint" \in db.has THEN {3} ELSE {2}
    <3>1. "grants" \notin db.has
      BY <1>4, <1>7
    <3>2. db.has \cap Tables \in {TablesOf(k) : k \in 3..6}
      BY <1>5, <2>1
    <3> QED
      BY <1>1, <1>5, <2>1, <3>1, <3>2 DEF Legacy
  <2> QED
    BY <1>4, <2>1, <2>2
<1> QED
  BY <1>6, <1>7

\* What a bootstrap makes of a database under version control, of one that is refused, and
\* of one that has the schema of a revision.
LEMMA BootstrapFacts ==
  ASSUME NEW db \in Databases, NEW crash \in BOOLEAN
  PROVE  /\ db.revision # 0 => Bootstrap(db, crash) = Upgraded(db)
         /\ db.revision = 0 /\ db.has # {} /\ Legacy(db) = {} => Bootstrap(db, crash) = db
         /\ \A k \in Revisions :
              db.revision = 0 /\ db.has = Schema(k) =>
                Bootstrap(db, crash) = IF crash THEN [has |-> Schema(k), revision |-> k]
                                       ELSE [has |-> Schema(6), revision |-> 6]
<1>1. ASSUME NEW k \in Revisions, db.revision = 0, db.has = Schema(k)
      PROVE  Bootstrap(db, crash) = IF crash THEN [has |-> Schema(k), revision |-> k]
                                    ELSE [has |-> Schema(6), revision |-> 6]
  <2> DEFINE stamped == [db EXCEPT !.revision = CHOOSE r \in Legacy(db) : TRUE]
  <2>1. Legacy(db) = {k} /\ k \in 0..6
    BY <1>1, LegacyFacts DEF Revisions
  <2>2. stamped = [has |-> Schema(k), revision |-> k] /\ stamped \in Databases
    BY <1>1, <2>1 DEF Databases
  <2>3. db.has # {}
    <3>1. "initial" \in Everything /\ Since["initial"] = 1
      BY DEF Everything, Since
    <3>2. 1 <= k
      BY DEF Revisions
    <3>3. "initial" \in Schema(k)
      BY <2>1, <3>1, <3>2, SchemaIs
    <3> QED
      BY <1>1, <3>3
  <2>4. Bootstrap(db, crash) = IF crash THEN stamped ELSE Upgraded(stamped)
    BY <1>1, <2>1, <2>3 DEF Bootstrap
  <2> HIDE DEF stamped
  <2>5. Upgraded(stamped) = [has |-> Schema(6), revision |-> 6]
    BY <2>2, UpgradeFacts
  <2> QED
    BY <2>2, <2>4, <2>5
<1>2. db.revision # 0 => Bootstrap(db, crash) = Upgraded(db)
  BY DEF Bootstrap
<1>3. db.revision = 0 /\ db.has # {} /\ Legacy(db) = {} => Bootstrap(db, crash) = db
  BY DEF Bootstrap
<1> QED
  BY <1>1, <1>2, <1>3

\* A database made by migrations has at least what its version says, and nothing else
\* unless newer models started on it.
LEMMA MigratedHistory ==
  ASSUME NEW r \in Revisions, NEW started \in 0..6
  PROVE  LET db == History(r, "migrations", started)
         IN /\ db \in Databases /\ db.revision = r /\ Schema(r) \subseteq db.has
            /\ started <= r => db.has = Schema(r)
<1> DEFINE db == History(r, "migrations", started)
<1>1. r \in 0..6 /\ r \in 1..6
  BY DEF Revisions
<1>2. "initial" \in Schema(r)
  <2>1. "initial" \in Everything /\ Since["initial"] = 1
    BY DEF Everything, Since
  <2> QED
    BY <1>1, <2>1, SchemaIs
<1>3. Made(r, "migrations") = [has |-> Schema(r), revision |-> r]
  BY DEF Made
<1>4. db = [has |-> IF started = 0 THEN Schema(r) ELSE Schema(r) \cup (Schema(started) \cap Tables),
            revision |-> r]
  BY <1>2, <1>3 DEF History, CreateAll
<1>5. Schema(r) \in SUBSET Everything /\ Schema(started) \in SUBSET Everything
  BY <1>1, SchemaIs
<1>6. started <= r => Schema(started) \subseteq Schema(r)
  BY <1>1, SchemaIs, SinceAdded
<1> HIDE DEF db
<1>7. db \in Databases
  BY <1>1, <1>4, <1>5 DEF Databases
<1> QED
  BY <1>4, <1>6, <1>7 DEF db

\* A database made by models has the schema of a revision, whatever models started on it,
\* or newer ones have left it with grants and without the owners.
LEMMA ModelledHistory ==
  ASSUME NEW r \in Revisions, NEW started \in 0..6
  PROVE  LET db == History(r, "models", started)
         IN /\ db \in Databases /\ db.revision = 0 /\ db.has # {}
            /\ \/ \E k \in Revisions : db.has = Schema(k)
               \/ started > r /\ Legacy(db) = {}
<1> DEFINE db == History(r, "models", started)
<1>1. r \in 0..6 /\ r \in 1..6 /\ r \in Nat /\ started \in Nat
  BY DEF Revisions
<1>2. /\ Everything = {"initial", "project_owner", "bigint", "grants", "owners",
                       "audit_events", "region_artifacts"}
      /\ Since["initial"] = 1 /\ Since["project_owner"] = 2 /\ Since["bigint"] = 3
      /\ Since["grants"] = 4 /\ Since["owners"] = 4 /\ Since["audit_events"] = 5
      /\ Since["region_artifacts"] = 6
  BY DEF Everything, Since
<1>3. "initial" \in Schema(r)
  BY <1>1, <1>2, SchemaIs
<1>4. Made(r, "models") = [has |-> Schema(r), revision |-> 0]
  BY DEF Made, CreateAll, Empty
<1>5. db = [has |-> IF started = 0 THEN Schema(r) ELSE Schema(r) \cup (Schema(started) \cap Tables),
            revision |-> 0]
  BY <1>3, <1>4 DEF History, CreateAll
<1>6. Schema(r) \in SUBSET Everything /\ Schema(started) \in SUBSET Everything
  BY <1>1, SchemaIs
<1> HIDE DEF db
<1>7. db \in Databases /\ db.revision = 0 /\ db.has # {}
  BY <1>3, <1>5, <1>6 DEF Databases
<1>8. CASE started <= r
  <2>1. Schema(started) \subseteq Schema(r)
    BY <1>1, <1>8, SchemaIs, SinceAdded
  <2>2. db.has = Schema(r)
    BY <1>5, <2>1
  <2> QED
    BY <1>7, <2>2 DEF db
<1>9. CASE started > r /\ r >= 4
  <2>1. db.has = Schema(r) \cup (Schema(started) \cap Tables) /\ started \in Revisions
    BY <1>1, <1>5, <1>9 DEF Revisions
  <2>2. ASSUME NEW piece \in Everything
        PROVE  piece \in db.has <=> piece \in Schema(started)
    <3>1. Since[piece] <= 4 \/ piece \in Tables
      BY <1>2 DEF Tables
    <3>2. Since[piece] \in 1..6
      BY SinceAdded
    <3>3. /\ piece \in Schema(r) <=> Since[piece] <= r
          /\ piece \in Schema(started) <=> Since[piece] <= started
      BY <1>1, SchemaIs
    <3> QED
      BY <1>1, <1>9, <2>1, <3>1, <3>2, <3>3
  <2>3. db.has = Schema(started)
    BY <1>6, <1>7, <2>2 DEF Databases
  <2> QED
    BY <1>7, <2>1, <2>3 DEF db
<1>10. CASE started > r /\ started <= 3
  <2>1. db.has = Schema(r) \cup (Schema(started) \cap Tables)
    BY <1>1, <1>5, <1>10
  <2>2. ASSUME NEW piece \in Schema(started) \cap Tables
        PROVE  piece \in Schema(r)
    <3>1. piece \in Everything /\ Since[piece] <= started
      BY <1>1, SchemaIs
    <3>2. piece \in {"initial", "grants", "audit_events", "region_artifacts"}
      BY DEF Tables
    <3>3. piece = "initial"
      BY <1>2, <1>10, <3>1, <3>2
    <3> QED
      BY <1>3, <3>3
  <2>3. db.has = Schema(r)
    BY <2>1, <2>2
  <2> QED
    BY <1>7, <2>3 DEF db
<1>11. CASE r <= 3 /\ started > 3
  <2>1. db.has = Schema(r) \cup (Schema(started) \cap Tables)
    BY <1>1, <1>5, <1>11
  <2>2. "grants" \in Schema(started) /\ "owners" \notin Schema(r)
    BY <1>1, <1>2, <1>11, SchemaIs
  <2>3. "grants" \in Tables /\ "owners" \notin Tables
    BY DEF Tables
  <2>4. "grants" \in db.has /\ "owners" \notin db.has
    BY <2>1, <2>2, <2>3
  <2>5. Legacy(db) = {}
    BY <2>3, <2>4 DEF Legacy
  <2>6. started > r
    BY <1>1, <1>11
  <2> QED
    BY <1>7, <2>5, <2>6 DEF db
<1> QED
  BY <1>1, <1>8, <1>9, <1>10, <1>11

\* A bootstrap leaves the current schema, also when an earlier one was interrupted after
\* its stamp, or it leaves an unversioned database alone; it destroys nothing and keeps the
\* version table true (database/migrate.py).
THEOREM EveryDatabaseAdopted ==
  ASSUME NEW r \in Revisions, NEW by \in {"models", "migrations"}, NEW started \in 0..6,
         NEW crash \in BOOLEAN
  PROVE  Adopted(r, by, started, crash)
<1> DEFINE before == History(r, by, started)
           once == Bootstrap(before, crash)
           after == Bootstrap(once, FALSE)
           final == [has |-> Schema(6), revision |-> 6]
<1>1. /\ StampTrue(final) /\ Current(final) /\ final \in Databases /\ final.revision # 0
      /\ Upgraded(final) = final
  <2>1. Schema(6) \in SUBSET Everything
    BY SchemaIs
  <2>2. final \in Databases
    BY <2>1 DEF Databases
  <2>3. final.has = Schema(final.revision)
    OBVIOUS
  <2>4. Upgraded(final) = final
    BY <2>2, <2>3, UpgradeFacts
  <2> QED
    BY <2>2, <2>4 DEF StampTrue, Current, Latest
<1> HIDE DEF final
<1>2. CASE by = "migrations"
  <2>1. /\ before \in Databases /\ before.revision = r /\ Schema(r) \subseteq before.has
        /\ started <= r => before.has = Schema(r)
    BY <1>2, MigratedHistory
  <2>2. r # 0 /\ StampTrue(before)
    BY <2>1 DEF StampTrue, Revisions
  <2> HIDE DEF before
  <2>3. once = Upgraded(before)
    BY <2>1, <2>2, BootstrapFacts
  <2>4. /\ once \in Databases /\ before.has \subseteq once.has /\ StampTrue(once)
        /\ once.revision # 0
        /\ before.has = Schema(r) => once = final
    BY <2>1, <2>2, <2>3, UpgradeFacts DEF final
  <2>5. CASE started <= r
    <3>1. once = final
      BY <2>1, <2>4, <2>5
    <3>2. after = final
      BY <1>1, <3>1, BootstrapFacts
    <3> QED
      BY <1>1, <2>4, <3>1, <3>2 DEF Adopted, before
  <2>6. CASE ~(started <= r)
    <3>1. r \in Nat /\ started \in Nat /\ started > r /\ started \notin 0..r
      BY <2>6 DEF Revisions
    <3>2. /\ after \in Databases /\ once.has \subseteq after.has /\ StampTrue(after)
      <4>1. after = Upgraded(once)
        BY <2>4, BootstrapFacts
      <4> QED
        BY <2>4, <4>1, UpgradeFacts
    <3> QED
      BY <1>2, <2>4, <3>1, <3>2 DEF Adopted, before
  <2> QED
    BY <2>5, <2>6
<1>3. CASE by = "models"
  <2>1. /\ before \in Databases /\ before.revision = 0 /\ before.has # {}
        /\ \/ \E k \in Revisions : before.has = Schema(k)
           \/ started > r /\ Legacy(before) = {}
    BY <1>3, ModelledHistory
  <2> HIDE DEF before
  <2>2. CASE \E k \in Revisions : before.has = Schema(k)
    <3>1. PICK k \in Revisions : before.has = Schema(k)
      BY <2>2
    <3> DEFINE stamped == [has |-> Schema(k), revision |-> k]
    <3>2. /\ stamped \in Databases /\ stamped.revision # 0 /\ StampTrue(stamped)
          /\ Upgraded(stamped) = final
      <4>1. k \in 0..6 /\ k # 0
        BY DEF Revisions
      <4>2. Schema(k) \in SUBSET Everything
        BY <4>1, SchemaIs
      <4>3. stamped \in Databases /\ stamped.has = Schema(stamped.revision)
        BY <4>1, <4>2 DEF Databases
      <4> QED
        BY <4>1, <4>3, UpgradeFacts DEF StampTrue, final
    <3>3. once = IF crash THEN stamped ELSE final
      BY <2>1, <3>1, BootstrapFacts DEF final
    <3>4. stamped.has = before.has
      BY <3>1
    <3> HIDE DEF stamped
    <3>5. after = final /\ StampTrue(once)
      BY <1>1, <3>2, <3>3, BootstrapFacts
    <3>6. before.has \subseteq final.has
      BY <3>2, <3>4, UpgradeFacts
    <3> QED
      BY <1>1, <3>5, <3>6 DEF Adopted, before
  <2>3. CASE started > r /\ Legacy(before) = {}
    <3>1. once = before
      BY <2>1, <2>3, BootstrapFacts
    <3>2. after = before
      BY <2>1, <2>3, <3>1, BootstrapFacts
    <3>3. r \in Nat /\ started \notin 0..r
      BY <2>3 DEF Revisions
    <3> QED
      BY <2>1, <2>3, <3>1, <3>2, <3>3 DEF Adopted, StampTrue, before
  <2> QED
    BY <2>1, <2>2, <2>3
<1> QED
  BY <1>2, <1>3

-----------------------------------------------------------------------------
(* Functions *)

\* How many elements of S are below x.
Rank(S, x) == Cardinality({y \in S : y < x})

LEMMA RankFacts ==
  ASSUME NEW S \in SUBSET Nat, IsFiniteSet(S)
  PROVE  /\ Cardinality(S) \in Nat
         /\ \A x \in S : Rank(S, x) \in Nat /\ Rank(S, x) < Cardinality(S)
         /\ \A x, y \in S : x < y => Rank(S, x) < Rank(S, y)
<1> DEFINE below(x) == {z \in S : z < x}
<1>1. \A x \in S : below(x) \in SUBSET S /\ x \notin below(x)
  OBVIOUS
<1>2. Cardinality(S) \in Nat
  BY FS_CardinalityType
<1>3. \A x : Rank(S, x) = Cardinality(below(x))
  BY DEF Rank
<1> HIDE DEF below
<1>4. ASSUME NEW T \in SUBSET S, NEW x \in S, x \notin below(x), below(x) \cup {x} \subseteq T
      PROVE  Rank(S, x) \in Nat /\ Cardinality(T) \in Nat /\ Rank(S, x) < Cardinality(T)
  <2>1. IsFiniteSet(below(x)) /\ IsFiniteSet(T)
    BY <1>1, FS_Subset
  <2>2. Cardinality(below(x)) \in Nat /\ Cardinality(T) \in Nat
    BY <2>1, FS_CardinalityType
  <2>3. Cardinality(below(x) \cup {x}) = Cardinality(below(x)) + 1
    BY <1>4, <2>1, FS_AddElement
  <2>4. Cardinality(below(x) \cup {x}) <= Cardinality(T)
    BY <1>4, <2>1, FS_Subset
  <2> QED
    BY <1>3, <2>2, <2>3, <2>4
<1>5. ASSUME NEW x \in S
      PROVE  Rank(S, x) \in Nat /\ Rank(S, x) < Cardinality(S)
  BY <1>1, <1>4, S \in SUBSET S
<1>6. ASSUME NEW x \in S, NEW y \in S, x < y
      PROVE  Rank(S, x) < Rank(S, y)
  <2>1. below(x) \cup {x} \subseteq below(y)
    <3>1. \A z \in S : z < x => z < y
      BY <1>6
    <3> QED
      BY <1>6, <3>1 DEF below
  <2> QED
    BY <1>1, <1>3, <1>4, <2>1
<1> QED
  BY <1>2, <1>5, <1>6

LEMMA FiniteGreatest ==
  ASSUME NEW S \in SUBSET Nat, IsFiniteSet(S), S # {}
  PROVE  \E m \in S : \A x \in S : x <= m
<1> DEFINE n == Cardinality(S)
           ranks == {Rank(S, x) + 1 : x \in S}
<1>1. n \in Nat /\ \A x \in S : Rank(S, x) \in Nat /\ Rank(S, x) < n
  BY RankFacts
<1> HIDE DEF n
<1>2. ranks \in SUBSET (1..n) /\ ranks # {}
  BY <1>1
<1>3. Max(ranks) \in ranks /\ \A r \in ranks : Max(ranks) >= r
  BY <1>1, <1>2, GreatestExists
<1>4. PICK m \in S : Max(ranks) = Rank(S, m) + 1
  BY <1>3
<1>5. \A x \in S : Rank(S, x) <= Rank(S, m)
  <2>1. \A x \in S : Rank(S, m) + 1 >= Rank(S, x) + 1
    BY <1>3, <1>4
  <2> QED
    BY <1>1, <2>1
<1>6. \A x \in S : ~(m < x)
  BY <1>1, <1>5, RankFacts
<1>7. \A x \in S : x <= m
  BY <1>6
<1> QED
  BY <1>7

\* The lowest n of a set of addresses are n of them, or all when there are no more, and no
\* address that was left out is below one that was not (analysis/functions.py).
LEMMA LowestExact ==
  ASSUME NEW S \in SUBSET Nat, IsFiniteSet(S), NEW n \in Nat
  PROVE  /\ Lowest(S, n) \subseteq S
         /\ \A x \in Lowest(S, n), y \in S \ Lowest(S, n) : x < y
         /\ Cardinality(S) <= n => Lowest(S, n) = S
         /\ Cardinality(S) > n => Cardinality(Lowest(S, n)) = n
<1> DEFINE L == Lowest(S, n)
<1>1. L = {x \in S : Rank(S, x) < n}
  BY DEF Lowest, Rank
<1>2. /\ Cardinality(S) \in Nat
      /\ \A x \in S : Rank(S, x) \in Nat /\ Rank(S, x) < Cardinality(S)
      /\ \A x, y \in S : x < y => Rank(S, x) < Rank(S, y)
  BY RankFacts
<1>3. L \in SUBSET S
  BY <1>1
<1> HIDE DEF L
<1>4. ASSUME NEW x \in L, NEW y \in S \ L
      PROVE  x < y
  <2>1. Rank(S, x) < n /\ ~(Rank(S, y) < n)
    BY <1>1
  <2>2. x # y /\ ~(y < x)
    BY <1>1, <1>2, <2>1
  <2> QED
    BY <1>3, <2>2
<1>5. ASSUME Cardinality(S) <= n
      PROVE  L = S
  <2>1. \A x \in S : Rank(S, x) < n
    BY <1>2, <1>5
  <2> QED
    BY <1>1, <2>1
<1>6. IsFiniteSet(L) /\ Cardinality(L) \in Nat
  BY <1>3, FS_Subset, FS_CardinalityType
<1>7. Cardinality(L) <= n
  <2>1. CASE L = {}
    BY <2>1, FS_EmptySet
  <2>2. CASE L # {}
    <3>1. L \in SUBSET Nat
      BY <1>3
    <3>2. PICK m \in L : \A x \in L : x <= m
      BY <1>6, <2>2, <3>1, FiniteGreatest
    <3> DEFINE below == {y \in S : y < m}
    <3>3. L \in SUBSET (below \cup {m})
      BY <1>3, <3>1, <3>2
    <3>4. Rank(S, m) = Cardinality(below) /\ below \in SUBSET S
      BY DEF Rank
    <3> HIDE DEF below
    <3>5. IsFiniteSet(below)
      BY <3>4, FS_Subset
    <3>6. Cardinality(below) \in Nat
      BY <3>5, FS_CardinalityType
    <3>7. /\ IsFiniteSet(below \cup {m})
          /\ Cardinality(below \cup {m}) \in {Cardinality(below), Cardinality(below) + 1}
      BY <3>5, FS_AddElement
    <3>8. Cardinality(L) <= Cardinality(below \cup {m})
      BY <3>3, <3>7, FS_Subset
    <3>9. Rank(S, m) < n
      BY <1>1
    <3> QED
      BY <1>6, <3>4, <3>6, <3>7, <3>8, <3>9
  <2> QED
    BY <2>1, <2>2
<1>8. ASSUME Cardinality(S) > n
      PROVE  Cardinality(L) >= n
  <2>1. S \ L # {} /\ S \ L \in SUBSET Nat
    <3>1. L # S
      BY <1>2, <1>6, <1>7, <1>8
    <3> QED
      BY <1>3, <3>1
  <2>2. Min(S \ L) \in S \ L /\ \A y \in S \ L : Min(S \ L) <= y
    BY <2>1, LeastExists
  <2>3. PICK x \in S \ L : \A y \in S \ L : x <= y
    BY <2>2
  <2> DEFINE below == {y \in S : y < x}
  <2>4. below \in SUBSET L
    <3> SUFFICES ASSUME NEW y \in S, y < x, y \notin L PROVE FALSE
      OBVIOUS
    <3>1. x <= y
      BY <2>3
    <3>2. x \in Nat /\ y \in Nat
      OBVIOUS
    <3> QED
      BY <3>1, <3>2
  <2>5. Rank(S, x) = Cardinality(below)
    BY DEF Rank
  <2> HIDE DEF below
  <2>6. Cardinality(below) <= Cardinality(L)
    BY <1>6, <2>4, FS_Subset
  <2>7. ~(Rank(S, x) < n) /\ Rank(S, x) \in Nat
    BY <1>1, <1>2
  <2> QED
    BY <1>6, <2>5, <2>6, <2>7
<1>9. /\ L \subseteq S
      /\ \A x \in L, y \in S \ L : x < y
      /\ Cardinality(S) <= n => L = S
      /\ Cardinality(S) > n => Cardinality(L) = n
  BY <1>3, <1>4, <1>5, <1>6, <1>7, <1>8
<1> QED
  BY <1>9 DEF L

\* The call graph of a whole binary keeps to the limit, is marked truncated exactly when
\* a function is missing, and what is missing are the highest addresses
\* (analysis/functions.py).
THEOREM WholeGraphHonest ==
  ASSUME NEW functions, Listed(functions) \in SUBSET Nat, IsFiniteSet(Listed(functions)),
         NEW depth, NEW limits, limits.nodes \in Nat
  PROVE  LET graph == CallGraph(functions, {}, depth, limits)
             listed == Listed(functions)
         IN /\ graph.nodes \subseteq listed
            /\ Cardinality(graph.nodes) <= limits.nodes
            /\ graph.truncated <=> graph.nodes # listed
            /\ \A x \in graph.nodes, y \in listed \ graph.nodes : x < y
<1> DEFINE listed == Listed(functions)
           nodes == Lowest(listed, limits.nodes)
           graph == CallGraph(functions, {}, depth, limits)
<1>1. graph.nodes = nodes /\ graph.truncated = (Cardinality(listed) > limits.nodes)
  BY DEF CallGraph
<1>2. /\ nodes \subseteq listed
      /\ \A x \in nodes, y \in listed \ nodes : x < y
      /\ Cardinality(listed) <= limits.nodes => nodes = listed
      /\ Cardinality(listed) > limits.nodes => Cardinality(nodes) = limits.nodes
  BY LowestExact
<1>3. Cardinality(listed) \in Nat
  BY FS_CardinalityType
<1> HIDE DEF listed, nodes, graph
<1>4. /\ Cardinality(nodes) <= limits.nodes
      /\ (Cardinality(listed) > limits.nodes) <=> nodes # listed
  BY <1>2, <1>3
<1>5. /\ graph.nodes \subseteq listed
      /\ Cardinality(graph.nodes) <= limits.nodes
      /\ graph.truncated <=> graph.nodes # listed
      /\ \A x \in graph.nodes, y \in listed \ graph.nodes : x < y
  BY <1>1, <1>2, <1>4, Zenon
<1> QED
  BY <1>5, Zenon DEF listed, graph

Entries(top) == [address : 0..top, base : 0..top,
                 op : {x \in Instruction : x.target \subseteq 0..top}]

\* Instructions of a section in the order of their addresses, up to some highest one.
Extents(top) ==
    {extent \in Seq(Entries(top)) :
        \A i, j \in DOMAIN extent : i < j => extent[i].address + 2 <= extent[j].address}

LEMMA ExtentFacts ==
  ASSUME NEW top \in Nat, NEW extent \in Extents(top)
  PROVE  /\ DOMAIN extent = 1..Len(extent) /\ Len(extent) \in Nat
         /\ \A i \in DOMAIN extent : extent[i].address \in Nat /\ extent[i].op.target \subseteq 0..top
         /\ \A i, j \in DOMAIN extent : i < j => extent[i].address + 2 <= extent[j].address
<1>1. extent \in Seq(Entries(top))
  BY DEF Extents
<1>2. \A e \in Entries(top) : e.address \in Nat /\ e.op.target \subseteq 0..top
  BY DEF Entries
<1>3. DOMAIN extent = 1..Len(extent) /\ Len(extent) \in Nat
  BY <1>1
<1>4. \A i \in DOMAIN extent : extent[i] \in Entries(top)
  BY <1>1
<1> QED
  BY <1>2, <1>3, <1>4 DEF Extents

\* A function is a first part of its extent, and no direct jump in it leads to an
\* instruction of the extent that was left out: an early return does not cut the rest
\* off, whatever the code (analysis/functions.py).
THEOREM BranchesAlwaysStayInside ==
  ASSUME NEW top \in Nat, NEW extent \in Extents(top), NEW a \in 0..top
  PROVE  LET body == Bounded(extent, a) IN
         /\ \A i \in DOMAIN body : i \in DOMAIN extent /\ body[i] = extent[i]
         /\ \A i \in DOMAIN body :
              IsJump(body[i].op) =>
                body[i].op.target \cap Addresses(extent) \subseteq Addresses(body)
<1> DEFINE targets(i) == {a} \cup UNION {extent[k].op.target :
                                           k \in {n \in 1..i : IsJump(extent[n].op)}}
           ends == {i \in DOMAIN extent :
                      IsReturn(extent[i].op) /\ extent[i].address + 2 > Max(targets(i))}
           m == IF ends = {} THEN Len(extent) ELSE Min(ends)
           body == Bounded(extent, a)
<1>1. /\ DOMAIN extent = 1..Len(extent) /\ Len(extent) \in Nat
      /\ \A i \in DOMAIN extent : extent[i].address \in Nat /\ extent[i].op.target \subseteq 0..top
      /\ \A i, j \in DOMAIN extent : i < j => extent[i].address + 2 <= extent[j].address
  BY ExtentFacts
<1>2. \A i \in DOMAIN extent :
        targets(i) \in SUBSET (0..top) /\ targets(i) # {}
  BY <1>1
<1>3. body = SubSeq(extent, 1, m)
  BY DEF Bounded
<1> HIDE DEF targets
<1>4. ends \in SUBSET Nat /\ ends \subseteq DOMAIN extent
  BY <1>1
<1>5. ends # {} => m \in ends
  BY <1>4, LeastExists
<1>6. m \in 0..Len(extent)
  BY <1>1, <1>4, <1>5
<1> HIDE DEF m, ends, body
<1>7. extent \in Seq(Entries(top))
  BY DEF Extents
<1>8. SubSeq(extent, 1, m) = [i \in 1..m |-> extent[i]]
  BY <1>1, <1>6, <1>7
<1>9. DOMAIN body = 1..m /\ \A i \in 1..m : body[i] = extent[i] /\ i \in DOMAIN extent
  BY <1>1, <1>3, <1>6, <1>8
<1>10. ASSUME NEW i \in 1..m, IsJump(body[i].op),
              NEW t \in body[i].op.target, t \in Addresses(extent)
       PROVE  t \in Addresses(body)
  <2>1. PICK j \in DOMAIN extent : t = extent[j].address
    BY <1>10 DEF Addresses
  <2>2. CASE ends = {}
    <3>1. m = Len(extent)
      BY <2>2 DEF m
    <3>2. j \in DOMAIN body /\ body[j].address = t
      BY <1>1, <1>9, <2>1, <3>1
    <3> QED
      BY <3>2 DEF Addresses
  <2>3. CASE ends # {}
    <3>1. m \in DOMAIN extent /\ extent[m].address + 2 > Max(targets(m))
      BY <1>5, <2>3 DEF ends
    <3>2. t \in targets(m)
      BY <1>9, <1>10 DEF targets
    <3>3. t <= Max(targets(m)) /\ Max(targets(m)) \in Nat
      <4> DEFINE T == targets(m)
      <4>1. T \in SUBSET (0..top) /\ T # {}
        BY <1>2, <3>1
      <4> HIDE DEF T
      <4>2. IsFiniteSet(T)
        BY <4>1, FS_Interval, FS_Subset, 0 \in Int, top \in Int
      <4>3. PICK x \in T : \A y \in T : y <= x
        BY <4>1, <4>2, FiniteGreatest, T \in SUBSET Nat
      <4>4. Max(T) = x
        BY <4>1, <4>3, GreatestOf, T \in SUBSET Int, \A y \in T : x >= y
      <4> QED
        BY <3>2, <4>1, <4>3, <4>4 DEF T
    <3>4. ~(m < j)
      BY <1>1, <2>1, <3>1, <3>3
    <3>5. j \in DOMAIN body /\ body[j].address = t
      BY <1>1, <1>6, <1>9, <2>1, <3>4
    <3> QED
      BY <3>5 DEF Addresses
  <2> QED
    BY <2>2, <2>3
<1>11. /\ \A i \in DOMAIN body : i \in DOMAIN extent /\ body[i] = extent[i]
       /\ \A i \in DOMAIN body :
            IsJump(body[i].op) =>
              body[i].op.target \cap Addresses(extent) \subseteq Addresses(body)
  BY <1>9, <1>10
<1> QED
  BY <1>11, Zenon DEF body

-----------------------------------------------------------------------------
(* Call graphs *)

\* Two lists one after the other.
LEMMA Joined ==
  ASSUME NEW E, NEW p \in Seq(E), NEW q \in Seq(E)
  PROVE  /\ p \o q \in Seq(E) /\ Len(p) \in Nat /\ Len(q) \in Nat
         /\ Len(p \o q) = Len(p) + Len(q)
         /\ \A i \in 1..Len(p) : (p \o q)[i] = p[i]
         /\ \A i \in 1..Len(q) : (p \o q)[Len(p) + i] = q[i]
OBVIOUS

\* A finite set of numbers listed in its order has each of them.
LEMMA AscendingFacts ==
  ASSUME NEW S \in SUBSET Nat, IsFiniteSet(S)
  PROVE  /\ Cardinality(S) \in Nat /\ Ascending(S) \in [1..Cardinality(S) -> S]
         /\ \A x \in S : \E k \in 1..Cardinality(S) : Ascending(S)[k] = x
<1>1. Orders(Below(S), S)
  BY BelowOrders, S \in SUBSET Int
<1> QED
  BY <1>1, ArrangedFacts DEF Ascending

\* The functions that one calls.
Called(functions, a) == At(functions, a).callees \cap Listed(functions)

\* near[k] has the functions within k calls of the root.
Nearer(near, functions, root, depth) ==
    /\ near \in [0..depth -> SUBSET Listed(functions)]
    /\ near[0] = {root}
    /\ \A k \in 1..depth :
          near[k] = near[k - 1] \cup UNION {Called(functions, a) : a \in near[k - 1]}

LEMMA NearExists ==
  ASSUME NEW functions, NEW root \in Listed(functions), NEW depth \in Nat
  PROVE  \E near : /\ Nearer(near, functions, root, depth)
                   /\ Within(functions, root, depth) = near[depth]
<1> DEFINE L == Listed(functions)
           T == SUBSET L
           widened(set) == set \cup UNION {Called(functions, a) : a \in set}
           step == [n \in 1..depth |-> [set \in T |-> widened(set)]]
           loop(f) == f = [k \in 0..depth |->
                             IF k = 0 THEN {root}
                             ELSE f[k - 1] \cup (Listed(functions)
                                     \cap UNION {At(functions, a).callees : a \in f[k - 1]})]
           near == CHOOSE f : loop(f)
<1>1. \A set \in T : widened(set) \in T
  BY DEF Called
<1>2. \A set : set \cup (Listed(functions) \cap UNION {At(functions, a).callees : a \in set})
                 = widened(set)
  BY DEF Called
<1>3. Within(functions, root, depth) = near[depth]
  BY Zenon DEF Within
<1> HIDE DEF L, widened
<1>4. {root} \in T /\ step \in Turns(T, depth)
  BY <1>1 DEF Turns, L
<1>5. \A n \in 1..depth, set \in T : step[n][set] = widened(set)
  OBVIOUS
<1> HIDE DEF step, T
<1>6. PICK f : Iterates(f, T, depth, {root}, step)
  BY <1>4, IterationExists
<1>7. f \in [0..depth -> T] /\ f[0] = {root} /\ \A n \in 1..depth : f[n] = widened(f[n - 1])
  <2>1. \A n \in 1..depth : n - 1 \in 0..depth
    OBVIOUS
  <2> QED
    BY <1>5, <1>6, <2>1 DEF Iterates
<1>8. loop(f)
  <2>1. \A k \in 0..depth :
          f[k] = IF k = 0 THEN {root}
                 ELSE f[k - 1] \cup (Listed(functions)
                        \cap UNION {At(functions, a).callees : a \in f[k - 1]})
    <3>1. \A k \in 0..depth : k # 0 => k \in 1..depth
      OBVIOUS
    <3> QED
      BY <1>2, <1>7, <3>1
  <2> QED
    BY <1>7, <2>1
<1>9. loop(near)
  BY <1>8, Zenon
<1> HIDE DEF near
<1>10. /\ near \in [0..depth -> T] /\ near[0] = {root}
       /\ \A n \in 1..depth : near[n] = widened(near[n - 1])
  <2> DEFINE turn(g, k) == IF k = 0 THEN {root}
                           ELSE g[k - 1] \cup (Listed(functions)
                                  \cap UNION {At(functions, a).callees : a \in g[k - 1]})
  <2>1. near = [k \in 0..depth |-> turn(near, k)]
    BY <1>9
  <2>2. \A k : turn(near, k) = IF k = 0 THEN {root} ELSE widened(near[k - 1])
    BY <1>2, Zenon
  <2> HIDE DEF turn
  <2>3. /\ DOMAIN near = 0..depth /\ near[0] = {root}
        /\ \A n \in 1..depth : near[n] = widened(near[n - 1])
    <3>1. DOMAIN near = 0..depth /\ \A k \in 0..depth : near[k] = turn(near, k)
      BY <2>1
    <3>2. 0 \in 0..depth /\ \A n \in 1..depth : n \in 0..depth /\ n # 0
      OBVIOUS
    <3> QED
      BY <2>2, <3>1, <3>2
  <2>4. \A k \in 0..depth : near[k] = f[k]
    <3> DEFINE good == {k \in 0..depth : near[k] = f[k]}
    <3>1. 0 \in good /\ good \in SUBSET (0..depth)
      BY <1>7, <2>3, 0 \in 0..depth
    <3>2. \A n \in 1..depth : n - 1 \in good => n \in good
      BY <1>7, <2>3
    <3> HIDE DEF good
    <3>3. good = 0..depth
      BY <3>1, <3>2, FirstFailure
    <3> QED
      BY <3>3 DEF good
  <2> QED
    <3>1. \A k \in 0..depth : near[k] \in T
      BY <1>7, <2>4
    <3>2. near = [k \in 0..depth |-> near[k]]
      BY <2>1
    <3> QED
      BY <2>3, <3>1, <3>2
<1>11. Nearer(near, functions, root, depth)
  BY <1>10 DEF Nearer, T, L, widened
<1> QED
  BY <1>3, <1>11

\* What is within k calls is within k + 1.
LEMMA NearerGrows ==
  ASSUME NEW near, NEW functions, NEW root, NEW depth \in Nat,
         Nearer(near, functions, root, depth), NEW k \in 1..depth
  PROVE  /\ near[k - 1] \subseteq near[k]
         /\ \A x \in near[k - 1] : Called(functions, x) \subseteq near[k]
         /\ \A S : (/\ near[k - 1] \subseteq S
                    /\ \A x \in near[k - 1] : Called(functions, x) \subseteq S)
                      => near[k] \subseteq S
BY DEF Nearer

QueueEntries(L, depth) == [address : L, depth : 0..depth]

Searches(L, depth) == [selected : SUBSET L, queue : Seq(QueueEntries(L, depth))]

\* What a turn selects: unless the head is at the full depth, the functions it calls that
\* were not selected yet.
New(functions, depth, s) ==
    IF s.queue[1].depth >= depth THEN {}
    ELSE Called(functions, s.queue[1].address) \ s.selected

\* Of a search with a queue s and the search t after a turn: the head is gone, and what is
\* selected is behind the others.
Turned(s, t, new, left) ==
    /\ left \in Nat /\ Cardinality(new) \in Nat
    /\ Len(s.queue) = left + 1
    /\ t.selected = s.selected \cup new
    /\ Len(t.queue) = left + Cardinality(new)
    /\ \A i \in 1..left : t.queue[i] = s.queue[i + 1]
    /\ \A i \in (left + 1)..Len(t.queue) :
          t.queue[i].address \in new /\ t.queue[i].depth = s.queue[1].depth + 1
    /\ \A x \in new : \E i \in (left + 1)..Len(t.queue) : t.queue[i].address = x

LEMMA TurnFacts ==
  ASSUME NEW functions, Listed(functions) \in SUBSET Nat, IsFiniteSet(Listed(functions)),
         NEW depth \in Nat, NEW s \in Searches(Listed(functions), depth),
         s.queue # <<>>
  PROVE  /\ Turn(functions, depth, s) \in Searches(Listed(functions), depth)
         /\ Turned(s, Turn(functions, depth, s), New(functions, depth, s), Len(s.queue) - 1)
<1> DEFINE L == Listed(functions)
           E == QueueEntries(L, depth)
           head == s.queue[1]
           fresh == Called(functions, head.address) \ s.selected
           sorted == Ascending(fresh)
           added == [i \in 1..Cardinality(fresh) |->
                       [address |-> sorted[i], depth |-> head.depth + 1]]
           left == Len(s.queue) - 1
           t == Turn(functions, depth, s)
<1>1. s.selected \in SUBSET L /\ s.queue \in Seq(E)
  BY DEF Searches
<1>2. /\ left \in Nat /\ head \in E /\ Head(s.queue) = head
      /\ Tail(s.queue) \in Seq(E) /\ Len(Tail(s.queue)) = left
      /\ \A i \in 1..left : Tail(s.queue)[i] = s.queue[i + 1]
  BY <1>1
<1>3. head.depth \in 0..depth
  BY <1>2 DEF QueueEntries
<1>4. fresh \in SUBSET L /\ fresh \in SUBSET Nat /\ IsFiniteSet(fresh)
  <2>1. fresh \in SUBSET L
    BY DEF Called
  <2> QED
    BY <2>1, FS_Subset
<1>5. t = IF head.depth >= depth THEN [s EXCEPT !.queue = Tail(@)]
          ELSE [selected |-> s.selected \cup fresh, queue |-> Tail(s.queue) \o added]
  BY <1>2 DEF Turn, Called
<1>6. /\ Cardinality(fresh) \in Nat /\ sorted \in [1..Cardinality(fresh) -> fresh]
      /\ \A x \in fresh : \E k \in 1..Cardinality(fresh) : sorted[k] = x
  BY <1>4, AscendingFacts
<1> HIDE DEF sorted, head, t
<1>7. CASE head.depth >= depth
  <2>1. t.selected = s.selected /\ t.queue = Tail(s.queue)
        /\ t \in Searches(L, depth)
    <3>1. s = [selected |-> s.selected, queue |-> s.queue]
      BY DEF Searches
    <3> QED
      BY <1>1, <1>2, <1>5, <1>7, <3>1 DEF Searches
  <2>2. Cardinality({}) = 0
    BY FS_EmptySet
  <2> QED
    <3>1. New(functions, depth, s) = {}
      BY <1>7 DEF New, head
    <3>2. Turned(s, t, {}, left)
      BY <1>1, <1>2, <2>1, <2>2 DEF Turned
    <3> QED
      BY <2>1, <3>1, <3>2 DEF t
<1>8. CASE ~(head.depth >= depth)
  <2>1. t.selected = s.selected \cup fresh /\ t.queue = Tail(s.queue) \o added
    BY <1>5, <1>8
  <2> DEFINE m == Cardinality(fresh)
  <2>2. added \in Seq(E) /\ Len(added) = m
    <3>1. \A i \in 1..m : sorted[i] \in L
      BY <1>4, <1>6
    <3>2. head.depth + 1 \in 0..depth
      BY <1>3, <1>8
    <3>3. \A i \in 1..m : [address |-> sorted[i], depth |-> head.depth + 1] \in E
      BY <3>1, <3>2 DEF QueueEntries
    <3>4. m \in Nat /\ added = [i \in 1..m |-> [address |-> sorted[i], depth |-> head.depth + 1]]
      BY <1>6
    <3> HIDE DEF m, E, added
    <3> QED
      BY <3>3, <3>4
  <2>3. \A i \in 1..Cardinality(fresh) :
          added[i].address = sorted[i] /\ added[i].depth = head.depth + 1
    OBVIOUS
  <2> HIDE DEF added, E
  <2>4. /\ t.queue \in Seq(E) /\ Len(t.queue) = left + Cardinality(fresh)
        /\ \A i \in 1..left : t.queue[i] = s.queue[i + 1]
        /\ \A i \in 1..m : t.queue[left + i] = added[i]
    <3> DEFINE q == Tail(s.queue)
    <3>1. /\ q \in Seq(E) /\ added \in Seq(E) /\ Len(q) = left
          /\ \A i \in 1..left : q[i] = s.queue[i + 1]
      BY <1>2, <2>2
    <3> HIDE DEF q
    <3>2. t.queue = q \o added
      BY <2>1 DEF q
    <3>3. m \in Nat /\ left \in Nat /\ m = Len(added)
      BY <1>2, <1>6, <2>2
    <3> HIDE DEF m, left
    <3>7. q \in Seq(E) /\ added \in Seq(E)
      BY <3>1
    <3> DEFINE both == q \o added
    <3>5. /\ both \in Seq(E) /\ Len(both) = Len(q) + Len(added)
          /\ \A i \in 1..Len(q) : both[i] = q[i]
          /\ \A i \in 1..Len(added) : both[Len(q) + i] = added[i]
      BY <3>7, Joined
    <3>6. t.queue = both
      BY <3>2
    <3> HIDE DEF both
    <3>4. /\ t.queue \in Seq(E) /\ Len(t.queue) = left + m
          /\ \A i \in 1..left : t.queue[i] = q[i]
          /\ \A i \in 1..m : t.queue[left + i] = added[i]
      BY <3>1, <3>3, <3>5, <3>6
    <3> QED
      BY <3>1, <3>3, <3>4 DEF m
  <2>5. \A i \in (left + 1)..(left + Cardinality(fresh)) :
          t.queue[i].address = sorted[i - left] /\ i - left \in 1..Cardinality(fresh)
            /\ t.queue[i].depth = head.depth + 1
    <3>1. \A i \in (left + 1)..(left + m) : i - left \in 1..m /\ i = left + (i - left)
      <4>1. m \in Nat /\ left \in Nat
        BY <1>2, <1>6
      <4> HIDE DEF m, left
      <4> QED
        BY <4>1
    <3>2. \A i \in (left + 1)..(left + m) : t.queue[i] = added[i - left]
      <4> HIDE DEF left, m
      <4> QED
        BY <2>4, <3>1
    <3>3. \A i \in 1..m : added[i].address = sorted[i] /\ added[i].depth = head.depth + 1
      BY <2>3
    <3> HIDE DEF left, m
    <3>4. \A i \in (left + 1)..(left + m) :
            /\ t.queue[i].address = sorted[i - left] /\ i - left \in 1..m
            /\ t.queue[i].depth = head.depth + 1
      BY <3>1, <3>2, <3>3
    <3> QED
      BY <3>4 DEF m
  <2>6. ASSUME NEW x \in fresh
        PROVE  \E i \in (left + 1)..(left + Cardinality(fresh)) : t.queue[i].address = x
    <3>1. PICK k \in 1..Cardinality(fresh) : sorted[k] = x
      BY <1>6
    <3>2. left + k \in (left + 1)..(left + Cardinality(fresh)) /\ (left + k) - left = k
      BY <1>2, <1>6
    <3>3. t.queue[left + k].address = x
      BY <2>5, <3>1, <3>2
    <3> QED
      BY <3>2, <3>3
  <2>7. t \in Searches(L, depth)
    <3>1. s.selected \cup fresh \in SUBSET L
      BY <1>1, <1>4
    <3>2. t = [selected |-> s.selected \cup fresh, queue |-> t.queue]
      BY <1>5, <1>8
    <3> QED
      BY <2>4, <3>1, <3>2 DEF Searches, E
  <2>8. \A i \in (left + 1)..(left + Cardinality(fresh)) : t.queue[i].address \in fresh
    BY <1>6, <2>5
  <2> QED
    <3>1. New(functions, depth, s) = fresh
      BY <1>8 DEF New, head
    <3>2. Len(s.queue) = left + 1
      BY <1>1
    <3> HIDE DEF fresh, left
    <3>3. Turned(s, t, fresh, left)
      BY <1>2, <1>6, <2>1, <2>4, <2>5, <2>6, <2>8, <3>2 DEF Turned, head
    <3> QED
      BY <2>7, <3>1, <3>3 DEF t, left
<1> QED
  BY <1>7, <1>8

\* The search has selected what is within d calls and perhaps one more, and the queue has
\* what is left to do for that, what is within d calls first.
AtLevel(s, near, functions, depth, d) ==
    /\ d \in 0..depth
    /\ near[d] \subseteq s.selected
    /\ s.selected \subseteq near[IF d < depth THEN d + 1 ELSE d]
    /\ \A i \in 1..Len(s.queue) :
          /\ s.queue[i].address \in s.selected
          /\ s.queue[i].depth \in {d, d + 1}
          /\ s.queue[i].depth = d => s.queue[i].address \in near[d]
    /\ \A i, j \in 1..Len(s.queue) : i < j => s.queue[i].depth <= s.queue[j].depth
    /\ \A x \in s.selected :
          \/ \E i \in 1..Len(s.queue) :
                s.queue[i].address = x /\ (s.queue[i].depth = d <=> x \in near[d])
          \/ x \in near[d] /\ (d < depth => Called(functions, x) \subseteq s.selected)

\* What is in the queue.
LEMMA QueueFacts ==
  ASSUME NEW L, NEW depth \in Nat, NEW s \in Searches(L, depth)
  PROVE  /\ s.selected \in SUBSET L /\ Len(s.queue) \in Nat
         /\ \A i \in 1..Len(s.queue) : s.queue[i].address \in L /\ s.queue[i].depth \in 0..depth
         /\ s.queue # <<>> => 1 \in 1..Len(s.queue)
         /\ s.queue = <<>> => 1..Len(s.queue) = {}
<1>1. s.queue \in Seq(QueueEntries(L, depth)) /\ s.selected \in SUBSET L
  BY DEF Searches
<1>2. \A i \in 1..Len(s.queue) : s.queue[i] \in QueueEntries(L, depth)
  BY <1>1
<1>3. s.queue # <<>> => Len(s.queue) # 0
  BY <1>1
<1> QED
  BY <1>1, <1>2, <1>3 DEF QueueEntries

\* When only calls beyond the level are left, the next level is complete.
LEMMA NextLevel ==
  ASSUME NEW functions, NEW root, NEW depth \in Nat, NEW near,
         Nearer(near, functions, root, depth),
         NEW s \in Searches(Listed(functions), depth), s.queue # <<>>,
         NEW d, AtLevel(s, near, functions, depth, d), s.queue[1].depth = d + 1
  PROVE  AtLevel(s, near, functions, depth, d + 1)
<1>1. /\ s.selected \in SUBSET Listed(functions) /\ Len(s.queue) \in Nat /\ 1 \in 1..Len(s.queue)
      /\ \A i \in 1..Len(s.queue) : s.queue[i].depth \in 0..depth
  BY QueueFacts
<1>2. d \in 0..depth /\ d + 1 \in 1..depth /\ (d + 1) - 1 = d /\ d < depth
  BY <1>1 DEF AtLevel
<1>3. \A i \in 1..Len(s.queue) : s.queue[i].depth = d + 1
  <2> SUFFICES ASSUME NEW i \in 1..Len(s.queue) PROVE s.queue[i].depth = d + 1
    OBVIOUS
  <2>1. s.queue[i].depth \in {d, d + 1}
    BY DEF AtLevel
  <2>2. i # 1 => s.queue[1].depth <= s.queue[i].depth
    BY <1>1 DEF AtLevel
  <2> QED
    BY <1>2, <2>1, <2>2
<1>4. s.selected \subseteq near[d + 1]
  BY <1>2 DEF AtLevel
<1>5. \A x \in near[d] : x \in s.selected /\ Called(functions, x) \subseteq s.selected
  <2> SUFFICES ASSUME NEW x \in near[d]
               PROVE  x \in s.selected /\ Called(functions, x) \subseteq s.selected
    OBVIOUS
  <2>1. x \in s.selected
    BY DEF AtLevel
  <2>2. \A i \in 1..Len(s.queue) : ~(s.queue[i].depth = d <=> x \in near[d])
    BY <1>2, <1>3
  <2> QED
    BY <1>2, <2>1, <2>2 DEF AtLevel
<1>6. near[d + 1] \subseteq s.selected
  BY <1>2, <1>5, NearerGrows
<1>7. d + 1 < depth => near[d + 1] \subseteq near[(d + 1) + 1]
  <2> SUFFICES ASSUME d + 1 < depth PROVE near[d + 1] \subseteq near[(d + 1) + 1]
    OBVIOUS
  <2>1. (d + 1) + 1 \in 1..depth /\ ((d + 1) + 1) - 1 = d + 1
    BY <1>2
  <2> QED
    BY <2>1, NearerGrows
<1>8. \A x \in s.selected :
        \/ \E i \in 1..Len(s.queue) :
              s.queue[i].address = x /\ (s.queue[i].depth = d + 1 <=> x \in near[d + 1])
        \/ /\ x \in near[d + 1]
           /\ d + 1 < depth => Called(functions, x) \subseteq s.selected
  <2> SUFFICES ASSUME NEW x \in s.selected,
                      ~(\E i \in 1..Len(s.queue) : s.queue[i].address = x)
               PROVE  x \in near[d + 1] /\ Called(functions, x) \subseteq s.selected
    BY <1>3, <1>4
  <2> QED
    BY <1>2, <1>4 DEF AtLevel
<1> QED
  BY <1>2, <1>3, <1>4, <1>6, <1>7, <1>8 DEF AtLevel

\* A turn on a level stays on it.
LEMMA TurnOnLevel ==
  ASSUME NEW functions, Listed(functions) \in SUBSET Nat, IsFiniteSet(Listed(functions)),
         NEW root, NEW depth \in Nat, NEW near,
         Nearer(near, functions, root, depth),
         NEW s \in Searches(Listed(functions), depth), s.queue # <<>>,
         NEW d, AtLevel(s, near, functions, depth, d), s.queue[1].depth = d
  PROVE  AtLevel(Turn(functions, depth, s), near, functions, depth, d)
<1> DEFINE t == Turn(functions, depth, s)
           head == s.queue[1]
           new == New(functions, depth, s)
           left == Len(s.queue) - 1
<1>1a. t \in Searches(Listed(functions), depth) /\ Turned(s, t, new, left)
  BY TurnFacts
<1> HIDE DEF t, new, left
<1>1. /\ t \in Searches(Listed(functions), depth)
      /\ left \in Nat
      /\ Cardinality(new) \in Nat
      /\ t.selected = s.selected \cup new
      /\ Len(t.queue) = left + Cardinality(new)
      /\ \A i \in 1..left : t.queue[i] = s.queue[i + 1]
      /\ \A i \in (left + 1)..Len(t.queue) :
            t.queue[i].address \in new /\ t.queue[i].depth = head.depth + 1
      /\ \A x \in new : \E i \in (left + 1)..Len(t.queue) : t.queue[i].address = x
  BY <1>1a DEF Turned
<1>2. /\ Len(s.queue) \in Nat /\ 1 \in 1..Len(s.queue)
      /\ \A i \in 1..Len(s.queue) : s.queue[i].depth \in 0..depth
  BY QueueFacts
<1>3. d \in 0..depth /\ (d < depth => d + 1 \in 1..depth /\ (d + 1) - 1 = d)
  BY DEF AtLevel
<1>4. head.address \in near[d] /\ head.address \in s.selected
  BY <1>2 DEF AtLevel
<1>5. /\ d < depth => new = Called(functions, head.address) \ s.selected
      /\ ~(d < depth) => new = {}
  BY <1>3 DEF New, new
<1>6. /\ \A i \in 1..left : i + 1 \in 1..Len(s.queue) /\ i \in 1..Len(t.queue)
      /\ \A i \in 1..Len(s.queue) : i # 1 => i - 1 \in 1..left /\ (i - 1) + 1 = i
      /\ \A i \in (left + 1)..Len(t.queue) : i \in 1..Len(t.queue)
      /\ \A i \in 1..Len(t.queue) : i \in 1..left \/ i \in (left + 1)..Len(t.queue)
  <2>1. Len(s.queue) = left + 1
    BY <1>2 DEF left
  <2> QED
    BY <1>1, <1>2, <2>1
<1>7. near[d] \subseteq t.selected
  BY <1>1 DEF AtLevel
<1>8. t.selected \subseteq near[IF d < depth THEN d + 1 ELSE d]
  <2>1. CASE d < depth
    <3>1. new \subseteq near[d + 1]
      BY <1>3, <1>4, <1>5, <2>1, NearerGrows
    <3> QED
      BY <1>1, <2>1, <3>1 DEF AtLevel
  <2>2. CASE ~(d < depth)
    BY <1>1, <1>5, <2>2 DEF AtLevel
  <2> QED
    BY <2>1, <2>2
<1>9. \A x \in new : x \notin near[d] /\ x \in t.selected
  BY <1>1, <1>5 DEF AtLevel
<1>10. ASSUME NEW i \in 1..Len(t.queue)
       PROVE  /\ t.queue[i].address \in t.selected
              /\ t.queue[i].depth \in {d, d + 1}
              /\ t.queue[i].depth = d => t.queue[i].address \in near[d]
  <2>1. CASE i \in 1..left
    <3>1. t.queue[i] = s.queue[i + 1] /\ i + 1 \in 1..Len(s.queue)
      BY <1>1, <1>6, <2>1
    <3> QED
      BY <1>1, <3>1 DEF AtLevel
  <2>2. CASE i \in (left + 1)..Len(t.queue)
    <3>1. t.queue[i].address \in new /\ t.queue[i].depth = d + 1
      BY <1>1, <2>2
    <3>2. d + 1 # d
      BY <1>3
    <3> QED
      BY <1>1, <3>1, <3>2
  <2> QED
    BY <1>6, <2>1, <2>2
<1>11. ASSUME NEW i \in 1..Len(t.queue), NEW j \in 1..Len(t.queue), i < j
       PROVE  t.queue[i].depth <= t.queue[j].depth
  <2>1. CASE j \in 1..left
    <3>1. i \in 1..left /\ i + 1 < j + 1
      BY <1>1, <1>11, <2>1
    <3>2. /\ t.queue[i] = s.queue[i + 1] /\ i + 1 \in 1..Len(s.queue)
          /\ t.queue[j] = s.queue[j + 1] /\ j + 1 \in 1..Len(s.queue)
      BY <1>1, <1>6, <2>1, <3>1
    <3> QED
      BY <3>1, <3>2 DEF AtLevel
  <2>2. CASE j \in (left + 1)..Len(t.queue)
    <3>1. t.queue[j].depth = d + 1 /\ t.queue[i].depth \in {d, d + 1}
      BY <1>1, <1>10, <2>2
    <3> QED
      BY <1>3, <3>1
  <2> QED
    BY <1>6, <2>1, <2>2
<1>12. ASSUME NEW x \in t.selected
       PROVE  \/ \E i \in 1..Len(t.queue) :
                   t.queue[i].address = x /\ (t.queue[i].depth = d <=> x \in near[d])
              \/ x \in near[d] /\ (d < depth => Called(functions, x) \subseteq t.selected)
  <2>1. CASE x \in new
    <3>1. PICK i \in (left + 1)..Len(t.queue) : t.queue[i].address = x
      BY <1>1, <2>1
    <3>2. t.queue[i].depth # d
      BY <1>1, <1>3
    <3> QED
      BY <1>6, <1>9, <2>1, <3>1, <3>2
  <2>2. CASE x = head.address
    <3>1. d < depth => Called(functions, x) \subseteq t.selected
      BY <1>1, <1>5, <2>2
    <3> QED
      BY <1>4, <2>2, <3>1
  <2>3. CASE x \in s.selected /\ x # head.address
    <3>1. CASE \E i \in 1..Len(s.queue) :
                 s.queue[i].address = x /\ (s.queue[i].depth = d <=> x \in near[d])
      <4>1. PICK i \in 1..Len(s.queue) :
                 s.queue[i].address = x /\ (s.queue[i].depth = d <=> x \in near[d])
        BY <3>1
      <4>2. i # 1
        BY <2>3, <4>1
      <4>3. i - 1 \in 1..left /\ t.queue[i - 1] = s.queue[i] /\ i - 1 \in 1..Len(t.queue)
        BY <1>1, <1>6, <4>2
      <4> QED
        BY <4>1, <4>3
    <3>2. CASE x \in near[d] /\ (d < depth => Called(functions, x) \subseteq s.selected)
      BY <1>1, <3>2
    <3> QED
      BY <2>3, <3>1, <3>2 DEF AtLevel
  <2> QED
    BY <1>1, <2>1, <2>2, <2>3
<1>13. AtLevel(t, near, functions, depth, d)
  BY <1>3, <1>7, <1>8, <1>10, <1>11, <1>12, Zenon DEF AtLevel
<1> QED
  BY <1>13 DEF t

\* What holds after n turns: the search is at a level, and every turn with something in the
\* queue has taken one of the selected functions from it.
Underway(s, near, functions, depth, n) ==
    /\ \E d : AtLevel(s, near, functions, depth, d)
    /\ s.queue = <<>> \/ Len(s.queue) + n = Cardinality(s.selected)

LEMMA TurnKeepsUnderway ==
  ASSUME NEW functions, Listed(functions) \in SUBSET Nat, IsFiniteSet(Listed(functions)),
         NEW root, NEW depth \in Nat, NEW near,
         Nearer(near, functions, root, depth),
         NEW s \in Searches(Listed(functions), depth), NEW n \in Nat \ {0},
         Underway(s, near, functions, depth, n - 1)
  PROVE  /\ Turn(functions, depth, s) \in Searches(Listed(functions), depth)
         /\ Underway(Turn(functions, depth, s), near, functions, depth, n)
<1> DEFINE L == Listed(functions)
           t == Turn(functions, depth, s)
           new == New(functions, depth, s)
           left == Len(s.queue) - 1
<1>1. CASE s.queue = <<>>
  BY <1>1 DEF Turn, Underway
<1>2. CASE s.queue # <<>>
  <2>1. t \in Searches(L, depth) /\ Turned(s, t, new, left)
    BY <1>2, TurnFacts
  <2> HIDE DEF t, left
  <2>2. \E d : AtLevel(t, near, functions, depth, d)
    <3>1. PICK d : AtLevel(s, near, functions, depth, d)
      BY DEF Underway
    <3>2. s.queue[1].depth \in {d, d + 1}
      BY <1>2, <3>1, QueueFacts DEF AtLevel
    <3>3. CASE s.queue[1].depth = d
      BY <1>2, <3>1, <3>3, TurnOnLevel DEF t
    <3>4. CASE s.queue[1].depth = d + 1
      BY <1>2, <3>1, <3>4, NextLevel, TurnOnLevel DEF t
    <3> QED
      BY <3>2, <3>3, <3>4
  <2>3. Len(t.queue) + n = Cardinality(t.selected)
    <3>1. /\ s.selected \in SUBSET L /\ Len(s.queue) \in Nat
          /\ Len(s.queue) + (n - 1) = Cardinality(s.selected)
      BY <1>2, QueueFacts DEF Underway
    <3>2. IsFiniteSet(s.selected) /\ Cardinality(s.selected) \in Nat
      BY <3>1, FS_Subset, FS_CardinalityType
    <3>3. new \in SUBSET L /\ new \cap s.selected = {}
      BY DEF New, Called
    <3> HIDE DEF new
    <3>4. IsFiniteSet(new) /\ Cardinality(new) \in Nat
      BY <3>3, FS_Subset, FS_CardinalityType
    <3>5. Cardinality(s.selected \cup new)
            = Cardinality(s.selected) + Cardinality(new) - Cardinality(s.selected \cap new)
      BY <3>2, <3>4, FS_Union
    <3>6. Cardinality(s.selected \cap new) = 0
      BY <3>3, FS_EmptySet
    <3>7. /\ t.selected = s.selected \cup new /\ left \in Nat /\ Len(s.queue) = left + 1
          /\ Len(t.queue) = left + Cardinality(new)
      BY <2>1 DEF Turned
    <3>8. Cardinality(t.selected) = Cardinality(s.selected) + Cardinality(new)
      BY <3>2, <3>4, <3>5, <3>6, <3>7
    <3> QED
      BY <3>1, <3>2, <3>4, <3>7, <3>8
  <2> QED
    BY <2>1, <2>2, <2>3 DEF t, Underway
<1> QED
  BY <1>1, <1>2

\* A search whose queue is empty has selected what is within the depth.
LEMMA EmptyQueue ==
  ASSUME NEW functions, NEW root, NEW depth \in Nat, NEW near,
         Nearer(near, functions, root, depth),
         NEW s \in Searches(Listed(functions), depth), s.queue = <<>>,
         NEW d, AtLevel(s, near, functions, depth, d)
  PROVE  s.selected = near[depth]
<1>1. d \in 0..depth /\ 1..Len(s.queue) = {}
  BY QueueFacts DEF AtLevel
<1>2. \A x \in s.selected : x \in near[d] /\ (d < depth => Called(functions, x) \subseteq s.selected)
  BY <1>1 DEF AtLevel
<1>3. near[d] = s.selected
  BY <1>2 DEF AtLevel
<1> DEFINE good == {k \in 0..depth : k < d \/ near[k] = s.selected}
<1>4. 0 \in good /\ good \in SUBSET (0..depth)
  BY <1>1, <1>3
<1>5. ASSUME NEW n \in 1..depth, n - 1 \in good
      PROVE  n \in good
  <2>1. CASE n < d
    BY <2>1
  <2>2. CASE n = d
    BY <1>3, <2>2
  <2>3. CASE n > d
    <3>1. near[n - 1] = s.selected /\ d < depth
      BY <1>1, <1>5, <2>3
    <3>2. near[n - 1] \subseteq near[n]
      BY NearerGrows
    <3>3. \A x \in near[n - 1] : Called(functions, x) \subseteq s.selected
      BY <1>2, <3>1
    <3>4. near[n] \subseteq s.selected
      BY <3>1, <3>3, NearerGrows
    <3> QED
      BY <3>1, <3>2, <3>4
  <2> QED
    BY <1>1, <2>1, <2>2, <2>3
<1> HIDE DEF good
<1>6. good = 0..depth
  BY <1>4, <1>5, FirstFailure
<1>7. depth \in good
  BY <1>6
<1> QED
  BY <1>1, <1>7 DEF good

LEMMA SearchedExact ==
  ASSUME NEW functions, IsFiniteSet(functions), Listed(functions) \in SUBSET Nat,
         NEW root \in Listed(functions), NEW depth \in Nat
  PROVE  /\ IsFiniteSet(Listed(functions))
         /\ Searched(functions, root, depth) \in SUBSET Listed(functions)
         /\ Searched(functions, root, depth) = Within(functions, root, depth)
<1> DEFINE L == Listed(functions)
           T == Searches(L, depth)
           N == Cardinality(functions)
           start == [selected |-> {root}, queue |-> <<[address |-> root, depth |-> 0]>>]
           step == [n \in 1..N |-> [s \in T |-> Turn(functions, depth, s)]]
           body(g, n) == IF n = 0 THEN start ELSE Turn(functions, depth, g[n - 1])
           loop(f) == f = [n \in 0..N |-> body(f, n)]
           after == CHOOSE f : loop(f)
<1>1. N \in Nat /\ IsFiniteSet(L) /\ Cardinality(L) \in Nat /\ Cardinality(L) <= N
  <2> DEFINE name == [f \in functions |-> f.address]
  <2>1. name \in Surjection(functions, L)
    BY DEF Surjection, Listed
  <2> HIDE DEF name, L
  <2> QED
    BY <2>1, FS_Surjection, FS_CardinalityType
<1>2. PICK near : /\ Nearer(near, functions, root, depth)
                  /\ Within(functions, root, depth) = near[depth]
  BY NearExists
<1>3. Searched(functions, root, depth) = after[N].selected
  BY Zenon DEF Searched
<1>4. start \in T /\ Underway(start, near, functions, depth, 0)
  <2>1. start \in T
    <3>1. [address |-> root, depth |-> 0] \in QueueEntries(L, depth)
      BY DEF QueueEntries
    <3> QED
      BY <3>1 DEF Searches
  <2>2. start.selected = {root} /\ Len(start.queue) = 1 /\ start.queue # <<>>
        /\ start.queue[1].address = root /\ start.queue[1].depth = 0
    OBVIOUS
  <2> HIDE DEF start
  <2>3. near[0] = {root} /\ (0 < depth => near[0] \subseteq near[0 + 1])
    <3>1. near[0] = {root}
      BY <1>2 DEF Nearer
    <3>2. 0 < depth => 1 \in 1..depth /\ 1 - 1 = 0 /\ 0 + 1 = 1
      OBVIOUS
    <3> QED
      BY <1>2, <3>1, <3>2, NearerGrows
  <2>4. AtLevel(start, near, functions, depth, 0)
    <3>1. 1..Len(start.queue) = {1} /\ 0 \in 0..depth
      BY <2>2
    <3>2. {root} \subseteq near[IF 0 < depth THEN 0 + 1 ELSE 0]
      BY <2>3
    <3>3. \A x \in start.selected : /\ start.queue[1].address = x
                                    /\ start.queue[1].depth = 0 <=> x \in near[0]
      BY <2>2, <2>3
    <3> QED
      BY <2>2, <2>3, <3>1, <3>2, <3>3 DEF AtLevel
  <2>5. Len(start.queue) + 0 = Cardinality(start.selected)
    <3>1. Cardinality(start.selected) = 1
      BY <2>2, FS_Singleton
    <3> QED
      BY <2>2, <3>1
  <2> QED
    BY <2>1, <2>4, <2>5 DEF Underway
<1> HIDE DEF L, start, after, N
<1>5. ASSUME NEW s \in T
      PROVE  Turn(functions, depth, s) \in T
  <2>1. CASE s.queue = <<>>
    BY <2>1 DEF Turn
  <2>2. CASE s.queue # <<>>
    BY <1>1, <2>2, TurnFacts DEF L
  <2> QED
    BY <2>1, <2>2
<1>6. step \in Turns(T, N)
  BY <1>5 DEF Turns
<1>7. \A n \in 1..N, s \in T : step[n][s] = Turn(functions, depth, s)
  OBVIOUS
<1> HIDE DEF step, T
<1>8. PICK f : Iterates(f, T, N, start, step)
  BY <1>1, <1>4, <1>6, IterationExists
<1>9. f \in [0..N -> T] /\ f[0] = start /\ \A n \in 1..N : f[n] = Turn(functions, depth, f[n - 1])
  <2>1. \A n \in 1..N : n - 1 \in 0..N
    BY <1>1
  <2> QED
    BY <1>7, <1>8, <2>1 DEF Iterates
<1>10. loop(f)
  <2>1. \A n \in 0..N : f[n] = body(f, n)
    <3>1. \A n \in 0..N : n # 0 => n \in 1..N
      BY <1>1
    <3> QED
      BY <1>9, <3>1
  <2> HIDE DEF body
  <2> QED
    BY <1>9, <2>1
<1>11. loop(after)
  BY <1>10, Zenon DEF after
<1>12. after[0] = start /\ \A n \in 1..N : after[n] = Turn(functions, depth, after[n - 1])
  <2>1. \A n \in 0..N : after[n] = body(after, n)
    <3> HIDE DEF body
    <3> QED
      BY <1>11
  <2>2. 0 \in 0..N /\ \A n \in 1..N : n \in 0..N /\ n # 0
    BY <1>1
  <2> QED
    BY <2>1, <2>2
<1> DEFINE good == {n \in 0..N : after[n] \in T /\ Underway(after[n], near, functions, depth, n)}
<1>13. 0 \in good
  BY <1>1, <1>4, <1>12
<1>14. ASSUME NEW n \in 1..N, n - 1 \in good
       PROVE  n \in good
  <2>1. after[n - 1] \in T /\ Underway(after[n - 1], near, functions, depth, n - 1)
    BY <1>14
  <2>2. n \in Nat \ {0} /\ n \in 0..N
    BY <1>1
  <2>3. /\ Turn(functions, depth, after[n - 1]) \in T
        /\ Underway(Turn(functions, depth, after[n - 1]), near, functions, depth, n)
    BY <1>1, <1>2, <2>1, <2>2, TurnKeepsUnderway DEF T, L
  <2> QED
    BY <1>12, <2>2, <2>3
<1>15. good \in SUBSET (0..N)
  OBVIOUS
<1> HIDE DEF good
<1>16. good = 0..N
  BY <1>1, <1>13, <1>14, <1>15, FirstFailure
<1>17. N \in good
  BY <1>1, <1>16
<1>18. after[N] \in T /\ Underway(after[N], near, functions, depth, N)
  BY <1>17 DEF good
<1>19. after[N].selected \in SUBSET L /\ Len(after[N].queue) \in Nat
  BY <1>18, QueueFacts DEF T
<1>20. after[N].queue = <<>>
  <2> SUFFICES ASSUME after[N].queue # <<>> PROVE FALSE
    OBVIOUS
  <2>1. 1 \in 1..Len(after[N].queue)
    BY <1>18, QueueFacts DEF T
  <2>2. Len(after[N].queue) + N = Cardinality(after[N].selected)
    BY <1>18 DEF Underway
  <2>3. Cardinality(after[N].selected) <= Cardinality(L) /\ Cardinality(after[N].selected) \in Nat
    BY <1>1, <1>19, FS_Subset, FS_CardinalityType
  <2> QED
    BY <1>1, <1>19, <2>1, <2>2, <2>3
<1>21. PICK d : AtLevel(after[N], near, functions, depth, d)
  BY <1>18 DEF Underway
<1>22. after[N].selected = near[depth]
  BY <1>2, <1>18, <1>20, <1>21, EmptyQueue DEF T, L
<1> QED
  BY <1>1, <1>2, <1>3, <1>19, <1>22 DEF L

\* The call graph from a root has the functions within as many calls of it as the depth
\* says, and the calls between them, or says that it was cut: for any functions, root,
\* depth and limit (analysis/functions.py).
THEOREM GraphAlwaysExact ==
  ASSUME NEW functions, IsFiniteSet(functions), Listed(functions) \in SUBSET Nat,
         NEW root \in Listed(functions), NEW depth \in Nat,
         NEW limits, limits.nodes \in Nat
  PROVE  GraphExact(functions, root, depth, limits)
<1> DEFINE near == Within(functions, root, depth)
           graph == CallGraph(functions, {root}, depth, limits)
<1>1. near \in SUBSET Listed(functions) /\ Searched(functions, root, depth) = near
  BY SearchedExact
<1>2. near \in SUBSET Nat /\ IsFiniteSet(near)
  BY <1>1, SearchedExact, FS_Subset
<1>3. /\ graph.nodes = Lowest(near, limits.nodes)
      /\ graph.edges = {e \in graph.nodes \X graph.nodes : e[2] \in At(functions, e[1]).callees}
      /\ graph.truncated = (Cardinality(near) > limits.nodes)
  <2>1. {root} # {} /\ (CHOOSE r \in {root} : TRUE) = root
    OBVIOUS
  <2> QED
    BY <1>1, <2>1 DEF CallGraph
<1> HIDE DEF near, graph
<1>4. Cardinality(near) \in Nat
  BY <1>2, FS_CardinalityType
<1>5. /\ Lowest(near, limits.nodes) \subseteq near
      /\ Cardinality(near) <= limits.nodes => Lowest(near, limits.nodes) = near
      /\ Cardinality(near) > limits.nodes => Cardinality(Lowest(near, limits.nodes)) = limits.nodes
  BY <1>2, LowestExact
<1>6. /\ graph.nodes \subseteq near
      /\ graph.truncated <=> graph.nodes # near
  <2> DEFINE lowest == Lowest(near, limits.nodes)
  <2>1. graph.nodes = lowest /\ graph.truncated = (Cardinality(near) > limits.nodes)
    BY <1>3
  <2>2. lowest \subseteq near /\ (Cardinality(near) > limits.nodes <=> lowest # near)
    BY <1>4, <1>5
  <2> HIDE DEF lowest
  <2> QED
    BY <2>1, <2>2, Zenon
<1> QED
  BY <1>3, <1>6 DEF GraphExact, near, graph

-----------------------------------------------------------------------------
(* The inventory of functions *)

\* Instructions as Capstone decodes them: with one immediate operand at most.
Decodable == {x \in Instruction : x.target = {} \/ \E t \in Nat : x.target = {t}}

Decodes == [address : Nat, base : Nat, op : Decodable]

\* The file stores a section whole or less of it.
SweptSections ==
    {s \in [base : Nat, size : Nat, code : Seq(Decodable)] : 2 * Len(s.code) <= s.size}

\* A binary: its code sections in the order of their addresses, without an overlap.
Binary(b) ==
    /\ b.entry \in Nat /\ b.symbols \in SUBSET Nat /\ IsFiniteSet(b.symbols)
    /\ b.sections \in Seq(SweptSections)
    /\ \A i, j \in DOMAIN b.sections : i < j => End(b.sections[i]) <= b.sections[j].base

LimitsOfFunctions(limits) ==
    limits.scan \in Nat /\ limits.functions \in Nat /\ limits.body \in Nat /\ limits.nodes \in Nat

LEMMA Chain == \A x, y, z \in Int : x <= y /\ y <= z => x <= z
OBVIOUS

\* The listing of a section: in the order of the addresses, from its base to its end.
LEMMA ListingFacts ==
  ASSUME NEW s \in SweptSections
  PROVE  /\ Listing(s) \in Seq(Decodes) /\ End(s) \in Nat /\ s.base <= End(s)
         /\ \A i \in 1..Len(Listing(s)) :
               s.base <= Listing(s)[i].address /\ Listing(s)[i].address + 2 <= End(s)
         /\ \A i, j \in 1..Len(Listing(s)) :
               i < j => Listing(s)[i].address + 2 <= Listing(s)[j].address
<1> DEFINE n == Len(s.code)
<1>1. /\ s.base \in Nat /\ s.code \in Seq(Decodable) /\ n \in Nat /\ DOMAIN s.code = 1..n
      /\ s.size \in Nat /\ 2 * n <= s.size
  BY DEF SweptSections
<1>2. \A i \in 1..n : s.code[i] \in Decodable
  BY <1>1
<1>3. Listing(s) = [i \in 1..n |-> [address |-> s.base + 2 * (i - 1), base |-> s.base, op |-> s.code[i]]]
  BY <1>1 DEF Listing
<1>4. End(s) = s.base + s.size
  BY DEF End
<1> HIDE DEF n
<1>5. \A i \in 1..n :
        /\ s.base + 2 * (i - 1) \in Nat
        /\ s.base <= s.base + 2 * (i - 1) /\ s.base + 2 * (i - 1) + 2 <= s.base + 2 * n
  BY <1>1
<1>6. \A i, j \in 1..n : i < j => s.base + 2 * (i - 1) + 2 <= s.base + 2 * (j - 1)
  BY <1>1
<1>7. \A i \in 1..n : [address |-> s.base + 2 * (i - 1), base |-> s.base, op |-> s.code[i]] \in Decodes
  BY <1>1, <1>2, <1>5 DEF Decodes
<1>8. Listing(s) \in Seq(Decodes) /\ Len(Listing(s)) = n
  BY <1>1, <1>3, <1>7
<1>9. \A i \in 1..n : Listing(s)[i].address = s.base + 2 * (i - 1)
  BY <1>3
<1>10. End(s) \in Nat /\ s.base <= End(s)
  BY <1>1, <1>4
<1>11. \A i \in 1..n : s.base <= Listing(s)[i].address /\ Listing(s)[i].address + 2 <= End(s)
  BY <1>1, <1>4, <1>5, <1>9
<1>12. \A i, j \in 1..n : i < j => Listing(s)[i].address + 2 <= Listing(s)[j].address
  BY <1>6, <1>9
<1> QED
  BY <1>8, <1>10, <1>11, <1>12

\* Instructions in the order of their addresses.
InSequence(code) ==
    \A i, j \in 1..Len(code) : i < j => code[i].address + 2 <= code[j].address

\* What is swept of the first n sections: instructions in the order of their addresses, all
\* before the sections that follow.
SweptUpTo(b, code, n) ==
    /\ code \in Seq(Decodes)
    /\ InSequence(code)
    /\ \A i \in 1..Len(code), j \in 1..Len(b.sections) : n < j => code[i].address + 2 <= b.sections[j].base

LEMMA SweptFacts ==
  ASSUME NEW b, Binary(b), NEW code, NEW n \in 1..Len(b.sections), SweptUpTo(b, code, n - 1)
  PROVE  SweptUpTo(b, Swept(code, b.sections[n]), n)
<1> DEFINE s == b.sections[n]
           more == Listing(s)
           both == Swept(code, s)
<1>1. /\ s \in SweptSections /\ Len(b.sections) \in Nat /\ DOMAIN b.sections = 1..Len(b.sections)
      /\ \A j \in 1..Len(b.sections) : b.sections[j] \in SweptSections
  BY DEF Binary
<1>2. code \in Seq(Decodes) /\ more \in Seq(Decodes) /\ both = code \o more
  BY <1>1, ListingFacts DEF SweptUpTo, Swept
<1> HIDE DEF both, more
<1>3. /\ both \in Seq(Decodes) /\ Len(code) \in Nat /\ Len(more) \in Nat
      /\ Len(both) = Len(code) + Len(more)
      /\ \A i \in 1..Len(code) : both[i] = code[i]
      /\ \A i \in 1..Len(more) : both[Len(code) + i] = more[i]
  BY <1>2, Joined
<1>4. \A i \in 1..Len(both) :
        \/ i \in 1..Len(code) /\ both[i] = code[i]
        \/ i - Len(code) \in 1..Len(more) /\ both[i] = more[i - Len(code)]
  <2> SUFFICES ASSUME NEW i \in 1..Len(both), ~(i \in 1..Len(code))
               PROVE  i - Len(code) \in 1..Len(more) /\ both[i] = more[i - Len(code)]
    BY <1>3
  <2>1. i - Len(code) \in 1..Len(more) /\ Len(code) + (i - Len(code)) = i
    BY <1>3
  <2> QED
    BY <1>3, <2>1
<1>5. /\ End(s) \in Nat /\ s.base \in Nat /\ s.base <= End(s)
      /\ \A i \in 1..Len(more) : s.base <= more[i].address /\ more[i].address + 2 <= End(s)
      /\ \A i, j \in 1..Len(more) : i < j => more[i].address + 2 <= more[j].address
  BY <1>1, ListingFacts DEF more, SweptSections
<1>6. /\ \A i \in 1..Len(code) : code[i].address \in Nat /\ code[i].address + 2 <= s.base
      /\ \A i \in 1..Len(more) : more[i].address \in Nat
  <2>1. \A i \in 1..Len(code) : code[i] \in Decodes
    BY <1>2
  <2>2. \A i \in 1..Len(more) : more[i] \in Decodes
    BY <1>2
  <2>3. n - 1 < n /\ n \in 1..Len(b.sections)
    BY <1>1
  <2> QED
    BY <2>1, <2>2, <2>3 DEF Decodes, SweptUpTo
<1>7. ASSUME NEW i \in 1..Len(both), NEW j \in 1..Len(both), i < j
      PROVE  both[i].address + 2 <= both[j].address
  <2>1. CASE j \in 1..Len(code) /\ both[j] = code[j]
    <3>1. i \in 1..Len(code)
      BY <1>3, <1>7, <2>1
    <3> QED
      BY <1>3, <1>7, <2>1, <3>1 DEF SweptUpTo, InSequence
  <2>2. CASE j - Len(code) \in 1..Len(more) /\ both[j] = more[j - Len(code)]
    <3>1. CASE i \in 1..Len(code) /\ both[i] = code[i]
      <4>1. code[i].address + 2 <= s.base /\ s.base <= more[j - Len(code)].address
        BY <1>5, <1>6, <2>2, <3>1
      <4>2. code[i].address + 2 \in Int /\ s.base \in Int /\ more[j - Len(code)].address \in Int
        <5>1. code[i].address \in Nat
          BY <1>6, <3>1
        <5>2. more[j - Len(code)].address \in Nat
          BY <1>6, <2>2
        <5>3. code[i].address + 2 \in Int
          BY <5>1
        <5> QED
          BY <1>5, <5>2, <5>3
      <4> QED
        BY <2>2, <3>1, <4>1, <4>2, Chain
    <3>2. CASE i - Len(code) \in 1..Len(more) /\ both[i] = more[i - Len(code)]
      <4>1. i - Len(code) < j - Len(code)
        BY <1>3, <1>7
      <4> QED
        BY <1>5, <2>2, <3>2, <4>1
    <3> QED
      BY <1>4, <3>1, <3>2
  <2> QED
    BY <1>4, <2>1, <2>2
<1>8. ASSUME NEW i \in 1..Len(both), NEW j \in 1..Len(b.sections), n < j
      PROVE  both[i].address + 2 <= b.sections[j].base
  <2>1. End(s) <= b.sections[j].base /\ b.sections[j].base \in Nat
    BY <1>1, <1>8 DEF Binary, SweptSections
  <2>2. CASE i \in 1..Len(code) /\ both[i] = code[i]
    <3>0. code[i].address \in Nat
      BY <1>6, <2>2
    <3>1. code[i].address + 2 \in Int /\ s.base \in Int /\ b.sections[j].base \in Int /\ End(s) \in Int
      BY <1>5, <2>1, <3>0
    <3>2. code[i].address + 2 <= s.base /\ s.base <= End(s)
      BY <1>5, <1>6, <2>2
    <3> QED
      BY <2>1, <2>2, <3>1, <3>2, Chain
  <2>3. CASE i - Len(code) \in 1..Len(more) /\ both[i] = more[i - Len(code)]
    <3>1. more[i - Len(code)].address \in Nat /\ more[i - Len(code)].address + 2 <= End(s)
      BY <1>5, <1>6, <2>3
    <3>2. more[i - Len(code)].address + 2 \in Int /\ End(s) \in Int /\ b.sections[j].base \in Int
      BY <1>5, <2>1, <3>1
    <3> QED
      BY <2>1, <2>3, <3>1, <3>2, Chain
  <2> QED
    BY <1>4, <2>2, <2>3
<1>9. SweptUpTo(b, both, n)
  BY <1>3, <1>7, <1>8 DEF SweptUpTo, InSequence
<1> QED
  BY <1>9 DEF both

\* The linear sweep of a binary goes through its code in the order of the addresses.
LEMMA CodeFacts ==
  ASSUME NEW b, Binary(b)
  PROVE  Code(b) \in Seq(Decodes) /\ InSequence(Code(b))
<1> DEFINE N == Len(b.sections)
           T == Seq(Decodes)
           step == [n \in 1..N |-> [code \in T |-> Swept(code, b.sections[n])]]
           body(g, n) == IF n = 0 THEN <<>> ELSE Swept(g[n - 1], b.sections[n])
           loop(f) == f = [n \in 0..N |-> body(f, n)]
           after == CHOOSE f : loop(f)
<1>1. N \in Nat /\ \A n \in 1..N : b.sections[n] \in SweptSections
  BY DEF Binary
<1>2. Code(b) = after[N]
  BY Zenon DEF Code, Folded
<1> HIDE DEF N, after
<1>3. ASSUME NEW n \in 1..N, NEW code \in T
      PROVE  Swept(code, b.sections[n]) \in T
  <2>1. Listing(b.sections[n]) \in Seq(Decodes) /\ code \in Seq(Decodes)
    BY <1>1, ListingFacts
  <2> QED
    BY <2>1, Joined DEF Swept
<1>4. step \in Turns(T, N) /\ <<>> \in T
  BY <1>3 DEF Turns
<1>5. \A n \in 1..N, code \in T : step[n][code] = Swept(code, b.sections[n])
  OBVIOUS
<1> HIDE DEF step, T
<1>6. PICK f : Iterates(f, T, N, <<>>, step)
  BY <1>1, <1>4, IterationExists
<1>7. f \in [0..N -> T] /\ f[0] = <<>> /\ \A n \in 1..N : f[n] = Swept(f[n - 1], b.sections[n])
  <2>1. \A n \in 1..N : n - 1 \in 0..N
    BY <1>1
  <2> QED
    BY <1>5, <1>6, <2>1 DEF Iterates
<1>8. loop(f)
  <2>1. \A n \in 0..N : f[n] = body(f, n)
    <3>1. \A n \in 0..N : n # 0 => n \in 1..N
      BY <1>1
    <3> QED
      BY <1>7, <3>1
  <2> HIDE DEF body
  <2> QED
    BY <1>7, <2>1
<1>9. loop(after)
  BY <1>8, Zenon DEF after
<1>10. after[0] = <<>> /\ \A n \in 1..N : after[n] = Swept(after[n - 1], b.sections[n])
  <2>1. \A n \in 0..N : after[n] = body(after, n)
    <3> HIDE DEF body
    <3> QED
      BY <1>9
  <2>2. 0 \in 0..N /\ \A n \in 1..N : n \in 0..N /\ n # 0
    BY <1>1
  <2> QED
    BY <2>1, <2>2
<1> DEFINE good == {n \in 0..N : SweptUpTo(b, after[n], n)}
<1>11. 0 \in good
  <2>1. SweptUpTo(b, <<>>, 0)
    <3>1. <<>> \in Seq(Decodes) /\ 1..Len(<<>>) = {}
      OBVIOUS
    <3> QED
      BY <3>1 DEF SweptUpTo, InSequence
  <2> QED
    BY <1>1, <1>10, <2>1
<1>12. ASSUME NEW n \in 1..N, n - 1 \in good
       PROVE  n \in good
  <2>1. SweptUpTo(b, after[n - 1], n - 1) /\ n \in 1..Len(b.sections) /\ n \in 0..N
    BY <1>1, <1>12 DEF N
  <2> QED
    BY <1>10, <2>1, SweptFacts
<1>13. good \in SUBSET (0..N)
  OBVIOUS
<1> HIDE DEF good
<1>14. good = 0..N
  BY <1>1, <1>11, <1>12, <1>13, FirstFailure
<1>15. N \in good
  BY <1>1, <1>14
<1> QED
  BY <1>2, <1>15 DEF good, SweptUpTo

LEMMA PrefixFacts ==
  ASSUME NEW E, NEW list \in Seq(E), NEW n \in Nat
  PROVE  LET m == Min({n, Len(list)})
             first == SubSeq(list, 1, m)
         IN /\ m \in 0..Len(list) /\ m = IF n <= Len(list) THEN n ELSE Len(list)
            /\ first \in Seq(E) /\ Len(first) = m
            /\ \A i \in 1..m : first[i] = list[i]
<1> DEFINE m == Min({n, Len(list)})
<1>1. Len(list) \in Nat
  OBVIOUS
<1>2. m = IF n <= Len(list) THEN n ELSE Len(list)
  BY <1>1, MinOfTwo
<1> HIDE DEF m
<1>3. m \in 0..Len(list)
  BY <1>1, <1>2
<1>4. /\ SubSeq(list, 1, m) \in Seq(E) /\ Len(SubSeq(list, 1, m)) = m
      /\ \A i \in 1..m : SubSeq(list, 1, m)[i] = list[i]
  BY <1>1, <1>3
<1> QED
  BY <1>2, <1>3, <1>4 DEF m

LEMMA DecodedFacts ==
  ASSUME NEW b, Binary(b), NEW limits, LimitsOfFunctions(limits)
  PROVE  /\ Decoded(b, limits) \in Seq(Decodes)
         /\ InSequence(Decoded(b, limits))
         /\ Len(Decoded(b, limits)) <= Len(Code(b))
<1> DEFINE code == Code(b)
           m == Min({limits.scan, Len(code)})
           first == SubSeq(code, 1, m)
<1>1. code \in Seq(Decodes) /\ InSequence(code)
  BY CodeFacts
<1>2. /\ m \in 0..Len(code)
      /\ first \in Seq(Decodes) /\ Len(first) = m
      /\ \A i \in 1..m : first[i] = code[i]
  BY <1>1, PrefixFacts DEF LimitsOfFunctions
<1>3. Decoded(b, limits) = first
  BY DEF Decoded
<1> HIDE DEF code, m, first
<1>4. Len(code) \in Nat
  BY <1>1
<1>5. InSequence(first)
  BY <1>1, <1>2, <1>4 DEF InSequence
<1> QED
  BY <1>2, <1>3, <1>4, <1>5 DEF code

\* Each instruction calls one address at most.
LEMMA CallTargetFacts ==
  ASSUME NEW b, NEW listing \in Seq(Decodes)
  PROVE  /\ CallTargets(b, listing) \in SUBSET Nat /\ IsFiniteSet(CallTargets(b, listing))
         /\ Cardinality(CallTargets(b, listing)) \in Nat
         /\ Cardinality(CallTargets(b, listing)) <= Len(listing)
         /\ \A a \in CallTargets(b, listing) : InImage(b, a)
<1> DEFINE S == CallTargets(b, listing)
           n == Len(listing)
           at == [a \in S |-> CHOOSE k \in 1..n : a \in listing[k].op.target]
<1>1. n \in Nat /\ DOMAIN listing = 1..n /\ \A k \in 1..n : listing[k] \in Decodes
  OBVIOUS
<1>2. \A k \in 1..n : /\ listing[k].op.target \in SUBSET Nat
                      /\ \A x, y \in listing[k].op.target : x = y
  <2> SUFFICES ASSUME NEW k \in 1..n
               PROVE  /\ listing[k].op.target \in SUBSET Nat
                      /\ \A x, y \in listing[k].op.target : x = y
    OBVIOUS
  <2>1. listing[k].op \in Decodable
    BY <1>1 DEF Decodes
  <2> QED
    BY <2>1 DEF Decodable, Instruction
<1>3. /\ \A a \in S : \E k \in 1..n : a \in listing[k].op.target
      /\ \A a \in S : InImage(b, a)
  BY <1>1 DEF CallTargets
<1> HIDE DEF S, n
<1>4. at \in [S -> 1..n] /\ \A a \in S : a \in listing[at[a]].op.target
  BY <1>3
<1> HIDE DEF at
<1>5. at \in Injection(S, 1..n)
  <2>1. \A x, y \in S : at[x] = at[y] => x = y
    <3> SUFFICES ASSUME NEW x \in S, NEW y \in S, at[x] = at[y] PROVE x = y
      OBVIOUS
    <3>1. at[x] \in 1..n /\ x \in listing[at[x]].op.target /\ y \in listing[at[x]].op.target
      BY <1>4
    <3> QED
      BY <1>2, <3>1
  <2> QED
    BY <1>4, <2>1 DEF Injection, IsInjective
<1>6. IsFiniteSet(1..n) /\ Cardinality(1..n) = n
  <2>1. 1 \in Int /\ n \in Int
    BY <1>1
  <2>2. IsFiniteSet(1..n) /\ Cardinality(1..n) = IF 1 > n THEN 0 ELSE n - 1 + 1
    BY <2>1, FS_Interval
  <2> QED
    BY <1>1, <2>2
<1>7. IsFiniteSet(S) /\ Cardinality(S) <= n
  BY <1>5, <1>6, FS_Injection
<1>8. S \in SUBSET Nat /\ Cardinality(S) \in Nat
  <2>1. \A a \in S : a \in Nat
    BY <1>2, <1>3
  <2> QED
    BY <1>7, <2>1, FS_CardinalityType
<1> QED
  BY <1>3, <1>7, <1>8 DEF S, n

LEMMA ReasonFacts ==
  ASSUME NEW b, Binary(b), NEW limits, LimitsOfFunctions(limits)
  PROVE  LET reasons == CandidateReasons(b, limits) IN
         /\ reasons \in SUBSET Nat /\ IsFiniteSet(reasons) /\ Cardinality(reasons) \in Nat
         /\ Cardinality(b.symbols) \in Nat
         /\ Cardinality(reasons) <= Cardinality(b.symbols) + 1 + Len(Code(b))
         /\ \A a \in reasons : InImage(b, a)
<1> DEFINE named == {a \in {b.entry} \cup b.symbols : InImage(b, a)}
           called == CallTargets(b, Decoded(b, limits))
           reasons == CandidateReasons(b, limits)
<1>1. reasons = named \cup called
  BY DEF CandidateReasons
<1>2. /\ IsFiniteSet(b.symbols \cup {b.entry}) /\ Cardinality(b.symbols) \in Nat
      /\ Cardinality(b.symbols \cup {b.entry}) \in {Cardinality(b.symbols), Cardinality(b.symbols) + 1}
  BY FS_AddElement, FS_CardinalityType DEF Binary
<1>3. /\ named \in SUBSET (b.symbols \cup {b.entry}) /\ named \in SUBSET Nat
      /\ \A a \in named : InImage(b, a)
  BY DEF Binary
<1> HIDE DEF named
<1>4. /\ IsFiniteSet(named) /\ Cardinality(named) \in Nat
      /\ Cardinality(named) <= Cardinality(b.symbols) + 1
  <2>1. IsFiniteSet(named) /\ Cardinality(named) <= Cardinality(b.symbols \cup {b.entry})
    BY <1>2, <1>3, FS_Subset
  <2>2. Cardinality(named) \in Nat
    BY <2>1, FS_CardinalityType
  <2> QED
    BY <1>2, <2>1, <2>2
<1>5. /\ called \in SUBSET Nat /\ IsFiniteSet(called) /\ Cardinality(called) \in Nat
      /\ \A a \in called : InImage(b, a)
      /\ Cardinality(called) <= Len(Decoded(b, limits))
  BY CallTargetFacts, DecodedFacts
<1>6. /\ Len(Decoded(b, limits)) \in Nat /\ Len(Code(b)) \in Nat
      /\ Len(Decoded(b, limits)) <= Len(Code(b))
  BY DecodedFacts, CodeFacts
<1> HIDE DEF called
<1>7. /\ IsFiniteSet(named \cup called)
      /\ Cardinality(named \cup called)
            = Cardinality(named) + Cardinality(called) - Cardinality(named \cap called)
      /\ Cardinality(named \cap called) \in Nat /\ Cardinality(named \cup called) \in Nat
  BY <1>4, <1>5, FS_Union, FS_Intersection, FS_CardinalityType
<1>8. Cardinality(named \cup called) <= Cardinality(b.symbols) + 1 + Len(Code(b))
  BY <1>2, <1>4, <1>5, <1>6, <1>7
<1> QED
  BY <1>1, <1>2, <1>3, <1>5, <1>7, <1>8

LEMMA CandidateFacts ==
  ASSUME NEW b, Binary(b), NEW limits, LimitsOfFunctions(limits)
  PROVE  /\ Candidates(b, limits) \in SUBSET Nat /\ IsFiniteSet(Candidates(b, limits))
         /\ \A a \in Candidates(b, limits) : InImage(b, a)
         /\ Cardinality(CandidateReasons(b, limits)) <= limits.functions
              => Candidates(b, limits) = CandidateReasons(b, limits)
<1> DEFINE reasons == CandidateReasons(b, limits)
<1>1. /\ reasons \in SUBSET Nat /\ IsFiniteSet(reasons) /\ limits.functions \in Nat
      /\ \A a \in reasons : InImage(b, a)
  BY ReasonFacts DEF LimitsOfFunctions
<1> HIDE DEF reasons
<1>2. /\ Lowest(reasons, limits.functions) \subseteq reasons
      /\ Cardinality(reasons) <= limits.functions => Lowest(reasons, limits.functions) = reasons
  BY <1>1, LowestExact
<1>3. IsFiniteSet(Lowest(reasons, limits.functions))
  BY <1>1, <1>2, FS_Subset
<1> QED
  BY <1>1, <1>2, <1>3 DEF Candidates, reasons

\* The section of a candidate, where its extent ends, and its instructions among those that
\* were decoded.
SectionOf(b, a) == b.sections[CHOOSE i \in Holding(b, a) : TRUE]

NextOf(b, candidates, a) ==
    Min({c \in candidates : a < c /\ c < End(SectionOf(b, a))} \cup {End(SectionOf(b, a))})

Inside(b, decoded, candidates, a) ==
    {i \in DOMAIN decoded :
       /\ decoded[i].base = SectionOf(b, a).base /\ a <= decoded[i].address
       /\ decoded[i].address < NextOf(b, candidates, a)}

ExtentIn(b, decoded, candidates, a) == Filtered(decoded, Inside(b, decoded, candidates, a))

LEMMA ExtentIs ==
  ASSUME NEW b, NEW limits, NEW a
  PROVE  LET whole == ExtentIn(b, Decoded(b, limits), Candidates(b, limits), a)
         IN Extent(b, limits, a) = SubSeq(whole, 1, Min({limits.body, Len(whole)}))
BY Zenon DEF Extent, ExtentIn, Inside, NextOf, SectionOf

\* The extent of a candidate goes from it to the next candidate or to the end of its
\* section, and not further.
LEMMA NextFacts ==
  ASSUME NEW b, Binary(b), NEW candidates \in SUBSET Nat, NEW a \in Nat, InImage(b, a)
  PROVE  /\ NextOf(b, candidates, a) \in Nat
         /\ \A c \in candidates : a < c => NextOf(b, candidates, a) <= c
         /\ SectionOf(b, a) \in SweptSections /\ End(SectionOf(b, a)) \in Nat
<1> DEFINE s == SectionOf(b, a)
           ends == {c \in candidates : a < c /\ c < End(s)} \cup {End(s)}
<1>1. s \in SweptSections
  <2>1. Holding(b, a) # {} /\ Holding(b, a) \subseteq DOMAIN b.sections
    BY DEF InImage, Holding
  <2>2. b.sections \in Seq(SweptSections)
    BY DEF Binary
  <2> QED
    BY <2>1, <2>2 DEF SectionOf
<1>2. End(s) \in Nat
  BY <1>1, ListingFacts
<1> HIDE DEF s
<1>3. ends \in SUBSET Nat /\ ends # {}
  BY <1>2
<1>4. Min(ends) \in ends /\ \A x \in ends : Min(ends) <= x
  BY <1>3, LeastExists
<1>5. NextOf(b, candidates, a) = Min(ends)
  BY DEF NextOf, s
<1>6. ASSUME NEW c \in candidates, a < c
      PROVE  Min(ends) <= c
  <2>1. CASE c < End(s)
    BY <1>4, <1>6, <2>1
  <2>2. CASE ~(c < End(s))
    <3>1. Min(ends) <= End(s) /\ Min(ends) \in Nat
      BY <1>3, <1>4
    <3>2. End(s) <= c /\ c \in Nat
      BY <1>2, <2>2
    <3> HIDE DEF ends
    <3> QED
      BY <1>2, <3>1, <3>2
  <2> QED
    BY <2>1, <2>2
<1> HIDE DEF ends
<1> QED
  BY <1>1, <1>2, <1>3, <1>4, <1>5, <1>6 DEF s

LEMMA ExtentInFacts ==
  ASSUME NEW b, NEW decoded \in Seq(Decodes), InSequence(decoded), NEW candidates, NEW a
  PROVE  LET extent == ExtentIn(b, decoded, candidates, a) IN
         /\ extent \in Seq(Decodes) /\ InSequence(extent) /\ Len(extent) <= Len(decoded)
         /\ \A i \in 1..Len(extent) :
               a <= extent[i].address /\ extent[i].address < NextOf(b, candidates, a)
<1> DEFINE n == Len(decoded)
           inside == Inside(b, decoded, candidates, a)
           extent == ExtentIn(b, decoded, candidates, a)
<1>1. n \in Nat /\ \A i \in 1..n : decoded[i] \in Decodes
  OBVIOUS
<1>2. inside \in SUBSET (1..n)
  BY DEF Inside
<1>3. \A i \in inside : /\ a <= decoded[i].address
                        /\ decoded[i].address < NextOf(b, candidates, a)
  BY DEF Inside
<1> HIDE DEF n, inside
<1>4. extent \in Seq(Decodes) /\ Lists(extent, decoded, inside, Below(inside))
  BY <1>1, <1>2, FilteredFacts DEF ExtentIn, inside
<1>5. Len(extent) <= n
  <2>1. IsFiniteSet(1..n) /\ Cardinality(1..n) = IF 1 > n THEN 0 ELSE n - 1 + 1
    BY <1>1, FS_Interval, 1 \in Int, n \in Int
  <2>2. Cardinality(inside) <= Cardinality(1..n) /\ IsFiniteSet(inside)
    BY <1>2, <2>1, FS_Subset
  <2>3. Cardinality(inside) \in Nat
    BY <2>2, FS_CardinalityType
  <2>4. Len(extent) = Cardinality(inside)
    <3>1. extent = [k \in 1..Cardinality(inside) |-> decoded[Arranged(inside, Below(inside))[k]]]
      BY DEF ExtentIn, Filtered, RowsAt, inside
    <3>2. DOMAIN extent = 1..Cardinality(inside)
      BY <3>1
    <3> HIDE DEF extent
    <3> QED
      BY <1>4, <2>3, <3>2
  <2> QED
    BY <1>1, <2>1, <2>2, <2>3, <2>4
<1> HIDE DEF extent
<1>6. PICK at \in [1..Len(extent) -> inside] :
        /\ \A k \in 1..Len(extent) : extent[k] = decoded[at[k]]
        /\ \A j, k \in 1..Len(extent) : j < k => <<at[j], at[k]>> \in Below(inside)
  BY <1>4, Zenon DEF Lists
<1>7. InSequence(extent)
  <2> SUFFICES ASSUME NEW j \in 1..Len(extent), NEW k \in 1..Len(extent), j < k
               PROVE  extent[j].address + 2 <= extent[k].address
    BY DEF InSequence
  <2>1. at[j] \in 1..n /\ at[k] \in 1..n /\ at[j] < at[k]
    BY <1>2, <1>6 DEF Below
  <2> QED
    BY <1>6, <2>1 DEF InSequence, n
<1>8. \A k \in 1..Len(extent) :
         a <= extent[k].address /\ extent[k].address < NextOf(b, candidates, a)
  BY <1>3, <1>6
<1> QED
  BY <1>4, <1>5, <1>7, <1>8 DEF extent, n

\* There is a highest number in what is decoded.
LEMMA ExtentBounded ==
  ASSUME NEW extent \in Seq(Decodes), InSequence(extent), NEW a \in Nat
  PROVE  \E top \in Nat : extent \in Extents(top) /\ a \in 0..top
<1> DEFINE N == Len(extent)
           upTo(n, top) == a <= top /\ \A k \in 1..n : extent[k] \in Entries(top)
           good == {n \in 0..N : \E top \in Nat : upTo(n, top)}
<1>1. N \in Nat /\ \A k \in 1..N : extent[k] \in Decodes
  OBVIOUS
<1>2. 0 \in good
  <2>1. upTo(0, a)
    OBVIOUS
  <2> QED
    BY <1>1, <2>1
<1>3. ASSUME NEW n \in 1..N, n - 1 \in good
      PROVE  n \in good
  <2>1. PICK old \in Nat : upTo(n - 1, old)
    BY <1>3
  <2>2. PICK e \in Decodes : e = extent[n]
    BY <1>1
  <2>3. \E limit \in Nat : e.op.target \subseteq 0..limit
    <3>1. e.op.target = {} \/ \E t \in Nat : e.op.target = {t}
      BY DEF Decodes, Decodable
    <3>2. CASE e.op.target = {}
      BY <3>2, 0 \in Nat
    <3>3. CASE \E t \in Nat : e.op.target = {t}
      BY <3>3
    <3> QED
      BY <3>1, <3>2, <3>3
  <2>4. PICK limit \in Nat : e.op.target \subseteq 0..limit
    BY <2>3
  <2> DEFINE top == old + e.address + e.base + limit
  <2>5. e.address \in Nat /\ e.base \in Nat /\ e.op \in Instruction
    BY DEF Decodes, Decodable
  <2>6. /\ top \in Nat /\ 0..old \subseteq 0..top /\ 0..limit \subseteq 0..top /\ a <= top
        /\ e.address \in 0..top /\ e.base \in 0..top
    <3>1. a <= old
      BY <2>1
    <3>2. /\ top \in Nat /\ old <= top /\ limit <= top
          /\ e.address <= top /\ e.base <= top
      BY <2>5
    <3> HIDE DEF top
    <3> QED
      BY <2>5, <3>1, <3>2
  <2> HIDE DEF top
  <2>7. e \in Entries(top)
    <3>1. e.op \in {x \in Instruction : x.target \subseteq 0..top}
      BY <2>4, <2>5, <2>6
    <3>2. e = [address |-> e.address, base |-> e.base, op |-> e.op]
      BY DEF Decodes
    <3> QED
      BY <2>6, <3>1, <3>2 DEF Entries
  <2>8. Entries(old) \subseteq Entries(top)
    <3>1. {x \in Instruction : x.target \subseteq 0..old} \subseteq {x \in Instruction : x.target \subseteq 0..top}
      BY <2>6
    <3> QED
      BY <2>6, <3>1 DEF Entries
  <2>9. upTo(n, top)
    <3>1. \A k \in 1..n : k = n \/ k \in 1..(n - 1)
      BY <1>1
    <3> QED
      BY <2>1, <2>2, <2>6, <2>7, <2>8, <3>1
  <2> HIDE DEF upTo
  <2> QED
    BY <2>6, <2>9
<1>4. good \in SUBSET (0..N)
  OBVIOUS
<1> HIDE DEF good
<1>5. good = 0..N
  BY <1>1, <1>2, <1>3, <1>4, FirstFailure
<1>6. N \in good
  BY <1>1, <1>5
<1>7. PICK top \in Nat : upTo(N, top)
  BY <1>6 DEF good
<1>8. extent \in Seq(Entries(top))
  BY <1>1, <1>7
<1>9. extent \in Extents(top) /\ a \in 0..top
  <2>1. DOMAIN extent = 1..N
    OBVIOUS
  <2> QED
    BY <1>7, <1>8, <2>1 DEF Extents, InSequence
<1> QED
  BY <1>9

\* Where a function may end: at a return that no jump before it leads beyond.
Reached(extent, a, i) ==
    Max({a} \cup UNION {extent[k].op.target : k \in {n \in 1..i : IsJump(extent[n].op)}})
Returns(extent, a) ==
    {i \in DOMAIN extent :
       IsReturn(extent[i].op) /\ extent[i].address + 2 > Reached(extent, a, i)}
BodyLength(extent, a) == IF Returns(extent, a) = {} THEN Len(extent) ELSE Min(Returns(extent, a))

LEMMA BoundedIs ==
  ASSUME NEW extent \in Seq(Decodes), NEW a
  PROVE  /\ Returns(extent, a) \in SUBSET (1..Len(extent))
         /\ Returns(extent, a) # {} =>
              /\ Min(Returns(extent, a)) \in Returns(extent, a)
              /\ \A i \in Returns(extent, a) : Min(Returns(extent, a)) <= i
         /\ BodyLength(extent, a) \in 0..Len(extent)
         /\ Bounded(extent, a) = SubSeq(extent, 1, BodyLength(extent, a))
         /\ Bounded(extent, a) \in Seq(Decodes)
         /\ Len(Bounded(extent, a)) = BodyLength(extent, a)
         /\ \A i \in 1..Len(Bounded(extent, a)) : Bounded(extent, a)[i] = extent[i]
<1> DEFINE m == BodyLength(extent, a)
           S == Returns(extent, a)
<1>1. S \in SUBSET (1..Len(extent)) /\ S \in SUBSET Nat /\ Len(extent) \in Nat
  BY DEF Returns
<1>2. S # {} => Min(S) \in S /\ \A i \in S : Min(S) <= i
  BY <1>1, LeastExists
<1>3. m \in 0..Len(extent)
  BY <1>1, <1>2 DEF BodyLength
<1>4. Bounded(extent, a) = SubSeq(extent, 1, m)
  BY Zenon DEF Bounded, BodyLength, Returns, Reached
<1> HIDE DEF m, S
<1>5. /\ SubSeq(extent, 1, m) \in Seq(Decodes) /\ Len(SubSeq(extent, 1, m)) = m
      /\ \A i \in 1..m : SubSeq(extent, 1, m)[i] = extent[i]
  BY <1>1, <1>3
<1> QED
  BY <1>1, <1>2, <1>3, <1>4, <1>5 DEF m, S

\* A function that ends before the limit ends there without the limit as well.
LEMMA BoundedStable ==
  ASSUME NEW extent \in Seq(Decodes), NEW a, NEW cut \in Seq(Decodes),
         Len(cut) <= Len(extent), \A i \in 1..Len(cut) : cut[i] = extent[i],
         Len(Bounded(cut, a)) < Len(cut) \/ Len(cut) = Len(extent)
  PROVE  Bounded(extent, a) = Bounded(cut, a)
<1> DEFINE m == Len(cut)
           N == Len(extent)
<1>1. /\ N \in Nat /\ m \in Nat /\ m <= N /\ DOMAIN extent = 1..N /\ DOMAIN cut = 1..m
      /\ \A i \in 1..m : cut[i] = extent[i]
      /\ extent = [i \in 1..N |-> extent[i]] /\ cut = [i \in 1..m |-> cut[i]]
  OBVIOUS
<1>2. Len(Bounded(cut, a)) < m \/ m = N
  OBVIOUS
<1>3. /\ Returns(extent, a) \in SUBSET (1..N) /\ Returns(cut, a) \in SUBSET (1..m)
      /\ Returns(cut, a) # {} =>
           /\ Min(Returns(cut, a)) \in Returns(cut, a)
           /\ \A i \in Returns(cut, a) : Min(Returns(cut, a)) <= i
      /\ Len(Bounded(cut, a)) = BodyLength(cut, a)
      /\ Bounded(extent, a) = SubSeq(extent, 1, BodyLength(extent, a))
      /\ Bounded(cut, a) = SubSeq(cut, 1, BodyLength(cut, a))
  BY BoundedIs
<1>4. BodyLength(cut, a) = IF Returns(cut, a) = {} THEN m ELSE Min(Returns(cut, a))
  BY DEF BodyLength
<1>5. BodyLength(extent, a) = IF Returns(extent, a) = {} THEN N ELSE Min(Returns(extent, a))
  BY DEF BodyLength
<1>6. CASE m = N
  <2>1. extent = cut
    BY <1>1, <1>6
  <2> QED
    BY <2>1
<1>7. CASE Len(Bounded(cut, a)) < m
  <2> HIDE DEF m, N
  <2>1. \A i \in 1..m : Reached(cut, a, i) = Reached(extent, a, i)
    <3> SUFFICES ASSUME NEW i \in 1..m PROVE Reached(cut, a, i) = Reached(extent, a, i)
      OBVIOUS
    <3>1. \A n \in 1..i : cut[n] = extent[n]
      <4>1. \A n \in 1..i : n \in 1..m
        BY <1>1
      <4> QED
        BY <1>1, <4>1, Zenon
    <3>2. {n \in 1..i : IsJump(cut[n].op)} = {n \in 1..i : IsJump(extent[n].op)}
      BY <3>1
    <3>3. UNION {cut[k].op.target : k \in {n \in 1..i : IsJump(cut[n].op)}}
            = UNION {extent[k].op.target : k \in {n \in 1..i : IsJump(extent[n].op)}}
      BY <3>1, <3>2
    <3> QED
      BY <3>3, Zenon DEF Reached
  <2>2. Returns(cut, a) = Returns(extent, a) \cap (1..m)
    <3>1. \A i : i \in 1..m => i \in 1..N
      BY <1>1
    <3>2. \A i : i \in Returns(cut, a) <=> i \in Returns(extent, a) /\ i \in 1..m
      BY <1>1, <2>1, <3>1, Zenon DEF Returns
    <3> QED
      BY <3>2
  <2>3. Returns(cut, a) # {}
    BY <1>1, <1>3, <1>4, <1>7
  <2> DEFINE k == Min(Returns(cut, a))
  <2>4. k \in Returns(cut, a) /\ \A i \in Returns(cut, a) : k <= i
    BY <1>3, <2>3
  <2>5. BodyLength(cut, a) = k
    BY <1>4, <2>3
  <2> HIDE DEF k
  <2>6. k \in 1..m /\ k \in 1..N /\ k \in Returns(extent, a)
    BY <1>1, <1>3, <2>2, <2>4
  <2>7. ASSUME NEW i \in Returns(extent, a)
        PROVE  k <= i
    <3>1. i \in 1..N
      BY <1>3
    <3>2. CASE i \in 1..m
      BY <2>2, <2>4, <3>2
    <3>3. CASE ~(i \in 1..m)
      BY <1>1, <2>6, <3>1, <3>3
    <3> QED
      BY <3>2, <3>3
  <2>8. Min(Returns(extent, a)) = k
    <3>1. Returns(extent, a) \in SUBSET Int
      BY <1>1, <1>3
    <3> QED
      BY <2>6, <2>7, <3>1, LeastOf
  <2>9. BodyLength(extent, a) = k
    BY <1>5, <2>6, <2>8
  <2>10. \A i \in 1..k : extent[i] = cut[i]
    <3>1. \A i \in 1..k : i \in 1..m
      BY <1>1, <2>6
    <3> QED
      BY <1>1, <3>1, Zenon
  <2>11. SubSeq(extent, 1, k) = [i \in 1..k |-> extent[i]]
    BY <1>1, <2>6 DEF N
  <2>12. SubSeq(cut, 1, k) = [i \in 1..k |-> cut[i]]
    BY <1>1, <2>6 DEF m
  <2> QED
    BY <1>3, <2>5, <2>9, <2>10, <2>11, <2>12
<1> QED
  BY <1>2, <1>6, <1>7

\* The extent of a candidate under the limit of a body.
LEMMA LimitedExtentFacts ==
  ASSUME NEW b, Binary(b), NEW limits, LimitsOfFunctions(limits),
         NEW a \in Candidates(b, limits)
  PROVE  LET whole == ExtentIn(b, Decoded(b, limits), Candidates(b, limits), a)
             extent == Extent(b, limits, a)
         IN /\ whole \in Seq(Decodes) /\ extent \in Seq(Decodes) /\ InSequence(extent)
            /\ Len(whole) \in Nat /\ Len(extent) \in Nat /\ Len(whole) <= Len(Code(b))
            /\ Len(extent) = IF limits.body <= Len(whole) THEN limits.body ELSE Len(whole)
            /\ \A i \in 1..Len(extent) : extent[i] = whole[i]
            /\ \A i \in 1..Len(extent) :
                  /\ a <= extent[i].address
                  /\ extent[i].address < NextOf(b, Candidates(b, limits), a)
<1> DEFINE decoded == Decoded(b, limits)
           whole == ExtentIn(b, decoded, Candidates(b, limits), a)
           m == Min({limits.body, Len(whole)})
           extent == Extent(b, limits, a)
<1>1. decoded \in Seq(Decodes) /\ InSequence(decoded) /\ Len(decoded) <= Len(Code(b))
  BY DecodedFacts
<1>2. Len(decoded) \in Nat /\ Len(Code(b)) \in Nat
  BY <1>1, CodeFacts
<1> HIDE DEF decoded
<1>3. /\ whole \in Seq(Decodes) /\ InSequence(whole) /\ Len(whole) <= Len(decoded)
      /\ \A i \in 1..Len(whole) :
           a <= whole[i].address /\ whole[i].address < NextOf(b, Candidates(b, limits), a)
  BY <1>1, ExtentInFacts
<1>4. extent = SubSeq(whole, 1, m)
  BY ExtentIs DEF decoded
<1> HIDE DEF whole
<1>5. /\ m \in 0..Len(whole)
      /\ m = IF limits.body <= Len(whole) THEN limits.body ELSE Len(whole)
      /\ SubSeq(whole, 1, m) \in Seq(Decodes) /\ Len(SubSeq(whole, 1, m)) = m
      /\ \A i \in 1..m : SubSeq(whole, 1, m)[i] = whole[i]
  <2>1. whole \in Seq(Decodes) /\ limits.body \in Nat
    BY <1>3 DEF LimitsOfFunctions
  <2> QED
    BY <2>1, PrefixFacts
<1> HIDE DEF m, extent
<1>6. Len(whole) \in Nat
  BY <1>3
<1>7. /\ extent \in Seq(Decodes) /\ Len(extent) = m /\ m \in Nat
      /\ \A i \in 1..m : extent[i] = whole[i] /\ i \in 1..Len(whole)
  BY <1>4, <1>5, <1>6
<1>8. InSequence(extent)
  BY <1>3, <1>7 DEF InSequence
<1>9. Len(whole) <= Len(Code(b))
  BY <1>1, <1>2, <1>3, <1>6
<1>10. \A i \in 1..Len(extent) :
         a <= extent[i].address /\ extent[i].address < NextOf(b, Candidates(b, limits), a)
  BY <1>3, <1>7
<1> QED
  BY <1>3, <1>5, <1>6, <1>7, <1>8, <1>9, <1>10 DEF whole, decoded, extent

\* The body of a function: instructions from its address on, all before the next candidate.
LEMMA BodyFacts ==
  ASSUME NEW b, Binary(b), NEW limits, LimitsOfFunctions(limits),
         NEW a \in Candidates(b, limits)
  PROVE  LET body == Body(b, limits, a) IN
         /\ body \in Seq(Decodes) /\ Len(body) \in Nat
         /\ \A i \in 1..Len(body) :
               /\ body[i].address \in Nat /\ a <= body[i].address
               /\ body[i].address < NextOf(b, Candidates(b, limits), a)
<1> DEFINE extent == Extent(b, limits, a)
           body == Bounded(extent, a)
           beyond == NextOf(b, Candidates(b, limits), a)
<1>1. /\ extent \in Seq(Decodes) /\ Len(extent) \in Nat
      /\ \A i \in 1..Len(extent) : a <= extent[i].address /\ extent[i].address < beyond
  BY LimitedExtentFacts
<1> HIDE DEF extent, beyond
<1>2. /\ BodyLength(extent, a) \in 0..Len(extent) /\ body \in Seq(Decodes)
      /\ Len(body) = BodyLength(extent, a)
      /\ \A i \in 1..Len(body) : body[i] = extent[i]
  BY <1>1, BoundedIs
<1> HIDE DEF body
<1>3. Len(body) \in Nat /\ \A i \in 1..Len(body) : i \in 1..Len(extent)
  BY <1>1, <1>2
<1>4. \A i \in 1..Len(body) : body[i] \in Decodes
  BY <1>2
<1>5. \A i \in 1..Len(body) :
        body[i].address \in Nat /\ a <= body[i].address /\ body[i].address < beyond
  BY <1>1, <1>2, <1>3, <1>4 DEF Decodes
<1> QED
  BY <1>2, <1>3, <1>5 DEF body, extent, beyond, Body

\* A function of the inventory: its fields, and that it ends before the next candidate.
LEMMA FunctionFacts ==
  ASSUME NEW b, Binary(b), NEW limits, LimitsOfFunctions(limits),
         NEW f \in Inventory(b, limits)
  PROVE  /\ f.address \in Candidates(b, limits) /\ f.address \in Nat
         /\ f = Function(b, limits, f.address)
         /\ f.body = Body(b, limits, f.address)
         /\ f.callees = Callees(b, limits, f.address)
         /\ f.size \in Nat /\ f.body \in Seq(Decodes)
         /\ \A c \in Candidates(b, limits) : f.address < c => f.address + f.size <= c + 1
         /\ f.truncated <=> InventoryTruncated(b, limits) \/ Len(f.body) >= limits.body
         /\ \A x \in Addresses(f.body) :
               /\ x \in Nat /\ f.address <= x
               /\ \A c \in Candidates(b, limits) : f.address < c => x < c
<1>1. PICK a \in Candidates(b, limits) : f = Function(b, limits, a) /\ Body(b, limits, a) # <<>>
  BY DEF Inventory
<1> DEFINE body == Body(b, limits, a)
           beyond == NextOf(b, Candidates(b, limits), a)
<1>2. /\ f.address = a /\ f.body = body /\ f.callees = Callees(b, limits, a)
      /\ f.size = Last(body).address + 2 - a
      /\ f.truncated <=> InventoryTruncated(b, limits) \/ Len(body) >= limits.body
  BY <1>1 DEF Function
<1>3. /\ Candidates(b, limits) \in SUBSET Nat /\ a \in Nat /\ InImage(b, a)
      /\ \A c \in Candidates(b, limits) : c \in Nat
  BY CandidateFacts
<1>4. /\ body \in Seq(Decodes) /\ Len(body) \in Nat
      /\ \A i \in 1..Len(body) :
           body[i].address \in Nat /\ a <= body[i].address /\ body[i].address < beyond
  BY BodyFacts
<1>5. beyond \in Nat /\ \A c \in Candidates(b, limits) : a < c => beyond <= c
  BY <1>3, NextFacts
<1>6. body # <<>>
  BY <1>1
<1> HIDE DEF body, beyond
<1>7. Len(body) \in 1..Len(body) /\ Last(body) = body[Len(body)]
  BY <1>4, <1>6 DEF Last
<1>8. /\ Last(body).address \in Nat /\ a <= Last(body).address /\ Last(body).address < beyond
  BY <1>4, <1>7
<1>9. f.size \in Nat /\ f.address + f.size = Last(body).address + 2
  BY <1>2, <1>3, <1>8
<1>10. \A c \in Candidates(b, limits) : a < c => f.address + f.size <= c + 1
  BY <1>3, <1>5, <1>8, <1>9
<1>11. \A x \in Addresses(body) : \E i \in 1..Len(body) : x = body[i].address
  BY <1>4 DEF Addresses
<1>12. \A x \in Addresses(body) :
         x \in Nat /\ a <= x /\ \A c \in Candidates(b, limits) : a < c => x < c
  BY <1>3, <1>4, <1>5, <1>11
<1> QED
  BY <1>1, <1>2, <1>3, <1>4, <1>9, <1>10, <1>12 DEF body

\* An inventory has finitely many functions.
LEMMA InventoryFinite ==
  ASSUME NEW b, Binary(b), NEW limits, LimitsOfFunctions(limits)
  PROVE  IsFiniteSet(Inventory(b, limits)) /\ Listed(Inventory(b, limits)) \in SUBSET Nat
<1> DEFINE whole == {c \in Candidates(b, limits) : Body(b, limits, c) # <<>>}
           functions == Inventory(b, limits)
           at == [a \in whole |-> Function(b, limits, a)]
<1>1. IsFiniteSet(whole)
  BY CandidateFacts, FS_Subset
<1>2. at \in Surjection(whole, functions)
  <2>1. at \in [whole -> functions] /\ \A f \in functions : \E a \in whole : at[a] = f
    BY DEF Inventory
  <2> QED
    BY <2>1 DEF Surjection
<1>3. IsFiniteSet(functions)
  BY <1>1, <1>2, FS_Surjection
<1>4. Listed(functions) \in SUBSET Nat
  BY FunctionFacts DEF Listed
<1> QED
  BY <1>3, <1>4

\* A function that is not marked truncated is the one without limits.
LEMMA Untruncated ==
  ASSUME NEW b, Binary(b), NEW limits, LimitsOfFunctions(limits),
         NEW f \in Inventory(b, limits), ~f.truncated
  PROVE  LET whole == Function(b, Unlimited(b), f.address) IN
         f.body = whole.body /\ f.callees = whole.callees
<1> DEFINE a == f.address
           code == Code(b)
           N == Len(code)
           open == Unlimited(b)
           top == 2 * N + 2 + Cardinality(b.symbols)
<1>1. /\ a \in Candidates(b, limits)
      /\ f.body = Body(b, limits, a) /\ f.callees = Callees(b, limits, a)
      /\ ~InventoryTruncated(b, limits) /\ ~(Len(f.body) >= limits.body)
  BY FunctionFacts
<1>2. code \in Seq(Decodes) /\ N \in Nat /\ Cardinality(b.symbols) \in Nat
  BY CodeFacts, ReasonFacts
<1>3. /\ limits.scan \in Nat /\ limits.functions \in Nat /\ limits.body \in Nat
      /\ open = [scan |-> top, functions |-> top, body |-> top, nodes |-> top]
  BY DEF LimitsOfFunctions, Unlimited
<1>4. top \in Nat /\ N <= top /\ Cardinality(b.symbols) + 1 + N <= top
  BY <1>2
<1> HIDE DEF top
<1>5. LimitsOfFunctions(open) /\ open.scan = top /\ open.functions = top /\ open.body = top
  BY <1>3, <1>4 DEF LimitsOfFunctions
<1> HIDE DEF open
<1>6. Decoded(b, limits) = code /\ Decoded(b, open) = code
  <2>1. ~(N > limits.scan)
    BY <1>1 DEF InventoryTruncated, ScanTruncated
  <2>2. ASSUME NEW n \in Nat, N <= n
        PROVE  SubSeq(code, 1, Min({n, N})) = code
    <3>1. Min({n, N}) = N
      <4>1. Min({n, N}) = IF n <= N THEN n ELSE N
        BY <1>2, MinOfTwo
      <4> HIDE DEF N
      <4> QED
        BY <1>2, <2>2, <4>1
    <3>2. SubSeq(code, 1, N) = code
      <4> HIDE DEF code
      <4> QED
        BY <1>2
    <3> QED
      BY <3>1, <3>2
  <2> HIDE DEF code
  <2>3. N <= limits.scan /\ N <= open.scan /\ open.scan \in Nat
    BY <1>2, <1>3, <1>4, <1>5, <2>1
  <2> QED
    BY <1>3, <2>2, <2>3 DEF Decoded, code
<1>7. CandidateReasons(b, limits) = CandidateReasons(b, open)
  BY <1>6 DEF CandidateReasons
<1>8. /\ Candidates(b, limits) = CandidateReasons(b, limits)
      /\ Candidates(b, open) = CandidateReasons(b, open)
  <2>1. /\ Cardinality(CandidateReasons(b, limits)) \in Nat
        /\ Cardinality(CandidateReasons(b, open)) \in Nat
        /\ Cardinality(CandidateReasons(b, open)) <= Cardinality(b.symbols) + 1 + N
    BY <1>5, ReasonFacts
  <2>2. ~(Cardinality(CandidateReasons(b, limits)) > limits.functions)
    BY <1>1 DEF InventoryTruncated
  <2> HIDE DEF N
  <2>3. /\ Cardinality(CandidateReasons(b, limits)) <= limits.functions
        /\ Cardinality(CandidateReasons(b, open)) <= open.functions
    BY <1>2, <1>3, <1>4, <1>5, <2>1, <2>2
  <2> QED
    BY <1>5, <2>3, CandidateFacts
<1>9. Candidates(b, open) = Candidates(b, limits) /\ a \in Candidates(b, open)
  BY <1>1, <1>7, <1>8
<1> DEFINE whole == ExtentIn(b, code, Candidates(b, limits), a)
           cut == Extent(b, limits, a)
           extent == Extent(b, open, a)
<1>10. /\ whole \in Seq(Decodes) /\ cut \in Seq(Decodes) /\ Len(cut) \in Nat /\ Len(whole) \in Nat
       /\ Len(cut) = IF limits.body <= Len(whole) THEN limits.body ELSE Len(whole)
       /\ \A i \in 1..Len(cut) : cut[i] = whole[i]
  BY <1>1, <1>6, LimitedExtentFacts
<1>11. /\ extent \in Seq(Decodes) /\ Len(extent) \in Nat /\ Len(whole) <= N
       /\ Len(extent) = IF open.body <= Len(whole) THEN open.body ELSE Len(whole)
       /\ \A i \in 1..Len(extent) : extent[i] = whole[i]
  BY <1>5, <1>6, <1>9, LimitedExtentFacts
<1> HIDE DEF whole, cut, extent, N
<1>12. extent = whole
  <2>1. Len(extent) = Len(whole)
    BY <1>2, <1>4, <1>5, <1>10, <1>11
  <2> QED
    BY <1>10, <1>11, <2>1
<1>13. Len(Bounded(cut, a)) < limits.body
  <2>1. Len(Bounded(cut, a)) = BodyLength(cut, a) /\ BodyLength(cut, a) \in 0..Len(cut)
    BY <1>10, BoundedIs
  <2>2. f.body = Bounded(cut, a)
    BY <1>1 DEF Body, cut
  <2>3. BodyLength(cut, a) \in Nat
    BY <1>10, <2>1
  <2> QED
    BY <1>1, <1>3, <2>1, <2>2, <2>3
<1>14. Bounded(whole, a) = Bounded(cut, a)
  <2>1. Len(cut) <= Len(whole)
    BY <1>3, <1>10
  <2>2. Len(Bounded(cut, a)) < Len(cut) \/ Len(cut) = Len(whole)
    <3>1. CASE limits.body <= Len(whole)
      BY <1>10, <1>13, <3>1
    <3>2. CASE ~(limits.body <= Len(whole))
      BY <1>10, <3>2
    <3> QED
      BY <3>1, <3>2
  <2> QED
    BY <1>10, <2>1, <2>2, BoundedStable
<1>15. Body(b, limits, a) = Body(b, open, a)
  BY <1>12, <1>14 DEF Body, cut, extent
<1>16. Callees(b, limits, a) = Callees(b, open, a)
  BY <1>9, <1>15 DEF Callees
<1> DEFINE unlimited == Function(b, open, a)
<1>17. unlimited.body = Body(b, open, a) /\ unlimited.callees = Callees(b, open, a)
  BY DEF Function
<1> QED
  BY <1>1, <1>15, <1>16, <1>17 DEF open

LEMMA OneAtMost ==
  ASSUME NEW S, \A x, y \in S : x = y
  PROVE  Cardinality(S) <= 1
<1>1. CASE S = {}
  BY <1>1, FS_EmptySet
<1>2. CASE S # {}
  <2>1. PICK x \in S : TRUE
    BY <1>2
  <2>2. S = {x}
    BY <2>1
  <2> QED
    BY <2>2, FS_Singleton
<1> QED
  BY <1>1, <1>2

\* The inventory of any binary under any limits: no two functions share an instruction or an
\* address in between, no jump leads out of one into code that was left out, what is not
\* marked truncated is as without limits, and the call graphs are exact
\* (analysis/functions.py).
THEOREM InventoryAlwaysExact ==
  ASSUME NEW b, Binary(b), NEW limits, LimitsOfFunctions(limits)
  PROVE  FunctionsExact(b, limits)
<1> DEFINE functions == Inventory(b, limits)
<1>1. /\ IsFiniteSet(functions) /\ Listed(functions) \in SUBSET Nat
  BY InventoryFinite
<1>2. \A f \in functions :
        /\ f.address \in Candidates(b, limits) /\ f.address \in Nat /\ f.address \in Listed(functions)
        /\ f = Function(b, limits, f.address) /\ f.size \in Nat
        /\ \A c \in Candidates(b, limits) : f.address < c => f.address + f.size <= c + 1
        /\ \A x \in Addresses(f.body) :
              /\ x \in Nat /\ f.address <= x
              /\ \A c \in Candidates(b, limits) : f.address < c => x < c
  BY FunctionFacts DEF Listed
<1> HIDE DEF functions
<1>3. BodiesDisjoint(functions)
  <2>1. ASSUME NEW f \in functions, NEW g \in functions, f.address < g.address,
               NEW x, x \in Addresses(f.body), x \in Addresses(g.body)
        PROVE  FALSE
    <3>1. x \in Nat /\ x < g.address /\ g.address <= x /\ g.address \in Nat
      BY <1>2, <2>1
    <3> QED
      BY <3>1
  <2>2. ASSUME NEW f \in functions, NEW g \in functions, f # g
        PROVE  Addresses(f.body) \cap Addresses(g.body) = {}
    <3>1. f.address # g.address
      BY <1>2, <2>2
    <3>2. f.address < g.address \/ g.address < f.address
      BY <1>2, <3>1
    <3> QED
      BY <2>1, <3>2
  <2> QED
    BY <2>2 DEF BodiesDisjoint
<1>4. BranchesStayInside(b, limits, functions)
  <2> SUFFICES ASSUME NEW f \in functions
               PROVE  \A i \in DOMAIN f.body :
                        IsJump(f.body[i].op) =>
                          f.body[i].op.target \cap Addresses(Extent(b, limits, f.address))
                            \subseteq Addresses(f.body)
    BY DEF BranchesStayInside
  <2> DEFINE a == f.address
             extent == Extent(b, limits, a)
  <2>1. a \in Candidates(b, limits) /\ a \in Nat /\ f.body = Bounded(extent, a)
    BY FunctionFacts DEF functions, Body
  <2>2. extent \in Seq(Decodes) /\ InSequence(extent)
    BY <2>1, LimitedExtentFacts
  <2> HIDE DEF a, extent
  <2>3. PICK top \in Nat : extent \in Extents(top) /\ a \in 0..top
    BY <2>1, <2>2, ExtentBounded
  <2> DEFINE body == Bounded(extent, a)
  <2>4. \A i \in DOMAIN body :
          IsJump(body[i].op) =>
            body[i].op.target \cap Addresses(extent) \subseteq Addresses(body)
    BY <2>3, BranchesAlwaysStayInside
  <2> HIDE DEF body
  <2>5. f.body = body
    BY <2>1 DEF body
  <2> QED
    BY <2>4, <2>5 DEF extent, a
<1>5. TruncationHonest(b, limits, functions)
  BY Untruncated DEF TruncationHonest, functions
<1>6. LookupUnique(b, functions)
  <2> SUFFICES ASSUME NEW x \in Int, x \notin Listed(functions)
               PROVE  Cardinality({f \in functions : f.address <= x /\ x < f.address + f.size}) <= 1
    BY DEF LookupUnique
  <2>1. ASSUME NEW f \in functions, NEW g \in functions, f.address < g.address,
               x < f.address + f.size, g.address <= x
        PROVE  FALSE
    <3>1. /\ g.address \in Nat /\ f.address + f.size <= g.address + 1
          /\ f.address + f.size \in Int /\ g.address \in Listed(functions)
      BY <1>2, <2>1
    <3>2. x = g.address
      BY <2>1, <3>1
    <3> QED
      BY <3>1, <3>2
  <2> DEFINE S == {f \in functions : f.address <= x /\ x < f.address + f.size}
  <2>2. \A f, g \in S : f = g
    <3> SUFFICES ASSUME NEW f \in S, NEW g \in S PROVE f = g
      OBVIOUS
    <3>1. ~(f.address < g.address) /\ ~(g.address < f.address)
      BY <2>1
    <3>2. f.address \in Nat /\ g.address \in Nat
      BY <1>2
    <3>3. f.address = g.address
      BY <3>1, <3>2
    <3> QED
      BY <1>2, <3>3
  <2> HIDE DEF S
  <2>3. Cardinality(S) <= 1
    BY <2>2, OneAtMost
  <2> QED
    BY <2>3 DEF S
<1>7. \A root \in Listed(functions), depth \in 0..2 : GraphExact(functions, root, depth, limits)
  BY <1>1, GraphAlwaysExact DEF LimitsOfFunctions
<1> QED
  BY <1>3, <1>4, <1>5, <1>6, <1>7 DEF FunctionsExact, functions

-----------------------------------------------------------------------------
(* Lists put together: pages and hex dumps *)

\* Lists put one after the other, after the first n of them.
Concatenates(after, lists, T) ==
    /\ after \in [0..Len(lists) -> Seq(T)]
    /\ after[0] = <<>>
    /\ \A n \in 1..Len(lists) : after[n] = after[n - 1] \o lists[n]
    /\ FlattenSeq(lists) = after[Len(lists)]

LEMMA FlattenFacts ==
  ASSUME NEW T, NEW lists \in Seq(Seq(T))
  PROVE  \E after : Concatenates(after, lists, T)
<1> DEFINE N == Len(lists)
           S == Seq(T)
           step == [n \in 1..N |-> [list \in S |-> list \o lists[n]]]
           body(g, n) == IF n = 1 THEN lists[n] ELSE g[n - 1] \o lists[n]
           loop(f) == f = [n \in 1..N |-> body(f, n)]
           flatten == CHOOSE f : loop(f)
<1>1. N \in Nat /\ \A n \in 1..N : lists[n] \in Seq(T)
  OBVIOUS
<1>2. FlattenSeq(lists) = IF N = 0 THEN lists ELSE flatten[N]
  BY Zenon DEF FlattenSeq
<1>3. N = 0 => lists = <<>>
  OBVIOUS
<1> HIDE DEF N, flatten
<1>4. \A n \in 1..N, list \in S : list \o lists[n] \in S
  BY <1>1, Joined
<1>5. step \in Turns(S, N) /\ <<>> \in S
  BY <1>4 DEF Turns
<1>6. \A n \in 1..N, list \in S : step[n][list] = list \o lists[n]
  OBVIOUS
<1> HIDE DEF step, S
<1>7. PICK f : Iterates(f, S, N, <<>>, step)
  BY <1>1, <1>5, IterationExists
<1>8. f \in [0..N -> S] /\ f[0] = <<>> /\ \A n \in 1..N : f[n] = f[n - 1] \o lists[n]
  <2>1. \A n \in 1..N : n - 1 \in 0..N
    BY <1>1
  <2> QED
    BY <1>6, <1>7, <2>1 DEF Iterates
<1> DEFINE g == [n \in 1..N |-> f[n]]
<1>9. loop(g)
  <2>1. ASSUME NEW n \in 1..N
        PROVE  g[n] = body(g, n)
    <3>1. CASE n = 1
      <4>1. f[1] = <<>> \o lists[1]
        BY <1>1, <1>8, <3>1, 1 - 1 = 0
      <4>2. lists[1] \in Seq(T)
        BY <1>1, <3>1
      <4>3. <<>> \o lists[1] = lists[1]
        BY <4>2
      <4> QED
        BY <3>1, <4>1, <4>3
    <3>2. CASE n # 1
      <4>1. n - 1 \in 1..N
        BY <1>1, <3>2
      <4> QED
        BY <1>8, <3>2, <4>1
    <3> QED
      BY <3>1, <3>2
  <2> HIDE DEF body
  <2> QED
    BY <2>1
<1> HIDE DEF g
<1>10. loop(flatten)
  BY <1>9, Zenon DEF flatten
<1>11. \A n \in 1..N : flatten[n] = body(flatten, n)
  <2> HIDE DEF body
  <2> QED
    BY <1>10
<1> DEFINE good == {n \in 0..N : n = 0 \/ flatten[n] = f[n]}
<1>12. ASSUME NEW n \in 1..N, n - 1 \in good
       PROVE  n \in good
  <2>1. f[n] = f[n - 1] \o lists[n]
    BY <1>8
  <2> n \in 0..N
    BY <1>1
  <2>2. CASE n = 1
    <3>1. f[0] = <<>> /\ n - 1 = 0 /\ lists[n] \in Seq(T)
      BY <1>1, <1>8, <2>2
    <3>2. <<>> \o lists[n] = lists[n]
      BY <3>1
    <3>3. flatten[n] = lists[n]
      BY <1>11, <2>2
    <3> QED
      BY <2>1, <3>1, <3>2, <3>3
  <2>3. CASE n # 1
    <3>1. n - 1 # 0
      BY <1>1, <2>3
    <3>2. flatten[n - 1] = f[n - 1]
      BY <1>12, <3>1
    <3>3. flatten[n] = flatten[n - 1] \o lists[n]
      BY <1>11, <2>3
    <3> QED
      BY <2>1, <3>2, <3>3
  <2> QED
    BY <2>2, <2>3
<1>13. good \in SUBSET (0..N) /\ 0 \in good
  BY <1>1
<1> HIDE DEF good
<1>14. good = 0..N
  BY <1>1, <1>12, <1>13, FirstFailure
<1>15. N # 0 => flatten[N] = f[N]
  BY <1>1, <1>14 DEF good
<1>16. FlattenSeq(lists) = f[N]
  BY <1>2, <1>3, <1>8, <1>15
<1>17. Concatenates(f, lists, T)
  BY <1>8, <1>16, Zenon DEF Concatenates, N, S
<1> QED
  BY <1>17

-----------------------------------------------------------------------------
\* Where the first f of n items end.
UpTo(f, n) == IF f <= n THEN f ELSE n

\* A page goes on where the ones before it end.
LEMMA PagesJoin ==
  ASSUME NEW T, NEW elements \in Seq(T), NEW f \in Nat, NEW limit \in Nat
  PROVE  /\ Slice(elements, f, limit) \in Seq(T)
         /\ SubSeq(elements, 1, UpTo(f, Len(elements))) \o Slice(elements, f, limit)
              = SubSeq(elements, 1, UpTo(f + limit, Len(elements)))
<1> DEFINE n == Len(elements)
           m == UpTo(f, n)
           k == UpTo(f + limit, n)
           before == SubSeq(elements, 1, m)
           page == Slice(elements, f, limit)
           after == SubSeq(elements, 1, k)
<1>1. n \in Nat /\ m \in 0..n /\ k \in 0..n
  BY DEF UpTo
<1>2. /\ before \in Seq(T) /\ Len(before) = m /\ \A i \in 1..m : before[i] = elements[i]
      /\ after \in Seq(T) /\ Len(after) = k /\ \A i \in 1..k : after[i] = elements[i]
  <2>1. ASSUME NEW x \in 0..n
        PROVE  /\ SubSeq(elements, 1, x) \in Seq(T) /\ Len(SubSeq(elements, 1, x)) = x
               /\ \A i \in 1..x : SubSeq(elements, 1, x)[i] = elements[i]
    BY <1>1
  <2> HIDE DEF n, m, k
  <2> QED
    BY <1>1, <2>1
<1>3. /\ Len(page) = PageLength(f, n, limit) /\ DOMAIN page = 1..Len(page)
      /\ \A i \in DOMAIN page : page[i] = elements[f + i]
  BY SliceFacts
<1>4. \A i \in 1..n : elements[i] \in T
  OBVIOUS
<1>5. page = SubSeq(elements, f + 1, IF f + limit <= n THEN f + limit ELSE n)
  <2>1. n \in Int /\ f + limit \in Int
    BY <1>1
  <2> HIDE DEF n
  <2>2. Min({f + limit, n}) = IF f + limit <= n THEN f + limit ELSE n
    BY <2>1, MinOfTwo
  <2> QED
    BY <2>2 DEF Slice, n
<1>6. page \in Seq(T)
  <2> HIDE DEF page
  <2>1. (IF f + limit <= n THEN f + limit ELSE n) \in 0..n
    BY <1>1
  <2> DEFINE top == IF f + limit <= n THEN f + limit ELSE n
  <2>2. top \in 0..n /\ page = SubSeq(elements, f + 1, top)
    BY <1>5, <2>1
  <2> HIDE DEF top
  <2>3. SubSeq(elements, f + 1, top) \in Seq(T)
    BY <1>1, <2>2
  <2> QED
    BY <2>2, <2>3
<1>7. Len(page) \in Nat /\ m + Len(page) = k /\ (Len(page) # 0 => m = f)
  <2> HIDE DEF n
  <2> QED
    BY <1>1, <1>3 DEF PageLength, UpTo
<1> HIDE DEF before, page, after, m, k, n
<1> DEFINE both == before \o page
<1>8. /\ both \in Seq(T) /\ Len(both) = Len(before) + Len(page)
      /\ \A i \in 1..Len(before) : both[i] = before[i]
      /\ \A i \in 1..Len(page) : both[Len(before) + i] = page[i]
  <2>1. before \in Seq(T) /\ page \in Seq(T)
    BY <1>2, <1>6
  <2> QED
    BY <2>1, Joined
<1> HIDE DEF both
<1>9. Len(both) = k
  BY <1>2, <1>7, <1>8
<1>10. ASSUME NEW i \in 1..k
       PROVE  both[i] = after[i]
  <2>1. CASE i <= m
    <3>1. i \in 1..m
      BY <1>1, <2>1
    <3> QED
      BY <1>2, <1>8, <3>1
  <2>2. CASE ~(i <= m)
    <3>1. i - m \in 1..Len(page) /\ m + (i - m) = i
      BY <1>1, <1>7, <2>2
    <3>2. m = f
      BY <1>7, <3>1
    <3>3. both[i] = page[i - m]
      BY <1>2, <1>8, <3>1
    <3>4. page[i - m] = elements[f + (i - m)]
      BY <1>3, <3>1
    <3> QED
      BY <1>2, <3>1, <3>2, <3>3, <3>4
  <2> QED
    BY <2>1, <2>2
<1>11. both = after
  <2>1. both \in Seq(T) /\ Len(both) = k
    BY <1>8, <1>9
  <2>2. after \in Seq(T) /\ Len(after) = k
    BY <1>2
  <2> QED
    BY <1>10, <2>1, <2>2
<1> QED
  BY <1>6, <1>11 DEF both, before, page, after, m, k, n

\* Multiples of a limit.
LEMMA Multiples ==
  ASSUME NEW limit \in Nat \ {0}
  PROVE  /\ limit * 0 = 0
         /\ \A k \in Nat : limit * k \in Nat
         /\ \A k \in Nat : k # 0 => limit * (k - 1) \in Nat /\ limit * (k - 1) + limit = limit * k
         /\ \A n \in Nat : n \div limit + 1 \in Nat /\ n < limit * (n \div limit + 1)
<1>1. \A k \in Nat : limit * k \in Nat
  OBVIOUS
<1>2. \A k \in Nat : k # 0 => limit * (k - 1) \in Nat /\ limit * (k - 1) + limit = limit * k
  OBVIOUS
<1>3. ASSUME NEW n \in Nat
      PROVE  n \div limit + 1 \in Nat /\ n < limit * (n \div limit + 1)
  <2>1. n \div limit \in Nat /\ n < limit * (n \div limit) + limit
    BY PageOf
  <2> QED
    BY <2>1
<1> QED
  BY <1>1, <1>2, <1>3

\* Pages one after the other are the list.
LEMMA SlicesTile ==
  ASSUME NEW T, NEW elements \in Seq(T), NEW limit \in Nat \ {0},
         NEW N \in Nat, Len(elements) < limit * N
  PROVE  FlattenSeq([i \in 1..N |-> Slice(elements, limit * (i - 1), limit)]) = elements
<1> DEFINE total == Len(elements)
           lists == [i \in 1..N |-> Slice(elements, limit * (i - 1), limit)]
<1>1. \A i \in 1..N : limit * (i - 1) \in Nat /\ limit * (i - 1) + limit = limit * i
  <2>1. \A i \in 1..N : i \in Nat /\ i # 0
    OBVIOUS
  <2> QED
    BY <2>1, Multiples
<1>2. \A i \in 1..N : Slice(elements, limit * (i - 1), limit) \in Seq(T)
  BY <1>1, PagesJoin, limit \in Nat
<1>3. lists \in Seq(Seq(T)) /\ Len(lists) = N
  BY <1>2
<1>4. \A i \in 1..N : lists[i] = Slice(elements, limit * (i - 1), limit)
  OBVIOUS
<1> HIDE DEF lists
<1>5. PICK after : Concatenates(after, lists, T)
  BY <1>3, FlattenFacts
<1> DEFINE first(n) == SubSeq(elements, 1, UpTo(limit * n, total))
           good == {n \in 0..N : after[n] = first(n)}
<1>6. total \in Nat
  OBVIOUS
<1>7. 0 \in good
  <2>1. UpTo(limit * 0, total) = 0
    BY <1>6, Multiples DEF UpTo
  <2>2. SubSeq(elements, 1, 0) = <<>>
    OBVIOUS
  <2> QED
    BY <1>5, <2>1, <2>2 DEF Concatenates
<1>8. ASSUME NEW n \in 1..N, n - 1 \in good
      PROVE  n \in good
  <2>1. after[n] = after[n - 1] \o lists[n] /\ after[n - 1] = first(n - 1)
    BY <1>3, <1>5, <1>8 DEF Concatenates
  <2>2. first(n - 1) \o Slice(elements, limit * (n - 1), limit)
          = SubSeq(elements, 1, UpTo(limit * (n - 1) + limit, total))
    BY <1>1, PagesJoin, limit \in Nat
  <2> HIDE DEF total
  <2>3. limit * (n - 1) + limit = limit * n /\ lists[n] = Slice(elements, limit * (n - 1), limit)
    BY <1>1, <1>4
  <2>4. after[n] = first(n)
    BY <2>1, <2>2, <2>3
  <2> n \in 0..N
    OBVIOUS
  <2> QED
    BY <2>4
<1>9. good \in SUBSET (0..N)
  OBVIOUS
<1> HIDE DEF good
<1>10. good = 0..N
  BY <1>7, <1>8, <1>9, FirstFailure
<1>11. after[N] = first(N)
  BY <1>10 DEF good
<1>12. UpTo(limit * N, total) = total
  <2>1. limit * N \in Nat
    BY Multiples
  <2> QED
    BY <1>6, <2>1 DEF UpTo
<1>13. SubSeq(elements, 1, total) = elements
  OBVIOUS
<1> HIDE DEF total
<1>14. FlattenSeq(lists) = elements
  BY <1>3, <1>5, <1>11, <1>12, <1>13 DEF Concatenates
<1> QED
  BY <1>14 DEF lists

\* Whatever passes the filters is shown by one page after the other, in order
\* (api/routes/memory.py).
THEOREM PagesAlwaysTile ==
  ASSUME NEW T, NEW elements \in Seq(T), NEW filters, NEW limit \in Nat \ {0}
  PROVE  PagesTile(elements, filters, limit)
<1> DEFINE kept == Matching(elements, filters)
           total == Len(kept)
           N == total \div limit + 1
           pages == [i \in 1..N |-> Page(elements, filters, limit * (i - 1), limit)]
<1>1. kept \in Seq(T)
  <2> DEFINE passing == {i \in DOMAIN elements : \A f \in filters : elements[i][f]}
  <2>1. passing \in SUBSET (1..Len(elements)) /\ Len(elements) \in Nat
    OBVIOUS
  <2>2. \A p \in passing : elements[p] \in T
    OBVIOUS
  <2> HIDE DEF passing
  <2>3. Filtered(elements, passing) \in Seq(T)
    BY <2>1, <2>2, FilteredFacts
  <2> QED
    BY <2>3 DEF Matching, passing
<1>2. Page(elements, filters, 0, limit).total = total
  BY DEF Page
<1>3. /\ DOMAIN pages = 1..N
      /\ \A i \in 1..N : /\ pages[i].items = Slice(kept, limit * (i - 1), limit)
                         /\ pages[i].total = total
  BY DEF Page
<1>4. total \in Nat
  BY <1>1
<1> HIDE DEF total
<1>5. N \in Nat /\ total < limit * N
  BY <1>4, Multiples
<1> HIDE DEF N, pages, kept
<1>6. [i \in DOMAIN pages |-> pages[i].items] = [i \in 1..N |-> Slice(kept, limit * (i - 1), limit)]
  BY <1>3
<1>7. FlattenSeq([i \in DOMAIN pages |-> pages[i].items]) = kept
  BY <1>1, <1>5, <1>6, SlicesTile DEF total
<1>8. \A i \in DOMAIN pages : pages[i].total = total
  BY <1>3
<1> QED
  BY <1>2, <1>7, <1>8, Zenon DEF PagesTile, pages, N, kept

-----------------------------------------------------------------------------
\* Lines that show the bytes between two places in order.
Lines == [offset : Nat, size : Nat]
After(line) == line.offset + line.size
Tiles(lines, from, to) ==
    /\ lines \in Seq(Lines)
    /\ \A i \in 1..Len(lines) :
          lines[i].offset = IF i = 1 THEN from ELSE After(lines[i - 1])
    /\ to = IF Len(lines) = 0 THEN from ELSE After(lines[Len(lines)])

LEMMA TilesJoin ==
  ASSUME NEW p, NEW q, NEW x, NEW y, NEW z, Tiles(p, x, y), Tiles(q, y, z)
  PROVE  Tiles(p \o q, x, z)
<1> DEFINE m == Len(p)
           n == Len(q)
           both == p \o q
<1>1. p \in Seq(Lines) /\ q \in Seq(Lines)
  BY DEF Tiles
<1>2. /\ both \in Seq(Lines) /\ m \in Nat /\ n \in Nat
      /\ Len(both) = m + n
      /\ \A i \in 1..m : both[i] = p[i]
      /\ \A i \in 1..n : both[m + i] = q[i]
  BY <1>1, Joined
<1>3. /\ \A i \in 1..m : p[i].offset = IF i = 1 THEN x ELSE After(p[i - 1])
      /\ y = IF m = 0 THEN x ELSE After(p[m])
      /\ \A i \in 1..n : q[i].offset = IF i = 1 THEN y ELSE After(q[i - 1])
      /\ z = IF n = 0 THEN y ELSE After(q[n])
  BY DEF Tiles
<1> HIDE DEF m, n, both
<1>4. ASSUME NEW i \in 1..Len(both)
      PROVE  both[i].offset = IF i = 1 THEN x ELSE After(both[i - 1])
  <2>1. CASE i <= m
    <3>1. i \in 1..m /\ (i # 1 => i - 1 \in 1..m)
      BY <1>2, <2>1
    <3> QED
      BY <1>2, <1>3, <3>1
  <2>2. CASE i = m + 1
    <3>1. 1 \in 1..n /\ (m # 0 => m \in 1..m /\ i - 1 = m) /\ (i = 1 <=> m = 0)
      BY <1>2, <1>4, <2>2
    <3>2. both[i] = q[1]
      BY <1>2, <2>2, <3>1
    <3>3. q[1].offset = y
      BY <1>3, <3>1
    <3>4. m # 0 => both[i - 1] = p[m]
      BY <1>2, <3>1
    <3> QED
      BY <1>3, <3>1, <3>2, <3>3, <3>4
  <2>3. CASE i > m + 1
    <3>1. /\ i - m \in 1..n /\ (i - m) - 1 \in 1..n /\ i - m # 1 /\ i # 1
          /\ m + (i - m) = i /\ m + ((i - m) - 1) = i - 1
      BY <1>2, <1>4, <2>3
    <3>2. both[i] = q[i - m] /\ both[i - 1] = q[(i - m) - 1]
      BY <1>2, <3>1
    <3>3. q[i - m].offset = After(q[(i - m) - 1])
      BY <1>3, <3>1
    <3> QED
      BY <3>1, <3>2, <3>3
  <2> QED
    BY <1>2, <2>1, <2>2, <2>3
<1>5. z = IF Len(both) = 0 THEN x ELSE After(both[Len(both)])
  <2>1. CASE n = 0
    <3>1. m # 0 => m \in 1..m
      BY <1>2
    <3> QED
      BY <1>2, <1>3, <2>1, <3>1
  <2>2. CASE n # 0
    <3>1. n \in 1..n /\ Len(both) # 0
      BY <1>2, <2>2
    <3> QED
      BY <1>2, <1>3, <2>2, <3>1
  <2> QED
    BY <2>1, <2>2
<1> QED
  BY <1>2, <1>4, <1>5 DEF Tiles, both

\* A page of a hex dump shows the bytes from its offset on.
LEMMA PageTiles ==
  ASSUME NEW n \in Nat, NEW offset \in Nat, NEW length \in Nat \ {0}
  PROVE  Tiles(HexPage(n, offset, length).rows, UpTo(offset, n), UpTo(offset + length, n))
<1> DEFINE start == IF offset <= n THEN offset ELSE n
           end == IF start + length <= n THEN start + length ELSE n
           lines == HexPage(n, offset, length).rows
           count == (end - start + 15) \div 16
<1>1. /\ DOMAIN lines = 1..count
      /\ \A i \in 1..count :
           /\ lines[i].offset = start + 16 * (i - 1)
           /\ lines[i].size = IF 16 <= end - start - 16 * (i - 1) THEN 16
                             ELSE end - start - 16 * (i - 1)
  BY HexPageFields
<1>2. /\ start = UpTo(offset, n) /\ end = UpTo(offset + length, n)
      /\ start \in Nat /\ end \in Nat /\ start <= end
  BY DEF UpTo
<1>3. count \in Nat /\ 16 * count >= end - start /\ 16 * count < end - start + 16
  BY <1>2
<1>4. \E f : lines = [i \in 1..count |-> [offset |-> f[i].offset, size |-> f[i].size]]
  <2> DEFINE from == Min({offset, n})
             to == Min({from + length, n})
             k == (to - from + RowSize - 1) \div RowSize
             row(i) == [offset |-> from + RowSize * (i - 1),
                        size |-> Min({RowSize, to - from - RowSize * (i - 1)})]
  <2>1. ~(offset < 0 \/ length <= 0)
    OBVIOUS
  <2>2. lines = [i \in 1..k |-> row(i)]
    BY <2>1 DEF HexPage
  <2> HIDE DEF from, to, k, lines, count
  <2>3. 1..count = 1..k
    BY <1>1, <2>2
  <2>4. lines = [i \in 1..count |-> row(i)]
    BY <2>2, <2>3
  <2>5. \A i \in 1..count : lines[i] = [offset |-> lines[i].offset, size |-> lines[i].size]
    BY <2>4
  <2> HIDE DEF row
  <2> QED
    BY <2>4, <2>5
<1> HIDE DEF lines, start, end, count
<1>5. lines \in Seq(Lines) /\ Len(lines) = count
  <2>1. ASSUME NEW i \in 1..count
        PROVE  lines[i].offset \in Nat /\ lines[i].size \in Nat
    <3> DEFINE k == 16 * (i - 1)
    <3>1. i \in Nat /\ 1 <= i /\ i <= count
      BY <1>3
    <3>2. k \in Nat
      BY <3>1
    <3>3. k + 16 <= 16 * count
      BY <1>3, <3>1
    <3>4. lines[i].offset = start + k
      BY <1>1
    <3>5. lines[i].size = IF 16 <= end - start - k THEN 16 ELSE end - start - k
      BY <1>1
    <3> HIDE DEF k
    <3>6. 16 * count \in Nat
      BY <1>3
    <3>7. k < end - start
      BY <1>2, <1>3, <3>2, <3>3, <3>6
    <3>8. lines[i].offset \in Nat
      BY <1>2, <3>2, <3>4
    <3>9. end - start - k \in Nat
      BY <1>2, <3>2, <3>7
    <3> QED
      BY <3>5, <3>8, <3>9
  <2>2. \A i \in 1..count : lines[i] \in Lines
    BY <1>4, <2>1 DEF Lines
  <2> QED
    BY <1>3, <1>4, <2>2
<1>6. \A i \in 1..count :
        /\ i = 1 => lines[i].offset = start
        /\ i # 1 => i - 1 \in 1..count /\ lines[i].offset = After(lines[i - 1])
  <2> SUFFICES ASSUME NEW i \in 1..count
               PROVE  /\ i = 1 => lines[i].offset = start
                      /\ i # 1 => i - 1 \in 1..count /\ lines[i].offset = After(lines[i - 1])
    OBVIOUS
  <2>1. CASE i = 1
    BY <1>1, <1>2, <2>1
  <2>2. CASE i # 1
    <3>1. i - 1 \in 1..count /\ 16 <= end - start - 16 * ((i - 1) - 1)
      BY <1>2, <1>3, <2>2
    <3>2. lines[i - 1].offset = start + 16 * ((i - 1) - 1) /\ lines[i - 1].size = 16
      BY <1>1, <3>1
    <3>3. lines[i].offset = start + 16 * (i - 1)
      BY <1>1
    <3>4. start + 16 * (i - 1) = start + 16 * ((i - 1) - 1) + 16
      BY <1>2, <1>3
    <3> QED
      BY <2>2, <3>1, <3>2, <3>3, <3>4 DEF After
  <2> QED
    BY <2>1, <2>2
<1>7. end = IF count = 0 THEN start ELSE After(lines[count])
  <2>1. CASE count = 0
    BY <1>2, <1>3, <2>1
  <2>2. CASE count # 0
    <3>1. count \in 1..count
      BY <1>3, <2>2
    <3>2. lines[count].offset = start + 16 * (count - 1)
          /\ lines[count].size = IF 16 <= end - start - 16 * (count - 1) THEN 16
                                 ELSE end - start - 16 * (count - 1)
      BY <1>1, <3>1
    <3>3. start + 16 * (count - 1) + (IF 16 <= end - start - 16 * (count - 1) THEN 16
                                 ELSE end - start - 16 * (count - 1)) = end
      BY <1>2, <1>3, <2>2
    <3> QED
      BY <2>2, <3>2, <3>3 DEF After
  <2> QED
    BY <2>1, <2>2
<1> QED
  BY <1>2, <1>5, <1>6, <1>7 DEF Tiles, lines

\* The lines of the pages of a hex dump are the bytes of the file in order, whatever its size
\* and that of a page (analyzer/hexdump.py).
THEOREM HexAlwaysTiles ==
  ASSUME NEW n \in Nat, NEW length \in Nat \ {0}
  PROVE  HexTiles(n, length)
<1> DEFINE N == n \div length + 1
           pages == [i \in 1..N |-> HexPage(n, length * (i - 1), length)]
           lists == [i \in DOMAIN pages |-> pages[i].rows]
           all == FlattenSeq(lists)
<1>1. N \in Nat /\ n < length * N
  BY Multiples
<1> HIDE DEF N
<1>2. \A i \in 1..N : length * (i - 1) \in Nat /\ length * (i - 1) + length = length * i
  <2>1. \A i \in 1..N : i \in Nat /\ i # 0
    BY <1>1
  <2> QED
    BY <2>1, Multiples
<1>3. \A i \in 1..N : lists[i] = HexPage(n, length * (i - 1), length).rows
  OBVIOUS
<1>4. lists = [i \in 1..N |-> lists[i]]
  OBVIOUS
<1> HIDE DEF pages, lists
<1>5. ASSUME NEW i \in 1..N
      PROVE  Tiles(lists[i], UpTo(length * (i - 1), n), UpTo(length * i, n))
  <2>1. Tiles(HexPage(n, length * (i - 1), length).rows, UpTo(length * (i - 1), n),
              UpTo(length * (i - 1) + length, n))
    BY <1>2, PageTiles
  <2> QED
    BY <1>2, <1>3, <2>1
<1>6. lists \in Seq(Seq(Lines)) /\ Len(lists) = N
  <2>1. \A i \in 1..N : lists[i] \in Seq(Lines)
    BY <1>5 DEF Tiles
  <2> QED
    BY <1>1, <1>4, <2>1
<1>7. PICK after : Concatenates(after, lists, Lines)
  BY <1>6, FlattenFacts
<1> DEFINE good == {k \in 0..N : Tiles(after[k], 0, UpTo(length * k, n))}
<1>8. 0 \in good
  <2>1. after[0] = <<>>
    BY <1>7 DEF Concatenates
  <2>2. UpTo(length * 0, n) = 0
    BY Multiples DEF UpTo
  <2>3. <<>> \in Seq(Lines) /\ Len(<<>>) = 0 /\ 1..0 = {}
    OBVIOUS
  <2>4. Tiles(<<>>, 0, 0)
    BY <2>3 DEF Tiles
  <2> QED
    BY <1>1, <2>1, <2>2, <2>4
<1>9. ASSUME NEW k \in 1..N, k - 1 \in good
      PROVE  k \in good
  <2>1. after[k] = after[k - 1] \o lists[k]
    BY <1>6, <1>7 DEF Concatenates
  <2>2. Tiles(after[k - 1], 0, UpTo(length * (k - 1), n))
    BY <1>9
  <2>3. Tiles(after[k], 0, UpTo(length * k, n))
    BY <1>5, <2>1, <2>2, TilesJoin
  <2>4. k \in 0..N
    BY <1>1
  <2> QED
    BY <2>3, <2>4
<1>10. good \in SUBSET (0..N)
  OBVIOUS
<1> HIDE DEF good
<1>11. good = 0..N
  BY <1>1, <1>8, <1>9, <1>10, FirstFailure
<1>12. N \in good
  BY <1>1, <1>11
<1>13. Tiles(all, 0, UpTo(length * N, n))
  BY <1>6, <1>7, <1>12 DEF Concatenates, good
<1>14. UpTo(length * N, n) = n
  <2>1. length * N \in Nat
    BY <1>1, Multiples
  <2> QED
    BY <1>1, <2>1 DEF UpTo
<1> HIDE DEF all
<1>15. all \in Seq(Lines) /\ DOMAIN all = 1..Len(all) /\ Len(all) \in Nat
       /\ (all = <<>> <=> Len(all) = 0)
  BY <1>13 DEF Tiles
<1>16. /\ \A i \in DOMAIN all :
            all[i].offset = IF i = 1 THEN 0 ELSE all[i - 1].offset + all[i - 1].size
       /\ n = IF all = <<>> THEN 0 ELSE Last(all).offset + Last(all).size
  BY <1>13, <1>14, <1>15 DEF Tiles, After, Last
<1> QED
  BY <1>16, Zenon DEF HexTiles, all, lists, pages, N

-----------------------------------------------------------------------------
(* Heuristics *)

HeuristicFunctions == [address : Nat, xors : Int, backward : Int, immediates : Int, indirect : Int,
            decisions : Nat, callees : SUBSET Nat]

\* The functions of a sample as the heuristics see them: no two with the same address.
FlowSample(sample) ==
    /\ sample.entry \in Nat
    /\ sample.functions \in Seq(HeuristicFunctions)
    /\ \A i, j \in DOMAIN sample.functions :
          sample.functions[i].address = sample.functions[j].address => i = j

\* Findings, and those of a sample and its functions.
KnownTechniques == {"xor_loop", "stack_string", "indirect_branch_density", "api_dynamic_resolution",
           "anti_debugging", "timing_check", "base64_data", "anti_vm", "aes_constants",
           "self_modifying_code", "executable_packing"}
TechniqueFindings == [technique : KnownTechniques, function : Nat]

LEMMA WhenFacts ==
  ASSUME NEW T, NEW x \in T, NEW condition \in BOOLEAN
  PROVE  /\ When(condition, <<x>>) \in Seq(T)
         /\ condition => When(condition, <<x>>) = <<x>>
         /\ ~condition => When(condition, <<x>>) = <<>>
BY DEF When

LEMMA FindingsAre ==
  ASSUME NEW sample, FlowSample(sample)
  PROVE  /\ OfFunctions(sample) \in Seq(TechniqueFindings) /\ OfSample(sample) \in Seq(TechniqueFindings)
         /\ Len(OfFunctions(sample)) \in Nat /\ Len(OfSample(sample)) \in Nat
<1> DEFINE F == TechniqueFindings
<1>1. ASSUME NEW condition \in BOOLEAN, NEW technique \in KnownTechniques, NEW function \in Nat
      PROVE  When(condition, Finding(technique, function)) \in Seq(F)
  <2>1. [technique |-> technique, function |-> function] \in F
    BY DEF TechniqueFindings
  <2> HIDE DEF F
  <2> QED
    BY <2>1, WhenFacts DEF Finding
<1>2. \A f : f.address \in Nat => OfFunction(f) \in Seq(F)
  <2> SUFFICES ASSUME NEW f, f.address \in Nat PROVE OfFunction(f) \in Seq(F)
    OBVIOUS
  <2> DEFINE p == When(f.xors > 0 /\ f.backward > 0, Finding("xor_loop", f.address))
             q == When(f.immediates >= 3, Finding("stack_string", f.address))
             r == When(f.indirect >= 3, Finding("indirect_branch_density", f.address))
  <2>1. p \in Seq(F)
    <3>1. "xor_loop" \in KnownTechniques
      BY DEF KnownTechniques
    <3> QED
      BY <1>1, <3>1, (f.xors > 0 /\ f.backward > 0) \in BOOLEAN
  <2>2. q \in Seq(F)
    <3>1. "stack_string" \in KnownTechniques
      BY DEF KnownTechniques
    <3> QED
      BY <1>1, <3>1, (f.immediates >= 3) \in BOOLEAN
  <2>3. r \in Seq(F)
    <3>1. "indirect_branch_density" \in KnownTechniques
      BY DEF KnownTechniques
    <3> QED
      BY <1>1, <3>1, (f.indirect >= 3) \in BOOLEAN
  <2>4. OfFunction(f) = p \o q \o r
    BY DEF OfFunction
  <2> HIDE DEF p, q, r, F
  <2>5. p \o q \in Seq(F)
    BY <2>1, <2>2, Joined
  <2>6. (p \o q) \o r \in Seq(F)
    BY <2>3, <2>5, Joined
  <2> QED
    BY <2>4, <2>6
<1>3. ASSUME NEW lists \in Seq(Seq(F))
      PROVE  FlattenSeq(lists) \in Seq(F)
  <2> HIDE DEF F
  <2>1. PICK after : Concatenates(after, lists, F)
    BY FlattenFacts
  <2>2. Len(lists) \in 0..Len(lists)
    OBVIOUS
  <2> QED
    BY <2>1, <2>2 DEF Concatenates
<1>4. OfFunctions(sample) \in Seq(F)
  <2> DEFINE fs == sample.functions
             lists == [i \in DOMAIN fs |-> OfFunction(fs[i])]
  <2>1. DOMAIN fs = 1..Len(fs) /\ Len(fs) \in Nat /\ \A i \in 1..Len(fs) : fs[i].address \in Nat
    <3>1. fs \in Seq(HeuristicFunctions)
      BY DEF FlowSample
    <3>2. \A f \in HeuristicFunctions : f.address \in Nat
      BY DEF HeuristicFunctions
    <3> HIDE DEF fs
    <3> QED
      BY <3>1, <3>2
  <2> HIDE DEF fs
  <2>2. \A i \in 1..Len(fs) : OfFunction(fs[i]) \in Seq(F)
    BY <1>2, <2>1
  <2> HIDE DEF F
  <2>3. lists \in Seq(Seq(F))
    BY <2>1, <2>2
  <2> QED
    BY <1>3, <2>3 DEF OfFunctions, fs
<1>5. OfSample(sample) \in Seq(F)
  <2> DEFINE lists == [i \in DOMAIN Signs |-> When(Signs[i] \in sample.signs, Finding(Signs[i], 0))]
             first == When(sample.resolvers >= 2, Finding("api_dynamic_resolution", 0))
  <2>1. DOMAIN Signs = 1..6 /\ \A i \in 1..6 : Signs[i] \in KnownTechniques
    <3>1. DOMAIN Signs = 1..6
      BY DEF Signs
    <3>2. /\ Signs[1] \in KnownTechniques /\ Signs[2] \in KnownTechniques /\ Signs[3] \in KnownTechniques
          /\ Signs[4] \in KnownTechniques /\ Signs[5] \in KnownTechniques /\ Signs[6] \in KnownTechniques
      BY DEF Signs, KnownTechniques
    <3>3. \A i \in 1..6 : i = 1 \/ i = 2 \/ i = 3 \/ i = 4 \/ i = 5 \/ i = 6
      OBVIOUS
    <3> QED
      BY <3>1, <3>2, <3>3
  <2>2. \A i \in 1..6 : When(Signs[i] \in sample.signs, Finding(Signs[i], 0)) \in Seq(F)
    BY <1>1, <2>1, 0 \in Nat, \A i \in 1..6 : (Signs[i] \in sample.signs) \in BOOLEAN
  <2>3. first \in Seq(F)
    <3>1. "api_dynamic_resolution" \in KnownTechniques
      BY DEF KnownTechniques
    <3> QED
      BY <1>1, <3>1, 0 \in Nat, (sample.resolvers >= 2) \in BOOLEAN
  <2> HIDE DEF F
  <2>4. lists \in Seq(Seq(F))
    BY <2>1, <2>2
  <2>5. FlattenSeq(lists) \in Seq(F)
    BY <1>3, <2>4
  <2>6. OfSample(sample) = first \o FlattenSeq(lists)
    BY DEF OfSample
  <2> HIDE DEF first, lists
  <2> QED
    BY <2>3, <2>5, <2>6, Joined
<1> QED
  BY <1>4, <1>5

LEMMA FirstFacts ==
  ASSUME NEW T, NEW elements \in Seq(T), NEW n \in Nat
  PROVE  /\ First(elements, n) \in Seq(T) /\ Len(First(elements, n)) \in Nat
         /\ Len(First(elements, n)) = IF Len(elements) < n THEN Len(elements) ELSE n
         /\ \A i \in 1..Len(First(elements, n)) :
               First(elements, n)[i] = elements[i] /\ i \in 1..Len(elements)
         /\ Len(elements) <= n => First(elements, n) = elements
<1> DEFINE m == IF Len(elements) < n THEN Len(elements) ELSE n
<1>1. Len(elements) \in Nat
  OBVIOUS
<1>2. m \in 0..Len(elements) /\ (Len(elements) <= n => m = Len(elements))
  BY <1>1
<1>3. First(elements, n) = SubSeq(elements, 1, m)
  BY DEF First
<1> HIDE DEF m
<1>4. /\ SubSeq(elements, 1, m) \in Seq(T) /\ Len(SubSeq(elements, 1, m)) = m
      /\ \A i \in 1..m : SubSeq(elements, 1, m)[i] = elements[i]
  BY <1>1, <1>2
<1>5. SubSeq(elements, 1, Len(elements)) = elements
  OBVIOUS
<1>6. m \in Nat /\ \A i \in 1..m : i \in 1..Len(elements)
  BY <1>1, <1>2
<1> QED
  BY <1>1, <1>2, <1>3, <1>4, <1>5, <1>6 DEF m

\* What is in one list or the other is in both put together.
LEMMA ToSetJoined ==
  ASSUME NEW T, NEW p \in Seq(T), NEW q \in Seq(T)
  PROVE  p \o q \in Seq(T) /\ ToSet(p \o q) = ToSet(p) \cup ToSet(q)
<1> DEFINE both == p \o q
<1>1. /\ both \in Seq(T) /\ Len(p) \in Nat /\ Len(q) \in Nat
      /\ Len(both) = Len(p) + Len(q)
      /\ \A i \in 1..Len(p) : both[i] = p[i]
      /\ \A i \in 1..Len(q) : both[Len(p) + i] = q[i]
  BY Joined
<1>2. DOMAIN p = 1..Len(p) /\ DOMAIN q = 1..Len(q)
  OBVIOUS
<1> HIDE DEF both
<1>3. DOMAIN both = 1..Len(both)
  BY <1>1
<1>4. ASSUME NEW i \in 1..Len(both)
      PROVE  both[i] \in ToSet(p) \cup ToSet(q)
  <2>1. CASE i \in 1..Len(p)
    BY <1>1, <1>2, <2>1 DEF ToSet
  <2>2. CASE ~(i \in 1..Len(p))
    <3>1. i - Len(p) \in 1..Len(q) /\ Len(p) + (i - Len(p)) = i
      BY <1>1, <2>2
    <3>2. both[i] = q[i - Len(p)]
      BY <1>1, <3>1
    <3> QED
      BY <1>2, <3>1, <3>2 DEF ToSet
  <2> QED
    BY <2>1, <2>2
<1>5. \A i \in 1..Len(p) : i \in 1..Len(both)
  BY <1>1
<1>6. \A i \in 1..Len(q) : Len(p) + i \in 1..Len(both)
  BY <1>1
<1>7. \A i \in 1..Len(p) : p[i] \in ToSet(both)
  BY <1>1, <1>3, <1>5 DEF ToSet
<1>8. \A i \in 1..Len(q) : q[i] \in ToSet(both)
  BY <1>1, <1>3, <1>6 DEF ToSet
<1>9. ToSet(both) = ToSet(p) \cup ToSet(q)
  BY <1>2, <1>3, <1>4, <1>7, <1>8 DEF ToSet
<1> QED
  BY <1>1, <1>9 DEF both

LEMMA TechniquesJoined ==
  ASSUME NEW p \in Seq(TechniqueFindings), NEW q \in Seq(TechniqueFindings)
  PROVE  Techniques(p \o q) = Techniques(p) \cup Techniques(q)
<1>1. \A s : Techniques(s) = {x.technique : x \in ToSet(s)}
  BY DEF Techniques, ToSet
<1>2. ToSet(p \o q) = ToSet(p) \cup ToSet(q)
  BY ToSetJoined
<1>3. Techniques(p \o q) = {x.technique : x \in ToSet(p) \cup ToSet(q)}
  BY <1>1, <1>2
<1>4. Techniques(p) = {x.technique : x \in ToSet(p)} /\ Techniques(q) = {x.technique : x \in ToSet(q)}
  BY <1>1
<1> QED
  BY <1>3, <1>4

\* Those of some techniques.
LEMMA ThoseFacts ==
  ASSUME NEW findings \in Seq(TechniqueFindings), NEW techniques
  PROVE  /\ Techniques(Those(findings, techniques)) = techniques \cap Techniques(findings)
         /\ Those(findings, techniques) \in Seq(TechniqueFindings)
         /\ Those(findings, techniques) # <<>> <=> techniques \cap Techniques(findings) # {}
<1> DEFINE n == Len(findings)
           positions == {i \in DOMAIN findings : findings[i].technique \in techniques}
           those == Those(findings, techniques)
<1>1. n \in Nat /\ DOMAIN findings = 1..n /\ \A i \in 1..n : findings[i] \in TechniqueFindings
  OBVIOUS
<1>2. positions \in SUBSET (1..n) /\ \A i \in 1..n : i \in positions <=> findings[i].technique \in techniques
  BY <1>1
<1>3. those = Filtered(findings, positions)
  BY DEF Those
<1> HIDE DEF positions, n, those
<1>4. those \in Seq(TechniqueFindings) /\ Lists(those, findings, positions, Below(positions))
  BY <1>1, <1>2, <1>3, FilteredFacts
<1>5. PICK at \in [1..Len(those) -> positions] :
        /\ \A k \in 1..Len(those) : those[k] = findings[at[k]]
        /\ \A p \in positions : \E k \in 1..Len(those) : at[k] = p
  BY <1>4, Zenon DEF Lists
<1>6. DOMAIN those = 1..Len(those) /\ Len(those) \in Nat /\ (those # <<>> <=> Len(those) # 0)
  BY <1>4
<1>7. \A k \in 1..Len(those) : at[k] \in positions /\ those[k].technique = findings[at[k]].technique
  BY <1>5
<1>8. Techniques(those) \subseteq techniques \cap Techniques(findings)
  BY <1>1, <1>2, <1>6, <1>7 DEF Techniques
<1>9. ASSUME NEW t \in techniques \cap Techniques(findings)
      PROVE  t \in Techniques(those) /\ Len(those) # 0
  <2>1. PICK i \in 1..n : t = findings[i].technique
    BY <1>1 DEF Techniques
  <2>2. PICK k \in 1..Len(those) : at[k] = i
    BY <1>2, <1>5, <2>1
  <2> QED
    BY <1>5, <1>6, <2>1, <2>2 DEF Techniques
<1>10. those # <<>> => Techniques(those) # {}
  <2>1. Len(those) # 0 => 1 \in 1..Len(those)
    BY <1>6
  <2> QED
    BY <1>6, <2>1 DEF Techniques
<1>11. Techniques(those) = techniques \cap Techniques(findings)
  BY <1>8, <1>9
<1> QED
  BY <1>4, <1>6, <1>9, <1>10, <1>11 DEF those

\* The stages that are listed.
LEMMA StageFacts ==
  ASSUME NEW T, NEW x \in T, NEW condition \in BOOLEAN
  PROVE  /\ When(condition, <<x>>) \in Seq(T) /\ <<x>> \in Seq(T)
         /\ ToSet(When(condition, <<x>>)) = IF condition THEN {x} ELSE {}
         /\ ToSet(<<x>>) = {x}
<1>1. <<x>> \in Seq(T) /\ <<>> \in Seq(T) /\ DOMAIN <<x>> = {1} /\ <<x>>[1] = x
  OBVIOUS
<1>2. DOMAIN <<>> = {}
  OBVIOUS
<1>3. ToSet(<<x>>) = {x}
  BY <1>1 DEF ToSet
<1>4. ToSet(<<>>) = {}
  BY <1>2 DEF ToSet
<1> QED
  BY <1>1, <1>3, <1>4 DEF When

\* The stage of the decoders is there exactly if there are any.
LEMMA EncodingStage ==
  ASSUME NEW sample, NEW limit, NEW shown, NEW branches
  PROVE  LET stages == Flow(sample, limit, shown, branches).stages IN
         (\E i \in DOMAIN stages : stages[i].id = "encoding")
           <=> Those(Obfuscation(sample, limit), Decoders) # <<>>
<1> DEFINE decoders == Those(Obfuscation(sample, limit), Decoders)
           callees == UNION {f.callees : f \in EntryFunction(sample)}
           complex == Complex(sample)
           stage1 == [id |-> "entry", functions |-> {sample.entry}]
           stage2 == [id |-> "initialization", functions |-> callees]
           stage3 == [id |-> "arguments", functions |-> {}]
           stage4 == [id |-> "input", functions |-> {}]
           stage5 == [id |-> "validation", functions |-> ToSet(First(AddressesOf(complex), shown))]
           stage6 == [id |-> "encoding", functions |-> {x.function : x \in ToSet(decoders)} \ {0}]
           stage7 == [id |-> "file", functions |-> {}]
           stage8 == [id |-> "network", functions |-> {}]
           stage9 == [id |-> "persistence", functions |-> {}]
           c2 == callees # {}
           c3 == "arguments" \in sample.apis
           c4 == "input" \in sample.apis
           c5 == complex # <<>>
           c6 == decoders # <<>>
           c7 == "file" \in sample.apis
           c8 == "network" \in sample.apis
           c9 == "persistence" \in sample.apis
           stages == Flow(sample, limit, shown, branches).stages
<1>1. stages = <<stage1>> \o When(c2, <<stage2>>) \o When(c3, <<stage3>>) \o When(c4, <<stage4>>)
                 \o When(c5, <<stage5>>) \o When(c6, <<stage6>>) \o When(c7, <<stage7>>)
                 \o When(c8, <<stage8>>) \o When(c9, <<stage9>>)
  BY DEF Flow, Stage
<1>2. /\ stage1.id # "encoding" /\ stage2.id # "encoding" /\ stage3.id # "encoding" /\ stage4.id # "encoding"
      /\ stage5.id # "encoding" /\ stage6.id = "encoding" /\ stage7.id # "encoding" /\ stage8.id # "encoding"
      /\ stage9.id # "encoding"
  OBVIOUS
<1>3. /\ c2 \in BOOLEAN /\ c3 \in BOOLEAN /\ c4 \in BOOLEAN /\ c5 \in BOOLEAN /\ c6 \in BOOLEAN
      /\ c7 \in BOOLEAN /\ c8 \in BOOLEAN /\ c9 \in BOOLEAN
  OBVIOUS
<1> DEFINE T == {stage1, stage2, stage3, stage4, stage5, stage6, stage7, stage8, stage9}
<1>4. /\ stage1 \in T /\ stage2 \in T /\ stage3 \in T /\ stage4 \in T /\ stage5 \in T /\ stage6 \in T /\ stage7 \in T
      /\ stage8 \in T /\ stage9 \in T
  OBVIOUS
<1> HIDE DEF stage1, stage2, stage3, stage4, stage5, stage6, stage7, stage8, stage9, c2, c3, c4, c5, c6, c7, c8, c9, T, stages
<1>5. /\ <<stage1>> \in Seq(T) /\ ToSet(<<stage1>>) = {stage1}
      /\ When(c2, <<stage2>>) \in Seq(T) /\ ToSet(When(c2, <<stage2>>)) = IF c2 THEN {stage2} ELSE {}
      /\ When(c3, <<stage3>>) \in Seq(T) /\ ToSet(When(c3, <<stage3>>)) = IF c3 THEN {stage3} ELSE {}
      /\ When(c4, <<stage4>>) \in Seq(T) /\ ToSet(When(c4, <<stage4>>)) = IF c4 THEN {stage4} ELSE {}
      /\ When(c5, <<stage5>>) \in Seq(T) /\ ToSet(When(c5, <<stage5>>)) = IF c5 THEN {stage5} ELSE {}
      /\ When(c6, <<stage6>>) \in Seq(T) /\ ToSet(When(c6, <<stage6>>)) = IF c6 THEN {stage6} ELSE {}
      /\ When(c7, <<stage7>>) \in Seq(T) /\ ToSet(When(c7, <<stage7>>)) = IF c7 THEN {stage7} ELSE {}
      /\ When(c8, <<stage8>>) \in Seq(T) /\ ToSet(When(c8, <<stage8>>)) = IF c8 THEN {stage8} ELSE {}
      /\ When(c9, <<stage9>>) \in Seq(T) /\ ToSet(When(c9, <<stage9>>)) = IF c9 THEN {stage9} ELSE {}
  BY <1>3, <1>4, StageFacts
<1> DEFINE list1 == <<stage1>>
           list2 == When(c2, <<stage2>>)
           list3 == When(c3, <<stage3>>)
           list4 == When(c4, <<stage4>>)
           list5 == When(c5, <<stage5>>)
           list6 == When(c6, <<stage6>>)
           list7 == When(c7, <<stage7>>)
           list8 == When(c8, <<stage8>>)
           list9 == When(c9, <<stage9>>)
<1>6. stages = list1 \o list2 \o list3 \o list4 \o list5 \o list6 \o list7 \o list8 \o list9
  BY <1>1
<1>7. list2 \in Seq(T) /\ list3 \in Seq(T) /\ list4 \in Seq(T) /\ list5 \in Seq(T) /\ list6 \in Seq(T)
      /\ list7 \in Seq(T) /\ list8 \in Seq(T) /\ list9 \in Seq(T) /\ list1 \in Seq(T)
  BY <1>5
<1>8. /\ ToSet(list2) \subseteq {stage2} /\ ToSet(list3) \subseteq {stage3} /\ ToSet(list4) \subseteq {stage4}
      /\ ToSet(list5) \subseteq {stage5} /\ ToSet(list7) \subseteq {stage7} /\ ToSet(list8) \subseteq {stage8}
      /\ ToSet(list9) \subseteq {stage9} /\ ToSet(list1) \subseteq {stage1}
      /\ ToSet(list6) = IF c6 THEN {stage6} ELSE {}
  BY <1>5
<1> HIDE DEF list1, list2, list3, list4, list5, list6, list7, list8, list9
<1> DEFINE all == ToSet(list1) \cup ToSet(list2) \cup ToSet(list3) \cup ToSet(list4) \cup ToSet(list5)
                    \cup ToSet(list6) \cup ToSet(list7) \cup ToSet(list8) \cup ToSet(list9)
<1>9. ToSet(stages) = all
  <2> DEFINE join2 == list1 \o list2
             join3 == join2 \o list3
             join4 == join3 \o list4
             join5 == join4 \o list5
             join6 == join5 \o list6
             join7 == join6 \o list7
             join8 == join7 \o list8
             join9 == join8 \o list9
  <2> HIDE DEF join2, join3, join4, join5, join6, join7, join8, join9
  <2>2. join2 \in Seq(T) /\ ToSet(join2) = ToSet(list1) \cup ToSet(list2)
    BY <1>7, ToSetJoined DEF join2
  <2>3. join3 \in Seq(T) /\ ToSet(join3) = ToSet(join2) \cup ToSet(list3)
    BY <1>7, <2>2, ToSetJoined DEF join3
  <2>4. join4 \in Seq(T) /\ ToSet(join4) = ToSet(join3) \cup ToSet(list4)
    BY <1>7, <2>3, ToSetJoined DEF join4
  <2>5. join5 \in Seq(T) /\ ToSet(join5) = ToSet(join4) \cup ToSet(list5)
    BY <1>7, <2>4, ToSetJoined DEF join5
  <2>6. join6 \in Seq(T) /\ ToSet(join6) = ToSet(join5) \cup ToSet(list6)
    BY <1>7, <2>5, ToSetJoined DEF join6
  <2>7. join7 \in Seq(T) /\ ToSet(join7) = ToSet(join6) \cup ToSet(list7)
    BY <1>7, <2>6, ToSetJoined DEF join7
  <2>8. join8 \in Seq(T) /\ ToSet(join8) = ToSet(join7) \cup ToSet(list8)
    BY <1>7, <2>7, ToSetJoined DEF join8
  <2>9. join9 \in Seq(T) /\ ToSet(join9) = ToSet(join8) \cup ToSet(list9)
    BY <1>7, <2>8, ToSetJoined DEF join9
  <2>10. stages = join9
    BY <1>6, Zenon DEF join2, join3, join4, join5, join6, join7, join8, join9
  <2> QED
    BY <2>2, <2>3, <2>4, <2>5, <2>6, <2>7, <2>8, <2>9, <2>10
<1>10. (\E s \in ToSet(stages) : s.id = "encoding") <=> c6
  BY <1>2, <1>8, <1>9
<1>11. (\E i \in DOMAIN stages : stages[i].id = "encoding") <=> \E s \in ToSet(stages) : s.id = "encoding"
  BY DEF ToSet
<1> QED
  BY <1>10, <1>11 DEF c6, stages

\* The functions with decisions, and what comes before what in their list.
LEMMA ComplexFacts ==
  ASSUME NEW sample, FlowSample(sample)
  PROVE  LET functions == sample.functions
             complex == Complex(sample)
             branching == {i \in DOMAIN functions : functions[i].decisions > 0}
         IN /\ complex \in Seq(HeuristicFunctions)
            /\ \E at \in [1..Len(complex) -> branching] :
                 /\ \A k \in 1..Len(complex) : complex[k] = functions[at[k]]
                 /\ \A p \in branching : \E k \in 1..Len(complex) : at[k] = p
                 /\ \A j, k \in 1..Len(complex) :
                       j < k => functions[at[k]].decisions <= functions[at[j]].decisions
<1> DEFINE functions == sample.functions
           complex == Complex(sample)
           branching == {i \in DOMAIN functions : functions[i].decisions > 0}
           before == MoreComplex(functions, branching)
           n == Len(functions)
<1>1. functions \in Seq(HeuristicFunctions)
  BY DEF FlowSample
<1>2. \A i, j \in DOMAIN functions : functions[i].address = functions[j].address => i = j
  BY DEF FlowSample
<1>3. complex = RowsAt(functions, branching, before)
  BY DEF Complex
<1>4. \A x, y \in branching : <<x, y>> \in before <=>
         \/ functions[x].decisions > functions[y].decisions
         \/ functions[x].decisions = functions[y].decisions /\ functions[x].address < functions[y].address
  BY DEF MoreComplex
<1> HIDE DEF functions, complex, before, branching
<1>5. n \in Nat /\ DOMAIN functions = 1..n
  BY <1>1
<1>6. \A i \in 1..n : functions[i] \in HeuristicFunctions /\ functions[i].address \in Nat /\ functions[i].decisions \in Nat
  <2>1. \A f \in HeuristicFunctions : f.address \in Nat /\ f.decisions \in Nat
    BY DEF HeuristicFunctions
  <2> QED
    BY <1>1, <1>5, <2>1
<1>7. branching \in SUBSET (1..n)
  BY <1>5 DEF branching
<1> HIDE DEF n
<1>8. IsFiniteSet(branching)
  BY <1>5, <1>7, FS_Interval, FS_Subset, 1 \in Int, n \in Int
<1>9. \A i \in branching : functions[i] \in HeuristicFunctions /\ functions[i].address \in Nat /\ functions[i].decisions \in Nat
  BY <1>6, <1>7
<1>10. Orders(before, branching)
  <2>1. \A x \in branching : <<x, x>> \notin before
    BY <1>4, <1>9
  <2>2. \A x, y, z \in branching :
          <<x, y>> \in before /\ <<y, z>> \in before => <<x, z>> \in before
    BY <1>4, <1>9
  <2>3. \A x, y \in branching : x = y \/ <<x, y>> \in before \/ <<y, x>> \in before
    <3> SUFFICES ASSUME NEW x \in branching, NEW y \in branching, x # y
                 PROVE  <<x, y>> \in before \/ <<y, x>> \in before
      OBVIOUS
    <3>1. functions[x].address # functions[y].address
      BY <1>2, <1>5, <1>7
    <3> QED
      BY <1>4, <1>9, <3>1
  <2> QED
    BY <2>1, <2>2, <2>3 DEF Orders
<1>11. complex \in Seq(HeuristicFunctions) /\ Lists(complex, functions, branching, before)
  BY <1>3, <1>8, <1>9, <1>10, RowsAtFacts
<1>12. PICK at \in [1..Len(complex) -> branching] :
         /\ \A k \in 1..Len(complex) : complex[k] = functions[at[k]]
         /\ \A p \in branching : \E k \in 1..Len(complex) : at[k] = p
         /\ \A j, k \in 1..Len(complex) : j < k => <<at[j], at[k]>> \in before
  BY <1>11, Zenon DEF Lists
<1>13. ASSUME NEW j \in 1..Len(complex), NEW k \in 1..Len(complex), j < k
       PROVE  functions[at[k]].decisions <= functions[at[j]].decisions
  <2>1. at[j] \in branching /\ at[k] \in branching /\ <<at[j], at[k]>> \in before
    BY <1>12, <1>13
  <2> QED
    BY <1>4, <1>9, <2>1
<1>14. /\ at \in [1..Len(complex) -> branching]
       /\ \A k \in 1..Len(complex) : complex[k] = functions[at[k]]
       /\ \A p \in branching : \E k \in 1..Len(complex) : at[k] = p
       /\ \A j, k \in 1..Len(complex) :
             j < k => functions[at[k]].decisions <= functions[at[j]].decisions
  BY <1>12, <1>13
<1>15. \E some \in [1..Len(complex) -> branching] :
         /\ \A k \in 1..Len(complex) : complex[k] = functions[some[k]]
         /\ \A p \in branching : \E k \in 1..Len(complex) : some[k] = p
         /\ \A j, k \in 1..Len(complex) :
               j < k => functions[some[k]].decisions <= functions[some[j]].decisions
  BY <1>14, Zenon
<1> QED
  BY <1>11, <1>15, Zenon DEF functions, complex, branching

\* The branches that are named are those with the most decisions.
LEMMA NamedFirst ==
  ASSUME NEW sample, FlowSample(sample), NEW branches \in Nat,
         NEW f \in ToSet(sample.functions), NEW g \in ToSet(sample.functions),
         f.address \in ToSet(First(AddressesOf(Complex(sample)), branches)),
         g.address \notin ToSet(First(AddressesOf(Complex(sample)), branches))
  PROVE  g.decisions <= f.decisions
<1> DEFINE functions == sample.functions
           complex == Complex(sample)
           branching == {i \in DOMAIN functions : functions[i].decisions > 0}
           n == Len(functions)
           addresses == AddressesOf(complex)
           named == First(addresses, branches)
<1>1. functions \in Seq(HeuristicFunctions)
  BY DEF FlowSample
<1>2. \A i, j \in DOMAIN functions : functions[i].address = functions[j].address => i = j
  BY DEF FlowSample
<1>3. complex \in Seq(HeuristicFunctions)
  BY ComplexFacts
<1>4. PICK at \in [1..Len(complex) -> branching] :
        /\ \A k \in 1..Len(complex) : complex[k] = functions[at[k]]
        /\ \A p \in branching : \E k \in 1..Len(complex) : at[k] = p
        /\ \A j, k \in 1..Len(complex) :
              j < k => functions[at[k]].decisions <= functions[at[j]].decisions
  BY ComplexFacts
<1>5. /\ addresses \in Seq(Nat) /\ Len(addresses) = Len(complex)
      /\ \A k \in 1..Len(complex) : addresses[k] = complex[k].address
  <2>1. addresses = [i \in DOMAIN complex |-> complex[i].address]
    BY DEF AddressesOf
  <2>2. \A x \in HeuristicFunctions : x.address \in Nat
    BY DEF HeuristicFunctions
  <2> HIDE DEF complex, addresses
  <2>3. DOMAIN complex = 1..Len(complex) /\ Len(complex) \in Nat /\ \A k \in 1..Len(complex) : complex[k] \in HeuristicFunctions
    BY <1>3
  <2> QED
    BY <2>1, <2>2, <2>3
<1>6. PICK i \in DOMAIN functions : f = functions[i]
  BY DEF ToSet
<1>7. PICK j \in DOMAIN functions : g = functions[j]
  BY DEF ToSet
<1> HIDE DEF functions, complex, addresses, named
<1>8. n \in Nat /\ DOMAIN functions = 1..n /\ Len(complex) \in Nat
  BY <1>1, <1>3
<1>9. f.decisions \in Nat /\ g.decisions \in Nat
  <2>1. functions[i] \in HeuristicFunctions /\ functions[j] \in HeuristicFunctions
    BY <1>1, <1>6, <1>7
  <2>2. \A x \in HeuristicFunctions : x.decisions \in Nat
    BY DEF HeuristicFunctions
  <2> QED
    BY <1>6, <1>7, <2>1, <2>2
<1>10. /\ named \in Seq(Nat) /\ Len(named) \in Nat
       /\ Len(named) = IF Len(addresses) < branches THEN Len(addresses) ELSE branches
       /\ \A k \in 1..Len(named) : named[k] = addresses[k] /\ k \in 1..Len(addresses)
  BY <1>5, FirstFacts DEF named
<1>11. ToSet(named) = {named[k] : k \in 1..Len(named)}
  BY <1>10 DEF ToSet
<1>12. PICK k \in 1..Len(named) : f.address = named[k]
  BY <1>11 DEF named, addresses, complex
<1>13. k \in 1..Len(complex) /\ at[k] \in branching /\ f.address = functions[at[k]].address
  BY <1>4, <1>5, <1>10, <1>12
<1>14. branching \subseteq DOMAIN functions
  OBVIOUS
<1>15. at[k] = i
  BY <1>2, <1>6, <1>13, <1>14
<1>16. CASE j \notin branching
  <2>1. ~(g.decisions > 0)
    BY <1>7, <1>16
  <2> QED
    BY <1>9, <2>1
<1>17. CASE j \in branching
  <2>1. PICK m \in 1..Len(complex) : at[m] = j
    BY <1>4, <1>17
  <2>2. g.address = addresses[m]
    BY <1>4, <1>5, <1>7, <2>1
  <2>3. m \notin 1..Len(named)
    <3> SUFFICES ASSUME m \in 1..Len(named) PROVE FALSE
      OBVIOUS
    <3>1. g.address = named[m]
      BY <1>10, <2>2
    <3> QED
      BY <1>11, <3>1 DEF named, addresses, complex
  <2>4. k < m
    <3> HIDE DEF branching
    <3> QED
      BY <1>8, <1>10, <1>12, <2>1, <2>3
  <2>5. functions[at[m]].decisions <= functions[at[k]].decisions
    BY <1>4, <1>13, <2>1, <2>4
  <2> QED
    BY <1>6, <1>7, <1>15, <2>1, <2>5
<1> QED
  BY <1>16, <1>17

\* What the heuristics find reaches the list of findings and the summary of the flow, or the
\* limit was used up, whatever the sample and the limits (analyzer/obfuscation.py,
\* api/routes/analysis.py, analysis/flow.py).
THEOREM FindingsAlwaysReachFlow ==
  ASSUME NEW sample, FlowSample(sample), sample.packed \in BOOLEAN,
         NEW limit \in Nat, NEW shown, NEW branches \in Nat
  PROVE  FindingsReachFlow(sample, limit, shown, branches)
<1> DEFINE ofFunctions == OfFunctions(sample)
           ofSample == OfSample(sample)
           both == ofFunctions \o ofSample
           found == Obfuscation(sample, limit)
           packing == [technique |-> "executable_packing", function |-> 0]
           front == When(sample.packed, <<packing>>)
           all == AllFindings(sample, limit)
           flow == Flow(sample, limit, shown, branches)
<1>1. /\ ofFunctions \in Seq(TechniqueFindings) /\ ofSample \in Seq(TechniqueFindings)
      /\ Len(ofFunctions) \in Nat /\ Len(ofSample) \in Nat
  BY FindingsAre
<1>2. all = front \o found /\ found = First(both, limit)
  BY DEF AllFindings, Obfuscation, Finding
<1>3. packing \in TechniqueFindings /\ packing.technique = "executable_packing"
  <2>1. "executable_packing" \in KnownTechniques
    BY DEF KnownTechniques
  <2> QED
    BY <2>1 DEF TechniqueFindings
<1>4. /\ flow.antiAnalysis = Those(found, AntiAnalysis)
      /\ flow.branches = First(AddressesOf(Complex(sample)), branches)
  BY DEF Flow
<1>5. (\E i \in DOMAIN flow.stages : flow.stages[i].id = "encoding") <=> Those(found, Decoders) # <<>>
  BY EncodingStage
<1> HIDE DEF ofFunctions, ofSample, packing
<1>6. /\ both \in Seq(TechniqueFindings) /\ Len(both) = Len(ofFunctions) + Len(ofSample)
      /\ Techniques(both) = Techniques(ofFunctions) \cup Techniques(ofSample)
  BY <1>1, Joined, TechniquesJoined
<1> HIDE DEF both, found, all, flow
<1>7. found \in Seq(TechniqueFindings) /\ (Len(both) <= limit => found = both)
  BY <1>2, <1>6, FirstFacts
<1>8. /\ front \in Seq(TechniqueFindings)
      /\ sample.packed => front = <<packing>>
      /\ Techniques(front) = IF sample.packed THEN {"executable_packing"} ELSE {}
  <2>1. /\ front \in Seq(TechniqueFindings)
        /\ sample.packed => front = <<packing>>
    BY <1>3, WhenFacts
  <2>2. ToSet(front) = IF sample.packed THEN {packing} ELSE {}
    BY <1>3, StageFacts
  <2>3. Techniques(front) = {x.technique : x \in ToSet(front)}
    BY DEF Techniques, ToSet
  <2> HIDE DEF front
  <2> QED
    BY <1>3, <2>1, <2>2, <2>3
<1> HIDE DEF front
<1>9. Techniques(all) = Techniques(front) \cup Techniques(found)
  BY <1>2, <1>7, <1>8, TechniquesJoined
<1>10. Techniques(ofSample) \ Techniques(all) # {} => Len(ofFunctions) + Len(ofSample) > limit
  <2>1. Len(both) <= limit => Techniques(ofSample) \subseteq Techniques(all)
    BY <1>6, <1>7, <1>9
  <2>2. Len(both) \in Nat
    BY <1>6
  <2> QED
    BY <1>6, <2>1, <2>2
<1>11. sample.packed => all # <<>> /\ Head(all).technique = "executable_packing"
  <2> SUFFICES ASSUME sample.packed
               PROVE  all # <<>> /\ Head(all).technique = "executable_packing"
    OBVIOUS
  <2>1. front = <<packing>> /\ Len(front) = 1 /\ front[1] = packing
    BY <1>8
  <2>2. /\ all \in Seq(TechniqueFindings) /\ Len(found) \in Nat
        /\ Len(all) = Len(front) + Len(found)
        /\ \A i \in 1..Len(front) : all[i] = front[i]
    BY <1>2, <1>7, <1>8, Joined
  <2>3. all # <<>> /\ Head(all) = all[1] /\ all[1] = packing
    BY <2>1, <2>2
  <2> QED
    BY <1>3, <2>3
<1>12. /\ AntiAnalysis \cap Techniques(all) = AntiAnalysis \cap Techniques(found)
       /\ Decoders \cap Techniques(all) = Decoders \cap Techniques(found)
  BY <1>8, <1>9 DEF AntiAnalysis, Decoders
<1>13. Techniques(flow.antiAnalysis) = AntiAnalysis \cap Techniques(all)
  BY <1>4, <1>7, <1>12, ThoseFacts
<1>14. (\E i \in DOMAIN flow.stages : flow.stages[i].id = "encoding")
         <=> Decoders \cap Techniques(all) # {}
  <2>1. Those(found, Decoders) # <<>> <=> Decoders \cap Techniques(found) # {}
    BY <1>7, ThoseFacts
  <2> QED
    BY <1>5, <1>12, <2>1, Zenon
<1>15. \A f, g \in ToSet(sample.functions) :
         f.address \in ToSet(flow.branches) /\ g.address \notin ToSet(flow.branches)
           => g.decisions <= f.decisions
  BY <1>4, NamedFirst
<1> QED
  BY <1>10, <1>11, <1>13, <1>14, <1>15, Zenon DEF FindingsReachFlow, all, flow, ofFunctions, ofSample

-----------------------------------------------------------------------------
(* Triage *)

\* Loops that start with the same and go on with the same from the same end with the same.
Together(f, g, N) == f[0] = g[0] /\ \A n \in 1..N : f[n - 1] = g[n - 1] => f[n] = g[n]

LEMMA SameLoop ==
  ASSUME NEW N \in Nat, NEW f, NEW g, Together(f, g, N)
  PROVE  \A n \in 0..N : f[n] = g[n]
<1> DEFINE good == {n \in 0..N : f[n] = g[n]}
<1>1. good \in SUBSET (0..N) /\ 0 \in good
  BY DEF Together
<1>2. ASSUME NEW n \in 1..N, n - 1 \in good PROVE n \in good
  BY <1>2, n \in 0..N DEF Together
<1> HIDE DEF good
<1>3. good = 0..N
  BY <1>1, <1>2, FirstFailure
<1> QED
  BY <1>3 DEF good

KindNames == {"url", "ipv4", "email", "registry", "filepath", "domain"}

\* What is matched in a string, of some values.
Texts(values) == UNION {[kinds -> values] : kinds \in SUBSET KindNames}
Hosts(values) == {Host(value) : value \in values}

\* What a search has found: each indicator once, no domain after what covers it.
FoundSoFar(found, values) ==
    /\ found \in [listed : Seq(KindNames \X values), covered : SUBSET Hosts(values)]
    /\ \A i \in 1..Len(found.listed) :
          found.listed[i][1] \in {"url", "email"} => Host(found.listed[i][2]) \in found.covered
    /\ \A i, j \in 1..Len(found.listed) :
          i < j => /\ found.listed[i] # found.listed[j]
                   /\ ~(/\ found.listed[i][1] \in {"url", "email"}
                        /\ found.listed[j][1] = "domain"
                        /\ Host(found.listed[i][2]) = Host(found.listed[j][2]))

GoesOn(found, more) ==
    /\ Len(found.listed) <= Len(more.listed)
    /\ \A i \in 1..Len(found.listed) : more.listed[i] = found.listed[i]

LEMMA FoundFields ==
  ASSUME NEW values, NEW found, FoundSoFar(found, values)
  PROVE  /\ found.listed \in Seq(KindNames \X values) /\ found.covered \in SUBSET Hosts(values)
         /\ Len(found.listed) \in Nat /\ DOMAIN found.listed = 1..Len(found.listed)
BY DEF FoundSoFar

LEMMA FurtherChain ==
  ASSUME NEW values, NEW f, FoundSoFar(f, values), NEW g, FoundSoFar(g, values), NEW h, FoundSoFar(h, values),
         GoesOn(f, g), GoesOn(g, h)
  PROVE  GoesOn(f, h)
<1>1. Len(f.listed) \in Nat /\ Len(g.listed) \in Nat /\ Len(h.listed) \in Nat
  BY FoundFields
<1>2. Len(f.listed) <= Len(h.listed) /\ \A i \in 1..Len(f.listed) : i \in 1..Len(g.listed)
  BY <1>1 DEF GoesOn
<1> QED
  BY <1>2 DEF GoesOn

LEMMA LookFacts ==
  ASSUME NEW values, NEW found, FoundSoFar(found, values), NEW kind \in KindNames, NEW value \in values
  PROVE  /\ FoundSoFar(Look(found, kind, value), values)
         /\ GoesOn(found, Look(found, kind, value))
<1> DEFINE listed == found.listed
           pair == <<kind, value>>
           looked == Look(found, kind, value)
           known == \E i \in DOMAIN listed : listed[i] = pair
           suppressed == kind = "domain" /\ Host(value) \in found.covered
           longer == Append(listed, pair)
           covered == IF kind \in {"url", "email"} THEN found.covered \cup {Host(value)}
                      ELSE found.covered
           n == Len(listed)
<1>1. looked = [listed |-> IF known \/ suppressed THEN listed ELSE longer, covered |-> covered]
  BY DEF Look
<1>2. /\ listed \in Seq(KindNames \X values) /\ found.covered \in SUBSET Hosts(values)
      /\ n \in Nat /\ DOMAIN listed = 1..n
  BY FoundFields
<1>3. pair \in KindNames \X values /\ pair[1] = kind /\ pair[2] = value
  OBVIOUS
<1>4. covered \in SUBSET Hosts(values) /\ found.covered \subseteq covered
  BY <1>2 DEF Hosts
<1>5. kind \in {"url", "email"} => Host(value) \in covered
  OBVIOUS
<1>6. /\ \A i \in 1..n : listed[i][1] \in {"url", "email"} => Host(listed[i][2]) \in found.covered
      /\ \A i, j \in 1..n :
            i < j => /\ listed[i] # listed[j]
                     /\ ~(/\ listed[i][1] \in {"url", "email"}
                          /\ listed[j][1] = "domain"
                          /\ Host(listed[i][2]) = Host(listed[j][2]))
  BY DEF FoundSoFar
<1>7. /\ longer \in Seq(KindNames \X values) /\ Len(longer) = n + 1 /\ longer[n + 1] = pair
      /\ \A i \in 1..n : longer[i] = listed[i]
  <2> HIDE DEF pair
  <2> QED
    BY <1>2, <1>3
<1> HIDE DEF listed, pair, looked, longer, covered, n
<1>8. CASE known \/ suppressed
  <2>1. looked = [listed |-> listed, covered |-> covered]
    BY <1>1, <1>8
  <2>2. looked.listed = listed /\ looked.covered = covered
    BY <2>1
  <2>3. looked \in [listed : Seq(KindNames \X values), covered : SUBSET Hosts(values)]
    BY <1>2, <1>4, <2>1
  <2>4. FoundSoFar(looked, values)
    BY <1>4, <1>6, <2>2, <2>3 DEF FoundSoFar, n
  <2>5. GoesOn(found, looked)
    BY <1>2, <2>2 DEF GoesOn, listed, n
  <2> QED
    BY <2>4, <2>5 DEF looked
<1>9. CASE ~(known \/ suppressed)
  <2>1. looked = [listed |-> longer, covered |-> covered]
    BY <1>1, <1>9
  <2>2. looked.listed = longer /\ looked.covered = covered
    BY <2>1
  <2>3. looked \in [listed : Seq(KindNames \X values), covered : SUBSET Hosts(values)]
    BY <1>4, <1>7, <2>1
  <2>4. \A i \in 1..(n + 1) : (i \in 1..n /\ longer[i] = listed[i]) \/ (i = n + 1 /\ longer[i] = pair)
    BY <1>2, <1>7
  <2>5. \A i \in 1..(n + 1) : longer[i][1] \in {"url", "email"} => Host(longer[i][2]) \in covered
    BY <1>3, <1>4, <1>5, <1>6, <2>4
  <2>6. ASSUME NEW i \in 1..(n + 1), NEW j \in 1..(n + 1), i < j
        PROVE  /\ longer[i] # longer[j]
               /\ ~(/\ longer[i][1] \in {"url", "email"}
                    /\ longer[j][1] = "domain"
                    /\ Host(longer[i][2]) = Host(longer[j][2]))
    <3>1. i \in 1..n /\ longer[i] = listed[i]
      BY <1>2, <1>7, <2>6
    <3>2. CASE j \in 1..n /\ longer[j] = listed[j]
      BY <1>6, <2>6, <3>1, <3>2
    <3>3. CASE j = n + 1 /\ longer[j] = pair
      <4>1. longer[i] # longer[j]
        BY <1>2, <1>9, <3>1, <3>3
      <4>2. ASSUME listed[i][1] \in {"url", "email"}, kind = "domain",
                   Host(listed[i][2]) = Host(value)
            PROVE  FALSE
        BY <1>6, <1>9, <3>1, <4>2
      <4> QED
        BY <1>3, <3>1, <3>3, <4>1, <4>2
    <3> QED
      BY <2>4, <3>2, <3>3
  <2>7. FoundSoFar(looked, values)
    BY <1>7, <2>2, <2>3, <2>5, <2>6 DEF FoundSoFar
  <2>8. GoesOn(found, looked)
    <3>1. n <= n + 1
      BY <1>2
    <3> QED
      BY <1>7, <2>2, <3>1 DEF GoesOn, listed, n
  <2> QED
    BY <2>7, <2>8 DEF looked
<1> QED
  BY <1>8, <1>9

LEMMA LookThroughFacts ==
  ASSUME NEW values, NEW found, FoundSoFar(found, values), NEW string \in Texts(values)
  PROVE  /\ FoundSoFar(LookThrough(found, string), values)
         /\ GoesOn(found, LookThrough(found, string))
<1> DEFINE N == Len(Kinds)
           Add(f, kind) == IF kind \in DOMAIN string THEN Look(f, kind, string[kind]) ELSE f
           All == [listed : Seq(KindNames \X values), covered : SUBSET Hosts(values)]
           T == {f \in All : FoundSoFar(f, values) /\ GoesOn(found, f)}
           step == [n \in 1..N |-> [f \in T |-> Add(f, Kinds[n])]]
           body(g, n) == IF n = 0 THEN found ELSE Add(g[n - 1], Kinds[n])
           loop(f) == f = [n \in 0..N |-> body(f, n)]
           after == CHOOSE f : loop(f)
<1>1. N = 6 /\ \A n \in 1..N : Kinds[n] \in KindNames
  <2>1. /\ Len(Kinds) = 6
        /\ Kinds[1] \in KindNames /\ Kinds[2] \in KindNames /\ Kinds[3] \in KindNames
        /\ Kinds[4] \in KindNames /\ Kinds[5] \in KindNames /\ Kinds[6] \in KindNames
    BY DEF Kinds, KindNames
  <2>2. \A n \in 1..6 : n = 1 \/ n = 2 \/ n = 3 \/ n = 4 \/ n = 5 \/ n = 6
    OBVIOUS
  <2> QED
    BY <2>1, <2>2
<1>2. LookThrough(found, string) = after[N]
  BY Zenon DEF LookThrough, Folded
<1>3. \A kind \in DOMAIN string : string[kind] \in values
  BY DEF Texts
<1>4. \A f : f \in T <=> FoundSoFar(f, values) /\ GoesOn(found, f)
  BY DEF FoundSoFar
<1> HIDE DEF N, after, T
<1>5. ASSUME NEW f \in T, NEW kind \in KindNames
      PROVE  Add(f, kind) \in T
  <2>1. CASE kind \in DOMAIN string
    <3>1. FoundSoFar(Look(f, kind, string[kind]), values) /\ GoesOn(f, Look(f, kind, string[kind]))
      BY <1>3, <1>4, <2>1, LookFacts
    <3>2. GoesOn(found, Look(f, kind, string[kind]))
      BY <1>4, <3>1, FurtherChain
    <3> QED
      BY <1>4, <2>1, <3>1, <3>2
  <2>2. CASE kind \notin DOMAIN string
    BY <2>2
  <2> QED
    BY <2>1, <2>2
<1> HIDE DEF Add
<1>6. found \in T
  <2>1. Len(found.listed) \in Nat
    BY FoundFields
  <2> QED
    BY <1>4, <2>1 DEF GoesOn
<1>7. step \in Turns(T, N)
  BY <1>1, <1>5 DEF Turns
<1>8. \A n \in 1..N, f \in T : step[n][f] = Add(f, Kinds[n])
  OBVIOUS
<1> HIDE DEF step
<1>9. PICK f : Iterates(f, T, N, found, step)
  BY <1>1, <1>6, <1>7, IterationExists
<1>10. f \in [0..N -> T] /\ f[0] = found /\ \A n \in 1..N : f[n] = Add(f[n - 1], Kinds[n])
  <2>1. \A n \in 1..N : n - 1 \in 0..N
    BY <1>1
  <2> QED
    BY <1>8, <1>9, <2>1 DEF Iterates
<1>11. loop(f)
  <2>1. \A n \in 0..N : f[n] = body(f, n)
    <3>1. \A n \in 0..N : n # 0 => n \in 1..N
      BY <1>1
    <3> QED
      BY <1>10, <3>1
  <2> HIDE DEF body
  <2> QED
    BY <1>10, <2>1
<1>12. loop(after)
  BY <1>11, Zenon DEF after
<1>13. after[0] = found /\ \A n \in 1..N : after[n] = Add(after[n - 1], Kinds[n])
  <2>1. \A n \in 0..N : after[n] = body(after, n)
    <3> HIDE DEF body
    <3> QED
      BY <1>12
  <2>2. 0 \in 0..N /\ \A n \in 1..N : n \in 0..N /\ n # 0
    BY <1>1
  <2> QED
    BY <2>1, <2>2
<1>14. N \in Nat /\ N \in 0..N
  BY <1>1
<1>15. after[N] = f[N]
  <2>1. \A n \in 1..N : after[n - 1] = f[n - 1] => after[n] = f[n]
    BY <1>10, <1>13
  <2>2. Together(after, f, N) /\ N \in Nat
    BY <1>10, <1>13, <1>14, <2>1 DEF Together
  <2>3. \A n \in 0..N : after[n] = f[n]
    BY <2>2, SameLoop
  <2> QED
    BY <1>14, <2>3
<1> QED
  BY <1>2, <1>4, <1>10, <1>14, <1>15

\* What has been found after the first n strings.
Search(found, string, limit) ==
    IF Len(found.listed) >= limit THEN found ELSE LookThrough(found, string)
SearchesOn(after, strings, limit, values) ==
    /\ after[0] = [listed |-> <<>>, covered |-> {}]
    /\ \A n \in 1..Len(strings) : after[n] = Search(after[n - 1], strings[n], limit)
    /\ \A n \in 0..Len(strings) : FoundSoFar(after[n], values)
    /\ LET found == after[Len(strings)] IN
       Indicators(strings, limit) = SubSeq(found.listed, 1, Min({limit, Len(found.listed)}))

LEMMA SearchFacts ==
  ASSUME NEW values, NEW found, FoundSoFar(found, values), NEW string \in Texts(values),
         NEW limit \in Nat
  PROVE  /\ FoundSoFar(Search(found, string, limit), values)
         /\ GoesOn(found, Search(found, string, limit))
         /\ Len(found.listed) >= limit => Search(found, string, limit) = found
<1>1. CASE Len(found.listed) >= limit
  <2>1. Len(found.listed) \in Nat
    BY FoundFields
  <2> QED
    BY <1>1, <2>1 DEF Search, GoesOn
<1>2. CASE ~(Len(found.listed) >= limit)
  BY <1>2, LookThroughFacts DEF Search
<1> QED
  BY <1>1, <1>2

LEMMA SearchExists ==
  ASSUME NEW values, NEW strings \in Seq(Texts(values)), NEW limit \in Nat
  PROVE  \E after : SearchesOn(after, strings, limit, values)
<1> DEFINE N == Len(strings)
           start == [listed |-> <<>>, covered |-> {}]
           All == [listed : Seq(KindNames \X values), covered : SUBSET Hosts(values)]
           T == {f \in All : FoundSoFar(f, values)}
           step == [n \in 1..N |-> [f \in T |-> Search(f, strings[n], limit)]]
           body(g, n) == IF n = 0 THEN start ELSE Search(g[n - 1], strings[n], limit)
           loop(f) == f = [n \in 0..N |-> body(f, n)]
           after == CHOOSE f : loop(f)
<1>1. N \in Nat /\ N \in 0..N /\ \A n \in 1..N : strings[n] \in Texts(values)
  OBVIOUS
<1>2. Indicators(strings, limit) =
        SubSeq(after[N].listed, 1, Min({limit, Len(after[N].listed)}))
  BY Zenon DEF Indicators, Folded, Search
<1>4. \A f : f \in T <=> FoundSoFar(f, values)
  BY DEF FoundSoFar
<1>6. start \in T
  <2>1. start.listed = <<>> /\ 1..Len(start.listed) = {}
    OBVIOUS
  <2>2. start \in All
    OBVIOUS
  <2>3. FoundSoFar(start, values)
    BY <2>1, <2>2 DEF FoundSoFar
  <2> QED
    BY <1>4, <2>3
<1> HIDE DEF N, after, T, start
<1>5. ASSUME NEW f \in T, NEW n \in 1..N
      PROVE  Search(f, strings[n], limit) \in T
  BY <1>1, <1>4, SearchFacts
<1>7. step \in Turns(T, N)
  BY <1>5 DEF Turns
<1>8. \A n \in 1..N, f \in T : step[n][f] = Search(f, strings[n], limit)
  OBVIOUS
<1> HIDE DEF step
<1>9. PICK f : Iterates(f, T, N, start, step)
  BY <1>1, <1>6, <1>7, IterationExists
<1>10. f \in [0..N -> T] /\ f[0] = start /\ \A n \in 1..N : f[n] = Search(f[n - 1], strings[n], limit)
  <2>1. \A n \in 1..N : n - 1 \in 0..N
    BY <1>1
  <2> QED
    BY <1>8, <1>9, <2>1 DEF Iterates
<1>11. loop(f)
  <2>1. \A n \in 0..N : f[n] = body(f, n)
    <3>1. \A n \in 0..N : n # 0 => n \in 1..N
      BY <1>1
    <3> QED
      BY <1>10, <3>1
  <2> HIDE DEF body
  <2> QED
    BY <1>10, <2>1
<1>12. loop(after)
  BY <1>11, Zenon DEF after
<1>13. after[0] = start /\ \A n \in 1..N : after[n] = Search(after[n - 1], strings[n], limit)
  <2>1. \A n \in 0..N : after[n] = body(after, n)
    <3> HIDE DEF body
    <3> QED
      BY <1>12
  <2>2. 0 \in 0..N /\ \A n \in 1..N : n \in 0..N /\ n # 0
    BY <1>1
  <2> QED
    BY <2>1, <2>2
<1>15. \A n \in 0..N : after[n] = f[n]
  <2>1. \A n \in 1..N : after[n - 1] = f[n - 1] => after[n] = f[n]
    BY <1>10, <1>13
  <2>2. Together(after, f, N) /\ N \in Nat
    BY <1>1, <1>10, <1>13, <2>1 DEF Together
  <2>3. \A x, y : Together(x, y, N) => \A n \in 0..N : x[n] = y[n]
    BY <1>1, SameLoop
  <2> QED
    BY <2>2, <2>3
<1>16. \A n \in 0..N : FoundSoFar(after[n], values)
  BY <1>4, <1>10, <1>15
<1>17. SearchesOn(after, strings, limit, values)
  BY <1>2, <1>13, <1>16, Zenon DEF SearchesOn, start, N
<1> QED
  BY <1>17

\* What is listed of what was found.
LEMMA CutFacts ==
  ASSUME NEW values, NEW found, FoundSoFar(found, values), NEW limit \in Nat
  PROVE  LET m == Min({limit, Len(found.listed)})
             listed == SubSeq(found.listed, 1, m)
         IN /\ m \in Nat /\ m <= limit /\ m <= Len(found.listed) /\ m \in {limit, Len(found.listed)}
            /\ listed \in Seq(KindNames \X values) /\ Len(listed) = m
            /\ \A i \in 1..m : listed[i] = found.listed[i]
<1> DEFINE m == Min({limit, Len(found.listed)})
<1>1. Len(found.listed) \in Nat /\ found.listed \in Seq(KindNames \X values)
  BY FoundFields
<1>2. m = IF limit <= Len(found.listed) THEN limit ELSE Len(found.listed)
  BY <1>1, MinOfTwo, limit \in Int, Len(found.listed) \in Int
<1> HIDE DEF m
<1>3. m \in Nat /\ m <= limit /\ m <= Len(found.listed) /\ m \in {limit, Len(found.listed)}
  BY <1>1, <1>2
<1>4. SubSeq(found.listed, 1, m) \in Seq(KindNames \X values) /\ Len(SubSeq(found.listed, 1, m)) = m
      /\ \A i \in 1..m : SubSeq(found.listed, 1, m)[i] = found.listed[i]
  BY <1>1, <1>3
<1> QED
  BY <1>3, <1>4, Zenon DEF m

\* The listed indicators are few enough, each is there once, none is a domain that one
\* before it covers.
LEMMA IndicatorsFacts ==
  ASSUME NEW values, NEW strings \in Seq(Texts(values)), NEW limit \in Nat
  PROVE  LET listed == Indicators(strings, limit)
         IN /\ listed \in Seq(KindNames \X values) /\ Len(listed) <= limit
            /\ \A i, j \in DOMAIN listed :
                  i < j => /\ listed[i] # listed[j]
                           /\ ~(/\ listed[i][1] \in {"url", "email"} /\ listed[j][1] = "domain"
                                /\ Host(listed[i][2]) = Host(listed[j][2]))
<1> DEFINE listed == Indicators(strings, limit)
<1>1. PICK after : SearchesOn(after, strings, limit, values)
  BY SearchExists
<1> DEFINE found == after[Len(strings)]
           m == Min({limit, Len(found.listed)})
<1>2. Len(strings) \in 0..Len(strings)
  OBVIOUS
<1>3. FoundSoFar(found, values) /\ listed = SubSeq(found.listed, 1, m)
  BY <1>1, <1>2, Zenon DEF SearchesOn
<1> HIDE DEF found, listed
<1>4. /\ m \in Nat /\ m <= limit /\ m <= Len(found.listed)
      /\ listed \in Seq(KindNames \X values) /\ Len(listed) = m
      /\ \A i \in 1..m : listed[i] = found.listed[i]
  BY <1>3, CutFacts
<1>5. DOMAIN listed = 1..m /\ Len(found.listed) \in Nat
  BY <1>3, <1>4, FoundFields
<1> HIDE DEF m
<1>6. \A i \in 1..m : i \in 1..Len(found.listed) /\ listed[i] = found.listed[i]
  BY <1>4, <1>5
<1>7. \A i, j \in DOMAIN listed :
        i < j => /\ listed[i] # listed[j]
                 /\ ~(/\ listed[i][1] \in {"url", "email"} /\ listed[j][1] = "domain"
                      /\ Host(listed[i][2]) = Host(listed[j][2]))
  <2> SUFFICES ASSUME NEW i \in 1..m, NEW j \in 1..m, i < j
               PROVE  /\ listed[i] # listed[j]
                      /\ ~(/\ listed[i][1] \in {"url", "email"} /\ listed[j][1] = "domain"
                           /\ Host(listed[i][2]) = Host(listed[j][2]))
    BY <1>5
  <2>1. /\ found.listed[i] # found.listed[j]
        /\ ~(/\ found.listed[i][1] \in {"url", "email"} /\ found.listed[j][1] = "domain"
             /\ Host(found.listed[i][2]) = Host(found.listed[j][2]))
    BY <1>3, <1>6 DEF FoundSoFar
  <2> QED
    BY <1>6, <2>1
<1> QED
  BY <1>4, <1>7 DEF listed

\* What else is found further on comes after what was listed.
LEMMA IndicatorsGrow ==
  ASSUME NEW values, NEW strings \in Seq(Texts(values)), NEW more \in Texts(values),
         NEW limit \in Nat
  PROVE  LET listed == Indicators(strings, limit)
             longer == Indicators(strings \o <<more>>, limit)
         IN /\ longer \in Seq(KindNames \X values)
            /\ Len(listed) <= Len(longer)
            /\ \A i \in 1..Len(listed) : longer[i] = listed[i]
<1> DEFINE N == Len(strings)
           further == strings \o <<more>>
           listed == Indicators(strings, limit)
           longer == Indicators(further, limit)
<1>1. /\ further \in Seq(Texts(values)) /\ N \in Nat /\ Len(further) = N + 1
      /\ further[N + 1] = more /\ \A n \in 1..N : further[n] = strings[n]
  OBVIOUS
<1> HIDE DEF N, further
<1>2. PICK first : SearchesOn(first, strings, limit, values)
  BY SearchExists
<1>3. PICK second : SearchesOn(second, further, limit, values)
  BY <1>1, SearchExists
<1>4. \A n \in 1..N : n \in 1..(N + 1)
  BY <1>1
<1>5. first[N] = second[N]
  <2>1. first[0] = second[0]
    BY <1>2, <1>3 DEF SearchesOn
  <2>2. \A n \in 1..N : first[n - 1] = second[n - 1] => first[n] = second[n]
    BY <1>1, <1>2, <1>3, <1>4 DEF SearchesOn, N
  <2>3. Together(first, second, N) /\ N \in Nat
    BY <1>1, <2>1, <2>2 DEF Together
  <2>4. \A n \in 0..N : first[n] = second[n]
    BY <2>3, SameLoop
  <2> QED
    BY <1>1, <2>4, N \in 0..N
<1> DEFINE f == first[N]
           g == second[N + 1]
<1>6. FoundSoFar(f, values) /\ listed = SubSeq(f.listed, 1, Min({limit, Len(f.listed)}))
  BY <1>1, <1>2, N \in 0..N, Zenon DEF SearchesOn, N
<1>7. FoundSoFar(g, values) /\ longer = SubSeq(g.listed, 1, Min({limit, Len(g.listed)}))
  <2>1. N + 1 \in 0..(N + 1)
    BY <1>1
  <2> QED
    BY <1>1, <1>3, <2>1, Zenon DEF SearchesOn
<1>8. g = Search(f, more, limit)
  <2>1. N + 1 \in 1..(N + 1) /\ (N + 1) - 1 = N
    BY <1>1
  <2> QED
    BY <1>1, <1>3, <1>5, <2>1 DEF SearchesOn
<1> HIDE DEF f, g, listed, longer
<1>9. GoesOn(f, g)
  BY <1>6, <1>8, SearchFacts
<1> DEFINE m == Min({limit, Len(f.listed)})
           k == Min({limit, Len(g.listed)})
<1>10. /\ m \in Nat /\ m <= limit /\ m <= Len(f.listed)
       /\ Len(listed) = m
       /\ \A i \in 1..m : listed[i] = f.listed[i]
  BY <1>6, CutFacts
<1>11. /\ k \in Nat /\ k \in {limit, Len(g.listed)}
       /\ longer \in Seq(KindNames \X values) /\ Len(longer) = k
       /\ \A i \in 1..k : longer[i] = g.listed[i]
  BY <1>7, CutFacts
<1> HIDE DEF m, k
<1>12. /\ Len(f.listed) \in Nat /\ Len(g.listed) \in Nat /\ Len(f.listed) <= Len(g.listed)
       /\ \A i \in 1..Len(f.listed) : g.listed[i] = f.listed[i]
  BY <1>6, <1>7, <1>9, FoundFields DEF GoesOn
<1>13. m <= k
  BY <1>10, <1>11, <1>12
<1>14. \A i \in 1..m : i \in 1..k /\ i \in 1..Len(f.listed)
  BY <1>10, <1>11, <1>12, <1>13
<1>15. \A i \in 1..m : longer[i] = listed[i]
  BY <1>10, <1>11, <1>12, <1>14
<1> QED
  BY <1>10, <1>11, <1>13, <1>15, Zenon DEF listed, longer, further

\* The points of the indicators of a kind.
CountOf(indicators, kind) == Cardinality({i \in DOMAIN indicators : indicators[i][1] = kind})
PointsOf(indicators, kind) == Min({KindCap, IocWeight[kind] * CountOf(indicators, kind)})

LEMMA WeightedKind ==
  ASSUME NEW kind \in KindNames
  PROVE  IocWeight[kind] \in Nat
BY DEF KindNames, IocWeight

LEMMA CountFacts ==
  ASSUME NEW T, NEW indicators \in Seq(T), NEW kind
  PROVE  /\ CountOf(indicators, kind) \in Nat
         /\ IsFiniteSet({i \in DOMAIN indicators : indicators[i][1] = kind})
         /\ (\A i \in DOMAIN indicators : indicators[i][1] # kind) => CountOf(indicators, kind) = 0
<1> DEFINE S == {i \in DOMAIN indicators : indicators[i][1] = kind}
<1>1. DOMAIN indicators = 1..Len(indicators) /\ Len(indicators) \in Nat
  OBVIOUS
<1>2. S \in SUBSET (1..Len(indicators))
  BY <1>1
<1>3. (\A i \in DOMAIN indicators : indicators[i][1] # kind) => S = {}
  OBVIOUS
<1>4. CountOf(indicators, kind) = Cardinality(S)
  BY DEF CountOf
<1> HIDE DEF S
<1>5. IsFiniteSet(S)
  BY <1>1, <1>2, FS_Interval, FS_Subset, 1 \in Int, Len(indicators) \in Int
<1>6. Cardinality(S) \in Nat /\ (S = {} => Cardinality(S) = 0)
  BY <1>5, FS_CardinalityType, FS_EmptySet
<1> QED
  BY <1>3, <1>4, <1>5, <1>6 DEF S

LEMMA PointsFacts ==
  ASSUME NEW T, NEW indicators \in Seq(T), NEW kind \in KindNames
  PROVE  /\ PointsOf(indicators, kind) \in 0..12
         /\ (\A i \in DOMAIN indicators : indicators[i][1] # kind) => PointsOf(indicators, kind) = 0
<1> DEFINE c == CountOf(indicators, kind)
           w == IocWeight[kind]
<1>1. c \in Nat /\ ((\A i \in DOMAIN indicators : indicators[i][1] # kind) => c = 0)
  BY CountFacts
<1>2. w \in Nat
  BY WeightedKind
<1>3. PointsOf(indicators, kind) = Min({12, w * c})
  BY DEF PointsOf, KindCap
<1> HIDE DEF c, w
<1>4. w * c \in Nat /\ (c = 0 => w * c = 0)
  BY <1>1, <1>2
<1> DEFINE x == w * c
<1> HIDE DEF x
<1>5. x \in Nat /\ (c = 0 => x = 0)
  BY <1>4 DEF x
<1>6. Min({12, x}) = IF 12 <= x THEN 12 ELSE x
  BY <1>5, MinOfTwo, 12 \in Int, x \in Int
<1>7. Min({12, x}) \in 0..12 /\ (c = 0 => Min({12, x}) = 0)
  BY <1>5, <1>6
<1> QED
  BY <1>1, <1>3, <1>7 DEF x

LEMMA PointsGrow ==
  ASSUME NEW T, NEW p \in Seq(T), NEW q \in Seq(T), Len(p) <= Len(q),
         \A i \in 1..Len(p) : q[i] = p[i], NEW kind \in KindNames
  PROVE  PointsOf(p, kind) <= PointsOf(q, kind)
<1> DEFINE P == {i \in DOMAIN p : p[i][1] = kind}
           Q == {i \in DOMAIN q : q[i][1] = kind}
           c == CountOf(p, kind)
           d == CountOf(q, kind)
           w == IocWeight[kind]
<1>1. Len(p) \in Nat /\ Len(q) \in Nat /\ DOMAIN p = 1..Len(p) /\ DOMAIN q = 1..Len(q)
  OBVIOUS
<1>2. P \subseteq Q
  <2>1. \A i \in 1..Len(p) : i \in 1..Len(q)
    BY <1>1
  <2> QED
    BY <1>1, <2>1
<1>3. IsFiniteSet(Q) /\ c \in Nat /\ d \in Nat
  BY CountFacts
<1>4. c = Cardinality(P) /\ d = Cardinality(Q)
  BY DEF CountOf
<1> HIDE DEF P, Q, c, d
<1>5. Cardinality(P) <= Cardinality(Q)
  BY <1>2, <1>3, FS_Subset
<1>6. c <= d
  BY <1>4, <1>5
<1>7. w \in Nat
  BY WeightedKind
<1>8. PointsOf(p, kind) = Min({12, w * c}) /\ PointsOf(q, kind) = Min({12, w * d})
  BY DEF PointsOf, KindCap, c, d
<1>9. w \in {1, 2, 3, 4, 5, 6}
  BY DEF KindNames, IocWeight
<1> HIDE DEF w
<1>10. w * c \in Int /\ w * d \in Int /\ w * c <= w * d
  BY <1>3, <1>6, <1>9
<1> DEFINE x == w * c
           y == w * d
<1> HIDE DEF x, y
<1>11. x \in Int /\ y \in Int /\ x <= y
  BY <1>10 DEF x, y
<1>12. Min({12, x}) = (IF 12 <= x THEN 12 ELSE x) /\ Min({12, y}) = (IF 12 <= y THEN 12 ELSE y)
  BY <1>11, MinOfTwo, 12 \in Int
<1>13. Min({12, x}) <= Min({12, y})
  BY <1>11, <1>12
<1> QED
  BY <1>8, <1>13 DEF x, y

LEMMA IocsAre ==
  ASSUME NEW indicators
  PROVE  ScoreIocs(indicators) =
           PointsOf(indicators, "url") + PointsOf(indicators, "ipv4")
           + PointsOf(indicators, "domain") + PointsOf(indicators, "registry")
           + PointsOf(indicators, "filepath") + PointsOf(indicators, "email")
BY DEF ScoreIocs, PointsOf, CountOf

LEMMA SixKinds ==
  /\ "url" \in KindNames /\ "ipv4" \in KindNames /\ "domain" \in KindNames
  /\ "registry" \in KindNames /\ "filepath" \in KindNames /\ "email" \in KindNames
BY DEF KindNames

LEMMA IocsFacts ==
  ASSUME NEW values, NEW indicators \in Seq(KindNames \X values)
  PROVE  /\ ScoreIocs(indicators) \in 0..72
         /\ (\A i, j \in DOMAIN indicators : indicators[i][1] = indicators[j][1])
              => ScoreIocs(indicators) <= 12
<1> DEFINE a == PointsOf(indicators, "url")
           b == PointsOf(indicators, "ipv4")
           c == PointsOf(indicators, "domain")
           d == PointsOf(indicators, "registry")
           e == PointsOf(indicators, "filepath")
           f == PointsOf(indicators, "email")
<1>1. ScoreIocs(indicators) = a + b + c + d + e + f
  BY IocsAre
<1>2. \A kind \in KindNames :
        /\ PointsOf(indicators, kind) \in 0..12
        /\ (\A i \in DOMAIN indicators : indicators[i][1] # kind) => PointsOf(indicators, kind) = 0
  BY PointsFacts
<1>3. a \in 0..12 /\ b \in 0..12 /\ c \in 0..12 /\ d \in 0..12 /\ e \in 0..12 /\ f \in 0..12
  BY <1>2, SixKinds
<1>4. ASSUME \A i, j \in DOMAIN indicators : indicators[i][1] = indicators[j][1]
      PROVE  \E kind \in KindNames : \A k \in KindNames : k # kind => PointsOf(indicators, k) = 0
  <2>1. CASE DOMAIN indicators = {}
    BY <1>2, <2>1, SixKinds
  <2>2. CASE DOMAIN indicators # {}
    <3>1. PICK i \in DOMAIN indicators : TRUE
      BY <2>2
    <3>2. indicators[i] \in KindNames \X values
      OBVIOUS
    <3>3. indicators[i][1] \in KindNames
      BY <3>2
    <3>4. \A k \in KindNames : k # indicators[i][1] => \A j \in DOMAIN indicators : indicators[j][1] # k
      BY <1>4
    <3> QED
      BY <1>2, <3>3, <3>4
  <2> QED
    BY <2>1, <2>2
<1>5. ASSUME \A i, j \in DOMAIN indicators : indicators[i][1] = indicators[j][1]
      PROVE  a + b + c + d + e + f <= 12
  <2>1. PICK kind \in KindNames : \A k \in KindNames : k # kind => PointsOf(indicators, k) = 0
    BY <1>4, <1>5
  <2>2. \/ kind = "url" \/ kind = "ipv4" \/ kind = "domain" \/ kind = "registry"
        \/ kind = "filepath" \/ kind = "email"
    BY DEF KindNames
  <2>3. /\ kind # "url" => a = 0
        /\ kind # "ipv4" => b = 0
        /\ kind # "domain" => c = 0
        /\ kind # "registry" => d = 0
        /\ kind # "filepath" => e = 0
        /\ kind # "email" => f = 0
    BY <2>1, SixKinds
  <2> HIDE DEF a, b, c, d, e, f
  <2> QED
    BY <1>3, <2>2, <2>3
<1> HIDE DEF a, b, c, d, e, f
<1>6. a + b + c + d + e + f \in 0..72
  BY <1>3
<1> QED
  BY <1>1, <1>5, <1>6

LEMMA IocsGrow ==
  ASSUME NEW T, NEW p \in Seq(T), NEW q \in Seq(T), Len(p) <= Len(q),
         \A i \in 1..Len(p) : q[i] = p[i]
  PROVE  ScoreIocs(p) <= ScoreIocs(q)
<1>1. \A kind \in KindNames : /\ PointsOf(p, kind) \in 0..12 /\ PointsOf(q, kind) \in 0..12
                              /\ PointsOf(p, kind) <= PointsOf(q, kind)
  BY PointsFacts, PointsGrow
<1> DEFINE a1 == PointsOf(p, "url")
           a2 == PointsOf(q, "url")
           b1 == PointsOf(p, "ipv4")
           b2 == PointsOf(q, "ipv4")
           c1 == PointsOf(p, "domain")
           c2 == PointsOf(q, "domain")
           d1 == PointsOf(p, "registry")
           d2 == PointsOf(q, "registry")
           e1 == PointsOf(p, "filepath")
           e2 == PointsOf(q, "filepath")
           f1 == PointsOf(p, "email")
           f2 == PointsOf(q, "email")
<1>2. /\ a1 \in 0..12 /\ a2 \in 0..12 /\ a1 <= a2
      /\ b1 \in 0..12 /\ b2 \in 0..12 /\ b1 <= b2
      /\ c1 \in 0..12 /\ c2 \in 0..12 /\ c1 <= c2
      /\ d1 \in 0..12 /\ d2 \in 0..12 /\ d1 <= d2
      /\ e1 \in 0..12 /\ e2 \in 0..12 /\ e1 <= e2
      /\ f1 \in 0..12 /\ f2 \in 0..12 /\ f1 <= f2
  BY <1>1, SixKinds
<1>3. /\ ScoreIocs(p) = a1 + b1 + c1 + d1 + e1 + f1
      /\ ScoreIocs(q) = a2 + b2 + c2 + d2 + e2 + f2
  BY IocsAre
<1> HIDE DEF a1, b1, c1, d1, e1, f1, a2, b2, c2, d2, e2, f2
<1> QED
  BY <1>2, <1>3

-----------------------------------------------------------------------------
RuleSeverities == {"info", "low", "medium", "high", "critical"}
Ruled(rules) ==
    /\ DOMAIN rules = 1..Len(rules) /\ Len(rules) \in Nat
    /\ \A r \in 1..Len(rules) : rules[r].severity \in RuleSeverities
Knowing(knowledge) ==
    /\ Ruled(knowledge.capabilities) /\ Ruled(knowledge.signatures)
    /\ \A r \in 1..Len(knowledge.signatures) : knowledge.signatures[r].minimum \in Nat \ {0}

LEMMA WeighedFacts ==
  ASSUME NEW rules, Ruled(rules), NEW matched \in SUBSET (1..Len(rules)),
         NEW weight, \A s \in RuleSeverities : weight[s] \in Nat
  PROVE  /\ Weighed(rules, matched, weight) \in Nat
         /\ matched = {} => Weighed(rules, matched, weight) = 0
<1> DEFINE R == {rules[r] : r \in 1..Len(rules)}
           some == Filtered(rules, matched)
           N == Len(some)
           step == [n \in 1..N |-> [total \in Nat |-> total + weight[some[n].severity]]]
           body(g, n) == IF n = 0 THEN 0 ELSE g[n - 1] + weight[some[n].severity]
           loop(f) == f = [n \in 0..N |-> body(f, n)]
           after == CHOOSE f : loop(f)
<1>1. Weighed(rules, matched, weight) = after[N]
  BY Zenon DEF Weighed, Folded
<1>2. some \in Seq(R) /\ Lists(some, rules, matched, Below(matched))
  <2>1. Len(rules) \in Nat /\ \A r \in matched : rules[r] \in R
    BY DEF Ruled
  <2> HIDE DEF R
  <2> QED
    BY <2>1, FilteredFacts
<1>3. \A rule \in R : rule.severity \in RuleSeverities
  BY DEF Ruled
<1> HIDE DEF R, some
<1>4. N \in Nat /\ N \in 0..N /\ \A n \in 1..N : weight[some[n].severity] \in Nat
  <2>1. N \in Nat /\ \A n \in 1..N : some[n] \in R
    BY <1>2
  <2> QED
    BY <1>3, <2>1
<1>5. matched = {} => N = 0
  <2> SUFFICES ASSUME matched = {}, N # 0 PROVE FALSE
    OBVIOUS
  <2>1. 1 \in 1..N
    BY <1>4
  <2>2. PICK at \in [1..N -> {}] : TRUE
    BY <1>2 DEF Lists
  <2> QED
    BY <2>1, <2>2
<1> HIDE DEF N, after
<1>6. step \in Turns(Nat, N)
  <2>1. \A n \in 1..N, total \in Nat : total + weight[some[n].severity] \in Nat
    BY <1>4
  <2> QED
    BY <2>1 DEF Turns
<1>7. \A n \in 1..N, total \in Nat : step[n][total] = total + weight[some[n].severity]
  OBVIOUS
<1> HIDE DEF step
<1>8. PICK f : Iterates(f, Nat, N, 0, step)
  BY <1>4, <1>6, IterationExists
<1>9. /\ f \in [0..N -> Nat] /\ f[0] = 0
      /\ \A n \in 1..N : f[n] = f[n - 1] + weight[some[n].severity]
  <2>1. \A n \in 1..N : n - 1 \in 0..N
    BY <1>4
  <2> QED
    BY <1>7, <1>8, <2>1 DEF Iterates
<1>10. loop(f)
  <2>1. \A n \in 0..N : f[n] = body(f, n)
    <3>1. \A n \in 0..N : n # 0 => n \in 1..N
      BY <1>4
    <3> QED
      BY <1>9, <3>1
  <2> HIDE DEF body
  <2> QED
    BY <1>9, <2>1
<1>11. loop(after)
  BY <1>10, Zenon DEF after
<1>12. after[0] = 0 /\ \A n \in 1..N : after[n] = after[n - 1] + weight[some[n].severity]
  <2>1. \A n \in 0..N : after[n] = body(after, n)
    <3> HIDE DEF body
    <3> QED
      BY <1>11
  <2>2. 0 \in 0..N /\ \A n \in 1..N : n \in 0..N /\ n # 0
    BY <1>4
  <2> QED
    BY <2>1, <2>2
<1>13. \A n \in 0..N : after[n] = f[n]
  <2>1. \A n \in 1..N : after[n - 1] = f[n - 1] => after[n] = f[n]
    BY <1>9, <1>12
  <2>2. Together(after, f, N) /\ N \in Nat
    BY <1>4, <1>9, <1>12, <2>1 DEF Together
  <2>3. \A x, y : Together(x, y, N) => \A n \in 0..N : x[n] = y[n]
    BY <1>4, SameLoop
  <2> QED
    BY <2>2, <2>3
<1>14. after[N] \in Nat /\ (N = 0 => after[N] = 0)
  BY <1>4, <1>9, <1>13
<1> QED
  BY <1>1, <1>5, <1>14

\* A sample whose strings have matches among some values.
TriageSample(sample, values) ==
    /\ sample = [strings |-> sample.strings, imports |-> sample.imports,
                 patterns |-> sample.patterns, packing |-> sample.packing]
    /\ sample.strings \in Seq(Texts(values))

\* What is scored besides the indicators, and with them.
CapabilityPoints(sample, knowledge) ==
    Weighed(knowledge.capabilities, Capabilities(knowledge.capabilities, sample.imports),
            CapabilityWeight)
RulePoints(sample, knowledge) ==
    Weighed(knowledge.signatures, Signatures(knowledge.signatures, sample.patterns), RuleWeight)

LEMMA OtherPoints ==
  ASSUME NEW sample, NEW knowledge, Knowing(knowledge)
  PROVE  /\ CapabilityPoints(sample, knowledge) \in Nat
         /\ RulePoints(sample, knowledge) \in Nat
         /\ If(Packed(sample.packing), PackingWeight) \in Nat
         /\ sample.imports = {} => CapabilityPoints(sample, knowledge) = 0
         /\ sample.patterns = {} => RulePoints(sample, knowledge) = 0
         /\ ~Packed(sample.packing) => If(Packed(sample.packing), PackingWeight) = 0
<1> DEFINE C == Capabilities(knowledge.capabilities, sample.imports)
           S == Signatures(knowledge.signatures, sample.patterns)
<1>1. C \in SUBSET (1..Len(knowledge.capabilities)) /\ (sample.imports = {} => C = {})
  BY DEF Capabilities, Knowing, Ruled
<1>2. S \in SUBSET (1..Len(knowledge.signatures))
  BY DEF Signatures, Knowing, Ruled
<1>3. sample.patterns = {} => S = {}
  <2> SUFFICES ASSUME sample.patterns = {}, NEW r \in S PROVE FALSE
    OBVIOUS
  <2>1. r \in 1..Len(knowledge.signatures)
    BY <1>2
  <2>2. knowledge.signatures[r].minimum \in Nat \ {0}
    BY <2>1 DEF Knowing
  <2>3. knowledge.signatures[r].patterns \cap sample.patterns = {}
    OBVIOUS
  <2>4. Cardinality(knowledge.signatures[r].patterns \cap sample.patterns) = 0
    BY <2>3, FS_EmptySet
  <2>5. Cardinality(knowledge.signatures[r].patterns \cap sample.patterns)
          >= knowledge.signatures[r].minimum
    BY DEF Signatures
  <2> QED
    BY <2>2, <2>4, <2>5
<1>4. /\ \A s \in RuleSeverities : CapabilityWeight[s] \in Nat
      /\ \A s \in RuleSeverities : RuleWeight[s] \in Nat
  BY DEF RuleSeverities, CapabilityWeight, RuleWeight
<1> HIDE DEF C, S
<1>5. Weighed(knowledge.capabilities, C, CapabilityWeight) \in Nat
      /\ (C = {} => Weighed(knowledge.capabilities, C, CapabilityWeight) = 0)
  BY <1>1, <1>4, WeighedFacts DEF Knowing
<1>6. Weighed(knowledge.signatures, S, RuleWeight) \in Nat
      /\ (S = {} => Weighed(knowledge.signatures, S, RuleWeight) = 0)
  BY <1>2, <1>4, WeighedFacts DEF Knowing
<1>7. If(Packed(sample.packing), PackingWeight) \in Nat
      /\ (~Packed(sample.packing) => If(Packed(sample.packing), PackingWeight) = 0)
  BY DEF If, PackingWeight
<1> QED
  BY <1>1, <1>3, <1>5, <1>6, <1>7 DEF CapabilityPoints, RulePoints, C, S

\* The score of some indicators of a sample.
Scored(sample, knowledge, indicators) ==
    Min({100, CapabilityPoints(sample, knowledge) + ScoreIocs(indicators)
              + RulePoints(sample, knowledge) + If(Packed(sample.packing), PackingWeight)})

LEMMA ScoredFacts ==
  ASSUME NEW sample, NEW knowledge, Knowing(knowledge), NEW values,
         NEW p \in Seq(KindNames \X values)
  PROVE  /\ Scored(sample, knowledge, p) \in 0..100
         /\ (/\ sample.imports = {} /\ sample.patterns = {} /\ ~Packed(sample.packing)
             /\ \A i, j \in DOMAIN p : p[i][1] = p[j][1])
              => Scored(sample, knowledge, p) <= 12
<1> DEFINE a == CapabilityPoints(sample, knowledge)
           b == ScoreIocs(p)
           c == RulePoints(sample, knowledge)
           d == If(Packed(sample.packing), PackingWeight)
           all == a + b + c + d
<1>1. /\ a \in Nat /\ c \in Nat /\ d \in Nat
      /\ sample.imports = {} => a = 0
      /\ sample.patterns = {} => c = 0
      /\ ~Packed(sample.packing) => d = 0
  BY OtherPoints
<1>2. b \in 0..72 /\ ((\A i, j \in DOMAIN p : p[i][1] = p[j][1]) => b <= 12)
  BY IocsFacts
<1>3. Scored(sample, knowledge, p) = Min({100, all})
  BY DEF Scored
<1> HIDE DEF a, b, c, d
<1>4. all \in Nat
  BY <1>1, <1>2
<1>5. (/\ sample.imports = {} /\ sample.patterns = {} /\ ~Packed(sample.packing)
       /\ \A i, j \in DOMAIN p : p[i][1] = p[j][1]) => all <= 12
  BY <1>1, <1>2
<1> HIDE DEF all
<1>6. Min({100, all}) = IF 100 <= all THEN 100 ELSE all
  BY <1>4, MinOfTwo, 100 \in Int, all \in Int
<1> DEFINE m == Min({100, all})
<1> HIDE DEF m
<1>7. m = IF 100 <= all THEN 100 ELSE all
  BY <1>6 DEF m
<1>8. m \in 0..100 /\ m <= all
  BY <1>4, <1>7
<1>9. all <= 12 => m <= 12
  BY <1>4, <1>7
<1>10. Scored(sample, knowledge, p) = m
  BY <1>3 DEF m
<1> QED
  BY <1>5, <1>8, <1>9, <1>10

LEMMA ScoredGrows ==
  ASSUME NEW sample, NEW knowledge, Knowing(knowledge), NEW values,
         NEW p \in Seq(KindNames \X values), NEW q \in Seq(KindNames \X values),
         Len(p) <= Len(q), \A i \in 1..Len(p) : q[i] = p[i]
  PROVE  Scored(sample, knowledge, q) >= Scored(sample, knowledge, p)
<1> DEFINE a == CapabilityPoints(sample, knowledge)
           b == ScoreIocs(p)
           e == ScoreIocs(q)
           c == RulePoints(sample, knowledge)
           d == If(Packed(sample.packing), PackingWeight)
           x == a + b + c + d
           y == a + e + c + d
<1>1. a \in Nat /\ c \in Nat /\ d \in Nat
  BY OtherPoints
<1>2. b \in 0..72 /\ e \in 0..72
  BY IocsFacts
<1>3. b <= e
  BY IocsGrow
<1>4. Scored(sample, knowledge, p) = Min({100, x}) /\ Scored(sample, knowledge, q) = Min({100, y})
  BY DEF Scored
<1> HIDE DEF a, b, c, d, e
<1>5. x \in Int /\ y \in Int /\ x <= y
  BY <1>1, <1>2, <1>3
<1> HIDE DEF x, y
<1>6. Min({100, x}) = (IF 100 <= x THEN 100 ELSE x) /\ Min({100, y}) = (IF 100 <= y THEN 100 ELSE y)
  BY <1>5, MinOfTwo, 100 \in Int
<1> QED
  BY <1>4, <1>5, <1>6

\* Whatever is in a sample, its triage is the same with and without the optional tool, one
\* kind of indicator does not reach the score of a verdict, no indicator is listed twice or
\* after what covers it, and what else is found further on never lowers the score
\* (malware/triage.py, malware/iocs.py).
THEOREM TriageAlwaysSteady ==
  ASSUME NEW values, NEW sample, TriageSample(sample, values), NEW more \in Texts(values),
         NEW knowledge, Knowing(knowledge), NEW limit \in Nat
  PROVE  TriageSteady(sample, more, knowledge, limit)
<1> DEFINE strings == sample.strings
           listed == Indicators(strings, limit)
           further == strings \o <<more>>
           longer == Indicators(further, limit)
           extended == [sample EXCEPT !.strings = @ \o <<more>>]
           score == Score(sample, knowledge, limit)
           report == Report(sample, knowledge, limit, "none")
<1>1. strings \in Seq(Texts(values))
  BY DEF TriageSample
<1>2. /\ listed \in Seq(KindNames \X values) /\ Len(listed) <= limit
      /\ \A i, j \in DOMAIN listed :
            i < j => /\ listed[i] # listed[j]
                     /\ ~(/\ listed[i][1] \in {"url", "email"} /\ listed[j][1] = "domain"
                          /\ Host(listed[i][2]) = Host(listed[j][2]))
  <2> HIDE DEF strings
  <2> QED
    BY <1>1, IndicatorsFacts
<1>3. /\ longer \in Seq(KindNames \X values)
      /\ Len(listed) <= Len(longer)
      /\ \A i \in 1..Len(listed) : longer[i] = listed[i]
  <2> HIDE DEF strings
  <2> QED
    BY <1>1, IndicatorsGrow
<1>4. /\ extended.strings = further /\ extended.imports = sample.imports
      /\ extended.patterns = sample.patterns /\ extended.packing = sample.packing
  <2>1. extended = [strings |-> further, imports |-> sample.imports,
                    patterns |-> sample.patterns, packing |-> sample.packing]
    BY DEF TriageSample
  <2> QED
    BY <2>1
<1>5. \A s : Score(s, knowledge, limit) = Scored(s, knowledge, Indicators(s.strings, limit))
  BY Zenon DEF Score, Scored, CapabilityPoints, RulePoints
<1>6. Score(extended, knowledge, limit) = Scored(sample, knowledge, longer)
  <2>1. Scored(extended, knowledge, longer) = Scored(sample, knowledge, longer)
    BY <1>4 DEF Scored, CapabilityPoints, RulePoints
  <2> QED
    BY <1>4, <1>5, <2>1
<1>7. score = Scored(sample, knowledge, listed)
  BY <1>5
<1>8. /\ report.score = score /\ report.verdict = Verdict(score)
      /\ report.indicators = listed /\ report.packed = Packed(sample.packing)
  BY DEF Report
<1>9. \A ghidra \in {"answer", "detail"} : Static(Report(sample, knowledge, limit, ghidra)) = report
  BY DEF Static, Report
<1> HIDE DEF listed, longer, extended, score, report
<1>10. score \in 0..100
  BY <1>2, <1>7, ScoredFacts
<1>11. Score(extended, knowledge, limit) >= score
  <2>1. listed \in Seq(KindNames \X values) /\ longer \in Seq(KindNames \X values)
    BY <1>2, <1>3
  <2>2. Len(listed) <= Len(longer) /\ \A i \in 1..Len(listed) : longer[i] = listed[i]
    BY <1>3
  <2>3. Scored(sample, knowledge, longer) >= Scored(sample, knowledge, listed)
    BY <2>1, <2>2, ScoredGrows
  <2> QED
    BY <1>6, <1>7, <2>3
<1>12. (/\ sample.imports = {} /\ sample.patterns = {} /\ ~report.packed
        /\ \A i, j \in DOMAIN listed : listed[i][1] = listed[j][1])
         => report.verdict \in {"benign", "low risk"}
  <2> SUFFICES ASSUME sample.imports = {}, sample.patterns = {}, ~report.packed,
                      \A i, j \in DOMAIN listed : listed[i][1] = listed[j][1]
               PROVE  report.verdict \in {"benign", "low risk"}
    OBVIOUS
  <2>1. ~Packed(sample.packing)
    BY <1>8
  <2>2. Scored(sample, knowledge, listed) <= 12
    BY <1>2, <2>1, ScoredFacts
  <2>3. ~(score >= 60) /\ ~(score >= 35)
    BY <1>7, <1>10, <2>2
  <2> QED
    BY <1>8, <2>3 DEF Verdict
<1>13. IsPrefix(listed, longer)
  <2>1. Len(listed) \in Nat /\ Len(longer) \in Nat
    BY <1>2, <1>3
  <2>2. SubSeq(listed, 1, Len(listed)) = SubSeq(longer, 1, Len(listed))
    BY <1>2, <1>3, <2>1
  <2> QED
    BY <1>3, <2>2 DEF IsPrefix
<1>14. Indicators(extended.strings, limit) = longer
  BY <1>4 DEF longer
<1> QED
  BY <1>2, <1>8, <1>9, <1>10, <1>11, <1>12, <1>13, <1>14, Zenon
     DEF TriageSteady, report, extended

-----------------------------------------------------------------------------
(* The questions of the runs *)

\* The texts of the reports that the runs enumerate.
Words == {Unknown, "app", "run", "dll", "any", "public", "none", "X", "W", TRUE, "tcp", "udp"}

\* What the questions are that the runs enumerate.
Enumerated(q) ==
    /\ q.kind = "memory" =>
          Reported(q.reports, Words) /\ Limited(q.limits) /\ q.secret \in Nat
    /\ q.kind = "decompilers" => q.outcomes \in [Tools -> Outcomes]
    /\ q.kind = "plugins" => q.outcomes \in [{"pslist", "netscan"} -> Outcomes]
    /\ q.kind = "database" =>
          /\ q.revision \in Revisions /\ q.by \in {"models", "migrations"}
          /\ q.started \in 0..6 /\ q.crash \in BOOLEAN

\* Lists of at most two rows are lists of rows, and so are lists of at most one.
LEMMA ShortSequences ==
  ASSUME NEW S, NEW T, S \subseteq T
  PROVE  UpTo2(S) \subseteq Seq(T)
<1> SUFFICES ASSUME NEW list \in UpTo2(S) PROVE list \in Seq(T)
  BY Zenon
<1>1. CASE list = <<>>
  BY <1>1
<1>2. ASSUME NEW r \in S, list = <<r>> PROVE list \in Seq(T)
  <2>1. r \in T
    BY Zenon
  <2> QED
    BY <2>1, <1>2
<1>3. ASSUME NEW r \in S, NEW s \in S, list = <<r, s>> PROVE list \in Seq(T)
  <2>1. r \in T /\ s \in T
    BY Zenon
  <2> QED
    BY <2>1, <1>3
<1>4. \/ list = <<>>
      \/ \E r \in S : list = <<r>>
      \/ \E r, s \in S : list = <<r, s>>
  BY DEF UpTo2
<1> QED
  BY Zenon, <1>1, <1>2, <1>3, <1>4

LEMMA AtMostOne ==
  ASSUME NEW S, NEW T, S \subseteq T
  PROVE  {<<>>} \cup {<<r>> : r \in S} \subseteq Seq(T)
<1> SUFFICES ASSUME NEW list \in {<<>>} \cup {<<r>> : r \in S} PROVE list \in Seq(T)
  BY Zenon
<1>1. CASE list = <<>>
  BY <1>1
<1>2. ASSUME NEW r \in S, list = <<r>> PROVE list \in Seq(T)
  <2>1. r \in T
    BY Zenon
  <2> QED
    BY <2>1, <1>2
<1> QED
  BY Zenon, <1>1, <1>2

\* The limits of the runs are limits, and their reports start from none.
LEMMA LimitsAreLimits == Limited(Roomy) /\ Limited(Cramped)
BY DEF Limited, Roomy, Cramped

LEMMA NothingReported ==
  /\ DOMAIN NoReports = Plugins
  /\ \A p \in Plugins : NoReports[p].rows = <<>>
BY DEF NoReports

\* The reports of processes and of findings that the runs enumerate are reports.
LEMMA ProcessReports ==
  ASSUME NEW listed \in UpTo2(ListRows),
         NEW tree \in {<<>>} \cup {<<r>> : r \in TreeRows},
         NEW commands \in CommandRows, NEW completed
  PROVE  Reported([NoReports EXCEPT !["pslist"] = Done(listed),
                                    !["pstree"] = [completed |-> completed, rows |-> tree],
                                    !["cmdline"] = Done(commands)], Words)
<1> DEFINE reports == [NoReports EXCEPT !["pslist"] = Done(listed),
                                        !["pstree"] = [completed |-> completed, rows |-> tree],
                                        !["cmdline"] = Done(commands)]
<1>1. /\ reports["pslist"].rows = listed /\ reports["pstree"].rows = tree
      /\ reports["cmdline"].rows = commands
      /\ \A p \in Plugins \ {"pslist", "pstree", "cmdline"} : reports[p].rows = <<>>
  BY NothingReported DEF Done, Plugins
<1> HIDE DEF reports
<1>2. ListRows \subseteq RowsOf("pslist", Words)
  <2>1. RowsOf("pslist", Words) = [pid : Number, ppid : Number, name : Words, command : Words]
    BY DEF RowsOf
  <2>2. ASSUME NEW pid \in {1, 2}, NEW ppid \in {Unknown, 0, 2, 3}
        PROVE  Row(pid, ppid, "app", Unknown)
                 \in [pid : Number, ppid : Number, name : Words, command : Words]
    BY DEF Row, Number, Words
  <2>3. Row(-1, 0, "app", Unknown)
          \in [pid : Number, ppid : Number, name : Words, command : Words]
    BY DEF Row, Number, Words
  <2> SUFFICES ASSUME NEW row \in ListRows PROVE row \in RowsOf("pslist", Words)
    BY Zenon
  <2>4. \/ \E pid \in {1, 2}, ppid \in {Unknown, 0, 2, 3} : row = Row(pid, ppid, "app", Unknown)
        \/ row = Row(-1, 0, "app", Unknown)
    BY DEF ListRows
  <2>5. row \in [pid : Number, ppid : Number, name : Words, command : Words]
    BY Zenon, <2>2, <2>3, <2>4
  <2> QED
    BY Zenon, <2>1, <2>5
<1>3. TreeRows \subseteq RowsOf("pstree", Words)
  <2>1. RowsOf("pstree", Words) = [pid : Number, ppid : Number, name : Words, command : Words]
    BY DEF RowsOf
  <2>2. ASSUME NEW pid \in {1, 3}, NEW ppid \in {Unknown, 2}, NEW command \in {Unknown, "run"}
        PROVE  Row(pid, ppid, Unknown, command)
                 \in [pid : Number, ppid : Number, name : Words, command : Words]
    <3>1. pid \in Number /\ ppid \in Number
      BY DEF Number
    <3>2. Unknown \in Words /\ command \in Words
      BY DEF Words
    <3> QED
      BY <3>1, <3>2 DEF Row
  <2> SUFFICES ASSUME NEW row \in TreeRows PROVE row \in RowsOf("pstree", Words)
    BY Zenon
  <2>3. \E pid \in {1, 3}, ppid \in {Unknown, 2}, command \in {Unknown, "run"} :
          row = Row(pid, ppid, Unknown, command)
    BY DEF TreeRows
  <2>4. row \in [pid : Number, ppid : Number, name : Words, command : Words]
    BY Zenon, <2>2, <2>3
  <2> QED
    BY Zenon, <2>1, <2>4
<1>4. listed \in Seq(RowsOf("pslist", Words))
  BY <1>2, ShortSequences
<1>5. tree \in Seq(RowsOf("pstree", Words))
  BY <1>3, AtMostOne
<1>6. commands \in Seq(RowsOf("cmdline", Words))
  <2>1. RowsOf("cmdline", Words) = [pid : Number, name : Words, command : Words]
    BY DEF RowsOf
  <2>2. [pid |-> 2, name |-> "app", command |-> "run"] \in RowsOf("cmdline", Words)
    <3>1. [pid |-> 2, name |-> "app", command |-> "run"]
            \in [pid : Number, name : Words, command : Words]
      BY DEF Number, Words
    <3> QED
      BY Zenon, <2>1, <3>1
  <2>3. CASE commands = <<>>
    BY <2>3
  <2>4. CASE commands = <<[pid |-> 2, name |-> "app", command |-> "run"]>>
    BY <2>2, <2>4
  <2> QED
    BY <2>3, <2>4 DEF CommandRows
<1>7. ASSUME NEW p \in Plugins
      PROVE  reports[p].rows \in Seq(RowsOf(p, Words))
  <2>1. CASE p = "pslist"
    BY <1>1, <1>4, <2>1
  <2>2. CASE p = "pstree"
    BY <1>1, <1>5, <2>2
  <2>3. CASE p = "cmdline"
    BY <1>1, <1>6, <2>3
  <2>4. CASE p \in Plugins \ {"pslist", "pstree", "cmdline"}
    <3>1. reports[p].rows = <<>>
      BY <1>1, <2>4
    <3> QED
      BY <3>1
  <2> QED
    BY <2>1, <2>2, <2>3, <2>4
<1>8. Unknown \in Words
  BY DEF Words
<1> QED
  BY <1>7, <1>8 DEF Reported, reports

LEMMA FindingReports ==
  ASSUME NEW regions \in UpTo2(Regions),
         NEW threads \in {<<>>} \cup {<<t>> : t \in ThreadRows},
         NEW endpoints \in Endpoints
  PROVE  Reported([NoReports EXCEPT !["vadinfo"] = Done(regions),
                                    !["threads"] = Done(threads),
                                    !["netscan"] = Done(endpoints)], Words)
<1> DEFINE reports == [NoReports EXCEPT !["vadinfo"] = Done(regions),
                                        !["threads"] = Done(threads),
                                        !["netscan"] = Done(endpoints)]
<1>1. /\ reports["vadinfo"].rows = regions /\ reports["threads"].rows = threads
      /\ reports["netscan"].rows = endpoints
      /\ \A p \in Plugins \ {"vadinfo", "threads", "netscan"} : reports[p].rows = <<>>
  BY NothingReported DEF Done, Plugins
<1> HIDE DEF reports
<1>2. Regions \subseteq RowsOf("vadinfo", Words)
  BY DEF Regions, Region, RowsOf, Words, Number
<1>3. ThreadRows \subseteq RowsOf("threads", Words)
  <2>1. RowsOf("threads", Words)
          = [pid : Number, tid : Number, name : Words, kernel : Number, win32 : Number]
    BY DEF RowsOf
  <2>2. ASSUME NEW pid \in {1, 2}, NEW kernel \in {Unknown, 4}, NEW win32 \in {Unknown, 3, 6}
        PROVE  [pid |-> pid, tid |-> 1, name |-> Unknown, kernel |-> kernel, win32 |-> win32]
                 \in [pid : Number, tid : Number, name : Words, kernel : Number,
                      win32 : Number]
    BY DEF Number, Words
  <2> SUFFICES ASSUME NEW row \in ThreadRows PROVE row \in RowsOf("threads", Words)
    BY Zenon
  <2>3. \E pid \in {1, 2}, kernel \in {Unknown, 4}, win32 \in {Unknown, 3, 6} :
          row = [pid |-> pid, tid |-> 1, name |-> Unknown, kernel |-> kernel, win32 |-> win32]
    BY DEF ThreadRows
  <2>4. row \in [pid : Number, tid : Number, name : Words, kernel : Number, win32 : Number]
    BY Zenon, <2>2, <2>3
  <2> QED
    BY Zenon, <2>1, <2>4
<1>4. regions \in Seq(RowsOf("vadinfo", Words))
  BY <1>2, ShortSequences
<1>5. threads \in Seq(RowsOf("threads", Words))
  BY <1>3, AtMostOne
<1>6. \A protocol \in {"tcp", "udp"}, port \in {0, 80}, name \in {Unknown, "app"} :
        Endpoint(protocol, port, name) \in RowsOf("netscan", Words)
  <2>1. RowsOf("netscan", Words)
          = [protocol : Words, pid : Number, name : Words, local : Words,
             localPort : Number, remote : Words, global : BOOLEAN, port : Number,
             listening : BOOLEAN]
    BY DEF RowsOf
  <2> SUFFICES ASSUME NEW protocol \in {"tcp", "udp"}, NEW port \in {0, 80},
                      NEW name \in {Unknown, "app"}
               PROVE  Endpoint(protocol, port, name) \in RowsOf("netscan", Words)
    OBVIOUS
  <2>2. /\ protocol \in Words /\ name \in Words /\ "any" \in Words /\ "none" \in Words
        /\ "public" \in Words
    BY DEF Words
  <2>3. port \in Number /\ 1 \in Number /\ (port = 0) \in BOOLEAN /\ (port # 0) \in BOOLEAN
    BY DEF Number
  <2>4. (IF port = 0 THEN "none" ELSE "public") \in Words
    BY <2>2
  <2> QED
    BY <2>1, <2>2, <2>3, <2>4 DEF Endpoint
<1>7. endpoints \in Seq(RowsOf("netscan", Words))
  <2>1. /\ Endpoint("tcp", 80, "app") \in RowsOf("netscan", Words)
        /\ Endpoint("udp", 80, "app") \in RowsOf("netscan", Words)
        /\ Endpoint("tcp", 0, Unknown) \in RowsOf("netscan", Words)
    BY <1>6
  <2>2. CASE endpoints = <<>>
    BY <2>2
  <2>3. CASE endpoints = <<Endpoint("tcp", 80, "app"), Endpoint("tcp", 80, "app")>>
    BY <2>1, <2>3
  <2>4. CASE endpoints = <<Endpoint("tcp", 80, "app"), Endpoint("udp", 80, "app")>>
    BY <2>1, <2>4
  <2>5. CASE endpoints = <<Endpoint("tcp", 80, "app"), Endpoint("tcp", 0, Unknown)>>
    BY <2>1, <2>5
  <2> QED
    BY <2>2, <2>3, <2>4, <2>5 DEF Endpoints
<1>8. ASSUME NEW p \in Plugins
      PROVE  reports[p].rows \in Seq(RowsOf(p, Words))
  <2>1. CASE p = "vadinfo"
    BY <1>1, <1>4, <2>1
  <2>2. CASE p = "threads"
    BY <1>1, <1>5, <2>2
  <2>3. CASE p = "netscan"
    BY <1>1, <1>7, <2>3
  <2>4. CASE p \in Plugins \ {"vadinfo", "threads", "netscan"}
    <3>1. reports[p].rows = <<>>
      BY <1>1, <2>4
    <3> QED
      BY <3>1
  <2> QED
    BY <2>1, <2>2, <2>3, <2>4
<1>9. Unknown \in Words
  BY DEF Words
<1> QED
  BY <1>8, <1>9 DEF Reported, reports

\* The questions of a binary, which are typed further down.
OtherKinds == {"disassembly", "region", "pages", "functions", "heuristics", "triage"}

LEMMA RunsEnumerate == Spec => []Enumerated(question)
<1>1. Init => Enumerated(question)
  BY DEF Init, None, Enumerated
<1>2. Enumerated(question) /\ [Next]_vars => Enumerated(question)'
  <2> SUFFICES ASSUME Enumerated(question), [Next]_vars PROVE Enumerated(question)'
    OBVIOUS
  <2>1. ASSUME UNCHANGED question PROVE Enumerated(question)'
    BY <2>1 DEF Enumerated
  <2>2. ASSUME NEW q, Ask(q), Enumerated(q) PROVE Enumerated(question)'
    BY <2>2 DEF Ask
  <2>3. CASE Binaries
    <3>1. ASSUME AskListings \/ AskFunctions \/ AskHeuristics \/ AskTriage
          PROVE  \E q : Ask(q) /\ q.kind \in OtherKinds
      <4> USE DEF OtherKinds
      <4>1. CASE AskListings
        <5>1. CASE \E sections \in Sections, entry \in {0, 2, 6}, address \in Given,
                      count \in {{}, {0}, {2}}, limit \in 1..3 :
                     Ask([kind |-> "disassembly", sections |-> sections, entry |-> entry,
                          address |-> address, count |-> count, limit |-> limit])
          BY <5>1
        <5>2. CASE \E size \in {0, 1, 15, 16, 17, 33}, offset, count \in -1..3, limit \in 1..3 :
                     Ask([kind |-> "region", size |-> size, offset |-> offset,
                          count |-> count, limit |-> limit])
          BY <5>2
        <5>3. CASE \E list \in UNION {[1..n -> [a : BOOLEAN, b : BOOLEAN]] : n \in 0..3},
                      filters \in SUBSET {"a", "b"}, limit \in 1..3 :
                     Ask([kind |-> "pages", list |-> list, filters |-> filters,
                          limit |-> limit])
          BY <5>3
        <5> QED
          BY Zenon, <4>1, <5>1, <5>2, <5>3 DEF AskListings
      <4>2. CASE AskFunctions
        BY <4>2 DEF AskFunctions
      <4>3. CASE AskHeuristics
        BY <4>3 DEF AskHeuristics
      <4>4. CASE AskTriage
        BY <4>4 DEF AskTriage
      <4> QED
        BY <3>1, <4>1, <4>2, <4>3, <4>4
    <3> QED
      BY <2>2, <2>3, <3>1 DEF Binaries, Enumerated, OtherKinds
  <2>4. CASE Outside
    <3>1. ASSUME AskDatabase
          PROVE  \E q : Ask(q) /\ Enumerated(q)
      <4>1. PICK r \in Revisions, by \in {"models", "migrations"}, started \in 0..Latest,
                 crash \in BOOLEAN :
              Ask([kind |-> "database", revision |-> r, by |-> by, started |-> started,
                   crash |-> crash])
        BY <3>1 DEF AskDatabase
      <4>2. Enumerated([kind |-> "database", revision |-> r, by |-> by, started |-> started,
                        crash |-> crash])
        BY DEF Enumerated, Latest
      <4> QED
        BY <4>1, <4>2
    <3>4. ASSUME AskTools
          PROVE  \E q : Ask(q) /\ Enumerated(q)
      <4>1. CASE \E outcomes \in [Tools -> Outcomes] :
                   Ask([kind |-> "decompilers", outcomes |-> outcomes])
        <5>1. PICK outcomes \in [Tools -> Outcomes] :
                Ask([kind |-> "decompilers", outcomes |-> outcomes])
          BY <4>1
        <5>2. Enumerated([kind |-> "decompilers", outcomes |-> outcomes])
          BY DEF Enumerated
        <5> QED
          BY <5>1, <5>2
      <4>2. CASE \E outcomes \in [{"pslist", "netscan"} -> Outcomes] :
                   Ask([kind |-> "plugins", outcomes |-> outcomes])
        <5>1. PICK outcomes \in [{"pslist", "netscan"} -> Outcomes] :
                Ask([kind |-> "plugins", outcomes |-> outcomes])
          BY <4>2
        <5>2. Enumerated([kind |-> "plugins", outcomes |-> outcomes])
          BY DEF Enumerated
        <5> QED
          BY <5>1, <5>2
      <4> QED
        BY Zenon, <3>4, <4>1, <4>2 DEF AskTools
    <3>2. ASSUME AskFindings
          PROVE  \E q : Ask(q) /\ Enumerated(q)
      <4>1. PICK regions \in UpTo2(Regions), threads \in {<<>>} \cup {<<t>> : t \in ThreadRows},
                 endpoints \in Endpoints, limits \in {Roomy, Cramped}, secret \in 0..1 :
              Ask([kind |-> "memory", limits |-> limits, secret |-> secret,
                   reports |-> [NoReports EXCEPT !["vadinfo"] = Done(regions),
                                                 !["threads"] = Done(threads),
                                                 !["netscan"] = Done(endpoints)]])
        BY <3>2 DEF AskFindings
      <4> DEFINE reports == [NoReports EXCEPT !["vadinfo"] = Done(regions),
                                              !["threads"] = Done(threads),
                                              !["netscan"] = Done(endpoints)]
      <4>2. Reported(reports, Words)
        BY FindingReports
      <4> HIDE DEF reports
      <4>3. Enumerated([kind |-> "memory", limits |-> limits, secret |-> secret,
                         reports |-> reports])
        BY <4>2, LimitsAreLimits DEF Enumerated
      <4> QED
        BY <4>1, <4>3 DEF reports
    <3>3. ASSUME AskProcesses
          PROVE  \E q : Ask(q) /\ Enumerated(q)
      <4>1. PICK listed \in UpTo2(ListRows), tree \in {<<>>} \cup {<<r>> : r \in TreeRows},
                 commands \in CommandRows, completed \in BOOLEAN, limits \in {Roomy, Cramped} :
              Ask([kind |-> "memory", limits |-> limits, secret |-> 0,
                   reports |-> [NoReports EXCEPT !["pslist"] = Done(listed),
                                                 !["pstree"] = [completed |-> completed, rows |-> tree],
                                                 !["cmdline"] = Done(commands)]])
        BY <3>3 DEF AskProcesses
      <4> DEFINE reports == [NoReports EXCEPT !["pslist"] = Done(listed),
                                              !["pstree"] = [completed |-> completed, rows |-> tree],
                                              !["cmdline"] = Done(commands)]
      <4>2. Reported(reports, Words)
        BY ProcessReports
      <4> HIDE DEF reports
      <4>3. Enumerated([kind |-> "memory", limits |-> limits, secret |-> 0, reports |-> reports])
        BY <4>2, LimitsAreLimits DEF Enumerated
      <4> QED
        BY <4>1, <4>3 DEF reports
    <3> QED
      BY <2>2, <2>4, <3>1, <3>2, <3>3, <3>4 DEF Outside
  <2>5. CASE Cache \/ Overlay \/ UNCHANGED vars
    BY <2>1, <2>5 DEF Cache, Overlay, vars
  <2> QED
    BY <2>3, <2>4, <2>5 DEF Next
<1> QED
  BY <1>1, <1>2, PTL DEF Spec

\* The memory analyses that the runs ask for follow from what the plugins reported
\* (memory/volatility.py, memory/analyzer.py).
THEOREM RunsMemoryFaithful == Spec => []MemoryFaithful
<1>1. Enumerated(question) => MemoryFaithful
  BY EveryMemoryFaithful DEF Enumerated, Asked
<1> QED
  BY <1>1, RunsEnumerate, PTL

\* In the runs a result comes only of a tool that worked, the first one asked that did,
\* and of the file asked for (decompiler/registry.py, integrations/).
THEOREM RunsToolsDegrade == Spec => []ToolsDegrade
<1>1. ASSUME Enumerated(question)
      PROVE  ToolsDegrade
  <2>1. ASSUME Asked("decompilers")
        PROVE  DecompilationInOrder(question.outcomes)
    BY <1>1, <2>1, DecompilationAlwaysInOrder DEF Enumerated, Asked
  <2>2. ASSUME Asked("plugins")
        PROVE  /\ PluginsAccounted(question.outcomes)
               /\ NoResultWithoutRun(question.outcomes["pslist"])
    <3>1. question.outcomes \in [{"pslist", "netscan"} -> Outcomes]
      BY <1>1, <2>2 DEF Enumerated, Asked
    <3>2. question.outcomes["pslist"] \in Outcomes
      BY <3>1
    <3> QED
      BY <3>1, <3>2, PluginsAlwaysAccounted, NeverResultWithoutRun
  <2> QED
    BY <2>1, <2>2, Zenon DEF ToolsDegrade
<1> QED
  BY <1>1, RunsEnumerate, PTL

\* The databases of the runs are brought to the current schema or left alone
\* (database/migrate.py).
THEOREM RunsSchemaAdopted == Spec => []SchemaAdopted
<1>1. Enumerated(question) => SchemaAdopted
  BY EveryDatabaseAdopted DEF Enumerated, Asked, SchemaAdopted
<1> QED
  BY <1>1, RunsEnumerate, PTL

-----------------------------------------------------------------------------
(* The questions of a binary *)

\* The matches in the strings that the runs enumerate.
Matched == {"http://a", "http://a?q", "x@a", "a", "c", "d", "e"}

\* The questions of a binary ask what can be asked of one.
Asks(q) ==
    /\ q.kind = "functions" => Binary(q.binary) /\ LimitsOfFunctions(q.limits)
    /\ q.kind = "disassembly" =>
          /\ q.sections \in CodeSections /\ q.entry \in Nat
          /\ q.address \in Optional(Nat) /\ q.count \in Optional(Int) /\ q.limit \in Nat \ {0}
    /\ q.kind = "region" =>
          q.size \in Nat /\ q.offset \in Int /\ q.count \in Int /\ q.limit \in Nat \ {0}
    /\ q.kind = "pages" => q.list \in Seq([a : BOOLEAN, b : BOOLEAN]) /\ q.limit \in Nat \ {0}
    /\ q.kind = "triage" => TriageSample(q.sample, Matched)
    /\ q.kind = "heuristics" => FlowSample(q.sample) /\ q.sample.packed \in BOOLEAN

LEMMA FunctionsAreLists ==
  ASSUME NEW S, NEW n \in Nat, NEW list \in [1..n -> S]
  PROVE  list \in Seq(S) /\ Len(list) = n
OBVIOUS

LEMMA FirstCodeDecodes ==
  /\ FirstCode \subseteq Decodable /\ Return1 \in Decodable /\ Calls(4) \in Decodable
<1> DEFINE I(groups, target) == Make(groups, "other", target)
<1>1. ASSUME NEW groups \in SUBSET {"jump", "call", "return"}, NEW target \in SUBSET Nat,
             target = {} \/ \E t \in Nat : target = {t}
      PROVE  I(groups, target) \in Decodable
  BY <1>1 DEF Make, Decodable, Instruction
<1> HIDE DEF I
<1>2. /\ Plain = I({}, {}) /\ Return1 = I({"return"}, {})
      /\ \A a : Calls(a) = I({"jump", "call"}, {a}) /\ Branch(a) = I({"jump"}, {a})
  BY DEF I, Plain, Return1, Calls, Branch
<1>3. Plain \in Decodable /\ Return1 \in Decodable
  BY <1>1, <1>2
<1>4. ASSUME NEW a \in Nat PROVE Calls(a) \in Decodable /\ Branch(a) \in Decodable
  <2>1. {a} \in SUBSET Nat
    OBVIOUS
  <2> QED
    BY <1>1, <1>2, <2>1
<1>5. /\ Calls(4) \in Decodable /\ Calls(5) \in Decodable /\ Calls(6) \in Decodable
      /\ Calls(20) \in Decodable /\ Branch(8) \in Decodable
  BY <1>4
<1> QED
  BY <1>3, <1>5, Zenon DEF FirstCode

LEMMA SweptBinaries ==
  ASSUME NEW first \in [1..4 -> FirstCode], NEW code \in {<<Return1>>, <<Calls(4), Return1>>},
         NEW symbols \in {{8}, {24}}
  PROVE  Binary([entry |-> 2, symbols |-> symbols,
                 sections |-> <<[base |-> 2, size |-> 8, code |-> first],
                                [base |-> 20, size |-> 6, code |-> code]>>])
<1> DEFINE s == [base |-> 2, size |-> 8, code |-> first]
           t == [base |-> 20, size |-> 6, code |-> code]
           b == [entry |-> 2, symbols |-> symbols, sections |-> <<s, t>>]
<1>1. first \in Seq(Decodable) /\ Len(first) = 4
  <2>1. first \in [1..4 -> Decodable]
    BY FirstCodeDecodes
  <2> QED
    BY <2>1, FunctionsAreLists, 4 \in Nat
<1>2. code \in Seq(Decodable) /\ Len(code) <= 2
  <2> DEFINE x == Return1
             y == Calls(4)
             D == Decodable
  <2>1. x \in D /\ y \in D /\ (code = <<x>> \/ code = <<y, x>>)
    BY FirstCodeDecodes
  <2> HIDE DEF x, y, D
  <2>2. <<x>> \in Seq(D) /\ <<y, x>> \in Seq(D)
    BY <2>1
  <2>3. code \in Seq(D)
    BY <2>1, <2>2
  <2>4. CASE code = <<x>>
    <3>1. Len(code) = 1
      BY <2>4
    <3> QED
      BY <2>3, <3>1 DEF D
  <2>5. CASE code = <<y, x>>
    <3>1. Len(code) = 2
      BY <2>5
    <3> QED
      BY <2>3, <3>1 DEF D
  <2> QED
    BY <2>1, <2>4, <2>5
<1>3. s \in SweptSections /\ t \in SweptSections
  <2>1. 2 * Len(first) <= 8 /\ 2 * Len(code) <= 6
    BY <1>1, <1>2
  <2> QED
    BY <1>1, <1>2, <2>1 DEF SweptSections
<1>4. End(s) = 10 /\ t.base = 20
  <2>1. s.base = 2 /\ s.size = 8 /\ t.base = 20
    OBVIOUS
  <2> HIDE DEF s, t
  <2>2. End(s) = 2 + 8
    BY <2>1 DEF End
  <2> QED
    BY <2>1, <2>2
<1> HIDE DEF s, t
<1>5. <<s, t>> \in Seq(SweptSections)
  BY <1>3
<1>6. ASSUME NEW i \in 1..2, NEW j \in 1..2, i < j
      PROVE  End(<<s, t>>[i]) <= <<s, t>>[j].base
  <2>1. i = 1 /\ j = 2
    BY <1>6
  <2> QED
    BY <1>4, <2>1
<1>7. b.entry = 2 /\ b.symbols = symbols /\ b.sections = <<s, t>> /\ DOMAIN <<s, t>> = 1..2
  OBVIOUS
<1>8. symbols \in SUBSET Nat /\ IsFiniteSet(symbols)
  <2>1. IsFiniteSet({8}) /\ IsFiniteSet({24})
    BY FS_Singleton
  <2>2. symbols = {8} \/ symbols = {24}
    OBVIOUS
  <2> QED
    BY <2>1, <2>2
<1> HIDE DEF b
<1>9. Binary(b)
  BY <1>5, <1>6, <1>7, <1>8 DEF Binary
<1> QED
  BY <1>9 DEF b, s, t

LEMMA SweptLimits ==
  LimitsOfFunctions(Tight) /\ LimitsOfFunctions(Whole) /\ LimitsOfFunctions(Short)
BY DEF LimitsOfFunctions, Tight, Whole, Short

LEMMA ListedSections ==
  ASSUME NEW sections \in Sections
  PROVE  sections \in CodeSections
<1>1. PICK size \in {0, 3}, stored \in {0, 2, 3}, code \in BOOLEAN :
        sections = <<[base |-> 1, size |-> size, stored |-> Min({size, stored}), code |-> TRUE],
                     [base |-> 5, size |-> 2, stored |-> 2, code |-> code]>>
  BY DEF Sections
<1> DEFINE m == Min({size, stored})
           s == [base |-> 1, size |-> size, stored |-> m, code |-> TRUE]
           t == [base |-> 5, size |-> 2, stored |-> 2, code |-> code]
           S == [base : Nat, size : Nat, stored : Nat, code : BOOLEAN]
<1>2. m = IF size <= stored THEN size ELSE stored
  BY MinOfTwo, size \in Int, stored \in Int
<1>3. sections = <<s, t>>
  BY <1>1
<1> HIDE DEF m
<1>4. m \in Nat /\ m <= size /\ size \in Nat
  BY <1>2
<1>5. s \in S /\ t \in S
  BY <1>4
<1>6. s.stored <= s.size /\ t.stored <= t.size
  BY <1>4
<1> HIDE DEF s, t, S
<1>7. <<s, t>> \in Seq(S) /\ DOMAIN <<s, t>> = 1..2
  BY <1>5
<1>8. \A i \in 1..2 : <<s, t>>[i].stored <= <<s, t>>[i].size
  <2>1. \A i \in 1..2 : i = 1 \/ i = 2
    OBVIOUS
  <2> QED
    BY <1>6, <2>1
<1> QED
  BY <1>3, <1>7, <1>8 DEF CodeSections, S

LEMMA TriagedStrings ==
  /\ Further \subseteq Texts(Matched)
  /\ \A strings \in UNION {[1..n -> Strings] : n \in 0..2} : strings \in Seq(Texts(Matched))
<1>1. [url |-> "http://a"] \in Texts(Matched)
  BY DEF Texts, Matched, KindNames
<1>2. [email |-> "x@a"] \in Texts(Matched)
  BY DEF Texts, Matched, KindNames
<1>3. [domain |-> "a"] \in Texts(Matched)
  BY DEF Texts, Matched, KindNames
<1>4. [url |-> "http://a", domain |-> "a"] \in Texts(Matched)
  BY DEF Texts, Matched, KindNames
<1>4a. [url |-> "http://a?q", domain |-> "a"] \in Texts(Matched)
  BY DEF Texts, Matched, KindNames
<1>5. [filepath |-> "c"] \in Texts(Matched)
  BY DEF Texts, Matched, KindNames
<1>6. [url |-> "d"] \in Texts(Matched)
  BY DEF Texts, Matched, KindNames
<1>7. [url |-> "e"] \in Texts(Matched)
  BY DEF Texts, Matched, KindNames
<1>8. Strings \subseteq Texts(Matched)
  <2> DEFINE T == Texts(Matched)
  <2> HIDE DEF T
  <2> QED
    BY <1>1, <1>2, <1>3, <1>4, <1>4a, <1>5, <1>6, Zenon DEF Strings, T
<1>9. Further \subseteq Texts(Matched)
  BY <1>7, <1>8, Zenon DEF Further
<1>10. ASSUME NEW n \in 0..2, NEW strings \in [1..n -> Strings]
       PROVE  strings \in Seq(Texts(Matched))
  <2>1. strings \in [1..n -> Texts(Matched)]
    BY <1>8
  <2> QED
    BY <2>1, FunctionsAreLists, n \in Nat
<1> QED
  BY <1>9, <1>10

LEMMA KnowledgeIsKnown == Knowing(Knowledge)
<1> DEFINE a == [severity |-> "high", apis |-> {"inject"}]
           b == [severity |-> "critical", apis |-> {"inject", "hook"}]
           c == [severity |-> "critical", patterns |-> {"m", "n"}, minimum |-> 2]
<1>1. a.severity \in RuleSeverities /\ b.severity \in RuleSeverities /\ c.severity \in RuleSeverities
      /\ c.minimum = 2
  BY DEF RuleSeverities
<1>2. Knowledge.capabilities = <<a, b>> /\ Knowledge.signatures = <<c>>
  BY DEF Knowledge
<1> HIDE DEF a, b, c
<1>3. /\ DOMAIN <<a, b>> = 1..2 /\ Len(<<a, b>>) = 2 /\ <<a, b>>[1] = a /\ <<a, b>>[2] = b
      /\ DOMAIN <<c>> = 1..1 /\ Len(<<c>>) = 1 /\ <<c>>[1] = c
  OBVIOUS
<1>4. (\A r \in 1..2 : r = 1 \/ r = 2) /\ (\A r \in 1..1 : r = 1)
  OBVIOUS
<1>5. Ruled(<<a, b>>)
  BY <1>1, <1>3, <1>4 DEF Ruled
<1>6. Ruled(<<c>>)
  BY <1>1, <1>3, <1>4 DEF Ruled
<1>7. \A r \in 1..Len(<<c>>) : <<c>>[r].minimum \in Nat \ {0}
  BY <1>1, <1>3, <1>4
<1> QED
  BY <1>2, <1>5, <1>6, <1>7 DEF Knowing

LEMMA FlowFunctions ==
  ASSUME NEW f \in FunctionKinds(1), NEW g \in FunctionKinds(2), NEW h \in FunctionKinds(3),
         NEW sample, sample.entry = 1, sample.functions = <<f, g, h>>
  PROVE  FlowSample(sample)
<1> DEFINE H == HeuristicFunctions
<1>1. ASSUME NEW a \in Nat, NEW x \in FunctionKinds(a)
      PROVE  x \in H /\ x.address = a
  <2>1. PICK c \in 0..1, m \in {0, 3}, d \in 0..1 :
          x = [address |-> a, xors |-> c, backward |-> c, immediates |-> m, indirect |-> 0,
               decisions |-> d, callees |-> IF a = 1 THEN {2} ELSE {}]
    BY <1>1 DEF FunctionKinds
  <2>2. (IF a = 1 THEN {2} ELSE {}) \in SUBSET Nat
    OBVIOUS
  <2> QED
    BY <2>1, <2>2 DEF HeuristicFunctions
<1>2. /\ f \in H /\ g \in H /\ h \in H /\ f.address = 1 /\ g.address = 2 /\ h.address = 3
  BY <1>1, 1 \in Nat, 2 \in Nat, 3 \in Nat
<1> HIDE DEF H
<1>3. <<f, g, h>> \in Seq(H) /\ DOMAIN <<f, g, h>> = 1..3
  BY <1>2
<1>4. \A i \in 1..3 : <<f, g, h>>[i].address = i
  <2>1. \A i \in 1..3 : i = 1 \/ i = 2 \/ i = 3
    OBVIOUS
  <2>2. <<f, g, h>>[1] = f /\ <<f, g, h>>[2] = g /\ <<f, g, h>>[3] = h
    OBVIOUS
  <2> QED
    BY <1>2, <2>1, <2>2
<1> QED
  BY <1>3, <1>4 DEF FlowSample, H

LEMMA RunsAsk == Spec => []Asks(question)
<1>1. Init => Asks(question)
  BY DEF Init, None, Asks
<1>2. Asks(question) /\ [Next]_vars => Asks(question)'
  <2> SUFFICES ASSUME Asks(question), [Next]_vars PROVE Asks(question)'
    OBVIOUS
  <2>1. ASSUME UNCHANGED question PROVE Asks(question)'
    BY <2>1 DEF Asks
  <2>2. ASSUME NEW q, Ask(q), Asks(q) PROVE Asks(question)'
    BY <2>2 DEF Ask
  <2>3. CASE Binaries
    <3>1. CASE AskListings
      <4>1. CASE \E sections \in Sections, entry \in {0, 2, 6}, address \in Given,
                    count \in {{}, {0}, {2}}, limit \in 1..3 :
                   Ask([kind |-> "disassembly", sections |-> sections, entry |-> entry,
                        address |-> address, count |-> count, limit |-> limit])
        <5>1. PICK sections \in Sections, entry \in {0, 2, 6}, address \in Given,
                   count \in {{}, {0}, {2}}, limit \in 1..3 :
                Ask([kind |-> "disassembly", sections |-> sections, entry |-> entry,
                     address |-> address, count |-> count, limit |-> limit])
          BY <4>1
        <5>2. sections \in CodeSections
          BY ListedSections
        <5>3. address \in Optional(Nat)
          BY DEF Given, Optional
        <5>4. count \in Optional(Int) /\ entry \in Nat /\ limit \in Nat \ {0}
          BY DEF Optional
        <5>5. Asks([kind |-> "disassembly", sections |-> sections, entry |-> entry,
                    address |-> address, count |-> count, limit |-> limit])
          BY <5>2, <5>3, <5>4 DEF Asks
        <5> QED
          BY <2>2, <5>1, <5>5
      <4>2. CASE \E size \in {0, 1, 15, 16, 17, 33}, offset, count \in -1..3, limit \in 1..3 :
                   Ask([kind |-> "region", size |-> size, offset |-> offset,
                        count |-> count, limit |-> limit])
        <5>1. PICK size \in {0, 1, 15, 16, 17, 33}, offset, count \in -1..3, limit \in 1..3 :
                Ask([kind |-> "region", size |-> size, offset |-> offset,
                     count |-> count, limit |-> limit])
          BY <4>2
        <5>2. Asks([kind |-> "region", size |-> size, offset |-> offset, count |-> count,
                    limit |-> limit])
          BY DEF Asks
        <5> QED
          BY <2>2, <5>1, <5>2
      <4>3. CASE \E list \in UNION {[1..n -> [a : BOOLEAN, b : BOOLEAN]] : n \in 0..3},
                    filters \in SUBSET {"a", "b"}, limit \in 1..3 :
                   Ask([kind |-> "pages", list |-> list, filters |-> filters,
                        limit |-> limit])
        <5>1. PICK list \in UNION {[1..n -> [a : BOOLEAN, b : BOOLEAN]] : n \in 0..3},
                   filters \in SUBSET {"a", "b"}, limit \in 1..3 :
                Ask([kind |-> "pages", list |-> list, filters |-> filters, limit |-> limit])
          BY <4>3
        <5>2. PICK n \in 0..3 : list \in [1..n -> [a : BOOLEAN, b : BOOLEAN]]
          OBVIOUS
        <5>3. list \in Seq([a : BOOLEAN, b : BOOLEAN])
          BY <5>2, FunctionsAreLists, n \in Nat
        <5>4. Asks([kind |-> "pages", list |-> list, filters |-> filters, limit |-> limit])
          BY <5>3 DEF Asks
        <5> QED
          BY <2>2, <5>1, <5>4
      <4> QED
        BY Zenon, <3>1, <4>1, <4>2, <4>3 DEF AskListings
    <3>2. CASE AskFunctions
      <4>1. PICK first \in [1..4 -> FirstCode], limits \in {Whole, Tight, Short} :
              Ask([kind |-> "functions", limits |-> limits,
                   binary |-> [entry |-> 2,
                               symbols |-> IF limits = Tight THEN {8} ELSE {24},
                               sections |-> <<[base |-> 2, size |-> 8, code |-> first],
                                              [base |-> 20, size |-> 6,
                                               code |-> IF limits = Tight THEN <<Return1>>
                                                        ELSE <<Calls(4), Return1>>]>>]])
        BY <3>2 DEF AskFunctions
      <4> DEFINE code == IF limits = Tight THEN <<Return1>> ELSE <<Calls(4), Return1>>
                 symbols == IF limits = Tight THEN {8} ELSE {24}
                 binary == [entry |-> 2, symbols |-> symbols,
                            sections |-> <<[base |-> 2, size |-> 8, code |-> first],
                                           [base |-> 20, size |-> 6, code |-> code]>>]
      <4>2. code \in {<<Return1>>, <<Calls(4), Return1>>} /\ symbols \in {{8}, {24}}
        OBVIOUS
      <4>3. LimitsOfFunctions(limits)
        BY SweptLimits
      <4>4. Ask([kind |-> "functions", limits |-> limits, binary |-> binary])
        BY <4>1
      <4> HIDE DEF code, symbols
      <4>5. Binary(binary)
        BY <4>2, SweptBinaries
      <4> HIDE DEF binary
      <4>6. Asks([kind |-> "functions", limits |-> limits, binary |-> binary])
        BY <4>3, <4>5 DEF Asks
      <4> QED
        BY <2>2, <4>4, <4>6
    <3>3. CASE AskHeuristics
      <4>1. PICK f \in FunctionKinds(1), g \in FunctionKinds(2), h \in FunctionKinds(3),
                 signs \in {{}, {"anti_debugging", "base64_data", "self_modifying_code"}},
                 packed \in BOOLEAN :
              Ask([kind |-> "heuristics",
                   sample |-> [entry |-> 1, functions |-> <<f, g, h>>, resolvers |-> 2,
                               signs |-> signs, packed |-> packed, apis |-> {"network"},
                               failures |-> <<"failed">>]])
        BY <3>3 DEF AskHeuristics
      <4> DEFINE sample == [entry |-> 1, functions |-> <<f, g, h>>, resolvers |-> 2,
                            signs |-> signs, packed |-> packed, apis |-> {"network"},
                            failures |-> <<"failed">>]
      <4>2. sample.entry = 1 /\ sample.functions = <<f, g, h>> /\ sample.packed = packed
        OBVIOUS
      <4>3. Ask([kind |-> "heuristics", sample |-> sample])
        BY <4>1
      <4> HIDE DEF sample
      <4>4. FlowSample(sample) /\ sample.packed \in BOOLEAN
        BY <4>2, FlowFunctions
      <4>5. Asks([kind |-> "heuristics", sample |-> sample])
        BY <4>4 DEF Asks
      <4> QED
        BY <2>2, <4>3, <4>5
    <3>4. CASE AskTriage
      <4>1. PICK strings \in UNION {[1..n -> Strings] : n \in 0..2},
                 other \in {<<{}, {}, Signals(0, FALSE)>>, <<{"hook"}, {"m"}, Signals(1, FALSE)>>,
                            <<{"inject"}, {"m", "n"}, Signals(0, TRUE)>>} :
              Ask([kind |-> "triage",
                   sample |-> [strings |-> strings, imports |-> other[1], patterns |-> other[2],
                               packing |-> other[3]]])
        BY <3>4 DEF AskTriage
      <4> DEFINE sample == [strings |-> strings, imports |-> other[1], patterns |-> other[2],
                            packing |-> other[3]]
      <4>2. strings \in Seq(Texts(Matched))
        BY TriagedStrings
      <4>3. /\ sample.strings = strings
            /\ sample = [strings |-> sample.strings, imports |-> sample.imports,
                         patterns |-> sample.patterns, packing |-> sample.packing]
        OBVIOUS
      <4>4. Ask([kind |-> "triage", sample |-> sample])
        BY <4>1
      <4> HIDE DEF sample
      <4>5. TriageSample(sample, Matched)
        BY <4>2, <4>3 DEF TriageSample
      <4>6. Asks([kind |-> "triage", sample |-> sample])
        BY <4>5 DEF Asks
      <4> QED
        BY <2>2, <4>4, <4>6
    <3> QED
      BY Zenon, <2>3, <3>1, <3>2, <3>3, <3>4 DEF Binaries
  <2>4. CASE Outside
    <3>1. \A q : q.kind \in {"database", "decompilers", "plugins", "memory"} => Asks(q)
      BY DEF Asks
    <3>2. CASE AskDatabase
      BY <2>2, <3>1, <3>2 DEF AskDatabase
    <3>3. CASE AskTools
      <4>1. CASE \E outcomes \in [Tools -> Outcomes] :
                   Ask([kind |-> "decompilers", outcomes |-> outcomes])
        BY <2>2, <3>1, <4>1
      <4>2. CASE \E outcomes \in [{"pslist", "netscan"} -> Outcomes] :
                   Ask([kind |-> "plugins", outcomes |-> outcomes])
        BY <2>2, <3>1, <4>2
      <4> QED
        BY Zenon, <3>3, <4>1, <4>2 DEF AskTools
    <3>4. CASE AskFindings
      BY <2>2, <3>1, <3>4 DEF AskFindings
    <3>5. CASE AskProcesses
      BY <2>2, <3>1, <3>5 DEF AskProcesses
    <3> QED
      BY Zenon, <2>4, <3>2, <3>3, <3>4, <3>5 DEF Outside
  <2>5. CASE Cache \/ Overlay \/ UNCHANGED vars
    BY <2>1, <2>5 DEF Cache, Overlay, vars
  <2> QED
    BY <2>3, <2>4, <2>5 DEF Next
<1> QED
  BY <1>1, <1>2, PTL DEF Spec

\* Functions, call graphs, listings, pages, triage and heuristics of the runs say what is
\* in the binary and where they were cut (analysis/functions.py,
\* disassembler/disassembler.py, malware/triage.py, analyzer/obfuscation.py,
\* analysis/flow.py).
THEOREM RunsListingsExact == Spec => []ListingsExact
<1>1. ASSUME Asks(question)
      PROVE  ListingsExact
  <2> DEFINE q == question
  <2>1. Asked("functions") => FunctionsExact(q.binary, q.limits)
    BY <1>1, InventoryAlwaysExact DEF Asks, Asked
  <2>2. Asked("disassembly") =>
          DisassemblyHonest(q.sections, q.entry, q.address, q.count, q.limit)
    BY <1>1, DisassembliesHonest DEF Asks, Asked
  <2>3. Asked("region") =>
          /\ RegionHonest(q.size, q.offset, q.count, q.limit)
          /\ q.count > 0 => HexTiles(q.size, 8 * q.count)
    <3> SUFFICES ASSUME Asked("region")
                 PROVE  /\ RegionHonest(q.size, q.offset, q.count, q.limit)
                        /\ q.count > 0 => HexTiles(q.size, 8 * q.count)
      OBVIOUS
    <3>1. q.size \in Nat /\ q.offset \in Int /\ q.count \in Int /\ q.limit \in Nat \ {0}
      BY <1>1 DEF Asks, Asked
    <3>2. q.count > 0 => 8 * q.count \in Nat \ {0}
      BY <3>1
    <3> QED
      BY <3>1, <3>2, RegionsHonest, HexAlwaysTiles
  <2>4. Asked("pages") => PagesTile(q.list, q.filters, q.limit)
    BY <1>1, PagesAlwaysTile DEF Asks, Asked
  <2>5. Asked("triage") =>
          \A limit \in {2, 9}, more \in Further : TriageSteady(q.sample, more, Knowledge, limit)
    <3> SUFFICES ASSUME Asked("triage"), NEW limit \in {2, 9}, NEW more \in Further
                 PROVE  TriageSteady(q.sample, more, Knowledge, limit)
      OBVIOUS
    <3>1. TriageSample(q.sample, Matched)
      BY <1>1 DEF Asks, Asked
    <3>2. more \in Texts(Matched) /\ limit \in Nat
      BY TriagedStrings
    <3> QED
      BY <3>1, <3>2, KnowledgeIsKnown, TriageAlwaysSteady
  <2>6. Asked("heuristics") =>
          \A limit \in {1, 2, 4, 20}, branches \in 1..2 :
              FindingsReachFlow(q.sample, limit, branches, branches)
    <3> SUFFICES ASSUME Asked("heuristics"), NEW limit \in {1, 2, 4, 20}, NEW branches \in 1..2
                 PROVE  FindingsReachFlow(q.sample, limit, branches, branches)
      OBVIOUS
    <3>1. FlowSample(q.sample) /\ q.sample.packed \in BOOLEAN
      BY <1>1 DEF Asks, Asked
    <3>2. limit \in Nat /\ branches \in Nat
      OBVIOUS
    <3> QED
      BY <3>1, <3>2, FindingsAlwaysReachFlow
  <2> QED
    BY <2>1, <2>2, <2>3, <2>4, <2>5, <2>6, Zenon DEF ListingsExact
<1> QED
  BY <1>1, RunsAsk, PTL
=============================================================================
