------------------------------ MODULE CfgProofs ------------------------------
(***************************************************************************)
(* Proofs about Cfg, for all programs and limits.                          *)
(*                                                                         *)
(* Reachability and dominance are stated with sets that control does not   *)
(* leave, not with paths, so neither proof needs an induction over paths:  *)
(* the set of blocks that a given block does not dominate so far is itself *)
(* such a set once the iteration has stopped.                              *)
(***************************************************************************)
EXTENDS Cfg, FiniteSetTheorems, TLAPS

-----------------------------------------------------------------------------
(* The least element of a set of natural numbers, from the well-foundedness *)
(* of strict inclusion between finite sets.                                 *)

LEMMA LeastElement ==
    ASSUME NEW S, S \subseteq Nat, S # {}
    PROVE  \E x \in S : \A y \in S : x <= y
<1> DEFINE Below == {0..x : x \in S}
           Order == StrictSubsetOrdering(Nat)
<1>1. Below \subseteq FiniteSubsetsOf(Nat)
  <2> SUFFICES ASSUME NEW x \in S PROVE 0..x \in FiniteSubsetsOf(Nat)
    OBVIOUS
  <2>1. IsFiniteSet(0..x)
    BY FS_Interval
  <2> QED BY <2>1 DEF FiniteSubsetsOf
<1>2. \E m \in Below : \A b \in Below : <<b, m>> \notin Order
  <2>1. IsWellFoundedOn(Order, FiniteSubsetsOf(Nat))
    BY FS_StrictSubsetOrderingWellFounded
  <2>2. Below # {}
    OBVIOUS
  <2> HIDE DEF Below, Order
  <2> QED BY <1>1, <2>1, <2>2, WFMin
<1>3. PICK x \in S : \A y \in S : <<0..y, 0..x>> \notin Order
  BY <1>2
<1>4. ASSUME NEW y \in S, ~(x <= y)
      PROVE  FALSE
  <2>1. 0..y \subseteq 0..x /\ 0..y # 0..x
    <3>1. x \in 0..x /\ x \notin 0..y
      BY <1>4
    <3>2. 0..y \subseteq 0..x
      BY <1>4
    <3> QED BY <3>1, <3>2
  <2>2. 0..y \subseteq Nat /\ 0..x \subseteq Nat
    OBVIOUS
  <2>3. <<0..y, 0..x>> \in Order
    BY <2>1, <2>2 DEF StrictSubsetOrdering
  <2> QED BY <2>3, <1>3
<1> QED BY <1>3, <1>4

-----------------------------------------------------------------------------
(* The operators of the first three steps *)

\* The sweep ends somewhere, and where it ends it either stops or runs out.
LEMMA SweepEndFacts ==
    ASSUME NEW p, Len(p) \in Nat \ {0}
    PROVE  /\ SweepEnd(p) \in 1..Len(p)
           /\ SweepEnd(p) = Len(p) \/ Stops(p, SweepEnd(p))
<1> DEFINE S == {i \in 1..Len(p) : i = Len(p) \/ Stops(p, i)}
<1>1. PICK i \in S : \A k \in S : i <= k
  <2>1. S # {} /\ S \subseteq Nat
    <3>1. Len(p) \in S
      OBVIOUS
    <3> QED BY <3>1
  <2> HIDE DEF S
  <2> QED BY <2>1, LeastElement
<1>2. \A k \in 1..(i - 1) : ~Stops(p, k)
  BY <1>1
<1>3. \E x \in 1..Len(p) : /\ x = Len(p) \/ Stops(p, x)
                           /\ \A k \in 1..(x - 1) : ~Stops(p, k)
  BY <1>1, <1>2
<1> QED BY <1>3 DEF SweepEnd

\* A block ends in the region, not before its leader, and before the next one.
LEMMA LastFacts ==
    ASSUME NEW n \in Nat, NEW leaders, NEW b \in 1..n
    PROVE  /\ Last(leaders, n, b) \in b..n
           /\ \A k \in (b + 1)..Last(leaders, n, b) : k \notin leaders
           /\ Last(leaders, n, b) = n \/ Last(leaders, n, b) + 1 \in leaders
<1> DEFINE S == {i \in b..n : i = n \/ i + 1 \in leaders}
<1>1. PICK i \in S : \A k \in S : i <= k
  <2>1. S # {} /\ S \subseteq Nat
    <3>1. n \in S
      OBVIOUS
    <3> QED BY <3>1
  <2> HIDE DEF S
  <2> QED BY <2>1, LeastElement
<1>2. \A k \in (b + 1)..i : k \notin leaders
  <2> SUFFICES ASSUME NEW k \in (b + 1)..i, k \in leaders PROVE FALSE
    OBVIOUS
  <2>1. k - 1 \in S
    OBVIOUS
  <2> QED BY <1>1, <2>1
<1>3. \E x \in b..n : /\ \A k \in (b + 1)..x : k \notin leaders
                      /\ x = n \/ x + 1 \in leaders
  BY <1>1, <1>2
<1> QED BY <1>3 DEF Last

\* Cutting the leaders down to at least one keeps the entry.
LEMMA EntryKept ==
    ASSUME NEW p, NEW n \in Nat \ {0}, NEW limit \in Nat \ {0}
    PROVE  /\ Entry \in Kept(Leaders(p, n), limit)
           /\ Kept(Leaders(p, n), limit) \subseteq 1..n
<1>1. Entry \in Leaders(p, n) /\ Leaders(p, n) \subseteq 1..n
  BY DEF Leaders, Entry
<1>2. {k \in Leaders(p, n) : k <= Entry} = {Entry}
  BY <1>1 DEF Entry
<1>3. Cardinality({k \in Leaders(p, n) : k <= Entry}) = 1
  BY <1>2, FS_Singleton
<1> QED BY <1>1, <1>3 DEF Kept

LEMMA ProgramFacts ==
    ASSUME program \in Seq(Instructions) \ {<<>>}
    PROVE  /\ Len(program) \in Nat \ {0}
           /\ \A i \in 1..Len(program) : program[i].target \subseteq Nat
<1>1. Len(program) \in Nat /\ Len(program) # 0
  OBVIOUS
<1>2. \A i \in 1..Len(program) : program[i] \in Instruction
  BY CfgAssumption
<1> QED BY <1>1, <1>2 DEF Instruction

-----------------------------------------------------------------------------
(* The inductive invariant *)

\* What the sweep and the slicing have settled.
Sized ==
    /\ phase # "decode" => size \in 1..Len(program)
    /\ phase # "decode" /\ ~truncated => size = SweepEnd(program)
    /\ phase = "connect" => Entry \in blocks
    /\ phase \in {"decode", "slice"} => blocks = {}
    /\ phase \notin Built => reachable = {} /\ frontier = {}

\* What the blocks and their successors are.
Connected ==
    /\ phase \notin {"decode", "slice"} /\ ~truncated => blocks = Leaders(program, size)
    /\ phase \in Built =>
          \A b \in blocks :
              /\ last[b] = Last(blocks, size, b)
              /\ successors[b] = Successors(program[last[b]], last[b], blocks)

\* Every block that is not on the worklist has been expanded, and nothing was
\* marked that need not be.
Explored ==
    phase \in Built =>
        /\ Entry \in reachable
        /\ \A b \in reachable \ frontier : successors[b] \subseteq reachable
        /\ \A S \in SUBSET blocks : Entry \in S /\ Closed(S, {}) => reachable \subseteq S
        /\ phase # "explore" => frontier = {}

\* Every block counts itself, the entry nothing else; no dominator is missing;
\* nothing is left to refine at the end.
Dominated ==
    phase \in {"dominate", "done"} =>
        /\ dominators[Entry] = {Entry}
        /\ \A b \in reachable : b \in dominators[b]
        /\ \A d, b \in reachable : Dominates(d, b) => d \in dominators[b]
        /\ phase = "done" => \A b \in reachable : ~Unsettled(b)

IInv == TypeOK /\ Sized /\ Connected /\ Explored /\ Dominated

LEMMA InitInv == Init => IInv
<1> SUFFICES ASSUME Init PROVE IInv
  OBVIOUS
<1>1. program \in Seq(Instructions) \ {<<>>}
  BY CfgAssumption DEF Init
<1>2. TypeOK
  <2>1. 0 \in 0..Len(program)
    BY <1>1, ProgramFacts
  <2> QED BY <1>1, <2>1 DEF Init, TypeOK, Built
<1>3. Sized /\ Connected /\ Explored /\ Dominated
  BY DEF Init, Sized, Connected, Explored, Dominated, Built
<1> QED BY <1>2, <1>3 DEF IInv

LEMMA DecodeInv == IInv /\ Decode => IInv'
<1> SUFFICES ASSUME IInv, Decode PROVE IInv'
  OBVIOUS
<1> DEFINE end == SweepEnd(program)
<1>1. limits.instructions \in Nat \ {0}
  BY CfgAssumption DEF IInv, TypeOK
<1>2. Len(program) \in Nat \ {0}
  BY ProgramFacts DEF IInv, TypeOK
<1>3. end \in 1..Len(program)
  BY <1>2, SweepEndFacts
<1>4. size' \in 1..Len(program) /\ (~truncated' => size' = end)
  <2> HIDE DEF end
  <2>1. /\ truncated' = (end > limits.instructions)
        /\ size' = IF end > limits.instructions THEN limits.instructions ELSE end
    BY DEF Decode, end
  <2>2. CASE end > limits.instructions
    <3>1. truncated' /\ size' = limits.instructions
      BY <2>1, <2>2
    <3>2. limits.instructions \in 1..Len(program)
      BY <1>1, <1>2, <1>3, <2>2
    <3> QED BY <3>1, <3>2
  <2>3. CASE ~(end > limits.instructions)
    BY <1>3, <2>1, <2>3
  <2> QED BY <2>2, <2>3
<1>5. UNCHANGED <<program, limits, blocks, last, successors, reachable, frontier,
                  dominators>> /\ phase = "decode" /\ phase' = "slice"
  BY DEF Decode
<1>6. TypeOK'
  <2>1. blocks' = {}
    BY <1>5 DEF IInv, Sized
  <2>2. truncated' \in BOOLEAN
    BY DEF Decode
  <2> QED BY <1>2, <1>4, <1>5, <2>1, <2>2 DEF IInv, TypeOK, Built
<1>7. Sized'
  BY <1>4, <1>5 DEF IInv, Sized, Built
<1>8. Connected' /\ Explored' /\ Dominated'
  BY <1>5 DEF Connected, Explored, Dominated, Built
<1> QED BY <1>6, <1>7, <1>8 DEF IInv

LEMMA SliceInv == IInv /\ Slice => IInv'
<1> SUFFICES ASSUME IInv, Slice PROVE IInv'
  OBVIOUS
<1>1. limits.nodes \in Nat \ {0} /\ size \in Nat \ {0}
  BY CfgAssumption, ProgramFacts DEF IInv, TypeOK, Sized, Slice
<1>2. Entry \in blocks' /\ blocks' \subseteq 1..size
  BY <1>1, EntryKept DEF Slice
<1>3. truncated' \in BOOLEAN /\ (truncated => truncated')
  BY DEF Slice, IInv, TypeOK
<1>4. UNCHANGED <<program, limits, size, last, successors, reachable, frontier,
                  dominators>> /\ phase = "slice" /\ phase' = "connect"
  BY DEF Slice
<1>5. TypeOK'
  <2>1. reachable = {} /\ frontier = {}
    BY <1>4 DEF IInv, Sized, Built
  <2> QED BY <1>2, <1>3, <1>4, <2>1 DEF IInv, TypeOK, Built
<1>6. Sized'
  BY <1>2, <1>3, <1>4 DEF IInv, Sized, Built
<1>7. Connected' /\ Explored' /\ Dominated'
  <2>1. ~truncated' => blocks' = Leaders(program, size)
    BY DEF Slice
  <2> QED BY <1>4, <2>1 DEF Connected, Explored, Dominated, Built
<1> QED BY <1>5, <1>6, <1>7 DEF IInv

LEMMA ConnectInv == IInv /\ Connect => IInv'
<1> SUFFICES ASSUME IInv, Connect PROVE IInv'
  OBVIOUS
<1>1. /\ UNCHANGED <<program, limits, size, blocks, truncated, dominators>>
      /\ phase = "connect" /\ phase' = "explore"
      /\ reachable' = {Entry} /\ frontier' = {Entry}
  BY DEF Connect
<1>2. Entry \in blocks /\ blocks \subseteq 1..size /\ size \in Nat
  BY <1>1, ProgramFacts DEF IInv, TypeOK, Sized
<1>3. last' \in [blocks -> 1..size]
  <2> SUFFICES ASSUME NEW b \in blocks PROVE Last(blocks, size, b) \in 1..size
    BY DEF Connect
  <2>1. b \in 1..size
    BY <1>2
  <2>2. Last(blocks, size, b) \in b..size
    BY <1>2, <2>1, LastFacts
  <2> QED BY <1>2, <2>1, <2>2
<1>4. successors' \in [blocks -> SUBSET blocks]
  <2> SUFFICES ASSUME NEW b \in blocks
               PROVE  Successors(program[last'[b]], last'[b], blocks) \subseteq blocks
    BY DEF Connect
  <2> QED BY DEF Successors, Taken
<1>5. TypeOK'
  BY <1>1, <1>2, <1>3, <1>4 DEF IInv, TypeOK, Built
<1>6. Sized'
  BY <1>1 DEF IInv, Sized, Built
<1>7. Connected'
  BY <1>1 DEF IInv, Connected, Connect
<1>8. Explored' /\ Dominated'
  BY <1>1 DEF Explored, Dominated, Built
<1> QED BY <1>5, <1>6, <1>7, <1>8 DEF IInv

LEMMA VisitInv == \A b \in blocks : IInv /\ Visit(b) => IInv'
<1> SUFFICES ASSUME NEW b \in blocks, IInv, Visit(b) PROVE IInv'
  OBVIOUS
<1>1. /\ UNCHANGED <<Graph, phase, dominators>>
      /\ phase = "explore" /\ b \in frontier
      /\ reachable' = reachable \cup successors[b]
      /\ frontier' = (frontier \ {b}) \cup (successors[b] \ reachable)
  BY DEF Visit
<1>2. successors \in [blocks -> SUBSET blocks] /\ reachable \subseteq blocks
      /\ frontier \subseteq reachable
  BY <1>1 DEF IInv, TypeOK, Built
<1>3. TypeOK'
  BY <1>1, <1>2 DEF IInv, TypeOK, Built, Graph
<1>4. Sized' /\ Connected'
  BY <1>1 DEF IInv, Sized, Connected, Graph, Built
<1>5. Explored'
  <2>1. Entry \in reachable'
    BY <1>1 DEF IInv, Explored, Built
  <2>2. \A x \in reachable' \ frontier' : successors'[x] \subseteq reachable'
    <3> SUFFICES ASSUME NEW x \in reachable', x \notin frontier'
                 PROVE  successors[x] \subseteq reachable'
      BY <1>1 DEF Graph
    <3>1. CASE x = b
      BY <1>1, <3>1
    <3>2. CASE x # b
      <4>1. x \in reachable \ frontier
        BY <1>1, <3>2
      <4>2. successors[x] \subseteq reachable
        BY <1>1, <4>1 DEF IInv, Explored, Built
      <4> QED BY <1>1, <4>2
    <3> QED BY <3>1, <3>2
  <2>3. ASSUME NEW S \in SUBSET blocks, Entry \in S, Closed(S, {})
        PROVE  reachable' \subseteq S
    <3>1. reachable \subseteq S
      BY <1>1, <2>3 DEF IInv, Explored, Built
    <3>2. successors[b] \subseteq S
      BY <1>1, <1>2, <2>3, <3>1 DEF Closed
    <3> QED BY <1>1, <3>1, <3>2
  <2>4. \A S \in SUBSET blocks' :
            Entry \in S /\ Closed(S, {})' => reachable' \subseteq S
    BY <1>1, <2>3 DEF Graph, Closed
  <2> QED BY <1>1, <2>1, <2>2, <2>4 DEF Explored
<1>6. Dominated'
  BY <1>1 DEF Dominated
<1> QED BY <1>3, <1>4, <1>5, <1>6 DEF IInv

\* Nothing but Dominated depends on the dominators.
LEMMA LaterPhases ==
    ASSUME IInv, UNCHANGED <<Graph, reachable, frontier>>,
           phase \in {"explore", "dominate"}, phase' \in {"dominate", "done"},
           frontier = {}, dominators' \in [reachable -> SUBSET reachable]
    PROVE  TypeOK' /\ Sized' /\ Connected' /\ Explored'
<1>1. TypeOK'
  BY DEF IInv, TypeOK, Built, Graph
<1>2. Sized' /\ Connected'
  BY DEF IInv, Sized, Connected, Graph, Built
<1>3. Explored'
  BY DEF IInv, Explored, Graph, Built, Closed
<1> QED BY <1>1, <1>2, <1>3

LEMMA SameDominance ==
    ASSUME UNCHANGED <<Graph, reachable>>, NEW d, NEW b
    PROVE  Dominates(d, b)' <=> Dominates(d, b)
BY DEF Dominates, Closed, Graph

\* Nothing but itself dominates the entry.
LEMMA EntryDominators ==
    ASSUME NEW d, Dominates(d, Entry)
    PROVE  d = Entry
BY DEF Dominates

LEMMA StartDominatorsInv == IInv /\ StartDominators => IInv'
<1> SUFFICES ASSUME IInv, StartDominators PROVE IInv'
  OBVIOUS
<1>1. /\ UNCHANGED <<Graph, reachable, frontier>>
      /\ phase = "explore" /\ phase' = "dominate" /\ frontier = {}
      /\ dominators' = [b \in reachable |-> IF b = Entry THEN {Entry} ELSE reachable]
  BY DEF StartDominators
<1>2. Entry \in reachable
  BY <1>1 DEF IInv, Explored, Built
<1>3. dominators' \in [reachable -> SUBSET reachable]
  BY <1>1, <1>2
<1>4. TypeOK' /\ Sized' /\ Connected' /\ Explored'
  BY <1>1, <1>3, LaterPhases
<1>5. Dominated'
  <2>1. dominators'[Entry] = {Entry} /\ \A b \in reachable' : b \in dominators'[b]
    BY <1>1, <1>2
  <2>2. ASSUME NEW d \in reachable, NEW b \in reachable, Dominates(d, b)
        PROVE  d \in dominators'[b]
    BY <1>1, <2>2, EntryDominators
  <2>3. \A d, b \in reachable' : Dominates(d, b)' => d \in dominators'[b]
    BY <1>1, <2>2, SameDominance
  <2> QED BY <1>1, <2>1, <2>3 DEF Dominated
<1> QED BY <1>4, <1>5 DEF IInv

\* What dominates a block dominates each of its predecessors, so updating a block
\* from its predecessors loses no dominator.
LEMMA UpdateKeepsDominators ==
    ASSUME IInv, phase = "dominate", NEW b \in reachable, b # Entry,
           NEW d \in reachable, Dominates(d, b)
    PROVE  d \in Updated(b)
<1>1. CASE d = b
  BY <1>1 DEF Updated
<1>2. CASE d # b
  <2>1. PICK S \in SUBSET (reachable \ {d}) :
            /\ Entry # d => Entry \in S
            /\ Closed(S, {d})
            /\ b \notin S
    BY <1>2 DEF Dominates
  <2>2. ASSUME NEW s \in Predecessors(b)
        PROVE  d \in dominators[s]
    <3>1. s \in reachable /\ b \in successors[s]
      BY DEF Predecessors
    <3>2. s \notin S
      BY <1>2, <2>1, <3>1 DEF Closed
    <3>3. Dominates(d, s)
      BY <2>1, <3>2 DEF Dominates
    <3> QED BY <3>1, <3>3 DEF IInv, Dominated
  <2> QED BY <2>2 DEF Updated
<1> QED BY <1>1, <1>2

LEMMA RefineInv == \A b \in blocks : IInv /\ Refine(b) => IInv'
<1> SUFFICES ASSUME NEW b \in blocks, IInv, Refine(b) PROVE IInv'
  OBVIOUS
<1>1. /\ UNCHANGED <<Graph, phase, reachable, frontier>>
      /\ phase = "dominate" /\ b \in reachable /\ b # Entry
      /\ dominators' = [dominators EXCEPT ![b] = Updated(b)]
  BY DEF Refine, Unsettled
<1>2. dominators \in [reachable -> SUBSET reachable] /\ frontier = {}
  BY <1>1 DEF IInv, TypeOK, Explored, Built
<1>3. dominators' \in [reachable -> SUBSET reachable]
  BY <1>1, <1>2 DEF Updated
<1>4. TypeOK' /\ Sized' /\ Connected' /\ Explored'
  BY <1>1, <1>2, <1>3, LaterPhases
<1>5. Dominated'
  <2>1. Entry \in reachable /\ dominators[Entry] = {Entry}
        /\ \A x \in reachable : x \in dominators[x]
    BY <1>1 DEF IInv, Dominated, Explored, Built
  <2>2. dominators'[Entry] = {Entry}
    BY <1>1, <1>2, <2>1
  <2>3. \A x \in reachable' : x \in dominators'[x]
    BY <1>1, <1>2, <2>1 DEF Updated
  <2>4. ASSUME NEW d \in reachable, NEW x \in reachable, Dominates(d, x)
        PROVE  d \in dominators'[x]
    <3>1. CASE x = b
      BY <1>1, <1>2, <2>4, <3>1, UpdateKeepsDominators
    <3>2. CASE x # b
      BY <1>1, <1>2, <2>4, <3>2 DEF IInv, Dominated
    <3> QED BY <3>1, <3>2
  <2>5. \A d, x \in reachable' : Dominates(d, x)' => d \in dominators'[x]
    BY <1>1, <2>4, SameDominance
  <2> QED BY <1>1, <2>2, <2>3, <2>5 DEF Dominated
<1> QED BY <1>4, <1>5 DEF IInv

LEMMA FinishInv == IInv /\ Finish => IInv'
<1> SUFFICES ASSUME IInv, Finish PROVE IInv'
  OBVIOUS
<1>1. /\ UNCHANGED <<Graph, reachable, frontier, dominators>>
      /\ phase = "dominate" /\ phase' = "done"
      /\ \A b \in reachable : ~Unsettled(b)
  BY DEF Finish
<1>2. frontier = {} /\ dominators \in [reachable -> SUBSET reachable]
  BY <1>1 DEF IInv, TypeOK, Explored, Built
<1>3. TypeOK' /\ Sized' /\ Connected' /\ Explored'
  BY <1>1, <1>2, LaterPhases
<1>4. Dominated'
  <2>1. \A d, b \in reachable' : Dominates(d, b)' => d \in dominators'[b]
    BY <1>1, SameDominance DEF IInv, Dominated
  <2>2. \A b \in reachable' : ~Unsettled(b)'
    BY <1>1 DEF Unsettled, Updated, Predecessors, Graph
  <2> QED BY <1>1, <2>1, <2>2 DEF IInv, Dominated
<1> QED BY <1>3, <1>4 DEF IInv

LEMMA NextInv == IInv /\ [Next]_vars => IInv'
<1> SUFFICES ASSUME IInv, [Next]_vars PROVE IInv'
  OBVIOUS
<1>1. CASE Decode
  BY <1>1, DecodeInv
<1>2. CASE Slice
  BY <1>2, SliceInv
<1>3. CASE Connect
  BY <1>3, ConnectInv
<1>4. CASE StartDominators
  BY <1>4, StartDominatorsInv
<1>5. CASE Finish
  BY <1>5, FinishInv
<1>6. ASSUME NEW b \in blocks, Visit(b) PROVE IInv'
  BY <1>6, VisitInv
<1>7. ASSUME NEW b \in blocks, Refine(b) PROVE IInv'
  BY <1>7, RefineInv
<1>8. CASE UNCHANGED vars
  BY <1>8 DEF vars, IInv, TypeOK, Sized, Connected, Explored, Dominated, Built, Closed,
              Dominates, Unsettled, Updated, Predecessors
<1> QED BY <1>1, <1>2, <1>3, <1>4, <1>5, <1>6, <1>7, <1>8 DEF Next

\* The stages of build_cfg keep the invariant, for every program and limits.
THEOREM Invariance == Spec => []IInv
<1>1. Init => IInv
  BY InitInv
<1>2. IInv /\ [Next]_vars => IInv'
  BY NextInv
<1> QED BY <1>1, <1>2, PTL DEF Spec

\* Every variable of the builder stays in its type: no successor, no dominator
\* and no last instruction is ever outside the graph.
THEOREM TypeCorrect == Spec => []TypeOK
<1>1. IInv => TypeOK
  BY DEF IInv
<1> QED BY <1>1, Invariance, PTL

-----------------------------------------------------------------------------
(* The region *)

\* Unless the result says "truncated", control does not flow from the region to a
\* decoded instruction behind it (the rule that ends the linear sweep).
THEOREM RegionClosed == Spec => []SweepClosed
<1>1. IInv => SweepClosed
  <2> SUFFICES ASSUME IInv, phase \in Built, ~truncated,
                      NEW i \in 1..size, NEW j \in 1..Len(program), Flow(i, j)
               PROVE  j <= size
    BY DEF SweepClosed
  <2>1. Len(program) \in Nat \ {0} /\ program[i].target \subseteq Nat
    BY ProgramFacts DEF IInv, TypeOK, Sized, Built
  <2>2. size = SweepEnd(program) /\ size \in 1..Len(program)
    BY DEF IInv, Sized, Built
  <2>3. SUFFICES ASSUME ~(j <= size) PROVE FALSE
    OBVIOUS
  <2>4. Stops(program, size)
    BY <2>1, <2>2, <2>3, SweepEndFacts
  <2>5. CASE IsJump(program[i]) /\ Address(j) \in program[i].target
    <3>1. Address(j) < Address(size + 1)
      BY <2>4, <2>5 DEF Stops
    <3> QED BY <2>1, <2>2, <2>3, <3>1 DEF Address
  <2>6. CASE ~IsReturn(program[i]) /\ ~IsUnconditionalJump(program[i]) /\ j = i + 1
    <3>1. i = size
      BY <2>1, <2>2, <2>3, <2>6
    <3> QED BY <2>4, <2>6, <3>1 DEF Stops, Terminates
  <2> QED BY <2>5, <2>6 DEF Flow
<1> QED BY <1>1, Invariance, PTL

\* The last leader up to a position.
LEMMA OwnLeader ==
    ASSUME IInv, phase \in Built, NEW i \in 1..size
    PROVE  \E b \in blocks : b <= i /\ \A k \in (b + 1)..i : k \notin blocks
<1> DEFINE S == {i - b : b \in {x \in blocks : x <= i}}
<1>1. size \in Nat /\ blocks \subseteq 1..size /\ Entry \in blocks
  BY ProgramFacts DEF IInv, TypeOK, Sized, Built
<1>2. PICK m \in S : \A x \in S : m <= x
  <2>1. S \subseteq Nat
    BY <1>1
  <2>2. i - Entry \in S
    BY <1>1 DEF Entry
  <2> HIDE DEF S
  <2> QED BY <2>1, <2>2, LeastElement
<1>3. PICK b \in blocks : b <= i /\ m = i - b
  BY <1>2
<1>4. ASSUME NEW k \in (b + 1)..i, k \in blocks
      PROVE  FALSE
  <2>1. i - k \in S /\ i - k < m
    BY <1>1, <1>3, <1>4
  <2> QED BY <1>1, <1>2, <1>3, <2>1
<1> QED BY <1>3, <1>4

\* What a block of an untruncated graph is.
LEMMA BlockFacts ==
    ASSUME IInv, phase \in Built, NEW b \in blocks
    PROVE  /\ size \in Nat /\ blocks \subseteq 1..size
           /\ last[b] \in b..size
           /\ \A k \in (b + 1)..last[b] : k \notin blocks
           /\ last[b] = size \/ last[b] + 1 \in blocks
<1>1. size \in Nat /\ b \in 1..size /\ blocks \subseteq 1..size
  BY ProgramFacts DEF IInv, TypeOK, Sized, Built
<1>2. last[b] = Last(blocks, size, b)
  BY DEF IInv, Connected
<1> QED BY <1>1, <1>2, LastFacts

\* Unless it is truncated, the graph shows every way control can take inside the
\* region and no other, and its blocks partition the region (steps 2 and 3).
THEOREM GraphMatchesFlow == Spec => []EdgesMatchFlow
<1>1. IInv => EdgesMatchFlow
  <2> SUFFICES ASSUME IInv, phase \in Built, ~truncated PROVE EdgesMatchFlow
    BY DEF EdgesMatchFlow
  <2>1. size \in Nat /\ blocks \subseteq 1..size /\ Entry \in blocks
    BY ProgramFacts DEF IInv, TypeOK, Sized, Built
  <2>2. blocks = Leaders(program, size)
    BY DEF IInv, Connected, Built
  <2>3. \A i \in 1..size : \E b \in blocks : i \in b..last[b]
    <3> TAKE i \in 1..size
    <3>1. PICK b \in blocks : b <= i /\ \A k \in (b + 1)..i : k \notin blocks
      BY OwnLeader
    <3>2. last[b] \in b..size /\ (last[b] = size \/ last[b] + 1 \in blocks)
      BY BlockFacts
    <3>3. i <= last[b]
      BY <2>1, <3>1, <3>2
    <3> QED BY <2>1, <3>1, <3>2, <3>3
  <2>4. ASSUME NEW i \in 1..size, NEW b \in blocks, NEW c \in blocks,
               i \in b..last[b], i \in c..last[c]
        PROVE  b = c
    <3>1. /\ \A k \in (b + 1)..last[b] : k \notin blocks
          /\ \A k \in (c + 1)..last[c] : k \notin blocks
          /\ last[b] \in b..size /\ last[c] \in c..size
      BY BlockFacts
    <3> QED BY <2>1, <2>4, <3>1
  <2>5. ASSUME NEW i \in 1..size, NEW b \in blocks, i \in b..(last[b] - 1)
        PROVE  ~IsJump(program[i]) /\ ~IsReturn(program[i])
    <3>1. last[b] \in b..size /\ i + 1 \notin blocks
      BY <2>1, <2>5, BlockFacts
    <3>2. i + 1 \in 1..size
      BY <2>1, <2>5, <3>1
    <3> QED BY <2>2, <3>1, <3>2 DEF Leaders
  <2>6. ASSUME NEW i \in 1..size, NEW j \in 1..size, Flow(i, j)
        PROVE  \E b \in blocks :
                  \/ i \in b..(last[b] - 1) /\ j = i + 1
                  \/ i = last[b] /\ j \in successors[b]
    <3>1. PICK b \in blocks : i \in b..last[b]
      BY <2>3
    <3>2. /\ last[b] \in b..size /\ (last[b] = size \/ last[b] + 1 \in blocks)
          /\ successors[b] = Successors(program[last[b]], last[b], blocks)
      BY BlockFacts DEF IInv, Connected
    <3>3. CASE i # last[b]
      <4>1. i \in b..(last[b] - 1)
        BY <2>1, <3>1, <3>2, <3>3
      <4>2. j = i + 1
        BY <2>5, <2>6, <4>1 DEF Flow
      <4> QED BY <4>1, <4>2
    <3>4. CASE i = last[b]
      <4>1. CASE IsJump(program[i]) /\ Address(j) \in program[i].target
        <5>1. j \in blocks
          BY <2>2, <4>1 DEF Leaders
        <5> QED BY <2>6, <3>2, <3>4, <4>1, <5>1 DEF Flow, Successors, Taken
      <4>2. CASE ~IsUnconditionalJump(program[i]) /\ j = i + 1
        <5>1. i + 1 \in blocks
          BY <2>1, <3>2, <3>4, <4>2
        <5> QED BY <2>6, <3>2, <3>4, <4>2, <5>1 DEF Flow, Successors
      <4> QED BY <2>6, <4>1, <4>2 DEF Flow
    <3> QED BY <3>3, <3>4
  <2>7. ASSUME NEW i \in 1..size, NEW j \in 1..size, NEW b \in blocks,
               \/ i \in b..(last[b] - 1) /\ j = i + 1
               \/ i = last[b] /\ j \in successors[b]
        PROVE  Flow(i, j)
    <3>1. CASE i \in b..(last[b] - 1) /\ j = i + 1
      BY <2>5, <3>1 DEF Flow, IsUnconditionalJump
    <3>2. CASE i = last[b] /\ j \in successors[b]
      <4>1. j \in Successors(program[i], i, blocks)
        BY <3>2 DEF IInv, Connected
      <4> QED BY <4>1 DEF Flow, Successors, Taken
    <3> QED BY <2>7, <3>1, <3>2
  <2>8. \A i, j \in 1..size :
            Flow(i, j) <=> \E b \in blocks :
                              \/ i \in b..(last[b] - 1) /\ j = i + 1
                              \/ i = last[b] /\ j \in successors[b]
    BY <2>6, <2>7
  <2>9. \A i \in 1..size :
            \E b \in blocks : {x \in blocks : i \in x..last[x]} = {b}
    <3> TAKE i \in 1..size
    <3>1. PICK b \in blocks : i \in b..last[b]
      BY <2>3
    <3>2. {x \in blocks : i \in x..last[x]} = {b}
      BY <2>4, <3>1
    <3> QED BY <3>2
  <2> QED BY <2>8, <2>9 DEF EdgesMatchFlow
<1> QED BY <1>1, Invariance, PTL

-----------------------------------------------------------------------------
(* Reachability and dominance *)

\* The worklist loop of build_cfg marks the blocks that can be reached, all of
\* them and no other.
THEOREM ReachabilityExact == Spec => []ReachableExact
<1>1. IInv => ReachableExact
  BY DEF IInv, Explored, ReachableExact, Closed, Built
<1> QED BY <1>1, Invariance, PTL

\* When the fixed point is reached, a dominator of a block other than the block
\* itself is a dominator of each predecessor.
LEMMA FixedPoint ==
    ASSUME IInv, phase = "done", NEW s \in reachable, NEW b \in successors[s],
           NEW d \in dominators[b], d # b
    PROVE  b \in reachable /\ d \in reachable /\ d \in dominators[s]
<1>1. reachable \subseteq blocks /\ dominators \in [reachable -> SUBSET reachable]
  BY DEF IInv, TypeOK, Built
<1>2. b \in reachable
  BY DEF IInv, Explored, Built
<1>3. b # Entry
  BY DEF IInv, Dominated
<1>4. dominators[b] = Updated(b)
  BY <1>2, <1>3 DEF IInv, Dominated, Unsettled
<1> QED BY <1>1, <1>2, <1>4 DEF Updated, Predecessors

LEMMA ExactInv == IInv => DominatorsExact
<1> SUFFICES ASSUME IInv, phase = "done",
                    NEW d \in reachable, NEW b \in reachable, d \in dominators[b], d # b
             PROVE  Dominates(d, b)
  BY DEF IInv, Dominated, DominatorsExact, Dominates
<1> DEFINE S == {x \in reachable : d \notin dominators[x]}
<1>1. S \subseteq reachable \ {d}
  BY DEF IInv, Dominated
<1>2. Entry # d => Entry \in S
  BY DEF IInv, Dominated, Explored, Built
<1>3. Closed(S, {d})
  <2> SUFFICES ASSUME NEW s \in S, NEW y \in successors[s], y # d PROVE y \in S
    BY DEF Closed
  <2>1. y \in reachable
    BY DEF IInv, Explored, Built
  <2> QED BY <2>1, FixedPoint
<1>4. b \notin S
  OBVIOUS
<1> QED BY <1>1, <1>2, <1>3, <1>4 DEF Dominates

\* In whatever order the fixed-point loop takes the blocks, it never loses a
\* dominator and ends with the dominators of every block and nothing else.
THEOREM DominanceExact == Spec => []DominatorsExact
<1> QED BY ExactInv, Invariance, PTL

\* A loop header that build_cfg reports is reachable and on a cycle.
THEOREM LoopHeadersOnCycles == Spec => []LoopHeadersLoop
<1>1. IInv => LoopHeadersLoop
  <2> SUFFICES ASSUME IInv, phase = "done", NEW h \in LoopHeaders
               PROVE  /\ h \in reachable
                      /\ \A S \in SUBSET blocks :
                            successors[h] \subseteq S /\ Closed(S, {}) => h \in S
    BY DEF LoopHeadersLoop
  <2>1. PICK s \in reachable : h \in successors[s] /\ h \in dominators[s]
    BY DEF LoopHeaders
  <2>2. h \in reachable /\ reachable \subseteq blocks /\ Entry \in reachable
    BY <2>1 DEF IInv, TypeOK, Explored, Built
  <2>3. ASSUME NEW S \in SUBSET blocks, successors[h] \subseteq S, Closed(S, {}), h \notin S
        PROVE  FALSE
    <3>1. Dominates(h, s) /\ h # s
      BY <2>1, <2>2, <2>3, ExactInv DEF DominatorsExact
    <3>2. PICK U \in SUBSET (reachable \ {h}) :
              (Entry # h => Entry \in U) /\ Closed(U, {h}) /\ s \notin U
      BY <3>1 DEF Dominates
    <3> DEFINE W == U \cup S \cup {h}
    <3>3. W \in SUBSET blocks /\ Entry \in W
      BY <2>2, <2>3, <3>2
    <3>4. Closed(W, {})
      BY <2>3, <3>2 DEF Closed
    <3>5. reachable \subseteq W
      BY <3>3, <3>4 DEF IInv, Explored, Built
    <3>6. s \in S
      BY <3>1, <3>2, <3>5
    <3> QED BY <2>1, <2>3, <3>6 DEF Closed
  <2> QED BY <2>2, <2>3
<1> QED BY <1>1, Invariance, PTL

-----------------------------------------------------------------------------
(* The dominator tree *)

LEMMA DominatorTypes ==
    ASSUME IInv, phase = "done"
    PROVE  /\ dominators \in [reachable -> SUBSET reachable]
           /\ reachable \subseteq blocks /\ reachable \subseteq Nat
           /\ Entry \in reachable /\ dominators[Entry] = {Entry}
           /\ \A b \in reachable : b \in dominators[b] /\ successors[b] \subseteq reachable
           /\ \A S \in SUBSET reachable :
                 Entry \in S /\ Closed(S, {}) => reachable \subseteq S
<1>1. size \in Nat
  BY ProgramFacts DEF IInv, TypeOK, Sized
<1> QED BY <1>1 DEF IInv, TypeOK, Explored, Dominated, Built

LEMMA DominanceAntisymmetric ==
    ASSUME IInv, phase = "done", NEW c \in reachable, NEW d \in reachable,
           c \in dominators[d], d \in dominators[c]
    PROVE  c = d
<1> SUFFICES ASSUME c # d PROVE FALSE
  OBVIOUS
<1> DEFINE S == {x \in reachable : c \notin dominators[x] /\ d \notin dominators[x]}
<1>1. Entry \in S
  BY DominatorTypes
<1>2. Closed(S, {})
  <2> SUFFICES ASSUME NEW s \in S, NEW y \in successors[s], y \notin S PROVE FALSE
    BY DEF Closed
  <2>1. y \in reachable
    BY DominatorTypes
  <2>2. CASE c \in dominators[y] /\ y # c
    BY <2>2, FixedPoint
  <2>3. CASE d \in dominators[y] /\ y # d
    BY <2>3, FixedPoint
  <2> QED BY <2>1, <2>2, <2>3
<1>3. c \in S
  BY <1>1, <1>2, DominatorTypes
<1> QED BY <1>3, DominatorTypes

LEMMA DominanceTransitive ==
    ASSUME IInv, phase = "done", NEW b \in reachable, NEW c \in dominators[b],
           NEW a \in dominators[c]
    PROVE  a \in dominators[b]
<1>1. a \in reachable /\ c \in reachable
  BY DominatorTypes
<1>2. CASE a = b \/ a = c
  BY <1>2, DominatorTypes
<1>3. CASE a # b /\ a # c
  <2> DEFINE S == {x \in reachable : a \notin dominators[x] /\ c \notin dominators[x]}
  <2>1. S \subseteq reachable \ {a} /\ b \notin S
    BY DominatorTypes
  <2>2. Entry # a => Entry \in S
    BY <1>3, DominatorTypes
  <2>3. Closed(S, {a})
    <3> SUFFICES ASSUME NEW s \in S, NEW y \in successors[s], y # a, y \notin S
                 PROVE  FALSE
      BY DEF Closed
    <3>1. y \in reachable
      BY DominatorTypes
    <3>2. a \notin dominators[y]
      BY <3>1, FixedPoint
    <3>3. c \in dominators[y] /\ y # c
      BY <3>1, <3>2
    <3> QED BY <3>3, FixedPoint
  <2>4. Dominates(a, b)
    <3> HIDE DEF S
    <3> QED BY <2>1, <2>2, <2>3 DEF Dominates
  <2> QED BY <1>1, <2>4 DEF IInv, Dominated
<1> QED BY <1>2, <1>3

\* Of two dominators of a block one dominates the other.
LEMMA DominatorsChain ==
    ASSUME IInv, phase = "done", NEW b \in reachable,
           NEW c \in dominators[b], NEW d \in dominators[b]
    PROVE  c \in dominators[d] \/ d \in dominators[c]
<1> SUFFICES ASSUME c \notin dominators[d], d \notin dominators[c] PROVE FALSE
  OBVIOUS
<1>1. c \in reachable /\ d \in reachable
  BY DominatorTypes
<1> DEFINE S == {x \in reachable : c \notin dominators[x] \/ d \notin dominators[x]}
<1>2. Entry \in S /\ c \in S /\ d \in S
  BY <1>1, DominatorTypes
<1>3. Closed(S, {})
  <2> SUFFICES ASSUME NEW s \in S, NEW y \in successors[s], y \notin S PROVE FALSE
    BY DEF Closed
  <2>1. y \in reachable /\ y # c /\ y # d
    BY <1>2, DominatorTypes
  <2>2. c \in dominators[y] /\ d \in dominators[y]
    BY <2>1
  <2> QED BY <2>1, <2>2, FixedPoint
<1>4. b \in S
  BY <1>2, <1>3, DominatorTypes
<1> QED BY <1>4

\* One of the strict dominators of a block has most dominators itself.
LEMMA ClosestDominator ==
    ASSUME IInv, phase = "done", NEW b \in reachable, Strict(b) # {}
    PROVE  \E c \in Strict(b) : \A d \in Strict(b) :
               dominators[c] \subseteq dominators[d] => dominators[c] = dominators[d]
<1> DEFINE Rest == {(1..size) \ dominators[c] : c \in Strict(b)}
           Order == StrictSubsetOrdering(1..size)
<1>1. size \in Nat /\ reachable \subseteq 1..size
  BY ProgramFacts DEF IInv, TypeOK, Sized, Built
<1>2. Rest \subseteq FiniteSubsetsOf(1..size) /\ Rest # {}
  <2>1. IsFiniteSet(1..size)
    BY <1>1, FS_Interval
  <2>2. FiniteSubsetsOf(1..size) = SUBSET (1..size)
    BY <2>1, FS_FiniteSubsetsOfFinite
  <2>3. Rest \subseteq FiniteSubsetsOf(1..size)
    BY <2>2
  <2>4. Rest # {}
    OBVIOUS
  <2> QED BY <2>3, <2>4
<1>3. \E m \in Rest : \A r \in Rest : <<r, m>> \notin Order
  <2>1. IsWellFoundedOn(Order, FiniteSubsetsOf(1..size))
    BY FS_StrictSubsetOrderingWellFounded
  <2> HIDE DEF Rest, Order
  <2> QED BY <1>2, <2>1, WFMin
<1>4. PICK c \in Strict(b) : \A d \in Strict(b) :
          <<(1..size) \ dominators[d], (1..size) \ dominators[c]>> \notin Order
  BY <1>3
<1>5. ASSUME NEW d \in Strict(b), dominators[c] \subseteq dominators[d]
      PROVE  dominators[c] = dominators[d]
  <2>1. dominators[c] \subseteq 1..size /\ dominators[d] \subseteq 1..size
    BY <1>1, DominatorTypes DEF Strict
  <2>2. (1..size) \ dominators[d] = (1..size) \ dominators[c]
    BY <1>4, <1>5 DEF StrictSubsetOrdering
  <2> QED BY <2>1, <2>2
<1> QED BY <1>4, <1>5

\* Each reachable block but the entry has one immediate dominator, and through it
\* all its other dominators (the `next(...)` that searches the strict dominators
\* never comes back with None, nor with one of several).
THEOREM ImmediateDominators == Spec => []ImmediateDominatorTree
<1>1. IInv => ImmediateDominatorTree
  <2> SUFFICES ASSUME IInv, phase = "done" PROVE ImmediateDominatorTree
    BY DEF ImmediateDominatorTree
  <2>1. ImmediateDominator(Entry) = {}
    BY DominatorTypes DEF ImmediateDominator, Strict
  <2>2. ASSUME NEW b \in reachable \ {Entry}
        PROVE  \E c \in reachable : /\ ImmediateDominator(b) = {c}
                                    /\ dominators[b] = dominators[c] \cup {b}
    <3>1. Entry \in Strict(b)
      <4>1. Dominates(Entry, b)
        <5>1. {} \in SUBSET (reachable \ {Entry}) /\ Closed({}, {Entry}) /\ b \notin {}
          BY DEF Closed
        <5> QED BY <5>1 DEF Dominates
      <4> QED BY <2>2, <4>1, DominatorTypes DEF IInv, Dominated, Strict
    <3>2. PICK c \in Strict(b) : \A d \in Strict(b) :
              dominators[c] \subseteq dominators[d] => dominators[c] = dominators[d]
      BY <3>1, ClosestDominator
    <3>3. c \in reachable /\ c \in dominators[b] /\ c # b
      BY DominatorTypes DEF Strict
    <3>4. ASSUME NEW d \in Strict(b)
          PROVE  d \in dominators[c]
      <4>1. d \in reachable /\ d \in dominators[b]
        BY DominatorTypes DEF Strict
      <4>2. CASE c \in dominators[d]
        <5>1. dominators[c] \subseteq dominators[d]
          BY <4>1, <4>2, DominanceTransitive
        <5> QED BY <3>2, <4>1, <5>1, DominatorTypes
      <4> QED BY <3>3, <4>1, <4>2, DominatorsChain
    <3>5. ASSUME NEW d \in ImmediateDominator(b)
          PROVE  d = c
      <4>1. d \in Strict(b) /\ (c = d \/ c \in dominators[d])
        BY DEF ImmediateDominator
      <4>2. d \in reachable
        BY <4>1, DominatorTypes DEF Strict
      <4> QED BY <3>3, <3>4, <4>1, <4>2, DominanceAntisymmetric
    <3>6. c \in ImmediateDominator(b)
      BY <3>4 DEF ImmediateDominator
    <3>7. dominators[b] = dominators[c] \cup {b}
      <4>1. dominators[c] \subseteq dominators[b]
        BY <3>3, DominanceTransitive
      <4> QED BY <3>4, <4>1, DominatorTypes DEF Strict
    <3> QED BY <3>3, <3>5, <3>6, <3>7
  <2> QED BY <2>1, <2>2 DEF ImmediateDominatorTree
<1> QED BY <1>1, Invariance, PTL

-----------------------------------------------------------------------------
(* Labels *)

\* The edge for a successor.
Inner(b, s) ==
    LET x == program[last[b]] IN
    Edge(b, {s}, Kind(x, b, s), last[b],
         IF Kind(x, b, s) = "fallthrough" THEN {} ELSE x.target)

Transfers == {pair \in blocks \X blocks : pair[2] \in successors[pair[1]]}
InnerEdges == {e \in TypedEdges : e.target # {}}

LEMMA InnerFields ==
    ASSUME NEW b, NEW s
    PROVE  /\ Inner(b, s).source = b /\ Inner(b, s).target = {s} /\ Inner(b, s).at = last[b]
           /\ Inner(b, s).kind = Kind(program[last[b]], b, s)
           /\ Inner(b, s).address = IF Kind(program[last[b]], b, s) = "fallthrough" THEN {}
                                    ELSE program[last[b]].target
  BY DEF Inner, Edge

LEMMA CallsLeadOut ==
    ASSUME NEW b, NEW e \in Calls(b)
    PROVE  e.target = {}
  BY DEF Calls, Edge

\* Edges that lead to a block are those for the successors.
LEMMA InnerEdgesAre ==
    ASSUME IInv, phase \in Built
    PROVE  /\ \A e \in InnerEdges : \E b \in blocks : \E s \in successors[b] : e = Inner(b, s)
           /\ \A b \in blocks : \A s \in successors[b] : Inner(b, s) \in InnerEdges
<1>1. ASSUME NEW b \in blocks, NEW e \in Leaving(b), e.target # {}
      PROVE  \E s \in successors[b] : e = Inner(b, s)
  <2> DEFINE x == program[last[b]]
  <2>1. ~IsReturn(x) /\ ~(IsJump(x) /\ x.target = {})
    BY <1>1 DEF Leaving, Edge
  <2>2. e \in {Inner(b, s) : s \in successors[b]}
    BY <1>1, <2>1 DEF Leaving, Inner
  <2>3. QED BY <2>2
<1>2. ASSUME NEW b \in blocks, NEW s \in successors[b]
      PROVE  Inner(b, s) \in Leaving(b)
  <2> DEFINE x == program[last[b]]
  <2>1. s \in Successors(x, last[b], blocks)
    BY <1>2 DEF IInv, Connected
  <2>2. ~IsReturn(x) /\ ~(IsJump(x) /\ x.target = {})
    BY <2>1 DEF Successors, Taken, IsUnconditionalJump
  <2>3. QED BY <1>2, <2>2 DEF Leaving, Inner
<1>3. ASSUME NEW e \in InnerEdges
      PROVE  \E b \in blocks : e \in Leaving(b)
  BY <1>3, CallsLeadOut DEF InnerEdges, TypedEdges
<1>4. ASSUME NEW b \in blocks, NEW s \in successors[b]
      PROVE  Inner(b, s) \in InnerEdges
  <2>1. Inner(b, s) \in TypedEdges
    BY <1>2, <1>4 DEF TypedEdges
  <2>2. QED BY <2>1, InnerFields DEF InnerEdges
<1>5. \A e \in InnerEdges : e.target # {}
  BY DEF InnerEdges
<1>6. QED BY <1>1, <1>3, <1>4, <1>5

\* One edge for each transfer between blocks.
LEMMA OneEdgeEach ==
    ASSUME IInv, phase \in Built
    PROVE  Cardinality(InnerEdges) = Cardinality(Transfers)
<1> DEFINE F == [pair \in Transfers |-> Inner(pair[1], pair[2])]
<1>1. blocks \subseteq 1..size /\ size \in Nat /\ \A b \in blocks : successors[b] \subseteq blocks
  BY ProgramFacts DEF IInv, TypeOK, Sized, Built
<1>2. IsFiniteSet(Transfers)
  <2>1. IsFiniteSet(blocks)
    <3>1. IsFiniteSet(1..size)
      BY <1>1, FS_Interval
    <3>2. QED BY <1>1, <3>1, FS_Subset
  <2>2. QED BY <2>1, FS_Product, FS_Subset DEF Transfers
<1>3. F \in [Transfers -> InnerEdges]
  BY InnerEdgesAre DEF Transfers
<1>4. \A e \in InnerEdges : \E pair \in Transfers : F[pair] = e
  <2> TAKE e \in InnerEdges
  <2>1. PICK b \in blocks : \E s \in successors[b] : e = Inner(b, s)
    BY InnerEdgesAre
  <2>2. PICK s \in successors[b] : e = Inner(b, s)
    BY <2>1
  <2>3. <<b, s>> \in Transfers
    BY <1>1, <2>1 DEF Transfers
  <2>4. F[<<b, s>>] = e
    BY <2>2, <2>3
  <2>5. QED BY <2>3, <2>4
<1>5. ASSUME NEW p \in Transfers, NEW q \in Transfers, F[p] = F[q]
      PROVE  p = q
  <2>1. Inner(p[1], p[2]).source = Inner(q[1], q[2]).source
        /\ Inner(p[1], p[2]).target = Inner(q[1], q[2]).target
    BY <1>5
  <2>2. p[1] = q[1] /\ p[2] = q[2]
    BY <2>1, InnerFields
  <2>3. QED BY <2>2 DEF Transfers
<1> HIDE DEF F
<1>6. F \in Bijection(Transfers, InnerEdges)
  BY <1>3, <1>4, <1>5 DEF Bijection, Injection, Surjection, IsInjective
<1>7. QED BY <1>2, <1>6, FS_Bijection DEF ExistsBijection

\* The typed edges of the result: one for each transfer between blocks, "fallthrough"
\* only to the next instruction, and with the address the branch names otherwise.
THEOREM LabelsRight == Spec => []LabelsMatchTargets
<1>1. IInv => LabelsMatchTargets
  <2> SUFFICES ASSUME IInv, phase = "done" PROVE LabelsMatchTargets
    BY DEF LabelsMatchTargets
  <2>1. phase \in Built
    BY DEF Built
  <2>2. ASSUME NEW e \in InnerEdges, NEW s \in blocks, e.target = {s}
        PROVE  /\ s \in successors[e.source]
               /\ e.kind = "fallthrough" => s = e.at + 1
               /\ Taken(program[e.at], blocks) # {} /\ e.kind # "fallthrough" =>
                     e.address = {Address(s)}
    <3>1. PICK b \in blocks : \E t \in successors[b] : e = Inner(b, t)
      BY <2>1, <2>2, InnerEdgesAre
    <3> DEFINE x == program[last[b]]
    <3>2. /\ e = Inner(b, s) /\ s \in successors[b]
          /\ e.source = b /\ e.at = last[b] /\ e.kind = Kind(x, b, s)
          /\ e.address = IF Kind(x, b, s) = "fallthrough" THEN {} ELSE x.target
      BY <2>2, <3>1, InnerFields
    <3>3. s \in Successors(x, last[b], blocks)
      BY <2>1, <3>2 DEF IInv, Connected
    <3>4. x \in Instructions
      BY <2>1, ProgramFacts, BlockFacts DEF IInv, TypeOK
    <3>5. \A a, c \in x.target : a = c
      BY <3>4, CfgAssumption
    <3>6. Kind(x, b, s) = "fallthrough" => s = last[b] + 1
      BY <3>3 DEF Kind, Successors, FallsThrough
    <3>7. ASSUME Taken(x, blocks) # {}, Kind(x, b, s) # "fallthrough"
          PROVE  s \in Taken(x, blocks)
      BY <3>3, <3>7 DEF Kind, Successors, FallsThrough
    <3>8. s \in Taken(x, blocks) => x.target = {Address(s)}
      BY <3>5 DEF Taken
    <3>9. QED BY <3>2, <3>6, <3>7, <3>8
  <2>3. QED BY <2>1, <2>2, OneEdgeEach DEF LabelsMatchTargets, InnerEdges, Transfers
<1>2. QED BY <1>1, Invariance, PTL

-----------------------------------------------------------------------------
(* Both loops run out: the safety half of Termination *)

\* What the worklist loop has still to look at: blocks not yet marked, and marked ones
\* on the worklist.
Waiting == Cardinality(blocks \ reachable) + Cardinality(frontier)

\* What the fixed point still says: the second of each pair may dominate the first.
Claims == {pair \in reachable \X reachable : pair[2] \in dominators[pair[1]]}

LoopTurn ==
    /\ phase = "explore" /\ phase' = "explore" =>
          Waiting \in Nat /\ Waiting' \in Nat /\ Waiting' = Waiting - 1
    /\ phase = "dominate" /\ phase' = "dominate" =>
          /\ Cardinality(Claims) \in Nat /\ Cardinality(Claims)' \in Nat
          /\ Cardinality(Claims)' < Cardinality(Claims)

\* Updating a block never adds a dominator.
Shrinks == phase = "dominate" => \A b \in reachable \ {Entry} : Updated(b) \subseteq dominators[b]

LEMMA RefineShrinks ==
    ASSUME IInv, Shrinks, NEW b \in blocks, Refine(b)
    PROVE  /\ Shrinks'
           /\ \A c \in reachable : dominators'[c] \subseteq dominators[c]
           /\ dominators'[b] # dominators[b]
           /\ b \in reachable /\ UNCHANGED reachable
<1>1. /\ UNCHANGED <<Graph, phase, reachable, frontier>>
      /\ phase = "dominate" /\ b \in reachable /\ b # Entry /\ Updated(b) # dominators[b]
      /\ dominators' = [dominators EXCEPT ![b] = Updated(b)]
  BY DEF Refine, Unsettled
<1>2. dominators \in [reachable -> SUBSET reachable]
  BY <1>1 DEF IInv, TypeOK
<1>3. dominators'[b] = Updated(b) /\ \A c \in reachable \ {b} : dominators'[c] = dominators[c]
  BY <1>1, <1>2
<1>4. \A c \in reachable : dominators'[c] \subseteq dominators[c]
  BY <1>1, <1>3 DEF Shrinks
<1>5. ASSUME NEW c \in reachable
      PROVE  Updated(c)' \subseteq Updated(c)
  <2>1. Predecessors(c)' = Predecessors(c) /\ Predecessors(c) \subseteq reachable
    BY <1>1 DEF Predecessors, Graph
  <2>2. QED BY <1>1, <1>4, <2>1 DEF Updated
<1>6. Shrinks'
  <2> SUFFICES ASSUME NEW c \in reachable \ {Entry} PROVE Updated(c)' \subseteq dominators'[c]
    BY <1>1 DEF Shrinks
  <2>1. CASE c = b
    BY <1>3, <1>5, <2>1
  <2>2. CASE c # b
    BY <1>1, <1>3, <1>5, <2>2 DEF Shrinks
  <2>3. QED BY <2>1, <2>2
<1>7. QED BY <1>1, <1>3, <1>4, <1>6

LEMMA StepShrinks == IInv /\ Shrinks /\ [Next]_vars => Shrinks'
<1> SUFFICES ASSUME IInv, Shrinks, [Next]_vars PROVE Shrinks'
  OBVIOUS
<1>1. CASE StartDominators
  <2>1. /\ reachable' = reachable
        /\ dominators' = [b \in reachable |-> IF b = Entry THEN {Entry} ELSE reachable]
    BY <1>1 DEF StartDominators
  <2>2. QED BY <2>1 DEF Shrinks, Updated
<1>2. ASSUME NEW b \in blocks, Refine(b) PROVE Shrinks'
  BY <1>2, RefineShrinks
<1>3. CASE UNCHANGED vars
  BY <1>3 DEF vars, Shrinks, Updated, Predecessors
<1>4. ASSUME Decode \/ Slice \/ Connect \/ Finish \/ \E b \in blocks : Visit(b)
      PROVE  phase' # "dominate"
  BY <1>4 DEF Decode, Slice, Connect, Finish, Visit
<1>5. QED BY <1>1, <1>2, <1>3, <1>4 DEF Next, Shrinks

LEMMA FiniteBlocks ==
    ASSUME IInv
    PROVE  /\ IsFiniteSet(blocks) /\ IsFiniteSet(reachable) /\ IsFiniteSet(frontier)
           /\ IsFiniteSet(blocks \ reachable)
<1>1. IsFiniteSet(1..size)
  BY ProgramFacts, FS_Interval DEF IInv, TypeOK
<1>2. blocks \subseteq 1..size /\ reachable \subseteq blocks /\ frontier \subseteq reachable
  BY DEF IInv, TypeOK
<1>3. IsFiniteSet(blocks)
  BY <1>1, <1>2, FS_Subset
<1>4. reachable \in SUBSET blocks /\ frontier \in SUBSET blocks
      /\ blocks \ reachable \in SUBSET blocks
  BY <1>2
<1>5. QED BY <1>3, <1>4, FS_Subset

\* A turn of the worklist loop finishes one block for good.
LEMMA VisitCounts ==
    ASSUME IInv, NEW b \in blocks, Visit(b)
    PROVE  Waiting \in Nat /\ Waiting' \in Nat /\ Waiting' = Waiting - 1
<1> DEFINE new == successors[b] \ reachable
           left == blocks \ reachable
<1>1. /\ blocks' = blocks /\ b \in frontier
      /\ reachable' = reachable \cup new
      /\ frontier' = (frontier \ {b}) \cup new
  BY DEF Visit, Graph
<1>2. new \subseteq left /\ frontier \cap new = {} /\ frontier \subseteq reachable
  BY DEF Visit, IInv, TypeOK, Built
<1>3. IsFiniteSet(left) /\ IsFiniteSet(frontier) /\ IsFiniteSet(new)
  BY <1>2, FiniteBlocks, FS_Subset
<1> HIDE DEF new
<1>4. blocks' \ reachable' = left \ new
  BY <1>1
<1> HIDE DEF left
<1>5. /\ Cardinality(left) \in Nat /\ Cardinality(new) \in Nat /\ Cardinality(left \ new) \in Nat
      /\ Cardinality(left \ new) = Cardinality(left) - Cardinality(new)
  <2>1. left \cap new = new
    BY <1>2
  <2>2. IsFiniteSet(left \ new)
    BY <1>3, FS_Difference
  <2>3. Cardinality(left \ new) = Cardinality(left) - Cardinality(left \cap new)
    BY <1>3, FS_Difference
  <2>4. QED BY <1>3, <2>1, <2>2, <2>3, FS_CardinalityType
<1>6. /\ Cardinality(frontier) \in Nat /\ Cardinality(frontier') \in Nat
      /\ Cardinality(frontier') = Cardinality(frontier) - 1 + Cardinality(new)
  <2>1. IsFiniteSet(frontier \ {b}) /\ Cardinality(frontier \ {b}) = Cardinality(frontier) - 1
    BY <1>1, <1>3, FS_RemoveElement
  <2>2. (frontier \ {b}) \cap new = {}
    BY <1>2
  <2>3. /\ IsFiniteSet((frontier \ {b}) \cup new)
        /\ Cardinality((frontier \ {b}) \cup new) =
             Cardinality(frontier \ {b}) + Cardinality(new) - Cardinality((frontier \ {b}) \cap new)
    BY <1>3, <2>1, FS_Union
  <2>4. Cardinality({}) = 0
    BY FS_EmptySet
  <2>5. Cardinality(frontier') = Cardinality(frontier \ {b}) + Cardinality(new)
    <3>1. Cardinality((frontier \ {b}) \cap new) = 0
      BY <2>2, <2>4
    <3>2. Cardinality(frontier \ {b}) \in Nat /\ Cardinality(new) \in Nat
      BY <1>3, <2>1, FS_CardinalityType
    <3>3. Cardinality(frontier') = Cardinality((frontier \ {b}) \cup new)
      BY <1>1
    <3>4. QED BY <2>3, <3>1, <3>2, <3>3
  <2>6. Cardinality(frontier) \in Nat /\ Cardinality(frontier') \in Nat
    BY <1>1, <1>3, <2>3, FS_CardinalityType
  <2>7. QED BY <2>1, <2>5, <2>6
<1>7. Waiting = Cardinality(left) + Cardinality(frontier)
  BY DEF Waiting, left
<1>8. Waiting' = Cardinality(left \ new) + Cardinality(frontier')
  BY <1>4 DEF Waiting
<1>9. QED BY <1>5, <1>6, <1>7, <1>8

\* A turn of the fixed point gives up a claim and makes none.
LEMMA RefineCounts ==
    ASSUME IInv, Shrinks, NEW b \in blocks, Refine(b)
    PROVE  /\ Cardinality(Claims) \in Nat /\ Cardinality(Claims)' \in Nat
           /\ Cardinality(Claims)' < Cardinality(Claims)
<1>1. /\ \A c \in reachable : dominators'[c] \subseteq dominators[c]
      /\ dominators'[b] # dominators[b] /\ b \in reachable /\ reachable' = reachable
  BY RefineShrinks
<1>2. dominators \in [reachable -> SUBSET reachable]
  BY DEF Refine, IInv, TypeOK
<1>3. Claims' \subseteq Claims
  BY <1>1 DEF Claims
<1>4. PICK d \in reachable : d \in dominators[b] /\ d \notin dominators'[b]
  BY <1>1, <1>2
<1>5. <<b, d>> \in Claims /\ <<b, d>> \notin Claims'
  BY <1>1, <1>4 DEF Claims
<1>6. IsFiniteSet(Claims)
  <2>1. IsFiniteSet(reachable \X reachable)
    BY FiniteBlocks, FS_Product
  <2>2. Claims \in SUBSET (reachable \X reachable)
    BY DEF Claims
  <2>3. QED BY <2>1, <2>2, FS_Subset
<1>7. /\ IsFiniteSet(Claims') /\ Cardinality(Claims') <= Cardinality(Claims)
      /\ Cardinality(Claims) # Cardinality(Claims')
  BY <1>3, <1>5, <1>6, FS_Subset
<1>8. Cardinality(Claims) \in Nat /\ Cardinality(Claims') \in Nat
  BY <1>6, <1>7, FS_CardinalityType
<1>9. QED BY <1>7, <1>8

\* Neither loop of build_cfg can go on for ever: every turn of the worklist lowers one
\* natural number by one, and every turn of the fixed point lowers another, in whatever
\* order blocks are taken.
THEOREM LoopsRunOut == Spec => [][LoopTurn]_vars
<1>1. Init => Shrinks
  BY DEF Init, Shrinks
<1>2. IInv /\ Shrinks /\ [Next]_vars => [LoopTurn]_vars
  <2> SUFFICES ASSUME IInv, Shrinks, Next PROVE LoopTurn
    OBVIOUS
  <2>1. ASSUME NEW b \in blocks, Visit(b) PROVE LoopTurn
    BY <2>1, VisitCounts DEF LoopTurn, Visit
  <2>2. ASSUME NEW b \in blocks, Refine(b) PROVE LoopTurn
    BY <2>2, RefineCounts DEF LoopTurn, Refine
  <2>3. ASSUME Decode \/ Slice \/ Connect \/ StartDominators \/ Finish PROVE LoopTurn
    BY <2>3 DEF LoopTurn, Decode, Slice, Connect, StartDominators, Finish
  <2>4. QED BY <2>1, <2>2, <2>3 DEF Next
<1>3. QED BY <1>1, <1>2, Invariance, StepShrinks, PTL DEF Spec
=============================================================================
