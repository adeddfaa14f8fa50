--------------------------------- MODULE Cfg ---------------------------------
(***************************************************************************)
(* Recovery of a control-flow graph (disassembler/cfg.py, build_cfg) from  *)
(* the instructions the engine decodes between the start address and the   *)
(* end of the code section.                                                *)
(*                                                                         *)
(* The code works in stages, and so does the model: Decode, Slice and      *)
(* Connect are the three steps of the code's comments; Visit is one turn   *)
(* of the worklist loop that finds the reachable blocks; Refine is one     *)
(* assignment of the fixed-point loop that computes dominators.  Both      *)
(* loops take blocks out of sets, in an order nobody determines.           *)
(*                                                                         *)
(* Position i of the program stands at address 2i and is two bytes long,   *)
(* so an odd address is inside an instruction.  A block is named by the    *)
(* position of its leader; the code's ids number the leaders in order.     *)
(* A set of at most one address or block stands for an optional one.       *)
(*                                                                         *)
(* Left out: which section and start address are chosen, operand text, and *)
(* a region in which nothing decodes (its graph is empty).                 *)
(***************************************************************************)
EXTENDS Classify, Sequences, FiniteSets

CONSTANTS
    Instructions,  \* what the engine may decode
    Programs,      \* instruction sequences of code regions
    Limits         \* pairs of max_cfg_instructions and max_cfg_nodes

ASSUME CfgAssumption ==
    /\ Instructions \subseteq Instruction
    /\ \A x \in Instructions : \A a, b \in x.target : a = b
    /\ Programs \subseteq Seq(Instructions) \ {<<>>}
    /\ Limits \subseteq [instructions : Nat \ {0}, nodes : Nat \ {0}]

VARIABLES
    program,
    limits,
    phase,       \* decode, slice, connect, explore, dominate, done
    size,        \* number of instructions kept by the sweep
    blocks,      \* leaders that have a block
    last,        \* block -> position of its last instruction
    successors,  \* block -> successors
    truncated,
    reachable,
    frontier,    \* the worklist
    dominators   \* reachable block -> blocks that dominate it

vars == <<program, limits, phase, size, blocks, last, successors, truncated,
          reachable, frontier, dominators>>

-----------------------------------------------------------------------------
(* build_cfg, steps 1 to 3 *)

Entry == 1
Address(i) == 2 * i
Terminates(x) == IsReturn(x) \/ IsUnconditionalJump(x)

\* Mutant: a terminator ends the region wherever earlier branches lead.
StopsAtTerminator(p, i) == Terminates(p[i])

\* The sweep stops after a terminator that no branch seen so far leads beyond.
Stops(p, i) ==
    /\ Terminates(p[i])
    /\ \A j \in 1..i : IsJump(p[j]) => \A t \in p[j].target : t < Address(i + 1)

SweepEnd(p) ==
    CHOOSE i \in 1..Len(p) :
        /\ i = Len(p) \/ Stops(p, i)
        /\ \A k \in 1..(i - 1) : ~Stops(p, k)

\* Mutant: an instruction after a return does not start a block.
LeadersOfJumps(p, n) ==
    {j \in 1..n :
        \/ j = Entry
        \/ \E i \in 1..n : IsJump(p[i]) /\ (Address(j) \in p[i].target \/ j = i + 1)}

Leaders(p, n) ==
    {j \in 1..n :
        \/ j = Entry
        \/ \E i \in 1..n : /\ IsJump(p[i])
                           /\ Address(j) \in p[i].target \/ j = i + 1
        \/ \E i \in 1..n : IsReturn(p[i]) /\ j = i + 1}

\* The first leaders, at most limit of them.
Kept(leaders, limit) ==
    {l \in leaders : Cardinality({k \in leaders : k <= l}) <= limit}

\* A block runs to the next leader that has a block, or to the end.
Last(leaders, n, b) ==
    CHOOSE i \in b..n :
        /\ \A k \in (b + 1)..i : k \notin leaders
        /\ i = n \/ i + 1 \in leaders

Taken(x, leaders) == {l \in leaders : Address(l) \in x.target}

\* Mutant: does not look whether the next instruction has a block.
SuccessorsUnchecked(x, i, leaders) ==
    IF IsReturn(x) THEN {}
    ELSE (IF IsJump(x) THEN Taken(x, leaders) ELSE {})
           \cup (IF IsUnconditionalJump(x) THEN {} ELSE {i + 1})

\* The successors of a block that ends in x at position i.
Successors(x, i, leaders) ==
    IF IsReturn(x) THEN {}
    ELSE (IF IsJump(x) THEN Taken(x, leaders) ELSE {})
           \cup (IF IsUnconditionalJump(x) THEN {} ELSE {i + 1} \cap leaders)

Init ==
    /\ program \in Programs
    /\ limits \in Limits
    /\ phase = "decode"
    /\ size = 0
    /\ blocks = {}
    /\ last = <<>>
    /\ successors = <<>>
    /\ truncated = FALSE
    /\ reachable = {}
    /\ frontier = {}
    /\ dominators = <<>>

\* Step 1, bounded by max_cfg_instructions.
Decode ==
    LET end == SweepEnd(program) IN
    /\ phase = "decode"
    /\ phase' = "slice"
    /\ truncated' = (end > limits.instructions)
    /\ size' = IF end > limits.instructions THEN limits.instructions ELSE end
    /\ UNCHANGED <<program, limits, blocks, last, successors, reachable, frontier,
                   dominators>>

\* Step 2, and the cut to max_cfg_nodes.
Slice ==
    /\ phase = "slice"
    /\ phase' = "connect"
    /\ blocks' = Kept(Leaders(program, size), limits.nodes)
    /\ truncated' = (truncated \/ blocks' # Leaders(program, size))
    /\ UNCHANGED <<program, limits, size, last, successors, reachable, frontier,
                   dominators>>

\* Step 3; the worklist starts at the entry.
Connect ==
    /\ phase = "connect"
    /\ phase' = "explore"
    /\ last' = [b \in blocks |-> Last(blocks, size, b)]
    /\ successors' = [b \in blocks |-> Successors(program[last'[b]], last'[b], blocks)]
    /\ reachable' = {Entry}
    /\ frontier' = {Entry}
    /\ UNCHANGED <<program, limits, size, blocks, truncated, dominators>>

-----------------------------------------------------------------------------
(* Reachability and dominators *)

Graph == <<program, limits, size, blocks, last, successors, truncated>>

\* Mutants: successors are marked but not put on the worklist; every successor is
\* put on the worklist again.
VisitShallow(b) ==
    /\ phase = "explore"
    /\ b \in frontier
    /\ reachable' = reachable \cup successors[b]
    /\ frontier' = frontier \ {b}
    /\ UNCHANGED <<Graph, phase, dominators>>
VisitAgain(b) ==
    /\ phase = "explore"
    /\ b \in frontier
    /\ reachable' = reachable \cup successors[b]
    /\ frontier' = (frontier \ {b}) \cup successors[b]
    /\ UNCHANGED <<Graph, phase, dominators>>

Visit(b) ==
    /\ phase = "explore"
    /\ b \in frontier
    /\ reachable' = reachable \cup successors[b]
    /\ frontier' = (frontier \ {b}) \cup (successors[b] \ reachable)
    /\ UNCHANGED <<Graph, phase, dominators>>

StartDominators ==
    /\ phase = "explore"
    /\ frontier = {}
    /\ phase' = "dominate"
    /\ dominators' =
          [b \in reachable |-> IF b = Entry THEN {Entry} ELSE reachable]
    /\ UNCHANGED <<Graph, reachable, frontier>>

Predecessors(b) == {s \in reachable : b \in successors[s]}

\* Mutant: union for intersection.
UpdatedByAny(b) ==
    {b} \cup {d \in reachable : \E s \in Predecessors(b) : d \in dominators[s]}

\* The intersection of the predecessors' dominators, and the block itself.  A
\* reachable block other than the entry has a predecessor.
Updated(b) ==
    {b} \cup {d \in reachable : \A s \in Predecessors(b) : d \in dominators[s]}

Unsettled(b) == b # Entry /\ Updated(b) # dominators[b]

Refine(b) ==
    /\ phase = "dominate"
    /\ b \in reachable
    /\ Unsettled(b)
    /\ dominators' = [dominators EXCEPT ![b] = Updated(b)]
    /\ UNCHANGED <<Graph, phase, reachable, frontier>>

\* A whole pass over the blocks has changed nothing.
Finish ==
    /\ phase = "dominate"
    /\ \A b \in reachable : ~Unsettled(b)
    /\ phase' = "done"
    /\ UNCHANGED <<Graph, reachable, frontier, dominators>>

Next ==
    \/ Decode \/ Slice \/ Connect \/ StartDominators \/ Finish
    \/ \E b \in blocks : Visit(b) \/ Refine(b)

Spec == Init /\ [][Next]_vars

\* build_cfg is a function call: it goes on until it returns.
FairSpec == Spec /\ WF_vars(Next)

-----------------------------------------------------------------------------
(* What the finished graph reports *)

\* Mutant: every edge backwards makes a loop.
LoopHeadersByOrder == {h \in blocks : \E s \in blocks : h \in successors[s] /\ h <= s}

LoopHeaders ==
    {h \in blocks : \E s \in reachable : h \in successors[s] /\ h \in dominators[s]}

Unreachable == blocks \ reachable

Strict(b) == dominators[b] \ {b}

\* Mutant: the strict dominator furthest away.
ImmediateDominatorFarthest(b) ==
    {c \in Strict(b) : \A other \in Strict(b) : c \in dominators[other]}

\* At most one block; the entry and unreachable blocks have none.
ImmediateDominator(b) ==
    {c \in Strict(b) : \A other \in Strict(b) : other = c \/ other \in dominators[c]}

\* Mutant: decided by the order of the two blocks.
KindByOrder(x, b, s) ==
    IF ~IsJump(x) THEN "fallthrough"
    ELSE IF ~FallsThrough(x) THEN "unconditional"
    ELSE IF s <= b THEN "conditional" ELSE "fallthrough"

\* The label of the edge from b, which ends in x, to s.  The first successor of a
\* conditional branch is "conditional": the taken one, or the next instruction
\* when the taken one has no block.
Kind(x, b, s) ==
    IF ~IsJump(x) THEN "fallthrough"
    ELSE IF ~FallsThrough(x) THEN "unconditional"
    ELSE IF s \in Taken(x, blocks) \/ Taken(x, blocks) = {}
           THEN "conditional" ELSE "fallthrough"

Edge(b, to, kind, at, address) ==
    [source |-> b, target |-> to, kind |-> kind, at |-> at, address |-> address]

\* The edges for the transfer that ends block b ...
Leaving(b) ==
    LET x == program[last[b]] IN
    IF IsReturn(x) THEN {Edge(b, {}, "return", last[b], {})}
    ELSE IF IsJump(x) /\ x.target = {} THEN {Edge(b, {}, "indirect", last[b], {})}
    ELSE {Edge(b, {s}, Kind(x, b, s), last[b],
               IF Kind(x, b, s) = "fallthrough" THEN {} ELSE x.target) :
             s \in successors[b]}

\* ... and for the calls in it.
Calls(b) ==
    {Edge(b, {}, "call", i, program[i].target) :
        i \in {k \in b..last[b] : IsCall(program[k])}}

TypedEdges == UNION {Leaving(b) \cup Calls(b) : b \in blocks}

-----------------------------------------------------------------------------
(* Properties *)

Built == {"explore", "dominate", "done"}

TypeOK ==
    /\ program \in Seq(Instructions) \ {<<>>}
    /\ limits \in Limits
    /\ phase \in {"decode", "slice", "connect"} \cup Built
    /\ truncated \in BOOLEAN
    /\ size \in 0..Len(program)
    /\ blocks \subseteq 1..size
    /\ phase \in Built =>
          /\ Entry \in blocks
          /\ last \in [blocks -> 1..size]
          /\ successors \in [blocks -> SUBSET blocks]
    /\ reachable \subseteq blocks
    /\ frontier \subseteq reachable
    /\ phase \in {"dominate", "done"} => dominators \in [reachable -> SUBSET reachable]

\* Where control may go after the instruction at position i.
Flow(i, j) ==
    LET x == program[i] IN
    /\ ~IsReturn(x)
    /\ \/ IsJump(x) /\ Address(j) \in x.target
       \/ ~IsUnconditionalJump(x) /\ j = i + 1

\* The sweep cuts no function short: unless the result says "truncated", control
\* cannot flow from an instruction of the region to a decoded one outside it.
SweepClosed ==
    phase \in Built /\ ~truncated =>
        \A i \in 1..size, j \in 1..Len(program) : Flow(i, j) => j <= size

\* Unless nodes were dropped, the graph has every flow of control inside the
\* region and no other: from one instruction to the next inside a block, and from
\* the last of a block to the first of a successor.
EdgesMatchFlow ==
    phase \in Built /\ ~truncated =>
        /\ \A i, j \in 1..size :
              Flow(i, j) <=> \E b \in blocks :
                                \/ i \in b..(last[b] - 1) /\ j = i + 1
                                \/ i = last[b] /\ j \in successors[b]
        /\ \A i \in 1..size :
              \E b \in blocks : {x \in blocks : i \in x..last[x]} = {b}

\* A set of blocks that control does not leave, but for block except.
Closed(S, except) == \A s \in S : successors[s] \ except \subseteq S

\* The worklist finds exactly what can be reached: a set closed under successors,
\* and the least one with the entry.  The rest is reported unreachable.
ReachableExact ==
    phase \in {"dominate", "done"} =>
        /\ Entry \in reachable /\ Closed(reachable, {})
        /\ \A S \in SUBSET blocks : Entry \in S /\ Closed(S, {}) => reachable \subseteq S

\* d dominates b: with d taken away, a set that control does not leave and that
\* holds the entry can do without b.
Dominates(d, b) ==
    \/ d = b
    \/ \E S \in SUBSET (reachable \ {d}) :
          /\ Entry # d => Entry \in S
          /\ Closed(S, {d})
          /\ b \notin S

\* In whatever order the blocks are refined, no dominator is ever lost, and when
\* nothing changes any more only dominators are left.
DominatorsExact ==
    phase \in {"dominate", "done"} =>
        \A d, b \in reachable :
            /\ Dominates(d, b) => d \in dominators[b]
            /\ phase = "done" /\ d \in dominators[b] => Dominates(d, b)

\* Every reachable block but the entry has one immediate dominator, and what else
\* dominates the block dominates that: immediate dominators form a tree.
ImmediateDominatorTree ==
    phase = "done" =>
        /\ ImmediateDominator(Entry) = {}
        /\ \A b \in reachable \ {Entry} :
              \E c \in reachable :
                  /\ ImmediateDominator(b) = {c}
                  /\ dominators[b] = dominators[c] \cup {b}

\* A reported loop header is on a cycle of reachable blocks: whatever control does
\* not leave once it has left the header includes the header.
LoopHeadersLoop ==
    phase = "done" =>
        \A h \in LoopHeaders :
            /\ h \in reachable
            /\ \A S \in SUBSET blocks :
                  successors[h] \subseteq S /\ Closed(S, {}) => h \in S

\* Edges between blocks are labelled once each, "fallthrough" exactly when they
\* lead to the next instruction rather than where the branch that ends the block
\* goes, as long as the place where it goes has a block.
LabelsMatchTargets ==
    phase = "done" =>
        LET inner == {e \in TypedEdges : e.target # {}} IN
        /\ Cardinality(inner) = Cardinality({pair \in blocks \X blocks :
                                                 pair[2] \in successors[pair[1]]})
        /\ \A e \in inner, s \in blocks :
              e.target = {s} =>
                  /\ s \in successors[e.source]
                  /\ e.kind = "fallthrough" => s = e.at + 1
                  /\ Taken(program[e.at], blocks) # {} /\ e.kind # "fallthrough" =>
                        e.address = {Address(s)}

\* The two loops end.
Termination == <>(phase = "done")
=============================================================================
