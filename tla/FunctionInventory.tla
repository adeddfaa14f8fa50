-------------------------- MODULE FunctionInventory --------------------------
(***************************************************************************)
(* The inventory of functions and the call graph (analysis/functions.py)   *)
(* of a binary, over the linear disassembly of its code sections.          *)
(*                                                                         *)
(* A binary is [entry, symbols, sections]: the entry point, the addresses  *)
(* of its function symbols, and per code section the base address, the     *)
(* size and the instructions decoded from what the file stores of it, two  *)
(* bytes each; an odd address is inside an instruction, one behind them    *)
(* has none.  Sections are given in the order of their addresses.          *)
(* Limits are [scan, functions, body, nodes], the max_* settings.          *)
(*                                                                         *)
(* Left out: names, annotations, stack frames and confidences.             *)
(***************************************************************************)
EXTENDS Classify, Arrangement, FiniteSetsExt, SequencesExt

End(s) == s.base + s.size

\* The instructions of a section with their addresses.
Listing(s) == [i \in DOMAIN s.code |->
                 [address |-> s.base + 2 * (i - 1), base |-> s.base, op |-> s.code[i]]]

Swept(listing, s) == listing \o Listing(s)
Code(b) == Folded(<<>>, b.sections, Swept)

\* The linear sweep, bounded by max_function_scan_instructions.
Decoded(b, limits) == SubSeq(Code(b), 1, Min({limits.scan, Len(Code(b))}))
ScanTruncated(b, limits) == Len(Code(b)) > limits.scan

Holding(b, a) == {i \in DOMAIN b.sections : b.sections[i].base <= a /\ a < End(b.sections[i])}
InImage(b, a) == Holding(b, a) # {}

CallTargets(b, listing) ==
    {a \in UNION {listing[i].op.target : i \in {k \in DOMAIN listing : IsCall(listing[k].op)}} :
        InImage(b, a)}

\* Entry point, function symbols and direct call targets inside the image.
CandidateReasons(b, limits) ==
    {a \in {b.entry} \cup b.symbols : InImage(b, a)} \cup CallTargets(b, Decoded(b, limits))

Lowest(addresses, n) == {a \in addresses : Cardinality({x \in addresses : x < a}) < n}

Candidates(b, limits) == Lowest(CandidateReasons(b, limits), limits.functions)

InventoryTruncated(b, limits) ==
    \/ ScanTruncated(b, limits)
    \/ Cardinality(CandidateReasons(b, limits)) > limits.functions

\* The instructions from a candidate to the next one of its section.
Extent(b, limits, a) ==
    LET s == b.sections[CHOOSE i \in Holding(b, a) : TRUE]
        next == Min({c \in Candidates(b, limits) : a < c /\ c < End(s)} \cup {End(s)})
        decoded == Decoded(b, limits)
        inside(x) == x.base = s.base /\ a <= x.address /\ x.address < next
        extent == Filtered(decoded, {i \in DOMAIN decoded : inside(decoded[i])})
    IN SubSeq(extent, 1, Min({limits.body, Len(extent)}))

\* Mutant: the first return ends the function.
BoundedAtReturn(extent, a) ==
    LET ends == {i \in DOMAIN extent : IsReturn(extent[i].op)} IN
    SubSeq(extent, 1, IF ends = {} THEN Len(extent) ELSE Min(ends))

\* ... up to a return that no jump before it leads beyond.
Bounded(extent, a) ==
    LET forward(i) == Max({a} \cup UNION {extent[k].op.target :
                                            k \in {n \in 1..i : IsJump(extent[n].op)}})
        ends == {i \in DOMAIN extent :
                   IsReturn(extent[i].op) /\ extent[i].address + 2 > forward(i)}
    IN SubSeq(extent, 1, IF ends = {} THEN Len(extent) ELSE Min(ends))

Body(b, limits, a) == Bounded(Extent(b, limits, a), a)

Callees(b, limits, a) ==
    LET body == Body(b, limits, a) IN
    UNION {body[i].op.target : i \in {k \in DOMAIN body : IsCall(body[k].op)}}
      \cap Candidates(b, limits)

Callers(b, limits, a) == {c \in Candidates(b, limits) : a \in Callees(b, limits, c)}

BlockCount(body, a) ==
    LET jumps == {i \in DOMAIN body : IsJump(body[i].op)}
        inside(t) == a <= t /\ t < Last(body).address + 2
    IN Max({1, Cardinality({a} \cup {body[i].address + 2 : i \in jumps}
                 \cup {t \in UNION {body[i].op.target : i \in jumps} : inside(t)})})

\* What analyze_functions reports of candidate a; one without instructions is not
\* in the inventory.
Function(b, limits, a) ==
    LET body == Body(b, limits, a) IN
    [address |-> a,
     size |-> Last(body).address + 2 - a,
     body |-> body,
     callees |-> Callees(b, limits, a),
     callers |-> Callers(b, limits, a),
     decisions |-> Cardinality({i \in DOMAIN body : FallsThrough(body[i].op)}),
     blocks |-> BlockCount(body, a),
     thunk |-> Len(body) <= 2 /\ IsUnconditionalJump(Last(body).op),
     truncated |-> InventoryTruncated(b, limits) \/ Len(body) >= limits.body]

Inventory(b, limits) ==
    {Function(b, limits, a) : a \in {c \in Candidates(b, limits) : Body(b, limits, c) # <<>>}}

-----------------------------------------------------------------------------
(* get_function and build_call_graph *)

Listed(functions) == {f.address : f \in functions}
At(functions, a) == CHOOSE f \in functions : f.address = a

\* The function at the address, or the first that contains it.
Found(functions, a) ==
    LET containing == {f \in functions : f.address <= a /\ a < f.address + f.size} IN
    IF a \in Listed(functions) THEN {a}
    ELSE IF containing = {} THEN {} ELSE {Min(Listed(containing))}

\* One turn of the breadth-first search; the queue holds addresses and depths.
Turn(functions, depth, search) ==
    IF search.queue = <<>> THEN search
    ELSE LET head == Head(search.queue)
             new == (At(functions, head.address).callees \cap Listed(functions))
                      \ search.selected
             sorted == Ascending(new)
         IN IF head.depth >= depth THEN [search EXCEPT !.queue = Tail(@)]
            ELSE [selected |-> search.selected \cup new,
                  queue |-> Tail(search.queue)
                              \o [i \in 1..Cardinality(new) |->
                                    [address |-> sorted[i], depth |-> head.depth + 1]]]

\* Every function enters the queue once at most.
Searched(functions, root, depth) ==
    LET after[n \in 0..Cardinality(functions)] ==
          IF n = 0 THEN [selected |-> {root}, queue |-> <<[address |-> root, depth |-> 0]>>]
          ELSE Turn(functions, depth, after[n - 1])
    IN after[Cardinality(functions)].selected

\* roots is {} for the graph of the whole binary.
CallGraph(functions, roots, depth, limits) ==
    LET selected == IF roots = {} THEN Listed(functions)
                    ELSE Searched(functions, CHOOSE r \in roots : TRUE, depth)
        nodes == Lowest(selected, limits.nodes)
    IN [nodes |-> nodes,
        edges |-> {e \in nodes \X nodes : e[2] \in At(functions, e[1]).callees},
        truncated |-> Cardinality(selected) > limits.nodes]

-----------------------------------------------------------------------------
(* Properties, of every binary and limits *)

Unlimited(b) ==
    LET n == 2 * Len(Code(b)) + 2 + Cardinality(b.symbols) IN
    [scan |-> n, functions |-> n, body |-> n, nodes |-> n]

Addresses(body) == {body[i].address : i \in DOMAIN body}

\* An instruction belongs to one function at most, wherever calls lead to.
BodiesDisjoint(functions) ==
    \A f, g \in functions : f # g => Addresses(f.body) \cap Addresses(g.body) = {}

\* A direct jump does not leave the function for an instruction between its end and
\* the next candidate: an early return does not cut the rest off.
BranchesStayInside(b, limits, functions) ==
    \A f \in functions : \A i \in DOMAIN f.body :
        IsJump(f.body[i].op) =>
            f.body[i].op.target \cap Addresses(Extent(b, limits, f.address))
              \subseteq Addresses(f.body)

\* What a function that is not marked truncated says of itself does not depend on the
\* limits: neither the scan nor the inventory nor its own body was cut.  (Its callers
\* may have been.)
TruncationHonest(b, limits, functions) ==
    \A f \in functions :
        ~f.truncated =>
            LET whole == Function(b, Unlimited(b), f.address) IN
            f.body = whole.body /\ f.callees = whole.callees

\* Looking an address up never has to choose between two functions.
LookupUnique(b, functions) ==
    \A a \in 0..Max({End(b.sections[i]) : i \in DOMAIN b.sections}) :
        a \notin Listed(functions) =>
            Cardinality({f \in functions : f.address <= a /\ a < f.address + f.size}) <= 1

\* The functions within n calls of the root.
Within(functions, root, n) ==
    LET near[k \in 0..n] ==
          IF k = 0 THEN {root}
          ELSE near[k - 1] \cup (Listed(functions)
                  \cap UNION {At(functions, a).callees : a \in near[k - 1]})
    IN near[n]

\* The graph has the functions within depth calls of its root and the calls between
\* them, or says that it was cut.
GraphExact(functions, root, depth, limits) ==
    LET graph == CallGraph(functions, {root}, depth, limits)
        near == Within(functions, root, depth)
    IN /\ graph.nodes \subseteq near
       /\ graph.truncated <=> graph.nodes # near
       /\ graph.edges = {e \in graph.nodes \X graph.nodes :
                            e[2] \in At(functions, e[1]).callees}
=============================================================================
