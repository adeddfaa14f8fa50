------------------------------ MODULE Heuristics ------------------------------
(***************************************************************************)
(* The findings of the obfuscation heuristics (analyzer/obfuscation.py),   *)
(* the list of all findings (api/routes/analysis.py) and the summary of    *)
(* the program's flow (analysis/flow.py).                                  *)
(*                                                                         *)
(* A function of the inventory is [address, xors, backward, immediates,    *)
(* indirect, decisions, callees]: how many of its instructions match each  *)
(* pattern, its conditional branches, and the functions it calls.  A       *)
(* sample is [entry, functions, resolvers, signs, packed, apis, failures]: *)
(* the functions in the order of their addresses, how many imports resolve *)
(* others, the techniques its imports, strings, bytes and sections show,   *)
(* whether it is packed, the groups of its imports, and its failure        *)
(* strings.  Texts, confidences and further evidence are left out.         *)
(***************************************************************************)
EXTENDS Arrangement, SequencesExt

Finding(technique, function) == <<[technique |-> technique, function |-> function]>>
When(condition, findings) == IF condition THEN findings ELSE <<>>

OfFunction(f) ==
    When(f.xors > 0 /\ f.backward > 0, Finding("xor_loop", f.address))
    \o When(f.immediates >= 3, Finding("stack_string", f.address))
    \o When(f.indirect >= 3, Finding("indirect_branch_density", f.address))

\* In the order in which they are looked for.
Signs == <<"anti_debugging", "timing_check", "base64_data", "anti_vm", "aes_constants",
           "self_modifying_code">>

OfSample(sample) ==
    When(sample.resolvers >= 2, Finding("api_dynamic_resolution", 0))
    \o FlattenSeq([i \in DOMAIN Signs |->
                     When(Signs[i] \in sample.signs, Finding(Signs[i], 0))])

OfFunctions(sample) ==
    FlattenSeq([i \in DOMAIN sample.functions |-> OfFunction(sample.functions[i])])

First(items, n) == SubSeq(items, 1, IF Len(items) < n THEN Len(items) ELSE n)

\* Those of the functions come first; limit is 250 in the code.
Obfuscation(sample, limit) == First(OfFunctions(sample) \o OfSample(sample), limit)

\* The packing finding is put in front, after the cut.
AllFindings(sample, limit) ==
    When(sample.packed, Finding("executable_packing", 0)) \o Obfuscation(sample, limit)

-----------------------------------------------------------------------------
(* summarize_program_flow *)

Decoders == {"xor_loop", "base64_data", "aes_constants", "stack_string"}
AntiAnalysis == {"anti_debugging", "anti_vm", "timing_check", "self_modifying_code"}

\* The order of positions by which functions with more decisions come first.
MoreComplex(functions, positions) ==
    {pair \in positions \X positions :
        LET f == functions[pair[1]]
            g == functions[pair[2]]
        IN \/ f.decisions > g.decisions
           \/ f.decisions = g.decisions /\ f.address < g.address}

\* The functions with decisions.
Complex(sample) ==
    LET functions == sample.functions
        branching == {i \in DOMAIN functions : functions[i].decisions > 0}
    IN RowsAt(functions, branching, MoreComplex(functions, branching))

AddressesOf(functions) == [i \in DOMAIN functions |-> functions[i].address]

EntryFunction(sample) == {f \in ToSet(sample.functions) : f.address = sample.entry}

Those(findings, techniques) ==
    Filtered(findings, {i \in DOMAIN findings : findings[i].technique \in techniques})

Stage(id, functions) == <<[id |-> id, functions |-> functions]>>

Flow(sample, limit, shown, branches) ==
    LET found == Obfuscation(sample, limit)
        decoders == Those(found, Decoders)
        callees == UNION {f.callees : f \in EntryFunction(sample)}
        of(group) == When(group \in sample.apis, Stage(group, {}))
    IN [stages |->
          Stage("entry", {sample.entry})
          \o When(callees # {}, Stage("initialization", callees))
          \o of("arguments") \o of("input")
          \o When(Complex(sample) # <<>>,
                  Stage("validation", ToSet(First(AddressesOf(Complex(sample)), shown))))
          \o When(decoders # <<>>,
                  Stage("encoding", {x.function : x \in ToSet(decoders)} \ {0}))
          \o of("file") \o of("network") \o of("persistence"),
        branches |-> First(AddressesOf(Complex(sample)), branches),
        failures |-> First(sample.failures, 20),
        antiAnalysis |-> Those(found, AntiAnalysis)]

-----------------------------------------------------------------------------
(* Properties *)

Techniques(findings) == {findings[i].technique : i \in DOMAIN findings}

\* A sign of the whole sample is missing from the findings, and from the flow summary,
\* only when findings of functions have used the limit up; a packed sample always
\* says so first.  The flow summary names no decision while leaving out a function with
\* more of them.
FindingsReachFlow(sample, limit, shown, branches) ==
    LET all == AllFindings(sample, limit)
        flow == Flow(sample, limit, shown, branches)
        lost == Techniques(OfSample(sample)) \ Techniques(all)
        named == ToSet(flow.branches)
    IN /\ lost # {} => Len(OfFunctions(sample)) + Len(OfSample(sample)) > limit
       /\ sample.packed => all # <<>> /\ Head(all).technique = "executable_packing"
       /\ Techniques(flow.antiAnalysis) = AntiAnalysis \cap Techniques(all)
       /\ (\E i \in DOMAIN flow.stages : flow.stages[i].id = "encoding")
            <=> Decoders \cap Techniques(all) # {}
       /\ \A f, g \in ToSet(sample.functions) :
             f.address \in named /\ g.address \notin named => g.decisions <= f.decisions
=============================================================================
