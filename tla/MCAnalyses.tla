------------------------------ MODULE MCAnalyses ------------------------------
(***************************************************************************)
(* The algorithms of the analyses on small inputs, one input per state,    *)
(* and beside them the parse cache and the analysts' overlays as state     *)
(* machines of their own.                                                  *)
(***************************************************************************)
EXTENDS FunctionInventory, Listings, MemoryAnalysis, ExternalTools, Migration, Triage,
        Heuristics, ParseCache, Overlays, TLC

CONSTANTS Parts,  \* which of "binaries", "outside", "cache", "overlays" a run explores
          t1, t2, t3, k1, k2, k3, alice, bob, there, p1, s1, r1, r2

VARIABLES part, question

vars == <<part, question, cacheVars, overlayVars>>

ThreeThreads == {t1, t2, t3}
ThreeKeys == {k1, k2, k3}
TwoAnalysts == {alice, bob}
OneAdmin == {bob}
OneTarget == {there}
Grants == {<<alice, there>>, <<alice, s1>>}
EveryGrant == TwoAnalysts \X {there, s1}
OneFolder == {p1}
OneItem == {s1}
TwoRequests == {r1, r2}

None == [kind |-> "none"]
Ask(q) == question = None /\ question' = q

-----------------------------------------------------------------------------
(* Functions *)

Make(groups, mnemonic, target) ==
    [groups |-> groups, mnemonic |-> mnemonic, link |-> FALSE, target |-> target]

Plain == Make({}, "other", {})
Return1 == Make({"return"}, "other", {})
Calls(a) == Make({"jump", "call"}, "other", {a})
Branch(a) == Make({"jump"}, "other", {a})

\* The first section is at 2 to 10, the second at 20 to 26, of which the file stores less;
\* 5 is inside an instruction.
FirstCode == {Plain, Return1, Calls(6), Calls(5), Calls(20), Branch(8)}
Whole == [scan |-> 20, functions |-> 20, body |-> 20, nodes |-> 20]
Tight == [scan |-> 4, functions |-> 2, body |-> 3, nodes |-> 1]
\* Only the bodies are cut.
Short == [scan |-> 20, functions |-> 20, body |-> 2, nodes |-> 20]

AskFunctions ==
    \E first \in [1..4 -> FirstCode], limits \in {Whole, Tight, Short} :
        Ask([kind |-> "functions", limits |-> limits,
             binary |-> [entry |-> 2,
                         symbols |-> IF limits = Tight THEN {8} ELSE {24},
                         sections |-> <<[base |-> 2, size |-> 8, code |-> first],
                                        [base |-> 20, size |-> 6,
                                         code |-> IF limits = Tight THEN <<Return1>>
                                                  ELSE <<Calls(4), Return1>>]>>]])

FunctionsExact(b, limits) ==
    LET functions == Inventory(b, limits) IN
    /\ BodiesDisjoint(functions)
    /\ BranchesStayInside(b, limits, functions)
    /\ TruncationHonest(b, limits, functions)
    /\ LookupUnique(b, functions)
    /\ \A root \in Listed(functions), depth \in 0..2 : GraphExact(functions, root, depth, limits)

-----------------------------------------------------------------------------
(* Listings *)

\* Code sections, one of them empty, one with fewer bytes in the file than its size.
Sections ==
    {<<[base |-> 1, size |-> size, stored |-> Min({size, stored}), code |-> TRUE],
       [base |-> 5, size |-> 2, stored |-> 2, code |-> code]>> :
         size \in {0, 3}, stored \in {0, 2, 3}, code \in BOOLEAN}
Given == {{}} \cup {{a} : a \in {0, 1, 2, 5, 9}}

AskListings ==
    \/ \E sections \in Sections, entry \in {0, 2, 6}, address \in Given,
          count \in {{}, {0}, {2}}, limit \in 1..3 :
          Ask([kind |-> "disassembly", sections |-> sections, entry |-> entry,
               address |-> address, count |-> count, limit |-> limit])
    \/ \E size \in {0, 1, 15, 16, 17, 33}, offset, count \in -1..3, limit \in 1..3 :
          Ask([kind |-> "region", size |-> size, offset |-> offset, count |-> count,
               limit |-> limit])
    \/ \E list \in UNION {[1..n -> [a : BOOLEAN, b : BOOLEAN]] : n \in 0..3},
          filters \in SUBSET {"a", "b"}, limit \in 1..3 :
          Ask([kind |-> "pages", list |-> list, filters |-> filters, limit |-> limit])

-----------------------------------------------------------------------------
(* Memory *)

NoReports == [p \in Plugins |-> [completed |-> FALSE, rows |-> <<>>]]
Done(reported) == [completed |-> TRUE, rows |-> reported]
Roomy == [p \in Plugins \cup {"processes", "findings"} |-> 4]
Cramped == [p \in Plugins \cup {"processes", "findings"} |->
              IF p = "processes" THEN 1 ELSE 2]

Row(pid, ppid, name, command) == [pid |-> pid, ppid |-> ppid, name |-> name, command |-> command]
ListRows == {Row(pid, ppid, "app", Unknown) : pid \in {1, 2}, ppid \in {Unknown, 0, 2, 3}}
              \cup {Row(-1, 0, "app", Unknown)}
TreeRows == {Row(pid, ppid, Unknown, command) :
               pid \in {1, 3}, ppid \in {Unknown, 2}, command \in {Unknown, "run"}}
UpTo2(set) == {<<>>} \cup {<<r>> : r \in set} \cup {<<r, s>> : r, s \in set}
CommandRows == {<<>>, <<[pid |-> 2, name |-> "app", command |-> "run"]>>}

AskProcesses ==
    \E listed \in UpTo2(ListRows), tree \in {<<>>} \cup {<<r>> : r \in TreeRows},
       commands \in CommandRows, completed \in BOOLEAN, limits \in {Roomy, Cramped} :
        Ask([kind |-> "memory", limits |-> limits, secret |-> 0,
             reports |-> [NoReports EXCEPT !["pslist"] = Done(listed),
                                           !["pstree"] = [completed |-> completed, rows |-> tree],
                                           !["cmdline"] = Done(commands)]])

Region(pid, start, end, protection, file) ==
    [pid |-> pid, start |-> start, end |-> end, protection |-> protection, private |-> TRUE,
     file |-> file]
Regions == {Region(1, 2, 4, {"X", "W"}, Unknown), Region(1, 3, 3, {"X"}, Unknown),
            Region(2, 2, 4, {"X"}, Unknown), Region(1, 6, 7, {"X"}, "dll"),
            Region(1, 6, 7, {"X", "W"}, "dll"), Region(1, 3, 2, {"X", "W"}, Unknown)}
ThreadRows == {[pid |-> pid, tid |-> 1, name |-> Unknown, kernel |-> kernel, win32 |-> win32] :
                 pid \in {1, 2}, kernel \in {Unknown, 4}, win32 \in {Unknown, 3, 6}}
Endpoint(protocol, port, name) ==
    [protocol |-> protocol, pid |-> 1, name |-> name, local |-> "any", localPort |-> 1,
     remote |-> IF port = 0 THEN "none" ELSE "public", global |-> port # 0, port |-> port,
     listening |-> port = 0]
Endpoints == {<<>>, <<Endpoint("tcp", 80, "app"), Endpoint("tcp", 80, "app")>>,
              <<Endpoint("tcp", 80, "app"), Endpoint("udp", 80, "app")>>,
              <<Endpoint("tcp", 80, "app"), Endpoint("tcp", 0, Unknown)>>}

AskFindings ==
    \E regions \in UpTo2(Regions), threads \in {<<>>} \cup {<<t>> : t \in ThreadRows},
       endpoints \in Endpoints, limits \in {Roomy, Cramped}, secret \in 0..1 :
        Ask([kind |-> "memory", limits |-> limits, secret |-> secret,
             reports |-> [NoReports EXCEPT !["vadinfo"] = Done(regions),
                                           !["threads"] = Done(threads),
                                           !["netscan"] = Done(endpoints)]])

-----------------------------------------------------------------------------
(* Tools, databases *)

AskTools ==
    \/ \E outcomes \in [Tools -> Outcomes] : Ask([kind |-> "decompilers", outcomes |-> outcomes])
    \/ \E outcomes \in [{"pslist", "netscan"} -> Outcomes] :
          Ask([kind |-> "plugins", outcomes |-> outcomes])

AskDatabase ==
    \E r \in Revisions, by \in {"models", "migrations"}, started \in 0..Latest, crash \in BOOLEAN :
        Ask([kind |-> "database", revision |-> r, by |-> by, started |-> started,
             crash |-> crash])

-----------------------------------------------------------------------------
(* Triage and heuristics *)

\* A query is not cut off.
HostOf(value) ==
    IF value \in {"http://a", "x@a"} THEN "a" ELSE IF value = "http://a?q" THEN "a?q" ELSE value

Strings ==
    {[url |-> "http://a"], [email |-> "x@a"], [domain |-> "a"],
     [url |-> "http://a", domain |-> "a"], [url |-> "http://a?q", domain |-> "a"],
     [filepath |-> "c"], [url |-> "d"]}
Further == Strings \cup {[url |-> "e"]}
Knowledge ==
    [capabilities |-> <<[severity |-> "high", apis |-> {"inject"}],
                        [severity |-> "critical", apis |-> {"inject", "hook"}]>>,
     signatures |-> <<[severity |-> "critical", patterns |-> {"m", "n"}, minimum |-> 2]>>]
Signals(packers, weak) ==
    [packers |-> packers, codeEntropy |-> FALSE, fileEntropy |-> weak, fewImports |-> weak,
     writableCode |-> weak, overlay |-> FALSE, resolution |-> FALSE]

AskTriage ==
    \E strings \in UNION {[1..n -> Strings] : n \in 0..2},
       other \in {<<{}, {}, Signals(0, FALSE)>>, <<{"hook"}, {"m"}, Signals(1, FALSE)>>,
                  <<{"inject"}, {"m", "n"}, Signals(0, TRUE)>>} :
        Ask([kind |-> "triage",
             sample |-> [strings |-> strings, imports |-> other[1], patterns |-> other[2],
                         packing |-> other[3]]])

FunctionKinds(a) ==
    {[address |-> a, xors |-> x, backward |-> x, immediates |-> m, indirect |-> 0,
      decisions |-> d, callees |-> IF a = 1 THEN {2} ELSE {}] :
        x \in 0..1, m \in {0, 3}, d \in 0..1}

AskHeuristics ==
    \E f \in FunctionKinds(1), g \in FunctionKinds(2), h \in FunctionKinds(3),
       signs \in {{}, {"anti_debugging", "base64_data", "self_modifying_code"}},
       packed \in BOOLEAN :
        Ask([kind |-> "heuristics",
             sample |-> [entry |-> 1, functions |-> <<f, g, h>>, resolvers |-> 2,
                         signs |-> signs, packed |-> packed, apis |-> {"network"},
                         failures |-> <<"failed">>]])

-----------------------------------------------------------------------------
(* The runs *)

Init ==
    /\ part \in Parts
    /\ question = None
    /\ CacheInit
    /\ OverlaysInit
    /\ part = "overlays" \/ engine = "sqlite"

\* The binary and what is said of it.
Binaries ==
    /\ part = "binaries"
    /\ AskListings \/ AskFunctions \/ AskHeuristics \/ AskTriage
    /\ UNCHANGED <<part, cacheVars, overlayVars>>

\* Everything that comes from outside: tools, their reports, databases.
Outside ==
    /\ part = "outside"
    /\ AskDatabase \/ AskTools \/ AskFindings \/ AskProcesses
    /\ UNCHANGED <<part, cacheVars, overlayVars>>

Cache == part = "cache" /\ CacheNext /\ UNCHANGED <<part, question, overlayVars>>
Overlay == part = "overlays" /\ OverlaysNext /\ UNCHANGED <<part, question, cacheVars>>

Next == Binaries \/ Outside \/ Cache \/ Overlay
Spec == Init /\ [][Next]_vars

-----------------------------------------------------------------------------
(* Properties: what the modules state, of the input of the state *)

Asked(kind) == question.kind = kind

\* Functions, call graphs, listings, pages, triage and heuristics say what is in the
\* binary and where they were cut (analysis/functions.py, disassembler/disassembler.py,
\* malware/triage.py, analyzer/obfuscation.py, analysis/flow.py).
ListingsExact ==
    LET q == question IN
    /\ Asked("functions") => FunctionsExact(q.binary, q.limits)
    /\ Asked("disassembly") =>
          DisassemblyHonest(q.sections, q.entry, q.address, q.count, q.limit)
    /\ Asked("region") =>
          /\ RegionHonest(q.size, q.offset, q.count, q.limit)
          /\ q.count > 0 => HexTiles(q.size, 8 * q.count)
    /\ Asked("pages") => PagesTile(q.list, q.filters, q.limit)
    /\ Asked("triage") =>
          \A limit \in {2, 9}, more \in Further :
              TriageSteady(q.sample, more, Knowledge, limit)
    /\ Asked("heuristics") =>
          \A limit \in {1, 2, 4, 20}, branches \in 1..2 :
              FindingsReachFlow(q.sample, limit, branches, branches)

\* The result of a memory analysis follows from what the plugins reported
\* (memory/volatility.py, memory/analyzer.py).
MemoryFaithful ==
    LET q == question IN
    Asked("memory") =>
        /\ OrphansHonest(q.reports, q.limits)
        /\ NothingLostSilently(q.reports, q.limits)
        /\ ThreadsCorrelated(q.reports, q.limits)
        /\ FindingsWarned(q.reports, q.limits, q.secret)

\* A result comes only of a tool that worked, the first one asked that did, and of the
\* file asked for; a tool that fails in one of the ways its adapter knows costs nothing
\* but itself (decompiler/registry.py, integrations/, memory/volatility.py).
ToolsDegrade ==
    LET q == question IN
    /\ Asked("decompilers") => DecompilationInOrder(q.outcomes)
    /\ Asked("plugins") =>
          PluginsAccounted(q.outcomes) /\ NoResultWithoutRun(q.outcomes["pslist"])

\* Refuted: what the documentation says of every failure of a tool.  Each of the four
\* clauses fails by itself.
\* decompiler/registry.py:45: "always degrade to pseudo-C"; Ghidra's JSON of another shape
\* ends the request.  docs/MEMORY_ANALYSIS.md:79: "a malformed result from one plugin is
\* recorded as a provider warning"; bytes that are not UTF-8 fail the whole analysis.
\* integrations/base.py:5: "raises IntegrationUnavailableError rather than crashing"; a
\* tool that cannot be started crashes.  malware/ghidra_enrichment.py:62: "Never raises for
\* an operational Ghidra problem"; a launcher that cannot be started raises OSError.
ToolFailuresContained ==
    LET q == question IN
    /\ Asked("decompilers") => AlwaysAnswered(q.outcomes)
    /\ Asked("plugins") =>
          /\ MalformedStaysLocal(q.outcomes)
          /\ UnavailableNotCrash(q.outcomes["pslist"])
          /\ TriageNeverRaises(q.outcomes["pslist"])

\* A bootstrap brings every database that was never started ahead of it to the current
\* schema, and destroys nothing (database/migrate.py).
SchemaAdopted ==
    LET q == question IN
    Asked("database") => Adopted(q.revision, q.by, q.started, q.crash)
=============================================================================
