---------------------------- MODULE ExternalTools ----------------------------
(***************************************************************************)
(* What becomes of a request when an external tool is missing or           *)
(* misbehaves: the decompilers and their registry, the integrations,       *)
(* Ghidra's triage of a sample, the memory-forensics plugins and the       *)
(* unpacker.  Each adapter is the table of what it makes of each way a run *)
(* of its tool can end; the registry goes from one to the next.            *)
(*                                                                         *)
(* A run ends in one of Outcomes.  vanished: the tool is there when its    *)
(* availability is asked for and gone when it is looked up to be run;      *)
(* cannot_start: found, and the system refuses to run it.                  *)
(* not_text: output that would do but for a byte that is not UTF-8;        *)
(* empty: as expected, with nothing in it.  Shapes is JSON of another      *)
(* shape: a list of anything but objects, anything but a list where one is *)
(* looked up, an object without the key, text where a number is looked up. *)
(* A sample's file is whole, unmapped (it parses, and the address is in    *)
(* none of its functions or in code that cannot be disassembled), damaged  *)
(* (its parser refuses it) or gone.                                        *)
(*                                                                         *)
(* An adapter answers "answer" or raises an exception, named as in Python. *)
(***************************************************************************)
EXTENDS Arrangement, FiniteSetsExt, SequencesExt

Shapes == {"not_object", "not_list", "lacks_key", "not_number"}
\* What is found of a tool that is not run to its end.
NotRun == {"missing", "vanished", "cannot_start", "timed_out", "failed"}
Outcomes == NotRun \cup {"no_output", "too_large", "not_text", "not_json", "empty", "usable"}
                   \cup Shapes
SampleStates == {"whole", "unmapped", "damaged", "gone"}

IU == "IntegrationUnavailableError"

\* How the adapters read the output of a run that ended normally.
GhidraReads ==
    [no_output |-> IU, too_large |-> IU, not_text |-> "UnicodeDecodeError",
     not_json |-> "JSONDecodeError", not_object |-> "AttributeError", not_list |-> "TypeError",
     lacks_key |-> "KeyError", not_number |-> "ValueError", empty |-> "answer",
     usable |-> "answer"]
R2Reads ==
    [no_output |-> IU, too_large |-> IU, not_text |-> "answer", not_json |-> IU,
     not_object |-> IU, not_list |-> "answer", lacks_key |-> IU, not_number |-> "answer",
     empty |-> IU, usable |-> "answer"]
\* It reads C, whatever that is.
RetDecReads ==
    [no_output |-> IU, too_large |-> IU, not_text |-> "answer", not_json |-> "answer",
     not_object |-> "answer", not_list |-> "answer", lacks_key |-> "answer",
     not_number |-> "answer", empty |-> IU, usable |-> "answer"]
\* subprocess.run(text=True) decodes; no output is a log without lines.
GhidraLogReads ==
    [no_output |-> "answer", too_large |-> "answer", not_text |-> "UnicodeDecodeError",
     not_json |-> "answer", not_object |-> "answer", not_list |-> "answer",
     lacks_key |-> "answer", not_number |-> "answer", empty |-> "answer",
     usable |-> "answer"]
R2FunctionsReads ==
    [no_output |-> "answer", too_large |-> "answer", not_text |-> "UnicodeDecodeError",
     not_json |-> "answer", not_object |-> "AttributeError", not_list |-> "TypeError",
     lacks_key |-> "answer", not_number |-> "answer", empty |-> "answer",
     usable |-> "answer"]
PluginReads ==
    [no_output |-> IU, too_large |-> IU, not_text |-> "UnicodeDecodeError", not_json |-> IU,
     not_object |-> "answer", not_list |-> "unsupported", lacks_key |-> "unsupported",
     not_number |-> "answer", empty |-> "answer", usable |-> "answer"]
\* "answer" here means the enrichment itself; "detail" a report that it was not done.
TriageReads ==
    [no_output |-> "detail", too_large |-> "detail", not_text |-> "detail",
     not_json |-> "detail", not_object |-> "detail", not_list |-> "answer",
     lacks_key |-> "answer", not_number |-> "answer", empty |-> "answer",
     usable |-> "answer"]
\* It reads an executable, which is neither text nor JSON.
UpxReads ==
    [no_output |-> IU, too_large |-> IU, not_text |-> "answer", not_json |-> "answer",
     not_object |-> "ParseError", not_list |-> "ParseError", lacks_key |-> "ParseError",
     not_number |-> "ParseError", empty |-> "ParseError", usable |-> "answer"]

\* A run of a tool: found, started, in time, with status 0, and then read.
Run(outcome, reads) ==
    CASE outcome \in {"missing", "vanished", "timed_out", "failed"} -> IU
      [] outcome = "cannot_start" -> "OSError"
      [] OTHER -> reads[outcome]

\* The decompilers look for the sample before they start the tool.
OnSample(outcome, sample, reads) ==
    IF sample = "gone" THEN IU ELSE Run(outcome, reads)

-----------------------------------------------------------------------------
(* Decompilation *)

Adapters == <<"ghidra", "r2ghidra", "retdec", "pseudo_c">>
Tools == {"ghidra", "r2ghidra", "retdec"}

\* The built-in one reads and parses the sample itself.
PseudoC(sample) ==
    CASE sample = "gone" -> "FileNotFoundError"
      [] sample = "damaged" -> "ParseError"
      [] sample = "unmapped" -> "DisassemblyError"
      [] OTHER -> "answer"

Decompile(adapter, outcomes, sample) ==
    CASE adapter = "ghidra" -> OnSample(outcomes[adapter], sample, GhidraReads)
      [] adapter = "r2ghidra" -> OnSample(outcomes[adapter], sample, R2Reads)
      [] adapter = "retdec" -> OnSample(outcomes[adapter], sample, RetDecReads)
      [] OTHER -> PseudoC(sample)

IsAvailable(adapter, outcomes) == adapter = "pseudo_c" \/ outcomes[adapter] # "missing"

\* Mutant: a named provider is the only candidate.
ProvidersNamed(provider) ==
    IF provider = "auto" THEN Adapters
    ELSE Filtered(Adapters, {i \in DOMAIN Adapters : Adapters[i] = provider})

Providers(provider) ==
    LET named == Filtered(Adapters, {i \in DOMAIN Adapters : provider \in {"auto", Adapters[i]}})
    IN IF Contains(named, "pseudo_c") THEN named ELSE Append(named, "pseudo_c")

\* IntegrationUnavailableError, OSError and ValueError, with their subclasses.
Caught == {IU, "OSError", "FileNotFoundError", "ValueError", "UnicodeDecodeError",
           "JSONDecodeError"}

PassedOver(adapter, outcomes, sample) ==
    ~IsAvailable(adapter, outcomes) \/ Decompile(adapter, outcomes, sample) \in Caught

\* provider is the adapter whose answer or exception ends the search; skipped are the
\* ones before it, each with a warning.
DecompileFunction(provider, outcomes, sample) ==
    LET providers == Providers(provider)
        ends == {i \in DOMAIN providers : ~PassedOver(providers[i], outcomes, sample)}
    IN IF ends = {}
       THEN [result |-> IU, provider |-> "none", skipped |-> ToSet(providers)]
       ELSE LET adapter == providers[Min(ends)] IN
            [result |-> Decompile(adapter, outcomes, sample), provider |-> adapter,
             skipped |-> {providers[i] : i \in 1..(Min(ends) - 1)}]

-----------------------------------------------------------------------------
(* The other tools *)

\* binary_ninja runs inside the process: whatever goes wrong is reported.
Integrate(name, outcome) ==
    CASE name = "ghidra" -> Run(outcome, GhidraLogReads)
      [] name = "radare2" -> Run(outcome, R2FunctionsReads)
      [] OTHER -> IF outcome \in {"usable", "empty"} THEN "answer" ELSE IU

\* enrich_with_ghidra
Enrich(outcome, sample) ==
    IF sample = "gone" \/ outcome \in {"missing", "vanished", "timed_out", "failed"}
    THEN "detail"
    ELSE IF outcome = "cannot_start" THEN "OSError" ELSE TriageReads[outcome]

\* VolatilityAdapter.analyze: a plugin completes, leaves a warning, or takes the whole
\* analysis with it.
PluginEnds(outcome) ==
    LET result == Run(outcome, PluginReads) IN
    CASE result = "answer" -> "completed"
      [] result \in {IU, "unsupported"} -> "warning"
      [] OTHER -> "escaped"

PluginReports(outcomes) ==
    LET ends(p) == PluginEnds(outcomes[p]) IN
    [completed |-> {p \in DOMAIN outcomes : ends(p) = "completed"},
     warned |-> {p \in DOMAIN outcomes : ends(p) = "warning"},
     analysed |-> \A p \in DOMAIN outcomes : ends(p) # "escaped"]

\* extract_region accepts exactly one row for the region, and a file of its size; rows
\* of another shape are none.
ExtractRegion(outcome, matches, region, file) ==
    LET reads == [o \in DOMAIN PluginReads |-> IF o \in Shapes THEN IU ELSE PluginReads[o]]
        listed == Run(outcome, reads)
        exact == /\ matches = 1
                 /\ region.size <= region.limit
                 /\ file.inside
                 /\ file.size = region.size /\ file.size >= 1
    IN IF listed = "answer" /\ ~exact THEN IU ELSE listed

\* unpack_upx parses the sample before and the result after the run.
Unpack(outcome, sample) ==
    IF outcome = "missing" \/ sample = "gone" THEN IU
    ELSE IF sample = "damaged" THEN "ParseError" ELSE Run(outcome, UpxReads)

\* Status of the response to a request that ended so.
Status(result) ==
    CASE result = IU -> 503
      [] result \in {"ParseError", "DisassemblyError"} -> 422
      [] result \in {"answer", "detail"} -> 200
      [] OTHER -> 500

-----------------------------------------------------------------------------
(* Properties *)

Asking == {"auto", "ghidra", "pseudo_c", "unknown"}

\* decompiler/registry.py:45: an answer comes from the first candidate that works, every
\* one before it left a warning, and the built-in one answers only if no tool asked for
\* works; a sample whose file is gone is refused in order, never a result.  Tools that do
\* not run to their end, or write nothing, too much or what is no JSON, cost no request
\* for a function of the sample its answer.
DecompilationInOrder(outcomes) ==
    \A provider \in Asking, sample \in SampleStates :
        LET answered == DecompileFunction(provider, outcomes, sample)
            works(name) == /\ Decompile(name, outcomes, sample) = "answer"
                           /\ IsAvailable(name, outcomes)
            asked == ToSet(Providers(provider))
        IN /\ answered.result = "answer" =>
                /\ works(answered.provider)
                /\ \A a \in answered.skipped : ~works(a)
                /\ answered.provider = "pseudo_c" => \A a \in asked \cap Tools : ~works(a)
           /\ sample = "gone" => answered.result = IU
           /\ sample = "whole" /\ (\A t \in Tools : outcomes[t] \notin Shapes) =>
                answered.result = "answer"

\* docs/MEMORY_ANALYSIS.md:80: of an analysis that ends, every plugin completed or left a
\* warning, and only a plugin that wrote rows completed.
PluginsAccounted(outcomes) ==
    LET reports == PluginReports(outcomes) IN
    /\ reports.analysed =>
         /\ reports.completed \cup reports.warned = DOMAIN outcomes
         /\ reports.completed \cap reports.warned = {}
    /\ \A p \in reports.completed :
         outcomes[p] \in {"empty", "usable", "not_object", "not_number"}
    /\ (\A p \in DOMAIN outcomes : outcomes[p] \notin {"cannot_start", "not_text"}) =>
         reports.analysed

\* integrations/base.py:4: no result comes of a tool that was not run to its end, and a
\* missing one is reported as unavailable; the plugin that extracts a region and the
\* unpacker leave no result when the file is not the one asked for.
NoResultWithoutRun(outcome) ==
    /\ \A name \in {"ghidra", "radare2", "binary_ninja"} :
          LET result == Integrate(name, outcome) IN
          /\ outcome \in NotRun => result # "answer"
          /\ outcome = "missing" => Status(result) = 503
    /\ \A matches, size, written \in 0..2, inside \in BOOLEAN :
          LET result == ExtractRegion(outcome, matches, [size |-> size, limit |-> 1],
                                      [inside |-> inside, size |-> written])
          IN Status(result) = 200 =>
                /\ outcome \in {"empty", "usable"}
                /\ matches = 1 /\ inside /\ written = size /\ size = 1
    /\ \A sample \in SampleStates :
          LET result == Unpack(outcome, sample) IN
          Status(result) = 200 =>
              /\ sample \notin {"damaged", "gone"}
              /\ outcome \in {"usable", "not_text", "not_json"}
    /\ \A sample \in SampleStates :
          Enrich(outcome, sample) = "answer" =>
              sample # "gone" /\ outcome \notin NotRun /\ TriageReads[outcome] = "answer"

\* decompiler/registry.py:45, "always degrade to pseudo-C": a function of a whole sample
\* is answered whatever the tools do.
AlwaysAnswered(outcomes) ==
    \A provider \in Asking : DecompileFunction(provider, outcomes, "whole").result = "answer"

\* docs/MEMORY_ANALYSIS.md:80: a malformed result of one plugin is a warning, and does not
\* discard what its siblings found.
MalformedStaysLocal(outcomes) ==
    (\A p \in DOMAIN outcomes : outcomes[p] \in {"usable", "not_text", "not_json"} \cup Shapes) =>
        PluginReports(outcomes).analysed

\* integrations/base.py:5: an adapter that cannot service a binary says so, and never
\* crashes.
UnavailableNotCrash(outcome) ==
    \A name \in {"ghidra", "radare2", "binary_ninja"} : Integrate(name, outcome) \in {"answer", IU}

\* malware/ghidra_enrichment.py:62: triage goes on whatever Ghidra does.
TriageNeverRaises(outcome) ==
    \A sample \in SampleStates : Enrich(outcome, sample) \in {"answer", "detail"}
=============================================================================
