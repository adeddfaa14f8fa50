-------------------------------- MODULE Triage --------------------------------
(***************************************************************************)
(* The static malware triage (malware/triage.py) with what it rests on:    *)
(* indicators of compromise (iocs.py), capabilities implied by imports     *)
(* (capabilities.py), signature rules (rules.py) and the packing           *)
(* heuristics (analyzer/packing.py).                                       *)
(*                                                                         *)
(* A string of the sample is what was matched in it: a function from some  *)
(* of the kinds to a value; more matches of a kind are more strings.       *)
(* Host gives what is cut as the host from a url (behind the scheme, up to *)
(* the first slash and the first colon: userinfo, a query and a fragment   *)
(* stay in it), from an email (behind the @) and from a domain (itself).   *)
(* A capability rule is [severity, apis], a signature rule [severity,      *)
(* patterns, minimum].                                                     *)
(* Packing signals are [packers, ...]: the number of sections with a known *)
(* packer's name, and whether each of the other signals is there.          *)
(***************************************************************************)
EXTENDS Arrangement, FiniteSetsExt, SequencesExt

CONSTANT Host(_)

\* In the order in which a string is searched.
Kinds == <<"url", "ipv4", "email", "registry", "filepath", "domain">>

IocWeight == [url |-> 6, ipv4 |-> 5, domain |-> 4, registry |-> 3, filepath |-> 1, email |-> 2]
KindCap == 12
CapabilityWeight == [info |-> 0, low |-> 3, medium |-> 8, high |-> 16, critical |-> 26]
RuleWeight == [info |-> 0, low |-> 4, medium |-> 12, high |-> 22, critical |-> 30]
PackingWeight == 20

-----------------------------------------------------------------------------
(* extract_iocs *)

\* A value found again is not listed again; a url and an email cover their host, and
\* a covered host is no longer listed as a domain.
Look(found, kind, value) ==
    LET known == \E i \in DOMAIN found.listed : found.listed[i] = <<kind, value>>
        suppressed == kind = "domain" /\ Host(value) \in found.covered
    IN [listed |-> IF known \/ suppressed THEN found.listed
                   ELSE Append(found.listed, <<kind, value>>),
        covered |-> IF kind \in {"url", "email"} THEN found.covered \cup {Host(value)}
                    ELSE found.covered]

LookThrough(found, string) ==
    Folded(found, Kinds,
           LAMBDA f, kind : IF kind \in DOMAIN string THEN Look(f, kind, string[kind]) ELSE f)

\* The limit is looked at before each string and cuts what the last one added.
Indicators(strings, limit) ==
    LET found == Folded([listed |-> <<>>, covered |-> {}], strings,
                        LAMBDA f, s : IF Len(f.listed) >= limit THEN f ELSE LookThrough(f, s))
    IN SubSeq(found.listed, 1, Min({limit, Len(found.listed)}))

ScoreIocs(indicators) ==
    LET ofKind(kind) == Cardinality({i \in DOMAIN indicators : indicators[i][1] = kind})
        points(kind) == Min({KindCap, IocWeight[kind] * ofKind(kind)})
    IN points("url") + points("ipv4") + points("domain") + points("registry")
         + points("filepath") + points("email")

-----------------------------------------------------------------------------
(* Capabilities, signatures, packing *)

Capabilities(rules, imports) == {r \in DOMAIN rules : rules[r].apis \cap imports # {}}

Signatures(rules, patterns) ==
    {r \in DOMAIN rules : Cardinality(rules[r].patterns \cap patterns) >= rules[r].minimum}

\* The weights of the rules that matched.
Weighed(rules, matched, weight) ==
    Folded(0, Filtered(rules, matched), LAMBDA total, rule : total + weight[rule.severity])

If(present, weight) == IF present THEN weight ELSE 0

PackingScore(p) ==
    3 * p.packers + If(p.codeEntropy, 2) + If(p.fileEntropy, 1) + If(p.fewImports, 1)
      + If(p.writableCode, 2) + If(p.overlay, 1) + If(p.resolution, 1)

Packed(p) == PackingScore(p) >= 3

-----------------------------------------------------------------------------
(* triage_binary *)

Verdict(score) ==
    IF score >= 60 THEN "likely malicious" ELSE IF score >= 35 THEN "suspicious"
    ELSE IF score >= 12 THEN "low risk" ELSE "benign"

\* sample: [strings, imports, patterns, packing]; knowledge: [capabilities, signatures].
Score(sample, knowledge, limit) ==
    LET capabilities == Capabilities(knowledge.capabilities, sample.imports)
        signatures == Signatures(knowledge.signatures, sample.patterns)
    IN Min({100,
            Weighed(knowledge.capabilities, capabilities, CapabilityWeight)
            + ScoreIocs(Indicators(sample.strings, limit))
            + Weighed(knowledge.signatures, signatures, RuleWeight)
            + If(Packed(sample.packing), PackingWeight)})

\* ghidra: the outcome of the enrichment, "none" when it was not asked for.
Report(sample, knowledge, limit, ghidra) ==
    [score |-> Score(sample, knowledge, limit),
     verdict |-> Verdict(Score(sample, knowledge, limit)),
     indicators |-> Indicators(sample.strings, limit),
     packed |-> Packed(sample.packing),
     ghidra |-> ghidra]

-----------------------------------------------------------------------------
(* Properties *)

Static(report) == [report EXCEPT !.ghidra = "none"]

\* malware/triage.py:3: the same sample has the same score whether or not the optional
\* tool ran; one kind of indicator does not reach the score of a verdict by itself; an
\* indicator is listed once, no domain after a url or an email from which it was cut.
\* What else is found further on in the sample never lowers the score (what is found
\* further in front may: it can cover a host or fill the limit).
TriageSteady(sample, more, knowledge, limit) ==
    LET report == Report(sample, knowledge, limit, "none")
        listed == report.indicators
        extended == [sample EXCEPT !.strings = @ \o <<more>>]
    IN /\ \A ghidra \in {"answer", "detail"} :
             Static(Report(sample, knowledge, limit, ghidra)) = report
       /\ report.score \in 0..100
       /\ (/\ sample.imports = {} /\ sample.patterns = {} /\ ~report.packed
           /\ \A i, j \in DOMAIN listed : listed[i][1] = listed[j][1])
            => report.verdict \in {"benign", "low risk"}
       /\ Len(listed) <= limit
       /\ \A i, j \in DOMAIN listed :
             i < j => /\ listed[i] # listed[j]
                      /\ ~(/\ listed[i][1] \in {"url", "email"} /\ listed[j][1] = "domain"
                           /\ Host(listed[i][2]) = Host(listed[j][2]))
       /\ Score(extended, knowledge, limit) >= report.score
       /\ IsPrefix(listed, Indicators(extended.strings, limit))
=============================================================================
