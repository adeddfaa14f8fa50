---------------------------- MODULE MemoryAnalysis ----------------------------
(***************************************************************************)
(* From the reports of the memory-forensics plugins to the result of an    *)
(* analysis: memory/volatility.py (analyze, _merge_processes) and          *)
(* memory/analyzer.py (analyze_memory and its three kinds of findings).    *)
(*                                                                         *)
(* A report is [completed, rows]: a plugin that failed, or answered in an  *)
(* unsupported form, has not completed and leaves a warning; module        *)
(* ExternalTools says which failures of the tool are such.  A row has the  *)
(* columns the code reads, Unknown where the tool gave none; numbers below *)
(* 0 stand for the negative ones the code refuses.  Limits are the         *)
(* max_memory_* settings.                                                  *)
(*                                                                         *)
(* Left out: strings and IOCs, column names and spellings, the depth of    *)
(* nested tree rows, and columns that are only passed on.                  *)
(***************************************************************************)
EXTENDS Arrangement, FiniteSetsExt

CONSTANT Unknown

\* None, of the code: no number and no truth value.
ASSUME UnknownAssumption == Unknown \notin Int /\ Unknown \notin BOOLEAN

Plugins == {"pslist", "pstree", "cmdline", "dlllist", "vadinfo", "netscan", "handles",
            "threads"}

Clamped(n) == IF n # Unknown /\ n < 0 THEN Unknown ELSE n
Counted(n) == n # Unknown /\ n >= 0
Port(n) == IF n # Unknown /\ (n < 0 \/ n > 65535) THEN Unknown ELSE n

\* The rows each plugin's normalizer keeps, in the order of the report.
Usable(plugin, row) ==
    CASE plugin \in {"pslist", "pstree", "handles"} -> Counted(row.pid)
      [] plugin = "cmdline" -> Counted(row.pid) /\ row.command # Unknown
      [] plugin = "dlllist" -> Counted(row.pid) /\ Counted(row.base)
      [] plugin = "vadinfo" -> Counted(row.start) /\ row.end # Unknown /\ row.end >= row.start
      [] plugin = "netscan" -> row.protocol # Unknown /\ row.local # Unknown
      [] OTHER -> Counted(row.pid) /\ Counted(row.tid)

Normalized(plugin, row) ==
    CASE plugin \in {"pslist", "pstree"} -> [row EXCEPT !.ppid = Clamped(@)]
      [] plugin = "vadinfo" -> [row EXCEPT !.pid = Clamped(@)]
      [] plugin = "netscan" -> [row EXCEPT !.pid = Clamped(@), !.localPort = Port(@),
                                           !.port = Port(@)]
      [] plugin = "threads" -> [row EXCEPT !.kernel = Clamped(@), !.win32 = Clamped(@)]
      [] OTHER -> row

AllRows(reports, plugin) ==
    LET given == reports[plugin].rows
        usable == Filtered(given, {i \in DOMAIN given : Usable(plugin, given[i])})
    IN IF reports[plugin].completed
       THEN [i \in DOMAIN usable |-> Normalized(plugin, usable[i])] ELSE <<>>

FirstOf(seq, n) == SubSeq(seq, 1, Min({n, Len(seq)}))

\* normalized[:limit], with a warning when something is cut.
Kept(reports, plugin, limits) == FirstOf(AllRows(reports, plugin), limits[plugin])
CutPlugins(reports, limits) ==
    {p \in Plugins : Len(AllRows(reports, p)) > limits[p]}

-----------------------------------------------------------------------------
(* _merge_processes *)

Pids(table) == {table[i].pid : i \in DOMAIN table}

\* A dictionary by pid, in the order of insertion.
Put(table, row) ==
    IF row.pid \in Pids(table)
    THEN [i \in DOMAIN table |-> IF table[i].pid = row.pid THEN row ELSE table[i]]
    ELSE Append(table, row)

\* The entry of the row's pid; the row itself without one.
EntryOf(table, row) ==
    IF row.pid \in Pids(table)
    THEN table[CHOOSE i \in DOMAIN table : table[i].pid = row.pid] ELSE row

AddListed(table, row) == Put(table, [row EXCEPT !.command = Unknown])

AddTree(table, row) ==
    LET old == EntryOf(table, row) IN
    Put(table, [pid |-> row.pid,
                ppid |-> IF row.ppid # Unknown THEN row.ppid ELSE old.ppid,
                name |-> IF old.name = Unknown THEN row.name ELSE old.name,
                command |-> IF row.command # Unknown THEN row.command ELSE old.command])

AddCommand(table, row) ==
    LET old == EntryOf(table, [pid |-> row.pid, ppid |-> Unknown, name |-> row.name,
                               command |-> Unknown])
    IN Put(table, [old EXCEPT !.name = IF @ = Unknown THEN row.name ELSE @,
                              !.command = row.command])

Merged(reports, limits) ==
    LET listed == Folded(<<>>, Kept(reports, "pslist", limits), AddListed)
        grown == Folded(listed, Kept(reports, "pstree", limits), AddTree)
    IN Folded(grown, Kept(reports, "cmdline", limits), AddCommand)

\* Mutant: looks for parents in the process list only.
KnownListed(reports, limits) == Pids(Kept(reports, "pslist", limits))

Known(reports, limits) == Pids(Merged(reports, limits))

\* Unknown without the tree; looked up before the table is cut.
Orphaned(reports, limits, row) ==
    IF ~reports["pstree"].completed THEN Unknown
    ELSE row.ppid \notin {Unknown, 0} \cup Known(reports, limits)

Processes(reports, limits) ==
    LET table == FirstOf(Merged(reports, limits), limits.processes) IN
    {[row |-> table[i], orphaned |-> Orphaned(reports, limits, table[i])] :
        i \in DOMAIN table}

ProcessesCut(reports, limits) == Len(Merged(reports, limits)) > limits.processes

\* Threads the report does not name take the name of their process.
ThreadName(reports, limits, thread) ==
    LET named == {p \in Processes(reports, limits) : p.row.pid = thread.pid} IN
    IF thread.name # Unknown \/ named = {} THEN thread.name
    ELSE (CHOOSE p \in named : TRUE).row.name

\* Modules of each process, when the plugin completed.
ModuleCount(reports, limits, pid) ==
    LET modules == Kept(reports, "dlllist", limits) IN
    IF reports["dlllist"].completed
    THEN Cardinality({i \in DOMAIN modules : modules[i].pid = pid}) ELSE Unknown

Unavailable(reports) ==
    {p \in Plugins \ {"pslist", "pstree"} : ~reports[p].completed}
      \cup (IF reports["pstree"].completed THEN {} ELSE {"process tree"})
      \cup (IF reports["pslist"].completed \/ reports["pstree"].completed THEN {}
            ELSE {"process list"})

-----------------------------------------------------------------------------
(* Findings *)

\* _region_assessment: writable and executable, or private executable memory that
\* no file is mapped to.
Suspicious(region) ==
    /\ "X" \in region.protection
    /\ "W" \in region.protection \/ (region.private = TRUE /\ region.file = Unknown)

Key(row, column) == IF row[column] = Unknown THEN -1 ELSE row[column]

\* By pid, then by the column; a row without a pid is first.
Before(x, y, column) ==
    \/ Key(x, "pid") < Key(y, "pid")
    \/ Key(x, "pid") = Key(y, "pid") /\ Key(x, column) < Key(y, column)

\* The positions of rows sorted by pid and a column, of equal ones as they come.
InOrder(rows, column) ==
    LET before(i, j) == Before(rows[i], rows[j], column)
    IN {p \in (1..Len(rows)) \X (1..Len(rows)) :
           before(p[1], p[2]) \/ (p[1] < p[2] /\ ~before(p[2], p[1]))}

SuspiciousRegions(reports, limits) ==
    LET rows == Kept(reports, "vadinfo", limits) IN
    RowsAt(rows, {i \in DOMAIN rows : Suspicious(rows[i])}, InOrder(rows, "start"))

\* The last region that starts at or before the address, if it reaches so far
\* (bisect_right over the starts, then one comparison).
Bisected(regions, address) ==
    LET before == {i \in DOMAIN regions : regions[i].start <= address} IN
    IF address = Unknown \/ before = {} THEN {}
    ELSE {i \in {Max(before)} : address <= regions[i].end}

OfPid(regions, pid) == Filtered(regions, {i \in DOMAIN regions : regions[i].pid = pid})
RegionsOfPid(reports, limits, pid) == OfPid(SuspiciousRegions(reports, limits), pid)

\* The Win32 start address goes before the kernel's.
MatchIn(regions, thread) ==
    LET hits(a) == {[address |-> a, region |-> regions[i]] : i \in Bisected(regions, a)} IN
    IF hits(thread.win32) # {} THEN hits(thread.win32) ELSE hits(thread.kernel)

ThreadMatch(reports, limits, thread) ==
    MatchIn(RegionsOfPid(reports, limits, thread.pid), thread)

SuspiciousThreads(reports, limits) ==
    LET rows == Kept(reports, "threads", limits) IN
    RowsAt(rows, {i \in DOMAIN rows : ThreadMatch(reports, limits, rows[i]) # {}},
           InOrder(rows, "tid"))

\* A public remote endpoint, or a wildcard listener that no process owns.
Public(row) == row.global /\ row.port \notin {Unknown, 0}
Notable(row) == Public(row) \/ (row.listening /\ row.local = "any" /\ row.name = Unknown)
NetworkKey(row) ==
    <<row.protocol, row.pid, Public(row)>>
      \o IF Public(row) THEN <<row.remote, row.port>> ELSE <<row.local, row.localPort>>

\* One finding per key, of the first row that has it, in the order of the pids.
NotableEndpoints(reports, limits) ==
    LET rows == Kept(reports, "netscan", limits)
        order == InOrder(rows, "pid")
        notable == {i \in DOMAIN rows : Notable(rows[i])}
        repeats(i) == \E j \in notable : /\ <<j, i>> \in order
                                        /\ NetworkKey(rows[j]) = NetworkKey(rows[i])
    IN RowsAt(rows, {i \in notable : ~repeats(i)}, order)

\* secret is 1 when the dump holds a private key, else 0.  Each kind of finding gets
\* the room that the ones before it have left.
Room(limits, used) == Max({limits.findings - used, 0})

Shares(regions, threads, network, limits, secret) ==
    LET first == FirstOf(regions, Room(limits, secret))
        second == FirstOf(threads, Room(limits, secret + Len(first)))
        third == FirstOf(network, Room(limits, secret + Len(first) + Len(second)))
    IN [regions |-> first, threads |-> second, network |-> third]

Findings(reports, limits, secret) ==
    Shares(SuspiciousRegions(reports, limits), SuspiciousThreads(reports, limits),
           NotableEndpoints(reports, limits), limits, secret)

\* Each kind says whether it met another finding with no room left.
FindingsCut(reports, limits, secret) ==
    LET kept == Findings(reports, limits, secret)
        first == secret + Len(kept.regions)
    IN \/ Len(SuspiciousRegions(reports, limits)) > Room(limits, secret)
       \/ Len(SuspiciousThreads(reports, limits)) > Room(limits, first)
       \/ Len(NotableEndpoints(reports, limits)) > Room(limits, first + Len(kept.threads))

-----------------------------------------------------------------------------
(* Properties, of every set of reports and limits *)

\* docs/MEMORY_ANALYSIS.md:141: a process marked orphaned has a parent that is not in
\* the result; when the result was not cut, the mark is exact.
OrphansHonest(reports, limits) ==
    LET processes == Processes(reports, limits)
        shown == {p.row.pid : p \in processes}
    IN \A p \in processes :
         /\ p.orphaned = TRUE => p.row.ppid \notin shown
         /\ p.orphaned = FALSE /\ ~ProcessesCut(reports, limits) =>
              p.row.ppid \in {Unknown, 0} \cup shown

\* No process that a completed plugin reported is missing from the result without a
\* warning, whatever happened to the other plugins.
NothingLostSilently(reports, limits) ==
    LET reported == UNION {{AllRows(reports, p)[i].pid : i \in DOMAIN AllRows(reports, p)} :
                             p \in {"pslist", "pstree", "cmdline"}}
    IN \/ CutPlugins(reports, limits) # {}
       \/ ProcessesCut(reports, limits)
       \/ reported = {p.row.pid : p \in Processes(reports, limits)}

\* Regions of one process that do not overlap, as a process's VADs do not.
Disjoint(reports, limits) ==
    LET regions == SuspiciousRegions(reports, limits) IN
    \A i, j \in DOMAIN regions :
        i # j /\ regions[i].pid = regions[j].pid =>
            regions[i].end < regions[j].start \/ regions[j].end < regions[i].start

\* A thread is reported exactly if one of its start addresses lies in a suspicious
\* region of its own process (overlapping regions may hide one from the binary
\* search), and the region named contains the address.
ThreadsCorrelated(reports, limits) ==
    LET all == Kept(reports, "threads", limits)
        regions == Kept(reports, "vadinfo", limits)
        inside(t) == \E i \in DOMAIN regions, a \in {t.kernel, t.win32} \ {Unknown} :
                        /\ Suspicious(regions[i]) /\ regions[i].pid = t.pid
                        /\ regions[i].start <= a /\ a <= regions[i].end
    IN \A k \in DOMAIN all :
         LET match == ThreadMatch(reports, limits, all[k]) IN
         /\ match # {} => inside(all[k])
         /\ \A m \in match : m.region.start <= m.address /\ m.address <= m.region.end
         /\ Disjoint(reports, limits) /\ inside(all[k]) => match # {}

\* The findings fit the limit and a warning says when, and only when, some are
\* missing.
FindingsWarned(reports, limits, secret) ==
    LET kept == Findings(reports, limits, secret)
        total == secret + Len(SuspiciousRegions(reports, limits))
                   + Len(SuspiciousThreads(reports, limits))
                   + Len(NotableEndpoints(reports, limits))
        shown == secret + Len(kept.regions) + Len(kept.threads) + Len(kept.network)
    IN /\ shown <= Max({limits.findings, secret})
       /\ FindingsCut(reports, limits, secret) <=> shown < total
       /\ shown = Max({secret, Min({total, limits.findings})})
=============================================================================
