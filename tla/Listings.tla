------------------------------- MODULE Listings -------------------------------
(***************************************************************************)
(* Bounded listings: linear disassembly (disassembler/disassembler.py),    *)
(* disassembly and hex dump of a stored region (memory/inspection.py,      *)
(* analyzer/hexdump.py) and the filtered pages of a memory analysis        *)
(* (api/routes/memory.py).                                                 *)
(*                                                                         *)
(* The engine decodes every byte, with placeholders where nothing else     *)
(* fits (skipdata).  Instructions are one address long here, so a listing  *)
(* is the interval [from, listed] of what it shows.  A code section is     *)
(* [base, size, stored, code]: stored of its size addresses have bytes in  *)
(* the file.                                                               *)
(***************************************************************************)
EXTENDS Arrangement, FiniteSetsExt, SequencesExt

Error == [error |-> TRUE]
IsError(listing) == "error" \in DOMAIN listing

-----------------------------------------------------------------------------
(* disassemble; an address or a count that is not given is {} *)

InSection(s, a) == s.base <= a /\ a < s.base + s.size

\* The code section with the address, else the first one that is not empty.
CodeSection(sections, target) ==
    LET holding == {i \in DOMAIN sections : sections[i].code /\ InSection(sections[i], target)}
        nonempty == {i \in DOMAIN sections : sections[i].code /\ sections[i].size > 0}
    IN IF holding # {} THEN {sections[Min(holding)]}
       ELSE IF nonempty # {} THEN {sections[Min(nonempty)]} ELSE {}

StartAddress(s, entry, address) ==
    LET start == IF address # {} THEN Min(address) ELSE Max({entry, s.base}) IN
    IF InSection(s, start) THEN start ELSE s.base

ListingLimit(count, limit) ==
    IF count = {} THEN limit ELSE Min({limit, Max({Min(count), 0})})

Disassemble(sections, entry, address, count, limit) ==
    LET chosen == CodeSection(sections, IF address # {} THEN Min(address) ELSE entry)
        s == CHOOSE x \in chosen : TRUE
        start == StartAddress(s, entry, address)
        available == s.base + s.stored - start
        bound == ListingLimit(count, limit)
    IN IF chosen = {} \/ available <= 0 THEN Error
       ELSE [from |-> start, listed |-> Min({bound, available}), available |-> available,
             truncated |-> Min({bound, available}) >= bound]

-----------------------------------------------------------------------------
(* A stored region of n bytes *)

DisassembleRegion(n, offset, count, limit) ==
    LET listed == Min({count, limit, n - offset}) IN
    IF offset < 0 \/ offset > n \/ count < 1 THEN Error
    ELSE [from |-> offset, listed |-> listed,
          truncated |-> listed > 0 /\ offset + listed < n /\ listed >= Min({count, limit})]

RowSize == 16

HexPage(n, offset, length) ==
    LET start == Min({offset, n})
        end == Min({start + length, n})
        rows == (end - start + RowSize - 1) \div RowSize
    IN IF offset < 0 \/ length <= 0 THEN Error
       ELSE [offset |-> start, length |-> end - start, total |-> n,
             rows |-> [i \in 1..rows |->
                         [offset |-> start + RowSize * (i - 1),
                          size |-> Min({RowSize, end - start - RowSize * (i - 1)})]]]

-----------------------------------------------------------------------------
(* Pages *)

Slice(items, offset, limit) == SubSeq(items, offset + 1, Min({offset + limit, Len(items)}))

\* Every filter that is given must hold.
Matching(items, filters) == Filtered(items, {i \in DOMAIN items : \A f \in filters : items[i][f]})

\* The total counts what passes the filters.
Page(items, filters, offset, limit) ==
    [items |-> Slice(Matching(items, filters), offset, limit), total |-> Len(Matching(items, filters))]

-----------------------------------------------------------------------------
(* Properties *)

\* A disassembly that is not marked truncated shows the code up to the end of the
\* section; a marked one has room for no more, and the mark may only be spurious when
\* the code ends exactly at the limit.
DisassemblyHonest(sections, entry, address, count, limit) ==
    LET listing == Disassemble(sections, entry, address, count, limit) IN
    \/ IsError(listing)
    \/ /\ ~listing.truncated => listing.listed = listing.available
       /\ listing.truncated =>
            \/ listing.listed < listing.available
            \/ listing.available = ListingLimit(count, limit)
       /\ \E i \in DOMAIN sections : sections[i].code /\ InSection(sections[i], listing.from)

\* A region's listing is marked exactly if code follows it, and going on where it
\* ended shows the rest.
RegionHonest(n, offset, count, limit) ==
    LET listing == DisassembleRegion(n, offset, count, limit) IN
    IsError(listing) \/ (listing.truncated <=> offset + listing.listed < n)

\* The rows of a page are its bytes in order, and pages one after the other show every
\* byte of the file once.
HexTiles(n, length) ==
    LET pages == [i \in 1..(n \div length + 1) |-> HexPage(n, length * (i - 1), length)]
        rows == FlattenSeq([i \in DOMAIN pages |-> pages[i].rows])
    IN /\ \A i \in DOMAIN rows :
            rows[i].offset = IF i = 1 THEN 0 ELSE rows[i - 1].offset + rows[i - 1].size
       /\ n = IF rows = <<>> THEN 0 ELSE Last(rows).offset + Last(rows).size

\* Pages one after the other show every item that passes the filters once, in order,
\* and say how many there are.
PagesTile(items, filters, limit) ==
    LET total == Page(items, filters, 0, limit).total
        pages == [i \in 1..(total \div limit + 1) |->
                    Page(items, filters, limit * (i - 1), limit)]
    IN /\ FlattenSeq([i \in DOMAIN pages |-> pages[i].items])
            = Matching(items, filters)
       /\ \A i \in DOMAIN pages : pages[i].total = total
=============================================================================
