------------------------------ MODULE IpLists -------------------------------
(***************************************************************************)
(* The address lists of proxy/geo.rs and proxy/threat.rs: ranges made from *)
(* prefixes, sorted and merged, searched by bisection, and cut into        *)
(* prefixes again for the kernel's longest-prefix maps.  A geo range has a *)
(* country; threat ranges are those of a single one.  Addresses have Bits  *)
(* bits in place of 32 or 128.                                             *)
(***************************************************************************)
EXTENDS Integers, Sequences, FiniteSets

CONSTANT Bits

ASSUME BitsAssumption == Bits \in Nat

Address == 0..(2^Bits - 1)
NoCountry == 0      \* countries are numbers from 1, as encode_country makes them

\* ipv4_range, prefix_range_v4: the block of an address; bits below the prefix go.
BlockStart(addr, prefix) == addr - (addr % 2^(Bits - prefix))
BlockEnd(start, prefix)  == start + 2^(Bits - prefix) - 1
RangeOf(addr, prefix, country) ==
    LET start == BlockStart(addr, prefix) IN
    [start |-> start, end |-> BlockEnd(start, prefix), country |-> country]

-----------------------------------------------------------------------------
(* normalize_v4_ranges, merge_v4_ranges *)

Before(r, s) ==
    \/ r.start < s.start
    \/ r.start = s.start /\ r.end < s.end
    \/ r.start = s.start /\ r.end = s.end /\ r.country < s.country

\* Variant: ranges that touch are merged whatever their countries.
ContinuesAny(last, r) == r.start <= last.end + 1
Continues(last, r) == last.country = r.country /\ r.start <= last.end + 1

Larger(a, b) == IF a < b THEN b ELSE a
Absorb(done, r) ==
    IF done # <<>> /\ Continues(done[Len(done)], r)
    THEN [done EXCEPT ![Len(done)].end = Larger(@, r.end)]
    ELSE Append(done, r)

Sorted(ranges) ==
    CHOOSE s \in [1..Cardinality(ranges) -> ranges] : \A i, j \in DOMAIN s : i < j => Before(s[i], s[j])
Merged(sorted) ==
    LET merged[n \in 0..Len(sorted)] == IF n = 0 THEN <<>> ELSE Absorb(merged[n - 1], sorted[n])
    IN merged[Len(sorted)]
Normalize(ranges) == Merged(Sorted(ranges))

\* validate_non_overlapping_v4, by neighbours only.
Overlapping(ranges) == \E i \in 1..(Len(ranges) - 1) : ranges[i].end >= ranges[i + 1].start

-----------------------------------------------------------------------------
(* lookup_v4 *)

Bisect(ranges, addr) ==
    LET search[w \in (0..Len(ranges)) \X (0..Len(ranges))] ==
          LET low == w[1]  high == w[2]  mid == low + (high - low) \div 2 IN
          IF low >= high THEN NoCountry
          ELSE IF addr < ranges[mid + 1].start THEN search[<<low, mid>>]
          ELSE IF addr > ranges[mid + 1].end THEN search[<<mid + 1, high>>]
          ELSE ranges[mid + 1].country
    IN search[<<0, Len(ranges)>>]

-----------------------------------------------------------------------------
(* append_range_prefixes: from the start of a range the largest aligned block  *)
(* that fits, then the rest.                                                   *)

Aligned(start, prefix) == start % 2^(Bits - prefix) = 0

Fits(start, end, prefix) == Aligned(start, prefix) /\ BlockEnd(start, prefix) <= end

ShortestFit(start, end) ==
    CHOOSE p \in 0..Bits : Fits(start, end, p) /\ \A q \in 0..(p - 1) : ~Fits(start, end, q)

RangePrefixes(r) ==
    LET from[start \in 0..2^Bits] ==
          IF start > r.end THEN {}
          ELSE LET p == ShortestFit(start, r.end) IN
               {[addr |-> start, prefix |-> p, country |-> r.country]} \cup from[BlockEnd(start, p) + 1]
    IN from[r.start]

XdpPrefixes(ranges) == UNION {RangePrefixes(ranges[i]) : i \in 1..Len(ranges)}

\* What the kernel's trie finds: the longest prefix an address matches.
Matches(entry, addr) == BlockStart(addr, entry.prefix) = entry.addr
LongestMatch(entries, addr) ==
    LET hits == {e \in entries : Matches(e, addr)} IN
    IF hits = {} THEN NoCountry
    ELSE (CHOOSE e \in hits : \A f \in hits : f.prefix <= e.prefix).country
=============================================================================
