------------------------------ MODULE Coverage ------------------------------
(***************************************************************************)
(* The map of used space of an archive (crate-lib/src/coverage.rs) and the *)
(* placement policy built on it (Archive::write_data_where_possible).      *)
(* A coverage is a record: "len" is the length of the archive as far as    *)
(* the coverage knows it, "segments" the set of used zones.  The code      *)
(* keeps the zones in a BTreeSet ordered by start, then by length.         *)
(* Panics are not modelled as steps: every assertion of the code is an     *)
(* operator whose name ends in Asserts, and the modules that use this one  *)
(* check that it holds wherever the code would evaluate it.                *)
(*                                                                         *)
(* A definition whose name is another's followed by _ and a word is that   *)
(* other one with a bug the code might have: no specification uses it, it  *)
(* serves to see that the properties would notice.                         *)
(***************************************************************************)
EXTENDS Naturals, FiniteSets

Segments == [start : Nat, len : Nat]

Segment(start, len) == [start |-> start, len |-> len]

End(s) == s.start + s.len

\* The order of the BTreeSet (impl Ord for Segment).
Precedes(s, t) ==
  \/ s.start < t.start
  \/ s.start = t.start /\ s.len < t.len

Lowest(S)  == CHOOSE s \in S : \A t \in S \ {s} : Precedes(s, t)
Highest(S) == CHOOSE s \in S : \A t \in S \ {s} : Precedes(t, s)

Coverages == [len : Nat, segments : SUBSET Segments]

NewCoverage(len) == [len |-> len, segments |-> {}]

GrowTo(cov, new_len) == [cov EXCEPT !.len = new_len]

GrowToAsserts(cov, new_len) == new_len >= cov.len

(***************************************************************************)
(* mark_as_used.  Its assertions look at two zones only: the lowest of     *)
(* those that start at or below the new one (the first the iterator finds, *)
(* not the nearest), and the lowest of those that start at or above it.    *)
(***************************************************************************)
MarkAsUsed(cov, start, len) ==
  IF len = 0 THEN cov
  ELSE [cov EXCEPT !.segments = @ \cup {Segment(start, len)}]

MarkAsUsedAsserts(cov, start, len) ==
  LET below == {s \in cov.segments : s.start <= start}
      above == {s \in cov.segments : s.start >= start}
  IN  len > 0 =>
        /\ below # {} => End(Lowest(below)) <= start
        /\ above # {} => start + len <= Lowest(above).start

\* Only a zone recorded with exactly this start and length is released.
MarkAsFree(cov, segment) ==
  IF segment.len > 0 THEN [cov EXCEPT !.segments = @ \ {segment}] ELSE cov

(***************************************************************************)
(* find_free_zones: the gap before each zone that does not start where the *)
(* previous one ended, and the tail up to "len".                           *)
(***************************************************************************)
LastEnd(S) == IF S = {} THEN 0 ELSE End(Highest(S))

PrevEnd_OfLowest(S, s) ==
  LET before == {t \in S : Precedes(t, s)}
  IN  IF before = {} THEN 0 ELSE End(Lowest(before))

PrevEnd(S, s) == LastEnd({t \in S : Precedes(t, s)})

FreeZonesAsserts(cov) ==
  \A s \in cov.segments : PrevEnd(cov.segments, s) <= s.start

ZoneBetween(from, to) == Segment(from, to - from)

FreeZones_NoTail(cov) ==
  LET S == cov.segments
  IN  {ZoneBetween(PrevEnd(S, s), s.start) : s \in {t \in S : PrevEnd(S, t) < t.start}}

FreeZones(cov) ==
  LET S    == cov.segments
      gaps == {s \in S : PrevEnd(S, s) < s.start}
  IN  {ZoneBetween(PrevEnd(S, s), s.start) : s \in gaps}
        \cup (IF LastEnd(S) < cov.len THEN {ZoneBetween(LastEnd(S), cov.len)} ELSE {})

ZonesFor_OneTooSmall(cov, capacity) == {z \in FreeZones(cov) : z.len + 1 >= capacity}

ZonesFor_Strictly(cov, capacity) == {z \in FreeZones(cov) : z.len > capacity}

\* find_free_zone_for: the smallest zone that is large enough; min_by_key
\* keeps the first of equals and the iterator goes by ascending address.
ZonesFor(cov, capacity) == {z \in FreeZones(cov) : z.len >= capacity}

FindFreeZoneFor(cov, capacity) ==
  CHOOSE z \in ZonesFor(cov, capacity) :
    \A y \in ZonesFor(cov, capacity) \ {z} :
      z.len < y.len \/ (z.len = y.len /\ z.start < y.start)

NextWritableAddr(cov) == LastEnd(cov.segments)

(***************************************************************************)
(* write_data_where_possible, for "len" units of data: where it writes,    *)
(* and what it leaves behind when it succeeds.  source_len is the length   *)
(* of the device, which the coverage learns of only when it grows.         *)
(***************************************************************************)
Growing(cov, len) == ZonesFor(cov, len) = {}

AddrFor(cov, len) ==
  IF Growing(cov, len) THEN NextWritableAddr(cov) ELSE FindFreeZoneFor(cov, len).start

SourceLenAfter(source_len, addr, len) ==
  IF len > 0 /\ addr + len > source_len THEN addr + len ELSE source_len

CoverageAfterWrite_NotGrown(cov, source_len, len) == MarkAsUsed(cov, AddrFor(cov, len), len)

CoverageAfterWrite(cov, source_len, len) ==
  LET addr  == AddrFor(cov, len)
      grown == GrowTo(cov, SourceLenAfter(source_len, addr, len))
  IN  MarkAsUsed(IF Growing(cov, len) THEN grown ELSE cov, addr, len)

\* The assertions met on the way: the free-zone iterator, then grow_to, then
\* mark_as_used.
WriteAsserts(cov, source_len, len) ==
  LET addr  == AddrFor(cov, len)
  IN  /\ FreeZonesAsserts(cov)
      /\ Growing(cov, len) => GrowToAsserts(cov, SourceLenAfter(source_len, addr, len))
      /\ MarkAsUsedAsserts(cov, addr, len)

-----------------------------------------------------------------------------
\* Two zones share no unit of space.
Apart(s, t) == End(s) <= t.start \/ End(t) <= s.start

PairwiseApart(S) == \A s, t \in S : s # t => Apart(s, t)

\* The units of space a set of zones occupies.
Units(S) == UNION {s.start .. (End(s) - 1) : s \in S}
=============================================================================
