------------------------------- MODULE Space --------------------------------
(***************************************************************************)
(* The life of the archive's space: data is written where possible, parts  *)
(* of it fail halfway, zones are released.  This is what every operation   *)
(* of an archive does to the coverage (create_file, create_segment,        *)
(* replace_file_content, remove_file), with the tables left out.           *)
(***************************************************************************)
EXTENDS Coverage, Integers

CONSTANTS
  HeaderLen,        \* length of the archive's header (HEADER_SIZE)
  FirstSegmentLen,  \* length of the first file table segment
  MaxWrite,         \* bound: the longest piece of data written
  MaxSourceLen      \* bound: the device's capacity (u64 addresses in the code)

ASSUME SizesAssumption ==
  /\ HeaderLen \in Nat \ {0}
  /\ FirstSegmentLen \in Nat \ {0}
  /\ MaxWrite \in Nat
  /\ MaxSourceLen \in Nat

VARIABLES
  coverage,    \* Archive.coverage
  source_len   \* length of the device behind Archive.source

space_vars == <<coverage, source_len>>

\* Archive::create: the header and the first segment, back to back.
SpaceInit ==
  /\ source_len = HeaderLen + FirstSegmentLen
  /\ coverage = MarkAsUsed(MarkAsUsed(NewCoverage(source_len), 0, HeaderLen),
                           HeaderLen, FirstSegmentLen)

Write(len) ==
  /\ AddrFor(coverage, len) + len <= MaxSourceLen
  /\ coverage' = CoverageAfterWrite(coverage, source_len, len)
  /\ source_len' = SourceLenAfter(source_len, AddrFor(coverage, len), len)

\* The data's reader or the device gives up after "written" units: the error
\* leaves the function before grow_to and mark_as_used.
WriteFails(len, written) ==
  /\ AddrFor(coverage, len) + written <= MaxSourceLen
  /\ source_len' = SourceLenAfter(source_len, AddrFor(coverage, len), written)
  /\ UNCHANGED coverage

\* A file is removed or about to be replaced; the header and the first segment stay.
FixedZones == {Segment(0, HeaderLen), Segment(HeaderLen, FirstSegmentLen)}

Release(segment) ==
  /\ segment \notin FixedZones
  /\ coverage' = MarkAsFree(coverage, segment)
  /\ UNCHANGED source_len

SpaceNext ==
  \/ \E len \in 0 .. MaxWrite : Write(len)
  \/ \E len \in 0 .. MaxWrite : \E written \in 0 .. len : WriteFails(len, written)
  \/ \E segment \in coverage.segments : Release(segment)

SpaceSpec == SpaceInit /\ [][SpaceNext]_space_vars

-----------------------------------------------------------------------------
SpaceTypeOK ==
  /\ coverage \in Coverages
  /\ source_len \in Nat

(***************************************************************************)
(* No two used zones share a unit of space, whatever was written, released *)
(* and half written before.  This is the TODO of archive.rs:34.  The       *)
(* assertions of mark_as_used do not give it: they look at the lowest zone *)
(* below the new one, not at the nearest.                                  *)
(***************************************************************************)
NoOverlap == PairwiseApart(coverage.segments)

(***************************************************************************)
(* Every used zone is within the length the coverage knows, which is never *)
(* more than the device's: a failed write may leave the device longer.     *)
(***************************************************************************)
WithinSource ==
  /\ \A s \in coverage.segments : s.len > 0 /\ End(s) <= coverage.len
  /\ coverage.len <= source_len

(***************************************************************************)
(* No write, of whatever length, can meet a failing assertion: the one of  *)
(* the free-zone iterator, of grow_to or of mark_as_used.                  *)
(***************************************************************************)
NeverPanics == \A len \in 0 .. MaxWrite : WriteAsserts(coverage, source_len, len)

(***************************************************************************)
(* find_free_zones against its meaning: the zones it yields are exactly    *)
(* the units below "len" that are not used, and no two of them touch (each *)
(* is a maximal gap, so a best fit among them is a best fit among all).    *)
(***************************************************************************)
FreeZonesAreTheGaps ==
  LET zones == FreeZones(coverage)
  IN  /\ Units(zones) = (0 .. coverage.len - 1) \ Units(coverage.segments)
      /\ \A y, z \in zones : y # z => End(y) < z.start \/ End(z) < y.start

(***************************************************************************)
(* A write lengthens the archive only when no run of "len" free units was  *)
(* there for it: released space is used again before the archive grows     *)
(* (the promise of tests/archive.rs, reuse_file_space).  Empty data is left *)
(* out: it takes no space, but may show the coverage the device's length.  *)
(***************************************************************************)
FreeRun(cov, len) ==
  \E a \in 0 .. (cov.len - len) : (a .. a + len - 1) \cap Units(cov.segments) = {}

GrowsOnlyWhenFull ==
  [][\A len \in 1 .. MaxWrite :
       Write(len) /\ coverage'.len > coverage.len => ~FreeRun(coverage, len)]_space_vars
=============================================================================
