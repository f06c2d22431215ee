---------------------------- MODULE SpaceProofs -----------------------------
(***************************************************************************)
(* The archive's space is safe for every header, segment and device size   *)
(* and every length of data.  The inductive invariant says that the        *)
(* coverage is tidy and never longer than the device; a write goes to a    *)
(* zone apart from all others (AddrForIsFree), a release only takes zones  *)
(* away.                                                                   *)
(***************************************************************************)
EXTENDS Space, CoverageProofs

SpaceInv ==
  /\ source_len \in Nat
  /\ Tidy(coverage)
  /\ coverage.len <= source_len

\* A new archive satisfies the invariant ...
LEMMA SpaceInvInit == SpaceInit => SpaceInv
<1> SUFFICES ASSUME SpaceInit PROVE SpaceInv
  OBVIOUS
<1>1. /\ coverage.len = HeaderLen + FirstSegmentLen
      /\ coverage.segments = {Segment(0, HeaderLen), Segment(HeaderLen, FirstSegmentLen)}
      /\ coverage = [len |-> coverage.len, segments |-> coverage.segments]
      /\ source_len = HeaderLen + FirstSegmentLen
  BY SizesAssumption DEF SpaceInit, MarkAsUsed, NewCoverage
<1>2. /\ Segment(0, HeaderLen) \in Segments
      /\ Segment(HeaderLen, FirstSegmentLen) \in Segments
  BY SizesAssumption DEF Segment, Segments
<1>3. coverage \in Coverages
  BY <1>1, <1>2, SizesAssumption DEF Coverages
<1>4. PairwiseApart(coverage.segments)
  BY <1>1, SizesAssumption DEF PairwiseApart, Apart, End, Segment
<1>5. \A s \in coverage.segments : s.len > 0 /\ End(s) <= coverage.len
  BY <1>1, SizesAssumption DEF End, Segment
<1> QED
  BY <1>1, <1>3, <1>4, <1>5, SizesAssumption DEF SpaceInv, Tidy

\* ... and every write, failed write and release keeps it.
LEMMA SpaceInvNext == SpaceInv /\ [SpaceNext]_space_vars => SpaceInv'
<1> SUFFICES ASSUME SpaceInv, [SpaceNext]_space_vars
             PROVE  SpaceInv'
  OBVIOUS
<1>1. ASSUME NEW len \in 0 .. MaxWrite, Write(len)
      PROVE  SpaceInv'
  <2>1. len \in Nat
    BY <1>1, SizesAssumption
  <2> QED
    BY <1>1, <2>1, WriteKeepsTidy DEF SpaceInv, Write
<1>2. ASSUME NEW len \in 0 .. MaxWrite, NEW written \in 0 .. len, WriteFails(len, written)
      PROVE  SpaceInv'
  <2>1. len \in Nat /\ written \in Nat
    BY <1>2, SizesAssumption
  <2>2. AddrFor(coverage, len) \in Nat
    BY <2>1, AddrForIsFree DEF SpaceInv
  <2>3. source_len' \in Nat /\ source_len' >= source_len
    BY <1>2, <2>1, <2>2 DEF WriteFails, SourceLenAfter, SpaceInv
  <2> QED
    BY <1>2, <2>3 DEF WriteFails, SpaceInv, Tidy, Coverages
<1>3. ASSUME NEW segment \in coverage.segments, Release(segment)
      PROVE  SpaceInv'
  <2>1. segment \in Segments
    BY DEF SpaceInv, Tidy, Coverages
  <2> QED
    BY <1>3, <2>1, FreeKeepsTidy DEF SpaceInv, Release
<1>4. CASE UNCHANGED space_vars
  BY <1>4 DEF space_vars, SpaceInv
<1> QED
  BY <1>1, <1>2, <1>3, <1>4 DEF SpaceNext

\* The inductive invariant holds in every reachable state.
THEOREM SpaceInvariant == SpaceSpec => []SpaceInv
<1> QED
  BY SpaceInvInit, SpaceInvNext, PTL DEF SpaceSpec

\* The coverage is a coverage and the device's length a number.
THEOREM SpaceTypeCorrect == SpaceSpec => []SpaceTypeOK
<1>1. SpaceInv => SpaceTypeOK
  BY DEF SpaceInv, SpaceTypeOK, Tidy
<1> QED
  BY <1>1, SpaceInvariant, PTL

\* No two used zones ever share a unit of space.
THEOREM SpaceNoOverlap == SpaceSpec => []NoOverlap
<1>1. SpaceInv => NoOverlap
  BY DEF SpaceInv, Tidy, NoOverlap
<1> QED
  BY <1>1, SpaceInvariant, PTL

\* Used zones are within the coverage's length, and that within the device's.
THEOREM SpaceWithinSource == SpaceSpec => []WithinSource
<1>1. SpaceInv => WithinSource
  BY DEF SpaceInv, Tidy, WithinSource
<1> QED
  BY <1>1, SpaceInvariant, PTL

\* Whatever is written next, no assertion of the coverage fails.
THEOREM SpaceNeverPanics == SpaceSpec => []NeverPanics
<1>1. SpaceInv => NeverPanics
  BY WriteNeverPanics, SizesAssumption DEF SpaceInv, NeverPanics
<1> QED
  BY <1>1, SpaceInvariant, PTL

(***************************************************************************)
(* The free zones are exactly the units that are not used, in runs that    *)
(* are as long as they can be.                                             *)
(***************************************************************************)
THEOREM SpaceFreeZonesAreTheGaps == SpaceSpec => []FreeZonesAreTheGaps
<1>1. ASSUME SpaceInv PROVE FreeZonesAreTheGaps
  <2>1. /\ Tidy(coverage) /\ coverage.len \in Nat
        /\ \A t \in coverage.segments : t.start \in Nat /\ t.len \in Nat /\ End(t) = t.start + t.len
    BY <1>1 DEF SpaceInv, Tidy, Coverages, Segments, End
  <2>2. ASSUME NEW z \in FreeZones(coverage), NEW u \in z.start .. (End(z) - 1)
        PROVE  u \in (0 .. coverage.len - 1) \ Units(coverage.segments)
    <3>1. /\ z.start \in Nat /\ z.len \in Nat /\ End(z) \in Nat /\ End(z) <= coverage.len
          /\ \A t \in coverage.segments : End(z) <= t.start \/ End(t) <= z.start
      BY <2>1, FreeZonesAreFree DEF Apart, Segments, End
    <3>2. \A t \in coverage.segments : u \notin t.start .. (End(t) - 1)
      BY <2>1, <2>2, <3>1
    <3> QED
      BY <2>1, <2>2, <3>1, <3>2 DEF Units
  <2>3. ASSUME NEW u \in (0 .. coverage.len - 1) \ Units(coverage.segments)
        PROVE  \E z \in FreeZones(coverage) : u \in z.start .. (End(z) - 1)
    <3> DEFINE g == Segment(u, 1)
    <3>1. g \in Segments /\ g.len = 1 /\ g.start = u /\ End(g) = u + 1 /\ End(g) <= coverage.len
      BY <2>1 DEF Segment, Segments, End
    <3>2. \A t \in coverage.segments : u \notin t.start .. (End(t) - 1)
      BY DEF Units
    <3> HIDE DEF g
    <3>3. \A t \in coverage.segments : Apart(g, t)
      BY <2>1, <3>1, <3>2 DEF Apart
    <3>4. PICK z \in FreeZones(coverage) : z.start <= u /\ u + 1 <= End(z)
      BY <2>1, <3>1, <3>3, GapIsFound
    <3>5. z.start \in Nat /\ End(z) \in Nat
      BY <2>1, FreeZonesAreFree DEF Segments, End
    <3> QED
      BY <2>1, <3>4, <3>5
  <2>4. Units(FreeZones(coverage)) = (0 .. coverage.len - 1) \ Units(coverage.segments)
    BY <2>2, <2>3 DEF Units
  <2> QED
    BY <2>1, <2>4, FreeZonesAreMaximal DEF FreeZonesAreTheGaps
<1> QED
  BY <1>1, SpaceInvariant, PTL

(***************************************************************************)
(* The archive grows only when no run of free units is long enough.        *)
(***************************************************************************)
THEOREM SpaceGrowsOnlyWhenFull == SpaceSpec => GrowsOnlyWhenFull
<1>1. ASSUME SpaceInv, NEW len \in 1 .. MaxWrite, Write(len), coverage'.len > coverage.len
      PROVE  ~FreeRun(coverage, len)
  <2> SUFFICES ASSUME NEW a \in 0 .. (coverage.len - len),
                      (a .. a + len - 1) \cap Units(coverage.segments) = {}
               PROVE  FALSE
    BY DEF FreeRun
  <2> DEFINE g == Segment(a, len)
  <2>0. /\ Tidy(coverage) /\ len \in Nat /\ len > 0 /\ coverage.len \in Nat
        /\ a \in Nat /\ a + len <= coverage.len /\ source_len \in Nat
    BY <1>1, SizesAssumption DEF SpaceInv, Tidy, Coverages
  <2>1. Growing(coverage, len)
    <3> SUFFICES ASSUME ~Growing(coverage, len) PROVE FALSE
      OBVIOUS
    <3>1. coverage' = CoverageAfterWrite(coverage, source_len, len)
      BY <1>1 DEF Write
    <3>2. coverage'.len = coverage.len
      BY <2>0, <3>1, SegmentsAfterWrite
    <3> QED
      BY <1>1, <2>0, <3>2
  <2>2. g \in Segments /\ g.len = len /\ g.start = a /\ End(g) = a + len
    BY <2>0 DEF Segment, Segments, End
  <2>3. ASSUME NEW t \in coverage.segments
        PROVE  Apart(g, t)
    <3>1. t.start \in Nat /\ t.len \in Nat /\ t.len > 0 /\ End(t) = t.start + t.len
      BY <2>0 DEF Tidy, Coverages, Segments, End
    <3>2. \A u \in t.start .. (End(t) - 1) : u \notin a .. (a + len - 1)
      BY DEF Units
    <3> HIDE DEF g
    <3>3. CASE t.start <= a
      BY <2>0, <2>2, <3>1, <3>2, <3>3 DEF Apart
    <3>4. CASE t.start > a
      BY <2>0, <2>2, <3>1, <3>2, <3>4 DEF Apart
    <3> QED
      BY <2>0, <3>1, <3>3, <3>4
  <2> HIDE DEF g
  <2>4. PICK z \in FreeZones(coverage) : z.len >= g.len
    BY <2>0, <2>2, <2>3, GapIsFound
  <2> QED
    BY <2>1, <2>2, <2>4 DEF Growing, ZonesFor
<1>2. SpaceInv /\ [SpaceNext]_space_vars =>
        [\A len \in 1 .. MaxWrite :
           Write(len) /\ coverage'.len > coverage.len => ~FreeRun(coverage, len)]_space_vars
  BY <1>1
<1> QED
  BY <1>2, SpaceInvariant, PTL DEF SpaceSpec, GrowsOnlyWhenFull
=============================================================================
