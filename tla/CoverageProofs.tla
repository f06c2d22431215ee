--------------------------- MODULE CoverageProofs ---------------------------
(***************************************************************************)
(* Facts about the coverage's operators, for coverages of any size.  What  *)
(* is needed of the CHOOSE'd zones (lowest, highest, best fit) is that     *)
(* they exist; that comes from the well-foundedness of < on Nat.           *)
(***************************************************************************)
EXTENDS Coverage, WellFoundedInduction, TLAPS

\* What the archive relies on: used zones are not empty, do not overlap, and
\* lie within the length the coverage knows.
Tidy(cov) ==
  /\ cov \in Coverages
  /\ PairwiseApart(cov.segments)
  /\ \A s \in cov.segments : s.len > 0 /\ End(s) <= cov.len

-----------------------------------------------------------------------------
\* A non-empty set of naturals has a least element.
LEMMA NatMin ==
  ASSUME NEW T \in SUBSET Nat, T # {}
  PROVE  \E m \in T : \A n \in T : m <= n
<1>1. \E m \in T : \A n \in T : ~(<<n, m>> \in OpToRel(<, Nat))
  BY NatLessThanWellFounded, WFMin
<1>2. PICK m \in T : \A n \in T : ~(<<n, m>> \in OpToRel(<, Nat))
  BY <1>1
<1>3. \A n \in T : ~(n < m)
  BY <1>2 DEF OpToRel
<1> QED
  BY <1>3

\* A non-empty set of naturals with an upper bound has a greatest element.
LEMMA NatMax ==
  ASSUME NEW L \in Nat, NEW T \in SUBSET Nat, T # {}, \A n \in T : n <= L
  PROVE  \E m \in T : \A n \in T : n <= m
<1> DEFINE D == {L - n : n \in T}
<1>1. D \in SUBSET Nat /\ D # {}
  <2>1. \A n \in T : n \in Nat /\ n <= L
    OBVIOUS
  <2>2. \A n \in T : L - n \in Nat
    BY <2>1
  <2> QED
    BY <2>2
<1> HIDE DEF D
<1>2. PICK d \in D : \A e \in D : d <= e
  BY <1>1, NatMin
<1>3. PICK m \in T : d = L - m
  BY DEF D
<1>4. \A n \in T : L - m <= L - n
  BY <1>2, <1>3 DEF D
<1> QED
  BY <1>4

\* A non-empty set of zones has a first one in the BTreeSet's order.
LEMMA LowestExists ==
  ASSUME NEW S \in SUBSET Segments, S # {}
  PROVE  Lowest(S) \in S /\ \A t \in S \ {Lowest(S)} : Precedes(Lowest(S), t)
<1>1. PICK a \in {s.start : s \in S} : \A n \in {s.start : s \in S} : a <= n
  <2>1. {s.start : s \in S} \in SUBSET Nat /\ {s.start : s \in S} # {}
    BY DEF Segments
  <2> QED
    BY <2>1, NatMin
<1>2. PICK b \in {s.len : s \in {t \in S : t.start = a}} :
         \A n \in {s.len : s \in {t \in S : t.start = a}} : b <= n
  <2>1. /\ {s.len : s \in {t \in S : t.start = a}} \in SUBSET Nat
        /\ {s.len : s \in {t \in S : t.start = a}} # {}
    BY DEF Segments
  <2> QED
    BY <2>1, NatMin
<1>3. PICK s \in S : s.start = a /\ s.len = b
  OBVIOUS
<1>4. \A t \in S \ {s} : Precedes(s, t)
  <2> TAKE t \in S \ {s}
  <2>1. a <= t.start /\ (t.start = a => b <= t.len)
    BY <1>1, <1>2
  <2>2. t # s /\ t \in Segments /\ s \in Segments
    OBVIOUS
  <2>3. t.start # s.start \/ t.len # s.len
    BY <2>2 DEF Segments
  <2> QED
    BY <1>3, <2>1, <2>2, <2>3 DEF Precedes, Segments
<1>5. \E x \in S : \A t \in S \ {x} : Precedes(x, t)
  BY <1>4
<1> QED
  BY <1>5 DEF Lowest

\* A non-empty set of zones with a common bound has a last one.
LEMMA HighestExists ==
  ASSUME NEW L \in Nat, NEW S \in SUBSET Segments, S # {},
         \A s \in S : End(s) <= L
  PROVE  Highest(S) \in S /\ \A t \in S \ {Highest(S)} : Precedes(t, Highest(S))
<1>1. PICK a \in {s.start : s \in S} : \A n \in {s.start : s \in S} : n <= a
  <2>1. /\ {s.start : s \in S} \in SUBSET Nat /\ {s.start : s \in S} # {}
        /\ \A n \in {s.start : s \in S} : n <= L
    BY DEF Segments, End
  <2> QED
    BY <2>1, NatMax
<1>2. PICK b \in {s.len : s \in {t \in S : t.start = a}} :
         \A n \in {s.len : s \in {t \in S : t.start = a}} : n <= b
  <2>1. /\ {s.len : s \in {t \in S : t.start = a}} \in SUBSET Nat
        /\ {s.len : s \in {t \in S : t.start = a}} # {}
        /\ \A n \in {s.len : s \in {t \in S : t.start = a}} : n <= L
    BY DEF Segments, End
  <2> QED
    BY <2>1, NatMax
<1>3. PICK s \in S : s.start = a /\ s.len = b
  OBVIOUS
<1>4. \A t \in S \ {s} : Precedes(t, s)
  <2> TAKE t \in S \ {s}
  <2>1. t.start <= a /\ (t.start = a => t.len <= b)
    BY <1>1, <1>2
  <2>2. t # s /\ t \in Segments /\ s \in Segments
    OBVIOUS
  <2>3. t.start # s.start \/ t.len # s.len
    BY <2>2 DEF Segments
  <2> QED
    BY <1>3, <2>1, <2>2, <2>3 DEF Precedes, Segments
<1>5. \E x \in S : \A t \in S \ {x} : Precedes(t, x)
  BY <1>4
<1> QED
  BY <1>5 DEF Highest

\* The end of the last zone bounds the end of every zone of a tidy coverage,
\* and of every part of it.
LEMMA LastEndBounds ==
  ASSUME NEW cov, Tidy(cov), NEW T \in SUBSET cov.segments
  PROVE  /\ LastEnd(T) \in 0 .. cov.len
         /\ \A t \in T : End(t) <= LastEnd(T)
         /\ T # {} => LastEnd(T) = End(Highest(T)) /\ Highest(T) \in T
<1>0. cov.len \in Nat /\ T \in SUBSET Segments
  BY DEF Tidy, Coverages
<1>1. CASE T = {}
  BY <1>0, <1>1 DEF LastEnd
<1>2. CASE T # {}
  <2>1. Highest(T) \in T /\ \A t \in T \ {Highest(T)} : Precedes(t, Highest(T))
    BY <1>0, <1>2, HighestExists DEF Tidy
  <2>2. LastEnd(T) = End(Highest(T))
    BY <1>2 DEF LastEnd
  <2>3. \A t \in T : End(t) <= End(Highest(T))
    <3> TAKE t \in T
    <3>1. CASE t = Highest(T)
      BY <1>0, <2>1, <3>1 DEF End, Segments
    <3>2. CASE t # Highest(T)
      <4>1. Precedes(t, Highest(T)) /\ Apart(t, Highest(T))
        BY <2>1, <3>2 DEF Tidy, PairwiseApart
      <4>2. t.len > 0 /\ Highest(T).len > 0 /\ t \in Segments /\ Highest(T) \in Segments
        BY <1>0, <2>1 DEF Tidy
      <4> QED
        BY <4>1, <4>2 DEF Precedes, Apart, End, Segments
    <3> QED
      BY <3>1, <3>2
  <2>4. End(Highest(T)) \in 0 .. cov.len
    BY <1>0, <2>1 DEF Tidy, End, Segments
  <2> QED
    BY <1>2, <2>1, <2>2, <2>3, <2>4
<1> QED
  BY <1>1, <1>2

\* The same, for the zones that come before a given one.
LEMMA PrevEndBounds ==
  ASSUME NEW cov, Tidy(cov), NEW s \in cov.segments
  PROVE  /\ PrevEnd(cov.segments, s) \in 0 .. s.start
         /\ \A t \in cov.segments : Precedes(t, s) => End(t) <= PrevEnd(cov.segments, s)
<1> DEFINE T == {t \in cov.segments : Precedes(t, s)}
<1>1. /\ LastEnd(T) \in 0 .. cov.len
      /\ \A t \in T : End(t) <= LastEnd(T)
      /\ T # {} => LastEnd(T) = End(Highest(T)) /\ Highest(T) \in T
  BY LastEndBounds
<1>2. PrevEnd(cov.segments, s) = LastEnd(T)
  BY DEF PrevEnd
<1>3. LastEnd(T) <= s.start
  <2>1. CASE T = {}
    BY <2>1 DEF LastEnd, Tidy, Coverages, Segments
  <2>2. CASE T # {}
    <3> DEFINE h == Highest(T)
    <3>1. h \in cov.segments /\ Precedes(h, s)
      BY <1>1, <2>2
    <3>2. h \in Segments /\ s \in Segments /\ h.len > 0 /\ s.len > 0
      BY <3>1 DEF Tidy, Coverages
    <3>3. Apart(h, s)
      BY <3>1, <3>2 DEF Tidy, PairwiseApart, Precedes, Segments
    <3>4. End(h) <= s.start
      BY <3>1, <3>2, <3>3 DEF Apart, Precedes, End, Segments
    <3> QED
      BY <1>1, <2>2, <3>4
  <2> QED
    BY <2>1, <2>2
<1> QED
  BY <1>1, <1>2, <1>3

\* The iterator over free zones never meets a zone that starts before the end
\* of the previous one.
LEMMA FreeZonesNeverPanic ==
  ASSUME NEW cov, Tidy(cov)
  PROVE  FreeZonesAsserts(cov)
BY PrevEndBounds DEF FreeZonesAsserts

\* A free zone is a non-empty zone below "len", apart from every used zone.
LEMMA FreeZonesAreFree ==
  ASSUME NEW cov, Tidy(cov), NEW z \in FreeZones(cov)
  PROVE  /\ z \in Segments /\ z.len > 0 /\ End(z) <= cov.len
         /\ \A t \in cov.segments : Apart(z, t)
<1> DEFINE S == cov.segments
<1>0. cov.len \in Nat /\ S \in SUBSET Segments
  BY DEF Tidy, Coverages
<1>1. CASE \E s \in S : PrevEnd(S, s) < s.start /\ z = ZoneBetween(PrevEnd(S, s), s.start)
  <2>1. PICK s \in S : PrevEnd(S, s) < s.start /\ z = ZoneBetween(PrevEnd(S, s), s.start)
    BY <1>1
  <2> DEFINE p == PrevEnd(S, s)
  <2>2. p \in 0 .. s.start /\ \A t \in S : Precedes(t, s) => End(t) <= p
    BY PrevEndBounds
  <2>3. s \in Segments /\ p \in Nat /\ p < s.start /\ End(s) <= cov.len
    BY <1>0, <2>1, <2>2 DEF Tidy, Segments
  <2> HIDE DEF p
  <2>4. z = [start |-> p, len |-> s.start - p]
    BY <2>1 DEF p, ZoneBetween, Segment
  <2>5. z \in Segments /\ z.start = p /\ z.len > 0 /\ End(z) = s.start
    BY <2>3, <2>4 DEF End, Segments
  <2>6. End(z) <= cov.len
    BY <1>0, <2>3, <2>5 DEF End, Segments
  <2>7. \A t \in S : Apart(z, t)
    <3> TAKE t \in S
    <3>1. t \in Segments
      BY <1>0
    <3>2. CASE Precedes(t, s)
      BY <2>2, <2>5, <3>2 DEF Apart
    <3>3. CASE ~Precedes(t, s)
      <4>1. s.start <= t.start
        BY <2>3, <3>1, <3>3 DEF Precedes, Segments
      <4> QED
        BY <2>5, <4>1 DEF Apart
    <3> QED
      BY <3>2, <3>3
  <2> QED
    BY <2>5, <2>6, <2>7
<1>2. CASE LastEnd(S) < cov.len /\ z = ZoneBetween(LastEnd(S), cov.len)
  <2>1. LastEnd(S) \in 0 .. cov.len /\ \A t \in S : End(t) <= LastEnd(S)
    BY LastEndBounds
  <2>2. z = [start |-> LastEnd(S), len |-> cov.len - LastEnd(S)]
    BY <1>2 DEF ZoneBetween, Segment
  <2>3. z \in Segments /\ z.start = LastEnd(S) /\ z.len > 0 /\ End(z) = cov.len
    BY <1>0, <1>2, <2>1, <2>2 DEF End, Segments
  <2> QED
    BY <1>0, <2>1, <2>3 DEF Apart
<1> QED
  BY <1>1, <1>2 DEF FreeZones

\* A run of free units is found: it lies within some free zone.
LEMMA GapIsFound ==
  ASSUME NEW cov, Tidy(cov), NEW g \in Segments, g.len > 0, End(g) <= cov.len,
         \A t \in cov.segments : Apart(g, t)
  PROVE  \E z \in FreeZones(cov) : z.len >= g.len /\ z.start <= g.start /\ End(g) <= End(z)
<1> DEFINE S     == cov.segments
           above == {t \in S : t.start >= End(g)}
<1>1. /\ g.start \in Nat /\ g.len \in Nat /\ End(g) = g.start + g.len /\ cov.len \in Nat
      /\ \A t \in S : t.start \in Nat /\ t.len \in Nat /\ t.len > 0 /\ End(t) = t.start + t.len
      /\ S \in SUBSET Segments
  BY DEF Segments, End, Tidy, Coverages
<1>2. \A t \in S \ above : End(t) <= g.start
  BY <1>1 DEF Apart
<1>3. CASE above = {}
  <2> DEFINE z == ZoneBetween(LastEnd(S), cov.len)
  <2>1. LastEnd(S) \in Nat /\ LastEnd(S) <= g.start
    <3>1. CASE S = {}
      BY <1>1, <3>1 DEF LastEnd
    <3>2. CASE S # {}
      <4>1. LastEnd(S) = End(Highest(S)) /\ Highest(S) \in S
        BY <3>2, LastEndBounds
      <4> QED
        BY <1>1, <1>2, <1>3, <4>1
    <3> QED
      BY <3>1, <3>2
  <2>2. z \in FreeZones(cov)
    BY <1>1, <2>1 DEF FreeZones
  <2>3. z.len >= g.len /\ z.start <= g.start /\ End(g) <= End(z)
    <3>1. z.start = LastEnd(S) /\ z.len = cov.len - LastEnd(S) /\ End(z) = z.start + z.len
      BY DEF ZoneBetween, Segment, End
    <3> QED
      BY <1>1, <2>1, <3>1
  <2> QED
    BY <2>2, <2>3
<1>4. CASE above # {}
  <2> DEFINE s      == Lowest(above)
             before == {t \in S : Precedes(t, s)}
             z      == ZoneBetween(PrevEnd(S, s), s.start)
  <2>1. s \in above /\ \A t \in above \ {s} : Precedes(s, t)
    BY <1>1, <1>4, LowestExists
  <2> HIDE DEF s
  <2>2. \A t \in before : t \notin above
    BY <1>1, <2>1 DEF Precedes
  <2>3. PrevEnd(S, s) \in Nat /\ PrevEnd(S, s) <= g.start
    <3>1. PrevEnd(S, s) = LastEnd(before)
      BY DEF PrevEnd
    <3>2. before \in SUBSET S
      OBVIOUS
    <3>3. \A t \in before : End(t) <= g.start
      BY <1>2, <2>2
    <3> HIDE DEF before
    <3>4. CASE before = {}
      BY <1>1, <3>1, <3>4 DEF LastEnd
    <3>5. CASE before # {}
      <4>1. LastEnd(before) = End(Highest(before)) /\ Highest(before) \in before
        BY <3>2, <3>5, LastEndBounds
      <4> QED
        BY <1>1, <3>1, <3>2, <3>3, <4>1
    <3> QED
      BY <3>4, <3>5
  <2>4. z \in FreeZones(cov)
    BY <1>1, <2>1, <2>3 DEF FreeZones
  <2>5. z.len >= g.len /\ z.start <= g.start /\ End(g) <= End(z)
    <3>1. z.start = PrevEnd(S, s) /\ z.len = s.start - PrevEnd(S, s) /\ End(z) = z.start + z.len
      BY DEF ZoneBetween, Segment, End
    <3>2. s.start \in Nat /\ End(g) <= s.start
      BY <1>1, <2>1
    <3> QED
      BY <1>1, <2>3, <3>1, <3>2
  <2> QED
    BY <2>4, <2>5
<1> QED
  BY <1>3, <1>4

\* Two free zones do not touch: a used zone, which is not empty, is between.
LEMMA FreeZonesAreMaximal ==
  ASSUME NEW cov, Tidy(cov), NEW y \in FreeZones(cov), NEW z \in FreeZones(cov), y # z
  PROVE  End(y) < z.start \/ End(z) < y.start
<1> DEFINE S == cov.segments
           gap(s) == ZoneBetween(PrevEnd(S, s), s.start)
           tail == ZoneBetween(LastEnd(S), cov.len)
<1>1. /\ cov.len \in Nat
      /\ \A s \in S : s.start \in Nat /\ s.len \in Nat /\ s.len > 0 /\ End(s) = s.start + s.len
  BY DEF Tidy, Coverages, Segments, End
<1>2. \A s \in S : /\ PrevEnd(S, s) \in Nat /\ PrevEnd(S, s) <= s.start
                   /\ \A t \in S : Precedes(t, s) => End(t) <= PrevEnd(S, s)
  BY <1>1, PrevEndBounds
<1>3. LastEnd(S) \in Nat /\ LastEnd(S) <= cov.len /\ \A s \in S : End(s) <= LastEnd(S)
  BY <1>1, LastEndBounds
<1>4. \A s \in S : gap(s).start = PrevEnd(S, s) /\ End(gap(s)) = s.start
  BY <1>1, <1>2 DEF ZoneBetween, Segment, End
<1>5. tail.start = LastEnd(S)
  BY DEF ZoneBetween, Segment
<1>6. ASSUME NEW s \in S, NEW t \in S, Precedes(s, t)
      PROVE  End(gap(s)) < gap(t).start
  BY <1>1, <1>2, <1>4, <1>6
<1>7. ASSUME NEW s \in S
      PROVE  End(gap(s)) < tail.start
  BY <1>1, <1>3, <1>4, <1>5
<1>8. \A s, t \in S : s # t => Precedes(s, t) \/ Precedes(t, s)
  <2> SUFFICES ASSUME NEW s \in S, NEW t \in S, s # t PROVE Precedes(s, t) \/ Precedes(t, s)
    OBVIOUS
  <2>1. s.start # t.start \/ s.len # t.len
    BY DEF Tidy, Coverages, Segments
  <2> QED
    BY <1>1, <2>1 DEF Precedes
<1>9. /\ y = tail \/ \E s \in S : y = gap(s)
      /\ z = tail \/ \E s \in S : z = gap(s)
  BY DEF FreeZones
<1> HIDE DEF gap, tail
<1> QED
  BY <1>6, <1>7, <1>8, <1>9

\* find_free_zone_for returns a zone that is large enough whenever there is one.
LEMMA FindFreeZoneForFits ==
  ASSUME NEW cov, Tidy(cov), NEW capacity \in Nat, ZonesFor(cov, capacity) # {}
  PROVE  FindFreeZoneFor(cov, capacity) \in ZonesFor(cov, capacity)
<1> DEFINE Z == ZonesFor(cov, capacity)
<1>1. Z \in SUBSET Segments
  BY FreeZonesAreFree DEF ZonesFor
<1>2. PICK n \in {z.len : z \in Z} : \A m \in {z.len : z \in Z} : n <= m
  <2>1. {z.len : z \in Z} \in SUBSET Nat /\ {z.len : z \in Z} # {}
    BY <1>1 DEF Segments
  <2> QED
    BY <2>1, NatMin
<1>3. PICK a \in {z.start : z \in {y \in Z : y.len = n}} :
         \A b \in {z.start : z \in {y \in Z : y.len = n}} : a <= b
  <2>1. /\ {z.start : z \in {y \in Z : y.len = n}} \in SUBSET Nat
        /\ {z.start : z \in {y \in Z : y.len = n}} # {}
    BY <1>1 DEF Segments
  <2> QED
    BY <2>1, NatMin
<1>4. PICK z \in Z : z.len = n /\ z.start = a
  OBVIOUS
<1>5. \A y \in Z \ {z} : z.len < y.len \/ (z.len = y.len /\ z.start < y.start)
  <2> TAKE y \in Z \ {z}
  <2>1. n <= y.len /\ (y.len = n => a <= y.start)
    BY <1>2, <1>3
  <2>2. y # z /\ y \in Segments /\ z \in Segments
    BY <1>1
  <2>3. y.start # z.start \/ y.len # z.len
    BY <2>2 DEF Segments
  <2> QED
    BY <1>4, <2>1, <2>2, <2>3 DEF Segments
<1>6. \E x \in Z : \A y \in Z \ {x} : x.len < y.len \/ (x.len = y.len /\ x.start < y.start)
  BY <1>5
<1> QED
  BY <1>6 DEF FindFreeZoneFor

(***************************************************************************)
(* Where write_data_where_possible writes is apart from every used zone.   *)
(* Every safety property of the archive's space rests on this lemma.       *)
(***************************************************************************)
LEMMA AddrForIsFree ==
  ASSUME NEW cov, Tidy(cov), NEW len \in Nat
  PROVE  /\ AddrFor(cov, len) \in Nat
         /\ \A t \in cov.segments : Apart(Segment(AddrFor(cov, len), len), t)
         /\ ~Growing(cov, len) => AddrFor(cov, len) + len <= cov.len
<1> DEFINE a == AddrFor(cov, len)
<1>0. cov.len \in Nat /\ cov.segments \in SUBSET Segments
  BY DEF Tidy, Coverages
<1>1. CASE Growing(cov, len)
  <2>1. LastEnd(cov.segments) \in Nat /\ \A t \in cov.segments : End(t) <= LastEnd(cov.segments)
    BY <1>0, LastEndBounds
  <2>2. a = LastEnd(cov.segments)
    BY <1>1 DEF AddrFor, NextWritableAddr
  <2> QED
    BY <1>1, <2>1, <2>2 DEF Apart, Segment
<1>2. CASE ~Growing(cov, len)
  <2> DEFINE z == FindFreeZoneFor(cov, len)
  <2>1. z \in FreeZones(cov) /\ z.len >= len
    BY <1>2, FindFreeZoneForFits DEF Growing, ZonesFor
  <2>2. a = z.start
    BY <1>2 DEF AddrFor
  <2>3. z \in Segments /\ End(z) <= cov.len /\ \A t \in cov.segments : Apart(z, t)
    BY <2>1, FreeZonesAreFree
  <2> HIDE DEF z, a
  <2>4. \A t \in cov.segments : Apart(Segment(a, len), t)
    <3> TAKE t \in cov.segments
    <3>1. t \in Segments /\ Apart(z, t)
      BY <1>0, <2>3
    <3> QED
      BY <2>1, <2>2, <2>3, <3>1 DEF Apart, Segment, Segments, End
  <2>5. a \in Nat /\ a + len <= cov.len
    BY <1>0, <2>1, <2>2, <2>3 DEF Segments, End
  <2> QED
    BY <1>2, <2>4, <2>5 DEF a
<1> QED
  BY <1>1, <1>2

\* The zone is recorded unless it is empty.
LEMMA SegmentsAfterWrite ==
  ASSUME NEW cov, Tidy(cov), NEW source_len \in Nat, NEW len \in Nat
  PROVE  CoverageAfterWrite(cov, source_len, len) =
           [len |-> IF Growing(cov, len)
                      THEN SourceLenAfter(source_len, AddrFor(cov, len), len)
                      ELSE cov.len,
            segments |-> IF len = 0 THEN cov.segments
                         ELSE cov.segments \cup {Segment(AddrFor(cov, len), len)}]
BY DEF CoverageAfterWrite, GrowTo, MarkAsUsed, Tidy, Coverages

\* A write keeps the coverage tidy and no longer than the device.
LEMMA WriteKeepsTidy ==
  ASSUME NEW cov, Tidy(cov), NEW source_len \in Nat, cov.len <= source_len,
         NEW len \in Nat
  PROVE  LET new_len == SourceLenAfter(source_len, AddrFor(cov, len), len)
             new_cov == CoverageAfterWrite(cov, source_len, len)
         IN  /\ new_len \in Nat /\ new_len >= source_len
             /\ Tidy(new_cov)
             /\ new_cov.len <= new_len
             /\ cov.segments \subseteq new_cov.segments
             /\ len > 0 => Segment(AddrFor(cov, len), len) \in new_cov.segments
<1> DEFINE a == AddrFor(cov, len)
           new_len == SourceLenAfter(source_len, a, len)
           new_cov == CoverageAfterWrite(cov, source_len, len)
           s == Segment(a, len)
<1>0. cov.len \in Nat /\ cov.segments \in SUBSET Segments
  BY DEF Tidy, Coverages
<1>1. /\ a \in Nat
      /\ \A t \in cov.segments : Apart(s, t)
      /\ ~Growing(cov, len) => a + len <= cov.len
  BY AddrForIsFree
<1>2. /\ new_cov.len = IF Growing(cov, len) THEN new_len ELSE cov.len
      /\ new_cov.segments = IF len = 0 THEN cov.segments ELSE cov.segments \cup {s}
      /\ new_cov = [len |-> new_cov.len, segments |-> new_cov.segments]
  BY SegmentsAfterWrite
<1> HIDE DEF a, new_cov
<1>3. new_len \in Nat /\ new_len >= source_len /\ (len > 0 => a + len <= new_len)
  BY <1>1 DEF SourceLenAfter
<1> HIDE DEF new_len
<1>4. s \in Segments /\ s.len = len /\ End(s) = a + len
  BY <1>1 DEF Segment, Segments, End
<1> HIDE DEF s
<1>5. new_cov.len \in Nat /\ cov.len <= new_cov.len /\ new_cov.len <= new_len
  BY <1>0, <1>2, <1>3
<1>6. new_cov \in Coverages
  BY <1>0, <1>2, <1>4, <1>5 DEF Coverages
<1>7. PairwiseApart(new_cov.segments)
  <2>1. \A x, y \in new_cov.segments : x # y => Apart(x, y)
    <3> TAKE x, y \in new_cov.segments
    <3> HAVE x # y
    <3>1. CASE x \in cov.segments /\ y \in cov.segments
      BY <3>1 DEF Tidy, PairwiseApart
    <3>2. CASE x = s /\ y \in cov.segments
      BY <1>1, <3>2
    <3>3. CASE y = s /\ x \in cov.segments
      BY <1>1, <3>3 DEF Apart
    <3> QED
      BY <1>2, <3>1, <3>2, <3>3
  <2> QED
    BY <2>1 DEF PairwiseApart
<1>8. \A t \in new_cov.segments : t.len > 0 /\ End(t) <= new_cov.len
  <2> TAKE t \in new_cov.segments
  <2>1. CASE t \in cov.segments
    <3>1. t.len > 0 /\ End(t) <= cov.len /\ t \in Segments
      BY <1>0, <2>1 DEF Tidy
    <3> QED
      BY <1>0, <1>5, <3>1 DEF End, Segments
  <2>2. CASE t = s /\ len > 0
    BY <1>0, <1>1, <1>2, <1>3, <1>4, <2>2
  <2> QED
    BY <1>2, <2>1, <2>2
<1>9. Tidy(new_cov)
  BY <1>6, <1>7, <1>8 DEF Tidy
<1>10. cov.segments \subseteq new_cov.segments /\ (len > 0 => s \in new_cov.segments)
  BY <1>2
<1> QED
  BY <1>3, <1>5, <1>9, <1>10 DEF a, new_len, new_cov, s

\* Releasing a zone keeps the coverage tidy.
LEMMA FreeKeepsTidy ==
  ASSUME NEW cov, Tidy(cov), NEW s \in Segments
  PROVE  /\ Tidy(MarkAsFree(cov, s))
         /\ MarkAsFree(cov, s).len = cov.len
         /\ MarkAsFree(cov, s).segments \subseteq cov.segments
         /\ cov.segments \ {s} \subseteq MarkAsFree(cov, s).segments
BY DEF Tidy, MarkAsFree, Coverages, PairwiseApart, End

\* A write never meets a failing assertion.
LEMMA WriteNeverPanics ==
  ASSUME NEW cov, Tidy(cov), NEW source_len \in Nat, cov.len <= source_len,
         NEW len \in Nat
  PROVE  WriteAsserts(cov, source_len, len)
<1> DEFINE a == AddrFor(cov, len)
<1>0. cov.len \in Nat /\ cov.segments \in SUBSET Segments
  BY DEF Tidy, Coverages
<1>1. a \in Nat /\ \A t \in cov.segments : Apart(Segment(a, len), t)
  BY AddrForIsFree
<1> HIDE DEF a
<1>2. FreeZonesAsserts(cov)
  BY FreeZonesNeverPanic
<1>3. GrowToAsserts(cov, SourceLenAfter(source_len, a, len))
  BY <1>0, <1>1 DEF GrowToAsserts, SourceLenAfter
<1>4. MarkAsUsedAsserts(cov, a, len)
  <2> DEFINE below == {s \in cov.segments : s.start <= a}
             above == {s \in cov.segments : s.start >= a}
  <2> SUFFICES ASSUME len > 0
               PROVE  /\ below # {} => End(Lowest(below)) <= a
                      /\ above # {} => a + len <= Lowest(above).start
    BY DEF MarkAsUsedAsserts
  <2>1. \A t \in cov.segments : t \in Segments /\ t.len > 0 /\ (End(t) <= a \/ a + len <= t.start)
    <3> TAKE t \in cov.segments
    <3>1. t \in Segments /\ t.len > 0 /\ Apart(Segment(a, len), t)
      BY <1>0, <1>1 DEF Tidy
    <3> QED
      BY <1>1, <3>1 DEF Apart, End, Segment, Segments
  <2>2. below # {} => Lowest(below) \in below
    BY <1>0, LowestExists
  <2>3. above # {} => Lowest(above) \in above
    BY <1>0, LowestExists
  <2>4. \A t \in below : End(t) <= a
    BY <1>1, <2>1 DEF End, Segments
  <2>5. \A t \in above : a + len <= t.start
    BY <1>1, <2>1 DEF End, Segments
  <2> QED
    BY <2>2, <2>3, <2>4, <2>5
<1> QED
  BY <1>2, <1>3, <1>4 DEF WriteAsserts, a

-----------------------------------------------------------------------------
(***************************************************************************)
(* Things placed in the space: z gives each its zone.  All zones are known *)
(* to the coverage and within the device, and no two of them are the same, *)
(* so that, the coverage being tidy, no two of them overlap.  Zones of     *)
(* length 0 are nowhere recorded.                                          *)
(***************************************************************************)
Placed(z, cov, source_len) ==
  /\ Tidy(cov)
  /\ source_len \in Nat /\ cov.len <= source_len
  /\ \A m \in DOMAIN z : /\ z[m] \in Segments
                         /\ End(z[m]) <= source_len
                         /\ z[m].len > 0 => z[m] \in cov.segments
  /\ \A m, n \in DOMAIN z : m # n /\ z[m].len > 0 => z[m] # z[n]

\* Two things placed do not overlap.
LEMMA PlacedApart ==
  ASSUME NEW z, NEW cov, NEW source_len, Placed(z, cov, source_len),
         NEW m \in DOMAIN z, NEW n \in DOMAIN z,
         m # n, z[m].len > 0, z[n].len > 0
  PROVE  Apart(z[m], z[n])
BY DEF Placed, Tidy, PairwiseApart

\* Data written wherever possible is placed beside what was there.
LEMMA PlacedWrite ==
  ASSUME NEW z, NEW cov, NEW source_len, Placed(z, cov, source_len),
         NEW len \in Nat, NEW m, m \notin DOMAIN z,
         NEW y, DOMAIN y = DOMAIN z \cup {m}, \A k \in DOMAIN z : y[k] = z[k],
         y[m] = Segment(AddrFor(cov, len), len)
  PROVE  Placed(y, CoverageAfterWrite(cov, source_len, len),
                SourceLenAfter(source_len, AddrFor(cov, len), len))
<1> DEFINE a == AddrFor(cov, len)
           new_len == SourceLenAfter(source_len, a, len)
           new_cov == CoverageAfterWrite(cov, source_len, len)
<1>1. Tidy(cov) /\ source_len \in Nat /\ cov.len <= source_len /\ cov.len \in Nat
  BY DEF Placed, Tidy, Coverages
<1>2. /\ new_len \in Nat /\ new_len >= source_len
      /\ Tidy(new_cov) /\ new_cov.len <= new_len
      /\ cov.segments \subseteq new_cov.segments
      /\ len > 0 => Segment(a, len) \in new_cov.segments
  BY <1>1, WriteKeepsTidy
<1>3. a \in Nat /\ \A t \in cov.segments : Apart(Segment(a, len), t)
  BY <1>1, AddrForIsFree
<1>4. a + len <= new_len
  <2>1. CASE len > 0
    BY <1>1, <1>3, <2>1 DEF SourceLenAfter
  <2>2. CASE len = 0
    <3>1. CASE Growing(cov, len)
      <4>1. a = LastEnd(cov.segments)
        BY <3>1 DEF AddrFor, NextWritableAddr
      <4>2. LastEnd(cov.segments) \in 0 .. cov.len
        BY <1>1, LastEndBounds
      <4> QED
        BY <1>1, <1>2, <2>2, <4>1, <4>2
    <3>2. CASE ~Growing(cov, len)
      <4>1. a + len <= cov.len
        BY <1>1, <3>2, AddrForIsFree
      <4> QED
        BY <1>1, <1>2, <1>3, <4>1
    <3> QED
      BY <3>1, <3>2
  <2> QED
    BY <2>1, <2>2
<1> HIDE DEF a, new_len, new_cov
<1>5. y[m] \in Segments /\ End(y[m]) = a + len /\ y[m].len = len
  BY <1>3 DEF Segment, Segments, End, a
<1>6. \A k \in DOMAIN y : /\ y[k] \in Segments
                          /\ End(y[k]) <= new_len
                          /\ y[k].len > 0 => y[k] \in new_cov.segments
  <2> TAKE k \in DOMAIN y
  <2>1. CASE k = m
    BY <1>2, <1>4, <1>5, <2>1 DEF a
  <2>2. CASE k \in DOMAIN z
    <3>1. z[k] \in Segments /\ End(z[k]) <= source_len /\ (z[k].len > 0 => z[k] \in cov.segments)
      BY <2>2 DEF Placed
    <3>2. End(z[k]) \in Nat
      BY <3>1 DEF End, Segments
    <3> QED
      BY <1>1, <1>2, <2>2, <3>1, <3>2
  <2> QED
    BY <2>1, <2>2
<1>7. ASSUME NEW k \in DOMAIN z PROVE ~(y[m] = z[k] /\ len > 0)
  <2> SUFFICES ASSUME y[m] = z[k], len > 0 PROVE FALSE
    OBVIOUS
  <2>1. z[k] \in cov.segments
    BY <1>5 DEF Placed
  <2>2. Apart(y[m], y[m])
    BY <1>3, <2>1 DEF a
  <2> QED
    BY <1>5, <2>2 DEF Apart, End, Segments
<1>8. \A k, n \in DOMAIN y : k # n /\ y[k].len > 0 => y[k] # y[n]
  <2> TAKE k, n \in DOMAIN y
  <2> HAVE k # n /\ y[k].len > 0
  <2>1. CASE k = m
    BY <1>5, <1>7, <2>1
  <2>2. CASE n = m
    <3>1. k \in DOMAIN z /\ y[k] = z[k]
      BY <2>2
    <3> QED
      BY <1>5, <1>7, <2>2, <3>1
  <2>3. CASE k \in DOMAIN z /\ n \in DOMAIN z
    BY <2>3 DEF Placed
  <2> QED
    BY <2>1, <2>2, <2>3
<1> QED
  BY <1>2, <1>6, <1>8 DEF Placed, a, new_len, new_cov

\* Some of the things placed are forgotten, or the device gets longer.
LEMMA PlacedLess ==
  ASSUME NEW z, NEW cov, NEW source_len, Placed(z, cov, source_len),
         NEW y, DOMAIN y \subseteq DOMAIN z, \A k \in DOMAIN y : y[k] = z[k],
         NEW new_len \in Nat, new_len >= source_len
  PROVE  Placed(y, cov, new_len)
<1>1. source_len \in Nat /\ cov.len <= source_len /\ cov.len \in Nat
  BY DEF Placed, Tidy, Coverages
<1>2. ASSUME NEW k \in DOMAIN y
      PROVE  y[k] \in Segments /\ End(y[k]) <= new_len /\ (y[k].len > 0 => y[k] \in cov.segments)
  <2>1. y[k] = z[k] /\ z[k] \in Segments /\ End(z[k]) <= source_len
    BY DEF Placed
  <2>2. End(z[k]) \in Nat
    BY <2>1 DEF End, Segments
  <2>3. z[k].len > 0 => z[k] \in cov.segments
    BY DEF Placed
  <2> QED
    BY <1>1, <2>1, <2>2, <2>3
<1>3. \A k, n \in DOMAIN y : k # n /\ y[k].len > 0 => y[k] # y[n]
  BY DEF Placed
<1>4. cov.len <= new_len
  BY <1>1
<1> QED
  BY <1>2, <1>3, <1>4 DEF Placed

\* The things placed at gone are no more, and new_cov is the coverage cov less
\* zones of theirs.
Released(z, cov, gone, y, new_cov) ==
  /\ gone \in SUBSET DOMAIN z /\ DOMAIN y = DOMAIN z \ gone
  /\ \A k \in DOMAIN y : y[k] = z[k]
  /\ new_cov = [len |-> new_cov.len, segments |-> new_cov.segments]
  /\ new_cov.len = cov.len /\ new_cov.segments \subseteq cov.segments
  /\ \A s \in cov.segments : (\A m \in gone : s # z[m]) => s \in new_cov.segments

\* The zones of some of the things placed are released.
LEMMA PlacedRelease ==
  ASSUME NEW z, NEW cov, NEW source_len, Placed(z, cov, source_len),
         NEW gone, NEW y, NEW new_cov, Released(z, cov, gone, y, new_cov)
  PROVE  Placed(y, new_cov, source_len)
<1> /\ gone \in SUBSET DOMAIN z /\ DOMAIN y = DOMAIN z \ gone
    /\ \A k \in DOMAIN y : y[k] = z[k]
    /\ new_cov = [len |-> new_cov.len, segments |-> new_cov.segments]
    /\ new_cov.len = cov.len /\ new_cov.segments \subseteq cov.segments
    /\ \A s \in cov.segments : (\A m \in gone : s # z[m]) => s \in new_cov.segments
  BY DEF Released
<1>1. Tidy(new_cov)
  BY DEF Placed, Tidy, Coverages, PairwiseApart
<1>2. ASSUME NEW k \in DOMAIN y
      PROVE  y[k] \in Segments /\ End(y[k]) <= source_len /\ (y[k].len > 0 => y[k] \in new_cov.segments)
  <2>1. k \in DOMAIN z /\ k \notin gone /\ y[k] = z[k]
    OBVIOUS
  <2>2. /\ z[k] \in Segments /\ End(z[k]) <= source_len
        /\ z[k].len > 0 => z[k] \in cov.segments
    BY <2>1 DEF Placed
  <2>3. z[k].len > 0 => \A m \in gone : z[k] # z[m]
    BY <2>1 DEF Placed
  <2> QED
    BY <2>1, <2>2, <2>3
<1>3. \A k, n \in DOMAIN y : k # n /\ y[k].len > 0 => y[k] # y[n]
  BY DEF Placed
<1> QED
  BY <1>1, <1>2, <1>3 DEF Placed

\* The coverage built afresh from the things placed.
LEMMA PlacedAfresh ==
  ASSUME NEW z, NEW cov, NEW source_len, Placed(z, cov, source_len)
  PROVE  /\ {s \in {z[m] : m \in DOMAIN z} : s.len > 0} \subseteq cov.segments
         /\ Placed(z, [len |-> source_len,
                       segments |-> {s \in {z[m] : m \in DOMAIN z} : s.len > 0}], source_len)
<1> DEFINE S == {s \in {z[m] : m \in DOMAIN z} : s.len > 0}
           new_cov == [len |-> source_len, segments |-> S]
<1>1. S \subseteq cov.segments
  BY DEF Placed
<1>2. \A s \in S : s \in Segments /\ s.len > 0 /\ End(s) <= source_len
  BY DEF Placed
<1>3. \A m \in DOMAIN z : z[m].len > 0 => z[m] \in S
  OBVIOUS
<1>4. new_cov.len = source_len /\ new_cov.segments = S
  OBVIOUS
<1>5. source_len \in Nat
  BY DEF Placed
<1> HIDE DEF S
<1>6. new_cov \in Coverages
  BY <1>2, <1>5 DEF Coverages
<1> HIDE DEF new_cov
<1>7. Tidy(new_cov)
  BY <1>1, <1>2, <1>4, <1>6 DEF Placed, Tidy, PairwiseApart
<1>8. Placed(z, new_cov, source_len)
  BY <1>3, <1>4, <1>5, <1>7 DEF Placed
<1> QED
  BY <1>1, <1>8 DEF S, new_cov

\* Marking one more of the things placed never meets a failing assertion.
LEMMA PlacedMarks ==
  ASSUME NEW z, NEW cov, NEW source_len, Placed(z, cov, source_len),
         NEW before \in SUBSET DOMAIN z, NEW m \in DOMAIN z, m \notin before,
         NEW c, c.segments = {s \in {z[k] : k \in before} : s.len > 0}
  PROVE  MarkAsUsedAsserts(c, z[m].start, z[m].len)
<1> DEFINE a == z[m].start
           len == z[m].len
           below == {s \in c.segments : s.start <= a}
           above == {s \in c.segments : s.start >= a}
<1> SUFFICES ASSUME len > 0
             PROVE  /\ below # {} => End(Lowest(below)) <= a
                    /\ above # {} => a + len <= Lowest(above).start
  BY DEF MarkAsUsedAsserts
<1>1. z[m] \in Segments /\ End(z[m]) = a + len
  BY DEF Placed, End
<1>2. ASSUME NEW t \in c.segments
      PROVE  t \in Segments /\ t.len > 0 /\ (End(t) <= a \/ a + len <= t.start)
  <2>1. PICK k \in before : t = z[k] /\ z[k].len > 0
    OBVIOUS
  <2>2. k \in DOMAIN z /\ k # m
    OBVIOUS
  <2>3. t \in Segments
    BY <2>1, <2>2 DEF Placed
  <2>4. Apart(z[m], z[k])
    BY <2>1, <2>2, PlacedApart
  <2> QED
    BY <1>1, <2>1, <2>3, <2>4 DEF Apart
<1>3. a \in Nat /\ len \in Nat
  BY <1>1 DEF Segments
<1>4. c.segments \in SUBSET Segments
  BY <1>2
<1>5. below # {} => Lowest(below) \in below
  BY <1>4, LowestExists
<1>6. above # {} => Lowest(above) \in above
  BY <1>4, LowestExists
<1> HIDE DEF a, len
<1>7. \A t \in below : End(t) <= a
  BY <1>2, <1>3 DEF End, Segments
<1>8. \A t \in above : a + len <= t.start
  BY <1>2, <1>3 DEF End, Segments
<1> QED
  BY <1>5, <1>6, <1>7, <1>8

-----------------------------------------------------------------------------
(***************************************************************************)
(* A device cut short, with things placed as if it went on to the end of   *)
(* the last one, m: the coverage knows less than the length it would have, *)
(* which makes no difference to where the next things go.                  *)
(***************************************************************************)
Completed(z, m, cov) == [len |-> End(z[m]), segments |-> cov.segments]

Short(z, m, cov, source_len) ==
  /\ m \in DOMAIN z /\ z[m].len > 0
  /\ cov = [len |-> cov.len, segments |-> cov.segments]
  /\ cov.len \in Nat /\ cov.len <= End(z[m])
  /\ source_len \in Nat /\ cov.len <= source_len
  /\ Placed(z, Completed(z, m, cov), IF source_len < End(z[m]) THEN End(z[m]) ELSE source_len)

Fits(z, m, cov, source_len) == Placed(z, cov, source_len) \/ Short(z, m, cov, source_len)

\* The policy chooses as it would on the complete device.
LEMMA ShortAddr ==
  ASSUME NEW z, NEW m, NEW cov, NEW source_len, Short(z, m, cov, source_len), NEW len
  PROVE  LET c == Completed(z, m, cov)
         IN  /\ Tidy(c) /\ End(z[m]) \in Nat
             /\ LastEnd(cov.segments) = End(z[m])
             /\ Growing(cov, len) = Growing(c, len)
             /\ AddrFor(cov, len) = AddrFor(c, len)
<1> DEFINE c == Completed(z, m, cov)
           S == cov.segments
           e == End(z[m])
<1>1. Tidy(c) /\ m \in DOMAIN z /\ z[m].len > 0 /\ cov.len \in Nat /\ cov.len <= e
  BY DEF Short, Placed
<1>2. c.segments = S /\ c.len = e
  BY DEF Completed
<1>3. z[m] \in c.segments
  BY <1>1 DEF Short, Placed
<1>4. e \in Nat
  BY <1>1, <1>2 DEF Tidy, Coverages
<1> HIDE DEF c, e
<1>5. LastEnd(S) = e
  <2>1. S \in SUBSET c.segments
    BY <1>2
  <2>2. LastEnd(S) \in 0 .. c.len /\ \A t \in S : End(t) <= LastEnd(S)
    BY <1>1, <2>1, LastEndBounds
  <2>3. e <= LastEnd(S)
    BY <1>2, <1>3, <2>2 DEF e
  <2> QED
    BY <1>2, <1>4, <2>2, <2>3
<1>6. ~(LastEnd(S) < cov.len) /\ ~(LastEnd(S) < c.len)
  BY <1>1, <1>2, <1>4, <1>5
<1>7. FreeZones(cov) = FreeZones(c)
  BY <1>2, <1>6 DEF FreeZones
<1>8. \A n : ZonesFor(cov, n) = ZonesFor(c, n)
  BY <1>7 DEF ZonesFor
<1>9. Growing(cov, len) = Growing(c, len)
  BY <1>8 DEF Growing
<1>10. NextWritableAddr(cov) = NextWritableAddr(c)
  BY <1>2 DEF NextWritableAddr
<1>11. FindFreeZoneFor(cov, len) = FindFreeZoneFor(c, len)
  BY <1>8 DEF FindFreeZoneFor
<1>12. AddrFor(cov, len) = AddrFor(c, len)
  BY <1>9, <1>10, <1>11 DEF AddrFor
<1> QED
  BY <1>1, <1>4, <1>5, <1>9, <1>12 DEF c, e

\* Data is written beside all that fits.
LEMMA FitsAddr ==
  ASSUME NEW z, NEW m, NEW cov, NEW source_len, Fits(z, m, cov, source_len), NEW len \in Nat
  PROVE  /\ AddrFor(cov, len) \in Nat
         /\ \A k \in DOMAIN z : z[k].len > 0 => Apart(Segment(AddrFor(cov, len), len), z[k])
<1>1. ASSUME NEW c, Placed(z, c, IF source_len < End(z[m]) THEN End(z[m]) ELSE source_len)
                    \/ Placed(z, c, source_len)
      PROVE  /\ AddrFor(c, len) \in Nat
             /\ \A k \in DOMAIN z : z[k].len > 0 => Apart(Segment(AddrFor(c, len), len), z[k])
  BY <1>1, AddrForIsFree DEF Placed
<1>2. CASE Placed(z, cov, source_len)
  BY <1>1, <1>2
<1>3. CASE Short(z, m, cov, source_len)
  BY <1>1, <1>3, ShortAddr DEF Short
<1> QED
  BY <1>2, <1>3 DEF Fits

\* Two things that fit do not overlap.
LEMMA FitsApart ==
  ASSUME NEW z, NEW m, NEW cov, NEW source_len, Fits(z, m, cov, source_len),
         NEW k \in DOMAIN z, NEW n \in DOMAIN z,
         k # n, z[k].len > 0, z[n].len > 0
  PROVE  Apart(z[k], z[n])
BY PlacedApart DEF Fits, Short

\* Where things fit is a number, and so is the length of the device.
LEMMA FitsTypes ==
  ASSUME NEW z, NEW m, NEW cov, NEW source_len, Fits(z, m, cov, source_len)
  PROVE  /\ source_len \in Nat /\ cov.len \in Nat /\ cov.len <= source_len
         /\ cov = [len |-> cov.len, segments |-> cov.segments]
         /\ cov \in Coverages
         /\ \A k \in DOMAIN z : z[k] \in Segments
<1>1. CASE Placed(z, cov, source_len)
  BY <1>1 DEF Placed, Tidy, Coverages
<1>2. CASE Short(z, m, cov, source_len)
  <2>1. cov.segments \in SUBSET Segments
    BY <1>2 DEF Short, Placed, Tidy, Coverages, Completed
  <2>2. cov \in Coverages
    BY <1>2, <2>1 DEF Short, Coverages
  <2> QED
    BY <1>2, <2>2 DEF Short, Placed
<1> QED
  BY <1>1, <1>2 DEF Fits

\* Writing to a device cut short: the device is complete afterwards, or the
\* things placed are so as on a complete one.
LEMMA ShortWrite ==
  ASSUME NEW z, NEW m, NEW cov, NEW source_len, Short(z, m, cov, source_len),
         NEW len \in Nat, NEW n, n \notin DOMAIN z,
         NEW y, DOMAIN y = DOMAIN z \cup {n}, \A k \in DOMAIN z : y[k] = z[k],
         y[n] = Segment(AddrFor(cov, len), len)
  PROVE  Fits(y, m, CoverageAfterWrite(cov, source_len, len),
              SourceLenAfter(source_len, AddrFor(cov, len), len))
<1> DEFINE c == Completed(z, m, cov)
           e == End(z[m])
           a == AddrFor(cov, len)
           B == IF source_len < e THEN e ELSE source_len
           S == cov.segments
           s == SourceLenAfter(source_len, a, len)
           new == CoverageAfterWrite(cov, source_len, len)
           T == IF len = 0 THEN S ELSE S \cup {Segment(a, len)}
<1>1. /\ m \in DOMAIN z /\ z[m].len > 0 /\ cov = [len |-> cov.len, segments |-> S]
      /\ cov.len \in Nat /\ cov.len <= e /\ source_len \in Nat /\ cov.len <= source_len
      /\ Placed(z, c, B)
  BY DEF Short
<1>2. Tidy(c) /\ e \in Nat /\ LastEnd(S) = e /\ Growing(cov, len) = Growing(c, len)
      /\ a = AddrFor(c, len)
  BY ShortAddr
<1>3. Placed(y, CoverageAfterWrite(c, B, len), SourceLenAfter(B, a, len))
  BY <1>1, <1>2, PlacedWrite
<1>4. y[m] = z[m] /\ m \in DOMAIN y /\ End(y[m]) = e /\ y[m].len > 0
  BY <1>1
<1>5. a \in Nat
  BY <1>2, AddrForIsFree
<1>6. c = [len |-> e, segments |-> S]
  BY DEF Completed
<1>7. new = [len |-> IF Growing(cov, len) THEN s ELSE cov.len, segments |-> T]
  BY <1>1 DEF CoverageAfterWrite, MarkAsUsed, GrowTo
<1>8. CoverageAfterWrite(c, B, len)
        = [len |-> IF Growing(cov, len) THEN SourceLenAfter(B, a, len) ELSE e, segments |-> T]
  BY <1>2, <1>6 DEF CoverageAfterWrite, MarkAsUsed, GrowTo
<1>9. Completed(y, m, new) = [len |-> e, segments |-> T]
  BY <1>4, <1>7 DEF Completed
<1>10. ~Growing(cov, len) => a + len <= e
  BY <1>2, <1>6, AddrForIsFree
<1>11. Growing(cov, len) => a = e
  BY <1>2 DEF AddrFor, NextWritableAddr
<1>12. s \in Nat /\ s >= source_len
  BY <1>1, <1>5 DEF SourceLenAfter
<1> HIDE DEF c, e, a, S, T, new, s
<1>13. CASE Growing(cov, len) /\ (len > 0 \/ ~(source_len < e))
  <2>1. SourceLenAfter(B, a, len) = s
    BY <1>1, <1>2, <1>11, <1>13 DEF SourceLenAfter, s
  <2>2. Placed(y, new, s)
    BY <1>3, <1>7, <1>8, <1>13, <2>1
  <2> QED
    BY <2>2 DEF Fits, new, s, a
<1>14. CASE ~(Growing(cov, len) /\ (len > 0 \/ ~(source_len < e)))
  <2>1. SourceLenAfter(B, a, len) = B /\ (IF s < e THEN e ELSE s) = B
    BY <1>1, <1>2, <1>5, <1>10, <1>11, <1>14 DEF SourceLenAfter, s
  <2>2. CoverageAfterWrite(c, B, len) = Completed(y, m, new)
    <3>1. Growing(cov, len) => B = e
      BY <1>14
    <3> QED
      BY <1>8, <1>9, <2>1, <3>1
  <2>3. Placed(y, Completed(y, m, new), IF s < e THEN e ELSE s)
    BY <1>3, <2>1, <2>2
  <2>4. /\ new = [len |-> new.len, segments |-> new.segments]
        /\ new.len \in Nat /\ new.len <= e /\ new.len <= s
    <3>1. CASE Growing(cov, len)
      <4>1. s = source_len /\ source_len < e /\ len = 0
        BY <1>14, <3>1 DEF s, SourceLenAfter
      <4> QED
        BY <1>1, <1>2, <1>7, <3>1, <4>1
    <3>2. CASE ~Growing(cov, len)
      BY <1>1, <1>2, <1>7, <1>12, <3>2
    <3> QED
      BY <3>1, <3>2
  <2>5. Short(y, m, new, s)
    BY <1>4, <1>12, <2>3, <2>4 DEF Short
  <2> QED
    BY <2>5 DEF Fits, new, s, a
<1> QED
  BY <1>13, <1>14

\* Data written wherever possible fits beside what was there.
LEMMA FitsWrite ==
  ASSUME NEW z, NEW m, NEW cov, NEW source_len, Fits(z, m, cov, source_len),
         NEW len \in Nat, NEW n, n \notin DOMAIN z,
         NEW y, DOMAIN y = DOMAIN z \cup {n}, \A k \in DOMAIN z : y[k] = z[k],
         y[n] = Segment(AddrFor(cov, len), len)
  PROVE  Fits(y, m, CoverageAfterWrite(cov, source_len, len),
              SourceLenAfter(source_len, AddrFor(cov, len), len))
BY PlacedWrite, ShortWrite DEF Fits

\* Some of the things are forgotten, or the device gets longer.
LEMMA FitsLess ==
  ASSUME NEW z, NEW m, NEW cov, NEW source_len, Fits(z, m, cov, source_len),
         NEW y, DOMAIN y \subseteq DOMAIN z, m \in DOMAIN y, \A k \in DOMAIN y : y[k] = z[k],
         NEW new_len \in Nat, new_len >= source_len
  PROVE  Fits(y, m, cov, new_len)
<1>1. CASE Placed(z, cov, source_len)
  BY <1>1, PlacedLess DEF Fits
<1>2. CASE Short(z, m, cov, source_len)
  <2> DEFINE e == End(z[m])
             B == IF source_len < e THEN e ELSE source_len
             N == IF new_len < e THEN e ELSE new_len
  <2>1. /\ Placed(z, Completed(z, m, cov), B) /\ e \in Nat /\ y[m] = z[m]
        /\ source_len \in Nat /\ cov.len \in Nat /\ cov.len <= source_len
    BY <1>2, ShortAddr DEF Short
  <2>2. N \in Nat /\ N >= B
    BY <2>1
  <2>3. Completed(y, m, cov) = Completed(z, m, cov) /\ End(y[m]) = e
    BY <2>1 DEF Completed
  <2> HIDE DEF B, N, e
  <2>4. Placed(y, Completed(z, m, cov), N)
    BY <2>1, <2>2, PlacedLess
  <2>5. cov.len <= new_len
    BY <2>1
  <2>6. Placed(y, Completed(y, m, cov), IF new_len < End(y[m]) THEN End(y[m]) ELSE new_len)
    BY <2>3, <2>4 DEF N
  <2>7. Short(y, m, cov, new_len)
    BY <1>2, <2>1, <2>5, <2>6 DEF Short
  <2> QED
    BY <2>7 DEF Fits
<1> QED
  BY <1>1, <1>2 DEF Fits

\* The zones of some of the things are released.
LEMMA FitsRelease ==
  ASSUME NEW z, NEW m, NEW cov, NEW source_len, Fits(z, m, cov, source_len),
         NEW gone, NEW y, NEW new_cov, Released(z, cov, gone, y, new_cov), m \notin gone
  PROVE  Fits(y, m, new_cov, source_len)
<1>1. CASE Placed(z, cov, source_len)
  BY <1>1, PlacedRelease DEF Fits
<1>2. CASE Short(z, m, cov, source_len)
  <2>1. m \in DOMAIN y /\ y[m] = z[m] /\ new_cov.len = cov.len
        /\ new_cov = [len |-> new_cov.len, segments |-> new_cov.segments]
    BY <1>2 DEF Released, Short
  <2>2. Released(z, Completed(z, m, cov), gone, y, Completed(y, m, new_cov))
    BY <2>1 DEF Released, Completed
  <2>3. Placed(y, Completed(y, m, new_cov),
               IF source_len < End(y[m]) THEN End(y[m]) ELSE source_len)
    BY <1>2, <2>1, <2>2, PlacedRelease DEF Short
  <2>4. Short(y, m, new_cov, source_len)
    BY <1>2, <2>1, <2>3 DEF Short
  <2> QED
    BY <2>4 DEF Fits
<1> QED
  BY <1>1, <1>2 DEF Fits

\* The coverage built afresh, on a device that may end within m.
LEMMA FitsAfresh ==
  ASSUME NEW z, NEW m, NEW cov, NEW source_len, Fits(z, m, cov, source_len),
         m \in DOMAIN z, z[m].len > 0
  PROVE  /\ {s \in {z[k] : k \in DOMAIN z} : s.len > 0} \subseteq cov.segments
         /\ Fits(z, m, [len |-> source_len,
                        segments |-> {s \in {z[k] : k \in DOMAIN z} : s.len > 0}], source_len)
<1> DEFINE S == {s \in {z[k] : k \in DOMAIN z} : s.len > 0}
           new == [len |-> source_len, segments |-> S]
           e == End(z[m])
           B == IF source_len < e THEN e ELSE source_len
<1>1. CASE Placed(z, cov, source_len)
  BY <1>1, PlacedAfresh DEF Fits
<1>2. CASE Short(z, m, cov, source_len)
  <2>1. /\ Placed(z, Completed(z, m, cov), B) /\ source_len \in Nat /\ e \in Nat
        /\ Completed(z, m, cov).segments = cov.segments
    BY <1>2, ShortAddr DEF Short, Completed
  <2>2. S \subseteq cov.segments /\ Placed(z, [len |-> B, segments |-> S], B)
    BY <2>1, PlacedAfresh
  <2>3. CASE source_len < e
    <3>1. Completed(z, m, new) = [len |-> B, segments |-> S] /\ new.len = source_len
          /\ new = [len |-> new.len, segments |-> new.segments]
      BY <2>3 DEF Completed
    <3> HIDE DEF new, S
    <3>2. Short(z, m, new, source_len)
      BY <2>1, <2>2, <2>3, <3>1 DEF Short
    <3> QED
      BY <2>2, <3>2 DEF Fits, new, S
  <2>4. CASE ~(source_len < e)
    <3>1. B = source_len
      BY <2>4
    <3> QED
      BY <2>2, <3>1 DEF Fits
  <2> QED
    BY <2>3, <2>4
<1> QED
  BY <1>1, <1>2 DEF Fits

\* A coverage that reaches the end of m leaves nothing short.
LEMMA FitsPlaced ==
  ASSUME NEW z, NEW m, NEW cov, NEW source_len, Fits(z, m, cov, source_len),
         End(z[m]) <= cov.len
  PROVE  Placed(z, cov, source_len)
<1> SUFFICES ASSUME Short(z, m, cov, source_len) PROVE Placed(z, cov, source_len)
  BY DEF Fits
<1>1. /\ End(z[m]) \in Nat /\ cov.len \in Nat /\ cov.len <= End(z[m])
      /\ cov.len <= source_len /\ source_len \in Nat
      /\ cov = [len |-> cov.len, segments |-> cov.segments]
  BY ShortAddr DEF Short
<1>2. End(z[m]) = cov.len
  BY <1>1
<1>3. Completed(z, m, cov) = cov
  BY <1>1, <1>2 DEF Completed
<1>4. (IF source_len < End(z[m]) THEN End(z[m]) ELSE source_len) = source_len
  BY <1>1, <1>2
<1> QED
  BY <1>3, <1>4 DEF Short

\* Neither the coverage nor the device gets shorter when data is written.
LEMMA WriteLengthens ==
  ASSUME NEW cov \in Coverages, NEW source_len \in Nat, cov.len <= source_len, NEW len \in Nat,
         AddrFor(cov, len) \in Nat
  PROVE  /\ SourceLenAfter(source_len, AddrFor(cov, len), len) \in Nat
         /\ source_len <= SourceLenAfter(source_len, AddrFor(cov, len), len)
         /\ cov.len <= CoverageAfterWrite(cov, source_len, len).len
<1> DEFINE new_len == SourceLenAfter(source_len, AddrFor(cov, len), len)
           grown   == GrowTo(cov, new_len)
           base    == IF Growing(cov, len) THEN grown ELSE cov
           written == [base EXCEPT !.segments = @ \cup {Segment(AddrFor(cov, len), len)}]
<1>1. new_len \in Nat /\ source_len <= new_len
  BY DEF SourceLenAfter
<1>2. cov = [len |-> cov.len, segments |-> cov.segments] /\ cov.len \in Nat
  BY DEF Coverages
<1> HIDE DEF new_len
<1>3. grown = [len |-> new_len, segments |-> cov.segments]
  BY <1>2 DEF GrowTo
<1>4. base = [len |-> base.len, segments |-> base.segments] /\ cov.len <= base.len
  BY <1>1, <1>2, <1>3
<1>5. CoverageAfterWrite(cov, source_len, len) = IF len = 0 THEN base ELSE written
  BY DEF CoverageAfterWrite, MarkAsUsed, new_len
<1> HIDE DEF base
<1>6. written.len = base.len
  BY <1>4
<1> QED
  BY <1>1, <1>4, <1>5, <1>6 DEF new_len
=============================================================================
