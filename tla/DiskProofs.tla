----------------------------- MODULE DiskProofs -----------------------------
(***************************************************************************)
(* The device holds the table the archive believes in, whatever the        *)
(* operations and wherever a crash cuts them off.                          *)
(*                                                                         *)
(* A table on the device is a set of pieces, each with an address of its   *)
(* own: the three fields at the head of every segment, and the entries.    *)
(* Decoding reads all of them.  A write is then a write to one piece, or   *)
(* to a zone that has no piece in it.                                      *)
(***************************************************************************)
EXTENDS DiskTree, ArchiveProofs, FiniteSetTheorems, SequenceTheorems

Pieces(segs) ==
  {<<"head", i>> : i \in DOMAIN segs}
    \cup {<<"dir", x>> : x \in DirSlots(segs)} \cup {<<"file", x>> : x \in FileSlots(segs)}

PieceAddr(segs, p) ==
  IF p[1] = "head" THEN SegmentAddr(segs, p[2])
  ELSE IF p[1] = "dir" THEN DirEntryAddr(segs, p[2])
  ELSE FileEntryAddr(segs, p[2])

PieceLen(p) == IF p[1] = "file" THEN 6 ELSE 3

HeadFields(segment) == <<segment.next_segment_addr, Len(segment.dirs), Len(segment.files)>>
DirFields(dir)      == IF dir = None THEN <<0>> ELSE EncodeDir(dir)
FileFields(file)    == IF file = None THEN <<0>> ELSE EncodeFile(file)

\* What is read of a piece: of an empty slot, the ID only.
PieceFields(segs, p) ==
  IF p[1] = "head" THEN HeadFields(segs[p[2]])
  ELSE IF p[1] = "dir" THEN DirFields(DirAt(segs, p[2]))
  ELSE FileFields(FileAt(segs, p[2]))

\* The fields are on the device from address a on.
Written(d, a, fields) ==
  \A k \in 1 .. Len(fields) : a + k - 1 \in DOMAIN d /\ d[a + k - 1] = fields[k]

(***************************************************************************)
(* The device holds the table.  After a creation cut off only the last     *)
(* slots of the first segment can be beyond its end, in part; these are    *)
(* slots of files.                                                         *)
(***************************************************************************)
Held(d, segs, p) ==
  /\ Written(d, PieceAddr(segs, p), PieceFields(segs, p))
  /\ p[1] = "dir" => \A k \in 0 .. 2 : PieceAddr(segs, p) + k \in DOMAIN d

Holds(d, segs) == \A p \in Pieces(segs) : Held(d, segs, p)

OnDevice(d, segs, len) ==
  /\ DOMAIN d = 0 .. len - 1
  /\ Holds(d, segs)
  /\ NextAddr(segs) = 0

DiskInv == ArchiveInv /\ OnDevice(disk, file_segments, source_len)

-----------------------------------------------------------------------------
(* Writing *)

IsFields(fields) ==
  Len(fields) \in Nat /\ fields = [k \in 1 .. Len(fields) |-> fields[k]]

\* new is d with the fields from address a on.
Wrote(d, new, a, fields) ==
  /\ DOMAIN d \subseteq DOMAIN new
  /\ Written(new, a, fields)
  /\ \A x \in DOMAIN d : x < a \/ x >= a + Len(fields) => new[x] = d[x]

\* A write does what it says, and the device gets as long as the archive thinks.
LEMMA WriteEffect ==
  ASSUME NEW d, NEW len \in Nat, DOMAIN d = 0 .. len - 1,
         NEW w, w.addr \in Nat, IsFields(w.fields)
  PROVE  /\ Wrote(d, WriteTo(d, w), w.addr, w.fields)
         /\ DOMAIN WriteTo(d, w) = 0 .. SourceLenAfter(len, w.addr, Len(w.fields)) - 1
<1> DEFINE a   == w.addr
           f   == w.fields
           end == a + Len(f)
           new == WriteTo(d, w)
<1>1. a \in Nat /\ Len(f) \in Nat /\ end \in Nat
  BY DEF IsFields
<1>2. f = <<>> <=> Len(f) = 0
  BY DEF IsFields
<1>3. DOMAIN new = DOMAIN d \cup (IF f = <<>> THEN {} ELSE 0 .. end - 1)
  BY DEF WriteTo
<1>4. \A x \in DOMAIN new : new[x] = IF x \in a .. end - 1 THEN f[x - a + 1]
                                      ELSE IF x \in DOMAIN d THEN d[x] ELSE 0
  BY DEF WriteTo
<1> HIDE DEF a, f, end, new
<1>5. end = a + Len(f)
  BY DEF end
<1>6. DOMAIN new = 0 .. SourceLenAfter(len, a, Len(f)) - 1
  BY <1>1, <1>2, <1>3, <1>5 DEF SourceLenAfter
<1>7. Written(new, a, f)
  <2> SUFFICES ASSUME NEW k \in 1 .. Len(f)
               PROVE  a + k - 1 \in DOMAIN new /\ new[a + k - 1] = f[k]
    BY DEF Written
  <2>1. a + k - 1 \in 0 .. end - 1 /\ a + k - 1 \in a .. end - 1 /\ Len(f) # 0
    BY <1>1, <1>5
  <2>2. a + k - 1 \in DOMAIN new
    BY <1>2, <1>3, <2>1
  <2>3. (a + k - 1) - a + 1 = k
    BY <1>1
  <2>4. new[a + k - 1] = f[(a + k - 1) - a + 1]
    BY <1>4, <2>1, <2>2
  <2> QED
    BY <2>2, <2>3, <2>4
<1>8. \A x \in DOMAIN d : x < a \/ x >= a + Len(f) => new[x] = d[x]
  <2> TAKE x \in DOMAIN d
  <2> HAVE x < a \/ x >= a + Len(f)
  <2>1. x \notin a .. end - 1 /\ x \in DOMAIN new
    BY <1>1, <1>3, <1>5
  <2> QED
    BY <1>4, <2>1
<1> QED
  BY <1>3, <1>6, <1>7, <1>8 DEF Wrote, a, f, new

\* after holds the devices before and after each of the first n writes.
Sequence(d, ws, n, after) ==
  after = [i \in 0 .. n |-> IF i = 0 THEN d ELSE WriteTo(after[i - 1], ws[i])]

\* There always are such devices.
LEMMA SequenceExists ==
  ASSUME NEW d, NEW ws, NEW n \in Nat
  PROVE  \E after : Sequence(d, ws, n, after)
<1> DEFINE Bad == {m \in Nat : ~\E after : Sequence(d, ws, m, after)}
<1>1. SUFFICES ASSUME Bad # {} PROVE FALSE
  OBVIOUS
<1>2. PICK m \in Bad : \A l \in Bad : m <= l
  BY <1>1, NatMin
<1>3. CASE m = 0
  <2>1. Sequence(d, ws, 0, [i \in 0 .. 0 |-> d])
    BY DEF Sequence
  <2> QED
    BY <1>2, <1>3, <2>1
<1>4. CASE m # 0
  <2>1. m \in Nat /\ m - 1 \in Nat /\ m - 1 \notin Bad
    BY <1>2, <1>4
  <2>2. PICK f : Sequence(d, ws, m - 1, f)
    BY <2>1
  <2> DEFINE g == [i \in 0 .. m |-> IF i = 0 THEN d ELSE WriteTo(f[i - 1], ws[i])]
  <2>3. \A i \in 0 .. m - 1 : g[i] = f[i]
    <3>1. f = [i \in 0 .. m - 1 |-> IF i = 0 THEN d ELSE WriteTo(f[i - 1], ws[i])]
      BY <2>2 DEF Sequence
    <3>2. \A i \in 0 .. m - 1 : f[i] = IF i = 0 THEN d ELSE WriteTo(f[i - 1], ws[i])
      BY <3>1
    <3> QED
      BY <2>1, <3>2
  <2>4. \A i \in 0 .. m : i # 0 => i - 1 \in 0 .. m - 1
    BY <2>1
  <2>5. g = [i \in 0 .. m |-> IF i = 0 THEN d ELSE WriteTo(g[i - 1], ws[i])]
    BY <2>3, <2>4
  <2>6. Sequence(d, ws, m, g)
    <3> HIDE DEF g
    <3> QED BY <2>5 DEF Sequence
  <2> QED
    BY <1>2, <2>6
<1> QED
  BY <1>3, <1>4

\* Devices are such.
LEMMA DevicesAre ==
  ASSUME NEW d, NEW ws, Len(ws) \in Nat
  PROVE  /\ Devices(d, ws)[0] = d
         /\ \A i \in 1 .. Len(ws) : Devices(d, ws)[i] = WriteTo(Devices(d, ws)[i - 1], ws[i])
<1> DEFINE n == Len(ws)
           D == Devices(d, ws)
<1>1. D = CHOOSE after : Sequence(d, ws, n, after)
  BY DEF Devices, Sequence
<1>2. Sequence(d, ws, n, D)
  BY <1>1, SequenceExists
<1> HIDE DEF D
<1>3. D = [i \in 0 .. n |-> IF i = 0 THEN d ELSE WriteTo(D[i - 1], ws[i])]
  BY <1>2 DEF Sequence
<1>4. \A i \in 0 .. n : D[i] = IF i = 0 THEN d ELSE WriteTo(D[i - 1], ws[i])
  BY <1>3
<1> QED
  BY <1>4 DEF D

-----------------------------------------------------------------------------
(* Where the pieces of a table are *)

\* The segment a piece belongs to.
SegmentOf(p) == IF p[1] = "head" THEN p[2] ELSE p[2][1]

\* A piece of a table is the head of a segment, or an entry of it.
LEMMA PieceCases ==
  ASSUME NEW segs \in Tables, NEW p \in Pieces(segs)
  PROVE  /\ SegmentOf(p) \in DOMAIN segs
         /\ \/ p = <<"head", SegmentOf(p)>>
            \/ \E j \in DOMAIN segs[SegmentOf(p)].dirs :
                 p = <<"dir", <<SegmentOf(p), j>>>> /\ <<SegmentOf(p), j>> \in DirSlots(segs)
            \/ \E j \in DOMAIN segs[SegmentOf(p)].files :
                 p = <<"file", <<SegmentOf(p), j>>>> /\ <<SegmentOf(p), j>> \in FileSlots(segs)
<1>1. CASE \E i \in DOMAIN segs : p = <<"head", i>>
  BY <1>1 DEF SegmentOf
<1>2. CASE \E x \in DirSlots(segs) : p = <<"dir", x>>
  <2>1. PICK x \in DirSlots(segs) : p = <<"dir", x>>
    BY <1>2
  <2>2. PICK i \in DOMAIN segs : \E j \in DOMAIN segs[i].dirs : x = <<i, j>>
    BY DirSlotPair
  <2>3. SegmentOf(p) = i
    BY <2>1, <2>2 DEF SegmentOf
  <2> QED
    BY <2>1, <2>2, <2>3
<1>3. CASE \E x \in FileSlots(segs) : p = <<"file", x>>
  <2>1. PICK x \in FileSlots(segs) : p = <<"file", x>>
    BY <1>3
  <2>2. PICK i \in DOMAIN segs : \E j \in DOMAIN segs[i].files : x = <<i, j>>
    BY FileSlotPair
  <2>3. SegmentOf(p) = i
    BY <2>1, <2>2 DEF SegmentOf
  <2> QED
    BY <2>1, <2>2, <2>3
<1> QED
  BY <1>1, <1>2, <1>3 DEF Pieces

\* The slots of a segment, and its length in fields.
LEMMA SegmentLayout ==
  ASSUME NEW segs \in Tables, NEW i \in DOMAIN segs
  PROVE  /\ Len(segs[i].dirs) \in Nat /\ DOMAIN segs[i].dirs = 1 .. Len(segs[i].dirs)
         /\ Len(segs[i].files) \in Nat /\ DOMAIN segs[i].files = 1 .. Len(segs[i].files)
         /\ SegmentAddr(segs, i) \in Nat
         /\ EncodedLen(segs[i]) = 3 + Len(segs[i].dirs) * 3 + Len(segs[i].files) * 6
         /\ EncodedLen(segs[i]) \in Nat \ {0}
         /\ i \in Nat \ {0} /\ DOMAIN segs = 1 .. Len(segs) /\ Len(segs) \in Nat
<1>1. segs[i] \in FileTableSegment /\ i \in Nat \ {0}
      /\ DOMAIN segs = 1 .. Len(segs) /\ Len(segs) \in Nat
  BY DEF Tables
<1> DEFINE s == segs[i]
           m == Len(s.dirs)
           n == Len(s.files)
<1>2. s.dirs \in Seq(Directory \cup {None}) /\ s.files \in Seq(File \cup {None})
  BY <1>1 DEF FileTableSegment
<1>3. /\ m \in Nat /\ DOMAIN s.dirs = 1 .. m
      /\ n \in Nat /\ DOMAIN s.files = 1 .. n
  BY <1>2
<1>4. EncodedLen(s) = 3 + m * 3 + n * 6
  BY FieldsAssumption DEF EncodedLen
<1>5. EncodedLen(s) \in Nat \ {0}
  BY <1>1, EncodedLenPositive
<1>6. SegmentAddr(segs, i) \in Nat
  BY EntryAddrs
<1> QED
  BY <1>1, <1>3, <1>4, <1>5, <1>6

\* Piece p of segment i, at x and l fields long, when the segment is at a and
\* has m directory and n file slots.
PlacedAs(p, i, x, l, a, m, n) ==
  \/ p = <<"head", i>> /\ x = a /\ l = 3
  \/ \E j \in 1 .. m : p = <<"dir", <<i, j>>>> /\ x = a + 3 + (j - 1) * 3 /\ l = 3
  \/ \E j \in 1 .. n : p = <<"file", <<i, j>>>> /\ x = a + 3 + m * 3 + (j - 1) * 6 /\ l = 6

\* Such a piece is within its segment.
LEMMA PlacingBounds ==
  ASSUME NEW p, NEW i, NEW x, NEW l, NEW a \in Nat, NEW m \in Nat, NEW n \in Nat,
         PlacedAs(p, i, x, l, a, m, n)
  PROVE  x \in Nat /\ l \in {3, 6} /\ a <= x /\ x + l <= a + 3 + m * 3 + n * 6
BY DEF PlacedAs

\* Two such pieces of one segment are apart.
LEMMA PlacingApart ==
  ASSUME NEW p, NEW q, p # q, NEW i, NEW x, NEW y, NEW l, NEW o,
         NEW a \in Nat, NEW m \in Nat, NEW n \in Nat,
         PlacedAs(p, i, x, l, a, m, n), PlacedAs(q, i, y, o, a, m, n)
  PROVE  x + l <= y \/ y + o <= x
<1> USE DEF PlacedAs
<1>1. CASE p = <<"head", i>> /\ x = a /\ l = 3
  BY <1>1
<1>2. CASE \E j \in 1 .. m : p = <<"dir", <<i, j>>>> /\ x = a + 3 + (j - 1) * 3 /\ l = 3
  <2>1. PICK j \in 1 .. m : p = <<"dir", <<i, j>>>> /\ x = a + 3 + (j - 1) * 3 /\ l = 3
    BY <1>2
  <2>2. CASE q = <<"head", i>> /\ y = a /\ o = 3
    BY <2>1, <2>2
  <2>3. CASE \E k \in 1 .. m : q = <<"dir", <<i, k>>>> /\ y = a + 3 + (k - 1) * 3 /\ o = 3
    <3>1. PICK k \in 1 .. m : q = <<"dir", <<i, k>>>> /\ y = a + 3 + (k - 1) * 3 /\ o = 3
      BY <2>3
    <3>2. j # k
      BY <2>1, <3>1
    <3>3. j < k \/ k < j
      BY <3>2
    <3> QED
      BY <2>1, <3>1, <3>3
  <2>4. CASE \E k \in 1 .. n : q = <<"file", <<i, k>>>> /\ y = a + 3 + m * 3 + (k - 1) * 6 /\ o = 6
    BY <2>1, <2>4
  <2> QED
    BY <2>2, <2>3, <2>4
<1>3. CASE \E j \in 1 .. n : p = <<"file", <<i, j>>>> /\ x = a + 3 + m * 3 + (j - 1) * 6 /\ l = 6
  <2>1. PICK j \in 1 .. n : p = <<"file", <<i, j>>>> /\ x = a + 3 + m * 3 + (j - 1) * 6 /\ l = 6
    BY <1>3
  <2>2. CASE q = <<"head", i>> /\ y = a /\ o = 3
    BY <2>1, <2>2
  <2>3. CASE \E k \in 1 .. m : q = <<"dir", <<i, k>>>> /\ y = a + 3 + (k - 1) * 3 /\ o = 3
    BY <2>1, <2>3
  <2>4. CASE \E k \in 1 .. n : q = <<"file", <<i, k>>>> /\ y = a + 3 + m * 3 + (k - 1) * 6 /\ o = 6
    <3>1. PICK k \in 1 .. n : q = <<"file", <<i, k>>>> /\ y = a + 3 + m * 3 + (k - 1) * 6 /\ o = 6
      BY <2>4
    <3>2. j # k
      BY <2>1, <3>1
    <3>3. j < k \/ k < j
      BY <3>2
    <3> QED
      BY <2>1, <3>1, <3>3
  <2> QED
    BY <2>2, <2>3, <2>4
<1> QED
  BY <1>1, <1>2, <1>3

\* Where the pieces of a table are.
LEMMA PieceAddrs ==
  ASSUME NEW segs \in Tables, NEW p \in Pieces(segs)
  PROVE  LET i == SegmentOf(p)
         IN  PlacedAs(p, i, PieceAddr(segs, p), PieceLen(p), SegmentAddr(segs, i),
                      Len(segs[i].dirs), Len(segs[i].files))
<1> DEFINE i == SegmentOf(p)
           a == SegmentAddr(segs, i)
           m == Len(segs[i].dirs)
           n == Len(segs[i].files)
<1>1. i \in DOMAIN segs
  BY PieceCases
<1>2. DOMAIN segs[i].dirs = 1 .. m /\ DOMAIN segs[i].files = 1 .. n
  BY <1>1, SegmentLayout
<1>3. CASE p = <<"head", i>>
  <2>1. PieceAddr(segs, p) = a /\ PieceLen(p) = 3
    BY <1>3 DEF PieceAddr, PieceLen
  <2> QED
    BY <1>3, <2>1 DEF PlacedAs
<1>4. CASE \E j \in DOMAIN segs[i].dirs : p = <<"dir", <<i, j>>>>
  <2>1. PICK j \in DOMAIN segs[i].dirs : p = <<"dir", <<i, j>>>>
    BY <1>4
  <2>2. p[1] = "dir" /\ p[2] = <<i, j>> /\ p[2][1] = i /\ p[2][2] = j
    BY <2>1
  <2>3. PieceAddr(segs, p) = a + 3 + (j - 1) * 3 /\ PieceLen(p) = 3
    <3> HIDE DEF i
    <3> QED BY <2>2, FieldsAssumption DEF PieceAddr, PieceLen, DirEntryAddr
  <2> HIDE DEF i, a, m, n
  <2>4. PlacedAs(p, i, PieceAddr(segs, p), PieceLen(p), a, m, n)
    BY <1>2, <2>1, <2>3 DEF PlacedAs
  <2> QED
    BY <2>4 DEF i, a, m, n
<1>5. CASE \E j \in DOMAIN segs[i].files : p = <<"file", <<i, j>>>>
  <2>1. PICK j \in DOMAIN segs[i].files : p = <<"file", <<i, j>>>>
    BY <1>5
  <2>2. p[1] = "file" /\ p[2] = <<i, j>> /\ p[2][1] = i /\ p[2][2] = j
    BY <2>1
  <2>3. PieceAddr(segs, p) = a + 3 + m * 3 + (j - 1) * 6 /\ PieceLen(p) = 6
    <3> HIDE DEF i
    <3> QED BY <2>2, FieldsAssumption DEF PieceAddr, PieceLen, FileEntryAddr
  <2> HIDE DEF i, a, m, n
  <2>4. PlacedAs(p, i, PieceAddr(segs, p), PieceLen(p), a, m, n)
    BY <1>2, <2>1, <2>3 DEF PlacedAs
  <2> QED
    BY <2>4 DEF i, a, m, n
<1> QED
  BY <1>3, <1>4, <1>5, PieceCases

\* The zone of a segment.
SegmentEnd(segs, i) == SegmentAddr(segs, i) + EncodedLen(segs[i])

LEMMA SegmentBounds ==
  ASSUME NEW segs \in Tables, NEW i \in DOMAIN segs
  PROVE  /\ SegmentAddr(segs, i) \in Nat /\ EncodedLen(segs[i]) \in Nat \ {0}
         /\ SegmentEnd(segs, i) \in Nat /\ SegmentAddr(segs, i) < SegmentEnd(segs, i)
<1>1. SegmentAddr(segs, i) \in Nat /\ EncodedLen(segs[i]) \in Nat \ {0}
  <2>1. segs[i] \in FileTableSegment
    BY DEF Tables
  <2> QED
    BY <2>1, EntryAddrs, EncodedLenPositive
<1> QED
  BY <1>1 DEF SegmentEnd

\* A piece is within its segment.
LEMMA PieceBounds ==
  ASSUME NEW segs \in Tables, NEW p \in Pieces(segs)
  PROVE  LET i == SegmentOf(p)
         IN  /\ i \in DOMAIN segs
             /\ PieceAddr(segs, p) \in Nat /\ PieceLen(p) \in {3, 6}
             /\ SegmentAddr(segs, i) <= PieceAddr(segs, p)
             /\ PieceAddr(segs, p) + PieceLen(p) <= SegmentEnd(segs, i)
<1> DEFINE i == SegmentOf(p)
<1>1. i \in DOMAIN segs
  BY PieceCases
<1>2. PICK a, m, n : a = SegmentAddr(segs, i) /\ m = Len(segs[i].dirs) /\ n = Len(segs[i].files)
  OBVIOUS
<1>3. /\ a \in Nat /\ m \in Nat /\ n \in Nat
      /\ EncodedLen(segs[i]) = 3 + m * 3 + n * 6
  BY <1>1, <1>2, SegmentLayout
<1>4. PlacedAs(p, i, PieceAddr(segs, p), PieceLen(p), a, m, n)
  BY <1>2, PieceAddrs
<1>5. /\ PieceAddr(segs, p) \in Nat /\ PieceLen(p) \in {3, 6} /\ a <= PieceAddr(segs, p)
      /\ PieceAddr(segs, p) + PieceLen(p) <= a + 3 + m * 3 + n * 6
  <2> HIDE DEF i
  <2> QED BY <1>3, <1>4, PlacingBounds
<1>6. SegmentEnd(segs, i) = a + 3 + m * 3 + n * 6
  <2>1. SegmentEnd(segs, i) = a + EncodedLen(segs[i])
    BY <1>2 DEF SegmentEnd
  <2> HIDE DEF i
  <2> QED BY <1>3, <2>1
<1> QED
  BY <1>1, <1>2, <1>5, <1>6

\* Two segments share no space.
LEMMA SegmentsApart ==
  ASSUME NEW segs \in Tables, NEW cov, NEW len, Fits(Zones(segs), FirstMark, cov, len),
         NEW i \in DOMAIN segs, NEW k \in DOMAIN segs, i # k
  PROVE  SegmentEnd(segs, i) <= SegmentAddr(segs, k) \/ SegmentEnd(segs, k) <= SegmentAddr(segs, i)
<1> DEFINE y == Segment(SegmentAddr(segs, i), EncodedLen(segs[i]))
           z == Segment(SegmentAddr(segs, k), EncodedLen(segs[k]))
<1>1. /\ <<i, 0>> \in DOMAIN Zones(segs) /\ Zones(segs)[<<i, 0>>] = y
      /\ <<k, 0>> \in DOMAIN Zones(segs) /\ Zones(segs)[<<k, 0>>] = z
  BY MarksShape DEF Zones
<1>2. y.len > 0 /\ z.len > 0
  BY SegmentBounds DEF Segment
<1>3. <<i, 0>> # <<k, 0>>
  OBVIOUS
<1>4. Apart(y, z)
  BY <1>1, <1>2, <1>3, FitsApart
<1> QED
  BY <1>4 DEF Apart, End, Segment, SegmentEnd

\* Nor do two pieces.
LEMMA PiecesApart ==
  ASSUME NEW segs \in Tables, NEW cov, NEW len, Fits(Zones(segs), FirstMark, cov, len),
         NEW p \in Pieces(segs), NEW q \in Pieces(segs), p # q
  PROVE  \/ PieceAddr(segs, p) + PieceLen(p) <= PieceAddr(segs, q)
         \/ PieceAddr(segs, q) + PieceLen(q) <= PieceAddr(segs, p)
<1> DEFINE i == SegmentOf(p)
           k == SegmentOf(q)
<1>1. PICK x, y, s, t : x = PieceAddr(segs, p) /\ y = PieceAddr(segs, q)
                          /\ s = PieceLen(p) /\ t = PieceLen(q)
  OBVIOUS
<1>2. PICK a, b, e, g : a = SegmentAddr(segs, i) /\ b = SegmentAddr(segs, k)
                          /\ e = SegmentEnd(segs, i) /\ g = SegmentEnd(segs, k)
  OBVIOUS
<1>3. /\ i \in DOMAIN segs /\ x \in Nat /\ s \in {3, 6} /\ a <= x /\ x + s <= e
      /\ k \in DOMAIN segs /\ y \in Nat /\ t \in {3, 6} /\ b <= y /\ y + t <= g
  BY <1>1, <1>2, PieceBounds
<1>4. a \in Nat /\ b \in Nat /\ e \in Nat /\ g \in Nat
  BY <1>2, <1>3, SegmentBounds
<1>5. x + s <= y \/ y + t <= x
  <2>1. CASE i # k
    <3>1. e <= b \/ g <= a
      BY <1>2, <1>3, <2>1, SegmentsApart
    <3> QED
      BY <1>3, <1>4, <3>1
  <2>2. CASE i = k
    <3>1. PICK m, n : m = Len(segs[i].dirs) /\ n = Len(segs[i].files)
      OBVIOUS
    <3>2. m \in Nat /\ n \in Nat
      BY <1>3, <3>1, SegmentLayout
    <3>3. PlacedAs(p, i, x, s, a, m, n)
      BY <1>1, <1>2, <3>1, PieceAddrs
    <3>4. PlacedAs(q, i, y, t, a, m, n)
      BY <1>1, <1>2, <2>2, <3>1, PieceAddrs
    <3> HIDE DEF i
    <3> QED
      BY <1>4, <3>2, <3>3, <3>4, PlacingApart
  <2> QED
    BY <2>1, <2>2
<1> QED
  BY <1>1, <1>5

-----------------------------------------------------------------------------
(* What a write does to a table *)

\* What is read of a piece is not longer than the piece.
LEMMA PieceFieldsLen ==
  ASSUME NEW segs \in Tables, NEW p \in Pieces(segs)
  PROVE  Len(PieceFields(segs, p)) \in 1 .. PieceLen(p)
<1> DEFINE i == SegmentOf(p)
<1>1. CASE p = <<"head", i>>
  <2>1. PieceFields(segs, p) = HeadFields(segs[i]) /\ PieceLen(p) = 3
    BY <1>1 DEF PieceFields, PieceLen
  <2> QED
    BY <2>1 DEF HeadFields
<1>2. CASE \E j \in DOMAIN segs[i].dirs : p = <<"dir", <<i, j>>>>
  <2>1. p[1] = "dir"
    BY <1>2
  <2>2. PICK dir : PieceFields(segs, p) = DirFields(dir)
    BY <2>1 DEF PieceFields
  <2>3. PieceLen(p) = 3
    BY <2>1 DEF PieceLen
  <2> QED
    BY <2>2, <2>3 DEF DirFields, EncodeDir
<1>3. CASE \E j \in DOMAIN segs[i].files : p = <<"file", <<i, j>>>>
  <2>1. p[1] = "file"
    BY <1>3
  <2>2. PICK file : PieceFields(segs, p) = FileFields(file)
    BY <2>1 DEF PieceFields
  <2>3. PieceLen(p) = 6
    BY <2>1 DEF PieceLen
  <2> QED
    BY <2>2, <2>3 DEF FileFields, EncodeFile
<1> QED
  BY <1>1, <1>2, <1>3, PieceCases

\* Fields the write does not touch stay.
LEMMA WrittenFrame ==
  ASSUME NEW d, NEW nd, NEW a \in Nat, NEW f, Len(f) \in Nat, Wrote(d, nd, a, f),
         NEW x \in Nat, NEW g, Len(g) \in Nat, Written(d, x, g),
         x + Len(g) <= a \/ a + Len(f) <= x
  PROVE  Written(nd, x, g)
<1> SUFFICES ASSUME NEW k \in 1 .. Len(g)
             PROVE  x + k - 1 \in DOMAIN nd /\ nd[x + k - 1] = g[k]
  BY DEF Written
<1>1. x + k - 1 \in DOMAIN d /\ d[x + k - 1] = g[k]
  BY DEF Written
<1>2. x + k - 1 < a \/ x + k - 1 >= a + Len(f)
  OBVIOUS
<1>3. DOMAIN d \subseteq DOMAIN nd /\ nd[x + k - 1] = d[x + k - 1]
  BY <1>1, <1>2 DEF Wrote
<1> QED
  BY <1>1, <1>3

\* Nor a piece that stays.
LEMMA HeldFrame ==
  ASSUME NEW d, NEW nd, NEW a \in Nat, NEW f, Len(f) \in Nat, Wrote(d, nd, a, f),
         NEW segs \in Tables, NEW p \in Pieces(segs), Held(d, segs, p),
         \/ PieceAddr(segs, p) + PieceLen(p) <= a
         \/ a + Len(f) <= PieceAddr(segs, p)
  PROVE  Held(nd, segs, p)
<1>1. PICK x, l, g : x = PieceAddr(segs, p) /\ l = PieceLen(p) /\ g = PieceFields(segs, p)
  OBVIOUS
<1>2. x \in Nat /\ l \in {3, 6} /\ Len(g) \in 1 .. l
  BY <1>1, PieceBounds, PieceFieldsLen
<1>3. x + Len(g) <= a \/ a + Len(f) <= x
  BY <1>1, <1>2
<1>4. Written(nd, x, g)
  BY <1>1, <1>2, <1>3, WrittenFrame DEF Held
<1>5. DOMAIN d \subseteq DOMAIN nd
  BY DEF Wrote
<1> QED
  BY <1>1, <1>4, <1>5 DEF Held

\* The space from a on, of length len, is not a segment's.
Outside(segs, a, len) ==
  \A i \in DOMAIN segs : a + len <= SegmentAddr(segs, i) \/ SegmentEnd(segs, i) <= a

\* Data written beside the segments leaves the table alone.
LEMMA HoldsFrame ==
  ASSUME NEW d, NEW nd, NEW a \in Nat, NEW f, Len(f) \in Nat, Wrote(d, nd, a, f),
         NEW segs \in Tables, Holds(d, segs), Outside(segs, a, Len(f))
  PROVE  Holds(nd, segs)
<1> SUFFICES ASSUME NEW p \in Pieces(segs)
             PROVE  Held(nd, segs, p)
  BY DEF Holds
<1>1. PICK x, l, b, e : /\ x = PieceAddr(segs, p) /\ l = PieceLen(p)
                        /\ b = SegmentAddr(segs, SegmentOf(p)) /\ e = SegmentEnd(segs, SegmentOf(p))
  OBVIOUS
<1>2. SegmentOf(p) \in DOMAIN segs /\ x \in Nat /\ l \in {3, 6} /\ b <= x /\ x + l <= e
  BY <1>1, PieceBounds
<1>3. b \in Nat /\ e \in Nat
  BY <1>1, <1>2, SegmentBounds
<1>4. a + Len(f) <= b \/ e <= a
  BY <1>1, <1>2 DEF Outside
<1>5. x + l <= a \/ a + Len(f) <= x
  BY <1>2, <1>3, <1>4
<1> QED
  BY <1>1, <1>5, HeldFrame DEF Holds

\* old and new have the same pieces at the same places, and all but p hold the
\* same.
SameBut(old, new, p) ==
  /\ Pieces(new) = Pieces(old)
  /\ \A q \in Pieces(old) : PieceAddr(new, q) = PieceAddr(old, q)
  /\ \A q \in Pieces(old) \ {p} : PieceFields(new, q) = PieceFields(old, q)

\* A write to one piece changes that piece only.
LEMMA HoldsUpdate ==
  ASSUME NEW segs \in Tables, NEW cov, NEW len, Fits(Zones(segs), FirstMark, cov, len),
         NEW p \in Pieces(segs), NEW new \in Tables, SameBut(segs, new, p),
         NEW d, Holds(d, segs), NEW nd, NEW a \in Nat, NEW f, Len(f) \in Nat, Wrote(d, nd, a, f),
         PieceAddr(segs, p) <= a, a + Len(f) <= PieceAddr(segs, p) + PieceLen(p),
         Written(nd, PieceAddr(segs, p), PieceFields(new, p))
  PROVE  Holds(nd, new)
<1>1. Pieces(new) = Pieces(segs)
  BY DEF SameBut
<1>2. ASSUME NEW q \in Pieces(segs), q # p
      PROVE  Held(nd, new, q)
  <2>1. PICK x, y, l, o : /\ x = PieceAddr(segs, p) /\ y = PieceAddr(segs, q)
                          /\ l = PieceLen(p) /\ o = PieceLen(q)
    OBVIOUS
  <2>2. x \in Nat /\ y \in Nat /\ l \in {3, 6} /\ o \in {3, 6}
    BY <2>1, PieceBounds
  <2>3. x + l <= y \/ y + o <= x
    BY <1>2, <2>1, PiecesApart
  <2>4. y + o <= a \/ a + Len(f) <= y
    BY <2>1, <2>2, <2>3
  <2>5. Held(nd, segs, q)
    BY <2>1, <2>4, HeldFrame DEF Holds
  <2>6. PieceAddr(new, q) = PieceAddr(segs, q) /\ PieceFields(new, q) = PieceFields(segs, q)
    BY <1>2 DEF SameBut
  <2> QED
    BY <2>5, <2>6 DEF Held
<1>3. Held(nd, new, p)
  <2>1. PieceAddr(new, p) = PieceAddr(segs, p)
    BY DEF SameBut
  <2>2. DOMAIN d \subseteq DOMAIN nd
    BY DEF Wrote
  <2> QED
    BY <2>1, <2>2 DEF Held, Holds
<1> QED
  BY <1>1, <1>2, <1>3 DEF Holds

\* Tables of the same shape have the same pieces at the same places.
LEMMA SameShapePieces ==
  ASSUME NEW old \in Tables, NEW new \in Tables, SameShape(old, new)
  PROVE  /\ Pieces(new) = Pieces(old)
         /\ \A p \in Pieces(old) : PieceAddr(new, p) = PieceAddr(old, p)
         /\ \A i \in DOMAIN old : PieceFields(new, <<"head", i>>) = PieceFields(old, <<"head", i>>)
         /\ NextAddr(new) = NextAddr(old)
<1>1. /\ DOMAIN new = DOMAIN old /\ DirSlots(new) = DirSlots(old) /\ FileSlots(new) = FileSlots(old)
      /\ \A i \in DOMAIN old : /\ SegmentAddr(new, i) = SegmentAddr(old, i)
                               /\ Len(new[i].dirs) = Len(old[i].dirs)
                               /\ Len(new[i].files) = Len(old[i].files)
                               /\ new[i].next_segment_addr = old[i].next_segment_addr
  BY DEF SameShape, SameSlots
<1>2. Pieces(new) = Pieces(old)
  BY <1>1 DEF Pieces
<1>3. ASSUME NEW p \in Pieces(old)
      PROVE  PieceAddr(new, p) = PieceAddr(old, p)
  <2>1. CASE \E i \in DOMAIN old : p = <<"head", i>>
    BY <1>1, <2>1 DEF PieceAddr
  <2>2. CASE \E x \in DirSlots(old) : p = <<"dir", x>>
    <3>1. PICK x \in DirSlots(old) : p = <<"dir", x>>
      BY <2>2
    <3>2. x[1] \in DOMAIN old
      BY <3>1, DirSlotPair
    <3> QED
      BY <1>1, <3>1, <3>2 DEF PieceAddr, DirEntryAddr
  <2>3. CASE \E x \in FileSlots(old) : p = <<"file", x>>
    <3>1. PICK x \in FileSlots(old) : p = <<"file", x>>
      BY <2>3
    <3>2. x[1] \in DOMAIN old
      BY <3>1, FileSlotPair
    <3>3. FileEntryAddr(new, x) = FileEntryAddr(old, x)
      BY <1>1, <3>2 DEF FileEntryAddr
    <3> QED
      BY <3>1, <3>3 DEF PieceAddr
  <2> QED
    BY <2>1, <2>2, <2>3 DEF Pieces
<1>4. \A i \in DOMAIN old : PieceFields(new, <<"head", i>>) = PieceFields(old, <<"head", i>>)
  BY <1>1 DEF PieceFields, HeadFields
<1>5. NextAddr(new) = NextAddr(old)
  <2>1. Len(new) = Len(old)
    BY <1>1 DEF Tables
  <2>2. CASE Len(old) \in DOMAIN old
    BY <1>1, <2>1, <2>2 DEF NextAddr
  <2>3. CASE Len(old) \notin DOMAIN old
    <3>1. old = <<>> /\ new = <<>>
      BY <1>1, <2>3 DEF Tables
    <3> QED
      BY <3>1
  <2> QED
    BY <2>2, <2>3
<1> QED
  BY <1>2, <1>3, <1>4, <1>5

\* A directory's entry is one piece.
LEMMA PutDirSameBut ==
  ASSUME NEW segs \in Tables, NEW at \in DirSlots(segs), NEW dir \in Directory,
         NEW new, new = PutDir(segs, at, dir)
  PROVE  /\ new \in Tables /\ SameBut(segs, new, <<"dir", at>>)
         /\ <<"dir", at>> \in Pieces(segs)
         /\ PieceFields(new, <<"dir", at>>) = EncodeDir(dir)
         /\ NextAddr(new) = NextAddr(segs)
<1>1. /\ new \in Tables /\ SameShape(segs, new)
      /\ \A x \in DirSlots(segs) : DirAt(new, x) = IF x = at THEN dir ELSE DirAt(segs, x)
      /\ \A x \in FileSlots(segs) : FileAt(new, x) = FileAt(segs, x)
  BY PutDirEffect
<1>2. <<"dir", at>> \in Pieces(segs)
  BY DEF Pieces
<1>3. \A q \in Pieces(segs) \ {<<"dir", at>>} : PieceFields(new, q) = PieceFields(segs, q)
  <2> TAKE q \in Pieces(segs) \ {<<"dir", at>>}
  <2>1. CASE \E i \in DOMAIN segs : q = <<"head", i>>
    BY <1>1, <2>1, SameShapePieces
  <2>2. CASE \E x \in DirSlots(segs) : q = <<"dir", x>>
    BY <1>1, <2>2 DEF PieceFields
  <2>3. CASE \E x \in FileSlots(segs) : q = <<"file", x>>
    BY <1>1, <2>3 DEF PieceFields
  <2> QED
    BY <2>1, <2>2, <2>3 DEF Pieces
<1>4. PieceFields(new, <<"dir", at>>) = EncodeDir(dir)
  BY <1>1, NoneAssumption DEF PieceFields, DirFields
<1>5. SameBut(segs, new, <<"dir", at>>)
  BY <1>1, <1>3, SameShapePieces DEF SameBut
<1> QED
  BY <1>1, <1>2, <1>4, <1>5, SameShapePieces

\* A file's entry is one piece.
LEMMA PutFileSameBut ==
  ASSUME NEW segs \in Tables, NEW at \in FileSlots(segs), NEW file \in File,
         NEW new, new = PutFile(segs, at, file)
  PROVE  /\ new \in Tables /\ SameBut(segs, new, <<"file", at>>)
         /\ <<"file", at>> \in Pieces(segs)
         /\ PieceFields(new, <<"file", at>>) = EncodeFile(file)
         /\ NextAddr(new) = NextAddr(segs)
<1>1. /\ new \in Tables /\ SameShape(segs, new)
      /\ \A x \in FileSlots(segs) : FileAt(new, x) = IF x = at THEN file ELSE FileAt(segs, x)
      /\ \A x \in DirSlots(segs) : DirAt(new, x) = DirAt(segs, x)
  BY PutFileEffect
<1>2. <<"file", at>> \in Pieces(segs)
  BY DEF Pieces
<1>3. \A q \in Pieces(segs) \ {<<"file", at>>} : PieceFields(new, q) = PieceFields(segs, q)
  <2> TAKE q \in Pieces(segs) \ {<<"file", at>>}
  <2>1. CASE \E i \in DOMAIN segs : q = <<"head", i>>
    BY <1>1, <2>1, SameShapePieces
  <2>2. CASE \E x \in DirSlots(segs) : q = <<"dir", x>>
    BY <1>1, <2>2 DEF PieceFields
  <2>3. CASE \E x \in FileSlots(segs) : q = <<"file", x>>
    BY <1>1, <2>3 DEF PieceFields
  <2> QED
    BY <2>1, <2>2, <2>3 DEF Pieces
<1>4. PieceFields(new, <<"file", at>>) = EncodeFile(file)
  BY <1>1, NoneAssumption DEF PieceFields, FileFields
<1>5. SameBut(segs, new, <<"file", at>>)
  BY <1>1, <1>3, SameShapePieces DEF SameBut
<1> QED
  BY <1>1, <1>2, <1>4, <1>5, SameShapePieces

-----------------------------------------------------------------------------
(* Segments without entries *)

\* The fields of a segment without entries.
EmptyFields(f, m, n) ==
  /\ Len(f) = EncodedLen(EmptySegment(m, n)) /\ Len(f) \in Nat /\ IsFields(f)
  /\ f[1] = 0 /\ f[2] = m /\ f[3] = n
  /\ \A k \in 4 .. Len(f) : f[k] = 0

\* That is how such a segment is encoded.
LEMMA EncodeEmpty ==
  ASSUME NEW m \in Nat \ {0}, NEW n \in Nat \ {0}
  PROVE  EmptyFields(EncodeSegment(EmptySegment(m, n)), m, n)
<1> DEFINE f == EncodeSegment(EmptySegment(m, n))
           s == EmptySegment(m, n)
           h == <<s.next_segment_addr, Len(s.dirs), Len(s.files)>>
<1>1. s \in FileTableSegment /\ s.next_segment_addr = 0
  BY EmptySegmentType
<1>2. Len(s.dirs) = m /\ Len(s.files) = n
  BY DEF EmptySegment
<1> HIDE DEF s
<1>3. EncodedLen(s) = 3 + m * 3 + n * 6
  BY <1>2, FieldsAssumption DEF EncodedLen
<1>4. PICK e \in Nat : e = m * 3 + n * 6
  OBVIOUS
<1>5. EncodedLen(s) - SEGMENT_HEADER_SIZE = e
  BY <1>3, <1>4, FieldsAssumption
<1>6. f = h \o Zeros(e)
  BY <1>5 DEF EncodeSegment, s
<1> HIDE DEF f
<1>7. h = <<0, m, n>>
  BY <1>1, <1>2
<1>8. Zeros(e) \in Seq({0}) /\ Len(Zeros(e)) = e /\ \A k \in 1 .. e : Zeros(e)[k] = 0
  <2>1. Zeros(e) \in [1 .. e -> {0}]
    BY DEF Zeros
  <2> QED
    BY <2>1
<1>9. <<0, m, n>> \in Seq(Nat) /\ Zeros(e) \in Seq(Nat)
  BY <1>8
<1>10. f \in Seq(Nat) /\ Len(f) = 3 + e
  BY <1>6, <1>7, <1>8, <1>9
<1>11. f[1] = 0 /\ f[2] = m /\ f[3] = n
  BY <1>6, <1>7, <1>8, <1>9
<1>12. \A k \in 4 .. Len(f) : f[k] = 0
  <2> TAKE k \in 4 .. Len(f)
  <2>1. k - 3 \in 1 .. e /\ k \in 1 .. 3 + e /\ k > 3
    BY <1>10
  <2>2. f[k] = Zeros(e)[k - 3]
    BY <1>6, <1>7, <1>8, <1>9, <2>1
  <2> QED
    BY <1>8, <2>1, <2>2
<1>13. Len(f) = EncodedLen(s)
  BY <1>3, <1>4, <1>10
<1>14. IsFields(f)
  BY <1>10 DEF IsFields
<1>15. EmptyFields(f, m, n)
  BY <1>10, <1>11, <1>12, <1>13, <1>14 DEF s, EmptyFields
<1> QED
  BY <1>15 DEF f

\* The pieces of such a segment, once it is written.
LEMMA EmptySegmentHeld ==
  ASSUME NEW m \in Nat \ {0}, NEW n \in Nat \ {0},
         NEW segs \in Tables, NEW i \in DOMAIN segs, segs[i] = EmptySegment(m, n),
         NEW d, Written(d, SegmentAddr(segs, i), EncodeSegment(EmptySegment(m, n))),
         NEW p \in Pieces(segs), SegmentOf(p) = i
  PROVE  Held(d, segs, p)
<1>1. PICK f : f = EncodeSegment(EmptySegment(m, n))
  OBVIOUS
<1>2. PICK a : a = SegmentAddr(segs, i)
  OBVIOUS
<1>3. PICK e \in Nat : e = 3 + m * 3 + n * 6
  OBVIOUS
<1>4. Len(f) = e /\ f[1] = 0 /\ f[2] = m /\ f[3] = n /\ \A k \in 4 .. e : f[k] = 0
  <2>1. /\ Len(f) = EncodedLen(EmptySegment(m, n))
        /\ f[1] = 0 /\ f[2] = m /\ f[3] = n /\ \A k \in 4 .. Len(f) : f[k] = 0
    <3>1. EmptyFields(f, m, n)
      BY <1>1, EncodeEmpty
    <3> QED
      BY <3>1 DEF EmptyFields
  <2>2. Len(EmptySegment(m, n).dirs) = m /\ Len(EmptySegment(m, n).files) = n
    BY DEF EmptySegment
  <2>3. EncodedLen(EmptySegment(m, n)) = 3 + m * 3 + n * 6
    BY <2>2, FieldsAssumption DEF EncodedLen
  <2> QED
    BY <1>3, <2>1, <2>3
<1>5. a \in Nat
  BY <1>2, SegmentBounds
<1>6. \A k \in 1 .. e : a + k - 1 \in DOMAIN d /\ d[a + k - 1] = f[k]
  BY <1>1, <1>2, <1>4 DEF Written
<1>7. \A k \in 0 .. e - 1 : a + k \in DOMAIN d /\ d[a + k] = f[k + 1]
  <2> TAKE k \in 0 .. e - 1
  <2>1. k + 1 \in 1 .. e /\ a + (k + 1) - 1 = a + k
    BY <1>5
  <2> QED
    BY <1>6, <2>1
<1>8. /\ Len(segs[i].dirs) = m /\ Len(segs[i].files) = n
      /\ segs[i].next_segment_addr = 0
      /\ DOMAIN segs[i].dirs = 1 .. m /\ DOMAIN segs[i].files = 1 .. n
      /\ \A j \in 1 .. m : segs[i].dirs[j] = None
      /\ \A j \in 1 .. n : segs[i].files[j] = None
  BY DEF EmptySegment
<1>9. PICK x, l : x = PieceAddr(segs, p) /\ l = PieceLen(p)
  OBVIOUS
<1>10. PlacedAs(p, i, x, l, a, m, n)
  BY <1>2, <1>8, <1>9, PieceAddrs
<1>11. CASE p = <<"head", i>> /\ x = a /\ l = 3
  <2>1. PieceFields(segs, p) = <<0, m, n>>
    BY <1>8, <1>11 DEF PieceFields, HeadFields
  <2>2. 0 \in 0 .. e - 1 /\ 1 \in 0 .. e - 1 /\ 2 \in 0 .. e - 1 /\ a + 0 = a
    BY <1>3, <1>5
  <2>3. /\ a \in DOMAIN d /\ d[a] = 0 /\ a + 1 \in DOMAIN d /\ d[a + 1] = m
        /\ a + 2 \in DOMAIN d /\ d[a + 2] = n
    BY <1>4, <1>7, <2>2
  <2>4. Written(d, a, <<0, m, n>>)
    <3> SUFFICES ASSUME NEW k \in 1 .. 3
                 PROVE  a + k - 1 \in DOMAIN d /\ d[a + k - 1] = <<0, m, n>>[k]
      BY DEF Written
    <3>1. \/ k = 1 /\ a + k - 1 = a
          \/ k = 2 /\ a + k - 1 = a + 1
          \/ k = 3 /\ a + k - 1 = a + 2
      BY <1>5
    <3> QED
      BY <2>3, <3>1
  <2> QED
    BY <1>9, <1>11, <2>1, <2>4 DEF Held
<1>12. CASE \/ \E j \in 1 .. m : p = <<"dir", <<i, j>>>> /\ x = a + 3 + (j - 1) * 3 /\ l = 3
            \/ \E j \in 1 .. n : p = <<"file", <<i, j>>>> /\ x = a + 3 + m * 3 + (j - 1) * 6 /\ l = 6
  <2>1. PieceFields(segs, p) = <<0>>
    <3>1. CASE \E j \in 1 .. m : p = <<"dir", <<i, j>>>>
      <4>1. PICK j \in 1 .. m : p = <<"dir", <<i, j>>>>
        BY <3>1
      <4>2. DirAt(segs, <<i, j>>) = None
        BY <1>8 DEF DirAt
      <4> QED
        BY <4>1, <4>2 DEF PieceFields, DirFields
    <3>2. CASE \E j \in 1 .. n : p = <<"file", <<i, j>>>>
      <4>1. PICK j \in 1 .. n : p = <<"file", <<i, j>>>>
        BY <3>2
      <4>2. FileAt(segs, <<i, j>>) = None
        BY <1>8 DEF FileAt
      <4> QED
        BY <4>1, <4>2 DEF PieceFields, FileFields
    <3> QED
      BY <1>12, <3>1, <3>2
  <2>2. x \in Nat /\ x >= a + 3 /\ x + 2 <= a + e - 1
    BY <1>3, <1>5, <1>12
  <2>3. \A k \in 0 .. 2 : x + k - a \in 0 .. e - 1 /\ a + (x + k - a) = x + k
    BY <1>3, <1>5, <2>2
  <2>4. \A k \in 0 .. 2 : x + k \in DOMAIN d
    BY <1>7, <2>3
  <2>5. x - a \in 0 .. e - 1 /\ a + (x - a) = x /\ x - a + 1 \in 4 .. e
    BY <1>3, <1>5, <2>2
  <2>6. x \in DOMAIN d /\ d[x] = 0
    BY <1>4, <1>7, <2>5
  <2>7. Written(d, x, <<0>>)
    BY <2>2, <2>6 DEF Written
  <2> QED
    BY <1>9, <2>1, <2>4, <2>7 DEF Held
<1> QED
  BY <1>10, <1>11, <1>12 DEF PlacedAs

\* A new segment, written to space of its own, becomes part of the table by the
\* link to it.
LEMMA HoldsLink ==
  ASSUME NEW segs \in Tables, segs # <<>>, NEW cov, NEW len, Fits(Zones(segs), FirstMark, cov, len),
         NEW addr \in Nat, Outside(segs, addr, EncodedLen(NewSegment)),
         NEW d, Holds(d, segs), Written(d, addr, EncodeSegment(NewSegment)),
         NEW nd, Wrote(d, nd, SegmentAddr(segs, Len(segs)), <<addr>>),
         NEW new, new = WithNewSegment(segs, addr)
  PROVE  Holds(nd, new) /\ NextAddr(new) = 0
<1> DEFINE last == Len(segs)
           head == <<"head", last>>
<1>1. /\ new \in Tables /\ Len(new) = last + 1
      /\ DOMAIN new = DOMAIN segs \cup {last + 1} /\ last + 1 \notin DOMAIN segs
      /\ \A i \in DOMAIN segs :
           /\ SegmentAddr(new, i) = SegmentAddr(segs, i)
           /\ Len(new[i].dirs) = Len(segs[i].dirs) /\ Len(new[i].files) = Len(segs[i].files)
           /\ new[i].next_segment_addr = IF i = last THEN addr ELSE segs[i].next_segment_addr
      /\ SegmentAddr(new, last + 1) = addr /\ new[last + 1] = NewSegment
      /\ \A x \in DirSlots(new) :
           DirAt(new, x) = IF x \in DirSlots(segs) THEN DirAt(segs, x) ELSE None
      /\ \A x \in FileSlots(new) :
           FileAt(new, x) = IF x \in FileSlots(segs) THEN FileAt(segs, x) ELSE None
      /\ DirSlots(segs) \subseteq DirSlots(new) /\ FileSlots(segs) \subseteq FileSlots(new)
  <2> DEFINE w == WithNewSegment(segs, addr)
  <2>1. /\ w \in Tables
        /\ DOMAIN w = DOMAIN segs \cup {last + 1} /\ last + 1 \notin DOMAIN segs
        /\ \A i \in DOMAIN segs :
             /\ SegmentAddr(w, i) = SegmentAddr(segs, i)
             /\ SameSlots(segs[i], w[i])
             /\ w[i].next_segment_addr = IF i = last THEN addr ELSE segs[i].next_segment_addr
        /\ SegmentAddr(w, last + 1) = addr /\ Len(w) = last + 1
        /\ w[last + 1] = NewSegment
        /\ DirSlots(segs) \subseteq DirSlots(w)
        /\ FileSlots(segs) \subseteq FileSlots(w)
        /\ \A x \in DirSlots(w) :
             DirAt(w, x) = IF x \in DirSlots(segs) THEN DirAt(segs, x) ELSE None
        /\ \A x \in FileSlots(w) :
             FileAt(w, x) = IF x \in FileSlots(segs) THEN FileAt(segs, x) ELSE None
    BY NewSegmentEffect
  <2>2. w = new
    OBVIOUS
  <2> HIDE DEF w
  <2> QED
    BY <2>1, <2>2 DEF SameSlots
<1>2. last \in DOMAIN segs /\ last \in Nat
  BY DEF Tables
<1>3. PICK x : x = SegmentAddr(segs, last)
  OBVIOUS
<1>4. x \in Nat /\ Len(<<addr>>) = 1 /\ head \in Pieces(segs) /\ PieceAddr(segs, head) = x
      /\ PieceLen(head) = 3
  BY <1>2, <1>3, SegmentBounds DEF Pieces, PieceAddr, PieceLen
<1>5. NextAddr(new) = 0
  BY <1>1 DEF NextAddr, NewSegment, EmptySegment
<1>6. ASSUME NEW p \in Pieces(segs)
      PROVE  PieceAddr(new, p) = PieceAddr(segs, p)
             /\ (p # head => PieceFields(new, p) = PieceFields(segs, p))
  <2>1. CASE \E i \in DOMAIN segs : p = <<"head", i>>
    <3>1. PICK i \in DOMAIN segs : p = <<"head", i>>
      BY <2>1
    <3>2. SegmentAddr(new, i) = SegmentAddr(segs, i)
      BY <1>1
    <3>3. p # head => HeadFields(new[i]) = HeadFields(segs[i])
      <4>1. p # head => i # last
        BY <3>1
      <4> QED
        BY <1>1, <4>1 DEF HeadFields
    <3> QED
      BY <3>1, <3>2, <3>3 DEF PieceAddr, PieceFields
  <2>2. CASE \E y \in DirSlots(segs) : p = <<"dir", y>>
    <3>1. PICK y \in DirSlots(segs) : p = <<"dir", y>>
      BY <2>2
    <3>2. y[1] \in DOMAIN segs /\ DirAt(new, y) = DirAt(segs, y)
      BY <1>1, <3>1, DirSlotPair
    <3> QED
      BY <1>1, <3>1, <3>2 DEF PieceAddr, PieceFields, DirEntryAddr
  <2>3. CASE \E y \in FileSlots(segs) : p = <<"file", y>>
    <3>1. PICK y \in FileSlots(segs) : p = <<"file", y>>
      BY <2>3
    <3>2. y[1] \in DOMAIN segs /\ FileAt(new, y) = FileAt(segs, y)
      BY <1>1, <3>1, FileSlotPair
    <3>3. FileEntryAddr(new, y) = FileEntryAddr(segs, y)
      BY <1>1, <3>2 DEF FileEntryAddr
    <3> QED
      BY <3>1, <3>2, <3>3 DEF PieceAddr, PieceFields
  <2> QED
    BY <2>1, <2>2, <2>3 DEF Pieces
<1>7. ASSUME NEW p \in Pieces(segs), p # head
      PROVE  Held(nd, new, p)
  <2>1. PICK y, l : y = PieceAddr(segs, p) /\ l = PieceLen(p)
    OBVIOUS
  <2>2. y \in Nat /\ l \in {3, 6}
    BY <2>1, PieceBounds
  <2>3. x + 3 <= y \/ y + l <= x
    BY <1>4, <1>7, <2>1, PiecesApart
  <2>4. Held(d, segs, p)
    BY DEF Holds
  <2>5. PICK f : f = <<addr>>
    OBVIOUS
  <2>6. Len(f) = 1 /\ Len(f) \in Nat /\ Wrote(d, nd, x, f)
    BY <1>3, <1>4, <2>5
  <2>7. y + l <= x \/ x + Len(f) <= y
    BY <1>4, <2>2, <2>3, <2>6
  <2>8. Held(nd, segs, p)
    BY <1>4, <2>1, <2>4, <2>6, <2>7, HeldFrame
  <2> QED
    BY <1>6, <1>7, <2>8 DEF Held
<1>8. Held(nd, new, head)
  <2>1. Written(d, x, HeadFields(segs[last])) /\ head[1] # "dir"
    BY <1>2, <1>4 DEF Holds, Held, PieceFields
  <2>2. PieceFields(new, head) = <<addr, Len(segs[last].dirs), Len(segs[last].files)>>
    BY <1>1, <1>2 DEF PieceFields, HeadFields
  <2>3. x \in DOMAIN nd /\ nd[x] = addr
    BY <1>3, <1>4 DEF Wrote, Written
  <2>4. \A k \in 2 .. 3 : x + k - 1 \in DOMAIN nd /\ nd[x + k - 1] = HeadFields(segs[last])[k]
    <3> TAKE k \in 2 .. 3
    <3>1. k \in 1 .. Len(HeadFields(segs[last]))
      BY DEF HeadFields
    <3>2. x + k - 1 \in DOMAIN d /\ d[x + k - 1] = HeadFields(segs[last])[k]
      BY <2>1, <3>1 DEF Written
    <3>3. x + k - 1 >= x + Len(<<addr>>)
      BY <1>4
    <3> QED
      BY <1>3, <3>2, <3>3 DEF Wrote
  <2>5. Written(nd, x, PieceFields(new, head))
    <3>1. Len(PieceFields(new, head)) = 3
      BY <2>2
    <3> SUFFICES ASSUME NEW k \in 1 .. 3
                 PROVE  /\ x + k - 1 \in DOMAIN nd
                        /\ nd[x + k - 1] = <<addr, Len(segs[last].dirs), Len(segs[last].files)>>[k]
      BY <2>2, <3>1 DEF Written
    <3>2. CASE k = 1
      BY <1>4, <2>3, <3>2
    <3>3. CASE k \in 2 .. 3
      BY <2>4, <3>3 DEF HeadFields
    <3> QED
      BY <3>2, <3>3
  <2> QED
    BY <1>4, <1>6, <2>1, <2>5 DEF Held
<1>9. ASSUME NEW p \in Pieces(new), p \notin Pieces(segs)
      PROVE  SegmentOf(p) = last + 1
  <2>1. CASE \E i \in DOMAIN new : p = <<"head", i>>
    BY <1>1, <1>9, <2>1 DEF Pieces, SegmentOf
  <2>2. CASE \E y \in DirSlots(new) : p = <<"dir", y>>
    <3>1. PICK y \in DirSlots(new) : p = <<"dir", y>>
      BY <2>2
    <3>2. PICK i \in DOMAIN new : \E j \in DOMAIN new[i].dirs : y = <<i, j>>
      BY <3>1, DirSlotPair
    <3>3. i \notin DOMAIN segs
      <4>1. SUFFICES ASSUME i \in DOMAIN segs PROVE FALSE
        OBVIOUS
      <4>2. DOMAIN new[i].dirs = DOMAIN segs[i].dirs
        BY <1>1, <4>1, SegmentLayout
      <4>3. y \in DirSlots(segs)
        BY <3>2, <4>1, <4>2, DirSlotPair
      <4> QED
        BY <1>9, <3>1, <4>3 DEF Pieces
    <3> QED
      BY <1>1, <3>1, <3>2, <3>3 DEF SegmentOf
  <2>3. CASE \E y \in FileSlots(new) : p = <<"file", y>>
    <3>1. PICK y \in FileSlots(new) : p = <<"file", y>>
      BY <2>3
    <3>2. PICK i \in DOMAIN new : \E j \in DOMAIN new[i].files : y = <<i, j>>
      BY <3>1, FileSlotPair
    <3>3. i \notin DOMAIN segs
      <4>1. SUFFICES ASSUME i \in DOMAIN segs PROVE FALSE
        OBVIOUS
      <4>2. DOMAIN new[i].files = DOMAIN segs[i].files
        BY <1>1, <4>1, SegmentLayout
      <4>3. y \in FileSlots(segs)
        BY <3>2, <4>1, <4>2, FileSlotPair
      <4> QED
        BY <1>9, <3>1, <4>3 DEF Pieces
    <3> QED
      BY <1>1, <3>1, <3>2, <3>3 DEF SegmentOf
  <2> QED
    BY <2>1, <2>2, <2>3 DEF Pieces
<1>10. Written(nd, addr, EncodeSegment(NewSegment))
  <2>1. PICK f : f = EncodeSegment(NewSegment)
    OBVIOUS
  <2>2. Len(f) = EncodedLen(NewSegment) /\ Len(f) \in Nat
    BY <2>1, Layout, EncodeEmpty DEF NewSegment, EmptyFields
  <2>3. addr + Len(f) <= x \/ SegmentEnd(segs, last) <= addr
    BY <1>2, <1>3, <2>2 DEF Outside
  <2>4. x + 3 <= SegmentEnd(segs, last) /\ SegmentEnd(segs, last) \in Nat
    <3>1. SegmentOf(head) = last
      BY DEF SegmentOf
    <3> QED
      BY <1>2, <1>4, <3>1, PieceBounds, SegmentBounds
  <2>5. addr + Len(f) <= x \/ x + Len(<<addr>>) <= addr
    BY <1>4, <2>3, <2>4
  <2> QED
    BY <1>3, <1>4, <2>1, <2>2, <2>5, WrittenFrame
<1>11. ASSUME NEW p \in Pieces(new), SegmentOf(p) = last + 1
       PROVE  Held(nd, new, p)
  <2>1. PICK i, m, n : i = last + 1 /\ m = DirsCapacity /\ n = FilesCapacity
    OBVIOUS
  <2>2. /\ new \in Tables /\ i \in DOMAIN new /\ new[i] = EmptySegment(m, n)
        /\ SegmentAddr(new, i) = addr
    BY <1>1, <2>1 DEF NewSegment
  <2>3. Written(nd, SegmentAddr(new, i), EncodeSegment(EmptySegment(m, n)))
    BY <1>10, <2>1, <2>2 DEF NewSegment
  <2>4. m \in Nat \ {0} /\ n \in Nat \ {0} /\ SegmentOf(p) = i
    BY <1>11, <2>1, Layout
  <2> HIDE DEF last
  <2> QED
    BY <1>11, <2>2, <2>3, <2>4, EmptySegmentHeld
<1> QED
  BY <1>5, <1>7, <1>8, <1>9, <1>11 DEF Holds

-----------------------------------------------------------------------------
(* Entries zeroed *)

PieceZone(segs, p) == PieceAddr(segs, p) .. (PieceAddr(segs, p) + PieceLen(p) - 1)

\* old and new have the same pieces at the same places, and those of G are empty
\* slots in new.
Emptied(old, new, G) ==
  /\ Pieces(new) = Pieces(old) /\ G \subseteq Pieces(old)
  /\ \A q \in Pieces(old) : PieceAddr(new, q) = PieceAddr(old, q)
  /\ \A q \in Pieces(old) : PieceFields(new, q) = IF q \in G THEN <<0>> ELSE PieceFields(old, q)

\* The device has zeros where pieces G are.
LEMMA HoldsZeroed ==
  ASSUME NEW segs \in Tables, NEW cov, NEW len, Fits(Zones(segs), FirstMark, cov, len),
         NEW d, Holds(d, segs),
         NEW G, NEW new \in Tables, Emptied(segs, new, G),
         NEW zeroed, \A a : a \in zeroed <=> \E q \in G : a \in PieceZone(segs, q),
         NEW nd, nd = [a \in DOMAIN d |-> IF a \in zeroed THEN 0 ELSE d[a]]
  PROVE  Holds(nd, new)
<1>1. SUFFICES ASSUME NEW p \in Pieces(segs)
               PROVE  Held(nd, new, p)
  BY DEF Holds, Emptied
<1>2. PICK x, l, g : x = PieceAddr(segs, p) /\ l = PieceLen(p) /\ g = PieceFields(segs, p)
  OBVIOUS
<1>3. x \in Nat /\ l \in {3, 6} /\ Len(g) \in 1 .. l
  BY <1>2, PieceBounds, PieceFieldsLen
<1>4. Written(d, x, g) /\ (p[1] = "dir" => \A k \in 0 .. 2 : x + k \in DOMAIN d)
  BY <1>2 DEF Holds, Held
<1>5. PieceAddr(new, p) = x /\ DOMAIN nd = DOMAIN d
  BY <1>2 DEF Emptied
<1>6. CASE p \in G
  <2>1. PieceFields(new, p) = <<0>>
    BY <1>6 DEF Emptied
  <2>2. 1 \in 1 .. Len(g) /\ x + 1 - 1 = x
    BY <1>3
  <2>3. x \in DOMAIN d
    BY <1>4, <2>2 DEF Written
  <2>4. x \in PieceZone(segs, p)
    BY <1>2, <1>3 DEF PieceZone
  <2>5. nd[x] = 0
    BY <1>6, <2>3, <2>4
  <2>6. Written(nd, x, <<0>>)
    BY <1>3, <1>5, <2>3, <2>5 DEF Written
  <2> QED
    BY <1>4, <1>5, <2>1, <2>6 DEF Held
<1>7. CASE p \notin G
  <2>1. PieceFields(new, p) = g
    BY <1>2, <1>7 DEF Emptied
  <2>2. Written(nd, x, g)
    <3> SUFFICES ASSUME NEW k \in 1 .. Len(g)
                 PROVE  x + k - 1 \in DOMAIN nd /\ nd[x + k - 1] = g[k]
      BY DEF Written
    <3>1. x + k - 1 \in DOMAIN d /\ d[x + k - 1] = g[k]
      BY <1>4 DEF Written
    <3>2. ASSUME x + k - 1 \in zeroed PROVE FALSE
      <4>1. PICK q \in G : x + k - 1 \in PieceZone(segs, q)
        BY <3>2
      <4>2. PICK y, o : y = PieceAddr(segs, q) /\ o = PieceLen(q)
        OBVIOUS
      <4>3. q # p /\ q \in Pieces(segs)
        BY <1>7 DEF Emptied
      <4>4. y \in Nat /\ o \in {3, 6}
        BY <4>2, <4>3, PieceBounds
      <4>5. x + l <= y \/ y + o <= x
        BY <1>2, <4>2, <4>3, PiecesApart
      <4>6. y <= x + k - 1 /\ x + k - 1 <= y + o - 1
        BY <1>3, <4>1, <4>2, <4>4 DEF PieceZone
      <4> QED
        BY <1>3, <4>4, <4>5, <4>6
    <3> QED
      BY <3>1, <3>2
  <2> QED
    BY <1>4, <1>5, <2>1, <2>2 DEF Held
<1> QED
  BY <1>6, <1>7

\* The pieces of some items.
PiecesOf(segs, gone_dirs, gone_files) ==
  {<<"dir", SlotOfDir(segs, id)>> : id \in gone_dirs}
    \cup {<<"file", SlotOfFile(segs, id)>> : id \in gone_files}

\* Clearing entries clears their pieces.
LEMMA ClearedPieces ==
  ASSUME NEW segs, NEW ds, NEW fs, Described(segs, ds, fs),
         NEW gone_dirs \in SUBSET DOMAIN ds, NEW gone_files \in SUBSET DOMAIN fs,
         NEW new, new = ClearEntries(segs, gone_dirs, gone_files)
  PROVE  /\ new \in Tables /\ Emptied(segs, new, PiecesOf(segs, gone_dirs, gone_files))
         /\ NextAddr(new) = NextAddr(segs)
<1> DEFINE G == PiecesOf(segs, gone_dirs, gone_files)
<1>0. segs \in Tables /\ Match(DirTable(segs), ds) /\ Match(FileTable(segs), fs)
  BY DEF Described
<1>1. /\ new \in Tables /\ SameShape(segs, new)
      /\ \A x \in DirSlots(segs) :
           DirAt(new, x) = IF DirAt(segs, x) # None /\ DirAt(segs, x).id \in gone_dirs
                           THEN None ELSE DirAt(segs, x)
      /\ \A x \in FileSlots(segs) :
           FileAt(new, x) = IF FileAt(segs, x) # None /\ FileAt(segs, x).id \in gone_files
                            THEN None ELSE FileAt(segs, x)
  BY <1>0, ClearEntriesEffect
<1>2. \A id \in gone_dirs : /\ SlotOfDir(segs, id) \in DirSlots(segs)
                            /\ DirAt(segs, SlotOfDir(segs, id)) = ds[id]
                            /\ SlotOfDir(segs, id) \in Used(DirTable(segs))
                            /\ ds[id].id = id
  BY <1>0, SlotOfDirFound, MatchId
<1>3. \A id \in gone_files : /\ SlotOfFile(segs, id) \in FileSlots(segs)
                             /\ FileAt(segs, SlotOfFile(segs, id)) = fs[id]
                             /\ SlotOfFile(segs, id) \in Used(FileTable(segs))
                             /\ fs[id].id = id
  BY <1>0, SlotOfFileFound, MatchId
<1>4. G \subseteq Pieces(segs)
  BY <1>2, <1>3 DEF PiecesOf, Pieces
<1>5. ASSUME NEW x \in DirSlots(segs)
      PROVE  <<"dir", x>> \in G <=> DirAt(segs, x) # None /\ DirAt(segs, x).id \in gone_dirs
  <2>1. <<"dir", x>> \in G <=> \E id \in gone_dirs : x = SlotOfDir(segs, id)
    BY DEF PiecesOf
  <2>2. ASSUME NEW id \in gone_dirs, x = SlotOfDir(segs, id)
        PROVE  DirAt(segs, x) # None /\ DirAt(segs, x).id \in gone_dirs
    BY <1>2, <2>2, UsedSlots DEF UsedDirSlots, FreeDirSlots
  <2>3. ASSUME DirAt(segs, x) # None, DirAt(segs, x).id \in gone_dirs
        PROVE  \E id \in gone_dirs : x = SlotOfDir(segs, id)
    <3>1. PICK id \in gone_dirs : id = DirAt(segs, x).id
      BY <2>3
    <3>2. x \in Used(DirTable(segs)) /\ DirTable(segs)[x].id = id
      BY <2>3, <3>1, UsedSlots DEF UsedDirSlots, FreeDirSlots
    <3>3. SlotOfDir(segs, id) \in Used(DirTable(segs)) /\ DirTable(segs)[SlotOfDir(segs, id)].id = id
      BY <1>2, UsedSlots
    <3>4. x = SlotOfDir(segs, id)
      BY <1>0, <3>2, <3>3 DEF Match
    <3> QED
      BY <3>4
  <2> QED
    BY <2>1, <2>2, <2>3
<1>6. ASSUME NEW x \in FileSlots(segs)
      PROVE  <<"file", x>> \in G <=> FileAt(segs, x) # None /\ FileAt(segs, x).id \in gone_files
  <2>1. <<"file", x>> \in G <=> \E id \in gone_files : x = SlotOfFile(segs, id)
    BY DEF PiecesOf
  <2>2. ASSUME NEW id \in gone_files, x = SlotOfFile(segs, id)
        PROVE  FileAt(segs, x) # None /\ FileAt(segs, x).id \in gone_files
    BY <1>3, <2>2, UsedSlots DEF UsedFileSlots, FreeFileSlots
  <2>3. ASSUME FileAt(segs, x) # None, FileAt(segs, x).id \in gone_files
        PROVE  \E id \in gone_files : x = SlotOfFile(segs, id)
    <3>1. PICK id \in gone_files : id = FileAt(segs, x).id
      BY <2>3
    <3>2. x \in Used(FileTable(segs)) /\ FileTable(segs)[x].id = id
      BY <2>3, <3>1, UsedSlots DEF UsedFileSlots, FreeFileSlots
    <3>3. /\ SlotOfFile(segs, id) \in Used(FileTable(segs))
          /\ FileTable(segs)[SlotOfFile(segs, id)].id = id
      BY <1>3, UsedSlots
    <3>4. x = SlotOfFile(segs, id)
      BY <1>0, <3>2, <3>3 DEF Match
    <3> QED
      BY <3>4
  <2> QED
    BY <2>1, <2>2, <2>3
<1>7. \A q \in Pieces(segs) :
        PieceFields(new, q) = IF q \in G THEN <<0>> ELSE PieceFields(segs, q)
  <2> TAKE q \in Pieces(segs)
  <2>1. CASE \E i \in DOMAIN segs : q = <<"head", i>>
    <3>1. PICK i \in DOMAIN segs : q = <<"head", i>>
      BY <2>1
    <3>2. PieceFields(new, q) = PieceFields(segs, q)
      BY <1>0, <1>1, <3>1, SameShapePieces
    <3>3. q \notin G
      BY <3>1 DEF PiecesOf
    <3> QED
      BY <3>2, <3>3
  <2>2. CASE \E x \in DirSlots(segs) : q = <<"dir", x>>
    <3>1. PICK x \in DirSlots(segs) : q = <<"dir", x>>
      BY <2>2
    <3> HIDE DEF G
    <3> QED
      BY <1>1, <1>5, <3>1 DEF PieceFields, DirFields
  <2>3. CASE \E x \in FileSlots(segs) : q = <<"file", x>>
    <3>1. PICK x \in FileSlots(segs) : q = <<"file", x>>
      BY <2>3
    <3> HIDE DEF G
    <3> QED
      BY <1>1, <1>6, <3>1 DEF PieceFields, FileFields
  <2> QED
    BY <2>1, <2>2, <2>3 DEF Pieces
<1> HIDE DEF G
<1>8. Emptied(segs, new, G)
  BY <1>0, <1>1, <1>4, <1>7, SameShapePieces DEF Emptied
<1> QED
  BY <1>0, <1>1, <1>8, SameShapePieces DEF G

\* The devices differ within the pieces of the table only.
SameBesides(d, nd, segs) ==
  \A a \in DOMAIN d : nd[a] = d[a] \/ \E q \in Pieces(segs) : a \in PieceZone(segs, q)

\* Zeroing the entries of some items clears them in the table.
LEMMA ZeroEntriesHolds ==
  ASSUME ArchiveInv, NEW gone_dirs \in SUBSET DOMAIN dirs, NEW gone_files \in SUBSET DOMAIN files,
         NEW d, Holds(d, file_segments),
         NEW nd, nd = ZeroEntries(d, gone_dirs, gone_files),
         NEW new, new = ClearEntries(file_segments, gone_dirs, gone_files)
  PROVE  /\ Holds(nd, new) /\ DOMAIN nd = DOMAIN d /\ NextAddr(new) = NextAddr(file_segments)
         /\ SameBesides(d, nd, file_segments)
<1> DEFINE segs == file_segments
           G    == PiecesOf(segs, gone_dirs, gone_files)
           DirZone(id)  == LET a == DirEntryAddr(segs, SlotOfDir(segs, id))
                           IN  a .. a + DIRECTORY_ENTRY_SIZE - 1
           FileZone(id) == LET a == FileEntryAddr(segs, SlotOfFile(segs, id))
                           IN  a .. a + FILE_ENTRY_SIZE - 1
           zeroed == UNION ({DirZone(id) : id \in gone_dirs} \cup {FileZone(id) : id \in gone_files})
<1>1. Described(segs, dirs, files) /\ Fits(Zones(segs), FirstMark, coverage, source_len)
  BY DEF ArchiveInv, IndexInv, SpaceInv
<1>2. new \in Tables /\ Emptied(segs, new, G) /\ NextAddr(new) = NextAddr(segs)
  BY <1>1, ClearedPieces
<1>3. nd = [a \in DOMAIN d |-> IF a \in zeroed THEN 0 ELSE d[a]]
  BY DEF ZeroEntries
<1>4. \A id \in gone_dirs : PieceZone(segs, <<"dir", SlotOfDir(segs, id)>>) = DirZone(id)
  BY FieldsAssumption DEF PieceAddr, PieceLen, PieceZone
<1>5. \A id \in gone_files : PieceZone(segs, <<"file", SlotOfFile(segs, id)>>) = FileZone(id)
  BY FieldsAssumption DEF PieceAddr, PieceLen, PieceZone
<1>6. \A a : a \in zeroed <=> \E q \in G : a \in PieceZone(segs, q)
  <2>1. \A a : a \in zeroed <=> \/ \E id \in gone_dirs : a \in DirZone(id)
                                \/ \E id \in gone_files : a \in FileZone(id)
    <3> HIDE DEF DirZone, FileZone
    <3> QED OBVIOUS
  <2> HIDE DEF DirZone, FileZone, zeroed
  <2>2. \A q : q \in G <=> \/ \E id \in gone_dirs : q = <<"dir", SlotOfDir(segs, id)>>
                           \/ \E id \in gone_files : q = <<"file", SlotOfFile(segs, id)>>
    BY DEF PiecesOf
  <2> HIDE DEF G
  <2>3. \A a : (\E q \in G : a \in PieceZone(segs, q))
                 <=> \/ \E id \in gone_dirs : a \in PieceZone(segs, <<"dir", SlotOfDir(segs, id)>>)
                     \/ \E id \in gone_files : a \in PieceZone(segs, <<"file", SlotOfFile(segs, id)>>)
    BY <2>2, Zenon
  <2>4. \A a : (\E id \in gone_dirs : a \in PieceZone(segs, <<"dir", SlotOfDir(segs, id)>>))
                 <=> \E id \in gone_dirs : a \in DirZone(id)
    BY <1>4, Zenon
  <2>5. \A a : (\E id \in gone_files : a \in PieceZone(segs, <<"file", SlotOfFile(segs, id)>>))
                 <=> \E id \in gone_files : a \in FileZone(id)
    BY <1>5, Zenon
  <2> QED
    BY <2>1, <2>3, <2>4, <2>5
<1>7. segs \in Tables
  BY <1>1 DEF Described
<1> HIDE DEF zeroed, G
<1>8. Holds(nd, new)
  BY <1>1, <1>2, <1>3, <1>6, <1>7, HoldsZeroed
<1>9. ASSUME NEW a \in DOMAIN d, nd[a] # d[a]
      PROVE  \E q \in Pieces(segs) : a \in PieceZone(segs, q)
  <2>1. a \in zeroed
    BY <1>3, <1>9
  <2>2. PICK q \in G : a \in PieceZone(segs, q)
    BY <1>6, <2>1
  <2>3. q \in Pieces(segs)
    BY <1>2, <2>2 DEF Emptied
  <2> QED
    BY <2>2, <2>3
<1> QED
  BY <1>2, <1>3, <1>8, <1>9 DEF SameBesides

-----------------------------------------------------------------------------
(* Decoding *)

\* An entry of a directory comes out as it went in.
LEMMA DecodeDirIs ==
  ASSUME NEW dir \in Directory \cup {None}, NEW d, NEW x \in Nat, Written(d, x, DirFields(dir))
  PROVE  DecodeDir(d, x) = dir
<1>1. CASE dir = None
  <2>1. DirFields(dir) = <<0>>
    BY <1>1 DEF DirFields
  <2>2. 1 \in 1 .. Len(<<0>>) /\ x + 1 - 1 = x
    OBVIOUS
  <2>3. d[x] = 0
    BY <2>1, <2>2 DEF Written
  <2> QED
    BY <1>1, <2>3 DEF DecodeDir
<1>2. CASE dir # None
  <2>1. dir \in Directory /\ dir.id # 0
    BY <1>2, BoundsAssumption DEF Directory, Ids
  <2>2. DirFields(dir) = <<dir.id, dir.parent_dir, dir.name>>
    BY <1>2 DEF DirFields, EncodeDir
  <2>3. \A k \in 1 .. 3 : d[x + k - 1] = <<dir.id, dir.parent_dir, dir.name>>[k]
    BY <2>2 DEF Written
  <2>4. x + 1 - 1 = x /\ x + 2 - 1 = x + 1 /\ x + 3 - 1 = x + 2
    OBVIOUS
  <2>5. d[x] = dir.id /\ d[x + 1] = dir.parent_dir /\ d[x + 2] = dir.name
    BY <2>3, <2>4
  <2>6. dir = [id |-> dir.id, parent_dir |-> dir.parent_dir, name |-> dir.name]
    BY <2>1 DEF Directory
  <2> QED
    BY <2>1, <2>5, <2>6 DEF DecodeDir
<1> QED
  BY <1>1, <1>2

\* So does one of a file.
LEMMA DecodeFileIs ==
  ASSUME NEW file \in File \cup {None}, NEW d, NEW x \in Nat, Written(d, x, FileFields(file))
  PROVE  DecodeFile(d, x) = file
<1>1. CASE file = None
  <2>1. FileFields(file) = <<0>>
    BY <1>1 DEF FileFields
  <2>2. 1 \in 1 .. Len(<<0>>) /\ x + 1 - 1 = x
    OBVIOUS
  <2>3. d[x] = 0
    BY <2>1, <2>2 DEF Written
  <2> QED
    BY <1>1, <2>3 DEF DecodeFile
<1>2. CASE file # None
  <2>1. file \in File /\ file.id # 0
    BY <1>2, BoundsAssumption DEF File, Ids
  <2> DEFINE f == <<file.id, file.parent_dir, file.name,
                    file.content_addr, file.content_len, file.sha3_checksum>>
  <2>2. FileFields(file) = f
    BY <1>2 DEF FileFields, EncodeFile
  <2>3. Len(f) = 6
    OBVIOUS
  <2>4. \A k \in 1 .. 6 : d[x + k - 1] = f[k]
    <3> HIDE DEF f
    <3> QED BY <2>2, <2>3 DEF Written
  <2>5. /\ x + 1 - 1 = x /\ x + 2 - 1 = x + 1 /\ x + 3 - 1 = x + 2
        /\ x + 4 - 1 = x + 3 /\ x + 5 - 1 = x + 4 /\ x + 6 - 1 = x + 5
    OBVIOUS
  <2>6. /\ f[1] = file.id /\ f[2] = file.parent_dir /\ f[3] = file.name
        /\ f[4] = file.content_addr /\ f[5] = file.content_len /\ f[6] = file.sha3_checksum
    OBVIOUS
  <2> HIDE DEF f
  <2>7. /\ d[x] = file.id /\ d[x + 1] = file.parent_dir /\ d[x + 2] = file.name
        /\ d[x + 3] = file.content_addr /\ d[x + 4] = file.content_len
        /\ d[x + 5] = file.sha3_checksum
    BY <2>4, <2>5, <2>6
  <2>8. file = [id |-> file.id, parent_dir |-> file.parent_dir, name |-> file.name,
                content_addr |-> file.content_addr, content_len |-> file.content_len,
                sha3_checksum |-> file.sha3_checksum]
    BY <2>1 DEF File
  <2> QED
    BY <2>1, <2>7, <2>8 DEF DecodeFile
<1> QED
  BY <1>1, <1>2

\* And a whole segment.
LEMMA DecodeSegmentIs ==
  ASSUME NEW segs \in Tables, NEW i \in DOMAIN segs, NEW d, Holds(d, segs),
         NEW a, a = SegmentAddr(segs, i)
  PROVE  DecodeSegment(d, a) = segs[i] /\ a \in DOMAIN d
<1> DEFINE s == segs[i]
           m == Len(s.dirs)
           n == Len(s.files)
<1>1. s \in FileTableSegment
  BY DEF Tables
<1>2. /\ s = [next_segment_addr |-> s.next_segment_addr, dirs |-> s.dirs, files |-> s.files]
      /\ s.dirs \in Seq(Directory \cup {None}) /\ s.files \in Seq(File \cup {None})
  BY <1>1 DEF FileTableSegment
<1>3. /\ s.dirs = [j \in 1 .. m |-> s.dirs[j]] /\ \A j \in 1 .. m : s.dirs[j] \in Directory \cup {None}
      /\ s.files = [j \in 1 .. n |-> s.files[j]] /\ \A j \in 1 .. n : s.files[j] \in File \cup {None}
      /\ m \in Nat /\ n \in Nat
      /\ DOMAIN s.dirs = 1 .. m /\ DOMAIN s.files = 1 .. n
  BY <1>2
<1>4. a \in Nat
  BY SegmentBounds
<1>5. /\ a \in DOMAIN d /\ d[a] = s.next_segment_addr /\ d[a + 1] = m /\ d[a + 2] = n
  <2>1. <<"head", i>> \in Pieces(segs)
    BY DEF Pieces
  <2>2. Written(d, a, <<s.next_segment_addr, m, n>>)
    BY <2>1 DEF Holds, Held, PieceAddr, PieceFields, HeadFields
  <2>3. \A k \in 1 .. 3 : /\ a + k - 1 \in DOMAIN d
                          /\ d[a + k - 1] = <<s.next_segment_addr, m, n>>[k]
    BY <2>2 DEF Written
  <2>4. a + 1 - 1 = a /\ a + 2 - 1 = a + 1 /\ a + 3 - 1 = a + 2
    BY <1>4
  <2> QED
    BY <2>3, <2>4
<1>6. ASSUME NEW j \in 1 .. m
      PROVE  DecodeDir(d, a + 3 + (j - 1) * 3) = s.dirs[j]
  <2>1. <<i, j>> \in DirSlots(segs)
    BY <1>3, DirSlotPair
  <2>2. <<"dir", <<i, j>>>> \in Pieces(segs)
    BY <2>1 DEF Pieces
  <2>3. /\ PieceAddr(segs, <<"dir", <<i, j>>>>) = a + 3 + (j - 1) * 3
        /\ PieceFields(segs, <<"dir", <<i, j>>>>) = DirFields(s.dirs[j])
    BY FieldsAssumption DEF PieceAddr, DirEntryAddr, PieceFields, DirAt
  <2>4. Written(d, a + 3 + (j - 1) * 3, DirFields(s.dirs[j]))
    BY <2>2, <2>3 DEF Holds, Held
  <2>5. PieceAddr(segs, <<"dir", <<i, j>>>>) \in Nat
    BY <2>2, PieceBounds
  <2> QED
    BY <1>3, <2>3, <2>4, <2>5, DecodeDirIs
<1>7. ASSUME NEW j \in 1 .. n
      PROVE  DecodeFile(d, a + 3 + m * 3 + (j - 1) * 6) = s.files[j]
  <2>1. <<i, j>> \in FileSlots(segs)
    BY <1>3, FileSlotPair
  <2>2. <<"file", <<i, j>>>> \in Pieces(segs)
    BY <2>1 DEF Pieces
  <2>3. /\ PieceAddr(segs, <<"file", <<i, j>>>>) = a + 3 + m * 3 + (j - 1) * 6
        /\ PieceFields(segs, <<"file", <<i, j>>>>) = FileFields(s.files[j])
    BY FieldsAssumption DEF PieceAddr, FileEntryAddr, PieceFields, FileAt
  <2>4. Written(d, a + 3 + m * 3 + (j - 1) * 6, FileFields(s.files[j]))
    BY <2>2, <2>3 DEF Holds, Held
  <2>5. PieceAddr(segs, <<"file", <<i, j>>>>) \in Nat
    BY <2>2, PieceBounds
  <2> QED
    BY <1>3, <2>3, <2>4, <2>5, DecodeFileIs
<1>8. DecodeSegment(d, a) =
        [next_segment_addr |-> d[a],
         dirs  |-> [j \in 1 .. d[a + 1] |-> DecodeDir(d, a + 3 + (j - 1) * 3)],
         files |-> [j \in 1 .. d[a + 2] |-> DecodeFile(d, a + 3 + d[a + 1] * 3 + (j - 1) * 6)]]
  BY FieldsAssumption DEF DecodeSegment
<1>9. [j \in 1 .. m |-> DecodeDir(d, a + 3 + (j - 1) * 3)] = s.dirs
  <2> HIDE DEF s, m
  <2> QED BY <1>3, <1>6
<1>10. [j \in 1 .. n |-> DecodeFile(d, a + 3 + m * 3 + (j - 1) * 6)] = s.files
  <2> HIDE DEF s, m, n
  <2> QED BY <1>3, <1>7
<1> HIDE DEF s, m, n
<1>11. DecodeSegment(d, a) = s
  BY <1>2, <1>5, <1>8, <1>9, <1>10
<1> QED
  BY <1>5, <1>11 DEF s

\* A segment that is not the last has a link, which is not to the header.
LEMMA LinksAreThere ==
  ASSUME NEW segs \in Tables, NEW cov, NEW len, Fits(Zones(segs), FirstMark, cov, len),
         NEW i \in DOMAIN segs, i # Len(segs)
  PROVE  /\ i + 1 \in DOMAIN segs /\ SegmentAddr(segs, i + 1) = segs[i].next_segment_addr
         /\ segs[i].next_segment_addr # 0
<1>1. i + 1 \in DOMAIN segs /\ i \in Nat \ {0}
  BY DEF Tables
<1>2. SegmentAddr(segs, i + 1) = segs[i].next_segment_addr
  BY <1>1 DEF SegmentAddr
<1> DEFINE y == Segment(SegmentAddr(segs, i + 1), EncodedLen(segs[i + 1]))
           z == Segment(0, HEADER_SIZE)
<1>3. /\ <<i + 1, 0>> \in DOMAIN Zones(segs) /\ Zones(segs)[<<i + 1, 0>>] = y
      /\ <<0, 0>> \in DOMAIN Zones(segs) /\ Zones(segs)[<<0, 0>>] = z
  BY <1>1, MarksShape DEF Zones, Marks, MarkedZone
<1>4. y.len > 0 /\ z.len > 0
  BY <1>1, SegmentBounds, Layout DEF Segment
<1>5. <<i + 1, 0>> # <<0, 0>>
  BY <1>1
<1>6. Apart(y, z)
  BY <1>3, <1>4, <1>5, FitsApart
<1>7. SegmentAddr(segs, i + 1) # 0
  BY <1>1, <1>4, <1>6, SegmentBounds, Layout DEF Apart, End, Segment
<1> QED
  BY <1>1, <1>2, <1>7

\* A table is not longer than its device.
LEMMA FewSegments ==
  ASSUME NEW segs \in Tables, NEW cov, NEW len \in Nat, NEW l,
         Fits(Zones(segs), FirstMark, cov, l),
         NEW d, DOMAIN d = 0 .. len - 1, Holds(d, segs)
  PROVE  Len(segs) <= len
<1> DEFINE f == [i \in DOMAIN segs |-> SegmentAddr(segs, i)]
<1>1. DOMAIN segs = 1 .. Len(segs) /\ Len(segs) \in Nat
  BY DEF Tables
<1>2. \A i \in DOMAIN segs : SegmentAddr(segs, i) \in 0 .. len - 1
  BY DecodeSegmentIs
<1>3. \A i, k \in DOMAIN segs : i # k => SegmentAddr(segs, i) # SegmentAddr(segs, k)
  <2> SUFFICES ASSUME NEW i \in DOMAIN segs, NEW k \in DOMAIN segs, i # k
               PROVE  SegmentAddr(segs, i) # SegmentAddr(segs, k)
    OBVIOUS
  <2>1. \/ SegmentEnd(segs, i) <= SegmentAddr(segs, k)
        \/ SegmentEnd(segs, k) <= SegmentAddr(segs, i)
    BY SegmentsApart
  <2>2. /\ SegmentAddr(segs, i) \in Nat /\ SegmentEnd(segs, i) \in Nat
        /\ SegmentAddr(segs, i) < SegmentEnd(segs, i)
        /\ SegmentAddr(segs, k) \in Nat /\ SegmentEnd(segs, k) \in Nat
        /\ SegmentAddr(segs, k) < SegmentEnd(segs, k)
    BY SegmentBounds
  <2> QED
    BY <2>1, <2>2
<1>4. f \in Injection(DOMAIN segs, 0 .. len - 1)
  BY <1>2, <1>3 DEF Injection, IsInjective
<1>5. IsFiniteSet(0 .. len - 1) /\ Cardinality(0 .. len - 1) = len
  BY FS_Interval
<1>6. Cardinality(DOMAIN segs) = Len(segs)
  <2>1. PICK n \in Nat : n = Len(segs) /\ DOMAIN segs = 1 .. n
    BY <1>1
  <2>2. Cardinality(1 .. n) = IF 1 > n THEN 0 ELSE n - 1 + 1
    BY FS_Interval
  <2> QED
    BY <2>1, <2>2
<1> QED
  BY <1>4, <1>5, <1>6, FS_Injection

\* The first n segments of a table, or all of them; never none.
FirstOf(segs, n) ==
  [i \in 1 .. (IF n <= 1 THEN 1 ELSE IF n <= Len(segs) THEN n ELSE Len(segs)) |-> segs[i]]

\* What reading one segment after the other gives.
FollowedFrom(d, first) ==
  first = [n \in Nat |-> IF n <= 1 THEN <<DecodeSegment(d, HEADER_SIZE)>>
                         ELSE LET before == first[n - 1]
                              IN  IF NextAddr(before) = 0 THEN before
                                  ELSE Append(before, DecodeSegment(d, NextAddr(before)))]

\* The first segments, one more at a time.
LEMMA FirstOfSteps ==
  ASSUME NEW segs \in Tables, segs # <<>>, NEW cov, NEW len, Fits(Zones(segs), FirstMark, cov, len),
         NextAddr(segs) = 0, NEW d, Holds(d, segs)
  PROVE  /\ \A n \in Nat : n <= 1 => FirstOf(segs, n) = <<DecodeSegment(d, HEADER_SIZE)>>
         /\ \A n \in Nat : n > 1 =>
              FirstOf(segs, n) =
                LET before == FirstOf(segs, n - 1)
                IN  IF NextAddr(before) = 0 THEN before
                    ELSE Append(before, DecodeSegment(d, NextAddr(before)))
         /\ \A n \in Nat : NextAddr(FirstOf(segs, n)) = 0 => FirstOf(segs, n) = segs
         /\ \A n \in Nat : n = Len(segs) => FirstOf(segs, n) = segs
<1>1. PICK L \in Nat : L = Len(segs) /\ DOMAIN segs = 1 .. L /\ L # 0
  BY DEF Tables
<1> DEFINE K(n) == IF n <= 1 THEN 1 ELSE IF n <= L THEN n ELSE L
           P(k) == [i \in 1 .. k |-> segs[i]]
<1>2. \A n \in Nat : FirstOf(segs, n) = P(K(n)) /\ K(n) \in 1 .. L
  BY <1>1 DEF FirstOf
<1>3. \A k \in 1 .. L : Len(P(k)) = k /\ NextAddr(P(k)) = segs[k].next_segment_addr
  BY <1>1 DEF NextAddr
<1>4. \A k \in 1 .. L : k # L => /\ segs[k].next_segment_addr # 0
                                 /\ SegmentAddr(segs, k + 1) = segs[k].next_segment_addr
                                 /\ k + 1 \in DOMAIN segs
  BY <1>1, LinksAreThere
<1>5. \A k \in 1 .. L : k # L => DecodeSegment(d, segs[k].next_segment_addr) = segs[k + 1]
  BY <1>1, <1>4, DecodeSegmentIs
<1>6. DecodeSegment(d, HEADER_SIZE) = segs[1]
  <2>1. 1 \in DOMAIN segs /\ SegmentAddr(segs, 1) = HEADER_SIZE
    BY <1>1 DEF SegmentAddr
  <2> QED
    BY <2>1, DecodeSegmentIs
<1>7. \A k \in 1 .. L : k # L => Append(P(k), segs[k + 1]) = P(k + 1)
  <2> TAKE k \in 1 .. L
  <2> HAVE k # L
  <2>1. P(k) \in Tables /\ segs[k + 1] \in FileTableSegment
    <3>1. \A i \in 1 .. k : segs[i] \in FileTableSegment
      BY <1>1 DEF Tables
    <3>2. P(k) = [i \in 1 .. k |-> P(k)[i]]
      OBVIOUS
    <3>3. segs[k + 1] \in FileTableSegment
      BY <1>1, <1>4 DEF Tables
    <3> QED
      BY <3>1, <3>3, TableFromFunction
  <2>2. Len(P(k)) = k
    BY <1>3
  <2>3. \A i \in 1 .. k + 1 : Append(P(k), segs[k + 1])[i] = segs[i]
    <3> TAKE i \in 1 .. k + 1
    <3>1. CASE i = k + 1
      BY <2>1, <2>2, <3>1
    <3>2. CASE i \in 1 .. k
      BY <2>1, <2>2, <3>2
    <3> QED
      BY <3>1, <3>2
  <2>4. Append(P(k), segs[k + 1]) = [i \in 1 .. k + 1 |-> Append(P(k), segs[k + 1])[i]]
    BY <2>1, <2>2
  <2> QED
    BY <2>3, <2>4
<1>8. P(L) = segs
  <2>1. segs = [i \in 1 .. L |-> segs[i]]
    BY <1>1 DEF Tables
  <2> QED
    BY <2>1
<1>9. segs[L].next_segment_addr = 0
  BY <1>1 DEF NextAddr
<1>10. P(1) = <<segs[1]>>
  <2>1. P(1) \in Seq({segs[1]}) /\ Len(P(1)) = 1 /\ P(1)[1] = segs[1]
    BY <1>3
  <2> QED
    BY <2>1
<1> HIDE DEF P
<1>11. \A n \in Nat : n <= 1 => FirstOf(segs, n) = <<DecodeSegment(d, HEADER_SIZE)>>
  BY <1>2, <1>6, <1>10
<1>12. ASSUME NEW n \in Nat, n > 1, NEW before, before = FirstOf(segs, n - 1)
       PROVE  FirstOf(segs, n) = IF NextAddr(before) = 0 THEN before
                                 ELSE Append(before, DecodeSegment(d, NextAddr(before)))
  <2>1. n - 1 \in Nat /\ K(n - 1) \in 1 .. L /\ before = P(K(n - 1)) /\ FirstOf(segs, n) = P(K(n))
    BY <1>2, <1>12
  <2>2. CASE K(n - 1) = L
    <3>1. K(n) = L
      BY <1>1, <1>12, <2>2
    <3>2. NextAddr(before) = 0
      BY <1>3, <1>9, <2>1, <2>2
    <3> QED
      BY <2>1, <2>2, <3>1, <3>2
  <2>3. CASE K(n - 1) # L
    <3>1. K(n) = K(n - 1) + 1
      BY <1>1, <1>12, <2>3
    <3>2. PICK k \in 1 .. L : k = K(n - 1) /\ k # L /\ K(n) = k + 1
      BY <2>1, <2>3, <3>1
    <3>3. NextAddr(before) = segs[k].next_segment_addr /\ segs[k].next_segment_addr # 0
      BY <1>3, <1>4, <2>1, <3>2
    <3>4. Append(before, DecodeSegment(d, NextAddr(before))) = P(k + 1)
      BY <1>5, <1>7, <2>1, <3>2, <3>3
    <3> QED
      BY <2>1, <3>2, <3>3, <3>4
  <2> QED
    BY <2>2, <2>3
<1>13. ASSUME NEW n \in Nat, NextAddr(FirstOf(segs, n)) = 0
       PROVE  FirstOf(segs, n) = segs
  <2>1. segs[K(n)].next_segment_addr = 0 /\ K(n) \in 1 .. L
    BY <1>2, <1>3, <1>13
  <2>2. K(n) = L
    BY <1>4, <2>1
  <2> QED
    BY <1>2, <1>8, <2>2
<1>14. \A n \in Nat : n = L => FirstOf(segs, n) = segs
  BY <1>1, <1>2, <1>8
<1> QED
  BY <1>1, <1>11, <1>12, <1>13, <1>14

\* Reading it gives the table back, and the whole device is read as such.
LEMMA DecodeTableIs ==
  ASSUME NEW segs \in Tables, segs # <<>>, NEW cov, NEW l, Fits(Zones(segs), FirstMark, cov, l),
         NEW len \in Nat, NEW d, OnDevice(d, segs, len)
  PROVE  DecodeTable(d) = segs /\ DeviceLen(d) = len
<1>1. DOMAIN d = 0 .. len - 1 /\ Holds(d, segs) /\ NextAddr(segs) = 0
  BY DEF OnDevice
<1>2. DeviceLen(d) = len
  <2>1. Cardinality(0 .. len - 1) = IF 0 > len - 1 THEN 0 ELSE (len - 1) - 0 + 1
    BY FS_Interval
  <2> QED
    BY <1>1, <2>1 DEF DeviceLen
<1> DEFINE g == [n \in Nat |-> FirstOf(segs, n)]
<1>3. /\ \A n \in Nat : n <= 1 => FirstOf(segs, n) = <<DecodeSegment(d, HEADER_SIZE)>>
      /\ \A n \in Nat : n > 1 =>
           FirstOf(segs, n) =
             LET before == FirstOf(segs, n - 1)
             IN  IF NextAddr(before) = 0 THEN before
                 ELSE Append(before, DecodeSegment(d, NextAddr(before)))
      /\ \A n \in Nat : NextAddr(FirstOf(segs, n)) = 0 => FirstOf(segs, n) = segs
      /\ \A n \in Nat : n = Len(segs) => FirstOf(segs, n) = segs
  BY <1>1, FirstOfSteps
<1>4. FollowedFrom(d, g)
  <2> DEFINE Then(before) == IF NextAddr(before) = 0 THEN before
                             ELSE Append(before, DecodeSegment(d, NextAddr(before)))
             h == [n \in Nat |-> IF n <= 1 THEN <<DecodeSegment(d, HEADER_SIZE)>> ELSE Then(g[n - 1])]
  <2>1. \A n \in Nat : n > 1 => FirstOf(segs, n) = Then(FirstOf(segs, n - 1))
    BY <1>3
  <2> HIDE DEF Then
  <2>2. \A n \in Nat : g[n] = IF n <= 1 THEN <<DecodeSegment(d, HEADER_SIZE)>> ELSE Then(g[n - 1])
    <3> TAKE n \in Nat
    <3>1. CASE n <= 1
      BY <1>3, <3>1
    <3>2. CASE n > 1
      <4>1. n - 1 \in Nat
        BY <3>2
      <4> QED
        BY <2>1, <3>2, <4>1
    <3> QED
      BY <3>1, <3>2
  <2>3. g = h
    <3> HIDE DEF g
    <3>1. g = [n \in Nat |-> g[n]]
      BY DEF g
    <3> QED
      BY <2>2, <3>1
  <2>4. h = [n \in Nat |-> IF n <= 1 THEN <<DecodeSegment(d, HEADER_SIZE)>>
                           ELSE LET before == g[n - 1]
                                IN  IF NextAddr(before) = 0 THEN before
                                    ELSE Append(before, DecodeSegment(d, NextAddr(before)))]
    BY DEF Then
  <2> HIDE DEF g, h
  <2> QED
    BY <2>3, <2>4 DEF FollowedFrom
<1>5. PICK first : first = CHOOSE f : FollowedFrom(d, f)
  OBVIOUS
<1>6. FollowedFrom(d, first)
  BY <1>4, <1>5
<1>7. DecodeTable(d) = first[CHOOSE n \in 1 .. DeviceLen(d) : NextAddr(first[n]) = 0]
  BY <1>5 DEF DecodeTable, FollowedFrom
<1>8. \A n \in Nat : first[n] = FirstOf(segs, n)
  <2> DEFINE Bad == {n \in Nat : first[n] # FirstOf(segs, n)}
  <2>1. SUFFICES ASSUME Bad # {} PROVE FALSE
    OBVIOUS
  <2>2. PICK n \in Bad : \A k \in Bad : n <= k
    BY <2>1, NatMin
  <2>3. \A k \in Nat : first[k] =
          IF k <= 1 THEN <<DecodeSegment(d, HEADER_SIZE)>>
          ELSE LET before == first[k - 1]
               IN  IF NextAddr(before) = 0 THEN before
                   ELSE Append(before, DecodeSegment(d, NextAddr(before)))
    BY <1>6 DEF FollowedFrom
  <2>4. CASE n <= 1
    BY <1>3, <2>2, <2>3, <2>4
  <2>5. CASE n > 1
    <3>1. n \in Nat /\ n - 1 \in Nat /\ n - 1 \notin Bad
      BY <2>2, <2>5
    <3>2. first[n - 1] = FirstOf(segs, n - 1)
      BY <3>1
    <3>3. first[n] = LET before == first[n - 1]
                     IN  IF NextAddr(before) = 0 THEN before
                         ELSE Append(before, DecodeSegment(d, NextAddr(before)))
      BY <2>3, <2>5, <3>1
    <3>4. first[n] = FirstOf(segs, n)
      BY <1>3, <2>5, <3>1, <3>2, <3>3
    <3> QED
      BY <2>2, <3>4
  <2> QED
    BY <2>2, <2>4, <2>5
<1>9. Len(segs) \in 1 .. len
  <2>1. Len(segs) \in Nat /\ Len(segs) # 0
    BY DEF Tables
  <2>2. Len(segs) <= len
    BY <1>1, FewSegments
  <2> QED
    BY <2>1, <2>2
<1>10. NextAddr(first[Len(segs)]) = 0
  BY <1>1, <1>3, <1>8, <1>9
<1>11. PICK m : m = CHOOSE n \in 1 .. DeviceLen(d) : NextAddr(first[n]) = 0
  OBVIOUS
<1>12. m \in 1 .. len /\ NextAddr(first[m]) = 0
  BY <1>2, <1>9, <1>10, <1>11
<1>13. first[m] = segs
  BY <1>3, <1>8, <1>12
<1> QED
  BY <1>2, <1>7, <1>11, <1>13

-----------------------------------------------------------------------------
(* The contents of the files *)

\* The contents of the files are apart from the space at a, of length len.
Beside(fs, a, len) ==
  \A id \in DOMAIN fs : fs[id].content_len > 0 =>
    \/ a + len <= fs[id].content_addr
    \/ fs[id].content_addr + fs[id].content_len <= a

\* They are on both devices, in whole, and the same on both.
Keeps(d, nd, fs) ==
  \A id \in DOMAIN fs : \A k \in 1 .. fs[id].content_len :
    LET a == fs[id].content_addr + k - 1
    IN  a \in DOMAIN d /\ a \in DOMAIN nd /\ nd[a] = d[a]

\* The zone of a file's content is one of those placed.
LEMMA FileZone ==
  ASSUME NEW segs, NEW ds, NEW fs, Described(segs, ds, fs), NEW id \in DOMAIN fs
  PROVE  /\ fs[id].content_addr \in Nat /\ fs[id].content_len \in Nat
         /\ \E x \in DOMAIN Zones(segs) :
              /\ x \in FileSlots(segs)
              /\ Zones(segs)[x] = Segment(fs[id].content_addr, fs[id].content_len)
<1>1. segs \in Tables /\ Match(FileTable(segs), fs)
  BY DEF Described
<1>2. fs[id] \in File
  BY DescribedTypes
<1> DEFINE x == SlotOfFile(segs, id)
<1>3. x \in UsedFileSlots(segs) /\ x \in FileSlots(segs) /\ FileAt(segs, x) = fs[id]
  BY <1>1, SlotOfFileFound, UsedSlots
<1>4. x \in Marks(segs) /\ MarkedZone(segs, x) = Extent(fs[id])
  BY <1>1, <1>3, MarksShape
<1> HIDE DEF x
<1> QED
  BY <1>2, <1>3, <1>4 DEF Zones, Extent, File

\* The zones of the header and of the segments.
LEMMA HeadZones ==
  ASSUME NEW segs \in Tables
  PROVE  /\ <<0, 0>> \in DOMAIN Zones(segs)
         /\ Zones(segs)[<<0, 0>>] = Segment(0, HEADER_SIZE)
         /\ \A i \in DOMAIN segs :
              /\ <<i, 0>> \in DOMAIN Zones(segs)
              /\ Zones(segs)[<<i, 0>>] = Segment(SegmentAddr(segs, i), EncodedLen(segs[i]))
         /\ \A x \in FileSlots(segs) : x # <<0, 0>> /\ \A i \in DOMAIN segs : x # <<i, 0>>
<1>1. <<0, 0>> \in Marks(segs) /\ MarkedZone(segs, <<0, 0>>) = Segment(0, HEADER_SIZE)
  BY DEF Marks, MarkedZone
<1>2. \A x \in FileSlots(segs) : x[2] # 0
  BY MarksShape
<1> QED
  BY <1>1, <1>2, MarksShape DEF Zones

\* The files' contents are apart from the segments.
LEMMA FilesBesideSegments ==
  ASSUME NEW segs, NEW ds, NEW fs, NEW next, NEW cov, NEW len,
         Sound(segs, ds, fs, next, cov, len),
         NEW i \in DOMAIN segs, NEW a \in Nat, NEW l \in Nat,
         SegmentAddr(segs, i) <= a, a + l <= SegmentEnd(segs, i)
  PROVE  Beside(fs, a, l)
<1>1. segs \in Tables /\ Described(segs, ds, fs) /\ Fits(Zones(segs), FirstMark, cov, len)
  BY DEF Sound, Described
<1> SUFFICES ASSUME NEW id \in DOMAIN fs, fs[id].content_len > 0
             PROVE  \/ a + l <= fs[id].content_addr
                    \/ fs[id].content_addr + fs[id].content_len <= a
  BY DEF Beside
<1>2. PICK b, n : b = fs[id].content_addr /\ n = fs[id].content_len
  OBVIOUS
<1>3. b \in Nat /\ n \in Nat /\ n > 0
  BY <1>1, <1>2, FileZone
<1>4. PICK x \in DOMAIN Zones(segs) : x \in FileSlots(segs) /\ Zones(segs)[x] = Segment(b, n)
  BY <1>1, <1>2, FileZone
<1>5. /\ <<i, 0>> \in DOMAIN Zones(segs) /\ x # <<i, 0>>
      /\ Zones(segs)[<<i, 0>>] = Segment(SegmentAddr(segs, i), EncodedLen(segs[i]))
  BY <1>1, <1>4, HeadZones
<1>6. PICK s, e : s = SegmentAddr(segs, i) /\ e = EncodedLen(segs[i])
  OBVIOUS
<1>7. s \in Nat /\ e \in Nat \ {0} /\ s <= a /\ a + l <= s + e
  BY <1>1, <1>6, SegmentBounds DEF SegmentEnd
<1>8. Segment(b, n).len > 0 /\ Segment(s, e).len > 0
  BY <1>3, <1>7 DEF Segment
<1>9. Apart(Segment(b, n), Segment(s, e))
  BY <1>1, <1>4, <1>5, <1>6, <1>8, FitsApart
<1>10. b + n <= s \/ s + e <= b
  BY <1>9 DEF Apart, End, Segment
<1> QED
  BY <1>2, <1>3, <1>7, <1>10

\* They are on the device, even on one that ends within the first segment: they
\* come behind it then.
LEMMA FilesAreThere ==
  ASSUME NEW segs, NEW ds, NEW fs, NEW next, NEW cov, NEW len,
         Sound(segs, ds, fs, next, cov, len), NEW d, DOMAIN d = 0 .. len - 1
  PROVE  Keeps(d, d, fs)
<1> DEFINE z == Zones(segs)
<1>1. segs \in Tables /\ segs # <<>> /\ Described(segs, ds, fs) /\ Fits(z, FirstMark, cov, len)
  BY DEF Sound, Described
<1>2. len \in Nat
  BY <1>1, FitsTypes
<1> SUFFICES ASSUME NEW id \in DOMAIN fs, NEW k \in 1 .. fs[id].content_len
             PROVE  fs[id].content_addr + k - 1 \in DOMAIN d
  BY DEF Keeps
<1>3. PICK b, n : b = fs[id].content_addr /\ n = fs[id].content_len
  OBVIOUS
<1>4. b \in Nat /\ n \in Nat /\ k \in 1 .. n /\ n > 0
  BY <1>1, <1>3, FileZone
<1>5. PICK x \in DOMAIN z : x \in FileSlots(segs) /\ z[x] = Segment(b, n)
  BY <1>1, <1>3, FileZone
<1>6. z[x].len = n /\ End(z[x]) = b + n /\ z[x].start = b
  BY <1>5 DEF Segment, End
<1>7. b + n <= len
  <2>1. CASE Placed(z, cov, len)
    BY <1>5, <1>6, <2>1 DEF Placed
  <2>2. CASE Short(z, FirstMark, cov, len)
    <3>1. PICK h, e : h = HEADER_SIZE /\ e = EncodedLen(segs[1])
      OBVIOUS
    <3>2. /\ FirstMark \in DOMAIN z /\ z[FirstMark] = Segment(h, e) /\ z[FirstMark].len > 0
          /\ x # FirstMark
      BY <1>1, <1>5, <3>1, FirstZone
    <3>3. /\ <<0, 0>> \in DOMAIN z /\ z[<<0, 0>>] = Segment(0, h) /\ x # <<0, 0>>
      BY <1>1, <1>5, <3>1, HeadZones
    <3>4. h \in Nat \ {0}
      BY <3>1, Layout
    <3>5. 1 \in DOMAIN segs
      BY <1>1 DEF Tables
    <3>6. e \in Nat \ {0}
      BY <1>1, <3>1, <3>5, SegmentBounds
    <3> HIDE DEF z
    <3>7. z[<<0, 0>>].len > 0 /\ z[x].len > 0
      BY <1>4, <1>6, <3>3, <3>4 DEF Segment
    <3>8. Apart(z[x], z[FirstMark]) /\ Apart(z[x], z[<<0, 0>>])
      BY <1>1, <1>5, <3>2, <3>3, <3>7, FitsApart
    <3>9. /\ b + n <= h \/ h + e <= b
          /\ b + n <= 0 \/ h <= b
      <4>1. /\ Apart(Segment(b, n), Segment(h, e))
            /\ Apart(Segment(b, n), Segment(0, h))
        BY <1>5, <3>2, <3>3, <3>8
      <4> QED
        BY <1>4, <3>4, <4>1 DEF Apart, End, Segment
    <3>10. h + e <= b
      BY <1>4, <3>4, <3>9
    <3>11. End(z[FirstMark]) = h + e
      BY <3>2 DEF End, Segment
    <3>12. b + n <= IF len < h + e THEN h + e ELSE len
      BY <1>5, <1>6, <2>2, <3>11 DEF Short, Placed
    <3> QED
      BY <1>2, <1>4, <3>4, <3>6, <3>10, <3>12
  <2> QED
    BY <1>1, <2>1, <2>2 DEF Fits
<1> QED
  BY <1>2, <1>3, <1>4, <1>7

\* Where data is written there is neither a segment nor a file's content.
LEMMA FreeSpace ==
  ASSUME NEW segs, NEW ds, NEW fs, NEW next, NEW cov, NEW l,
         Sound(segs, ds, fs, next, cov, l),
         NEW len \in Nat, NEW a, a = AddrFor(cov, len), NEW k \in 0 .. len
  PROVE  a \in Nat /\ Outside(segs, a, k) /\ Beside(fs, a, k)
<1> DEFINE z == Zones(segs)
<1>1. segs \in Tables /\ Described(segs, ds, fs) /\ Fits(z, FirstMark, cov, l)
  BY DEF Sound, Described
<1>2. a \in Nat /\ \A x \in DOMAIN z : z[x].len > 0 => Apart(Segment(a, len), z[x])
  BY <1>1, FitsAddr
<1>3. Outside(segs, a, k)
  <2> SUFFICES ASSUME NEW i \in DOMAIN segs
               PROVE  a + k <= SegmentAddr(segs, i) \/ SegmentEnd(segs, i) <= a
    BY DEF Outside
  <2>1. PICK s, e : s = SegmentAddr(segs, i) /\ e = EncodedLen(segs[i])
    OBVIOUS
  <2>2. s \in Nat /\ e \in Nat \ {0} /\ SegmentEnd(segs, i) = s + e
    BY <1>1, <2>1, SegmentBounds DEF SegmentEnd
  <2>3. <<i, 0>> \in DOMAIN z /\ z[<<i, 0>>] = Segment(s, e)
    BY <1>1, <2>1, HeadZones
  <2>4. Segment(s, e).len > 0
    BY <2>2 DEF Segment
  <2>5. Apart(Segment(a, len), Segment(s, e))
    BY <1>2, <2>3, <2>4
  <2>6. a + len <= s \/ s + e <= a
    BY <2>5 DEF Apart, End, Segment
  <2> QED
    BY <1>2, <2>1, <2>2, <2>6
<1>4. Beside(fs, a, k)
  <2> SUFFICES ASSUME NEW id \in DOMAIN fs, fs[id].content_len > 0
               PROVE  \/ a + k <= fs[id].content_addr
                      \/ fs[id].content_addr + fs[id].content_len <= a
    BY DEF Beside
  <2>1. PICK b, n : b = fs[id].content_addr /\ n = fs[id].content_len
    OBVIOUS
  <2>2. b \in Nat /\ n \in Nat /\ n > 0
    BY <1>1, <2>1, FileZone
  <2>3. PICK x \in DOMAIN z : z[x] = Segment(b, n)
    BY <1>1, <2>1, FileZone
  <2>4. z[x].len > 0
    BY <2>2, <2>3 DEF Segment
  <2>5. Apart(Segment(a, len), Segment(b, n))
    BY <1>2, <2>3, <2>4
  <2>6. a + len <= b \/ b + n <= a
    BY <2>5 DEF Apart, End, Segment
  <2> QED
    BY <1>2, <2>1, <2>2, <2>6
<1> QED
  BY <1>2, <1>3, <1>4

\* A write apart from the contents keeps them.
LEMMA KeepsFrame ==
  ASSUME NEW d, NEW nd, NEW a \in Nat, NEW f, Len(f) \in Nat, Wrote(d, nd, a, f),
         NEW segs, NEW ds, NEW fs, Described(segs, ds, fs),
         Beside(fs, a, Len(f)), Keeps(d, d, fs)
  PROVE  Keeps(d, nd, fs)
<1> SUFFICES ASSUME NEW id \in DOMAIN fs, NEW k \in 1 .. fs[id].content_len
             PROVE  LET x == fs[id].content_addr + k - 1
                    IN  x \in DOMAIN d /\ x \in DOMAIN nd /\ nd[x] = d[x]
  BY DEF Keeps
<1>1. PICK b, n, l : b = fs[id].content_addr /\ n = fs[id].content_len /\ l = Len(f)
  OBVIOUS
<1>2. b \in Nat /\ n \in Nat /\ l \in Nat /\ k \in 1 .. n
  BY <1>1, FileZone
<1>3. PICK x : x = b + k - 1
  OBVIOUS
<1>4. x \in DOMAIN d
  BY <1>1, <1>3 DEF Keeps
<1>5. n > 0
  BY <1>2
<1>6. a + l <= b \/ b + n <= a
  BY <1>1, <1>5 DEF Beside
<1>7. x < a \/ x >= a + l
  BY <1>2, <1>3, <1>6
<1>8. x \in DOMAIN nd /\ nd[x] = d[x]
  BY <1>1, <1>4, <1>7 DEF Wrote
<1> QED
  BY <1>1, <1>3, <1>4, <1>8

\* One write after the other.
LEMMA KeepsTrans ==
  ASSUME NEW d, NEW nd, NEW nnd, NEW fs, Keeps(d, nd, fs), Keeps(nd, nnd, fs)
  PROVE  Keeps(d, nnd, fs)
BY DEF Keeps

-----------------------------------------------------------------------------
(* What one write makes of the device *)

\* v writes the first fields of those to be written at addr.
PartOf(v, addr, fields) ==
  /\ v.addr = addr /\ IsFields(v.fields)
  /\ Len(v.fields) \in 0 .. Len(fields)
  /\ \A k \in 1 .. Len(v.fields) : v.fields[k] = fields[k]

\* What can be left of a write cut off is a write of its first fields.
LEMMA CutOffIs ==
  ASSUME NEW d, NEW addr, NEW fields, IsFields(fields),
         NEW w, w = Whole(addr, fields) \/ w = OneByOne(addr, fields),
         NEW x \in CutOff(d, w)
  PROVE  \E v : /\ x = WriteTo(d, v) /\ PartOf(v, addr, fields)
                /\ w = Whole(addr, fields) => Len(v.fields) = 0 \/ Len(v.fields) = Len(fields)
<1>1. Len(fields) \in Nat /\ fields = [k \in 1 .. Len(fields) |-> fields[k]]
  BY DEF IsFields
<1>0. PICK whole : /\ w = [addr |-> addr, fields |-> fields, whole |-> whole]
                   /\ w = Whole(addr, fields) => whole = TRUE
  BY DEF Whole, OneByOne
<1>2. PICK n \in IF whole THEN {0, Len(fields)} ELSE 0 .. Len(fields) :
        x = WriteTo(d, [w EXCEPT !.fields = SubSeq(fields, 1, n)])
  BY <1>0 DEF CutOff
<1> DEFINE v == [w EXCEPT !.fields = SubSeq(fields, 1, n)]
           S == {fields[k] : k \in 1 .. Len(fields)}
<1>3. n \in 0 .. Len(fields) /\ (w = Whole(addr, fields) => n \in {0, Len(fields)})
  BY <1>0, <1>1, <1>2
<1>4. fields \in Seq(S)
  BY <1>1
<1> HIDE DEF S
<1>5. /\ Len(SubSeq(fields, 1, n)) = n
      /\ SubSeq(fields, 1, n) = [k \in 1 .. n |-> fields[k]]
  BY <1>1, <1>3, <1>4
<1>6. v.addr = addr /\ v.fields = SubSeq(fields, 1, n)
  BY <1>0
<1>7. IsFields(v.fields) /\ Len(v.fields) = n
  BY <1>1, <1>3, <1>5, <1>6 DEF IsFields
<1>8. \A k \in 1 .. n : v.fields[k] = fields[k]
  BY <1>5, <1>6
<1>9. PartOf(v, addr, fields)
  BY <1>3, <1>6, <1>7, <1>8 DEF PartOf
<1> QED
  BY <1>2, <1>3, <1>6, <1>7, <1>9

\* A write of nothing changes nothing.
LEMMA NothingWritten ==
  ASSUME NEW d, NEW segs, NEW len \in Nat, OnDevice(d, segs, len), NEW fs, Keeps(d, d, fs),
         NEW w, w.addr \in Nat, IsFields(w.fields), Len(w.fields) = 0,
         NEW nd, nd = WriteTo(d, w)
  PROVE  OnDevice(nd, segs, len) /\ Keeps(d, nd, fs)
<1>1. DOMAIN d = 0 .. len - 1 /\ Holds(d, segs) /\ NextAddr(segs) = 0
  BY DEF OnDevice
<1>2. /\ Wrote(d, nd, w.addr, w.fields)
      /\ DOMAIN nd = 0 .. SourceLenAfter(len, w.addr, Len(w.fields)) - 1
  BY <1>1, WriteEffect
<1>3. DOMAIN nd = DOMAIN d
  BY <1>1, <1>2 DEF SourceLenAfter
<1>4. \A x \in DOMAIN d : x < w.addr \/ x >= w.addr + 0
  BY <1>1
<1>5. \A x \in DOMAIN d : nd[x] = d[x]
  BY <1>2, <1>4 DEF Wrote
<1>6. ASSUME NEW a, NEW f, Written(d, a, f)
      PROVE  Written(nd, a, f)
  BY <1>3, <1>5, <1>6 DEF Written
<1>7. Holds(nd, segs)
  BY <1>1, <1>3, <1>6 DEF Holds, Held
<1>8. Keeps(d, nd, fs)
  BY <1>3, <1>5 DEF Keeps
<1> QED
  BY <1>1, <1>3, <1>7, <1>8 DEF OnDevice

\* Data is written beside what is there.
LEMMA DataWritten ==
  ASSUME NEW segs \in Tables, NEW len \in Nat, NEW d, OnDevice(d, segs, len),
         NEW w, w.addr \in Nat, IsFields(w.fields), Outside(segs, w.addr, Len(w.fields)),
         NEW ss, NEW ds, NEW fs, Described(ss, ds, fs), Beside(fs, w.addr, Len(w.fields)),
         Keeps(d, d, fs),
         NEW nd, nd = WriteTo(d, w),
         NEW new_len, new_len = SourceLenAfter(len, w.addr, Len(w.fields))
  PROVE  /\ OnDevice(nd, segs, new_len) /\ Keeps(d, nd, fs)
         /\ Wrote(d, nd, w.addr, w.fields)
         /\ new_len \in Nat /\ len <= new_len
<1>1. DOMAIN d = 0 .. len - 1 /\ Holds(d, segs) /\ NextAddr(segs) = 0
  BY DEF OnDevice
<1>2. /\ Wrote(d, nd, w.addr, w.fields) /\ DOMAIN nd = 0 .. new_len - 1
      /\ Len(w.fields) \in Nat
  BY <1>1, WriteEffect DEF IsFields
<1>3. Holds(nd, segs)
  BY <1>1, <1>2, HoldsFrame
<1>4. Keeps(d, nd, fs)
  BY <1>2, KeepsFrame
<1>5. new_len \in Nat /\ len <= new_len
  BY <1>2 DEF SourceLenAfter
<1> QED
  BY <1>1, <1>2, <1>3, <1>4, <1>5 DEF OnDevice

\* One piece is written.
LEMMA PieceWritten ==
  ASSUME NEW segs, NEW ds, NEW fs, NEW next, NEW cov, NEW l,
         Sound(segs, ds, fs, next, cov, l),
         NEW p \in Pieces(segs), NEW new \in Tables, SameBut(segs, new, p),
         NextAddr(new) = NextAddr(segs),
         NEW len \in Nat, NEW d, OnDevice(d, segs, len), Keeps(d, d, fs),
         NEW w, w.addr \in Nat, IsFields(w.fields),
         PieceAddr(segs, p) <= w.addr,
         w.addr + Len(w.fields) <= PieceAddr(segs, p) + PieceLen(p),
         NEW nd, nd = WriteTo(d, w),
         Written(nd, PieceAddr(segs, p), PieceFields(new, p)),
         NEW new_len, new_len = SourceLenAfter(len, w.addr, Len(w.fields))
  PROVE  OnDevice(nd, new, new_len) /\ Keeps(d, nd, fs)
<1>1. DOMAIN d = 0 .. len - 1 /\ Holds(d, segs) /\ NextAddr(segs) = 0
  BY DEF OnDevice
<1>2. segs \in Tables /\ Described(segs, ds, fs) /\ Fits(Zones(segs), FirstMark, cov, l)
  BY DEF Sound, Described
<1>3. /\ Wrote(d, nd, w.addr, w.fields) /\ DOMAIN nd = 0 .. new_len - 1
      /\ Len(w.fields) \in Nat
  BY <1>1, WriteEffect DEF IsFields
<1>4. Holds(nd, new)
  BY <1>1, <1>2, <1>3, HoldsUpdate
<1>5. Keeps(d, nd, fs)
  <2>1. PICK i, x, o, a, n, s, e :
          /\ i = SegmentOf(p) /\ x = PieceAddr(segs, p) /\ o = PieceLen(p)
          /\ a = w.addr /\ n = Len(w.fields)
          /\ s = SegmentAddr(segs, i) /\ e = SegmentEnd(segs, i)
    OBVIOUS
  <2>2. i \in DOMAIN segs /\ x \in Nat /\ o \in {3, 6} /\ s <= x /\ x + o <= e
    BY <1>2, <2>1, PieceBounds
  <2>3. s \in Nat /\ e \in Nat
    BY <1>2, <2>1, <2>2, SegmentBounds
  <2>4. a \in Nat /\ n \in Nat /\ x <= a /\ a + n <= x + o
    BY <1>3, <2>1
  <2>5. s <= a /\ a + n <= e
    BY <2>2, <2>3, <2>4
  <2>6. Beside(fs, a, n)
    BY <2>1, <2>2, <2>4, <2>5, FilesBesideSegments
  <2> QED
    BY <1>2, <1>3, <2>1, <2>6, KeepsFrame
<1> QED
  BY <1>1, <1>3, <1>4, <1>5 DEF OnDevice

\* A table is as sound on a longer device.
LEMMA SoundLonger ==
  ASSUME NEW segs, NEW ds, NEW fs, NEW next, NEW cov, NEW len,
         Sound(segs, ds, fs, next, cov, len), NEW new_len \in Nat, len <= new_len
  PROVE  Sound(segs, ds, fs, next, cov, new_len)
<1> DEFINE z == Zones(segs)
<1>1. segs \in Tables /\ segs # <<>> /\ Fits(z, FirstMark, cov, len)
  BY DEF Sound, Described
<1>2. FirstMark \in DOMAIN z
  BY <1>1, FirstZone
<1>3. len \in Nat
  BY <1>1, FitsTypes
<1>4. DOMAIN z \subseteq DOMAIN z /\ (\A k \in DOMAIN z : z[k] = z[k]) /\ new_len >= len
  BY <1>3
<1> HIDE DEF z
<1>5. Fits(z, FirstMark, cov, new_len)
  BY <1>1, <1>2, <1>4, FitsLess
<1> QED
  BY <1>5 DEF Sound, z

\* The device opens as an archive with this index.
Opens(d, ds, fs) ==
  \E segs, next, cov, len : Sound(segs, ds, fs, next, cov, len) /\ OnDevice(d, segs, len)

\* And so it does.
LEMMA OpenDiskKeeps ==
  ASSUME NEW d, NEW ds, NEW fs, Opens(d, ds, fs), OpenDisk(d)
  PROVE  DiskInv' /\ dirs' = ds /\ files' = fs /\ disk' = d
<1>1. PICK segs, next, cov, len : Sound(segs, ds, fs, next, cov, len) /\ OnDevice(d, segs, len)
  BY DEF Opens
<1>2. segs \in Tables /\ segs # <<>> /\ Fits(Zones(segs), FirstMark, cov, len)
  BY <1>1 DEF Sound, Described
<1>3. len \in Nat
  BY <1>2, FitsTypes
<1>4. DecodeTable(d) = segs /\ DeviceLen(d) = len
  BY <1>1, <1>2, <1>3, DecodeTableIs
<1>5. disk' = d /\ Open(segs, len)
  BY <1>4 DEF OpenDisk
<1>6. ArchiveInv' /\ dirs' = ds /\ files' = fs /\ file_segments' = segs /\ source_len' = len
  BY <1>1, <1>5, OpenSound
<1>7. OnDevice(disk', file_segments', source_len')
  BY <1>1, <1>5, <1>6
<1> QED
  BY <1>5, <1>6, <1>7 DEF DiskInv

-----------------------------------------------------------------------------
(* What the write of an entry makes of the device *)

\* A whole write cut off is the write or nothing.
LEMMA WholeCutOff ==
  ASSUME NEW d, NEW addr, NEW fields, IsFields(fields),
         NEW w, w = Whole(addr, fields), NEW x \in CutOff(d, w)
  PROVE  \/ x = WriteTo(d, w)
         \/ \E v : x = WriteTo(d, v) /\ v.addr = addr /\ IsFields(v.fields) /\ Len(v.fields) = 0
<1>1. w.addr = addr /\ w.fields = fields
  BY DEF Whole
<1>2. PICK v : /\ x = WriteTo(d, v) /\ PartOf(v, addr, fields)
               /\ w = Whole(addr, fields) => Len(v.fields) = 0 \/ Len(v.fields) = Len(fields)
  BY CutOffIs
<1>3. CASE Len(v.fields) = Len(fields)
  <2>1. v.fields = fields
    BY <1>2, <1>3 DEF IsFields, PartOf
  <2>2. WriteTo(d, v) = WriteTo(d, w)
    BY <1>1, <1>2, <2>1 DEF WriteTo, PartOf
  <2> QED
    BY <1>2, <2>2
<1> QED
  BY <1>2, <1>3 DEF PartOf

\* An entry's fields.
LEMMA EntryFields ==
  /\ \A dir : IsFields(EncodeDir(dir)) /\ Len(EncodeDir(dir)) = 3
  /\ \A file : IsFields(EncodeFile(file)) /\ Len(EncodeFile(file)) = 6
  /\ \A x : IsFields(<<x>>) /\ Len(<<x>>) = 1
BY DEF IsFields, EncodeDir, EncodeFile

\* Where the entry of a slot is; a slot of a directory is on the device, and so
\* is one that holds a file.
LEMMA EntryPlace ==
  ASSUME NEW segs \in Tables, NEW len \in Nat, NEW d, OnDevice(d, segs, len)
  PROVE  /\ \A at \in DirSlots(segs) :
              /\ <<"dir", at>> \in Pieces(segs)
              /\ DirEntryAddr(segs, at) \in Nat
              /\ DirEntryAddr(segs, at) = PieceAddr(segs, <<"dir", at>>)
              /\ DirEntryAddr(segs, at) + 3 <= len
         /\ \A at \in FileSlots(segs) :
              /\ <<"file", at>> \in Pieces(segs)
              /\ FileEntryAddr(segs, at) \in Nat
              /\ FileEntryAddr(segs, at) = PieceAddr(segs, <<"file", at>>)
              /\ FileAt(segs, at) # None => FileEntryAddr(segs, at) + 6 <= len
<1>1. DOMAIN d = 0 .. len - 1 /\ Holds(d, segs)
  BY DEF OnDevice
<1>2. ASSUME NEW at \in DirSlots(segs)
      PROVE  /\ <<"dir", at>> \in Pieces(segs)
             /\ DirEntryAddr(segs, at) \in Nat
             /\ DirEntryAddr(segs, at) = PieceAddr(segs, <<"dir", at>>)
             /\ DirEntryAddr(segs, at) + 3 <= len
  <2> DEFINE p == <<"dir", at>>
  <2>1. p \in Pieces(segs) /\ p[1] = "dir" /\ DirEntryAddr(segs, at) = PieceAddr(segs, p)
    BY DEF Pieces, PieceAddr
  <2>2. PICK x : x = PieceAddr(segs, p)
    OBVIOUS
  <2>3. x \in Nat
    BY <2>1, <2>2, PieceBounds
  <2>4. x + 2 \in DOMAIN d
    BY <1>1, <2>1, <2>2 DEF Holds, Held
  <2> QED
    BY <1>1, <2>1, <2>2, <2>3, <2>4
<1>3. ASSUME NEW at \in FileSlots(segs)
      PROVE  /\ <<"file", at>> \in Pieces(segs)
             /\ FileEntryAddr(segs, at) \in Nat
             /\ FileEntryAddr(segs, at) = PieceAddr(segs, <<"file", at>>)
             /\ FileAt(segs, at) # None => FileEntryAddr(segs, at) + 6 <= len
  <2> DEFINE p == <<"file", at>>
  <2>1. p \in Pieces(segs) /\ FileEntryAddr(segs, at) = PieceAddr(segs, p)
    BY DEF Pieces, PieceAddr
  <2>2. PICK x : x = PieceAddr(segs, p)
    OBVIOUS
  <2>3. x \in Nat
    BY <2>1, <2>2, PieceBounds
  <2>4. ASSUME FileAt(segs, at) # None
        PROVE  x + 6 <= len
    <3>1. PieceFields(segs, p) = EncodeFile(FileAt(segs, at))
      BY <2>4 DEF PieceFields, FileFields
    <3>2. PICK f : f = EncodeFile(FileAt(segs, at)) /\ Len(f) = 6
      BY EntryFields
    <3>3. Written(d, x, f)
      BY <1>1, <2>1, <2>2, <3>1, <3>2 DEF Holds, Held
    <3>4. 6 \in 1 .. Len(f)
      BY <3>2
    <3>5. x + 6 - 1 \in DOMAIN d
      BY <3>3, <3>4 DEF Written
    <3> QED
      BY <1>1, <2>3, <3>5
  <2> QED
    BY <2>1, <2>2, <2>3, <2>4
<1> QED
  BY <1>2, <1>3

\* A write within the device does not lengthen it.
LEMMA SameLength ==
  ASSUME NEW len \in Nat, NEW a \in Nat, NEW n \in Nat, a + n <= len
  PROVE  SourceLenAfter(len, a, n) = len
BY DEF SourceLenAfter

\* A directory's entry is written.
LEMMA DirWritten ==
  ASSUME NEW segs, NEW ds, NEW fs, NEW next, NEW cov, NEW l,
         Sound(segs, ds, fs, next, cov, l),
         NEW at \in DirSlots(segs), NEW dir \in Directory,
         NEW new, new = PutDir(segs, at, dir),
         NEW len \in Nat, NEW d, OnDevice(d, segs, len), Keeps(d, d, fs),
         NEW w, w = Whole(DirEntryAddr(segs, at), EncodeDir(dir)),
         NEW nd, nd = WriteTo(d, w)
  PROVE  OnDevice(nd, new, len) /\ Keeps(d, nd, fs)
<1> DEFINE p == <<"dir", at>>
<1>1. segs \in Tables
  BY DEF Sound, Described
<1>2. PICK x : x = DirEntryAddr(segs, at)
  OBVIOUS
<1>3. p \in Pieces(segs) /\ x \in Nat /\ x = PieceAddr(segs, p) /\ x + 3 <= len
  BY <1>1, <1>2, EntryPlace
<1>4. /\ new \in Tables /\ SameBut(segs, new, p)
      /\ PieceFields(new, p) = EncodeDir(dir) /\ NextAddr(new) = NextAddr(segs)
  BY <1>1, PutDirSameBut
<1>5. w.addr = x /\ w.fields = EncodeDir(dir) /\ IsFields(w.fields) /\ Len(w.fields) = 3
  BY <1>2, EntryFields DEF Whole
<1>6. PieceLen(p) = 3
  BY DEF PieceLen
<1> HIDE DEF p
<1>7. DOMAIN d = 0 .. len - 1
  BY DEF OnDevice
<1>8. Written(nd, x, EncodeDir(dir))
  BY <1>3, <1>5, <1>7, WriteEffect DEF Wrote
<1>9. len = SourceLenAfter(len, w.addr, Len(w.fields))
  BY <1>3, <1>5, SameLength
<1>10. PieceAddr(segs, p) <= w.addr /\ w.addr + Len(w.fields) <= PieceAddr(segs, p) + PieceLen(p)
  BY <1>3, <1>5, <1>6
<1>11. Written(nd, PieceAddr(segs, p), PieceFields(new, p)) /\ w.addr \in Nat
  BY <1>3, <1>4, <1>5, <1>8
<1> QED
  BY <1>3, <1>4, <1>5, <1>9, <1>10, <1>11, PieceWritten

\* A file's entry is written; the device can end within an empty slot.
LEMMA FileWritten ==
  ASSUME NEW segs, NEW ds, NEW fs, NEW next, NEW cov, NEW l,
         Sound(segs, ds, fs, next, cov, l),
         NEW at \in FileSlots(segs), NEW file \in File,
         NEW new, new = PutFile(segs, at, file),
         NEW len \in Nat, NEW d, OnDevice(d, segs, len), Keeps(d, d, fs),
         NEW w, w = Whole(FileEntryAddr(segs, at), EncodeFile(file)),
         NEW nd, nd = WriteTo(d, w)
  PROVE  /\ OnDevice(nd, new, SourceLenAfter(len, FileEntryAddr(segs, at), 6))
         /\ FileAt(segs, at) # None => OnDevice(nd, new, len)
         /\ Keeps(d, nd, fs)
<1> DEFINE p == <<"file", at>>
<1>1. segs \in Tables
  BY DEF Sound, Described
<1>2. PICK x : x = FileEntryAddr(segs, at)
  OBVIOUS
<1>3. /\ p \in Pieces(segs) /\ x \in Nat /\ x = PieceAddr(segs, p)
      /\ FileAt(segs, at) # None => x + 6 <= len
  BY <1>1, <1>2, EntryPlace
<1>4. /\ new \in Tables /\ SameBut(segs, new, p)
      /\ PieceFields(new, p) = EncodeFile(file) /\ NextAddr(new) = NextAddr(segs)
  BY <1>1, PutFileSameBut
<1>5. w.addr = x /\ w.fields = EncodeFile(file) /\ IsFields(w.fields) /\ Len(w.fields) = 6
  BY <1>2, EntryFields DEF Whole
<1>6. PieceLen(p) = 6
  BY DEF PieceLen
<1> HIDE DEF p
<1>7. DOMAIN d = 0 .. len - 1
  BY DEF OnDevice
<1>8. Written(nd, x, EncodeFile(file))
  BY <1>3, <1>5, <1>7, WriteEffect DEF Wrote
<1>9. SourceLenAfter(len, x, 6) = SourceLenAfter(len, w.addr, Len(w.fields))
  BY <1>5
<1>10. PieceAddr(segs, p) <= w.addr /\ w.addr + Len(w.fields) <= PieceAddr(segs, p) + PieceLen(p)
  BY <1>3, <1>5, <1>6
<1>11. Written(nd, PieceAddr(segs, p), PieceFields(new, p)) /\ w.addr \in Nat
  BY <1>3, <1>4, <1>5, <1>8
<1>12. OnDevice(nd, new, SourceLenAfter(len, x, 6)) /\ Keeps(d, nd, fs)
  BY <1>3, <1>4, <1>5, <1>9, <1>10, <1>11, PieceWritten
<1>13. FileAt(segs, at) # None => SourceLenAfter(len, x, 6) = len
  BY <1>3, SameLength
<1> QED
  BY <1>2, <1>12, <1>13

LEMMA OneField == \A x : Len(<<x>>) = 1 /\ <<x>>[1] = x
OBVIOUS

\* A field of an entry is written.
LEMMA ThirdFieldWritten ==
  ASSUME NEW d, NEW x \in Nat, NEW f, Len(f) \in Nat, Len(f) >= 3, Written(d, x, f),
         NEW n, NEW nd, Wrote(d, nd, x + 2, <<n>>),
         NEW g, Len(g) = Len(f), g[3] = n, \A k \in 1 .. Len(f) : k # 3 => g[k] = f[k],
         \A y \in DOMAIN d : y \in Nat
  PROVE  Written(nd, x, g)
<1> SUFFICES ASSUME NEW k \in 1 .. Len(f)
             PROVE  x + k - 1 \in DOMAIN nd /\ nd[x + k - 1] = g[k]
  BY DEF Written
<1>1. x + k - 1 \in DOMAIN d /\ d[x + k - 1] = f[k]
  BY DEF Written
<1>2. x + k - 1 \in DOMAIN nd
  BY <1>1 DEF Wrote
<1>3. CASE k = 3
  <2>1. Written(nd, x + 2, <<n>>)
    BY DEF Wrote
  <2>2. PICK o : o = <<n>> /\ Len(o) = 1 /\ o[1] = n
    BY OneField
  <2>3. 1 \in 1 .. Len(o)
    BY <2>2
  <2>4. nd[x + 2 + 1 - 1] = n
    BY <2>1, <2>2, <2>3 DEF Written
  <2>5. x + 2 + 1 - 1 = x + k - 1
    BY <1>3
  <2> QED
    BY <1>2, <1>3, <2>4, <2>5
<1>4. CASE k # 3
  <2>1. PICK y : y = x + k - 1
    OBVIOUS
  <2>2. PICK l : l = Len(<<n>>) /\ l = 1
    OBVIOUS
  <2>3. y < x + 2 \/ y >= x + 2 + l
    BY <1>4, <2>1, <2>2
  <2>4. nd[y] = d[y]
    BY <1>1, <2>1, <2>2, <2>3 DEF Wrote
  <2> QED
    BY <1>1, <1>2, <1>4, <2>1, <2>4
<1> QED
  BY <1>3, <1>4

\* A directory gets another name.
LEMMA DirNameWritten ==
  ASSUME NEW segs, NEW ds, NEW fs, NEW next, NEW cov, NEW l,
         Sound(segs, ds, fs, next, cov, l),
         NEW at \in DirSlots(segs), NEW dir \in Directory, dir = DirAt(segs, at), NEW n \in Names,
         NEW new, new = PutDir(segs, at, [dir EXCEPT !.name = n]),
         NEW len \in Nat, NEW d, OnDevice(d, segs, len), Keeps(d, d, fs),
         NEW w, w = Whole(DirEntryAddr(segs, at) + 2, <<n>>),
         NEW nd, nd = WriteTo(d, w)
  PROVE  OnDevice(nd, new, len) /\ Keeps(d, nd, fs)
<1> DEFINE p == <<"dir", at>>
           e == [dir EXCEPT !.name = n]
<1>1. segs \in Tables
  BY DEF Sound, Described
<1>2. PICK x : x = DirEntryAddr(segs, at)
  OBVIOUS
<1>3. p \in Pieces(segs) /\ x \in Nat /\ x = PieceAddr(segs, p) /\ x + 3 <= len
  BY <1>1, <1>2, EntryPlace
<1>4. e \in Directory
  BY DEF Directory
<1>5. /\ new \in Tables /\ SameBut(segs, new, p)
      /\ PieceFields(new, p) = EncodeDir(e) /\ NextAddr(new) = NextAddr(segs)
  BY <1>1, <1>4, PutDirSameBut
<1>6. /\ w.addr = x + 2 /\ w.fields = <<n>> /\ IsFields(w.fields) /\ w.addr \in Nat
  BY <1>2, <1>3, EntryFields DEF Whole
<1>14. PICK a, o : a = w.addr /\ o = Len(w.fields)
  OBVIOUS
<1>15. a \in Nat /\ o = 1 /\ a = x + 2
  BY <1>6, <1>14, EntryFields
<1>7. PieceLen(p) = 3
  BY DEF PieceLen
<1>8. DOMAIN d = 0 .. len - 1 /\ Holds(d, segs)
  BY DEF OnDevice
<1>9. Wrote(d, nd, x + 2, <<n>>)
  BY <1>6, <1>8, WriteEffect
<1>10. Written(nd, x, EncodeDir(e))
  <2>1. dir # None
    BY NoneAssumption
  <2>2. PieceFields(segs, p) = EncodeDir(dir)
    BY <2>1 DEF PieceFields, DirFields
  <2>3. Written(d, x, EncodeDir(dir))
    BY <1>3, <1>8, <2>2 DEF Holds, Held
  <2>4. e.id = dir.id /\ e.parent_dir = dir.parent_dir /\ e.name = n
    BY DEF Directory
  <2>5. PICK f, g : f = EncodeDir(dir) /\ g = EncodeDir(e)
    OBVIOUS
  <2> HIDE DEF e
  <2>6. /\ Len(f) = 3 /\ Len(g) = 3 /\ g[3] = n
        /\ \A k \in 1 .. 3 : k # 3 => g[k] = f[k]
    BY <2>4, <2>5 DEF EncodeDir
  <2>7. \A y \in DOMAIN d : y \in Nat
    BY <1>8
  <2>9. /\ x \in Nat /\ Len(f) \in Nat /\ Len(f) >= 3 /\ Len(g) = Len(f) /\ Written(d, x, f)
        /\ \A k \in 1 .. Len(f) : k # 3 => g[k] = f[k]
    BY <1>3, <2>3, <2>5, <2>6
  <2>8. Written(nd, x, g)
    BY <1>9, <2>6, <2>7, <2>9, ThirdFieldWritten
  <2> QED
    BY <2>5, <2>8
<1> HIDE DEF p, e
<1>16. /\ a + o <= len /\ o \in Nat
       /\ x <= a /\ a + o <= x + 3
  BY <1>3, <1>15
<1>11. len = SourceLenAfter(len, w.addr, Len(w.fields))
  BY <1>14, <1>15, <1>16, SameLength
<1>12. PieceAddr(segs, p) <= w.addr /\ w.addr + Len(w.fields) <= PieceAddr(segs, p) + PieceLen(p)
  BY <1>3, <1>7, <1>14, <1>16
<1>13. Written(nd, PieceAddr(segs, p), PieceFields(new, p))
  BY <1>3, <1>5, <1>10
<1> QED
  BY <1>3, <1>5, <1>6, <1>11, <1>12, <1>13, PieceWritten, SMTT(30)

\* So does a file.
LEMMA FileNameWritten ==
  ASSUME NEW segs, NEW ds, NEW fs, NEW next, NEW cov, NEW l,
         Sound(segs, ds, fs, next, cov, l),
         NEW at \in FileSlots(segs), NEW file \in File, file = FileAt(segs, at), NEW n \in Names,
         NEW new, new = PutFile(segs, at, [file EXCEPT !.name = n]),
         NEW len \in Nat, NEW d, OnDevice(d, segs, len), Keeps(d, d, fs),
         NEW w, w = Whole(FileEntryAddr(segs, at) + 2, <<n>>),
         NEW nd, nd = WriteTo(d, w)
  PROVE  OnDevice(nd, new, len) /\ Keeps(d, nd, fs)
<1> DEFINE p == <<"file", at>>
           e == [file EXCEPT !.name = n]
<1>1. segs \in Tables
  BY DEF Sound, Described
<1>2. PICK x : x = FileEntryAddr(segs, at)
  OBVIOUS
<1>0. file # None
  BY NoneAssumption
<1>3. p \in Pieces(segs) /\ x \in Nat /\ x = PieceAddr(segs, p) /\ x + 6 <= len
  BY <1>0, <1>1, <1>2, EntryPlace
<1>4. e \in File
  BY DEF File
<1>5. /\ new \in Tables /\ SameBut(segs, new, p)
      /\ PieceFields(new, p) = EncodeFile(e) /\ NextAddr(new) = NextAddr(segs)
  BY <1>1, <1>4, PutFileSameBut
<1>6. /\ w.addr = x + 2 /\ w.fields = <<n>> /\ IsFields(w.fields) /\ w.addr \in Nat
  BY <1>2, <1>3, EntryFields DEF Whole
<1>14. PICK a, o : a = w.addr /\ o = Len(w.fields)
  OBVIOUS
<1>15. a \in Nat /\ o = 1 /\ a = x + 2
  BY <1>6, <1>14, EntryFields
<1>7. PieceLen(p) = 6
  BY DEF PieceLen
<1>8. DOMAIN d = 0 .. len - 1 /\ Holds(d, segs)
  BY DEF OnDevice
<1>9. Wrote(d, nd, x + 2, <<n>>)
  BY <1>6, <1>8, WriteEffect
<1>10. Written(nd, x, EncodeFile(e))
  <2>2. PieceFields(segs, p) = EncodeFile(file)
    BY <1>0 DEF PieceFields, FileFields
  <2>3. Written(d, x, EncodeFile(file))
    BY <1>3, <1>8, <2>2 DEF Holds, Held
  <2>4. /\ e.id = file.id /\ e.parent_dir = file.parent_dir /\ e.name = n
        /\ e.content_addr = file.content_addr /\ e.content_len = file.content_len
        /\ e.sha3_checksum = file.sha3_checksum
    BY DEF File
  <2>5. PICK f, g : f = EncodeFile(file) /\ g = EncodeFile(e)
    OBVIOUS
  <2> HIDE DEF e
  <2>6. /\ Len(f) = 6 /\ Len(g) = 6 /\ g[3] = n
        /\ \A k \in 1 .. 6 : k # 3 => g[k] = f[k]
    BY <2>4, <2>5 DEF EncodeFile
  <2>7. \A y \in DOMAIN d : y \in Nat
    BY <1>8
  <2>9. /\ x \in Nat /\ Len(f) \in Nat /\ Len(f) >= 3 /\ Len(g) = Len(f) /\ Written(d, x, f)
        /\ \A k \in 1 .. Len(f) : k # 3 => g[k] = f[k]
    BY <1>3, <2>3, <2>5, <2>6
  <2>8. Written(nd, x, g)
    BY <1>9, <2>6, <2>7, <2>9, ThirdFieldWritten
  <2> QED
    BY <2>5, <2>8
<1> HIDE DEF p, e
<1>16. /\ a + o <= len /\ o \in Nat
       /\ x <= a /\ a + o <= x + 6
  BY <1>3, <1>15
<1>11. len = SourceLenAfter(len, w.addr, Len(w.fields))
  BY <1>14, <1>15, <1>16, SameLength
<1>12. PieceAddr(segs, p) <= w.addr /\ w.addr + Len(w.fields) <= PieceAddr(segs, p) + PieceLen(p)
  BY <1>3, <1>7, <1>14, <1>16
<1>13. Written(nd, PieceAddr(segs, p), PieceFields(new, p))
  BY <1>3, <1>5, <1>10
<1> QED
  BY <1>3, <1>5, <1>6, <1>11, <1>12, <1>13, PieceWritten, SMTT(30)

\* A file's entry is zeroed, or its first fields.
LEMMA FileZeroed ==
  ASSUME NEW segs, NEW ds, NEW fs, NEW next, NEW cov, NEW l,
         Sound(segs, ds, fs, next, cov, l),
         NEW id \in DOMAIN fs, NEW at, at = SlotOfFile(segs, id),
         NEW new, new = ClearEntries(segs, {}, {id}),
         NEW len \in Nat, NEW d, OnDevice(d, segs, len), Keeps(d, d, fs),
         NEW n \in 1 .. 6, NEW f, IsFields(f), Len(f) = n, \A k \in 1 .. n : f[k] = 0,
         NEW w, w.addr = FileEntryAddr(segs, at), w.fields = f,
         NEW nd, nd = WriteTo(d, w)
  PROVE  OnDevice(nd, new, len) /\ Keeps(d, nd, fs)
<1> DEFINE p == <<"file", at>>
<1>1. segs \in Tables /\ Described(segs, ds, fs) /\ Match(FileTable(segs), fs)
  BY DEF Sound, Described
<1>2. at \in FileSlots(segs) /\ FileAt(segs, at) = fs[id] /\ fs[id] # None
  BY <1>1, SlotOfFileFound, DescribedTypes, NoneAssumption
<1>3. PICK x : x = FileEntryAddr(segs, at)
  OBVIOUS
<1>4. p \in Pieces(segs) /\ x \in Nat /\ x = PieceAddr(segs, p) /\ x + 6 <= len
  BY <1>1, <1>2, <1>3, EntryPlace
<1>5. /\ new \in Tables /\ SameBut(segs, new, p)
      /\ PieceFields(new, p) = <<0>> /\ NextAddr(new) = NextAddr(segs)
  <2> DEFINE G == PiecesOf(segs, {}, {id})
  <2>1. {} \in SUBSET DOMAIN ds /\ {id} \in SUBSET DOMAIN fs
    OBVIOUS
  <2>2. new \in Tables /\ Emptied(segs, new, G) /\ NextAddr(new) = NextAddr(segs)
    BY <1>1, <2>1, ClearedPieces
  <2>3. G = {p}
    BY DEF PiecesOf
  <2> HIDE DEF G, p
  <2> QED
    BY <1>4, <2>2, <2>3 DEF Emptied, SameBut
<1>6. PieceLen(p) = 6
  BY DEF PieceLen
<1> HIDE DEF p
<1>7. DOMAIN d = 0 .. len - 1
  BY DEF OnDevice
<1>8. w.addr = x /\ x \in Nat /\ IsFields(w.fields)
  BY <1>3, <1>4
<1>9. Written(nd, x, <<0>>)
  <2>1. Written(nd, x, f)
    BY <1>7, <1>8, WriteEffect DEF Wrote
  <2>2. 1 \in 1 .. Len(f) /\ f[1] = 0
    OBVIOUS
  <2>3. x + 1 - 1 \in DOMAIN nd /\ nd[x + 1 - 1] = 0
    BY <2>1, <2>2 DEF Written
  <2>4. PICK o : o = <<0>> /\ Len(o) = 1 /\ o[1] = 0
    BY OneField
  <2>5. Written(nd, x, o)
    BY <2>3, <2>4 DEF Written
  <2> QED
    BY <2>4, <2>5
<1>10. len = SourceLenAfter(len, w.addr, Len(w.fields))
  <2>1. x + n <= len /\ n \in Nat
    BY <1>4
  <2> QED
    BY <1>8, <2>1, SameLength
<1>11. PieceAddr(segs, p) <= w.addr /\ w.addr + Len(w.fields) <= PieceAddr(segs, p) + PieceLen(p)
  <2>1. x <= x /\ x + n <= x + 6
    BY <1>4
  <2> QED
    BY <1>4, <1>6, <1>8, <2>1
<1>12. Written(nd, PieceAddr(segs, p), PieceFields(new, p))
  BY <1>4, <1>5, <1>9
<1> QED
  BY <1>4, <1>5, <1>8, <1>10, <1>11, <1>12, PieceWritten

-----------------------------------------------------------------------------
(* Making room *)

\* The table with room for an entry has the same index.
LEMMA RoomSound ==
  ASSUME ArchiveInv, NEW full \in BOOLEAN
  PROVE  Sound(Room(full).file_segments, dirs, files, next_id, Room(full).coverage,
               Room(full).source_len)
<1>1. PICK room, segs : room = Room(full) /\ segs = room.file_segments
  OBVIOUS
<1>2. /\ segs \in Tables /\ segs # <<>>
      /\ MoreSlots(DirTable(file_segments), DirTable(segs))
      /\ MoreSlots(FileTable(file_segments), FileTable(segs))
      /\ Fits(Zones(segs), FirstMark, room.coverage, room.source_len)
  BY <1>1, RoomEffect
<1>3. /\ Match(DirTable(file_segments), dirs) /\ Match(FileTable(file_segments), files)
      /\ Tree(dirs, files) /\ IdsApart(dirs, files, next_id)
  BY DEF ArchiveInv, IndexInv, IdsInv, Described
<1>4. Match(DirTable(segs), dirs) /\ Match(FileTable(segs), files)
  BY <1>2, <1>3, MatchMoreSlots
<1>5. Sound(segs, dirs, files, next_id, room.coverage, room.source_len)
  BY <1>2, <1>3, <1>4 DEF Sound, Described
<1> QED
  BY <1>1, <1>5

\* The archive's own table is sound, and its files are on the device.
LEMMA DiskInvSound ==
  ASSUME DiskInv
  PROVE  /\ Sound(file_segments, dirs, files, next_id, coverage, source_len)
         /\ Described(file_segments, dirs, files)
         /\ file_segments \in Tables /\ file_segments # <<>> /\ source_len \in Nat
         /\ OnDevice(disk, file_segments, source_len)
         /\ Keeps(disk, disk, files)
<1>1. Sound(file_segments, dirs, files, next_id, coverage, source_len)
  BY DEF DiskInv, ArchiveInv, IndexInv, IdsInv, SpaceInv, Sound
<1>2. OnDevice(disk, file_segments, source_len) /\ DOMAIN disk = 0 .. source_len - 1
  BY DEF DiskInv, OnDevice
<1>3. source_len \in Nat
  BY SpaceTypes DEF DiskInv
<1>4. Keeps(disk, disk, files)
  BY <1>1, <1>2, FilesAreThere
<1> QED
  BY <1>1, <1>2, <1>3, <1>4 DEF Sound, Described

\* The fields of a new segment.
LEMMA NewSegmentFields ==
  /\ IsFields(EncodeSegment(NewSegment))
  /\ Len(EncodeSegment(NewSegment)) = EncodedLen(NewSegment)
  /\ EncodedLen(NewSegment) \in Nat
<1>1. EmptyFields(EncodeSegment(NewSegment), DirsCapacity, FilesCapacity)
  BY EncodeEmpty, Layout DEF NewSegment
<1> QED
  BY <1>1, NewSegmentLen DEF EmptyFields, NewSegment

\* A segment written, in whole or in part, and not linked, is none.
LEMMA SegmentWritten ==
  ASSUME DiskInv, NEW addr, addr = AddrFor(coverage, EncodedLen(NewSegment)),
         NEW v, PartOf(v, addr, EncodeSegment(NewSegment)),
         NEW nd, nd = WriteTo(disk, v),
         NEW len, len = SourceLenAfter(source_len, addr, Len(v.fields))
  PROVE  /\ OnDevice(nd, file_segments, len) /\ Keeps(disk, nd, files)
         /\ Wrote(disk, nd, addr, v.fields)
         /\ addr \in Nat /\ Outside(file_segments, addr, Len(v.fields))
         /\ Opens(nd, dirs, files)
         /\ len \in Nat
<1>1. PICK k : k = Len(v.fields)
  OBVIOUS
<1>2. v.addr = addr /\ IsFields(v.fields) /\ k \in 0 .. EncodedLen(NewSegment)
  BY <1>1, NewSegmentFields DEF PartOf
<1>3. addr \in Nat /\ Outside(file_segments, addr, k) /\ Beside(files, addr, k)
  BY <1>2, DiskInvSound, FreeSpace, NewSegmentFields
<1>4. /\ OnDevice(nd, file_segments, len) /\ Keeps(disk, nd, files)
      /\ Wrote(disk, nd, addr, v.fields)
      /\ len \in Nat /\ source_len <= len
  BY <1>1, <1>2, <1>3, DiskInvSound, DataWritten
<1>5. Sound(file_segments, dirs, files, next_id, coverage, len)
  BY <1>4, DiskInvSound, SoundLonger
<1>6. Opens(nd, dirs, files)
  BY <1>4, <1>5 DEF Opens
<1> QED
  BY <1>1, <1>3, <1>4, <1>6

\* The link to it makes it one.
LEMMA SegmentLinked ==
  ASSUME DiskInv, NEW addr, addr = AddrFor(coverage, EncodedLen(NewSegment)),
         NEW v, v = OneByOne(addr, EncodeSegment(NewSegment)),
         NEW d, d = WriteTo(disk, v),
         NEW w, w = Whole(SegmentAddr(file_segments, Len(file_segments)), <<addr>>),
         NEW nd, nd = WriteTo(d, w),
         NEW new, new = WithNewSegment(file_segments, addr),
         NEW len, len = SourceLenAfter(source_len, addr, EncodedLen(NewSegment))
  PROVE  /\ OnDevice(nd, new, len) /\ Keeps(disk, nd, files)
         /\ w.addr \in Nat
<1> DEFINE f == EncodeSegment(NewSegment)
           segs == file_segments
           i == Len(segs)
<1>1. PICK a : a = SegmentAddr(segs, i)
  OBVIOUS
<1>2. /\ Sound(segs, dirs, files, next_id, coverage, source_len)
      /\ Described(segs, dirs, files) /\ Fits(Zones(segs), FirstMark, coverage, source_len)
      /\ segs \in Tables /\ segs # <<>> /\ source_len \in Nat
      /\ OnDevice(disk, segs, source_len)
      /\ Keeps(disk, disk, files)
  BY DiskInvSound DEF Sound
<1>3. v.addr = addr /\ v.fields = f /\ IsFields(f) /\ Len(f) = EncodedLen(NewSegment)
  BY NewSegmentFields DEF OneByOne
<1>4. PartOf(v, addr, f)
  <2>1. Len(f) \in Nat
    BY <1>3 DEF IsFields
  <2> HIDE DEF f
  <2> QED
    BY <1>3, <2>1 DEF PartOf
<1>5. /\ OnDevice(d, segs, len) /\ Keeps(disk, d, files) /\ Wrote(disk, d, addr, f)
      /\ addr \in Nat /\ Outside(segs, addr, EncodedLen(NewSegment)) /\ len \in Nat
  BY <1>3, <1>4, SegmentWritten
<1>6. i \in DOMAIN segs
  BY <1>2 DEF Tables
<1> HIDE DEF f, i
<1>7. a \in Nat /\ SegmentEnd(segs, i) \in Nat /\ a < SegmentEnd(segs, i)
  BY <1>1, <1>2, <1>6, SegmentBounds
<1>8. DOMAIN d = 0 .. len - 1 /\ Holds(d, segs)
  BY <1>5 DEF OnDevice
<1>9. a \in DOMAIN d
  <2> DEFINE p == <<"head", i>>
  <2>1. p \in Pieces(segs) /\ PieceAddr(segs, p) = a /\ PieceLen(p) = 3
    BY <1>1, <1>6 DEF Pieces, PieceAddr, PieceLen
  <2> HIDE DEF p
  <2>2. Written(d, a, PieceFields(segs, p))
    BY <1>8, <2>1 DEF Holds, Held
  <2>3. PICK g, n : g = PieceFields(segs, p) /\ n = Len(g) /\ n \in 1 .. 3
    BY <1>2, <2>1, PieceFieldsLen
  <2>4. 1 \in 1 .. n
    BY <2>3
  <2>5. a + 1 - 1 \in DOMAIN d
    BY <2>2, <2>3, <2>4 DEF Written
  <2> QED
    BY <1>7, <2>5
<1>10. w.addr = a /\ w.fields = <<addr>>
  BY <1>1 DEF Whole, i
<1>11. PICK o : o = <<addr>> /\ IsFields(o) /\ Len(o) = 1
  BY EntryFields
<1>12. Wrote(d, nd, a, o) /\ DOMAIN nd = 0 .. SourceLenAfter(len, a, 1) - 1
  <2>1. w.addr = a /\ w.addr \in Nat /\ w.fields = o /\ IsFields(w.fields) /\ len \in Nat
    BY <1>5, <1>7, <1>10, <1>11
  <2>2. /\ Wrote(d, nd, w.addr, w.fields)
        /\ DOMAIN nd = 0 .. SourceLenAfter(len, w.addr, Len(w.fields)) - 1
    BY <1>8, <2>1, WriteEffect
  <2> QED
    BY <1>11, <2>1, <2>2
<1>13. SourceLenAfter(len, a, 1) = len
  <2>1. a + 1 <= len
    BY <1>5, <1>7, <1>8, <1>9
  <2> QED
    BY <1>5, <1>7, <2>1, SameLength
<1>14. Holds(nd, new) /\ NextAddr(new) = 0
  <2>1. Wrote(d, nd, SegmentAddr(segs, Len(segs)), <<addr>>)
    BY <1>1, <1>11, <1>12 DEF i
  <2>2. Written(d, addr, EncodeSegment(NewSegment))
    BY <1>5 DEF Wrote, f
  <2> QED
    BY <1>2, <1>5, <1>8, <2>1, <2>2, HoldsLink
<1>15. Keeps(d, nd, files)
  <2>1. Beside(files, a, 1)
    BY <1>1, <1>2, <1>6, <1>7, FilesBesideSegments
  <2>2. Keeps(d, d, files)
    BY <1>5 DEF Keeps
  <2> QED
    BY <1>2, <1>7, <1>11, <1>12, <2>1, <2>2, KeepsFrame
<1>16. Keeps(disk, nd, files)
  BY <1>5, <1>15, KeepsTrans
<1> QED
  BY <1>7, <1>10, <1>12, <1>13, <1>14, <1>16 DEF OnDevice

-----------------------------------------------------------------------------
(* Lists of writes *)

LEMMA FieldsAreSeq ==
  ASSUME NEW f, IsFields(f), NEW W, \A i \in 1 .. Len(f) : f[i] \in W
  PROVE  f \in Seq(W)
<1>1. PICK n : n = Len(f)
  OBVIOUS
<1>2. n \in Nat /\ f = [k \in 1 .. n |-> f[k]] /\ \A i \in 1 .. n : f[i] \in W
  BY <1>1 DEF IsFields
<1>3. [k \in 1 .. n |-> f[k]] \in [1 .. n -> W]
  BY <1>2
<1>4. [1 .. n -> W] \subseteq Seq(W)
  BY <1>2
<1> QED
  BY <1>2, <1>3, <1>4

\* One list after another.
LEMMA ConcatIs ==
  ASSUME NEW s, IsFields(s), NEW t, IsFields(t), NEW ws, ws = s \o t
  PROVE  /\ Len(s) \in Nat /\ Len(t) \in Nat
         /\ Len(ws) = Len(s) + Len(t) /\ DOMAIN ws = 1 .. (Len(s) + Len(t))
         /\ \A i \in 1 .. Len(s) : ws[i] = s[i]
         /\ \A i \in 1 .. Len(t) : ws[Len(s) + i] = t[i]
<1> DEFINE W == {s[i] : i \in 1 .. Len(s)} \cup {t[i] : i \in 1 .. Len(t)}
<1>1. /\ \A i \in 1 .. Len(s) : s[i] \in W
      /\ \A i \in 1 .. Len(t) : t[i] \in W
  OBVIOUS
<1> HIDE DEF W
<1>2. s \in Seq(W) /\ t \in Seq(W)
  BY <1>1, FieldsAreSeq
<1> QED
  BY <1>2

\* What a crash can leave of some writes.
Remains(d, ws) == UNION {CutOff(Devices(d, ws)[i - 1], ws[i]) : i \in DOMAIN ws}

\* One write, and two.
LEMMA ShortLists ==
  /\ \A b : IsFields(<<b>>) /\ Len(<<b>>) = 1 /\ <<b>>[1] = b /\ DOMAIN <<b>> = 1 .. 1
  /\ \A b, c : /\ IsFields(<<b, c>>) /\ Len(<<b, c>>) = 2 /\ DOMAIN <<b, c>> = 1 .. 2
               /\ <<b, c>>[1] = b /\ <<b, c>>[2] = c
BY DEF IsFields

LEMMA OneWrite ==
  ASSUME NEW d, NEW b, NEW ws, ws = <<b>>
  PROVE  Apply(d, ws) = WriteTo(d, b) /\ Remains(d, ws) = CutOff(d, b)
<1>1. Len(ws) = 1 /\ ws[1] = b /\ DOMAIN ws = 1 .. 1
  BY ShortLists
<1>2. PICK after : after = Devices(d, ws)
  OBVIOUS
<1>3. /\ after[0] = d
      /\ \A i \in 1 .. 1 : after[i] = WriteTo(after[i - 1], ws[i])
  BY <1>1, <1>2, DevicesAre
<1>4. after[1] = WriteTo(d, b)
  BY <1>1, <1>3
<1>5. Remains(d, ws) = CutOff(d, b)
  BY <1>1, <1>2, <1>3 DEF Remains
<1> QED
  BY <1>1, <1>2, <1>4, <1>5 DEF Apply

LEMMA TwoWrites ==
  ASSUME NEW d, NEW b, NEW c, NEW ws, ws = <<b, c>>
  PROVE  /\ Apply(d, ws) = WriteTo(WriteTo(d, b), c)
         /\ Remains(d, ws) = CutOff(d, b) \cup CutOff(WriteTo(d, b), c)
<1>1. Len(ws) = 2 /\ ws[1] = b /\ ws[2] = c /\ DOMAIN ws = 1 .. 2
  BY ShortLists
<1>2. PICK after : after = Devices(d, ws)
  OBVIOUS
<1>3. /\ after[0] = d
      /\ \A i \in 1 .. 2 : after[i] = WriteTo(after[i - 1], ws[i])
  BY <1>1, <1>2, DevicesAre
<1>4. after[1] = WriteTo(d, b) /\ after[2] = WriteTo(after[1], c)
  BY <1>1, <1>3
<1>5. Remains(d, ws) = CutOff(d, b) \cup CutOff(WriteTo(d, b), c)
  <2>1. Remains(d, ws) = UNION {CutOff(after[i - 1], ws[i]) : i \in 1 .. 2}
    BY <1>1, <1>2 DEF Remains
  <2>2. \A x : x \in Remains(d, ws) <=> \E i \in 1 .. 2 : x \in CutOff(after[i - 1], ws[i])
    BY <2>1
  <2>3. \A x : x \in Remains(d, ws) <=> x \in CutOff(after[0], ws[1]) \/ x \in CutOff(after[1], ws[2])
    BY <2>2
  <2> QED
    BY <1>1, <1>3, <1>4, <2>3
<1> QED
  BY <1>1, <1>2, <1>4, <1>5 DEF Apply

\* The first r writes make room, each in turn or cut off; after them come more.
Staged(full, more, ws, after, r) ==
  /\ Len(ws) = r + Len(more) /\ DOMAIN ws = 1 .. (r + Len(more))
  /\ \A i \in 1 .. Len(more) :
       ws[r + i] = more[i] /\ after[r + i] = WriteTo(after[r + i - 1], more[i])
  /\ OnDevice(after[r], Room(full).file_segments, Room(full).source_len)
  /\ Keeps(disk, after[r], files)
  /\ \A i \in 1 .. r : \A x \in CutOff(after[i - 1], ws[i]) :
       Opens(x, dirs, files) /\ Keeps(disk, x, files)

\* The writes that make room do.
LEMMA RoomStages ==
  ASSUME DiskInv, NEW full \in BOOLEAN, NEW more, IsFields(more),
         NEW ws, ws = RoomWrites(full) \o more,
         NEW after, after = Devices(disk, ws)
  PROVE  \E r \in Nat : Staged(full, more, ws, after, r)
<1> DEFINE len  == EncodedLen(NewSegment)
           addr == AddrFor(coverage, len)
           v    == OneByOne(addr, EncodeSegment(NewSegment))
           w    == Whole(SegmentAddr(file_segments, Len(file_segments)), <<addr>>)
           room == RoomWrites(full)
<1>0. /\ Sound(file_segments, dirs, files, next_id, coverage, source_len)
      /\ OnDevice(disk, file_segments, source_len) /\ Keeps(disk, disk, files)
  BY DiskInvSound
<1>1. CASE ~full
  <2>1. room = <<>> /\ IsFields(room) /\ Len(room) = 0
    BY <1>1 DEF RoomWrites, IsFields
  <2> HIDE DEF room
  <2>2. Len(more) \in Nat
    BY DEF IsFields
  <2>3. /\ Len(ws) = 0 + Len(more) /\ DOMAIN ws = 1 .. (0 + Len(more))
        /\ \A i \in 1 .. Len(more) : ws[0 + i] = more[i]
    BY <2>1, ConcatIs DEF room
  <2>10. Len(ws) \in Nat
    BY <2>2, <2>3
  <2>4. after[0] = disk /\ \A i \in 1 .. Len(ws) : after[i] = WriteTo(after[i - 1], ws[i])
    BY ONLY <2>10, DevicesAre, after = Devices(disk, ws)
  <2>5. \A i \in 1 .. Len(more) :
          ws[0 + i] = more[i] /\ after[0 + i] = WriteTo(after[0 + i - 1], more[i])
    BY <2>2, <2>3, <2>4
  <2>6. Room(full).file_segments = file_segments /\ Room(full).source_len = source_len
    BY <1>1 DEF Room
  <2>7. OnDevice(after[0], Room(full).file_segments, Room(full).source_len)
    BY <1>0, <2>4, <2>6
  <2>8. Keeps(disk, after[0], files)
    BY <1>0, <2>4
  <2>9. 0 \in Nat /\ \A i : i \notin 1 .. 0
    OBVIOUS
  <2>11. Staged(full, more, ws, after, 0)
    BY <2>3, <2>5, <2>7, <2>8, <2>9 DEF Staged
  <2> QED
    BY <2>9, <2>11
<1>2. CASE full
  <2> DEFINE f == EncodeSegment(NewSegment)
             d == WriteTo(disk, v)
             nd == WriteTo(d, w)
             new_len == SourceLenAfter(source_len, addr, len)
  <2>1. room = <<v, w>> /\ IsFields(room) /\ Len(room) = 2 /\ room[1] = v /\ room[2] = w
    <3>1. room = <<v, w>>
      BY <1>2 DEF RoomWrites
    <3> HIDE DEF v, w, room
    <3> QED
      BY <3>1, ShortLists
  <2>2. /\ Room(full).file_segments = WithNewSegment(file_segments, addr)
        /\ Room(full).source_len = new_len
    BY <1>2 DEF Room
  <2>3. /\ OnDevice(nd, WithNewSegment(file_segments, addr), new_len)
        /\ Keeps(disk, nd, files) /\ w.addr \in Nat
    BY SegmentLinked
  <2>4. ASSUME NEW x \in CutOff(disk, v)
        PROVE  Opens(x, dirs, files) /\ Keeps(disk, x, files)
    <3>1. IsFields(f)
      BY NewSegmentFields
    <3>2. PICK u : x = WriteTo(disk, u) /\ PartOf(u, addr, f)
      BY <3>1, CutOffIs
    <3> QED
      BY <3>2, SegmentWritten
  <2>5. /\ OnDevice(d, file_segments, new_len) /\ Keeps(disk, d, files)
        /\ Opens(d, dirs, files) /\ new_len \in Nat
    <3>1. v.addr = addr /\ v.fields = f /\ IsFields(f) /\ Len(f) = len
      BY NewSegmentFields DEF OneByOne
    <3>2. Len(f) \in Nat
      BY <3>1 DEF IsFields
    <3> HIDE DEF f, v
    <3>3. PartOf(v, addr, f)
      BY <3>1, <3>2 DEF PartOf
    <3> QED
      BY <3>1, <3>3, SegmentWritten DEF f
  <2>6. ASSUME NEW x \in CutOff(d, w)
        PROVE  Opens(x, dirs, files) /\ Keeps(disk, x, files)
    <3> DEFINE a == SegmentAddr(file_segments, Len(file_segments))
               o == <<addr>>
    <3>1. IsFields(o) /\ w = Whole(a, o) /\ w.addr = a
      BY EntryFields DEF Whole
    <3>2. CASE x = WriteTo(d, w)
      <4>1. Opens(nd, dirs, files)
        BY <2>2, <2>3, RoomSound DEF Opens, DiskInv
      <4> QED
        BY <2>3, <3>2, <4>1
    <3>3. CASE x # WriteTo(d, w)
      <4> HIDE DEF a, o, w, d, addr
      <4>1. PICK u : x = WriteTo(d, u) /\ u.addr = a /\ IsFields(u.fields) /\ Len(u.fields) = 0
        BY <3>1, <3>3, WholeCutOff
      <4>2. u.addr \in Nat
        BY <2>3, <3>1, <4>1
      <4>3. Keeps(d, d, files)
        BY <2>5 DEF Keeps
      <4>4. OnDevice(x, file_segments, new_len) /\ Keeps(d, x, files)
        BY <2>5, <4>1, <4>2, <4>3, NothingWritten
      <4>5. source_len <= new_len
        <5>1. source_len \in Nat
          BY DiskInvSound
        <5> QED
          BY <2>5, <5>1 DEF SourceLenAfter
      <4>6. Sound(file_segments, dirs, files, next_id, coverage, new_len)
        BY <1>0, <2>5, <4>5, SoundLonger
      <4>7. Opens(x, dirs, files)
        BY <4>4, <4>6 DEF Opens
      <4> QED
        BY <2>5, <4>4, <4>7, KeepsTrans
    <3> QED
      BY <3>2, <3>3
  <2> HIDE DEF room, v, w, nd
  <2>7. Len(more) \in Nat
    BY DEF IsFields
  <2>8. /\ Len(ws) = 2 + Len(more) /\ DOMAIN ws = 1 .. (2 + Len(more))
        /\ ws[1] = v /\ ws[2] = w
        /\ \A i \in 1 .. Len(more) : ws[2 + i] = more[i]
    <3>1. /\ Len(ws) = Len(room) + Len(more) /\ DOMAIN ws = 1 .. (Len(room) + Len(more))
          /\ \A i \in 1 .. Len(room) : ws[i] = room[i]
          /\ \A i \in 1 .. Len(more) : ws[Len(room) + i] = more[i]
      BY <2>1, ConcatIs DEF room
    <3> QED
      BY <2>1, <3>1
  <2>16. Len(ws) \in Nat
    BY <2>7, <2>8
  <2>9. after[0] = disk /\ \A i \in 1 .. Len(ws) : after[i] = WriteTo(after[i - 1], ws[i])
    BY ONLY <2>16, DevicesAre, after = Devices(disk, ws)
  <2>10. after[1] = d /\ after[2] = WriteTo(after[1], w)
    BY <2>7, <2>8, <2>9
  <2>11. after[2] = nd
    BY <2>10 DEF nd
  <2>12. \A i \in 1 .. Len(more) :
          ws[2 + i] = more[i] /\ after[2 + i] = WriteTo(after[2 + i - 1], more[i])
    BY <2>7, <2>8, <2>9
  <2>13. /\ OnDevice(after[2], Room(full).file_segments, Room(full).source_len)
         /\ Keeps(disk, after[2], files)
    BY <2>2, <2>3, <2>11
  <2>14. \A i \in 1 .. 2 : \A x \in CutOff(after[i - 1], ws[i]) :
           Opens(x, dirs, files) /\ Keeps(disk, x, files)
    <3> TAKE i \in 1 .. 2
    <3> TAKE x \in CutOff(after[i - 1], ws[i])
    <3>1. CASE i = 1
      BY <2>4, <2>8, <2>9, <3>1
    <3>2. CASE i = 2
      BY <2>6, <2>8, <2>10, <3>2
    <3> QED
      BY <3>1, <3>2
  <2>15. 2 \in Nat
    OBVIOUS
  <2>17. Staged(full, more, ws, after, 2)
    BY <2>8, <2>12, <2>13, <2>14 DEF Staged
  <2> QED
    BY <2>15, <2>17
<1> QED
  BY <1>1, <1>2

\* Device d has the room the first of the writes make; one write is left ...
ThenOne(full, b, ws, d) ==
  /\ OnDevice(d, Room(full).file_segments, Room(full).source_len)
  /\ Keeps(disk, d, files)
  /\ Apply(disk, ws) = WriteTo(d, b)
  /\ \A x \in Remains(disk, ws) :
       \/ x \in CutOff(d, b)
       \/ Opens(x, dirs, files) /\ Keeps(disk, x, files)

\* ... or two.
ThenTwo(full, b, c, ws, d) ==
  /\ OnDevice(d, Room(full).file_segments, Room(full).source_len)
  /\ Keeps(disk, d, files)
  /\ Apply(disk, ws) = WriteTo(WriteTo(d, b), c)
  /\ \A x \in Remains(disk, ws) :
       \/ x \in CutOff(d, b)
       \/ x \in CutOff(WriteTo(d, b), c)
       \/ Opens(x, dirs, files) /\ Keeps(disk, x, files)

\* One write once there is room ...
LEMMA OneAfterRoom ==
  ASSUME DiskInv, NEW full \in BOOLEAN, NEW b, NEW ws, ws = RoomWrites(full) \o <<b>>
  PROVE  \E d : ThenOne(full, b, ws, d)
<1>1. PICK more : more = <<b>> /\ IsFields(more) /\ Len(more) = 1 /\ more[1] = b
  BY ShortLists
<1>2. PICK after : after = Devices(disk, ws)
  OBVIOUS
<1>10. PICK r \in Nat : Staged(full, more, ws, after, r)
  BY <1>1, <1>2, RoomStages
<1>3. /\ Len(ws) = r + Len(more) /\ DOMAIN ws = 1 .. (r + Len(more))
      /\ \A i \in 1 .. Len(more) :
           ws[r + i] = more[i] /\ after[r + i] = WriteTo(after[r + i - 1], more[i])
      /\ OnDevice(after[r], Room(full).file_segments, Room(full).source_len)
      /\ Keeps(disk, after[r], files)
      /\ \A i \in 1 .. r : \A x \in CutOff(after[i - 1], ws[i]) :
           Opens(x, dirs, files) /\ Keeps(disk, x, files)
  BY <1>10 DEF Staged
<1>4. /\ Len(ws) = r + 1 /\ DOMAIN ws = 1 .. (r + 1)
      /\ ws[r + 1] = b /\ after[r + 1] = WriteTo(after[r], b)
  <2>1. 1 \in 1 .. Len(more) /\ r + 1 - 1 = r
    BY <1>1
  <2> QED
    BY <1>1, <1>3, <2>1
<1>5. Apply(disk, ws) = WriteTo(after[r], b)
  BY <1>2, <1>4 DEF Apply
<1>6. ASSUME NEW x \in Remains(disk, ws)
      PROVE  \/ x \in CutOff(after[r], b)
             \/ Opens(x, dirs, files) /\ Keeps(disk, x, files)
  <2>1. PICK i \in 1 .. (r + 1) : x \in CutOff(after[i - 1], ws[i])
    BY <1>2, <1>4 DEF Remains
  <2>2. i \in 1 .. r \/ (i = r + 1 /\ i - 1 = r)
    OBVIOUS
  <2> QED
    BY <1>3, <1>4, <2>1, <2>2
<1>7. ThenOne(full, b, ws, after[r])
  BY <1>3, <1>5, <1>6 DEF ThenOne
<1> QED
  BY <1>7

\* ... and two.
LEMMA TwoAfterRoom ==
  ASSUME DiskInv, NEW full \in BOOLEAN, NEW b, NEW c, NEW ws, ws = RoomWrites(full) \o <<b, c>>
  PROVE  \E d : ThenTwo(full, b, c, ws, d)
<1>1. PICK more : more = <<b, c>> /\ IsFields(more) /\ Len(more) = 2 /\ more[1] = b /\ more[2] = c
  BY ShortLists
<1>2. PICK after : after = Devices(disk, ws)
  OBVIOUS
<1>10. PICK r \in Nat : Staged(full, more, ws, after, r)
  BY <1>1, <1>2, RoomStages
<1>3. /\ Len(ws) = r + Len(more) /\ DOMAIN ws = 1 .. (r + Len(more))
      /\ \A i \in 1 .. Len(more) :
           ws[r + i] = more[i] /\ after[r + i] = WriteTo(after[r + i - 1], more[i])
      /\ OnDevice(after[r], Room(full).file_segments, Room(full).source_len)
      /\ Keeps(disk, after[r], files)
      /\ \A i \in 1 .. r : \A x \in CutOff(after[i - 1], ws[i]) :
           Opens(x, dirs, files) /\ Keeps(disk, x, files)
  BY <1>10 DEF Staged
<1>4. /\ Len(ws) = r + 2 /\ DOMAIN ws = 1 .. (r + 2)
      /\ ws[r + 1] = b /\ after[r + 1] = WriteTo(after[r], b)
      /\ ws[r + 2] = c /\ after[r + 2] = WriteTo(after[r + 1], c)
  <2>1. 1 \in 1 .. Len(more) /\ 2 \in 1 .. Len(more) /\ r + 1 - 1 = r /\ r + 2 - 1 = r + 1
    BY <1>1
  <2> QED
    BY <1>1, <1>3, <2>1
<1>5. Apply(disk, ws) = WriteTo(WriteTo(after[r], b), c)
  BY <1>2, <1>4 DEF Apply
<1>6. ASSUME NEW x \in Remains(disk, ws)
      PROVE  \/ x \in CutOff(after[r], b)
             \/ x \in CutOff(WriteTo(after[r], b), c)
             \/ Opens(x, dirs, files) /\ Keeps(disk, x, files)
  <2>1. PICK i \in 1 .. (r + 2) : x \in CutOff(after[i - 1], ws[i])
    BY <1>2, <1>4 DEF Remains
  <2>2. i \in 1 .. r \/ (i = r + 1 /\ i - 1 = r) \/ (i = r + 2 /\ i - 1 = r + 1)
    OBVIOUS
  <2> QED
    BY <1>3, <1>4, <2>1, <2>2
<1>7. ThenTwo(full, b, c, ws, after[r])
  BY <1>3, <1>5, <1>6 DEF ThenTwo
<1> QED
  BY <1>7

-----------------------------------------------------------------------------
(* The operations *)

\* A whole write, when there is nothing else to do: done or not at all.
LEMMA NotDone ==
  ASSUME NEW segs, NEW ds, NEW fs, NEW next, NEW cov, NEW len,
         Sound(segs, ds, fs, next, cov, len),
         NEW d, OnDevice(d, segs, len),
         NEW b, NEW addr \in Nat, NEW fields, IsFields(fields), b = Whole(addr, fields),
         NEW x \in CutOff(d, b), x # WriteTo(d, b)
  PROVE  Opens(x, ds, fs) /\ Keeps(d, x, fs)
<1>1. len \in Nat /\ DOMAIN d = 0 .. len - 1
  BY FitsTypes DEF Sound, OnDevice
<1>2. Keeps(d, d, fs)
  BY <1>1, FilesAreThere
<1>3. PICK v : x = WriteTo(d, v) /\ v.addr = addr /\ IsFields(v.fields) /\ Len(v.fields) = 0
  BY WholeCutOff
<1>4. v.addr \in Nat
  BY <1>3
<1>5. OnDevice(x, segs, len) /\ Keeps(d, x, fs)
  BY <1>1, <1>2, <1>3, <1>4, NothingWritten
<1> QED
  BY <1>5 DEF Opens

\* create_dir.
LEMMA CreateDirWritten ==
  ASSUME DiskInv, NEW p \in DOMAIN dirs_content, NEW n \in Names,
         NameIsFree(p, n), next_id < MaxId,
         NEW new, new = PutDir(DirRoom.file_segments, NewDirSlot, NewDir(p, n)),
         NEW ds, ds = Extend(dirs, next_id, NewDir(p, n)),
         NEW ws, ws = CreateDirWrites(p, n)
  PROVE  /\ OnDevice(Apply(disk, ws), new, DirRoom.source_len)
         /\ Keeps(disk, Apply(disk, ws), files)
         /\ \A x \in Remains(disk, ws) :
              Keeps(disk, x, files) /\ (Opens(x, dirs, files) \/ Opens(x, ds, files))
<1> DEFINE segs == DirRoom.file_segments
           len  == DirRoom.source_len
           dir  == NewDir(p, n)
           addr == DirEntryAddr(segs, NewDirSlot)
           b    == Whole(addr, EncodeDir(dir))
<1>0. ArchiveInv
  BY DEF DiskInv
<1>1. DirsFull \in BOOLEAN /\ DirRoom = Room(DirsFull)
  BY DEF DirsFull, DirRoom
<1>2. Sound(segs, dirs, files, next_id, DirRoom.coverage, len)
  BY <1>0, <1>1, RoomSound
<1>3. Sound(new, ds, files, next_id + 1, DirRoom.coverage, len) /\ dir \in Directory
  BY <1>0, CreateDirSound
<1>4. NewDirSlot \in DirSlots(segs)
  BY <1>0, DirRoomEffect
<1>5. ws = RoomWrites(DirsFull) \o <<b>>
  BY DEF CreateDirWrites
<1>6. segs \in Tables /\ len \in Nat
  BY <1>2, FitsTypes DEF Sound, Described
<1> HIDE DEF b, addr, dir, segs, len
<1>14. PICK d : ThenOne(DirsFull, b, ws, d)
  BY <1>1, <1>5, OneAfterRoom
<1>7. /\ OnDevice(d, Room(DirsFull).file_segments, Room(DirsFull).source_len)
      /\ Keeps(disk, d, files)
      /\ Apply(disk, ws) = WriteTo(d, b)
      /\ \A x \in Remains(disk, ws) :
           \/ x \in CutOff(d, b)
           \/ Opens(x, dirs, files) /\ Keeps(disk, x, files)
  BY <1>14 DEF ThenOne
<1>8. OnDevice(d, segs, len)
  BY <1>1, <1>7 DEF segs, len
<1>9. Keeps(d, d, files)
  BY <1>2, <1>8, FilesAreThere DEF OnDevice
<1>10. OnDevice(WriteTo(d, b), new, len) /\ Keeps(d, WriteTo(d, b), files)
  BY <1>2, <1>3, <1>4, <1>6, <1>8, <1>9, DirWritten DEF b, addr, segs, dir
<1>11. Keeps(disk, WriteTo(d, b), files)
  BY <1>7, <1>10, KeepsTrans
<1>12. addr \in Nat /\ IsFields(EncodeDir(dir))
  BY <1>4, <1>6, <1>8, EntryPlace, EntryFields DEF addr
<1>13. ASSUME NEW x \in Remains(disk, ws)
       PROVE  Keeps(disk, x, files) /\ (Opens(x, dirs, files) \/ Opens(x, ds, files))
  <2>1. CASE x = WriteTo(d, b)
    <3>1. Opens(x, ds, files)
      BY <1>3, <1>10, <2>1 DEF Opens
    <3> QED
      BY <1>11, <2>1, <3>1
  <2>2. CASE x \in CutOff(d, b) /\ x # WriteTo(d, b)
    <3>1. Opens(x, dirs, files) /\ Keeps(d, x, files)
      BY <1>2, <1>8, <1>12, <2>2, NotDone DEF b
    <3> QED
      BY <1>7, <3>1, KeepsTrans
  <2> QED
    BY <1>7, <2>1, <2>2
<1> QED
  BY <1>7, <1>10, <1>11, <1>13 DEF len

\* The chunks of a content.
LEMMA ChunksAre ==
  ASSUME NEW c \in Contents
  PROVE  IsFields(Chunks[c]) /\ Len(Chunks[c]) = ContentLen[c] /\ ContentLen[c] \in Nat
<1>1. ContentLen[c] \in Nat
  BY ContentsAssumption
<1>2. PICK n \in Nat : n = ContentLen[c]
  BY <1>1
<1>3. PICK f : f = Chunks[c]
  OBVIOUS
<1>4. f = [i \in 1 .. n |-> f[i]]
  BY <1>2, <1>3, ChunksAssumption
<1>5. Len(f) = n
  BY <1>4
<1>6. IsFields(f)
  BY <1>4, <1>5 DEF IsFields
<1> QED
  BY <1>1, <1>2, <1>3, <1>5, <1>6

\* Data written where there is space for it, in whole or in part.
LEMMA ContentWritten ==
  ASSUME NEW segs, NEW ds, NEW fs, NEW next, NEW cov, NEW len,
         Sound(segs, ds, fs, next, cov, len), NEW d, OnDevice(d, segs, len),
         NEW f, IsFields(f), NEW addr, addr = AddrFor(cov, Len(f)),
         NEW v, PartOf(v, addr, f),
         NEW nd, nd = WriteTo(d, v),
         NEW new_len, new_len = SourceLenAfter(len, addr, Len(v.fields))
  PROVE  /\ OnDevice(nd, segs, new_len) /\ Keeps(d, nd, fs)
         /\ Wrote(d, nd, addr, v.fields)
         /\ addr \in Nat /\ Outside(segs, addr, Len(v.fields))
         /\ Sound(segs, ds, fs, next, cov, new_len)
         /\ Opens(nd, ds, fs)
<1>1. segs \in Tables /\ Described(segs, ds, fs) /\ len \in Nat
  BY FitsTypes DEF Sound, Described
<1>2. Keeps(d, d, fs)
  BY FilesAreThere DEF OnDevice
<1>3. Len(f) \in Nat
  BY DEF IsFields
<1>4. v.addr = addr /\ IsFields(v.fields) /\ Len(v.fields) \in 0 .. Len(f)
  BY DEF PartOf
<1>5. addr \in Nat /\ Outside(segs, addr, Len(v.fields)) /\ Beside(fs, addr, Len(v.fields))
  BY <1>3, <1>4, FreeSpace
<1>6. /\ OnDevice(nd, segs, new_len) /\ Keeps(d, nd, fs)
      /\ Wrote(d, nd, addr, v.fields)
      /\ new_len \in Nat /\ len <= new_len
  BY <1>1, <1>2, <1>4, <1>5, DataWritten
<1>7. Sound(segs, ds, fs, next, cov, new_len)
  BY <1>6, SoundLonger
<1>8. Opens(nd, ds, fs)
  BY <1>6, <1>7 DEF Opens
<1> QED
  BY <1>5, <1>6, <1>7, <1>8

\* All of some fields are a part of them.
LEMMA WholePart ==
  ASSUME NEW f, IsFields(f), NEW addr, NEW v, v = OneByOne(addr, f) \/ v = Whole(addr, f)
  PROVE  PartOf(v, addr, f) /\ v.addr = addr /\ v.fields = f
<1>1. Len(f) \in Nat
  BY DEF IsFields
<1>2. v.addr = addr /\ v.fields = f
  BY DEF OneByOne, Whole
<1> QED
  BY <1>1, <1>2 DEF PartOf

\* The entry is written apart from the data.
LEMMA DataBesideEntry ==
  ASSUME NEW segs \in Tables, NEW at \in FileSlots(segs), NEW len \in Nat, NEW d,
         OnDevice(d, segs, len),
         NEW file, NEW w, w = Whole(FileEntryAddr(segs, at), EncodeFile(file)),
         NEW nd, nd = WriteTo(d, w),
         NEW a \in Nat, NEW f, IsFields(f), Outside(segs, a, Len(f)), Written(d, a, f)
  PROVE  Written(nd, a, f)
<1> DEFINE e == FileEntryAddr(segs, at)
           p == <<"file", at>>
           g == EncodeFile(file)
<1>1. p \in Pieces(segs) /\ e \in Nat /\ e = PieceAddr(segs, p)
  BY EntryPlace
<1>2. w.addr = e /\ w.fields = g
  BY DEF Whole
<1>3. IsFields(g) /\ Len(g) = 6
  BY EntryFields
<1>4. PieceLen(p) = 6
  BY DEF PieceLen
<1>5. Len(f) \in Nat
  BY DEF IsFields
<1>6. DOMAIN d = 0 .. len - 1
  BY DEF OnDevice
<1> HIDE DEF e, p, g
<1>7. Wrote(d, nd, e, g)
  BY <1>1, <1>2, <1>3, <1>6, WriteEffect
<1>8. PICK i \in DOMAIN segs : SegmentAddr(segs, i) <= e /\ e + 6 <= SegmentEnd(segs, i)
  BY <1>1, <1>4, PieceBounds
<1>9. SegmentAddr(segs, i) \in Nat /\ SegmentEnd(segs, i) \in Nat
  BY SegmentBounds
<1>10. a + Len(f) <= SegmentAddr(segs, i) \/ SegmentEnd(segs, i) <= a
  BY DEF Outside
<1>11. a + Len(f) <= e \/ e + Len(g) <= a
  BY <1>1, <1>3, <1>5, <1>8, <1>9, <1>10
<1>12. Len(g) \in Nat
  BY <1>3
<1> QED
  BY <1>1, <1>5, <1>7, <1>11, <1>12, WrittenFrame

\* create_file.
LEMMA CreateFileWritten ==
  ASSUME DiskInv, NEW p \in DOMAIN dirs_content, NEW n \in Names, NEW c \in Contents,
         NameIsFree(p, n), next_id < MaxId,
         NEW file, file = NewFile(p, n, c),
         NEW new, new = PutFile(FileRoom.file_segments, NewFileSlot, file),
         NEW fs, fs = Extend(files, next_id, file),
         NEW ws, ws = CreateFileWrites(p, n, c)
  PROVE  /\ OnDevice(Apply(disk, ws), new, SourceLenWithEntry(c))
         /\ Keeps(disk, Apply(disk, ws), files)
         /\ Written(Apply(disk, ws), file.content_addr, Chunks[c])
         /\ \A x \in Remains(disk, ws) :
              /\ Keeps(disk, x, files)
              /\ \/ Opens(x, dirs, files)
                 \/ Opens(x, dirs, fs) /\ Written(x, file.content_addr, Chunks[c])
<1> DEFINE segs == FileRoom.file_segments
           cov  == FileRoom.coverage
           len  == FileRoom.source_len
           l    == ContentLen[c]
           f    == Chunks[c]
           addr == file.content_addr
           e    == FileEntryAddr(segs, NewFileSlot)
           b    == OneByOne(addr, f)
           w    == Whole(e, EncodeFile(file))
           with == SourceLenWith(c)
<1>0. ArchiveInv
  BY DEF DiskInv
<1>1. FilesFull \in BOOLEAN /\ FileRoom = Room(FilesFull)
  BY DEF FilesFull, FileRoom
<1>2. Sound(segs, dirs, files, next_id, cov, len)
  BY <1>0, <1>1, RoomSound
<1>3. Sound(new, dirs, fs, next_id + 1, CoverageWith(c), SourceLenWithEntry(c)) /\ file \in File
  BY <1>0, CreateFileSound
<1>4. NewFileSlot \in FileSlots(segs)
  BY <1>0, FileRoomEffect
<1>5. ws = RoomWrites(FilesFull) \o <<b, w>>
  BY DEF CreateFileWrites
<1>6. segs \in Tables /\ len \in Nat
  BY <1>2, FitsTypes DEF Sound, Described
<1>7. IsFields(f) /\ Len(f) = l /\ l \in Nat
  BY ChunksAre
<1>8. addr = AddrFor(cov, l)
  BY DEF NewFile
<1>9. /\ with = SourceLenAfter(len, addr, l) /\ with \in Nat
      /\ SourceLenWithEntry(c) = SourceLenAfter(with, e, 6)
  <2>1. with = SourceLenAfter(len, addr, l)
    BY <1>8 DEF SourceLenWith
  <2>2. SourceLenWithEntry(c) = SourceLenAfter(with, e, 6)
    BY FieldsAssumption DEF SourceLenWithEntry
  <2> QED
    BY <1>0, <2>1, <2>2, ContentFits
<1>10. PartOf(b, addr, f) /\ b.addr = addr /\ b.fields = f
  BY <1>7, WholePart
<1>11. IsFields(EncodeFile(file))
  BY EntryFields
<1> HIDE DEF b, w, addr, e, segs, cov, len, l, f, with
<1>28. PICK d : ThenTwo(FilesFull, b, w, ws, d)
  BY <1>1, <1>5, TwoAfterRoom
<1>12. /\ OnDevice(d, Room(FilesFull).file_segments, Room(FilesFull).source_len)
       /\ Keeps(disk, d, files)
       /\ Apply(disk, ws) = WriteTo(WriteTo(d, b), w)
       /\ \A x \in Remains(disk, ws) :
            \/ x \in CutOff(d, b)
            \/ x \in CutOff(WriteTo(d, b), w)
            \/ Opens(x, dirs, files) /\ Keeps(disk, x, files)
  BY <1>28 DEF ThenTwo
<1>13. OnDevice(d, segs, len)
  BY <1>1, <1>12 DEF segs, len
<1>14. PICK d1 : d1 = WriteTo(d, b)
  OBVIOUS
<1>15. PICK nd : nd = WriteTo(d1, w)
  OBVIOUS
<1>16. /\ OnDevice(d1, segs, with) /\ Keeps(d, d1, files)
       /\ Wrote(d, d1, addr, f)
       /\ addr \in Nat /\ Outside(segs, addr, Len(f))
       /\ Sound(segs, dirs, files, next_id, cov, with)
  BY <1>2, <1>7, <1>8, <1>9, <1>10, <1>13, <1>14, ContentWritten
<1>17. Keeps(disk, d1, files)
  BY <1>12, <1>16, KeepsTrans
<1>18. Written(d1, addr, f)
  BY <1>16 DEF Wrote
<1>19. Keeps(d1, d1, files)
  BY <1>16, FilesAreThere DEF OnDevice
<1>20. OnDevice(nd, new, SourceLenWithEntry(c)) /\ Keeps(d1, nd, files)
  BY <1>2, <1>3, <1>4, <1>9, <1>15, <1>16, <1>19, FileWritten DEF w, e, segs
<1>21. Keeps(disk, nd, files)
  BY <1>17, <1>20, KeepsTrans
<1>22. Written(nd, addr, f)
  BY <1>4, <1>6, <1>7, <1>9, <1>15, <1>16, <1>18, DataBesideEntry DEF w, e
<1>23. e \in Nat
  BY <1>4, <1>6, <1>13, EntryPlace DEF e
<1>24. ASSUME NEW x \in CutOff(d, b)
       PROVE  Keeps(disk, x, files) /\ Opens(x, dirs, files)
  <2>1. PICK u : x = WriteTo(d, u) /\ PartOf(u, addr, f)
    BY <1>7, CutOffIs DEF b
  <2>2. Keeps(d, x, files) /\ Opens(x, dirs, files)
    BY <1>2, <1>7, <1>8, <1>13, <2>1, ContentWritten
  <2> QED
    BY <1>12, <2>2, KeepsTrans
<1>25. ASSUME NEW x \in CutOff(d1, w)
       PROVE  /\ Keeps(disk, x, files)
              /\ \/ Opens(x, dirs, files)
                 \/ Opens(x, dirs, fs) /\ Written(x, addr, f)
  <2>1. CASE x = nd
    <3>1. Opens(nd, dirs, fs)
      BY <1>3, <1>20 DEF Opens
    <3> QED
      BY <1>21, <1>22, <2>1, <3>1
  <2>2. CASE x # nd
    <3>1. Opens(x, dirs, files) /\ Keeps(d1, x, files)
      BY <1>11, <1>15, <1>16, <1>23, <2>2, NotDone DEF w
    <3> QED
      BY <1>17, <3>1, KeepsTrans
  <2> QED
    BY <2>1, <2>2
<1>26. Apply(disk, ws) = nd
  BY <1>12, <1>14, <1>15
<1>27. \A x \in Remains(disk, ws) :
         /\ Keeps(disk, x, files)
         /\ \/ Opens(x, dirs, files)
            \/ Opens(x, dirs, fs) /\ Written(x, addr, f)
  BY <1>12, <1>14, <1>24, <1>25
<1> QED
  BY <1>20, <1>21, <1>22, <1>26, <1>27 DEF addr, f

\* The file whose content is about to be replaced.
LEMMA ReleasedSound ==
  ASSUME ArchiveInv, NEW id \in DOMAIN files,
         NEW segs, segs = ClearEntries(file_segments, {}, {id}),
         NEW gs, gs = Restrict(files, DOMAIN files \ {id})
  PROVE  /\ Sound(segs, dirs, gs, next_id, CoverageToReplace(id), source_len)
         /\ SameShape(file_segments, segs)
<1> DEFINE z    == Zones(file_segments)
           y    == Zones(segs)
           free == CoverageToReplace(id)
           gone == SlotsOfFiles(file_segments, {id})
<1>1. /\ file_segments \in Tables /\ file_segments # <<>>
      /\ Match(DirTable(file_segments), dirs) /\ Match(FileTable(file_segments), files)
      /\ Fits(z, FirstMark, coverage, source_len)
      /\ FirstMark \in DOMAIN z /\ FirstMark \notin FileSlots(file_segments)
      /\ coverage = [len |-> coverage.len, segments |-> coverage.segments]
  BY FirstZone, SpaceTypes DEF ArchiveInv, IndexInv, SpaceInv, Described
<1>2. segs \in Tables /\ SameShape(file_segments, segs)
  BY <1>1, ClearEntriesEffect
<1>3. Described(segs, dirs, gs) /\ IdsApart(dirs, gs, next_id)
  <2>1. dirs = Restrict(dirs, DOMAIN dirs \ {})
    BY <1>1 DEF Match, Restrict
  <2>2. PICK listing, cov : Removal({}, {id}, segs, dirs, gs, listing, cov)
    BY <2>1 DEF Removal
  <2>3. {} \in SUBSET DOMAIN dirs /\ {id} \in SUBSET DOMAIN files
    OBVIOUS
  <2>4. \A d \in {} : Kids(dirs, d) \subseteq {} /\ Kids(files, d) \subseteq {id}
    OBVIOUS
  <2>5. Sound(segs, dirs, gs, next_id, cov, source_len)
    BY <2>2, <2>3, <2>4, RemoveItemsSound
  <2> QED
    BY <2>5 DEF Sound
<1>4. DOMAIN y = DOMAIN z \ gone /\ \A m \in DOMAIN y : y[m] = z[m]
  <2>1. PICK old, ids, no : old = file_segments /\ ids = {id} /\ no = {}
    OBVIOUS
  <2> DEFINE new == ClearEntries(old, no, ids)
  <2>2. old \in Tables
    BY <1>1, <2>1
  <2>3. /\ new \in Tables /\ DOMAIN new = DOMAIN old
        /\ DirTable(new) = ClearedTable(DirTable(old), no)
        /\ FileTable(new) = ClearedTable(FileTable(old), ids)
        /\ DOMAIN Zones(new) = DOMAIN Zones(old) \ SlotsOfFiles(old, ids)
        /\ \A m \in DOMAIN Zones(new) : Zones(new)[m] = Zones(old)[m]
    BY ONLY <2>2, ClearTables
  <2>4. new = segs
    BY <2>1
  <2> HIDE DEF new
  <2> QED
    BY <2>1, <2>3, <2>4
<1>5. \A m \in gone : m \in DOMAIN z /\ z[m] = Extent(files[id]) /\ m \in FileSlots(file_segments)
  <2> TAKE m \in gone
  <2>1. m \in UsedFileSlots(file_segments) /\ FileAt(file_segments, m).id = id
    BY DEF SlotsOfFiles
  <2>2. m \in FileSlots(file_segments) /\ m \in DOMAIN z /\ z[m] = Extent(FileAt(file_segments, m))
    BY <1>1, <2>1, MarksShape DEF Zones, UsedFileSlots
  <2>3. FileTable(file_segments)[m] = FileAt(file_segments, m) /\ m \in Used(FileTable(file_segments))
    BY <2>1, <2>2, UsedSlots
  <2>4. files[id] = FileAt(file_segments, m)
    BY <1>1, <2>1, <2>3 DEF Match
  <2> QED
    BY <2>2, <2>4
<1>6. /\ free.len = coverage.len
      /\ free = [len |-> free.len, segments |-> free.segments]
      /\ free.segments \subseteq coverage.segments
      /\ \A s \in coverage.segments : s # Extent(files[id]) => s \in free.segments
  BY <1>1 DEF CoverageToReplace, MarkAsFree
<1>7. \E m \in gone : TRUE
  <2>1. /\ SlotOfFile(file_segments, id) \in Used(FileTable(file_segments))
        /\ FileAt(file_segments, SlotOfFile(file_segments, id)) = files[id]
    BY <1>1, SlotOfFileFound
  <2>2. files[id].id = id
    BY IndexTypes DEF ArchiveInv
  <2>3. SlotOfFile(file_segments, id) \in UsedFileSlots(file_segments)
    BY <2>1, UsedSlots
  <2> QED
    BY <2>1, <2>2, <2>3 DEF SlotsOfFiles
<1> HIDE DEF z, y, free, gone
<1>8. Released(z, coverage, gone, y, free)
  <2>1. gone \in SUBSET DOMAIN z
    BY <1>5
  <2>2. \A s \in coverage.segments : (\A m \in gone : s # z[m]) => s \in free.segments
    BY <1>5, <1>6, <1>7
  <2> QED
    BY <1>4, <1>6, <2>1, <2>2 DEF Released
<1>9. FirstMark \notin gone
  BY <1>1, <1>5
<1>10. Fits(y, FirstMark, free, source_len)
  BY <1>1, <1>8, <1>9, FitsRelease
<1> QED
  BY <1>2, <1>3, <1>10 DEF Sound, y, free

\* What keeps the contents of files keeps those of some of them.
LEMMA KeepsFewer ==
  ASSUME NEW fs, NEW gs, DOMAIN gs \subseteq DOMAIN fs, \A x \in DOMAIN gs : gs[x] = fs[x],
         NEW d, NEW nd, Keeps(d, nd, fs)
  PROVE  Keeps(d, nd, gs)
<1> SUFFICES ASSUME NEW id \in DOMAIN gs, NEW k \in 1 .. gs[id].content_len, NEW a,
                    a = gs[id].content_addr + k - 1
             PROVE  a \in DOMAIN d /\ a \in DOMAIN nd /\ nd[a] = d[a]
  BY DEF Keeps
<1>1. id \in DOMAIN fs /\ k \in 1 .. fs[id].content_len /\ a = fs[id].content_addr + k - 1
  OBVIOUS
<1> QED
  BY <1>1 DEF Keeps

\* Space apart from one table's segments is apart from the other's.
LEMMA OutsideSameShape ==
  ASSUME NEW segs, NEW new, SameShape(segs, new), NEW a, NEW l, Outside(new, a, l)
  PROVE  Outside(segs, a, l)
  BY DEF SameShape, Outside, SegmentEnd

\* replace_file_content.
LEMMA ReplaceWritten ==
  ASSUME DiskInv, NEW id \in DOMAIN files, NEW c \in Contents,
         NEW file, file = ReplacedFile(id, c),
         NEW new, new = PutFile(file_segments, SlotOfFile(file_segments, id), file),
         NEW fs, fs = [files EXCEPT ![id] = file],
         NEW gs, gs = Restrict(files, DOMAIN files \ {id}),
         NEW ws, ws = ReplaceFileContentWrites(id, c)
  PROVE  /\ OnDevice(Apply(disk, ws), new, SourceLenAfter(source_len, NewAddr(id, c), ContentLen[c]))
         /\ Keeps(disk, Apply(disk, ws), gs)
         /\ Written(Apply(disk, ws), NewAddr(id, c), Chunks[c])
         /\ \A x \in Remains(disk, ws) :
              /\ Keeps(disk, x, gs)
              /\ \/ Opens(x, dirs, files)
                 \/ Opens(x, dirs, fs) /\ Written(x, NewAddr(id, c), Chunks[c])
<1> DEFINE segs == ClearEntries(file_segments, {}, {id})
           cov  == CoverageToReplace(id)
           l    == ContentLen[c]
           f    == Chunks[c]
           addr == NewAddr(id, c)
           at   == SlotOfFile(file_segments, id)
           e    == FileEntryAddr(file_segments, at)
           b    == OneByOne(addr, f)
           w    == Whole(e, EncodeFile(file))
           with == SourceLenAfter(source_len, addr, l)
<1>0. ArchiveInv
  BY DEF DiskInv
<1>1. /\ Sound(file_segments, dirs, files, next_id, coverage, source_len)
      /\ Described(file_segments, dirs, files)
      /\ file_segments \in Tables /\ source_len \in Nat
      /\ OnDevice(disk, file_segments, source_len)
      /\ Keeps(disk, disk, files)
  BY DiskInvSound
<1>2. Sound(segs, dirs, gs, next_id, cov, source_len) /\ SameShape(file_segments, segs)
  BY <1>0, ReleasedSound
<1>3. /\ Sound(new, dirs, fs, next_id, CoverageAfterWrite(cov, source_len, l), with)
      /\ l \in Nat /\ addr \in Nat /\ file \in File
  BY <1>0, ReplaceFileContentSound
<1>4. at \in FileSlots(file_segments) /\ FileAt(file_segments, at) # None
  <2>1. Match(FileTable(file_segments), files)
    BY <1>1 DEF Described
  <2>2. at \in FileSlots(file_segments) /\ FileAt(file_segments, at) = files[id]
    BY <2>1, SlotOfFileFound
  <2>3. files[id] \in File
    BY <1>0, IndexTypes DEF ArchiveInv
  <2> QED
    BY <2>2, <2>3, NoneAssumption
<1>5. ws = <<b, w>>
  BY DEF ReplaceFileContentWrites
<1>6. IsFields(f) /\ Len(f) = l
  BY ChunksAre
<1>7. addr = AddrFor(cov, l)
  BY DEF NewAddr
<1>8. with \in Nat
  BY <1>1, <1>3 DEF SourceLenAfter
<1>9. PartOf(b, addr, f) /\ b.addr = addr /\ b.fields = f
  BY <1>6, WholePart
<1>10. IsFields(EncodeFile(file))
  BY EntryFields
<1>11. Keeps(disk, disk, gs) /\ \A d, nd : Keeps(d, nd, files) => Keeps(d, nd, gs)
  <2>1. DOMAIN gs \subseteq DOMAIN files /\ \A x \in DOMAIN gs : gs[x] = files[x]
    BY DEF Restrict
  <2> QED
    BY <1>1, <2>1, KeepsFewer
<1> HIDE DEF b, w, addr, e, at, segs, cov, l, f, with
<1>12. ASSUME NEW v, PartOf(v, addr, f), NEW nd, nd = WriteTo(disk, v),
              NEW len, len = SourceLenAfter(source_len, addr, Len(v.fields))
       PROVE  /\ OnDevice(nd, file_segments, len) /\ Keeps(disk, nd, gs)
              /\ Wrote(disk, nd, addr, v.fields)
              /\ Outside(file_segments, addr, Len(v.fields))
              /\ Sound(file_segments, dirs, files, next_id, coverage, len)
              /\ Opens(nd, dirs, files)
  <2>1. v.addr = addr /\ IsFields(v.fields) /\ Len(v.fields) \in 0 .. l
    BY <1>6, <1>12 DEF PartOf
  <2>2. Outside(segs, addr, Len(v.fields)) /\ Beside(gs, addr, Len(v.fields))
    BY <1>2, <1>3, <1>7, <2>1, FreeSpace
  <2>3. Outside(file_segments, addr, Len(v.fields))
    BY <1>2, <2>2, OutsideSameShape
  <2>4. Described(segs, dirs, gs)
    BY <1>2 DEF Sound
  <2>5. /\ OnDevice(nd, file_segments, len) /\ Keeps(disk, nd, gs)
        /\ Wrote(disk, nd, addr, v.fields)
        /\ len \in Nat /\ source_len <= len
    BY <1>1, <1>3, <1>11, <1>12, <2>1, <2>2, <2>3, <2>4, DataWritten
  <2>6. Sound(file_segments, dirs, files, next_id, coverage, len)
    BY <1>1, <2>5, SoundLonger
  <2>7. Opens(nd, dirs, files)
    BY <2>5, <2>6 DEF Opens
  <2> QED
    BY <2>3, <2>5, <2>6, <2>7
<1>13. PICK d1 : d1 = WriteTo(disk, b)
  OBVIOUS
<1>14. PICK nd : nd = WriteTo(d1, w)
  OBVIOUS
<1>15. Apply(disk, ws) = nd /\ Remains(disk, ws) = CutOff(disk, b) \cup CutOff(d1, w)
  BY <1>5, <1>13, <1>14, TwoWrites
<1>16. with = SourceLenAfter(source_len, addr, Len(b.fields))
  BY <1>6, <1>9 DEF with
<1>17. /\ OnDevice(d1, file_segments, with) /\ Keeps(disk, d1, gs)
       /\ Wrote(disk, d1, addr, f)
       /\ Outside(file_segments, addr, Len(f))
       /\ Sound(file_segments, dirs, files, next_id, coverage, with)
  BY <1>9, <1>12, <1>13, <1>16
<1>18. Keeps(d1, d1, files)
  BY <1>17, FilesAreThere DEF OnDevice
<1>19. OnDevice(nd, new, with) /\ Keeps(d1, nd, files)
  BY <1>3, <1>4, <1>8, <1>14, <1>17, <1>18, FileWritten DEF w, e, at
<1>20. Keeps(disk, nd, gs)
  BY <1>11, <1>17, <1>19, KeepsTrans
<1>21. Written(d1, addr, f)
  BY <1>17 DEF Wrote
<1>22. Written(nd, addr, f)
  BY <1>1, <1>3, <1>4, <1>6, <1>8, <1>14, <1>17, <1>21, DataBesideEntry DEF w, e
<1>23. e \in Nat
  BY <1>1, <1>4, EntryPlace DEF e
<1>24. ASSUME NEW x \in CutOff(disk, b)
       PROVE  Keeps(disk, x, gs) /\ Opens(x, dirs, files)
  <2>1. PICK u : x = WriteTo(disk, u) /\ PartOf(u, addr, f)
    BY <1>6, CutOffIs DEF b
  <2> QED
    BY <1>12, <2>1
<1>25. ASSUME NEW x \in CutOff(d1, w)
       PROVE  /\ Keeps(disk, x, gs)
              /\ \/ Opens(x, dirs, files)
                 \/ Opens(x, dirs, fs) /\ Written(x, addr, f)
  <2>1. CASE x = nd
    <3>1. Opens(nd, dirs, fs)
      BY <1>3, <1>19 DEF Opens
    <3> QED
      BY <1>20, <1>22, <2>1, <3>1
  <2>2. CASE x # nd
    <3>1. Opens(x, dirs, files) /\ Keeps(d1, x, files)
      BY <1>10, <1>14, <1>17, <1>23, <2>2, NotDone DEF w
    <3> QED
      BY <1>11, <1>17, <3>1, KeepsTrans
  <2> QED
    BY <2>1, <2>2
<1> QED
  BY <1>15, <1>19, <1>20, <1>22, <1>24, <1>25 DEF addr, f, with, l

\* rename_directory.
LEMMA RenameDirWritten ==
  ASSUME DiskInv, NEW id \in DOMAIN dirs, NEW n \in Names,
         NEW at, at = SlotOfDir(file_segments, id),
         NEW new, new = PutDir(file_segments, at, [DirAt(file_segments, at) EXCEPT !.name = n]),
         NEW ws, ws = RenameDirectoryWrites(id, n)
  PROVE  OnDevice(Apply(disk, ws), new, source_len) /\ Keeps(disk, Apply(disk, ws), files)
<1> DEFINE b == Whole(DirEntryAddr(file_segments, at) + 2, <<n>>)
<1>1. /\ Sound(file_segments, dirs, files, next_id, coverage, source_len)
      /\ Described(file_segments, dirs, files) /\ source_len \in Nat
      /\ OnDevice(disk, file_segments, source_len)
      /\ Keeps(disk, disk, files)
  BY DiskInvSound
<1>2. Match(DirTable(file_segments), dirs)
  BY <1>1 DEF Described
<1>3. at \in DirSlots(file_segments) /\ DirAt(file_segments, at) = dirs[id]
  BY <1>2, SlotOfDirFound
<1>4. dirs[id] \in Directory
  BY <1>1, DescribedTypes
<1>5. ws = <<b>>
  BY DEF RenameDirectoryWrites
<1> HIDE DEF b
<1>6. Apply(disk, ws) = WriteTo(disk, b)
  BY <1>5, OneWrite
<1>7. OnDevice(WriteTo(disk, b), new, source_len) /\ Keeps(disk, WriteTo(disk, b), files)
  BY <1>1, <1>3, <1>4, DirNameWritten DEF b
<1> QED
  BY <1>6, <1>7

\* rename_file.
LEMMA RenameFileWritten ==
  ASSUME DiskInv, NEW id \in DOMAIN files, NEW n \in Names,
         NEW at, at = SlotOfFile(file_segments, id),
         NEW new, new = PutFile(file_segments, at, [FileAt(file_segments, at) EXCEPT !.name = n]),
         NEW ws, ws = RenameFileWrites(id, n)
  PROVE  OnDevice(Apply(disk, ws), new, source_len) /\ Keeps(disk, Apply(disk, ws), files)
<1> DEFINE b == Whole(FileEntryAddr(file_segments, at) + 2, <<n>>)
<1>1. /\ Sound(file_segments, dirs, files, next_id, coverage, source_len)
      /\ Described(file_segments, dirs, files) /\ source_len \in Nat
      /\ OnDevice(disk, file_segments, source_len)
      /\ Keeps(disk, disk, files)
  BY DiskInvSound
<1>2. Match(FileTable(file_segments), files)
  BY <1>1 DEF Described
<1>3. at \in FileSlots(file_segments) /\ FileAt(file_segments, at) = files[id]
  BY <1>2, SlotOfFileFound
<1>4. files[id] \in File
  BY <1>1, DescribedTypes
<1>5. ws = <<b>>
  BY DEF RenameFileWrites
<1> HIDE DEF b
<1>6. Apply(disk, ws) = WriteTo(disk, b)
  BY <1>5, OneWrite
<1>7. OnDevice(WriteTo(disk, b), new, source_len) /\ Keeps(disk, WriteTo(disk, b), files)
  BY <1>1, <1>3, <1>4, FileNameWritten DEF b
<1> QED
  BY <1>6, <1>7

\* Zeros, as fields.
LEMMA ZerosAre ==
  ASSUME NEW n \in Nat
  PROVE  IsFields(Zeros(n)) /\ Len(Zeros(n)) = n /\ \A k \in 1 .. n : Zeros(n)[k] = 0
<1>1. PICK f : f = Zeros(n)
  OBVIOUS
<1>2. f = [i \in 1 .. n |-> 0]
  BY <1>1 DEF Zeros
<1>3. Len(f) = n /\ \A k \in 1 .. n : f[k] = 0
  BY <1>2
<1>4. f = [k \in 1 .. n |-> f[k]]
  BY <1>2
<1> QED
  BY <1>1, <1>3, <1>4 DEF IsFields

\* remove_file: the first field decides.
LEMMA RemoveFileWritten ==
  ASSUME DiskInv, NEW id \in DOMAIN files,
         NEW new, new = ClearEntries(file_segments, {}, {id}),
         NEW gs, gs = Restrict(files, DOMAIN files \ {id}),
         NEW ws, ws = RemoveFileWrites(id)
  PROVE  /\ OnDevice(Apply(disk, ws), new, source_len)
         /\ Keeps(disk, Apply(disk, ws), files)
         /\ \A x \in Remains(disk, ws) :
              Keeps(disk, x, files) /\ (Opens(x, dirs, files) \/ Opens(x, dirs, gs))
<1> DEFINE at == SlotOfFile(file_segments, id)
           e  == FileEntryAddr(file_segments, at)
           f  == Zeros(6)
           b  == OneByOne(e, f)
<1>1. /\ Sound(file_segments, dirs, files, next_id, coverage, source_len)
      /\ Described(file_segments, dirs, files)
      /\ file_segments \in Tables /\ source_len \in Nat
      /\ OnDevice(disk, file_segments, source_len)
      /\ Keeps(disk, disk, files)
  BY DiskInvSound
<1>2. Sound(new, dirs, gs, next_id, CoverageToReplace(id), source_len)
  BY ReleasedSound DEF DiskInv
<1>3. at \in FileSlots(file_segments) /\ e \in Nat
  <2>1. Match(FileTable(file_segments), files)
    BY <1>1 DEF Described
  <2>2. at \in FileSlots(file_segments)
    BY <2>1, SlotOfFileFound
  <2> QED
    BY <1>1, <2>2, EntryPlace
<1>4. IsFields(f) /\ Len(f) = 6 /\ \A k \in 1 .. 6 : f[k] = 0
  BY ZerosAre
<1>5. ws = <<b>>
  BY FieldsAssumption DEF RemoveFileWrites
<1>6. PartOf(b, e, f) /\ b.fields = f
  BY <1>4, WholePart
<1> HIDE DEF b, f, e, at
<1>7. Apply(disk, ws) = WriteTo(disk, b) /\ Remains(disk, ws) = CutOff(disk, b)
  BY <1>5, OneWrite
<1>8. ASSUME NEW v, PartOf(v, e, f), Len(v.fields) # 0, NEW nd, nd = WriteTo(disk, v)
      PROVE  OnDevice(nd, new, source_len) /\ Keeps(disk, nd, files)
  <2>1. PICK n, g : n = Len(v.fields) /\ g = v.fields
    OBVIOUS
  <2>2. v.addr = e /\ IsFields(g) /\ n \in 1 .. 6 /\ Len(g) = n /\ \A k \in 1 .. n : g[k] = 0
    <3>1. /\ v.addr = e /\ IsFields(g) /\ Len(g) = n /\ n # 0
          /\ n \in 0 .. Len(f) /\ \A k \in 1 .. n : g[k] = f[k]
      BY <1>8, <2>1, Zenon DEF PartOf
    <3>2. n \in 1 .. 6 /\ \A k \in 1 .. n : k \in 1 .. 6
      BY <1>4, <3>1
    <3> QED
      BY <1>4, <3>1, <3>2, Zenon
  <2>3. /\ at = SlotOfFile(file_segments, id)
        /\ v.addr = FileEntryAddr(file_segments, at) /\ v.fields = g
    BY <2>1, <2>2 DEF e, at
  <2> QED
    BY <1>1, <1>8, <2>2, <2>3, FileZeroed, ZenonT(60)
<1>9. OnDevice(WriteTo(disk, b), new, source_len) /\ Keeps(disk, WriteTo(disk, b), files)
  <2>1. Len(b.fields) # 0
    BY <1>4, <1>6
  <2> QED
    BY <1>6, <1>8, <2>1
<1>10. ASSUME NEW x \in CutOff(disk, b)
       PROVE  Keeps(disk, x, files) /\ (Opens(x, dirs, files) \/ Opens(x, dirs, gs))
  <2>1. PICK v : x = WriteTo(disk, v) /\ PartOf(v, e, f)
    BY <1>4, CutOffIs DEF b
  <2>2. CASE Len(v.fields) = 0
    <3>1. v.addr \in Nat /\ IsFields(v.fields)
      BY <1>3, <2>1 DEF PartOf
    <3>2. OnDevice(x, file_segments, source_len) /\ Keeps(disk, x, files)
      BY <1>1, <2>1, <2>2, <3>1, NothingWritten
    <3> QED
      BY <1>1, <3>2 DEF Opens
  <2>3. CASE Len(v.fields) # 0
    <3>1. OnDevice(x, new, source_len) /\ Keeps(disk, x, files)
      BY <1>8, <2>1, <2>3
    <3> QED
      BY <1>2, <3>1 DEF Opens
  <2> QED
    BY <2>2, <2>3
<1> QED
  BY <1>7, <1>9, <1>10

\* remove_dir, in whole or in part: directories with all that is in them.
LEMMA RemoveDirWritten ==
  ASSUME DiskInv, NEW gone_dirs \in SUBSET DOMAIN dirs, NEW gone_files \in SUBSET DOMAIN files,
         \A d \in gone_dirs : Kids(dirs, d) \subseteq gone_dirs /\ Kids(files, d) \subseteq gone_files,
         NEW nd, nd = ZeroEntries(disk, gone_dirs, gone_files),
         NEW new, new = ClearEntries(file_segments, gone_dirs, gone_files)
  PROVE  /\ OnDevice(nd, new, source_len)
         /\ Keeps(disk, nd, files)
         /\ Opens(nd, Restrict(dirs, DOMAIN dirs \ gone_dirs),
                      Restrict(files, DOMAIN files \ gone_files))
<1> DEFINE segs == file_segments
           ds   == Restrict(dirs, DOMAIN dirs \ gone_dirs)
           fs   == Restrict(files, DOMAIN files \ gone_files)
<1>0. ArchiveInv
  BY DEF DiskInv
<1>1. /\ Sound(segs, dirs, files, next_id, coverage, source_len)
      /\ segs \in Tables /\ Described(segs, dirs, files)
      /\ OnDevice(disk, segs, source_len)
      /\ Keeps(disk, disk, files)
  BY DiskInvSound
<1>2. Holds(disk, segs) /\ DOMAIN disk = 0 .. source_len - 1 /\ NextAddr(segs) = 0
  BY <1>1 DEF OnDevice
<1>3. /\ Holds(nd, new) /\ DOMAIN nd = DOMAIN disk /\ NextAddr(new) = NextAddr(segs)
      /\ SameBesides(disk, nd, segs)
  BY <1>0, <1>2, ZeroEntriesHolds
<1>4. OnDevice(nd, new, source_len)
  BY <1>2, <1>3 DEF OnDevice
<1>5. PICK listing, cov : Removal(gone_dirs, gone_files, new, ds, fs, listing, cov)
  BY DEF Removal
<1> HIDE DEF ds, fs
<1>6. Sound(new, ds, fs, next_id, cov, source_len)
  BY <1>0, <1>5, RemoveItemsSound
<1>7. Opens(nd, ds, fs)
  BY <1>4, <1>6 DEF Opens
<1>8. ASSUME NEW id \in DOMAIN files, NEW k \in 1 .. files[id].content_len,
             NEW a, a = files[id].content_addr + k - 1
      PROVE  a \in DOMAIN disk /\ a \in DOMAIN nd /\ nd[a] = disk[a]
  <2>1. a \in DOMAIN disk
    BY <1>1, <1>8 DEF Keeps
  <2>2. ASSUME NEW q \in Pieces(segs), a \in PieceZone(segs, q)
        PROVE  FALSE
    <3>1. PICK x, l : x = PieceAddr(segs, q) /\ l = PieceLen(q)
      OBVIOUS
    <3>2. /\ SegmentOf(q) \in DOMAIN segs
          /\ x \in Nat /\ l \in {3, 6}
          /\ SegmentAddr(segs, SegmentOf(q)) <= x /\ x + l <= SegmentEnd(segs, SegmentOf(q))
      BY <1>1, <3>1, PieceBounds
    <3>3. Beside(files, x, l)
      BY <1>1, <3>2, FilesBesideSegments
    <3>4. PICK m, n : m = files[id].content_addr /\ n = files[id].content_len
      OBVIOUS
    <3>5. m \in Nat /\ n \in Nat
      BY <1>1, <3>4, FileZone
    <3>6. n > 0 => x + l <= m \/ m + n <= x
      BY <3>3, <3>4 DEF Beside
    <3>7. a \in x .. x + l - 1
      BY <2>2, <3>1 DEF PieceZone
    <3>8. a = m + k - 1 /\ k \in 1 .. n
      BY <1>8, <3>4
    <3> QED
      BY <3>2, <3>5, <3>6, <3>7, <3>8
  <2> QED
    BY <1>3, <2>1, <2>2 DEF SameBesides
<1>9. Keeps(disk, nd, files)
  BY <1>8 DEF Keeps
<1> QED
  BY <1>4, <1>7, <1>9 DEF ds, fs

\* What an archive is created with.
FirstTable == <<EmptySegment(FirstDirsCapacity, FirstFilesCapacity)>>

FirstLen == HEADER_SIZE + EncodedLen(EmptySegment(FirstDirsCapacity, FirstFilesCapacity))

\* One list after another is a list.
LEMMA ConcatIsFields ==
  ASSUME NEW s, IsFields(s), NEW t, IsFields(t), NEW ws, ws = s \o t
  PROVE  IsFields(ws)
<1> DEFINE W == {s[i] : i \in 1 .. Len(s)} \cup {t[i] : i \in 1 .. Len(t)}
<1>1. /\ \A i \in 1 .. Len(s) : s[i] \in W
      /\ \A i \in 1 .. Len(t) : t[i] \in W
  OBVIOUS
<1> HIDE DEF W
<1>2. s \in Seq(W) /\ t \in Seq(W)
  BY <1>1, FieldsAreSeq
<1>3. ws \in Seq(W)
  BY <1>2
<1>4. PICK n \in Nat : n = Len(ws)
  BY <1>3
<1>5. ws \in [1 .. n -> W]
  BY <1>3, <1>4, LenProperties
<1>6. ws = [k \in 1 .. n |-> ws[k]]
  BY <1>5
<1> QED
  BY <1>4, <1>6 DEF IsFields

\* The first segment in numbers.
LEMMA FirstTableIs ==
  /\ FirstDirsCapacity \in Nat \ {0} /\ FirstFilesCapacity \in Nat \ {0}
  /\ HEADER_SIZE \in Nat \ {0}
  /\ Len(FirstTable) = 1 /\ DOMAIN FirstTable = {1}
  /\ FirstTable[1] = EmptySegment(FirstDirsCapacity, FirstFilesCapacity)
  /\ SegmentAddr(FirstTable, 1) = HEADER_SIZE
  /\ NextAddr(FirstTable) = 0
  /\ Len(FirstTable[1].dirs) = FirstDirsCapacity /\ Len(FirstTable[1].files) = FirstFilesCapacity
  /\ FirstLen = HEADER_SIZE + 3 + FirstDirsCapacity * 3 + FirstFilesCapacity * 6
  /\ FirstLen \in Nat
<1> DEFINE first == EmptySegment(FirstDirsCapacity, FirstFilesCapacity)
<1>1. /\ FirstDirsCapacity \in Nat \ {0} /\ FirstFilesCapacity \in Nat \ {0}
      /\ HEADER_SIZE \in Nat \ {0}
  BY Layout
<1>2. /\ first.next_segment_addr = 0
      /\ Len(first.dirs) = FirstDirsCapacity /\ Len(first.files) = FirstFilesCapacity
  BY <1>1 DEF EmptySegment
<1>3. EncodedLen(first) = 3 + FirstDirsCapacity * 3 + FirstFilesCapacity * 6
  BY <1>2, FieldsAssumption DEF EncodedLen
<1>4. FirstTable = <<first>>
  BY DEF FirstTable
<1>5. FirstLen = HEADER_SIZE + EncodedLen(first)
  BY DEF FirstLen
<1> HIDE DEF first
<1>6. Len(FirstTable) = 1 /\ DOMAIN FirstTable = {1} /\ FirstTable[1] = first
  BY <1>4
<1>7. FirstLen = HEADER_SIZE + 3 + FirstDirsCapacity * 3 + FirstFilesCapacity * 6 /\ FirstLen \in Nat
  BY <1>1, <1>3, <1>5
<1>8. NextAddr(FirstTable) = 0
  BY <1>2, <1>6 DEF NextAddr
<1>9. SegmentAddr(FirstTable, 1) = HEADER_SIZE
  BY DEF SegmentAddr
<1> QED
  BY <1>1, <1>2, <1>6, <1>7, <1>8, <1>9 DEF first

\* A new archive on its device.
LEMMA CreatedDiskIs ==
  OnDevice(CreatedDisk, FirstTable, FirstLen)
<1> DEFINE m == FirstDirsCapacity
           n == FirstFilesCapacity
           h == HEADER_SIZE
           g == EncodeSegment(EmptySegment(m, n))
           f == Header \o g
           b == OneByOne(0, f)
<1>0. /\ m \in Nat \ {0} /\ n \in Nat \ {0} /\ h \in Nat \ {0}
      /\ DOMAIN FirstTable = {1} /\ FirstTable[1] = EmptySegment(m, n)
      /\ SegmentAddr(FirstTable, 1) = h /\ NextAddr(FirstTable) = 0
      /\ FirstLen \in Nat
  BY FirstTableIs
<1>1. IsFields(Header) /\ Len(Header) = h
  <2>1. PICK x : x = Header
    OBVIOUS
  <2>2. x = [i \in 1 .. h |-> "header"]
    BY <2>1 DEF Header
  <2>3. Len(x) = h /\ x = [k \in 1 .. h |-> x[k]]
    BY <1>0, <2>2
  <2> QED
    BY <1>0, <2>1, <2>3 DEF IsFields
<1>2. IsFields(g) /\ Len(g) = EncodedLen(EmptySegment(m, n))
  <2>1. EmptyFields(g, m, n)
    BY <1>0, EncodeEmpty
  <2> QED
    BY <2>1 DEF EmptyFields
<1>3. Len(g) \in Nat /\ FirstLen = h + Len(g)
  BY <1>2 DEF FirstLen, IsFields
<1>4. b.addr = 0 /\ b.fields = f
  BY DEF OneByOne
<1>5. CreatedDisk = WriteTo(<<>>, b)
  BY DEF CreatedDisk
<1> HIDE DEF g, h, m, n
<1>6. IsFields(f) /\ Len(f) = h + Len(g) /\ \A k \in 1 .. Len(g) : f[h + k] = g[k]
  <2> HIDE DEF f, b
  <2>1. IsFields(f)
    BY <1>1, <1>2, ConcatIsFields DEF f
  <2>2. Len(f) = Len(Header) + Len(g) /\ \A k \in 1 .. Len(g) : f[Len(Header) + k] = g[k]
    <3>1. PICK s, t, w : s = Header /\ t = g /\ w = f
      OBVIOUS
    <3>2. IsFields(s) /\ IsFields(t) /\ w = s \o t
      BY <1>1, <1>2, <3>1 DEF f
    <3>3. /\ Len(s) \in Nat /\ Len(t) \in Nat
          /\ Len(w) = Len(s) + Len(t) /\ DOMAIN w = 1 .. (Len(s) + Len(t))
          /\ \A i \in 1 .. Len(s) : w[i] = s[i]
          /\ \A i \in 1 .. Len(t) : w[Len(s) + i] = t[i]
      BY ONLY <3>2, ConcatIs
    <3> QED
      BY <3>1, <3>3
  <2> QED
    BY <1>1, <2>1, <2>2
<1> HIDE DEF f, b
<1>7. /\ Wrote(<<>>, CreatedDisk, 0, f)
      /\ DOMAIN CreatedDisk = 0 .. SourceLenAfter(0, 0, Len(f)) - 1
  <2>1. DOMAIN <<>> = 0 .. 0 - 1
    OBVIOUS
  <2> QED
    BY <1>4, <1>5, <1>6, <2>1, WriteEffect
<1>8. SourceLenAfter(0, 0, Len(f)) = FirstLen
  BY <1>0, <1>3, <1>6 DEF SourceLenAfter
<1>9. Written(CreatedDisk, h, g)
  <2> SUFFICES ASSUME NEW k \in 1 .. Len(g)
               PROVE  h + k - 1 \in DOMAIN CreatedDisk /\ CreatedDisk[h + k - 1] = g[k]
    BY DEF Written
  <2>1. h + k \in 1 .. Len(f) /\ 0 + (h + k) - 1 = h + k - 1
    BY <1>0, <1>3, <1>6
  <2>2. \A j \in 1 .. Len(f) : 0 + j - 1 \in DOMAIN CreatedDisk /\ CreatedDisk[0 + j - 1] = f[j]
    BY <1>7 DEF Wrote, Written
  <2> QED
    BY <1>6, <2>1, <2>2
<1>10. FirstTable \in Tables
  <2>1. EmptySegment(m, n) \in FileTableSegment
    BY <1>0, EmptySegmentType
  <2> QED
    BY <2>1 DEF Tables, FirstTable, m, n
<1>11. ASSUME NEW p \in Pieces(FirstTable)
       PROVE  Held(CreatedDisk, FirstTable, p)
  <2>1. SegmentOf(p) = 1
    BY <1>0, <1>10, PieceCases
  <2> QED
    BY <1>0, <1>9, <1>10, <2>1, EmptySegmentHeld DEF g
<1> QED
  BY <1>0, <1>7, <1>8, <1>11 DEF OnDevice, Holds

\* Its table is sound, on a device that ends within it too.
LEMMA FirstTableSound ==
  ASSUME NEW len \in 0 .. FirstLen, NEW none, none = <<>>
  PROVE  \E cov : Sound(FirstTable, none, none, 1, cov, len)
<1> DEFINE first == EmptySegment(FirstDirsCapacity, FirstFilesCapacity)
           z     == Zones(FirstTable)
           cov   == OpenCoverage(FirstTable, FirstLen)
           short == [len |-> len, segments |-> cov.segments]
<1>1. FirstTable = <<first>> /\ FirstLen = HEADER_SIZE + EncodedLen(first)
  BY DEF FirstTable, FirstLen
<1> HIDE DEF first
<1>2. /\ Sound(FirstTable, none, none, 1, cov, FirstLen)
      /\ Placed(z, cov, FirstLen)
      /\ cov.len = FirstLen
      /\ End(z[FirstMark]) = FirstLen /\ z[FirstMark].len > 0
  BY <1>1, CreatedSound DEF first
<1>3. FirstTable \in Tables /\ FirstTable # <<>>
  BY <1>2 DEF Sound, Described
<1>4. FirstMark \in DOMAIN z
  BY <1>3, FirstZone
<1>5. FirstLen \in Nat
  BY FirstTableIs
<1>6. cov = [len |-> FirstLen, segments |-> cov.segments]
  BY <1>2, FitsTypes DEF Sound
<1> HIDE DEF z, cov
<1>7. Short(z, FirstMark, short, len)
  <2>1. Completed(z, FirstMark, short) = cov
    BY <1>2, <1>6 DEF Completed
  <2>2. (IF len < FirstLen THEN FirstLen ELSE len) = FirstLen
    BY <1>5
  <2> QED
    BY <1>2, <1>4, <1>5, <2>1, <2>2 DEF Short
<1>8. Sound(FirstTable, none, none, 1, short, len)
  BY <1>2, <1>7 DEF Sound, Fits, z
<1> QED
  BY <1>8

-----------------------------------------------------------------------------
(* Creation cut off *)

\* Of the first table only the last slot's first field is read last.
LEMMA FirstPieces ==
  ASSUME FirstTable \in Tables, NEW p \in Pieces(FirstTable),
         NEW a, a = FileEntryAddr(FirstTable, <<1, FirstFilesCapacity>>)
  PROVE  /\ a \in Nat /\ PieceAddr(FirstTable, p) \in Nat
         /\ Len(PieceFields(FirstTable, p)) \in Nat
         /\ PieceAddr(FirstTable, p) + Len(PieceFields(FirstTable, p)) <= a + 1
         /\ p[1] = "dir" => PieceAddr(FirstTable, p) + 3 <= a
<1> DEFINE m == FirstDirsCapacity
           n == FirstFilesCapacity
           h == HEADER_SIZE
           x == PieceAddr(FirstTable, p)
           l == Len(PieceFields(FirstTable, p))
<1>1. /\ m \in Nat \ {0} /\ n \in Nat \ {0} /\ h \in Nat \ {0}
      /\ DOMAIN FirstTable = {1} /\ FirstTable[1] = EmptySegment(m, n)
      /\ SegmentAddr(FirstTable, 1) = h
      /\ Len(FirstTable[1].dirs) = m /\ Len(FirstTable[1].files) = n
  BY FirstTableIs
<1>2. a = h + 3 + m * 3 + (n - 1) * 6
  <2>1. FileEntryAddr(FirstTable, <<1, n>>) = h + 3 + m * 3 + (n - 1) * 6
    BY <1>1, FieldsAssumption DEF FileEntryAddr
  <2> QED
    BY <2>1
<1>3. SegmentOf(p) = 1
  BY <1>1, PieceCases
<1>4. PlacedAs(p, 1, x, PieceLen(p), h, m, n)
  BY <1>1, <1>3, PieceAddrs
<1>5. l \in 1 .. PieceLen(p)
  BY PieceFieldsLen
<1>6. x \in Nat /\ PieceLen(p) \in {3, 6}
  BY <1>1, <1>4, PlacingBounds
<1>7. ASSUME NEW j \in 1 .. n, p = <<"file", <<1, j>>>>
      PROVE  l = 1
  <2>1. FileAt(FirstTable, <<1, j>>) = None
    BY <1>1 DEF FileAt, EmptySegment
  <2>2. PieceFields(FirstTable, p) = FileFields(None)
    BY <1>7, <2>1 DEF PieceFields
  <2> QED
    BY <2>2 DEF FileFields
<1> HIDE DEF m, n, h, x, l
<1>8. CASE p = <<"head", 1>> /\ x = h /\ PieceLen(p) = 3
  BY <1>1, <1>2, <1>5, <1>6, <1>8 DEF x, l
<1>9. ASSUME NEW j \in 1 .. m, p = <<"dir", <<1, j>>>>, x = h + 3 + (j - 1) * 3, PieceLen(p) = 3
      PROVE  a \in Nat /\ x + l <= a + 1 /\ x + 3 <= a
  BY <1>1, <1>2, <1>5, <1>6, <1>9
<1>10. ASSUME NEW j \in 1 .. n, p = <<"file", <<1, j>>>>, x = h + 3 + m * 3 + (j - 1) * 6
       PROVE  a \in Nat /\ x + l <= a + 1 /\ p[1] # "dir"
  <2>1. a \in Nat /\ x <= a
    BY <1>1, <1>2, <1>10
  <2>2. l = 1
    BY <1>7, <1>10
  <2> QED
    BY <1>6, <1>10, <2>1, <2>2
<1> QED
  BY <1>4, <1>5, <1>6, <1>8, <1>9, <1>10 DEF PlacedAs, x, l

\* A device that holds a new archive holds nothing else.
LEMMA NewArchiveIs ==
  ASSUME DiskInv, disk = CreatedDisk, NEW none, none = <<>>
  PROVE  /\ file_segments = FirstTable /\ source_len = FirstLen
         /\ dirs = none /\ files = none
         /\ FirstTable \in Tables /\ FirstLen \in Nat
<1>1. FirstLen \in Nat
  BY FirstTableIs
<1>2. FirstLen \in 0 .. FirstLen
  BY <1>1
<1>3. PICK cov : Sound(FirstTable, none, none, 1, cov, FirstLen)
  BY <1>2, FirstTableSound
<1>4. /\ FirstTable \in Tables /\ FirstTable # <<>>
      /\ Match(DirTable(FirstTable), none) /\ Match(FileTable(FirstTable), none)
      /\ Tree(none, none)
      /\ Fits(Zones(FirstTable), FirstMark, cov, FirstLen)
  BY <1>3 DEF Sound, Described
<1>5. OnDevice(disk, FirstTable, FirstLen)
  BY CreatedDiskIs
<1>6. DecodeTable(disk) = FirstTable /\ DeviceLen(disk) = FirstLen
  BY <1>1, <1>4, <1>5, DecodeTableIs
<1>7. /\ file_segments \in Tables /\ file_segments # <<>> /\ source_len \in Nat
      /\ Match(DirTable(file_segments), dirs) /\ Match(FileTable(file_segments), files)
      /\ Tree(dirs, files)
      /\ Fits(Zones(file_segments), FirstMark, coverage, source_len)
      /\ OnDevice(disk, file_segments, source_len)
  BY DiskInvSound DEF Sound, Described
<1>8. DecodeTable(disk) = file_segments /\ DeviceLen(disk) = source_len
  BY <1>7, DecodeTableIs
<1>9. dirs = DirsOf(file_segments) /\ files = FilesOf(file_segments)
  BY <1>7, OpenBuildsIndex
<1>10. none = DirsOf(FirstTable) /\ none = FilesOf(FirstTable)
  BY <1>4, OpenBuildsIndex
<1> QED
  BY <1>1, <1>4, <1>6, <1>8, <1>9, <1>10

\* Cut off behind its last ID, it opens all the same.
LEMMA CreationCutOff ==
  ASSUME DiskInv, disk = CreatedDisk,
         NEW len \in FileEntryAddr(file_segments, <<1, FirstFilesCapacity>>) + 1 .. DeviceLen(disk),
         NEW x, x = [a \in 0 .. len - 1 |-> disk[a]]
  PROVE  Opens(x, dirs, files) /\ Keeps(disk, x, files)
<1>1. PICK none : none = <<>>
  OBVIOUS
<1>2. /\ file_segments = FirstTable /\ source_len = FirstLen
      /\ dirs = none /\ files = none
      /\ FirstTable \in Tables /\ FirstLen \in Nat
  BY <1>1, NewArchiveIs
<1>3. OnDevice(disk, FirstTable, FirstLen)
  BY CreatedDiskIs
<1>4. DOMAIN disk = 0 .. FirstLen - 1 /\ Holds(disk, FirstTable) /\ NextAddr(FirstTable) = 0
  BY <1>3 DEF OnDevice
<1>5. PICK last : last = FileEntryAddr(FirstTable, <<1, FirstFilesCapacity>>)
  OBVIOUS
<1>6. DeviceLen(disk) = FirstLen
  <2>1. Cardinality(0 .. FirstLen - 1) = IF 0 > FirstLen - 1 THEN 0 ELSE (FirstLen - 1) - 0 + 1
    BY <1>2, FS_Interval
  <2> QED
    BY <1>2, <1>4, <2>1 DEF DeviceLen
<1>7. len \in last + 1 .. FirstLen
  BY <1>2, <1>5, <1>6
<1>8. ASSUME NEW p \in Pieces(FirstTable)
      PROVE  /\ last \in Nat
             /\ Held(x, FirstTable, p)
  <2>1. PICK a, f : a = PieceAddr(FirstTable, p) /\ f = PieceFields(FirstTable, p)
    OBVIOUS
  <2>2. /\ last \in Nat /\ a \in Nat /\ Len(f) \in Nat /\ a + Len(f) <= last + 1
        /\ p[1] = "dir" => a + 3 <= last
    BY <1>2, <1>5, <2>1, FirstPieces
  <2>3. Written(disk, a, f)
    BY <1>4, <2>1 DEF Holds, Held
  <2>4. len \in Int /\ last + 1 <= len
    BY <1>2, <1>7, <2>2
  <2>5. ASSUME NEW k \in 1 .. Len(f)
        PROVE  a + k - 1 \in DOMAIN x /\ x[a + k - 1] = f[k]
    <3>1. a + k - 1 \in 0 .. len - 1
      BY <2>2, <2>4
    <3> QED
      BY <2>3, <3>1 DEF Written
  <2>6. Written(x, a, f)
    BY <2>5 DEF Written
  <2>7. p[1] = "dir" => \A k \in 0 .. 2 : a + k \in DOMAIN x
    BY <2>2, <2>4
  <2> QED
    BY <2>1, <2>2, <2>6, <2>7 DEF Held
<1>9. last \in Nat
  <2>1. <<"head", 1>> \in Pieces(FirstTable)
    BY FirstTableIs DEF Pieces
  <2> QED
    BY <1>8, <2>1
<1>10. len \in 0 .. FirstLen
  BY <1>2, <1>7, <1>9
<1>11. OnDevice(x, FirstTable, len)
  BY <1>4, <1>8 DEF OnDevice, Holds
<1>12. PICK cov : Sound(FirstTable, none, none, 1, cov, len)
  BY <1>1, <1>10, FirstTableSound
<1>13. Opens(x, none, none)
  BY <1>11, <1>12 DEF Opens
<1>14. Keeps(disk, x, none)
  BY <1>1 DEF Keeps
<1> QED
  BY <1>2, <1>13, <1>14

\* A new archive.
LEMMA DiskInitKeeps ==
  ASSUME DiskInit
  PROVE  DiskInv
<1>1. Init /\ disk = CreatedDisk
  BY DEF DiskInit
<1>2. ArchiveInv
  BY <1>1, InitKeeps DEF CompleteInv
<1>3. file_segments = FirstTable /\ source_len = FirstLen
  BY <1>1 DEF Init, FirstTable, FirstLen
<1> QED
  BY <1>1, <1>2, <1>3, CreatedDiskIs DEF DiskInv

-----------------------------------------------------------------------------
(* The steps *)

\* What a step can make of the index and of the contents on the device.
Unseen == dirs' = dirs /\ files' = files /\ Keeps(disk, disk', files)

GainsDir(p, n) ==
  /\ NameIsFree(p, n) /\ next_id < MaxId
  /\ dirs' = Extend(dirs, next_id, NewDir(p, n)) /\ files' = files
  /\ Keeps(disk, disk', files)

GainsFile(p, n, c) ==
  /\ NameIsFree(p, n) /\ next_id < MaxId
  /\ dirs' = dirs /\ files' = Extend(files, next_id, NewFile(p, n, c))
  /\ Keeps(disk, disk', files)
  /\ Written(disk', NewFile(p, n, c).content_addr, Chunks[c])

RenamesDir(id, n) ==
  /\ NameIsFree(dirs[id].parent_dir, n)
  /\ dirs' = [dirs EXCEPT ![id].name = n] /\ files' = files
  /\ Keeps(disk, disk', files)

RenamesFile(id, n) ==
  /\ NameIsFree(files[id].parent_dir, n)
  /\ dirs' = dirs /\ files' = [files EXCEPT ![id].name = n]
  /\ Keeps(disk, disk', files)

Replaces(id, c) ==
  /\ dirs' = dirs
  /\ files' = [files EXCEPT ![id] = ReplacedFile(id, c)]
  /\ Keeps(disk, disk', Restrict(files, DOMAIN files \ {id}))
  /\ Written(disk', NewAddr(id, c), Chunks[c])

\* A replacement cut off; the content may be neither the old nor the new one.
Rewrites(id, c) ==
  /\ dirs' = dirs
  /\ Keeps(disk, disk', Restrict(files, DOMAIN files \ {id}))
  /\ \/ files' = files
     \/ /\ files' = [files EXCEPT ![id] = ReplacedFile(id, c)]
        /\ Written(disk', NewAddr(id, c), Chunks[c])

Loses(gone_dirs, gone_files) ==
  /\ dirs'  = Restrict(dirs, DOMAIN dirs \ gone_dirs)
  /\ files' = Restrict(files, DOMAIN files \ gone_files)
  /\ Keeps(disk, disk', files)

\* A crash leaves one of the devices that some of the writes make.
LEMMA CrashIs ==
  ASSUME NEW ws, CrashDuring(ws)
  PROVE  \E x \in Remains(disk, ws) : OpenDisk(x)
BY DEF CrashDuring, Remains

LEMMA CreateDirOnDisk ==
  ASSUME DiskInv, NEW p \in DOMAIN dirs_content, NEW n \in Names, CreateDir(p, n),
         disk' = Apply(disk, CreateDirWrites(p, n))
  PROVE  DiskInv' /\ GainsDir(p, n)
<1>1. /\ NameIsFree(p, n) /\ next_id < MaxId
      /\ file_segments' = PutDir(DirRoom.file_segments, NewDirSlot, NewDir(p, n))
      /\ dirs' = Extend(dirs, next_id, NewDir(p, n)) /\ files' = files
      /\ source_len' = DirRoom.source_len
  BY DEF CreateDir, TakeId
<1>2. ArchiveInv'
  BY CreateDirKeeps DEF DiskInv
<1>3. /\ OnDevice(disk', file_segments', source_len')
      /\ Keeps(disk, disk', files)
  BY <1>1, CreateDirWritten
<1> QED
  BY <1>1, <1>2, <1>3 DEF DiskInv, GainsDir

LEMMA CreateDirCrash ==
  ASSUME DiskInv, NEW p \in DOMAIN dirs_content, NEW n \in Names,
         NameIsFree(p, n), next_id < MaxId, CrashDuring(CreateDirWrites(p, n))
  PROVE  DiskInv' /\ (Unseen \/ GainsDir(p, n))
<1>1. PICK ws, ds, new : /\ ws = CreateDirWrites(p, n)
                         /\ ds = Extend(dirs, next_id, NewDir(p, n))
                         /\ new = PutDir(DirRoom.file_segments, NewDirSlot, NewDir(p, n))
  OBVIOUS
<1>2. PICK x \in Remains(disk, ws) : OpenDisk(x)
  BY <1>1, CrashIs
<1>3. Keeps(disk, x, files) /\ (Opens(x, dirs, files) \/ Opens(x, ds, files))
  BY <1>1, <1>2, CreateDirWritten
<1>4. PICK es : Opens(x, es, files) /\ (es = dirs \/ es = ds)
  BY <1>3
<1>5. DiskInv' /\ dirs' = es /\ files' = files /\ disk' = x
  BY <1>2, <1>4, OpenDiskKeeps
<1> QED
  BY <1>1, <1>3, <1>4, <1>5 DEF Unseen, GainsDir

LEMMA CreateFileOnDisk ==
  ASSUME DiskInv, NEW p \in DOMAIN dirs_content, NEW n \in Names, NEW c \in Contents,
         CreateFile(p, n, c), disk' = Apply(disk, CreateFileWrites(p, n, c))
  PROVE  DiskInv' /\ GainsFile(p, n, c)
<1>1. /\ NameIsFree(p, n) /\ next_id < MaxId
      /\ file_segments' = PutFile(FileRoom.file_segments, NewFileSlot, NewFile(p, n, c))
      /\ files' = Extend(files, next_id, NewFile(p, n, c)) /\ dirs' = dirs
      /\ source_len' = SourceLenWithEntry(c)
  BY DEF CreateFile, TakeId
<1>2. ArchiveInv'
  BY CreateFileKeeps DEF DiskInv
<1>3. PICK ws, file : ws = CreateFileWrites(p, n, c) /\ file = NewFile(p, n, c)
  OBVIOUS
<1>4. /\ OnDevice(disk', file_segments', source_len')
      /\ Keeps(disk, disk', files)
      /\ Written(disk', file.content_addr, Chunks[c])
  BY <1>1, <1>3, CreateFileWritten
<1> QED
  BY <1>1, <1>2, <1>3, <1>4 DEF DiskInv, GainsFile

LEMMA CreateFileCrash ==
  ASSUME DiskInv, NEW p \in DOMAIN dirs_content, NEW n \in Names, NEW c \in Contents,
         NameIsFree(p, n), next_id < MaxId, CrashDuring(CreateFileWrites(p, n, c))
  PROVE  DiskInv' /\ (Unseen \/ GainsFile(p, n, c))
<1>1. PICK ws, file, fs, new :
        /\ ws = CreateFileWrites(p, n, c) /\ file = NewFile(p, n, c)
        /\ fs = Extend(files, next_id, file)
        /\ new = PutFile(FileRoom.file_segments, NewFileSlot, file)
  OBVIOUS
<1>2. PICK x \in Remains(disk, ws) : OpenDisk(x)
  BY <1>1, CrashIs
<1>3. /\ Keeps(disk, x, files)
      /\ \/ Opens(x, dirs, files)
         \/ Opens(x, dirs, fs) /\ Written(x, file.content_addr, Chunks[c])
  BY <1>1, <1>2, CreateFileWritten
<1>4. PICK gs : /\ Opens(x, dirs, gs)
                /\ gs = files \/ (gs = fs /\ Written(x, file.content_addr, Chunks[c]))
  BY <1>3
<1>5. DiskInv' /\ dirs' = dirs /\ files' = gs /\ disk' = x
  BY <1>2, <1>4, OpenDiskKeeps
<1> QED
  BY <1>1, <1>3, <1>4, <1>5 DEF Unseen, GainsFile

LEMMA ReplaceOnDisk ==
  ASSUME DiskInv, NEW id \in DOMAIN files, NEW c \in Contents, ReplaceFileContent(id, c),
         disk' = Apply(disk, ReplaceFileContentWrites(id, c))
  PROVE  DiskInv' /\ Replaces(id, c)
<1>1. PICK ws, file, fs, gs :
        /\ ws = ReplaceFileContentWrites(id, c) /\ file = ReplacedFile(id, c)
        /\ fs = [files EXCEPT ![id] = file] /\ gs = Restrict(files, DOMAIN files \ {id})
  OBVIOUS
<1>2. /\ files' = fs /\ dirs' = dirs
      /\ source_len' = SourceLenAfter(source_len, NewAddr(id, c), ContentLen[c])
      /\ file_segments' = PutFile(file_segments, SlotOfFile(file_segments, id), fs[id])
      /\ fs[id] = file
  BY <1>1 DEF ReplaceFileContent, RewriteContent
<1>3. ArchiveInv'
  BY ReplaceFileContentKeeps DEF DiskInv
<1>4. PICK new : new = PutFile(file_segments, SlotOfFile(file_segments, id), file)
  OBVIOUS
<1>5. /\ OnDevice(Apply(disk, ws), new, SourceLenAfter(source_len, NewAddr(id, c), ContentLen[c]))
      /\ Keeps(disk, Apply(disk, ws), gs)
      /\ Written(Apply(disk, ws), NewAddr(id, c), Chunks[c])
  BY <1>1, <1>4, ReplaceWritten
<1> QED
  BY <1>1, <1>2, <1>3, <1>4, <1>5 DEF DiskInv, Replaces

LEMMA ReplaceCrash ==
  ASSUME DiskInv, NEW id \in DOMAIN files, NEW c \in Contents,
         CrashDuring(ReplaceFileContentWrites(id, c))
  PROVE  DiskInv' /\ Rewrites(id, c)
<1>1. PICK ws, file, fs, gs, new :
        /\ ws = ReplaceFileContentWrites(id, c) /\ file = ReplacedFile(id, c)
        /\ fs = [files EXCEPT ![id] = file] /\ gs = Restrict(files, DOMAIN files \ {id})
        /\ new = PutFile(file_segments, SlotOfFile(file_segments, id), file)
  OBVIOUS
<1>2. PICK x \in Remains(disk, ws) : OpenDisk(x)
  BY <1>1, CrashIs
<1>3. /\ Keeps(disk, x, gs)
      /\ \/ Opens(x, dirs, files)
         \/ Opens(x, dirs, fs) /\ Written(x, NewAddr(id, c), Chunks[c])
  BY <1>1, <1>2, ReplaceWritten
<1>4. PICK hs : /\ Opens(x, dirs, hs)
                /\ hs = files \/ (hs = fs /\ Written(x, NewAddr(id, c), Chunks[c]))
  BY <1>3
<1>5. DiskInv' /\ dirs' = dirs /\ files' = hs /\ disk' = x
  BY <1>2, <1>4, OpenDiskKeeps
<1> QED
  BY <1>1, <1>3, <1>4, <1>5 DEF Rewrites

LEMMA RenameDirOnDisk ==
  ASSUME DiskInv, NEW id \in DOMAIN dirs, NEW n \in Names, RenameDirectory(id, n),
         disk' = Apply(disk, RenameDirectoryWrites(id, n))
  PROVE  DiskInv' /\ RenamesDir(id, n)
<1>1. PICK ws, at, new :
        /\ ws = RenameDirectoryWrites(id, n) /\ at = SlotOfDir(file_segments, id)
        /\ new = PutDir(file_segments, at, [DirAt(file_segments, at) EXCEPT !.name = n])
  OBVIOUS
<1>2. /\ NameIsFree(dirs[id].parent_dir, n)
      /\ dirs' = [dirs EXCEPT ![id].name = n] /\ files' = files
      /\ file_segments' = new /\ source_len' = source_len
  BY <1>1 DEF RenameDirectory
<1>3. ArchiveInv'
  BY RenameDirectoryKeeps DEF DiskInv
<1>4. OnDevice(Apply(disk, ws), new, source_len) /\ Keeps(disk, Apply(disk, ws), files)
  BY <1>1, RenameDirWritten
<1> QED
  BY <1>1, <1>2, <1>3, <1>4 DEF DiskInv, RenamesDir

LEMMA RenameFileOnDisk ==
  ASSUME DiskInv, NEW id \in DOMAIN files, NEW n \in Names, RenameFile(id, n),
         disk' = Apply(disk, RenameFileWrites(id, n))
  PROVE  DiskInv' /\ RenamesFile(id, n)
<1>1. PICK ws, at, new :
        /\ ws = RenameFileWrites(id, n) /\ at = SlotOfFile(file_segments, id)
        /\ new = PutFile(file_segments, at, [FileAt(file_segments, at) EXCEPT !.name = n])
  OBVIOUS
<1>2. /\ NameIsFree(files[id].parent_dir, n)
      /\ files' = [files EXCEPT ![id].name = n] /\ dirs' = dirs
      /\ file_segments' = new /\ source_len' = source_len
  BY <1>1 DEF RenameFile
<1>3. ArchiveInv'
  BY RenameFileKeeps DEF DiskInv
<1>4. OnDevice(Apply(disk, ws), new, source_len) /\ Keeps(disk, Apply(disk, ws), files)
  BY <1>1, RenameFileWritten
<1> QED
  BY <1>1, <1>2, <1>3, <1>4 DEF DiskInv, RenamesFile

\* A function without nothing is the function.
LEMMA RestrictNone ==
  ASSUME DiskInv
  PROVE  Restrict(dirs, DOMAIN dirs \ {}) = dirs /\ Restrict(files, DOMAIN files \ {}) = files
<1>1. Match(DirTable(file_segments), dirs) /\ Match(FileTable(file_segments), files)
  BY DiskInvSound DEF Described
<1>2. dirs = [x \in DOMAIN dirs |-> dirs[x]] /\ files = [x \in DOMAIN files |-> files[x]]
  BY <1>1 DEF Match
<1> QED
  BY <1>2 DEF Restrict

LEMMA RemoveFileOnDisk ==
  ASSUME DiskInv, NEW id \in DOMAIN files, RemoveFile(id),
         disk' = Apply(disk, RemoveFileWrites(id))
  PROVE  DiskInv' /\ Loses({}, {id})
<1>1. PICK ws, new, gs : /\ ws = RemoveFileWrites(id)
                         /\ new = ClearEntries(file_segments, {}, {id})
                         /\ gs = Restrict(files, DOMAIN files \ {id})
  OBVIOUS
<1>2. /\ file_segments' = new /\ source_len' = source_len /\ files' = gs
      /\ dirs' = Restrict(dirs, DOMAIN dirs \ {})
  BY <1>1 DEF RemoveFile, RemoveItems
<1>3. ArchiveInv'
  BY RemoveFileKeeps DEF DiskInv
<1>4. OnDevice(Apply(disk, ws), new, source_len) /\ Keeps(disk, Apply(disk, ws), files)
  BY <1>1, RemoveFileWritten
<1> QED
  BY <1>1, <1>2, <1>3, <1>4 DEF DiskInv, Loses

LEMMA RemoveFileCrash ==
  ASSUME DiskInv, NEW id \in DOMAIN files, CrashDuring(RemoveFileWrites(id))
  PROVE  DiskInv' /\ (Unseen \/ Loses({}, {id}))
<1>1. PICK ws, new, gs : /\ ws = RemoveFileWrites(id)
                         /\ new = ClearEntries(file_segments, {}, {id})
                         /\ gs = Restrict(files, DOMAIN files \ {id})
  OBVIOUS
<1>2. PICK x \in Remains(disk, ws) : OpenDisk(x)
  BY <1>1, CrashIs
<1>3. Keeps(disk, x, files) /\ (Opens(x, dirs, files) \/ Opens(x, dirs, gs))
  BY <1>1, <1>2, RemoveFileWritten
<1>4. PICK hs : Opens(x, dirs, hs) /\ (hs = files \/ hs = gs)
  BY <1>3
<1>5. DiskInv' /\ dirs' = dirs /\ files' = hs /\ disk' = x
  BY <1>2, <1>4, OpenDiskKeeps
<1>6. dirs = Restrict(dirs, DOMAIN dirs \ {})
  BY RestrictNone
<1> QED
  BY <1>1, <1>3, <1>4, <1>5, <1>6 DEF Unseen, Loses

LEMMA RemoveDirOnDisk ==
  ASSUME DiskInv, NEW id \in DOMAIN dirs, RemoveDir(id),
         disk' = ZeroEntries(disk, Subtree(id), FilesUnder(Subtree(id)))
  PROVE  DiskInv' /\ Loses(Subtree(id), FilesUnder(Subtree(id)))
<1>1. PICK ds, fs : ds = Subtree(id) /\ fs = FilesUnder(Subtree(id))
  OBVIOUS
<1>2. IndexInv
  BY DEF DiskInv, ArchiveInv
<1>3. /\ ds \in SUBSET DOMAIN dirs /\ fs \in SUBSET DOMAIN files
      /\ \A d \in ds : Kids(dirs, d) \subseteq ds /\ Kids(files, d) \subseteq fs
  BY <1>1, <1>2, SubtreeClosed
<1>4. PICK new : new = ClearEntries(file_segments, ds, fs)
  OBVIOUS
<1>5. /\ file_segments' = new /\ source_len' = source_len
      /\ dirs' = Restrict(dirs, DOMAIN dirs \ ds) /\ files' = Restrict(files, DOMAIN files \ fs)
  BY <1>1, <1>4 DEF RemoveDir, RemoveItems
<1>6. ArchiveInv'
  BY RemoveDirKeeps DEF DiskInv
<1>7. disk' = ZeroEntries(disk, ds, fs)
  BY <1>1
<1>8. OnDevice(disk', new, source_len) /\ Keeps(disk, disk', files)
  BY <1>3, <1>4, <1>7, RemoveDirWritten
<1> QED
  BY <1>1, <1>5, <1>6, <1>8 DEF DiskInv, Loses

\* Some of what is below a directory goes, or all, each directory after what it
\* contains.
LosesPart(id) ==
  \E gone_dirs \in SUBSET Subtree(id), gone_files \in SUBSET FilesUnder(Subtree(id)) :
    RemovedSoFar(id, gone_dirs, gone_files) /\ Loses(gone_dirs, gone_files)

LEMMA RemoveDirCrash ==
  ASSUME DiskInv, NEW id \in DOMAIN dirs, CrashInRemoveDir(id)
  PROVE  DiskInv' /\ LosesPart(id)
<1>1. PICK ds \in SUBSET Subtree(id) : \E fs \in SUBSET FilesUnder(Subtree(id)) :
        RemovedSoFar(id, ds, fs) /\ OpenDisk(ZeroEntries(disk, ds, fs))
  BY DEF CrashInRemoveDir
<1>2. PICK fs \in SUBSET FilesUnder(Subtree(id)) :
        RemovedSoFar(id, ds, fs) /\ OpenDisk(ZeroEntries(disk, ds, fs))
  BY <1>1
<1>3. IndexInv
  BY DEF DiskInv, ArchiveInv
<1>4. Subtree(id) \subseteq DOMAIN dirs /\ FilesUnder(Subtree(id)) \subseteq DOMAIN files
  BY <1>3, SubtreeClosed
<1>5. ds \in SUBSET DOMAIN dirs /\ fs \in SUBSET DOMAIN files
  BY <1>4
<1>6. ASSUME NEW d \in ds
      PROVE  Kids(dirs, d) \subseteq ds /\ Kids(files, d) \subseteq fs
  <2>1. Subtree(d) \subseteq ds /\ FilesUnder(Subtree(d)) \subseteq fs
    BY <1>2 DEF RemovedSoFar
  <2>2. /\ d \in Subtree(d) /\ Subtree(d) \in SUBSET DOMAIN dirs
        /\ \A e \in Subtree(d) : Kids(dirs, e) \subseteq Subtree(d)
        /\ \A S \in SUBSET DOMAIN dirs : \A e \in S : Kids(files, e) \subseteq FilesUnder(S)
    BY <1>3, <1>5, SubtreeClosed
  <2> QED
    BY <2>1, <2>2
<1>7. PICK nd, new : nd = ZeroEntries(disk, ds, fs) /\ new = ClearEntries(file_segments, ds, fs)
  OBVIOUS
<1>8. PICK es, gs : es = Restrict(dirs, DOMAIN dirs \ ds) /\ gs = Restrict(files, DOMAIN files \ fs)
  OBVIOUS
<1>9. Keeps(disk, nd, files) /\ Opens(nd, es, gs)
  BY <1>5, <1>6, <1>7, <1>8, RemoveDirWritten
<1>10. DiskInv' /\ dirs' = es /\ files' = gs /\ disk' = nd
  BY <1>2, <1>7, <1>9, OpenDiskKeeps
<1>11. Loses(ds, fs)
  BY <1>8, <1>9, <1>10 DEF Loses
<1> QED
  BY <1>2, <1>10, <1>11 DEF LosesPart

LEMMA CreationCrash ==
  ASSUME DiskInv, CrashInCreation
  PROVE  DiskInv' /\ Unseen
<1>1. PICK len \in FileEntryAddr(file_segments, <<1, FirstFilesCapacity>>) + 1 .. DeviceLen(disk) :
        OpenDisk([a \in 0 .. len - 1 |-> disk[a]])
  BY DEF CrashInCreation
<1>2. PICK x : x = [a \in 0 .. len - 1 |-> disk[a]]
  OBVIOUS
<1>3. disk = CreatedDisk
  BY DEF CrashInCreation
<1>4. Opens(x, dirs, files) /\ Keeps(disk, x, files)
  BY <1>2, <1>3, CreationCutOff
<1>5. DiskInv' /\ dirs' = dirs /\ files' = files /\ disk' = x
  BY <1>1, <1>2, <1>4, OpenDiskKeeps
<1> QED
  BY <1>4, <1>5 DEF Unseen

\* What a step makes of what the device shows, when it is not a replacement cut
\* off ...
CleanChange ==
  \/ Unseen
  \/ \E p \in DOMAIN dirs_content, n \in Names : GainsDir(p, n)
  \/ \E p \in DOMAIN dirs_content, n \in Names, c \in Contents : GainsFile(p, n, c)
  \/ \E id \in DOMAIN dirs, n \in Names : RenamesDir(id, n)
  \/ \E id \in DOMAIN files, n \in Names : RenamesFile(id, n)
  \/ \E id \in DOMAIN files, c \in Contents : Replaces(id, c)
  \/ \E id \in DOMAIN files : Loses({}, {id})
  \/ \E id \in DOMAIN dirs : Loses(Subtree(id), FilesUnder(Subtree(id)))
  \/ \E id \in DOMAIN dirs : LosesPart(id)

\* ... and when it is.
ReplacementCutOff(id, c) == CrashDuring(ReplaceFileContentWrites(id, c)) /\ Rewrites(id, c)

Change == CleanChange \/ \E id \in DOMAIN files, c \in Contents : ReplacementCutOff(id, c)

\* Nothing happens.
LEMMA Stutters ==
  ASSUME DiskInv, UNCHANGED disk_vars
  PROVE  DiskInv' /\ Unseen
<1>1. /\ file_segments' = file_segments /\ dirs' = dirs /\ files' = files
      /\ dirs_content' = dirs_content /\ coverage' = coverage /\ next_id' = next_id
      /\ source_len' = source_len /\ disk' = disk
  BY DEF disk_vars, vars
<1>2. ArchiveInv' /\ OnDevice(disk', file_segments', source_len')
  BY <1>1 DEF DiskInv, ArchiveInv, IndexInv, IdsInv, SpaceInv
<1>3. Keeps(disk, disk, files)
  BY DiskInvSound
<1> QED
  BY <1>1, <1>2, <1>3 DEF DiskInv, Unseen

LEMMA OperationOnDisk ==
  ASSUME DiskInv, DiskOperation
  PROVE  DiskInv' /\ CleanChange
<1>1. ASSUME NEW p \in DOMAIN dirs_content, NEW n \in Names,
             CreateDir(p, n), disk' = Apply(disk, CreateDirWrites(p, n))
      PROVE  DiskInv' /\ CleanChange
  BY <1>1, CreateDirOnDisk DEF CleanChange
<1>2. ASSUME NEW p \in DOMAIN dirs_content, NEW n \in Names, NEW c \in Contents,
             CreateFile(p, n, c), disk' = Apply(disk, CreateFileWrites(p, n, c))
      PROVE  DiskInv' /\ CleanChange
  BY <1>2, CreateFileOnDisk DEF CleanChange
<1>3. ASSUME NEW id \in DOMAIN files, NEW c \in Contents,
             ReplaceFileContent(id, c), disk' = Apply(disk, ReplaceFileContentWrites(id, c))
      PROVE  DiskInv' /\ CleanChange
  BY <1>3, ReplaceOnDisk DEF CleanChange
<1>4. ASSUME NEW id \in DOMAIN dirs, NEW n \in Names,
             RenameDirectory(id, n), disk' = Apply(disk, RenameDirectoryWrites(id, n))
      PROVE  DiskInv' /\ CleanChange
  BY <1>4, RenameDirOnDisk DEF CleanChange
<1>5. ASSUME NEW id \in DOMAIN files, NEW n \in Names,
             RenameFile(id, n), disk' = Apply(disk, RenameFileWrites(id, n))
      PROVE  DiskInv' /\ CleanChange
  BY <1>5, RenameFileOnDisk DEF CleanChange
<1>6. ASSUME NEW id \in DOMAIN dirs, RemoveDir(id),
             disk' = ZeroEntries(disk, Subtree(id), FilesUnder(Subtree(id)))
      PROVE  DiskInv' /\ CleanChange
  BY <1>6, RemoveDirOnDisk DEF CleanChange
<1>7. ASSUME NEW id \in DOMAIN files, RemoveFile(id), disk' = Apply(disk, RemoveFileWrites(id))
      PROVE  DiskInv' /\ CleanChange
  BY <1>7, RemoveFileOnDisk DEF CleanChange
<1> QED
  BY <1>1, <1>2, <1>3, <1>4, <1>5, <1>6, <1>7 DEF DiskOperation

LEMMA CrashOnDisk ==
  ASSUME DiskInv, Crash
  PROVE  DiskInv' /\ Change
<1>1. ASSUME NEW p \in DOMAIN dirs_content, NEW n \in Names,
             NameIsFree(p, n), next_id < MaxId, CrashDuring(CreateDirWrites(p, n))
      PROVE  DiskInv' /\ Change
  BY <1>1, CreateDirCrash DEF Change, CleanChange
<1>2. ASSUME NEW p \in DOMAIN dirs_content, NEW n \in Names, NEW c \in Contents,
             NameIsFree(p, n), next_id < MaxId, CrashDuring(CreateFileWrites(p, n, c))
      PROVE  DiskInv' /\ Change
  BY <1>2, CreateFileCrash DEF Change, CleanChange
<1>3. ASSUME NEW id \in DOMAIN files, NEW c \in Contents,
             CrashDuring(ReplaceFileContentWrites(id, c))
      PROVE  DiskInv' /\ Change
  BY <1>3, ReplaceCrash DEF Change, ReplacementCutOff
<1>4. ASSUME NEW id \in DOMAIN files, CrashDuring(RemoveFileWrites(id))
      PROVE  DiskInv' /\ Change
  BY <1>4, RemoveFileCrash DEF Change, CleanChange
<1>5. ASSUME NEW id \in DOMAIN dirs, CrashInRemoveDir(id)
      PROVE  DiskInv' /\ Change
  BY <1>5, RemoveDirCrash DEF Change, CleanChange
<1>6. ASSUME CrashInCreation
      PROVE  DiskInv' /\ Change
  BY <1>6, CreationCrash DEF Change, CleanChange
<1> QED
  BY <1>1, <1>2, <1>3, <1>4, <1>5, <1>6 DEF Crash

LEMMA DiskStep ==
  ASSUME DiskInv, [DiskNext]_disk_vars
  PROVE  DiskInv' /\ Change
<1>1. CASE UNCHANGED disk_vars
  BY <1>1, Stutters DEF Change, CleanChange
<1> QED
  BY <1>1, OperationOnDisk, CrashOnDisk DEF DiskNext, Change

(***************************************************************************)
(* After any history of operations, each of them carried out or cut off by *)
(* a crash between or within its writes, the archive's own invariant holds *)
(* and every piece of its table is on the device where decoding reads it.  *)
(***************************************************************************)
THEOREM DiskInvariant == DiskSpec => []DiskInv
<1>1. DiskInit => DiskInv
  BY DiskInitKeeps
<1>2. DiskInv /\ [DiskNext]_disk_vars => DiskInv'
  BY DiskStep
<1> QED
  BY <1>1, <1>2, PTL DEF DiskSpec

(***************************************************************************)
(* The device decodes to the very table in memory, and is as long as the   *)
(* archive believes, however many operations and crashes came before.      *)
(***************************************************************************)
THEOREM DiskAlwaysHoldsTheTable == DiskSpec => []DiskHoldsTheTable
<1>1. DiskInv => DiskHoldsTheTable
  <2> SUFFICES ASSUME DiskInv PROVE DiskHoldsTheTable
    OBVIOUS
  <2>1. /\ file_segments \in Tables /\ file_segments # <<>> /\ source_len \in Nat
        /\ Fits(Zones(file_segments), FirstMark, coverage, source_len)
        /\ OnDevice(disk, file_segments, source_len)
    BY DiskInvSound DEF Sound
  <2>2. DecodeTable(disk) = file_segments
    BY <2>1, DecodeTableIs
  <2> QED
    BY <2>1, <2>2 DEF DiskHoldsTheTable, OnDevice
<1> QED
  BY <1>1, DiskInvariant, PTL

-----------------------------------------------------------------------------
(***************************************************************************)
(* What the device shows is a file tree.                                   *)
(***************************************************************************)

\* What reading a file gives.
SeenFile(f, d) ==
  [kind |-> "file", parent_dir |-> f.parent_dir, name |-> f.name,
   content |-> IF Intact(d, f) THEN f.sha3_checksum ELSE OnDisk!Damaged]

\* The tree of an index on a device.
SeenAs(ds, fs, d) ==
  [id \in DOMAIN ds \cup DOMAIN fs |->
     IF id \in DOMAIN ds THEN VisibleDir(ds[id]) ELSE SeenFile(fs[id], d)]

ShownInv == DiskInv /\ shown = SeenAs(dirs, files, disk)

\* The device shows the tree of the index it opens with.
LEMMA DeviceShows ==
  ASSUME NEW segs, NEW ds, NEW fs, NEW next, NEW cov, NEW len, Sound(segs, ds, fs, next, cov, len),
         NEW d, len \in Nat, OnDevice(d, segs, len)
  PROVE  TreeOf(DecodeTable(d), d) = SeenAs(ds, fs, d)
<1>1. /\ segs \in Tables /\ segs # <<>> /\ Fits(Zones(segs), FirstMark, cov, len)
      /\ Match(DirTable(segs), ds) /\ Match(FileTable(segs), fs) /\ Tree(ds, fs)
      /\ Described(segs, ds, fs)
  BY DEF Sound, Described
<1>2. DecodeTable(d) = segs
  BY <1>1, DecodeTableIs
<1>3. /\ DirsOf(segs) = ds /\ FilesOf(segs) = fs
      /\ \A e : e \in DirsIn(segs) <=> \E id \in DOMAIN ds : e = ds[id]
      /\ \A e : e \in FilesIn(segs) <=> \E id \in DOMAIN fs : e = fs[id]
  BY <1>1, OpenBuildsIndex
<1>4. /\ \A id \in DOMAIN ds : ds[id].id = id
      /\ \A id \in DOMAIN fs : fs[id].id = id
  BY <1>1, DescribedTypes
<1>5. {x.id : x \in DirsIn(segs) \cup FilesIn(segs)} = DOMAIN ds \cup DOMAIN fs
  BY <1>3, <1>4
<1> DEFINE Item(id) == IF id \in DOMAIN ds THEN VisibleDir(ds[id]) ELSE SeenFile(fs[id], d)
<1>6. TreeOf(segs, d) = [id \in {x.id : x \in DirsIn(segs) \cup FilesIn(segs)} |-> Item(id)]
  BY <1>3, Zenon DEF TreeOf, VisibleDir, SeenFile, OnDisk!Damaged
<1> HIDE DEF Item
<1>7. TreeOf(segs, d) = [id \in DOMAIN ds \cup DOMAIN fs |-> Item(id)]
  BY <1>5, <1>6, Zenon
<1> QED
  BY <1>2, <1>7, Zenon DEF SeenAs, Item

\* The items the device shows, before a step and after it.
LEMMA ItemsBefore ==
  ASSUME ShownInv
  PROVE  /\ ArchiveInv
         /\ shown = [id \in DOMAIN shown |-> shown[id]]
         /\ DOMAIN shown = DOMAIN dirs \cup DOMAIN files
         /\ DOMAIN dirs \cap DOMAIN files = {}
         /\ \A id \in DOMAIN dirs : shown[id] = VisibleDir(dirs[id])
         /\ \A id \in DOMAIN files : shown[id] = SeenFile(files[id], disk)
<1>1. ArchiveInv /\ shown = SeenAs(dirs, files, disk)
  BY DEF ShownInv, DiskInv
<1>2. DOMAIN dirs \cap DOMAIN files = {}
  BY <1>1 DEF ArchiveInv, IdsInv, IdsApart
<1> QED
  BY <1>1, <1>2 DEF SeenAs

LEMMA ItemsAfter ==
  ASSUME ShownInv'
  PROVE  /\ shown' = [id \in DOMAIN shown' |-> shown'[id]]
         /\ DOMAIN shown' = DOMAIN dirs' \cup DOMAIN files'
         /\ DOMAIN dirs' \cap DOMAIN files' = {}
         /\ \A id \in DOMAIN dirs' : shown'[id] = VisibleDir(dirs'[id])
         /\ \A id \in DOMAIN files' : shown'[id] = SeenFile(files'[id], disk')
<1>1. ArchiveInv' /\ shown' = SeenAs(dirs', files', disk')
  BY DEF ShownInv, DiskInv
<1>2. DOMAIN dirs' \cap DOMAIN files' = {}
  BY <1>1 DEF ArchiveInv, IdsInv, IdsApart
<1> QED
  BY <1>1, <1>2 DEF SeenAs

\* The device shows the same directories and files as the index, at the same
\* places.
LEMMA SamePlaces ==
  ASSUME ShownInv
  PROVE  /\ DOMAIN VisibleTree = DOMAIN shown
         /\ OnDisk!DirIds = DOMAIN dirs
         /\ \A d : OnDisk!Children(d) = AsTree!Children(d)
         /\ \A x \in DOMAIN shown : OnDisk!Below(x) = AsTree!Below(x)
         /\ \A p \in {Root} \cup DOMAIN dirs : \A name :
              name \notin dirs_content[p].names => OnDisk!NameIsFree(p, name)
<1>1. /\ DOMAIN VisibleTree = DOMAIN dirs \cup DOMAIN files
      /\ \A id \in DOMAIN dirs  : VisibleTree[id] = VisibleDir(dirs[id])
      /\ \A id \in DOMAIN files : VisibleTree[id] = VisibleFile(files[id])
  BY ItemsBefore, VisibleItems
<1>2. DOMAIN VisibleTree = DOMAIN shown
  BY <1>1, ItemsBefore
<1>3. \A id \in DOMAIN shown : /\ shown[id].parent_dir = VisibleTree[id].parent_dir
                               /\ shown[id].name = VisibleTree[id].name
  BY <1>1, ItemsBefore DEF VisibleDir, VisibleFile, SeenFile
<1>4. OnDisk!DirIds = DOMAIN dirs
  <2>1. /\ \A id \in DOMAIN dirs  : shown[id].kind = "dir"
        /\ \A id \in DOMAIN files : shown[id].kind = "file"
    BY ItemsBefore DEF VisibleDir, SeenFile
  <2> QED
    BY <2>1, ItemsBefore DEF OnDisk!DirIds
<1>5. \A d : OnDisk!Children(d) = AsTree!Children(d)
  BY <1>2, <1>3 DEF OnDisk!Children, AsTree!Children
<1>6. \A x \in DOMAIN shown : OnDisk!Below(x) = AsTree!Below(x)
  BY <1>2, <1>5 DEF OnDisk!Below, AsTree!Below
<1>7. ASSUME NEW p \in {Root} \cup DOMAIN dirs, NEW name, name \notin dirs_content[p].names
      PROVE  OnDisk!NameIsFree(p, name)
  <2>1. \A x \in AsTree!Children(p) : VisibleTree[x].name \in dirs_content[p].names
    BY ItemsBefore, VisibleChildren
  <2>2. \A x \in OnDisk!Children(p) : x \in DOMAIN shown
    BY DEF OnDisk!Children
  <2>3. \A x \in OnDisk!Children(p) : shown[x].name # name
    BY <1>3, <1>5, <1>7, <2>1, <2>2
  <2> QED
    BY <1>4, <2>3 DEF OnDisk!NameIsFree, OnDisk!Root, Root
<1> QED
  BY <1>2, <1>4, <1>5, <1>6, <1>7

\* A content that is kept is as intact as it was ...
LEMMA IntactKept ==
  ASSUME NEW f, f.content_addr \in Nat, f.content_len \in Nat, NEW d, NEW nd,
         \A k \in 1 .. f.content_len :
           LET a == f.content_addr + k - 1
           IN  a \in DOMAIN d /\ a \in DOMAIN nd /\ nd[a] = d[a]
  PROVE  Intact(nd, f) <=> Intact(d, f)
<1>1. PICK x, l : x = f.content_addr /\ l = f.content_len
  OBVIOUS
<1>2. \A k \in 1 .. l : x + k - 1 \in DOMAIN d /\ x + k - 1 \in DOMAIN nd /\ nd[x + k - 1] = d[x + k - 1]
  BY <1>1
<1>3. x \in Nat /\ l \in Nat
  BY <1>1
<1>4. x .. (x + l - 1) \subseteq DOMAIN d /\ x .. (x + l - 1) \subseteq DOMAIN nd
  <2> SUFFICES ASSUME NEW a \in x .. (x + l - 1) PROVE a \in DOMAIN d /\ a \in DOMAIN nd
    OBVIOUS
  <2>1. a - x + 1 \in 1 .. l /\ x + (a - x + 1) - 1 = a
    BY <1>3
  <2> QED
    BY <1>2, <2>1
<1>5. [i \in 1 .. l |-> nd[x + i - 1]] = [i \in 1 .. l |-> d[x + i - 1]]
  BY <1>2
<1> QED
  BY <1>1, <1>4, <1>5, Zenon DEF Intact

\* ... and one that was just written is intact.
LEMMA IntactWritten ==
  ASSUME NEW c \in Contents, NEW f, f.content_addr \in Nat, f.content_len = ContentLen[c],
         f.sha3_checksum = c, NEW d, Written(d, f.content_addr, Chunks[c])
  PROVE  Intact(d, f)
<1>1. PICK x, l, g : x = f.content_addr /\ l = f.content_len /\ g = Chunks[c]
  OBVIOUS
<1>2. x \in Nat /\ l \in Nat /\ Len(g) = l /\ IsFields(g)
  BY <1>1, ChunksAre
<1>3. g = [k \in 1 .. l |-> g[k]]
  BY <1>2 DEF IsFields
<1>4. \A k \in 1 .. l : x + k - 1 \in DOMAIN d /\ d[x + k - 1] = g[k]
  BY <1>1, <1>2 DEF Written
<1>5. x .. (x + l - 1) \subseteq DOMAIN d
  <2> SUFFICES ASSUME NEW a \in x .. (x + l - 1) PROVE a \in DOMAIN d
    OBVIOUS
  <2>1. a - x + 1 \in 1 .. l /\ x + (a - x + 1) - 1 = a
    BY <1>2
  <2> QED
    BY <1>4, <2>1
<1>6. g = [i \in 1 .. l |-> d[x + i - 1]]
  BY <1>3, <1>4
<1> QED
  BY <1>1, <1>5, <1>6 DEF Intact

\* What the device shows of the files it keeps stays.
LEMMA SeenKept ==
  ASSUME DiskInv, NEW fs, DOMAIN fs \subseteq DOMAIN files, \A id \in DOMAIN fs : fs[id] = files[id],
         NEW nd, Keeps(disk, nd, fs)
  PROVE  \A id \in DOMAIN fs : SeenFile(files[id], nd) = SeenFile(files[id], disk)
<1> SUFFICES ASSUME NEW id \in DOMAIN fs
             PROVE  SeenFile(files[id], nd) = SeenFile(files[id], disk)
  OBVIOUS
<1>1. PICK f : f = files[id]
  OBVIOUS
<1>2. f.content_addr \in Nat /\ f.content_len \in Nat
  BY <1>1, DiskInvSound, FileZone
<1>3. \A k \in 1 .. f.content_len :
        LET a == f.content_addr + k - 1
        IN  a \in DOMAIN disk /\ a \in DOMAIN nd /\ nd[a] = disk[a]
  BY <1>1 DEF Keeps
<1>4. Intact(nd, f) <=> Intact(disk, f)
  BY <1>2, <1>3, IntactKept
<1> QED
  BY <1>1, <1>4 DEF SeenFile

\* A step that leaves the index and the contents alone is not seen.
LEMMA UnseenIsUnseen ==
  ASSUME ShownInv, ShownInv', Unseen
  PROVE  shown' = shown
<1>1. dirs' = dirs /\ files' = files /\ Keeps(disk, disk', files)
  BY DEF Unseen
<1>2. \A id \in DOMAIN files : SeenFile(files[id], disk') = SeenFile(files[id], disk)
  BY <1>1, SeenKept DEF ShownInv
<1>3. \A x \in DOMAIN shown : shown'[x] = shown[x]
  BY <1>1, <1>2, ItemsBefore, ItemsAfter
<1>4. DOMAIN shown' = DOMAIN shown
  BY <1>1, ItemsBefore, ItemsAfter
<1> QED
  BY <1>3, <1>4, ItemsBefore, ItemsAfter, SameFunction

\* A new item, of whatever kind.
LEMMA CreateIsShown ==
  ASSUME ShownInv, ShownInv', next_id < MaxId, NEW p \in DOMAIN dirs_content, NEW n, NameIsFree(p, n),
         NEW item, item.parent_dir = p, item.name = n,
         DOMAIN shown' = DOMAIN shown \cup {next_id},
         shown'[next_id] = item,
         \A x \in DOMAIN shown : shown'[x] = shown[x]
  PROVE  next_id \in Ids /\ OnDisk!Create(next_id, item)
<1>1. next_id \in Ids /\ next_id \notin DOMAIN shown
  BY ItemsBefore, NextIdIsFree
<1>2. OnDisk!NameIsFree(item.parent_dir, item.name)
  <2>1. p \in {Root} \cup DOMAIN dirs /\ n \notin dirs_content[p].names
    BY ItemsBefore, IndexTypes DEF ArchiveInv, NameIsFree
  <2> QED
    BY <2>1, SamePlaces
<1> DEFINE new == [x \in DOMAIN shown \cup {next_id} |-> IF x = next_id THEN item ELSE shown[x]]
<1>3. shown' = new
  <2>1. new = [x \in DOMAIN new |-> new[x]] /\ DOMAIN new = DOMAIN shown'
        /\ \A x \in DOMAIN new : new[x] = shown'[x]
    BY <1>1
  <2> HIDE DEF new
  <2> QED
    BY <2>1, ItemsAfter, SameFunction
<1> QED
  BY <1>1, <1>2, <1>3 DEF OnDisk!Create

LEMMA GainsDirIsShown ==
  ASSUME ShownInv, ShownInv', NEW p \in DOMAIN dirs_content, NEW n \in Names, GainsDir(p, n)
  PROVE  OnDisk!Next
<1>1. /\ next_id < MaxId /\ NameIsFree(p, n)
      /\ dirs' = Extend(dirs, next_id, NewDir(p, n)) /\ files' = files
      /\ Keeps(disk, disk', files)
  BY DEF GainsDir
<1>2. next_id \notin DOMAIN dirs /\ next_id \notin DOMAIN files /\ p \in ParentIds
  BY <1>1, ItemsBefore, NextIdIsFree, IndexTypes DEF ArchiveInv
<1> DEFINE item == VisibleDir(NewDir(p, n))
<1>3. item.parent_dir = p /\ item.name = n /\ item \in OnDisk!Dirs
  BY <1>2 DEF VisibleDir, NewDir, OnDisk!Dirs, OnDisk!Root, Root, ParentIds
<1>4. /\ DOMAIN dirs' = DOMAIN dirs \cup {next_id} /\ dirs'[next_id] = NewDir(p, n)
      /\ \A x \in DOMAIN dirs : dirs'[x] = dirs[x]
  BY <1>1, <1>2 DEF Extend
<1>5. \A id \in DOMAIN files : SeenFile(files[id], disk') = SeenFile(files[id], disk)
  BY <1>1, SeenKept DEF ShownInv
<1> HIDE DEF item
<1>6. /\ DOMAIN shown' = DOMAIN shown \cup {next_id}
      /\ shown'[next_id] = item
      /\ \A x \in DOMAIN shown : shown'[x] = shown[x]
  BY <1>1, <1>4, <1>5, ItemsBefore, ItemsAfter DEF item
<1>7. next_id \in Ids /\ OnDisk!Create(next_id, item)
  BY <1>1, <1>3, <1>6, CreateIsShown
<1> QED
  BY <1>3, <1>7 DEF OnDisk!Next

LEMMA GainsFileIsShown ==
  ASSUME ShownInv, ShownInv', NEW p \in DOMAIN dirs_content, NEW n \in Names, NEW c \in Contents,
         GainsFile(p, n, c)
  PROVE  OnDisk!Next
<1>1. PICK file : file = NewFile(p, n, c)
  OBVIOUS
<1>2. /\ next_id < MaxId /\ NameIsFree(p, n)
      /\ files' = Extend(files, next_id, file) /\ dirs' = dirs
      /\ Keeps(disk, disk', files)
      /\ Written(disk', file.content_addr, Chunks[c])
  BY <1>1 DEF GainsFile
<1>3. next_id \notin DOMAIN dirs /\ next_id \notin DOMAIN files /\ p \in ParentIds
  BY <1>2, ItemsBefore, NextIdIsFree, IndexTypes DEF ArchiveInv
<1>4. /\ file.content_addr \in Nat /\ file.content_len = ContentLen[c]
      /\ file.sha3_checksum = c /\ file.parent_dir = p /\ file.name = n
  BY <1>1, ItemsBefore, ContentFits DEF NewFile
<1>5. Intact(disk', file)
  BY <1>2, <1>4, IntactWritten
<1> DEFINE item == SeenFile(file, disk')
<1>6. /\ item.parent_dir = p /\ item.name = n /\ item \in OnDisk!Files
      /\ item.content # OnDisk!Damaged
  BY <1>3, <1>4, <1>5, UndamagedAssumption
  DEF SeenFile, OnDisk!Files, OnDisk!Root, Root, ParentIds, AsTree!Damaged, OnDisk!Damaged
<1>7. /\ DOMAIN files' = DOMAIN files \cup {next_id} /\ files'[next_id] = file
      /\ \A x \in DOMAIN files : files'[x] = files[x]
  BY <1>2, <1>3 DEF Extend
<1>8. \A id \in DOMAIN files : SeenFile(files[id], disk') = SeenFile(files[id], disk)
  BY <1>2, SeenKept DEF ShownInv
<1>9. /\ DOMAIN shown' = DOMAIN shown \cup {next_id}
      /\ shown'[next_id] = item
      /\ \A x \in DOMAIN shown : shown'[x] = shown[x]
  BY <1>2, <1>7, <1>8, ItemsBefore, ItemsAfter
<1> HIDE DEF item
<1>10. next_id \in Ids /\ OnDisk!Create(next_id, item)
  BY <1>2, <1>6, <1>9, CreateIsShown
<1> QED
  BY <1>6, <1>10 DEF OnDisk!Next

\* An item gets another name.
LEMMA RenameIsShown ==
  ASSUME ShownInv, ShownInv', NEW id \in DOMAIN shown, NEW n \in Names,
         OnDisk!NameIsFree(shown[id].parent_dir, n),
         DOMAIN shown' = DOMAIN shown,
         shown'[id] = [shown[id] EXCEPT !.name = n],
         \A x \in DOMAIN shown \ {id} : shown'[x] = shown[x]
  PROVE  OnDisk!Next
<1> DEFINE new == [shown EXCEPT ![id].name = n]
<1>1. /\ new = [x \in DOMAIN new |-> new[x]] /\ DOMAIN new = DOMAIN shown'
      /\ \A x \in DOMAIN new : new[x] = shown'[x]
  OBVIOUS
<1> HIDE DEF new
<1>2. shown' = new
  BY <1>1, ItemsAfter, SameFunction
<1>3. OnDisk!Rename(id, n)
  BY <1>2 DEF OnDisk!Rename, new
<1> QED
  BY <1>3 DEF OnDisk!Next

LEMMA RenamesDirIsShown ==
  ASSUME ShownInv, ShownInv', NEW id \in DOMAIN dirs, NEW n \in Names, RenamesDir(id, n)
  PROVE  OnDisk!Next
<1>1. /\ NameIsFree(dirs[id].parent_dir, n)
      /\ dirs' = [dirs EXCEPT ![id].name = n] /\ files' = files
      /\ Keeps(disk, disk', files)
  BY DEF RenamesDir
<1>2. /\ dirs[id] \in Directory
      /\ dirs[id].parent_dir \in {Root} \cup DOMAIN dirs
      /\ n \notin dirs_content[dirs[id].parent_dir].names
  BY <1>1, ItemsBefore, IndexTypes DEF ArchiveInv, NameIsFree
<1>3. /\ DOMAIN dirs' = DOMAIN dirs /\ \A x \in DOMAIN dirs \ {id} : dirs'[x] = dirs[x]
      /\ dirs'[id].parent_dir = dirs[id].parent_dir /\ dirs'[id].name = n
  BY <1>1, <1>2 DEF Directory
<1>4. VisibleDir(dirs'[id]) = [VisibleDir(dirs[id]) EXCEPT !.name = n]
  BY <1>3 DEF VisibleDir
<1>5. id \in DOMAIN shown /\ shown[id] = VisibleDir(dirs[id])
  BY ItemsBefore
<1>6. OnDisk!NameIsFree(shown[id].parent_dir, n)
  <2>1. shown[id].parent_dir = dirs[id].parent_dir
    BY <1>5 DEF VisibleDir
  <2> QED
    BY <1>2, <2>1, SamePlaces
<1>7. \A x \in DOMAIN files : SeenFile(files[x], disk') = SeenFile(files[x], disk)
  BY <1>1, SeenKept DEF ShownInv
<1>8. /\ DOMAIN shown' = DOMAIN shown
      /\ shown'[id] = VisibleDir(dirs'[id])
      /\ \A x \in DOMAIN shown \ {id} : shown'[x] = shown[x]
  BY <1>1, <1>3, <1>7, ItemsBefore, ItemsAfter
<1> QED
  BY <1>4, <1>5, <1>6, <1>8, RenameIsShown

LEMMA RenamesFileIsShown ==
  ASSUME ShownInv, ShownInv', NEW id \in DOMAIN files, NEW n \in Names, RenamesFile(id, n)
  PROVE  OnDisk!Next
<1>1. /\ NameIsFree(files[id].parent_dir, n)
      /\ files' = [files EXCEPT ![id].name = n] /\ dirs' = dirs
      /\ Keeps(disk, disk', files)
  BY DEF RenamesFile
<1>2. /\ files[id] \in File
      /\ files[id].parent_dir \in {Root} \cup DOMAIN dirs
      /\ n \notin dirs_content[files[id].parent_dir].names
  BY <1>1, ItemsBefore, IndexTypes DEF ArchiveInv, NameIsFree
<1>3. /\ DOMAIN files' = DOMAIN files /\ \A x \in DOMAIN files \ {id} : files'[x] = files[x]
      /\ files'[id] = [files[id] EXCEPT !.name = n]
  BY <1>1
<1>4. \A x \in DOMAIN files : SeenFile(files[x], disk') = SeenFile(files[x], disk)
  BY <1>1, SeenKept DEF ShownInv
<1>5. PICK f, g : f = files[id] /\ g = files'[id]
  OBVIOUS
<1>6. /\ g.name = n /\ g.parent_dir = f.parent_dir /\ g.content_addr = f.content_addr
      /\ g.content_len = f.content_len /\ g.sha3_checksum = f.sha3_checksum
  BY <1>2, <1>3, <1>5 DEF File
<1>7. Intact(disk', g) <=> Intact(disk', f)
  BY <1>6, Zenon DEF Intact
<1>8. SeenFile(g, disk') = [SeenFile(f, disk') EXCEPT !.name = n]
  BY <1>6, <1>7 DEF SeenFile
<1>9. id \in DOMAIN shown /\ shown[id] = SeenFile(f, disk) /\ id \notin DOMAIN dirs
  BY <1>5, ItemsBefore
<1>10. OnDisk!NameIsFree(shown[id].parent_dir, n)
  <2>1. shown[id].parent_dir = files[id].parent_dir
    BY <1>5, <1>9 DEF SeenFile
  <2> QED
    BY <1>2, <2>1, SamePlaces
<1>11. /\ DOMAIN shown' = DOMAIN shown
       /\ shown'[id] = SeenFile(g, disk')
       /\ \A x \in DOMAIN shown \ {id} : shown'[x] = shown[x]
  BY <1>1, <1>3, <1>4, <1>5, ItemsBefore, ItemsAfter
<1>12. shown'[id] = [shown[id] EXCEPT !.name = n]
  BY <1>4, <1>5, <1>8, <1>9, <1>11
<1> QED
  BY <1>9, <1>10, <1>11, <1>12, RenameIsShown

\* File id gets another content; x is what is seen of it.
Changes(id, f, x) ==
  /\ id \in DOMAIN files
  /\ dirs' = dirs
  /\ DOMAIN files' = DOMAIN files /\ \A y \in DOMAIN files \ {id} : files'[y] = files[y]
  /\ f = files'[id] /\ f.parent_dir = files[id].parent_dir /\ f.name = files[id].name
  /\ Keeps(disk, disk', Restrict(files, DOMAIN files \ {id}))
  /\ x = IF Intact(disk', f) THEN f.sha3_checksum ELSE OnDisk!Damaged

\* It does so on the device, and no other file does.
LEMMA ChangesIsShown ==
  ASSUME ShownInv, ShownInv', NEW id, NEW f, NEW x, Changes(id, f, x)
  PROVE  id \in DOMAIN shown /\ OnDisk!SetContent(id, x)
<1>1. PICK gs : gs = Restrict(files, DOMAIN files \ {id})
  OBVIOUS
<1>2. DOMAIN gs = DOMAIN files \ {id} /\ \A y \in DOMAIN gs : gs[y] = files[y]
  BY <1>1 DEF Restrict
<1>3. /\ id \in DOMAIN files /\ dirs' = dirs /\ Keeps(disk, disk', gs)
      /\ DOMAIN files' = DOMAIN files /\ \A y \in DOMAIN files \ {id} : files'[y] = files[y]
      /\ f = files'[id] /\ f.parent_dir = files[id].parent_dir /\ f.name = files[id].name
      /\ x = IF Intact(disk', f) THEN f.sha3_checksum ELSE OnDisk!Damaged
  BY <1>1 DEF Changes
<1>4. \A y \in DOMAIN files \ {id} : SeenFile(files[y], disk') = SeenFile(files[y], disk)
  BY <1>2, <1>3, SeenKept DEF ShownInv
<1>5. SeenFile(f, disk') = [SeenFile(files[id], disk) EXCEPT !.content = x]
  BY <1>3 DEF SeenFile
<1>6. id \in DOMAIN shown /\ shown[id] = SeenFile(files[id], disk)
  BY <1>3, ItemsBefore
<1>7. /\ DOMAIN shown' = DOMAIN shown
      /\ shown'[id] = [shown[id] EXCEPT !.content = x]
      /\ \A y \in DOMAIN shown \ {id} : shown'[y] = shown[y]
  BY <1>3, <1>4, <1>5, <1>6, ItemsBefore, ItemsAfter
<1> DEFINE new == [shown EXCEPT ![id].content = x]
<1>8. /\ new = [y \in DOMAIN new |-> new[y]] /\ DOMAIN new = DOMAIN shown'
      /\ \A y \in DOMAIN new : new[y] = shown'[y]
  BY <1>6, <1>7
<1> HIDE DEF new
<1>9. shown' = new
  BY <1>8, ItemsAfter, SameFunction
<1>10. shown[id].kind = "file"
  BY <1>6 DEF SeenFile
<1> QED
  BY <1>6, <1>9, <1>10 DEF OnDisk!SetContent, new

\* A replacement carried out is seen as such ...
LEMMA ReplacesIsShown ==
  ASSUME ShownInv, ShownInv', NEW id \in DOMAIN files, NEW c \in Contents, Replaces(id, c)
  PROVE  OnDisk!Next
<1>1. PICK f : f = ReplacedFile(id, c)
  OBVIOUS
<1>2. /\ dirs' = dirs /\ files' = [files EXCEPT ![id] = f]
      /\ Keeps(disk, disk', Restrict(files, DOMAIN files \ {id}))
      /\ Written(disk', NewAddr(id, c), Chunks[c])
  BY <1>1 DEF Replaces
<1>3. files[id] \in File
  BY ItemsBefore, IndexTypes DEF ArchiveInv
<1>4. /\ f.parent_dir = files[id].parent_dir /\ f.name = files[id].name
      /\ f.content_addr = NewAddr(id, c) /\ f.content_len = ContentLen[c] /\ f.sha3_checksum = c
  BY <1>1, <1>3 DEF ReplacedFile, File
<1>5. NewAddr(id, c) \in Nat
  BY ItemsBefore, ReplaceFileContentSound
<1>6. Intact(disk', f)
  BY <1>2, <1>4, <1>5, IntactWritten
<1>7. Changes(id, f, c)
  BY <1>2, <1>4, <1>6 DEF Changes
<1>8. id \in DOMAIN shown /\ OnDisk!SetContent(id, c)
  BY <1>7, ChangesIsShown
<1> QED
  BY <1>8 DEF OnDisk!Next

\* ... and one cut off damages that file at most.
LEMMA RewritesIsShown ==
  ASSUME ShownInv, ShownInv', NEW id \in DOMAIN files, NEW c \in Contents, Rewrites(id, c)
  PROVE  OnDisk!Next \/ (id \in DOMAIN shown /\ OnDisk!Damage(id))
<1>1. CASE files' = files
  <2>1. PICK f, x : /\ f = files'[id]
                    /\ x = IF Intact(disk', f) THEN f.sha3_checksum ELSE OnDisk!Damaged
    OBVIOUS
  <2>2. Changes(id, f, x)
    BY <1>1, <2>1 DEF Changes, Rewrites
  <2>3. id \in DOMAIN shown /\ OnDisk!SetContent(id, x)
    BY <2>2, ChangesIsShown
  <2>4. x \in Contents \cup {OnDisk!Damaged}
    BY <1>1, <2>1, ItemsBefore, IndexTypes DEF ArchiveInv, File
  <2> QED
    BY <2>3, <2>4 DEF OnDisk!Next, OnDisk!Damage
<1>2. CASE files' # files
  <2>1. Replaces(id, c)
    BY <1>2 DEF Rewrites, Replaces
  <2> QED
    BY <2>1, ReplacesIsShown
<1> QED
  BY <1>1, <1>2

\* Items that are gone are gone from the tree.
LEMMA LosesIsShown ==
  ASSUME ShownInv, ShownInv', NEW gone_dirs \in SUBSET DOMAIN dirs,
         NEW gone_files \in SUBSET DOMAIN files, Loses(gone_dirs, gone_files)
  PROVE  shown' = OnDisk!Without(gone_dirs \cup gone_files)
<1>1. /\ DOMAIN dirs' = DOMAIN dirs \ gone_dirs /\ \A x \in DOMAIN dirs' : dirs'[x] = dirs[x]
      /\ DOMAIN files' = DOMAIN files \ gone_files /\ \A x \in DOMAIN files' : files'[x] = files[x]
      /\ Keeps(disk, disk', files)
  BY DEF Loses, Restrict
<1>2. \A x \in DOMAIN files : SeenFile(files[x], disk') = SeenFile(files[x], disk)
  BY <1>1, SeenKept DEF ShownInv
<1> DEFINE new == OnDisk!Without(gone_dirs \cup gone_files)
<1>3. /\ new = [x \in DOMAIN new |-> new[x]]
      /\ DOMAIN new = DOMAIN shown \ (gone_dirs \cup gone_files)
      /\ \A x \in DOMAIN new : new[x] = shown[x]
  BY DEF OnDisk!Without
<1> HIDE DEF new
<1>4. DOMAIN new = DOMAIN shown'
  BY <1>1, <1>3, ItemsBefore, ItemsAfter
<1>5. \A x \in DOMAIN new : shown'[x] = new[x]
  BY <1>1, <1>2, <1>3, <1>4, ItemsBefore, ItemsAfter
<1>6. shown' = new
  BY <1>3, <1>4, <1>5, ItemsAfter, SameFunction
<1> QED
  BY <1>6 DEF new

LEMMA LosesFileIsShown ==
  ASSUME ShownInv, ShownInv', NEW id \in DOMAIN files, Loses({}, {id})
  PROVE  OnDisk!Next
<1>1. shown' = OnDisk!Without({} \cup {id})
  BY LosesIsShown
<1>2. OnDisk!Below(id) = {} \cup {id} /\ id \in DOMAIN shown
  BY ItemsBefore, SamePlaces, VisibleBelow
<1>3. OnDisk!Delete(id)
  BY <1>1, <1>2 DEF OnDisk!Delete
<1> QED
  BY <1>2, <1>3 DEF OnDisk!Next

LEMMA LosesDirIsShown ==
  ASSUME ShownInv, ShownInv', NEW id \in DOMAIN dirs, Loses(Subtree(id), FilesUnder(Subtree(id)))
  PROVE  OnDisk!Next
<1>1. PICK ds, fs : ds = Subtree(id) /\ fs = FilesUnder(Subtree(id))
  OBVIOUS
<1>2. ds \in SUBSET DOMAIN dirs /\ fs \in SUBSET DOMAIN files
  BY <1>1, ItemsBefore, SubtreeClosed DEF ArchiveInv
<1>3. OnDisk!Below(id) = ds \cup fs /\ id \in DOMAIN shown
  BY <1>1, ItemsBefore, SamePlaces, VisibleBelow
<1>4. shown' = OnDisk!Without(ds \cup fs)
  BY <1>1, <1>2, LosesIsShown
<1>5. OnDisk!Delete(id)
  BY <1>3, <1>4 DEF OnDisk!Delete
<1> QED
  BY <1>3, <1>5 DEF OnDisk!Next

\* Cut short, the removal has taken directories with all that is in them, the
\* directory itself perhaps.
LEMMA LosesPartIsShown ==
  ASSUME ShownInv, ShownInv', NEW id \in DOMAIN dirs, LosesPart(id)
  PROVE  OnDisk!Next
<1>1. PICK ds \in SUBSET Subtree(id) : \E fs \in SUBSET FilesUnder(Subtree(id)) :
        RemovedSoFar(id, ds, fs) /\ Loses(ds, fs)
  BY DEF LosesPart
<1>2. PICK fs \in SUBSET FilesUnder(Subtree(id)) : RemovedSoFar(id, ds, fs) /\ Loses(ds, fs)
  BY <1>1
<1>3. Subtree(id) \in SUBSET DOMAIN dirs /\ FilesUnder(Subtree(id)) \in SUBSET DOMAIN files
  BY ItemsBefore, SubtreeClosed DEF ArchiveInv
<1>4. \A d \in ds : Subtree(d) \subseteq ds /\ FilesUnder(Subtree(d)) \subseteq fs
  BY <1>2 DEF RemovedSoFar
<1>5. CASE id \in ds
  <2>1. ds = Subtree(id) /\ fs = FilesUnder(Subtree(id))
    BY <1>4, <1>5
  <2> QED
    BY <1>2, <2>1, LosesDirIsShown
<1>6. CASE id \notin ds
  <2>1. ds \in SUBSET DOMAIN dirs /\ fs \in SUBSET DOMAIN files
    BY <1>3
  <2> DEFINE gone == ds \cup fs
  <2>2. shown' = OnDisk!Without(gone)
    BY <1>2, <2>1, LosesIsShown
  <2>3. id \in DOMAIN shown /\ shown[id].kind = "dir"
    BY ItemsBefore DEF VisibleDir
  <2>4. OnDisk!Below(id) = Subtree(id) \cup FilesUnder(Subtree(id))
    BY <2>3, ItemsBefore, SamePlaces, VisibleBelow
  <2>5. gone \in SUBSET (OnDisk!Below(id) \ {id})
    BY <1>3, <1>6, <2>4, ItemsBefore
  <2>6. \A x \in gone : OnDisk!Below(x) \subseteq gone
    <3>1. ASSUME NEW x \in ds PROVE OnDisk!Below(x) \subseteq gone
      BY <1>4, <2>1, ItemsBefore, SamePlaces, VisibleBelow
    <3>2. ASSUME NEW x \in fs PROVE OnDisk!Below(x) \subseteq gone
      BY <2>1, ItemsBefore, SamePlaces, VisibleBelow
    <3> QED
      BY <3>1, <3>2
  <2> HIDE DEF gone
  <2>7. OnDisk!RemovePart(id)
    BY <2>2, <2>3, <2>5, <2>6 DEF OnDisk!RemovePart
  <2> QED
    BY <2>3, <2>7 DEF OnDisk!Next
<1> QED
  BY <1>5, <1>6

\* Every step of the device is one of the tree ...
LEMMA CleanChangeIsShown ==
  ASSUME ShownInv, ShownInv', CleanChange
  PROVE  [OnDisk!Next]_shown
<1>1. CASE Unseen
  BY <1>1, UnseenIsUnseen
<1>2. ASSUME NEW p \in DOMAIN dirs_content, NEW n \in Names, GainsDir(p, n)
      PROVE  OnDisk!Next
  BY <1>2, GainsDirIsShown
<1>3. ASSUME NEW p \in DOMAIN dirs_content, NEW n \in Names, NEW c \in Contents, GainsFile(p, n, c)
      PROVE  OnDisk!Next
  BY <1>3, GainsFileIsShown
<1>4. ASSUME NEW id \in DOMAIN dirs, NEW n \in Names, RenamesDir(id, n)
      PROVE  OnDisk!Next
  BY <1>4, RenamesDirIsShown
<1>5. ASSUME NEW id \in DOMAIN files, NEW n \in Names, RenamesFile(id, n)
      PROVE  OnDisk!Next
  BY <1>5, RenamesFileIsShown
<1>6. ASSUME NEW id \in DOMAIN files, NEW c \in Contents, Replaces(id, c)
      PROVE  OnDisk!Next
  BY <1>6, ReplacesIsShown
<1>7. ASSUME NEW id \in DOMAIN files, Loses({}, {id})
      PROVE  OnDisk!Next
  BY <1>7, LosesFileIsShown
<1>8. ASSUME NEW id \in DOMAIN dirs, Loses(Subtree(id), FilesUnder(Subtree(id)))
      PROVE  OnDisk!Next
  BY <1>8, LosesDirIsShown
<1>9. ASSUME NEW id \in DOMAIN dirs, LosesPart(id)
      PROVE  OnDisk!Next
  BY <1>9, LosesPartIsShown
<1> QED
  BY <1>1, <1>2, <1>3, <1>4, <1>5, <1>6, <1>7, <1>8, <1>9 DEF CleanChange

\* ... or damages the file that was being replaced.
ReplacementDamages ==
  \E id \in DOMAIN files, c \in Contents :
    /\ CrashDuring(ReplaceFileContentWrites(id, c))
    /\ OnDisk!Damage(id)

LEMMA ChangeIsShown ==
  ASSUME ShownInv, ShownInv', Change
  PROVE  /\ [OnDisk!Next \/ ReplacementDamages]_shown
         /\ [OnDisk!NextWithCrashes]_shown
<1>1. CASE CleanChange
  BY <1>1, CleanChangeIsShown DEF OnDisk!NextWithCrashes
<1>2. ASSUME NEW id \in DOMAIN files, NEW c \in Contents, ReplacementCutOff(id, c)
      PROVE  /\ OnDisk!Next \/ ReplacementDamages
             /\ OnDisk!NextWithCrashes
  <2>1. CrashDuring(ReplaceFileContentWrites(id, c)) /\ Rewrites(id, c)
    BY <1>2 DEF ReplacementCutOff
  <2>2. OnDisk!Next \/ (id \in DOMAIN shown /\ OnDisk!Damage(id))
    BY <2>1, RewritesIsShown
  <2> QED
    BY <2>1, <2>2 DEF OnDisk!NextWithCrashes, ReplacementDamages
<1> QED
  BY <1>1, <1>2 DEF Change

\* The device, opened and read.
LEMMA ShownInitKeeps ==
  ASSUME ShownInit
  PROVE  ShownInv /\ OnDisk!Init
<1>1. DiskInv
  BY DiskInitKeeps DEF ShownInit
<1>2. shown = SeenAs(dirs, files, disk)
  BY <1>1, DiskInvSound, DeviceShows DEF ShownInit
<1>3. dirs = <<>> /\ files = <<>>
  BY DEF ShownInit, DiskInit, Init
<1>4. shown = <<>>
  BY <1>2, <1>3 DEF SeenAs
<1> QED
  BY <1>1, <1>2, <1>4 DEF ShownInv, OnDisk!Init

LEMMA ShownStep ==
  ASSUME ShownInv, [ShownNext]_<<disk_vars, shown>>
  PROVE  /\ ShownInv'
         /\ [OnDisk!Next \/ ReplacementDamages]_shown
         /\ [OnDisk!NextWithCrashes]_shown
<1>1. CASE UNCHANGED <<disk_vars, shown>>
  <2>1. DiskInv'
    BY <1>1, Stutters DEF ShownInv
  <2>2. shown' = shown /\ dirs' = dirs /\ files' = files /\ disk' = disk
    BY <1>1 DEF disk_vars, vars
  <2> QED
    BY <2>1, <2>2 DEF ShownInv
<1>2. CASE ShownNext
  <2>1. DiskInv' /\ Change
    BY <1>2, DiskStep DEF ShownNext, ShownInv
  <2>2. shown' = TreeOf(DecodeTable(disk'), disk')
    BY <1>2 DEF ShownNext
  <2>3. /\ Sound(file_segments', dirs', files', next_id', coverage', source_len')
        /\ OnDevice(disk', file_segments', source_len')
    BY <2>1 DEF DiskInv, ArchiveInv, IndexInv, IdsInv, SpaceInv, Sound
  <2>4. source_len' \in Nat
    BY <2>3, FitsTypes DEF Sound
  <2>5. shown' = SeenAs(dirs', files', disk')
    BY <2>2, <2>3, <2>4, DeviceShows
  <2>6. ShownInv'
    BY <2>1, <2>5 DEF ShownInv
  <2> QED
    BY <2>1, <2>6, ChangeIsShown
<1> QED
  BY <1>1, <1>2

(***************************************************************************)
(* An archive on a device that crashes at any moment implements a file     *)
(* tree: wherever an operation is cut off, inside a segment, a content or  *)
(* zeros, between two writes or two removals, what one reads after opening *)
(* the device again is the tree before the operation or after it, or, when *)
(* a directory was being removed, the tree without some whole subtrees of  *)
(* it, or, when a content was being replaced, the tree with it damaged.    *)
(***************************************************************************)
THEOREM DiskIsAFileTree == ShownSpec => DiskImplementsFileTree
<1>1. ShownInit => ShownInv /\ OnDisk!Init
  BY ShownInitKeeps
<1>2. ShownInv /\ [ShownNext]_<<disk_vars, shown>> => ShownInv' /\ [OnDisk!NextWithCrashes]_shown
  BY ShownStep
<1> QED
  BY <1>1, <1>2, PTL DEF ShownSpec, DiskImplementsFileTree, OnDisk!SpecWithCrashes

(***************************************************************************)
(* No content is damaged but by a crash while that very file is being      *)
(* replaced: neither by an operation carried out, whatever it writes where *)
(* there was free space, nor by a crash in any other one.                  *)
(***************************************************************************)
THEOREM OnlyReplacingDamages == ShownSpec => [][OnDisk!Next \/ ReplacementDamages]_shown
<1>1. ShownInit => ShownInv
  BY ShownInitKeeps
<1>2. /\ ShownInv /\ [ShownNext]_<<disk_vars, shown>>
        => ShownInv' /\ [OnDisk!Next \/ ReplacementDamages]_shown
  BY ShownStep
<1> QED
  BY <1>1, <1>2, PTL DEF ShownSpec

\* All that holds of the archive and its device holds while it is read as well.
THEOREM ShownIsDisk == ShownSpec => DiskSpec
<1>1. ShownInit => DiskInit
  BY DEF ShownInit
<1>2. [ShownNext]_<<disk_vars, shown>> => [DiskNext]_disk_vars
  BY DEF ShownNext
<1> QED
  BY <1>1, <1>2, PTL DEF ShownSpec, DiskSpec

=============================================================================
