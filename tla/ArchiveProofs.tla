--------------------------- MODULE ArchiveProofs ----------------------------
(***************************************************************************)
(* The archive is sound after every operation and every I/O error of Next, *)
(* whatever the capacities, sizes, names and contents, and implements a    *)
(* file tree.                                                              *)
(*                                                                         *)
(* First come the two things every operation keeps in step.  The file      *)
(* table, slot by slot: it is seen as two functions from slots to entries, *)
(* and the addresses and lengths of its segments.  Then the index against  *)
(* it, as pure functions: t is a table seen as a function from slots to    *)
(* entries, m the map the code keeps beside it (dirs or files), and ds, fs *)
(* the two maps together.                                                  *)
(***************************************************************************)
EXTENDS ArchiveTree, CoverageProofs

Tables == Seq(FileTableSegment)

UsedDirSlots(segs)  == DirSlots(segs)  \ FreeDirSlots(segs)
UsedFileSlots(segs) == FileSlots(segs) \ FreeFileSlots(segs)

\* Two segments with as many slots.
SameSlots(old, new) == Len(new.dirs) = Len(old.dirs) /\ Len(new.files) = Len(old.files)

\* Two tables with the same segments in the same places.
SameShape(old, new) ==
  /\ DOMAIN new = DOMAIN old
  /\ DirSlots(new) = DirSlots(old)
  /\ FileSlots(new) = FileSlots(old)
  /\ \A i \in DOMAIN old : /\ SegmentAddr(new, i) = SegmentAddr(old, i)
                           /\ EncodedLen(new[i]) = EncodedLen(old[i])
                           /\ SameSlots(old[i], new[i])
                           /\ new[i].next_segment_addr = old[i].next_segment_addr

-----------------------------------------------------------------------------
\* A function on 1 .. n whose values are segments is a table.
LEMMA TableFromFunction ==
  ASSUME NEW n \in Nat, NEW f, f = [k \in 1 .. n |-> f[k]],
         \A k \in 1 .. n : f[k] \in FileTableSegment
  PROVE  f \in Tables /\ Len(f) = n
<1>1. f \in [1 .. n -> FileTableSegment]
  OBVIOUS
<1> QED
  BY <1>1 DEF Tables

\* A slot is a pair of a segment and a place in it.
LEMMA DirSlotPair ==
  ASSUME NEW segs, NEW at
  PROVE  at \in DirSlots(segs) <=>
           \E i \in DOMAIN segs : \E j \in DOMAIN segs[i].dirs : at = <<i, j>>
BY DEF DirSlots

\* A file slot is a place in some segment.
LEMMA FileSlotPair ==
  ASSUME NEW segs, NEW at
  PROVE  at \in FileSlots(segs) <=>
           \E i \in DOMAIN segs : \E j \in DOMAIN segs[i].files : at = <<i, j>>
BY DEF FileSlots

\* What the slots of a table hold.
LEMMA SlotTypes ==
  ASSUME NEW segs \in Tables
  PROVE  /\ \A at \in DirSlots(segs)  : DirAt(segs, at)  \in Directory \cup {None}
         /\ \A at \in FileSlots(segs) : FileAt(segs, at) \in File \cup {None}
         /\ \A at \in UsedDirSlots(segs)  : DirAt(segs, at)  \in Directory
         /\ \A at \in UsedFileSlots(segs) : FileAt(segs, at) \in File
<1>1. \A i \in DOMAIN segs : segs[i] \in FileTableSegment
  BY DEF Tables
<1>2. \A i \in DOMAIN segs :
        /\ \A j \in DOMAIN segs[i].dirs  : segs[i].dirs[j]  \in Directory \cup {None}
        /\ \A j \in DOMAIN segs[i].files : segs[i].files[j] \in File \cup {None}
  BY <1>1 DEF FileTableSegment
<1>3. \A at \in DirSlots(segs) : DirAt(segs, at) \in Directory \cup {None}
  BY <1>2, DirSlotPair DEF DirAt
<1>4. \A at \in FileSlots(segs) : FileAt(segs, at) \in File \cup {None}
  BY <1>2, FileSlotPair DEF FileAt
<1> QED
  BY <1>3, <1>4 DEF UsedDirSlots, UsedFileSlots, FreeDirSlots, FreeFileSlots

\* Slots depend on the number of segments and on their capacities only.
LEMMA SameDirSlots ==
  ASSUME NEW old, NEW new, DOMAIN new = DOMAIN old,
         \A k \in DOMAIN old : DOMAIN new[k].dirs = DOMAIN old[k].dirs
  PROVE  DirSlots(new) = DirSlots(old)
BY DEF DirSlots

\* ... and so are file slots.
LEMMA SameFileSlots ==
  ASSUME NEW old, NEW new, DOMAIN new = DOMAIN old,
         \A k \in DOMAIN old : DOMAIN new[k].files = DOMAIN old[k].files
  PROVE  FileSlots(new) = FileSlots(old)
BY DEF FileSlots

\* One entry of one segment overwritten.
LEMMA PutInDirs ==
  ASSUME NEW s \in FileTableSegment, NEW j \in DOMAIN s.dirs, NEW dir \in Directory,
         NEW new,
         new = [next_segment_addr |-> s.next_segment_addr,
                dirs |-> [s.dirs EXCEPT ![j] = dir], files |-> s.files]
  PROVE  /\ new \in FileTableSegment
         /\ new.next_segment_addr = s.next_segment_addr
         /\ new.files = s.files
         /\ new.dirs = [s.dirs EXCEPT ![j] = dir]
         /\ Len(new.dirs) = Len(s.dirs)
<1>1. /\ s.dirs \in Seq(Directory \cup {None}) /\ s.files \in Seq(File \cup {None})
      /\ s.next_segment_addr \in Nat
  BY DEF FileTableSegment
<1>2. /\ [s.dirs EXCEPT ![j] = dir] \in Seq(Directory \cup {None})
      /\ Len([s.dirs EXCEPT ![j] = dir]) = Len(s.dirs)
  BY <1>1
<1>3. new.files = s.files /\ new.dirs = [s.dirs EXCEPT ![j] = dir]
  BY DEF FileTableSegment
<1>4. new \in FileTableSegment /\ new.next_segment_addr = s.next_segment_addr
  BY <1>1, <1>2 DEF FileTableSegment
<1> QED
  BY <1>2, <1>3, <1>4

\* An entry put in a file slot of a segment leaves the rest of it alone.
LEMMA PutInFiles ==
  ASSUME NEW s \in FileTableSegment, NEW j \in DOMAIN s.files, NEW file \in File,
         NEW new,
         new = [next_segment_addr |-> s.next_segment_addr,
                dirs |-> s.dirs, files |-> [s.files EXCEPT ![j] = file]]
  PROVE  /\ new \in FileTableSegment
         /\ new.next_segment_addr = s.next_segment_addr
         /\ new.dirs = s.dirs
         /\ new.files = [s.files EXCEPT ![j] = file]
         /\ Len(new.files) = Len(s.files)
<1>1. /\ s.dirs \in Seq(Directory \cup {None}) /\ s.files \in Seq(File \cup {None})
      /\ s.next_segment_addr \in Nat
  BY DEF FileTableSegment
<1>2. /\ [s.files EXCEPT ![j] = file] \in Seq(File \cup {None})
      /\ Len([s.files EXCEPT ![j] = file]) = Len(s.files)
  BY <1>1
<1>3. new.dirs = s.dirs /\ new.files = [s.files EXCEPT ![j] = file]
  BY DEF FileTableSegment
<1>4. new \in FileTableSegment /\ new.next_segment_addr = s.next_segment_addr
  BY <1>1, <1>2 DEF FileTableSegment
<1> QED
  BY <1>2, <1>3, <1>4

\* Writing a directory's entry changes that slot and nothing else.
LEMMA PutDirEffect ==
  ASSUME NEW segs \in Tables, NEW at \in DirSlots(segs), NEW dir \in Directory
  PROVE  LET new == PutDir(segs, at, dir)
         IN  /\ new \in Tables
             /\ SameShape(segs, new)
             /\ \A x \in DirSlots(segs) :
                  DirAt(new, x) = IF x = at THEN dir ELSE DirAt(segs, x)
             /\ \A x \in FileSlots(segs) : FileAt(new, x) = FileAt(segs, x)
<1> DEFINE new == PutDir(segs, at, dir)
<1>1. PICK i \in DOMAIN segs : \E j \in DOMAIN segs[i].dirs : at = <<i, j>>
  BY DirSlotPair
<1>2. PICK j \in DOMAIN segs[i].dirs : at = <<i, j>>
  BY <1>1
<1>3. new = [segs EXCEPT ![i].dirs[j] = dir]
  BY <1>2 DEF PutDir
<1>4. \A k \in DOMAIN segs : segs[k] \in FileTableSegment
  BY DEF Tables
<1> HIDE DEF new
<1>5. DOMAIN new = DOMAIN segs /\ DOMAIN segs = 1 .. Len(segs)
  BY <1>3 DEF Tables
<1>6. \A k \in DOMAIN segs : k # i => new[k] = segs[k]
  BY <1>3
<1>7. new[i] = [next_segment_addr |-> segs[i].next_segment_addr,
                dirs |-> [segs[i].dirs EXCEPT ![j] = dir], files |-> segs[i].files]
  <2>1. new[i] = [segs[i] EXCEPT !.dirs[j] = dir]
    BY <1>3
  <2>2. segs[i] \in FileTableSegment
    BY <1>4
  <2> QED
    BY <2>1, <2>2 DEF FileTableSegment
<1>8. /\ new[i] \in FileTableSegment
      /\ new[i].next_segment_addr = segs[i].next_segment_addr
      /\ new[i].files = segs[i].files
      /\ new[i].dirs = [segs[i].dirs EXCEPT ![j] = dir]
      /\ Len(new[i].dirs) = Len(segs[i].dirs)
  BY <1>4, <1>7, PutInDirs
<1>9. \A k \in DOMAIN segs : /\ DOMAIN new[k].dirs = DOMAIN segs[k].dirs
                             /\ Len(new[k].dirs) = Len(segs[k].dirs)
                             /\ new[k].files = segs[k].files
                             /\ new[k].next_segment_addr = segs[k].next_segment_addr
  BY <1>6, <1>8
<1>10. new \in Tables
  <2>1. \A k \in 1 .. Len(segs) : new[k] \in FileTableSegment
    BY <1>4, <1>5, <1>6, <1>8
  <2>2. new = [k \in 1 .. Len(segs) |-> new[k]]
    BY <1>3, <1>5
  <2>3. Len(segs) \in Nat
    BY DEF Tables
  <2> QED
    BY <2>1, <2>2, <2>3, TableFromFunction
<1>11. DirSlots(new) = DirSlots(segs)
  BY <1>5, <1>9, SameDirSlots
<1>12. FileSlots(new) = FileSlots(segs)
  BY <1>5, <1>9, SameFileSlots
<1>13. \A k \in DOMAIN segs : /\ SegmentAddr(new, k) = SegmentAddr(segs, k)
                              /\ EncodedLen(new[k]) = EncodedLen(segs[k])
  BY <1>5, <1>9 DEF SegmentAddr, EncodedLen
<1>14. \A x \in DirSlots(segs) : DirAt(new, x) = IF x = at THEN dir ELSE DirAt(segs, x)
  <2> TAKE x \in DirSlots(segs)
  <2>1. PICK k \in DOMAIN segs : \E m \in DOMAIN segs[k].dirs : x = <<k, m>>
    BY DirSlotPair
  <2>2. PICK m \in DOMAIN segs[k].dirs : x = <<k, m>>
    BY <2>1
  <2>3. CASE k = i
    BY <1>2, <1>8, <2>2, <2>3 DEF DirAt
  <2>4. CASE k # i
    BY <1>2, <1>6, <2>2, <2>4 DEF DirAt
  <2> QED
    BY <2>3, <2>4
<1>15. \A x \in FileSlots(segs) : FileAt(new, x) = FileAt(segs, x)
  <2> TAKE x \in FileSlots(segs)
  <2>1. PICK k \in DOMAIN segs : \E m \in DOMAIN segs[k].files : x = <<k, m>>
    BY FileSlotPair
  <2> QED
    BY <1>9, <2>1 DEF FileAt
<1> QED
  BY <1>5, <1>9, <1>10, <1>11, <1>12, <1>13, <1>14, <1>15 DEF SameShape, SameSlots, new

\* Writing a file's entry changes that slot and nothing else.
LEMMA PutFileEffect ==
  ASSUME NEW segs \in Tables, NEW at \in FileSlots(segs), NEW file \in File
  PROVE  LET new == PutFile(segs, at, file)
         IN  /\ new \in Tables
             /\ SameShape(segs, new)
             /\ \A x \in FileSlots(segs) :
                  FileAt(new, x) = IF x = at THEN file ELSE FileAt(segs, x)
             /\ \A x \in DirSlots(segs) : DirAt(new, x) = DirAt(segs, x)
<1> DEFINE new == PutFile(segs, at, file)
<1>1. PICK i \in DOMAIN segs : \E j \in DOMAIN segs[i].files : at = <<i, j>>
  BY FileSlotPair
<1>2. PICK j \in DOMAIN segs[i].files : at = <<i, j>>
  BY <1>1
<1>3. new = [segs EXCEPT ![i].files[j] = file]
  BY <1>2 DEF PutFile
<1>4. \A k \in DOMAIN segs : segs[k] \in FileTableSegment
  BY DEF Tables
<1> HIDE DEF new
<1>5. DOMAIN new = DOMAIN segs /\ DOMAIN segs = 1 .. Len(segs)
  BY <1>3 DEF Tables
<1>6. \A k \in DOMAIN segs : k # i => new[k] = segs[k]
  BY <1>3
<1>7. new[i] = [next_segment_addr |-> segs[i].next_segment_addr,
                dirs |-> segs[i].dirs, files |-> [segs[i].files EXCEPT ![j] = file]]
  <2>1. new[i] = [segs[i] EXCEPT !.files[j] = file]
    BY <1>3
  <2>2. segs[i] \in FileTableSegment
    BY <1>4
  <2> QED
    BY <2>1, <2>2 DEF FileTableSegment
<1>8. /\ new[i] \in FileTableSegment
      /\ new[i].next_segment_addr = segs[i].next_segment_addr
      /\ new[i].dirs = segs[i].dirs
      /\ new[i].files = [segs[i].files EXCEPT ![j] = file]
      /\ Len(new[i].files) = Len(segs[i].files)
  BY <1>4, <1>7, PutInFiles
<1>9. \A k \in DOMAIN segs : /\ DOMAIN new[k].files = DOMAIN segs[k].files
                             /\ Len(new[k].files) = Len(segs[k].files)
                             /\ new[k].dirs = segs[k].dirs
                             /\ new[k].next_segment_addr = segs[k].next_segment_addr
  BY <1>6, <1>8
<1>10. new \in Tables
  <2>1. \A k \in 1 .. Len(segs) : new[k] \in FileTableSegment
    BY <1>4, <1>5, <1>6, <1>8
  <2>2. new = [k \in 1 .. Len(segs) |-> new[k]]
    BY <1>3, <1>5
  <2>3. Len(segs) \in Nat
    BY DEF Tables
  <2> QED
    BY <2>1, <2>2, <2>3, TableFromFunction
<1>11. FileSlots(new) = FileSlots(segs)
  BY <1>5, <1>9, SameFileSlots
<1>12. DirSlots(new) = DirSlots(segs)
  BY <1>5, <1>9, SameDirSlots
<1>13. \A k \in DOMAIN segs : /\ SegmentAddr(new, k) = SegmentAddr(segs, k)
                              /\ EncodedLen(new[k]) = EncodedLen(segs[k])
  BY <1>5, <1>9 DEF SegmentAddr, EncodedLen
<1>14. \A x \in FileSlots(segs) : FileAt(new, x) = IF x = at THEN file ELSE FileAt(segs, x)
  <2> TAKE x \in FileSlots(segs)
  <2>1. PICK k \in DOMAIN segs : \E m \in DOMAIN segs[k].files : x = <<k, m>>
    BY FileSlotPair
  <2>2. PICK m \in DOMAIN segs[k].files : x = <<k, m>>
    BY <2>1
  <2>3. CASE k = i
    BY <1>2, <1>8, <2>2, <2>3 DEF FileAt
  <2>4. CASE k # i
    BY <1>2, <1>6, <2>2, <2>4 DEF FileAt
  <2> QED
    BY <2>3, <2>4
<1>15. \A x \in DirSlots(segs) : DirAt(new, x) = DirAt(segs, x)
  <2> TAKE x \in DirSlots(segs)
  <2>1. PICK k \in DOMAIN segs : \E m \in DOMAIN segs[k].dirs : x = <<k, m>>
    BY DirSlotPair
  <2> QED
    BY <1>9, <2>1 DEF DirAt
<1> QED
  BY <1>5, <1>9, <1>10, <1>11, <1>12, <1>13, <1>14, <1>15 DEF SameShape, SameSlots, new

-----------------------------------------------------------------------------
\* (stated for the solver, which is weak on products)
LEMMA NatTimes == ASSUME NEW m \in Nat, NEW n \in Nat PROVE m * n \in Nat
OBVIOUS

\* The sizes and capacities, one by one.
LEMMA Layout ==
  /\ HEADER_SIZE \in Nat \ {0} /\ SEGMENT_HEADER_SIZE \in Nat \ {0}
  /\ DIRECTORY_ENTRY_SIZE \in Nat \ {0} /\ FILE_ENTRY_SIZE \in Nat \ {0}
  /\ FirstDirsCapacity \in Nat \ {0} /\ FirstFilesCapacity \in Nat \ {0}
  /\ DirsCapacity \in Nat \ {0} /\ FilesCapacity \in Nat \ {0}
BY LayoutAssumption

\* A segment takes some space.
LEMMA EncodedLenPositive ==
  ASSUME NEW s \in FileTableSegment
  PROVE  EncodedLen(s) \in Nat \ {0}
<1>1. Len(s.dirs) \in Nat /\ Len(s.files) \in Nat
  BY DEF FileTableSegment
<1>2. /\ Len(s.dirs) * DIRECTORY_ENTRY_SIZE \in Nat
      /\ Len(s.files) * FILE_ENTRY_SIZE \in Nat
  BY <1>1, Layout, NatTimes
<1> DEFINE p == Len(s.dirs) * DIRECTORY_ENTRY_SIZE
           q == Len(s.files) * FILE_ENTRY_SIZE
<1>3. EncodedLen(s) = SEGMENT_HEADER_SIZE + p + q
  BY DEF EncodedLen
<1> HIDE DEF p, q
<1>4. p \in Nat /\ q \in Nat
  BY <1>2 DEF p, q
<1> QED
  BY <1>3, <1>4, Layout

\* A new segment is a segment, and all its slots are empty.
LEMMA EmptySegmentType ==
  ASSUME NEW m \in Nat \ {0}, NEW n \in Nat \ {0}
  PROVE  LET s == EmptySegment(m, n)
         IN  /\ s \in FileTableSegment
             /\ s.next_segment_addr = 0
             /\ DOMAIN s.dirs = 1 .. m /\ \A j \in 1 .. m : s.dirs[j] = None
             /\ DOMAIN s.files = 1 .. n /\ \A j \in 1 .. n : s.files[j] = None
<1>1. [i \in 1 .. m |-> None] \in Seq(Directory \cup {None})
  OBVIOUS
<1>2. [i \in 1 .. n |-> None] \in Seq(File \cup {None})
  OBVIOUS
<1> QED
  BY <1>1, <1>2 DEF EmptySegment, FileTableSegment

\* A new segment only adds empty slots, the first of each kind among them.
LEMMA NewSegmentEffect ==
  ASSUME NEW segs \in Tables, segs # <<>>, NEW addr \in Nat
  PROVE  LET new  == WithNewSegment(segs, addr)
             last == Len(segs) + 1
         IN  /\ new \in Tables
             /\ DOMAIN new = DOMAIN segs \cup {last} /\ last \notin DOMAIN segs
             /\ \A i \in DOMAIN segs :
                  /\ SegmentAddr(new, i) = SegmentAddr(segs, i)
                  /\ EncodedLen(new[i]) = EncodedLen(segs[i])
                  /\ SameSlots(segs[i], new[i])
                  /\ new[i].next_segment_addr =
                       IF i = Len(segs) THEN addr ELSE segs[i].next_segment_addr
             /\ SegmentAddr(new, last) = addr /\ Len(new) = last
             /\ new[last] = NewSegment
             /\ <<last, 1>> \in DirSlots(new) \ DirSlots(segs)
             /\ <<last, 1>> \in FileSlots(new) \ FileSlots(segs)
             /\ DirSlots(segs) \subseteq DirSlots(new)
             /\ FileSlots(segs) \subseteq FileSlots(new)
             /\ \A x \in DirSlots(new) :
                  DirAt(new, x) = IF x \in DirSlots(segs) THEN DirAt(segs, x) ELSE None
             /\ \A x \in FileSlots(new) :
                  FileAt(new, x) = IF x \in FileSlots(segs) THEN FileAt(segs, x) ELSE None
<1> DEFINE new    == WithNewSegment(segs, addr)
           n      == Len(segs)
           last   == n + 1
           linked == [segs EXCEPT ![n].next_segment_addr = addr]
<1>1. /\ n \in Nat \ {0} /\ DOMAIN segs = 1 .. n
      /\ \A k \in 1 .. n : segs[k] \in FileTableSegment
  BY DEF Tables
<1>2. /\ NewSegment \in FileTableSegment
      /\ DOMAIN NewSegment.dirs = 1 .. DirsCapacity
      /\ DOMAIN NewSegment.files = 1 .. FilesCapacity
      /\ \A j \in 1 .. DirsCapacity : NewSegment.dirs[j] = None
      /\ \A j \in 1 .. FilesCapacity : NewSegment.files[j] = None
  BY EmptySegmentType, Layout DEF NewSegment
<1>3. /\ DOMAIN linked = 1 .. n
      /\ \A k \in 1 .. n : k # n => linked[k] = segs[k]
      /\ linked[n] = [next_segment_addr |-> addr, dirs |-> segs[n].dirs, files |-> segs[n].files]
      /\ linked[n].next_segment_addr = addr
  <2>1. segs[n] \in FileTableSegment
    BY <1>1
  <2>2. linked[n] = [segs[n] EXCEPT !.next_segment_addr = addr]
    BY <1>1
  <2>3. linked[n] = [next_segment_addr |-> addr, dirs |-> segs[n].dirs, files |-> segs[n].files]
    BY <2>1, <2>2 DEF FileTableSegment
  <2>4. linked[n].next_segment_addr = addr
    BY <2>3
  <2> QED
    BY <1>1, <2>3, <2>4
<1>4. linked \in Tables /\ Len(linked) = n
  <2>1. \A k \in 1 .. n : linked[k] \in FileTableSegment
    BY <1>1, <1>3 DEF FileTableSegment
  <2>2. linked = [k \in 1 .. n |-> linked[k]]
    BY <1>1
  <2> QED
    BY <1>1, <2>1, <2>2, TableFromFunction
<1>5. new = Append(linked, NewSegment)
  BY DEF WithNewSegment
<1> HIDE DEF linked, new
<1>6. /\ new \in Tables /\ DOMAIN new = 1 .. last
      /\ \A k \in 1 .. n : new[k] = linked[k]
      /\ new[last] = NewSegment
  BY <1>1, <1>2, <1>4, <1>5 DEF Tables
<1>7. DOMAIN new = DOMAIN segs \cup {last} /\ last \notin DOMAIN segs
  BY <1>1, <1>6
<1>8. \A k \in 1 .. n : /\ new[k].dirs = segs[k].dirs
                        /\ new[k].files = segs[k].files
                        /\ k # n => new[k].next_segment_addr = segs[k].next_segment_addr
  BY <1>3, <1>6
<1>9. /\ \A i \in DOMAIN segs : /\ SegmentAddr(new, i) = SegmentAddr(segs, i)
                                /\ EncodedLen(new[i]) = EncodedLen(segs[i])
      /\ SegmentAddr(new, last) = addr
  <2>1. \A i \in 1 .. n : EncodedLen(new[i]) = EncodedLen(segs[i])
    BY <1>8 DEF EncodedLen
  <2>2. \A i \in 1 .. n : SegmentAddr(new, i) = SegmentAddr(segs, i)
    <3> TAKE i \in 1 .. n
    <3>1. CASE i = 1
      BY <3>1 DEF SegmentAddr
    <3>2. CASE i # 1
      <4>1. i - 1 \in 1 .. n /\ i - 1 # n
        BY <1>1, <3>2
      <4> QED
        BY <1>8, <3>2, <4>1 DEF SegmentAddr
    <3> QED
      BY <3>1, <3>2
  <2>3. SegmentAddr(new, last) = addr
    <3>1. n \in 1 .. n /\ last # 1 /\ last - 1 = n
      BY <1>1
    <3>2. new[n] = linked[n]
      BY <1>6, <3>1
    <3>3. new[n].next_segment_addr = addr
      BY <1>3, <3>2
    <3> QED
      BY <3>1, <3>3 DEF SegmentAddr
  <2> QED
    BY <1>1, <2>1, <2>2, <2>3
<1>10. \A k \in DOMAIN new : k \in 1 .. n \/ k = last
  BY <1>1, <1>6
<1>11. /\ <<last, 1>> \in DirSlots(new) \ DirSlots(segs)
       /\ DirSlots(segs) \subseteq DirSlots(new)
       /\ \A x \in DirSlots(new) :
            DirAt(new, x) = IF x \in DirSlots(segs) THEN DirAt(segs, x) ELSE None
  <2>1. 1 \in DOMAIN new[last].dirs
    BY <1>2, <1>6, Layout
  <2>2. <<last, 1>> \in DirSlots(new)
    BY <1>7, <2>1, DirSlotPair
  <2>3. \A j : <<last, j>> \notin DirSlots(segs)
    BY <1>7, DirSlotPair
  <2>4. ASSUME NEW x \in DirSlots(segs) PROVE x \in DirSlots(new)
    <3>1. PICK k \in DOMAIN segs : \E j \in DOMAIN segs[k].dirs : x = <<k, j>>
      BY DirSlotPair
    <3>2. k \in DOMAIN new /\ new[k].dirs = segs[k].dirs
      BY <1>1, <1>7, <1>8
    <3> QED
      BY <3>1, <3>2, DirSlotPair
  <2>5. ASSUME NEW x \in DirSlots(new)
        PROVE  DirAt(new, x) = IF x \in DirSlots(segs) THEN DirAt(segs, x) ELSE None
    <3>1. PICK k \in DOMAIN new : \E j \in DOMAIN new[k].dirs : x = <<k, j>>
      BY DirSlotPair
    <3>2. PICK j \in DOMAIN new[k].dirs : x = <<k, j>>
      BY <3>1
    <3>3. CASE k \in 1 .. n
      <4>1. x \in DirSlots(segs)
        BY <1>1, <1>8, <3>2, <3>3, DirSlotPair
      <4> QED
        BY <1>8, <3>2, <3>3, <4>1 DEF DirAt
    <3>4. CASE k = last
      BY <1>2, <1>6, <2>3, <3>2, <3>4 DEF DirAt
    <3> QED
      BY <1>10, <3>3, <3>4
  <2> QED
    BY <2>2, <2>3, <2>4, <2>5
<1>12. /\ <<last, 1>> \in FileSlots(new) \ FileSlots(segs)
       /\ FileSlots(segs) \subseteq FileSlots(new)
       /\ \A x \in FileSlots(new) :
            FileAt(new, x) = IF x \in FileSlots(segs) THEN FileAt(segs, x) ELSE None
  <2>1. 1 \in DOMAIN new[last].files
    BY <1>2, <1>6, Layout
  <2>2. <<last, 1>> \in FileSlots(new)
    BY <1>7, <2>1, FileSlotPair
  <2>3. \A j : <<last, j>> \notin FileSlots(segs)
    BY <1>7, FileSlotPair
  <2>4. ASSUME NEW x \in FileSlots(segs) PROVE x \in FileSlots(new)
    <3>1. PICK k \in DOMAIN segs : \E j \in DOMAIN segs[k].files : x = <<k, j>>
      BY FileSlotPair
    <3>2. k \in DOMAIN new /\ new[k].files = segs[k].files
      BY <1>1, <1>7, <1>8
    <3> QED
      BY <3>1, <3>2, FileSlotPair
  <2>5. ASSUME NEW x \in FileSlots(new)
        PROVE  FileAt(new, x) = IF x \in FileSlots(segs) THEN FileAt(segs, x) ELSE None
    <3>1. PICK k \in DOMAIN new : \E j \in DOMAIN new[k].files : x = <<k, j>>
      BY FileSlotPair
    <3>2. PICK j \in DOMAIN new[k].files : x = <<k, j>>
      BY <3>1
    <3>3. CASE k \in 1 .. n
      <4>1. x \in FileSlots(segs)
        BY <1>1, <1>8, <3>2, <3>3, FileSlotPair
      <4> QED
        BY <1>8, <3>2, <3>3, <4>1 DEF FileAt
    <3>4. CASE k = last
      BY <1>2, <1>6, <2>3, <3>2, <3>4 DEF FileAt
    <3> QED
      BY <1>10, <3>3, <3>4
  <2> QED
    BY <2>2, <2>3, <2>4, <2>5
<1>13. \A i \in DOMAIN segs :
         /\ SameSlots(segs[i], new[i])
         /\ new[i].next_segment_addr = IF i = n THEN addr ELSE segs[i].next_segment_addr
  BY <1>1, <1>3, <1>6, <1>8 DEF SameSlots
<1>14. Len(new) = last
  BY <1>1, <1>6 DEF Tables
<1> HIDE DEF last
<1> QED
  BY <1>6, <1>7, <1>9, <1>11, <1>12, <1>13, <1>14 DEF last, new

\* Zeroing the entries of some items, slot by slot.
LEMMA ClearEntriesEffect ==
  ASSUME NEW segs \in Tables, NEW gone_dirs, NEW gone_files
  PROVE  LET new == ClearEntries(segs, gone_dirs, gone_files)
         IN  /\ new \in Tables
             /\ SameShape(segs, new)
             /\ \A x \in DirSlots(segs) :
                  DirAt(new, x) =
                    IF DirAt(segs, x) # None /\ DirAt(segs, x).id \in gone_dirs
                    THEN None ELSE DirAt(segs, x)
             /\ \A x \in FileSlots(segs) :
                  FileAt(new, x) =
                    IF FileAt(segs, x) # None /\ FileAt(segs, x).id \in gone_files
                    THEN None ELSE FileAt(segs, x)
<1> DEFINE new == ClearEntries(segs, gone_dirs, gone_files)
           n == Len(segs)
<1>1. /\ n \in Nat /\ DOMAIN segs = 1 .. n
      /\ \A k \in 1 .. n : segs[k] \in FileTableSegment
  BY DEF Tables
<1>2. DOMAIN new = 1 .. n /\ new = [k \in 1 .. n |-> new[k]]
  BY <1>1 DEF ClearEntries
<1>3. ASSUME NEW k \in 1 .. n
      PROVE  /\ Cleared(segs[k].dirs, gone_dirs) \in Seq(Directory \cup {None})
             /\ Cleared(segs[k].files, gone_files) \in Seq(File \cup {None})
             /\ Len(Cleared(segs[k].dirs, gone_dirs)) = Len(segs[k].dirs)
             /\ Len(Cleared(segs[k].files, gone_files)) = Len(segs[k].files)
             /\ segs[k].next_segment_addr \in Nat
  <2>1. /\ segs[k].dirs \in Seq(Directory \cup {None})
        /\ segs[k].files \in Seq(File \cup {None})
        /\ segs[k].next_segment_addr \in Nat
    BY <1>1 DEF FileTableSegment
  <2>2. ASSUME NEW T, NEW slots \in Seq(T \cup {None}), NEW gone
        PROVE  Cleared(slots, gone) \in Seq(T \cup {None}) /\ Len(Cleared(slots, gone)) = Len(slots)
    <3>1. DOMAIN slots = 1 .. Len(slots) /\ Len(slots) \in Nat
      OBVIOUS
    <3>2. Cleared(slots, gone) \in [1 .. Len(slots) -> T \cup {None}]
      BY <3>1 DEF Cleared
    <3> QED
      BY <3>1, <3>2
  <2> QED
    BY <2>1, <2>2
<1>4. ASSUME NEW k \in 1 .. n
      PROVE  /\ new[k].next_segment_addr = segs[k].next_segment_addr
             /\ new[k].dirs = Cleared(segs[k].dirs, gone_dirs)
             /\ new[k].files = Cleared(segs[k].files, gone_files)
             /\ new[k] \in FileTableSegment
  <2>1. segs[k] \in FileTableSegment
    BY <1>1
  <2>2. new[k] = [segs[k] EXCEPT !.dirs = Cleared(segs[k].dirs, gone_dirs),
                                 !.files = Cleared(segs[k].files, gone_files)]
    BY <1>1 DEF ClearEntries
  <2> HIDE DEF new
  <2>3. new[k] = [next_segment_addr |-> segs[k].next_segment_addr,
                  dirs |-> Cleared(segs[k].dirs, gone_dirs),
                  files |-> Cleared(segs[k].files, gone_files)]
    BY <2>1, <2>2 DEF FileTableSegment
  <2> QED
    BY <1>3, <2>3 DEF FileTableSegment
<1> HIDE DEF new
<1>5. new \in Tables
  BY <1>1, <1>2, <1>4, TableFromFunction
<1>6. SameShape(segs, new)
  <2>0. \A slots, gone : DOMAIN Cleared(slots, gone) = DOMAIN slots
    BY DEF Cleared
  <2>1. DirSlots(new) = DirSlots(segs)
    <3>1. \A k \in DOMAIN segs : DOMAIN new[k].dirs = DOMAIN segs[k].dirs
      BY <1>1, <1>4, <2>0
    <3>2. DOMAIN new = DOMAIN segs
      BY <1>1, <1>2
    <3> QED
      BY <3>1, <3>2, SameDirSlots
  <2>2. FileSlots(new) = FileSlots(segs)
    <3>1. \A k \in DOMAIN segs : DOMAIN new[k].files = DOMAIN segs[k].files
      BY <1>1, <1>4, <2>0
    <3>2. DOMAIN new = DOMAIN segs
      BY <1>1, <1>2
    <3> QED
      BY <3>1, <3>2, SameFileSlots
  <2>3. \A i \in 1 .. n : EncodedLen(new[i]) = EncodedLen(segs[i])
    <3> TAKE i \in 1 .. n
    <3> QED
      BY <1>3, <1>4 DEF EncodedLen
  <2>4. \A i \in 1 .. n : SegmentAddr(new, i) = SegmentAddr(segs, i)
    <3> TAKE i \in 1 .. n
    <3>1. i # 1 => i - 1 \in 1 .. n
      BY <1>1
    <3> QED
      BY <1>4, <3>1 DEF SegmentAddr
  <2> QED
    BY <1>1, <1>2, <1>3, <1>4, <2>1, <2>2, <2>3, <2>4 DEF SameShape, SameSlots
<1>7. ASSUME NEW x \in DirSlots(segs)
      PROVE  DirAt(new, x) = IF DirAt(segs, x) # None /\ DirAt(segs, x).id \in gone_dirs
                             THEN None ELSE DirAt(segs, x)
  <2>1. PICK i \in DOMAIN segs : \E j \in DOMAIN segs[i].dirs : x = <<i, j>>
    BY DirSlotPair
  <2>2. PICK j \in DOMAIN segs[i].dirs : x = <<i, j>>
    BY <2>1
  <2>3. new[i].dirs = Cleared(segs[i].dirs, gone_dirs)
    BY <1>1, <1>4
  <2> QED
    BY <2>2, <2>3 DEF DirAt, Cleared
<1>8. ASSUME NEW x \in FileSlots(segs)
      PROVE  FileAt(new, x) = IF FileAt(segs, x) # None /\ FileAt(segs, x).id \in gone_files
                              THEN None ELSE FileAt(segs, x)
  <2>1. PICK i \in DOMAIN segs : \E j \in DOMAIN segs[i].files : x = <<i, j>>
    BY FileSlotPair
  <2>2. PICK j \in DOMAIN segs[i].files : x = <<i, j>>
    BY <2>1
  <2>3. new[i].files = Cleared(segs[i].files, gone_files)
    BY <1>1, <1>4
  <2> QED
    BY <2>2, <2>3 DEF FileAt, Cleared
<1> QED
  BY <1>5, <1>6, <1>7, <1>8 DEF new

\* The last free slot is one of the free slots.
LEMMA LastSlotExists ==
  ASSUME NEW L \in Nat, NEW slots, slots # {},
         \A x \in slots : \E i \in 1 .. L : \E j \in Nat : x = <<i, j>>,
         \A i \in 1 .. L : \E M \in Nat : \A x \in slots : x[1] = i => x[2] <= M
  PROVE  LastSlot(slots) \in slots
<1> DEFINE I == {x[1] : x \in slots}
<1>1. I \in SUBSET Nat /\ I # {} /\ \A i \in I : i <= L
  OBVIOUS
<1>2. PICK i \in I : \A k \in I : k <= i
  BY <1>1, NatMax
<1> DEFINE J == {x[2] : x \in {y \in slots : y[1] = i}}
<1>3. i \in 1 .. L
  OBVIOUS
<1>4. PICK M \in Nat : \A x \in slots : x[1] = i => x[2] <= M
  BY <1>3
<1>5. J \in SUBSET Nat /\ J # {} /\ \A j \in J : j <= M
  BY <1>4
<1>6. PICK j \in J : \A k \in J : k <= j
  BY <1>5, NatMax
<1>7. PICK at \in slots : at[1] = i /\ at[2] = j
  OBVIOUS
<1>8. \A x \in slots \ {at} : x[1] < at[1] \/ (x[1] = at[1] /\ x[2] < at[2])
  <2> TAKE x \in slots \ {at}
  <2>1. x[1] \in I /\ x[1] <= i /\ x[1] \in Nat /\ i \in Nat
    BY <1>1, <1>2
  <2>2. CASE x[1] # i
    BY <1>7, <2>1, <2>2
  <2>3. CASE x[1] = i
    <3>1. x[2] \in J
      BY <2>3
    <3>2. x[2] <= j /\ x[2] \in Nat /\ j \in Nat
      BY <1>5, <1>6, <3>1
    <3>3. x[2] # j
      <4>1. x = <<x[1], x[2]>> /\ at = <<at[1], at[2]>>
        OBVIOUS
      <4> QED
        BY <1>7, <2>3, <4>1
    <3> QED
      BY <1>7, <2>3, <3>2, <3>3
  <2> QED
    BY <2>2, <2>3
<1> QED
  BY <1>8 DEF LastSlot

-----------------------------------------------------------------------------
(***************************************************************************)
(* The table as functions: from slots to entries, and from the marks of    *)
(* compute_coverage to zones.                                              *)
(***************************************************************************)
DirTable(segs)  == [x \in DirSlots(segs)  |-> DirAt(segs, x)]
FileTable(segs) == [x \in FileSlots(segs) |-> FileAt(segs, x)]
Zones(segs)     == [m \in Marks(segs) |-> MarkedZone(segs, m)]

\* A file slot is never the mark of a segment or of the header.
LEMMA MarksShape ==
  ASSUME NEW segs \in Tables
  PROVE  /\ \A x \in FileSlots(segs) : x[2] # 0 /\ x[1] \in DOMAIN segs
         /\ \A m \in Marks(segs) : \/ m = <<0, 0>>
                                   \/ \E i \in DOMAIN segs : m = <<i, 0>>
                                   \/ m \in UsedFileSlots(segs)
         /\ UsedFileSlots(segs) \subseteq Marks(segs)
         /\ \A x \in UsedFileSlots(segs) : MarkedZone(segs, x) = Extent(FileAt(segs, x))
         /\ \A i \in DOMAIN segs : /\ <<i, 0>> \in Marks(segs)
                                   /\ i # 0
                                   /\ MarkedZone(segs, <<i, 0>>) =
                                        Segment(SegmentAddr(segs, i), EncodedLen(segs[i]))
<1>1. \A i \in DOMAIN segs : segs[i] \in FileTableSegment /\ i # 0
  BY DEF Tables
<1>2. ASSUME NEW x \in FileSlots(segs) PROVE x[2] # 0 /\ x[1] \in DOMAIN segs
  <2>1. PICK i \in DOMAIN segs : \E j \in DOMAIN segs[i].files : x = <<i, j>>
    BY FileSlotPair
  <2>2. PICK j \in DOMAIN segs[i].files : x = <<i, j>>
    BY <2>1
  <2>3. segs[i].files \in Seq(File \cup {None})
    BY <1>1 DEF FileTableSegment
  <2>4. j # 0
    BY <2>3
  <2> QED
    BY <2>2, <2>4
<1>3. \A x \in UsedFileSlots(segs) : x[2] # 0
  BY <1>2 DEF UsedFileSlots
<1>4. \A x \in UsedFileSlots(segs) : MarkedZone(segs, x) = Extent(FileAt(segs, x))
  <2> TAKE x \in UsedFileSlots(segs)
  <2>1. x # <<0, 0>>
    BY <1>3
  <2> QED
    BY <1>3, <2>1 DEF MarkedZone
<1>5. ASSUME NEW i \in DOMAIN segs
      PROVE  MarkedZone(segs, <<i, 0>>) = Segment(SegmentAddr(segs, i), EncodedLen(segs[i]))
  <2>1. <<i, 0>> # <<0, 0>>
    BY <1>1
  <2> QED
    BY <2>1 DEF MarkedZone
<1> QED
  BY <1>1, <1>2, <1>4, <1>5 DEF Marks, UsedFileSlots

\* The marks of two tables of the same shape, and their zones.
LEMMA ZonesOfSameShape ==
  ASSUME NEW segs \in Tables, NEW new \in Tables, SameShape(segs, new),
         NEW m \in Marks(new)
  PROVE  \/ m \in UsedFileSlots(new)
         \/ m \in Marks(segs) /\ MarkedZone(new, m) = MarkedZone(segs, m)
            /\ m \notin FileSlots(segs)
<1>1. CASE m = <<0, 0>>
  <2>1. m \in Marks(segs) /\ MarkedZone(new, m) = MarkedZone(segs, m)
    BY <1>1 DEF Marks, MarkedZone
  <2>2. m \notin FileSlots(segs)
    BY <1>1, MarksShape
  <2> QED
    BY <2>1, <2>2
<1>2. ASSUME NEW i \in DOMAIN new, m = <<i, 0>>
      PROVE  m \in Marks(segs) /\ MarkedZone(new, m) = MarkedZone(segs, m) /\ m \notin FileSlots(segs)
  <2>1. i \in DOMAIN segs
    BY DEF SameShape
  <2>2. SegmentAddr(new, i) = SegmentAddr(segs, i) /\ EncodedLen(new[i]) = EncodedLen(segs[i])
    BY <2>1 DEF SameShape
  <2>3. MarkedZone(new, m) = Segment(SegmentAddr(new, i), EncodedLen(new[i]))
    BY <1>2, MarksShape
  <2>4. m \in Marks(segs) /\ MarkedZone(segs, m) = Segment(SegmentAddr(segs, i), EncodedLen(segs[i]))
    BY <1>2, <2>1, MarksShape
  <2>5. m \notin FileSlots(segs)
    BY <1>2, MarksShape
  <2> QED
    BY <2>2, <2>3, <2>4, <2>5
<1>3. m = <<0, 0>> \/ (\E i \in DOMAIN new : m = <<i, 0>>) \/ m \in UsedFileSlots(new)
  BY MarksShape
<1> QED
  BY <1>1, <1>2, <1>3

\* A directory entry is written.
LEMMA PutDirTables ==
  ASSUME NEW segs \in Tables, NEW at \in DirSlots(segs), NEW dir \in Directory
  PROVE  LET new == PutDir(segs, at, dir)
         IN  /\ new \in Tables /\ DOMAIN new = DOMAIN segs
             /\ DirTable(new) = [DirTable(segs) EXCEPT ![at] = dir]
             /\ FileTable(new) = FileTable(segs)
             /\ Zones(new) = Zones(segs)
<1> DEFINE new == PutDir(segs, at, dir)
<1>1. /\ new \in Tables
      /\ SameShape(segs, new)
      /\ \A x \in DirSlots(segs) :
           DirAt(new, x) = IF x = at THEN dir ELSE DirAt(segs, x)
      /\ \A x \in FileSlots(segs) : FileAt(new, x) = FileAt(segs, x)
  BY PutDirEffect
<1> HIDE DEF new
<1>2. DOMAIN new = DOMAIN segs /\ DirSlots(new) = DirSlots(segs) /\ FileSlots(new) = FileSlots(segs)
  BY <1>1 DEF SameShape
<1>3. DirTable(new) = [DirTable(segs) EXCEPT ![at] = dir]
  BY <1>1, <1>2 DEF DirTable
<1>4. FileTable(new) = FileTable(segs)
  BY <1>1, <1>2 DEF FileTable
<1>5. UsedFileSlots(new) = UsedFileSlots(segs)
  BY <1>1, <1>2 DEF UsedFileSlots, FreeFileSlots
<1>6. Marks(new) = Marks(segs)
  BY <1>2, <1>5 DEF Marks, UsedFileSlots
<1>7. ASSUME NEW m \in Marks(new) PROVE MarkedZone(new, m) = MarkedZone(segs, m)
  <2>1. CASE m \in UsedFileSlots(new)
    <3>1. m \in FileSlots(segs) /\ FileAt(new, m) = FileAt(segs, m)
      BY <1>1, <1>2, <2>1 DEF UsedFileSlots
    <3> QED
      BY <1>1, <1>5, <2>1, <3>1, MarksShape
  <2> QED
    BY <1>1, <2>1, ZonesOfSameShape
<1>8. Zones(new) = Zones(segs)
  BY <1>6, <1>7 DEF Zones
<1> QED
  BY <1>1, <1>2, <1>3, <1>4, <1>8 DEF new

\* The new table is the old one with this file in this slot.
FilePut(segs, new, at, file) ==
  /\ new \in Tables /\ DOMAIN new = DOMAIN segs
  /\ DirTable(new) = DirTable(segs)
  /\ FileTable(new) = [FileTable(segs) EXCEPT ![at] = file]
  /\ DOMAIN Zones(new) = DOMAIN Zones(segs) \cup {at}
  /\ Zones(new)[at] = Extent(file)
  /\ \A m \in DOMAIN Zones(segs) \ {at} : Zones(new)[m] = Zones(segs)[m]

\* A file entry is written.
LEMMA PutFileTables ==
  ASSUME NEW segs \in Tables, NEW at \in FileSlots(segs), NEW file \in File,
         NEW new, new = PutFile(segs, at, file)
  PROVE  FilePut(segs, new, at, file)
<1>1. /\ new \in Tables
      /\ SameShape(segs, new)
      /\ \A x \in FileSlots(segs) :
           FileAt(new, x) = IF x = at THEN file ELSE FileAt(segs, x)
      /\ \A x \in DirSlots(segs) : DirAt(new, x) = DirAt(segs, x)
  BY PutFileEffect
<1>2. DOMAIN new = DOMAIN segs /\ DirSlots(new) = DirSlots(segs) /\ FileSlots(new) = FileSlots(segs)
  BY <1>1 DEF SameShape
<1>3. DirTable(new) = DirTable(segs)
  BY <1>1, <1>2 DEF DirTable
<1>4. FileTable(new) = [FileTable(segs) EXCEPT ![at] = file]
  BY <1>1, <1>2 DEF FileTable
<1>5. file # None
  BY NoneAssumption
<1>6. UsedFileSlots(new) = UsedFileSlots(segs) \cup {at}
  BY <1>1, <1>2, <1>5 DEF UsedFileSlots, FreeFileSlots
<1>7. Marks(new) = Marks(segs) \cup {at}
  BY <1>2, <1>6 DEF Marks, UsedFileSlots
<1>8. MarkedZone(new, at) = Extent(file)
  BY <1>1, <1>6, MarksShape
<1>9. ASSUME NEW m \in Marks(segs) \ {at} PROVE MarkedZone(new, m) = MarkedZone(segs, m)
  <2>1. m \in Marks(new)
    BY <1>7
  <2>2. CASE m \in UsedFileSlots(new)
    <3>1. m \in UsedFileSlots(segs) /\ m \in FileSlots(segs) /\ FileAt(new, m) = FileAt(segs, m)
      BY <1>1, <1>2, <1>6, <2>2 DEF UsedFileSlots
    <3> QED
      BY <1>1, <2>2, <3>1, MarksShape
  <2> QED
    BY <1>1, <2>1, <2>2, ZonesOfSameShape
<1>10. DOMAIN Zones(new) = Marks(new) /\ DOMAIN Zones(segs) = Marks(segs)
  BY DEF Zones
<1>11. Zones(new)[at] = Extent(file)
  BY <1>7, <1>8 DEF Zones
<1>12. \A m \in Marks(segs) \ {at} : Zones(new)[m] = Zones(segs)[m]
  BY <1>7, <1>9 DEF Zones
<1> QED
  BY <1>1, <1>2, <1>3, <1>4, <1>7, <1>10, <1>11, <1>12 DEF FilePut

\* The slots of a function from slots to entries that hold the given items.
ClearedTable(t, gone) ==
  [x \in DOMAIN t |-> IF t[x] # None /\ t[x].id \in gone THEN None ELSE t[x]]

SlotsOfFiles(segs, ids) == {x \in UsedFileSlots(segs) : FileAt(segs, x).id \in ids}

\* Entries are zeroed.
LEMMA ClearTables ==
  ASSUME NEW segs \in Tables, NEW gone_dirs, NEW gone_files
  PROVE  LET new  == ClearEntries(segs, gone_dirs, gone_files)
             gone == SlotsOfFiles(segs, gone_files)
         IN  /\ new \in Tables /\ DOMAIN new = DOMAIN segs
             /\ DirTable(new) = ClearedTable(DirTable(segs), gone_dirs)
             /\ FileTable(new) = ClearedTable(FileTable(segs), gone_files)
             /\ DOMAIN Zones(new) = DOMAIN Zones(segs) \ gone
             /\ \A m \in DOMAIN Zones(new) : Zones(new)[m] = Zones(segs)[m]
<1> DEFINE new  == ClearEntries(segs, gone_dirs, gone_files)
           gone == SlotsOfFiles(segs, gone_files)
<1>1. /\ new \in Tables
      /\ SameShape(segs, new)
      /\ \A x \in DirSlots(segs) :
           DirAt(new, x) =
             IF DirAt(segs, x) # None /\ DirAt(segs, x).id \in gone_dirs
             THEN None ELSE DirAt(segs, x)
      /\ \A x \in FileSlots(segs) :
           FileAt(new, x) =
             IF FileAt(segs, x) # None /\ FileAt(segs, x).id \in gone_files
             THEN None ELSE FileAt(segs, x)
  BY ClearEntriesEffect
<1> HIDE DEF new
<1>2. DOMAIN new = DOMAIN segs /\ DirSlots(new) = DirSlots(segs) /\ FileSlots(new) = FileSlots(segs)
  BY <1>1 DEF SameShape
<1>3. DirTable(new) = ClearedTable(DirTable(segs), gone_dirs)
  BY <1>1, <1>2 DEF DirTable, ClearedTable
<1>4. FileTable(new) = ClearedTable(FileTable(segs), gone_files)
  BY <1>1, <1>2 DEF FileTable, ClearedTable
<1>5. UsedFileSlots(new) = UsedFileSlots(segs) \ gone
  BY <1>1, <1>2 DEF UsedFileSlots, FreeFileSlots, SlotsOfFiles
<1>6. \A m \in gone : m # <<0, 0>> /\ \A i \in DOMAIN segs : m # <<i, 0>>
  <2> TAKE m \in gone
  <2>1. m \in FileSlots(segs)
    BY DEF UsedFileSlots, SlotsOfFiles
  <2>2. m[2] # 0
    BY <2>1, MarksShape
  <2> QED
    BY <2>2
<1>7. Marks(new) = Marks(segs) \ gone
  BY <1>2, <1>5, <1>6 DEF Marks, UsedFileSlots
<1>8. ASSUME NEW m \in Marks(new) PROVE MarkedZone(new, m) = MarkedZone(segs, m)
  <2>1. CASE m \in UsedFileSlots(new)
    <3>1. m \in UsedFileSlots(segs) /\ m \in FileSlots(segs) /\ FileAt(new, m) = FileAt(segs, m)
      BY <1>1, <1>5, <2>1 DEF UsedFileSlots, FreeFileSlots, SlotsOfFiles
    <3> QED
      BY <1>1, <2>1, <3>1, MarksShape
  <2> QED
    BY <1>1, <2>1, ZonesOfSameShape
<1>9. DOMAIN Zones(new) = Marks(new) /\ DOMAIN Zones(segs) = Marks(segs)
  BY DEF Zones
<1>10. \A m \in Marks(new) : Zones(new)[m] = Zones(segs)[m]
  BY <1>7, <1>8 DEF Zones
<1> QED
  BY <1>1, <1>2, <1>3, <1>4, <1>7, <1>9, <1>10 DEF new

\* A function from slots to entries with more, empty, slots.
MoreSlots(t, new) ==
  /\ DOMAIN t \subseteq DOMAIN new
  /\ \A x \in DOMAIN new : new[x] = IF x \in DOMAIN t THEN t[x] ELSE None

\* A segment is added.
LEMMA NewSegmentTables ==
  ASSUME NEW segs \in Tables, segs # <<>>, NEW addr \in Nat
  PROVE  LET new == WithNewSegment(segs, addr)
             at  == <<Len(new), 1>>
             m   == <<Len(new), 0>>
         IN  /\ new \in Tables /\ new # <<>>
             /\ MoreSlots(DirTable(segs), DirTable(new))
             /\ MoreSlots(FileTable(segs), FileTable(new))
             /\ at \in DOMAIN DirTable(new) /\ DirTable(new)[at] = None
             /\ at \in DOMAIN FileTable(new) /\ FileTable(new)[at] = None
             /\ m \notin DOMAIN Zones(segs)
             /\ DOMAIN Zones(new) = DOMAIN Zones(segs) \cup {m}
             /\ Zones(new)[m] = Segment(addr, EncodedLen(NewSegment))
             /\ \A k \in DOMAIN Zones(segs) : Zones(new)[k] = Zones(segs)[k]
<1> DEFINE new  == WithNewSegment(segs, addr)
           last == Len(segs) + 1
           m    == <<last, 0>>
<1>0. Len(new) = last /\ new # <<>>
  <2>1. Len([segs EXCEPT ![Len(segs)].next_segment_addr = addr]) = Len(segs)
    BY DEF Tables
  <2>2. [segs EXCEPT ![Len(segs)].next_segment_addr = addr]
          = [k \in 1 .. Len(segs) |-> [segs EXCEPT ![Len(segs)].next_segment_addr = addr][k]]
    BY DEF Tables
  <2>3. Len(segs) \in Nat
    BY DEF Tables
  <2> QED
    BY <2>1, <2>2, <2>3 DEF WithNewSegment
<1>1. /\ new \in Tables
      /\ DOMAIN new = DOMAIN segs \cup {last} /\ last \notin DOMAIN segs
      /\ \A i \in DOMAIN segs : /\ SegmentAddr(new, i) = SegmentAddr(segs, i)
                                /\ EncodedLen(new[i]) = EncodedLen(segs[i])
      /\ SegmentAddr(new, last) = addr
      /\ new[last] = NewSegment
      /\ <<last, 1>> \in DirSlots(new) \ DirSlots(segs)
      /\ <<last, 1>> \in FileSlots(new) \ FileSlots(segs)
      /\ DirSlots(segs) \subseteq DirSlots(new)
      /\ FileSlots(segs) \subseteq FileSlots(new)
      /\ \A x \in DirSlots(new) :
           DirAt(new, x) = IF x \in DirSlots(segs) THEN DirAt(segs, x) ELSE None
      /\ \A x \in FileSlots(new) :
           FileAt(new, x) = IF x \in FileSlots(segs) THEN FileAt(segs, x) ELSE None
  BY NewSegmentEffect
<1> HIDE DEF new
<1>2. MoreSlots(DirTable(segs), DirTable(new)) /\ MoreSlots(FileTable(segs), FileTable(new))
  BY <1>1 DEF MoreSlots, DirTable, FileTable
<1>3. /\ <<last, 1>> \in DOMAIN DirTable(new) /\ DirTable(new)[<<last, 1>>] = None
      /\ <<last, 1>> \in DOMAIN FileTable(new) /\ FileTable(new)[<<last, 1>>] = None
  BY <1>1 DEF DirTable, FileTable
<1>4. UsedFileSlots(new) = UsedFileSlots(segs)
  BY <1>1 DEF UsedFileSlots, FreeFileSlots
<1>5. last # 0
  BY DEF Tables
<1>6. m \notin Marks(segs)
  <2>1. m # <<0, 0>>
    BY <1>5
  <2>2. \A i \in DOMAIN segs : m # <<i, 0>>
    BY <1>1
  <2>3. m \notin UsedFileSlots(segs)
    BY MarksShape DEF UsedFileSlots
  <2> QED
    BY <2>1, <2>2, <2>3, MarksShape
<1>7. Marks(new) = Marks(segs) \cup {m}
  BY <1>1, <1>4 DEF Marks, UsedFileSlots
<1>8. MarkedZone(new, m) = Segment(addr, EncodedLen(NewSegment))
  BY <1>1, MarksShape
<1>9. ASSUME NEW k \in Marks(segs) PROVE MarkedZone(new, k) = MarkedZone(segs, k)
  <2>1. CASE k = <<0, 0>>
    BY <2>1 DEF MarkedZone
  <2>2. ASSUME NEW i \in DOMAIN segs, k = <<i, 0>> PROVE MarkedZone(new, k) = MarkedZone(segs, k)
    <3>1. MarkedZone(segs, k) = Segment(SegmentAddr(segs, i), EncodedLen(segs[i]))
      BY <2>2, MarksShape
    <3>2. MarkedZone(new, k) = Segment(SegmentAddr(new, i), EncodedLen(new[i]))
      BY <1>1, <2>2, MarksShape
    <3> QED
      BY <1>1, <3>1, <3>2
  <2>3. CASE k \in UsedFileSlots(segs)
    <3>1. FileAt(new, k) = FileAt(segs, k)
      BY <1>1, <2>3 DEF UsedFileSlots
    <3> QED
      BY <1>1, <1>4, <2>3, <3>1, MarksShape
  <2> QED
    BY <2>1, <2>2, <2>3, MarksShape
<1>10. DOMAIN Zones(new) = Marks(new) /\ DOMAIN Zones(segs) = Marks(segs)
  BY DEF Zones
<1>11. Zones(new)[m] = Segment(addr, EncodedLen(NewSegment))
  BY <1>7, <1>8 DEF Zones
<1>12. \A k \in Marks(segs) : Zones(new)[k] = Zones(segs)[k]
  BY <1>7, <1>9 DEF Zones
<1> QED
  BY <1>0, <1>1, <1>2, <1>3, <1>6, <1>7, <1>10, <1>11, <1>12 DEF new

-----------------------------------------------------------------------------
(* The index *)

Used(t) == {x \in DOMAIN t : t[x] # None}

\* m is the map of the entries t holds, one slot for each.
Match(t, m) ==
  /\ m = [id \in DOMAIN m |-> m[id]]
  /\ \A x \in Used(t) : t[x].id \in DOMAIN m /\ m[t[x].id] = t[x]
  /\ \A x, y \in Used(t) : t[x].id = t[y].id => x = y
  /\ \A id \in DOMAIN m : \E x \in Used(t) : t[x].id = id

-----------------------------------------------------------------------------
(* A table and its map *)

\* The map is keyed by the entries' own IDs.
LEMMA MatchId ==
  ASSUME NEW t, NEW m, Match(t, m), NEW id \in DOMAIN m
  PROVE  m[id].id = id /\ \E x \in Used(t) : t[x] = m[id]
BY DEF Match

\* A new segment brings empty slots, which change nothing.
LEMMA MatchMoreSlots ==
  ASSUME NEW t, NEW m, Match(t, m), NEW new, MoreSlots(t, new)
  PROVE  Match(new, m)
<1>1. Used(new) = Used(t) /\ \A x \in Used(t) : new[x] = t[x]
  BY DEF Used, MoreSlots
<1> QED
  BY <1>1 DEF Match

\* An entry with a fresh ID is written to a free slot.
LEMMA MatchInsert ==
  ASSUME NEW t, NEW m, Match(t, m), NEW at \in DOMAIN t, t[at] = None,
         NEW id, id \notin DOMAIN m, NEW e, e.id = id, e # None
  PROVE  Match([t EXCEPT ![at] = e], Extend(m, id, e))
<1> DEFINE new == [t EXCEPT ![at] = e]
           all == Extend(m, id, e)
<1>1. Used(new) = Used(t) \cup {at} /\ at \notin Used(t)
  BY DEF Used
<1>2. new[at] = e /\ \A x \in Used(t) : new[x] = t[x]
  BY DEF Used
<1>3. /\ DOMAIN all = DOMAIN m \cup {id} /\ all[id] = e
      /\ \A k \in DOMAIN m : all[k] = m[k]
      /\ all = [k \in DOMAIN all |-> all[k]]
  BY DEF Extend
<1> HIDE DEF new, all
<1>4. \A x \in Used(new) : new[x].id \in DOMAIN all /\ all[new[x].id] = new[x]
  BY <1>1, <1>2, <1>3 DEF Match
<1>5. \A x, y \in Used(new) : new[x].id = new[y].id => x = y
  BY <1>1, <1>2 DEF Match
<1>6. \A k \in DOMAIN all : \E x \in Used(new) : new[x].id = k
  BY <1>1, <1>2, <1>3 DEF Match
<1>7. Match(new, all)
  BY <1>3, <1>4, <1>5, <1>6 DEF Match
<1> QED
  BY <1>7 DEF new, all

\* An item's entry is overwritten in its slot.
LEMMA MatchUpdate ==
  ASSUME NEW t, NEW m, Match(t, m), NEW at \in Used(t),
         NEW e, e.id = t[at].id, e # None,
         NEW new, DOMAIN new = DOMAIN t, new[at] = e, \A x \in DOMAIN t \ {at} : new[x] = t[x],
         NEW all, DOMAIN all = DOMAIN m, all = [id \in DOMAIN all |-> all[id]], all[e.id] = e,
         \A id \in DOMAIN m \ {e.id} : all[id] = m[id]
  PROVE  Match(new, all)
<1>1. e.id \in DOMAIN m
  BY DEF Match
<1>2. Used(new) = Used(t) /\ \A x \in Used(t) \ {at} : new[x] = t[x]
  BY DEF Used
<1>3. \A x \in Used(new) : new[x].id = t[x].id
  BY <1>2
<1>4. \A x \in Used(new) : new[x].id \in DOMAIN all /\ all[new[x].id] = new[x]
  <2> TAKE x \in Used(new)
  <2>1. CASE x = at
    BY <1>1, <2>1
  <2>2. CASE x # at
    <3>1. x \in Used(t) /\ new[x] = t[x] /\ t[x].id # e.id /\ t[x].id \in DOMAIN m
      BY <1>2, <2>2 DEF Match
    <3> QED
      BY <3>1 DEF Match
  <2> QED
    BY <2>1, <2>2
<1>5. \A x, y \in Used(new) : new[x].id = new[y].id => x = y
  BY <1>2, <1>3 DEF Match
<1>6. \A id \in DOMAIN all : \E x \in Used(new) : new[x].id = id
  BY <1>2, <1>3 DEF Match
<1> QED
  BY <1>4, <1>5, <1>6 DEF Match

\* The slots of some items are zeroed.
LEMMA MatchClear ==
  ASSUME NEW t, NEW m, Match(t, m), NEW gone, NEW new, DOMAIN new = DOMAIN t,
         \A x \in DOMAIN t :
           new[x] = IF t[x] # None /\ t[x].id \in gone THEN None ELSE t[x]
  PROVE  Match(new, Restrict(m, DOMAIN m \ gone))
<1> DEFINE all == Restrict(m, DOMAIN m \ gone)
<1>1. /\ Used(new) = {x \in Used(t) : t[x].id \notin gone}
      /\ \A x \in Used(new) : new[x] = t[x]
  BY DEF Used
<1>2. /\ DOMAIN all = DOMAIN m \ gone
      /\ all = [k \in DOMAIN all |-> all[k]]
      /\ \A k \in DOMAIN all : all[k] = m[k]
  BY DEF Restrict
<1> HIDE DEF all
<1>3. \A x \in Used(new) : new[x].id \in DOMAIN all /\ all[new[x].id] = new[x]
  BY <1>1, <1>2 DEF Match
<1>4. \A x, y \in Used(new) : new[x].id = new[y].id => x = y
  BY <1>1 DEF Match
<1>5. ASSUME NEW id \in DOMAIN all PROVE \E x \in Used(new) : new[x].id = id
  <2>1. id \in DOMAIN m /\ id \notin gone
    BY <1>2
  <2>2. PICK x \in Used(t) : t[x].id = id
    BY <2>1 DEF Match
  <2>3. x \in Used(new) /\ new[x] = t[x]
    BY <1>1, <2>1, <2>2
  <2> QED
    BY <2>2, <2>3
<1>6. Match(new, all)
  BY <1>2, <1>3, <1>4, <1>5 DEF Match
<1> QED
  BY <1>6 DEF all

\* The map is the one Archive::open builds from the entries found.
ById(S) == [id \in {e.id : e \in S} |-> CHOOSE e \in S : e.id = id]

EntriesIn(t) == {t[x] : x \in Used(t)}

\* There is one map a table matches: the one opening would build.
LEMMA MatchUnique ==
  ASSUME NEW t, NEW m, Match(t, m)
  PROVE  /\ ById(EntriesIn(t)) = m
         /\ \A e : e \in EntriesIn(t) <=> \E id \in DOMAIN m : e = m[id]
<1> DEFINE S == EntriesIn(t)
<1>1. \A id \in DOMAIN m : m[id] \in S /\ m[id].id = id
  BY MatchId DEF EntriesIn
<1>2. \A e \in S : e.id \in DOMAIN m /\ e = m[e.id]
  BY DEF EntriesIn, Match
<1> HIDE DEF S
<1>3. {e.id : e \in S} = DOMAIN m
  BY <1>1, <1>2
<1>4. \A id \in DOMAIN m : (CHOOSE e \in S : e.id = id) = m[id]
  BY <1>1, <1>2
<1>5. m = [id \in DOMAIN m |-> m[id]]
  BY DEF Match
<1>6. ById(S) = m
  BY <1>3, <1>4, <1>5 DEF ById
<1>7. \A e : e \in S <=> \E id \in DOMAIN m : e = m[id]
  BY <1>1, <1>2
<1> QED
  BY <1>6, <1>7 DEF S

-----------------------------------------------------------------------------
(***************************************************************************)
(* The directory listings.  ListingOf is what they should be; dirs_content *)
(* is kept by hand by every operation.                                     *)
(***************************************************************************)
Kids(m, p) == {id \in DOMAIN m : m[id].parent_dir = p}

NamesOf(m, p) == {m[id].name : id \in Kids(m, p)}

NamesBut(m, p, gone) == {m[id].name : id \in Kids(m, p) \ gone}

ListingOf(ds, fs) ==
  [p \in {Root} \cup DOMAIN ds |->
     [dirs |-> Kids(ds, p), files |-> Kids(fs, p), names |-> NamesOf(ds, p) \cup NamesOf(fs, p)]]

Siblings(x, y) == x.parent_dir = y.parent_dir /\ x.name = y.name

\* Every item is in a directory that is there and older, and no two items
\* have the same path.
Tree(ds, fs) ==
  /\ \A d \in DOMAIN ds : ds[d].parent_dir \in {Root} \cup DOMAIN ds
  /\ \A f \in DOMAIN fs : fs[f].parent_dir \in {Root} \cup DOMAIN ds
  /\ \A d \in DOMAIN ds : ds[d].parent_dir < d
  /\ \A d, e \in DOMAIN ds : d # e => ~Siblings(ds[d], ds[e])
  /\ \A f, g \in DOMAIN fs : f # g => ~Siblings(fs[f], fs[g])
  /\ \A d \in DOMAIN ds : \A f \in DOMAIN fs : ~Siblings(ds[d], fs[f])

\* The listing of a directory, field by field.
LEMMA ListingFields ==
  ASSUME NEW ds, NEW fs, NEW p \in {Root} \cup DOMAIN ds
  PROVE  /\ ListingOf(ds, fs)[p].dirs = Kids(ds, p)
         /\ ListingOf(ds, fs)[p].files = Kids(fs, p)
         /\ ListingOf(ds, fs)[p].names = NamesOf(ds, p) \cup NamesOf(fs, p)
BY DEF ListingOf

\* An item is added to a map.
LEMMA KidsInsert ==
  ASSUME NEW m, NEW id, id \notin DOMAIN m, NEW e, NEW p
  PROVE  /\ Kids(Extend(m, id, e), p) =
              IF e.parent_dir = p THEN Kids(m, p) \cup {id} ELSE Kids(m, p)
         /\ NamesOf(Extend(m, id, e), p) =
              IF e.parent_dir = p THEN NamesOf(m, p) \cup {e.name} ELSE NamesOf(m, p)
<1> DEFINE all == Extend(m, id, e)
<1>1. /\ DOMAIN all = DOMAIN m \cup {id} /\ all[id] = e
      /\ \A k \in DOMAIN m : all[k] = m[k]
  BY DEF Extend
<1> HIDE DEF all
<1>2. Kids(all, p) = IF e.parent_dir = p THEN Kids(m, p) \cup {id} ELSE Kids(m, p)
  BY <1>1 DEF Kids
<1>3. \A k \in Kids(m, p) : k \in DOMAIN m /\ all[k] = m[k]
  BY <1>1 DEF Kids
<1>4. NamesOf(all, p) = IF e.parent_dir = p THEN NamesOf(m, p) \cup {e.name} ELSE NamesOf(m, p)
  BY <1>1, <1>2, <1>3 DEF NamesOf
<1> QED
  BY <1>2, <1>4 DEF all

\* Items are taken out of a map.
LEMMA KidsRestrict ==
  ASSUME NEW m, NEW gone, NEW p
  PROVE  /\ Kids(Restrict(m, DOMAIN m \ gone), p) = Kids(m, p) \ gone
         /\ NamesOf(Restrict(m, DOMAIN m \ gone), p) = NamesBut(m, p, gone)
<1> DEFINE all == Restrict(m, DOMAIN m \ gone)
<1>1. DOMAIN all = DOMAIN m \ gone /\ \A k \in DOMAIN all : all[k] = m[k]
  BY DEF Restrict
<1> HIDE DEF all
<1>2. Kids(all, p) = Kids(m, p) \ gone
  BY <1>1 DEF Kids
<1>3. \A k \in Kids(m, p) \ gone : all[k] = m[k]
  BY <1>1 DEF Kids
<1>4. NamesOf(all, p) = NamesBut(m, p, gone)
  BY <1>2, <1>3 DEF NamesOf, NamesBut
<1> QED
  BY <1>2, <1>4 DEF all

-----------------------------------------------------------------------------
(* What each operation makes of the tree and its listings *)

\* No item is in a directory that is not there.
LEMMA NoKids ==
  ASSUME NEW ds, NEW fs, Tree(ds, fs), NEW id, id \notin {Root} \cup DOMAIN ds
  PROVE  Kids(ds, id) = {} /\ Kids(fs, id) = {} /\ NamesOf(ds, id) = {} /\ NamesOf(fs, id) = {}
BY DEF Tree, Kids, NamesOf

\* create_dir.
LEMMA ListingAddDir ==
  ASSUME NEW ds, NEW fs, Tree(ds, fs), NEW dc, dc = ListingOf(ds, fs),
         NEW id, id \notin {Root} \cup DOMAIN ds,
         NEW p \in {Root} \cup DOMAIN ds, NEW name, name \notin dc[p].names,
         NEW e, e.parent_dir = p, e.name = name,
         NEW listing, DOMAIN listing = DOMAIN dc,
         listing[p] = [dirs  |-> dc[p].dirs \cup {id}, files |-> dc[p].files,
                       names |-> dc[p].names \cup {name}],
         \A q \in DOMAIN dc \ {p} : listing[q] = dc[q]
  PROVE  Extend(listing, id, [dirs |-> {}, files |-> {}, names |-> {}])
           = ListingOf(Extend(ds, id, e), fs)
<1> DEFINE new == Extend(listing, id, [dirs |-> {}, files |-> {}, names |-> {}])
           all == Extend(ds, id, e)
<1>1. DOMAIN dc = {Root} \cup DOMAIN ds
  BY DEF ListingOf
<1>2. /\ dc[p].dirs = Kids(ds, p) /\ dc[p].files = Kids(fs, p)
      /\ dc[p].names = NamesOf(ds, p) \cup NamesOf(fs, p)
  BY ListingFields
<1>3. listing[p] = [dirs  |-> Kids(ds, p) \cup {id}, files |-> Kids(fs, p),
                    names |-> (NamesOf(ds, p) \cup NamesOf(fs, p)) \cup {name}]
  BY <1>2
<1>4. /\ DOMAIN new = DOMAIN dc \cup {id} /\ new = [q \in DOMAIN new |-> new[q]]
      /\ new[id] = [dirs |-> {}, files |-> {}, names |-> {}]
      /\ \A q \in DOMAIN dc : new[q] = listing[q]
  BY <1>1, <1>3 DEF Extend
<1>5. DOMAIN all = DOMAIN ds \cup {id}
  BY DEF Extend
<1> HIDE DEF new, all
<1>6. ASSUME NEW q \in {Root} \cup DOMAIN all
      PROVE  new[q] = [dirs |-> Kids(all, q), files |-> Kids(fs, q),
                       names |-> NamesOf(all, q) \cup NamesOf(fs, q)]
  <2>0. /\ Kids(all, q) = IF p = q THEN Kids(ds, q) \cup {id} ELSE Kids(ds, q)
        /\ NamesOf(all, q) = IF p = q THEN NamesOf(ds, q) \cup {name} ELSE NamesOf(ds, q)
    BY KidsInsert DEF all
  <2>1. CASE q = id
    BY <1>4, <2>0, <2>1, NoKids
  <2>2. CASE q = p
    <3>1. new[q] = listing[p]
      BY <1>1, <1>4, <2>2
    <3>2. NamesOf(all, q) \cup NamesOf(fs, q) = (NamesOf(ds, p) \cup NamesOf(fs, p)) \cup {name}
      BY <2>0, <2>2
    <3> QED
      BY <1>3, <2>0, <2>2, <3>1, <3>2
  <2>3. CASE q # id /\ q # p
    <3>1. q \in DOMAIN dc /\ new[q] = dc[q]
      BY <1>1, <1>3, <1>4, <1>5, <2>3
    <3> QED
      BY <1>1, <2>0, <2>3, <3>1 DEF ListingOf
  <2> QED
    BY <2>1, <2>2, <2>3
<1>7. DOMAIN new = {Root} \cup DOMAIN all
  BY <1>1, <1>4, <1>5
<1>8. new = ListingOf(all, fs)
  BY <1>4, <1>6, <1>7 DEF ListingOf
<1> QED
  BY <1>8 DEF new, all

\* create_dir: the tree stays one.
LEMMA TreeAddDir ==
  ASSUME NEW ds, NEW fs, Tree(ds, fs), NEW dc, dc = ListingOf(ds, fs),
         NEW id, id \notin DOMAIN ds,
         NEW p \in {Root} \cup DOMAIN ds, p < id, NEW name, name \notin dc[p].names,
         NEW e, e.parent_dir = p, e.name = name
  PROVE  Tree(Extend(ds, id, e), fs)
<1> DEFINE all == Extend(ds, id, e)
<1>1. /\ DOMAIN all = DOMAIN ds \cup {id} /\ all[id] = e
      /\ \A k \in DOMAIN ds : all[k] = ds[k]
  BY DEF Extend
<1>2. dc[p].names = NamesOf(ds, p) \cup NamesOf(fs, p)
  BY ListingFields
<1>3. \A d \in DOMAIN ds : ~Siblings(e, ds[d]) /\ ~Siblings(ds[d], e)
  BY <1>2 DEF Siblings, NamesOf, Kids
<1>4. \A f \in DOMAIN fs : ~Siblings(e, fs[f])
  BY <1>2 DEF Siblings, NamesOf, Kids
<1> HIDE DEF all
<1>5. /\ \A d \in DOMAIN all : all[d].parent_dir \in {Root} \cup DOMAIN all
      /\ \A d \in DOMAIN all : all[d].parent_dir < d
      /\ \A f \in DOMAIN fs : fs[f].parent_dir \in {Root} \cup DOMAIN all
  BY <1>1 DEF Tree
<1>6. \A d, k \in DOMAIN all : d # k => ~Siblings(all[d], all[k])
  BY <1>1, <1>3 DEF Tree
<1>7. \A d \in DOMAIN all : \A f \in DOMAIN fs : ~Siblings(all[d], fs[f])
  BY <1>1, <1>4 DEF Tree
<1>8. Tree(all, fs)
  BY <1>5, <1>6, <1>7 DEF Tree
<1> QED
  BY <1>8 DEF all

\* create_file.
LEMMA ListingAddFile ==
  ASSUME NEW ds, NEW fs, NEW dc, dc = ListingOf(ds, fs), NEW id, id \notin DOMAIN fs,
         NEW p \in {Root} \cup DOMAIN ds, NEW name,
         NEW e, e.parent_dir = p, e.name = name,
         NEW listing, DOMAIN listing = DOMAIN dc,
         listing = [q \in DOMAIN listing |-> listing[q]],
         listing[p] = [dirs  |-> dc[p].dirs, files |-> dc[p].files \cup {id},
                       names |-> dc[p].names \cup {name}],
         \A q \in DOMAIN dc \ {p} : listing[q] = dc[q]
  PROVE  listing = ListingOf(ds, Extend(fs, id, e))
<1> DEFINE all == Extend(fs, id, e)
<1>1. DOMAIN dc = {Root} \cup DOMAIN ds
  BY DEF ListingOf
<1>2. /\ dc[p].dirs = Kids(ds, p) /\ dc[p].files = Kids(fs, p)
      /\ dc[p].names = NamesOf(ds, p) \cup NamesOf(fs, p)
  BY ListingFields
<1>3. listing[p] = [dirs  |-> Kids(ds, p), files |-> Kids(fs, p) \cup {id},
                    names |-> (NamesOf(ds, p) \cup NamesOf(fs, p)) \cup {name}]
  BY <1>2
<1> HIDE DEF all
<1>4. ASSUME NEW q \in {Root} \cup DOMAIN ds
      PROVE  listing[q] = [dirs |-> Kids(ds, q), files |-> Kids(all, q),
                           names |-> NamesOf(ds, q) \cup NamesOf(all, q)]
  <2>0. /\ Kids(all, q) = IF p = q THEN Kids(fs, q) \cup {id} ELSE Kids(fs, q)
        /\ NamesOf(all, q) = IF p = q THEN NamesOf(fs, q) \cup {name} ELSE NamesOf(fs, q)
    BY KidsInsert DEF all
  <2>1. CASE q = p
    <3>1. NamesOf(ds, q) \cup NamesOf(all, q) = (NamesOf(ds, p) \cup NamesOf(fs, p)) \cup {name}
      BY <2>0, <2>1
    <3> QED
      BY <1>3, <2>0, <2>1, <3>1
  <2>2. CASE q # p
    <3>1. q \in DOMAIN dc /\ listing[q] = dc[q]
      BY <1>1, <1>3, <2>2
    <3> QED
      BY <1>1, <2>0, <2>2, <3>1 DEF ListingOf
  <2> QED
    BY <2>1, <2>2
<1>5. listing = ListingOf(ds, all)
  BY <1>1, <1>4 DEF ListingOf
<1> QED
  BY <1>5 DEF all

\* create_file: the tree stays one.
LEMMA TreeAddFile ==
  ASSUME NEW ds, NEW fs, Tree(ds, fs), NEW dc, dc = ListingOf(ds, fs),
         NEW id, id \notin DOMAIN fs,
         NEW p \in {Root} \cup DOMAIN ds, NEW name, name \notin dc[p].names,
         NEW e, e.parent_dir = p, e.name = name
  PROVE  Tree(ds, Extend(fs, id, e))
<1> DEFINE all == Extend(fs, id, e)
<1>1. /\ DOMAIN all = DOMAIN fs \cup {id} /\ all[id] = e
      /\ \A k \in DOMAIN fs : all[k] = fs[k]
  BY DEF Extend
<1>2. dc[p].names = NamesOf(ds, p) \cup NamesOf(fs, p)
  BY ListingFields
<1>3. \A f \in DOMAIN fs : ~Siblings(e, fs[f]) /\ ~Siblings(fs[f], e)
  BY <1>2 DEF Siblings, NamesOf, Kids
<1>4. \A d \in DOMAIN ds : ~Siblings(ds[d], e)
  BY <1>2 DEF Siblings, NamesOf, Kids
<1> HIDE DEF all
<1>5. \A f \in DOMAIN all : all[f].parent_dir \in {Root} \cup DOMAIN ds
  BY <1>1 DEF Tree
<1>6. \A f, k \in DOMAIN all : f # k => ~Siblings(all[f], all[k])
  BY <1>1, <1>3 DEF Tree
<1>7. \A d \in DOMAIN ds : \A f \in DOMAIN all : ~Siblings(ds[d], all[f])
  BY <1>1, <1>4 DEF Tree
<1>8. Tree(ds, all)
  BY <1>5, <1>6, <1>7 DEF Tree
<1> QED
  BY <1>8 DEF all

\* One value of a function is another.
Updated(f, x, y, new) ==
  /\ DOMAIN new = DOMAIN f /\ new = [z \in DOMAIN new |-> new[z]]
  /\ new[x] = y
  /\ \A z \in DOMAIN f \ {x} : new[z] = f[z]

\* replace_file_content: the file stays where it is, under its name.
LEMMA TreeSameFile ==
  ASSUME NEW ds, NEW fs, Tree(ds, fs), NEW id \in DOMAIN fs,
         NEW e, e.parent_dir = fs[id].parent_dir, e.name = fs[id].name,
         NEW all, Updated(fs, id, e, all)
  PROVE  /\ Tree(ds, all)
         /\ ListingOf(ds, all) = ListingOf(ds, fs)
<1>1. DOMAIN all = DOMAIN fs /\ all[id] = e /\ \A k \in DOMAIN fs \ {id} : all[k] = fs[k]
  BY DEF Updated
<1>2. \A f \in DOMAIN all : all[f].parent_dir = fs[f].parent_dir /\ all[f].name = fs[f].name
  BY <1>1
<1>3. ASSUME NEW p
      PROVE  Kids(all, p) = Kids(fs, p) /\ NamesOf(all, p) = NamesOf(fs, p)
  <2>1. Kids(all, p) = Kids(fs, p)
    BY <1>1, <1>2 DEF Kids
  <2> QED
    BY <1>1, <1>2, <2>1 DEF NamesOf, Kids
<1>4. ListingOf(ds, all) = ListingOf(ds, fs)
  BY <1>3 DEF ListingOf
<1>5. Tree(ds, all)
  BY <1>1, <1>2 DEF Tree, Siblings
<1> QED
  BY <1>4, <1>5

RenamedListing(listing, old, name) ==
  [dirs |-> listing.dirs, files |-> listing.files, names |-> (listing.names \ {old}) \cup {name}]

\* An entry e takes the place of entry id, under a name free in the directory p;
\* new is the listings dc with that name in the place of the old one.
RenamedEntry(es, dc, id, p, old, name, e, new) ==
  /\ p = es[id].parent_dir /\ old = es[id].name
  /\ name \notin dc[p].names
  /\ e.parent_dir = p /\ e.name = name
  /\ Updated(dc, p, RenamedListing(dc[p], old, name), new)

\* rename_directory.
LEMMA ListingRenameDir ==
  ASSUME NEW ds, NEW fs, Tree(ds, fs), NEW dc, dc = ListingOf(ds, fs),
         NEW id \in DOMAIN ds, NEW p, NEW old, NEW name, NEW e, NEW new,
         RenamedEntry(ds, dc, id, p, old, name, e, new),
         NEW all, Updated(ds, id, e, all)
  PROVE  /\ new = ListingOf(all, fs)
         /\ Tree(all, fs)
<1> /\ p = ds[id].parent_dir /\ old = ds[id].name
    /\ name \notin dc[p].names /\ e.parent_dir = p /\ e.name = name
    /\ Updated(dc, p, RenamedListing(dc[p], old, name), new)
  BY DEF RenamedEntry
<1>0. p \in {Root} \cup DOMAIN ds /\ DOMAIN dc = {Root} \cup DOMAIN ds
  BY DEF Tree, ListingOf
<1>1. /\ DOMAIN all = DOMAIN ds /\ all[id] = e
      /\ \A k \in DOMAIN ds \ {id} : all[k] = ds[k]
      /\ \A k \in DOMAIN ds : all[k].parent_dir = ds[k].parent_dir
  BY DEF Updated
<1>2. /\ dc[p].dirs = Kids(ds, p) /\ dc[p].files = Kids(fs, p)
      /\ dc[p].names = NamesOf(ds, p) \cup NamesOf(fs, p)
  BY <1>0, ListingFields
<1>3. /\ new[p] = [dirs |-> Kids(ds, p), files |-> Kids(fs, p),
                   names |-> ((NamesOf(ds, p) \cup NamesOf(fs, p)) \ {old}) \cup {name}]
      /\ DOMAIN new = DOMAIN dc /\ new = [q \in DOMAIN new |-> new[q]]
      /\ \A q \in DOMAIN dc \ {p} : new[q] = dc[q]
  BY <1>2 DEF Updated, RenamedListing
<1>4. /\ NamesBut(ds, p, {id}) = NamesOf(ds, p) \ {old}
      /\ NamesOf(fs, p) = NamesOf(fs, p) \ {old}
  <2>1. \A k \in Kids(ds, p) \ {id} : ds[k].name # old
    BY DEF Tree, Siblings, Kids
  <2>2. id \in Kids(ds, p)
    BY DEF Kids
  <2>3. NamesBut(ds, p, {id}) = NamesOf(ds, p) \ {old}
    BY <2>1, <2>2 DEF NamesOf, NamesBut
  <2>4. \A k \in Kids(fs, p) : fs[k].name # old
    BY DEF Tree, Siblings, Kids
  <2>5. old \notin NamesOf(fs, p)
    BY <2>4 DEF NamesOf
  <2> QED
    BY <2>3, <2>5
<1>5. ASSUME NEW q \in {Root} \cup DOMAIN ds
      PROVE  new[q] = [dirs |-> Kids(all, q), files |-> Kids(fs, q), names |-> NamesOf(all, q) \cup NamesOf(fs, q)]
  <2>1. /\ Kids(all, q) = Kids(ds, q)
        /\ q # p => NamesOf(all, q) = NamesOf(ds, q)
        /\ q = p => NamesOf(all, q) = NamesBut(ds, q, {id}) \cup {name}
    <3>1. Kids(all, q) = Kids(ds, q)
      BY <1>1 DEF Kids
    <3>2. \A k \in Kids(ds, q) \ {id} : all[k] = ds[k]
      BY <1>1 DEF Kids
    <3>3. ASSUME q # p PROVE NamesOf(all, q) = NamesOf(ds, q)
      <4>1. \A k \in Kids(ds, q) : all[k] = ds[k]
        BY <3>2, <3>3 DEF Kids
      <4> QED
        BY <3>1, <4>1 DEF NamesOf
    <3>4. ASSUME q = p PROVE NamesOf(all, q) = NamesBut(ds, q, {id}) \cup {name}
      <4>1. id \in Kids(ds, q)
        BY <3>4 DEF Kids
      <4> QED
        BY <1>1, <3>1, <3>2, <4>1 DEF NamesOf, NamesBut
    <3> QED
      BY <3>1, <3>3, <3>4
  <2>2. CASE q = p
    <3>1. NamesOf(all, p) = NamesBut(ds, p, {id}) \cup {name}
      BY <2>1, <2>2
    <3>2. ((NamesOf(ds, p) \cup NamesOf(fs, p)) \ {old}) \cup {name}
            = NamesOf(all, p) \cup NamesOf(fs, p)
      BY <1>4, <3>1
    <3> QED
      BY <1>3, <2>1, <2>2, <3>2
  <2>3. CASE q # p
    <3>1. new[q] = dc[q]
      BY <1>0, <1>3, <2>3
    <3> QED
      BY <2>1, <2>3, <3>1 DEF ListingOf
  <2> QED
    BY <2>2, <2>3
<1>6. \A k \in DOMAIN ds : ~Siblings(e, ds[k]) /\ ~Siblings(ds[k], e)
  BY <1>2 DEF Siblings, NamesOf, Kids
<1>7. \A f \in DOMAIN fs : ~Siblings(e, fs[f])
  BY <1>2 DEF Siblings, NamesOf, Kids
<1>8. new = ListingOf(all, fs)
  BY <1>0, <1>1, <1>3, <1>5 DEF ListingOf
<1>9. \A k \in DOMAIN all : all[k].parent_dir < k
  BY <1>1 DEF Tree
<1>10. \A k, l \in DOMAIN all : k # l => ~Siblings(all[k], all[l])
  BY <1>1, <1>6 DEF Tree
<1>11. \A k \in DOMAIN all : \A f \in DOMAIN fs : ~Siblings(all[k], fs[f])
  BY <1>1, <1>7 DEF Tree
<1>12. Tree(all, fs)
  BY <1>1, <1>9, <1>10, <1>11 DEF Tree
<1> QED
  BY <1>8, <1>12

\* rename_file.
LEMMA ListingRenameFile ==
  ASSUME NEW ds, NEW fs, Tree(ds, fs), NEW dc, dc = ListingOf(ds, fs),
         NEW id \in DOMAIN fs, NEW p, NEW old, NEW name, NEW e, NEW new,
         RenamedEntry(fs, dc, id, p, old, name, e, new),
         NEW all, Updated(fs, id, e, all)
  PROVE  /\ new = ListingOf(ds, all)
         /\ Tree(ds, all)
<1> /\ p = fs[id].parent_dir /\ old = fs[id].name
    /\ name \notin dc[p].names /\ e.parent_dir = p /\ e.name = name
    /\ Updated(dc, p, RenamedListing(dc[p], old, name), new)
  BY DEF RenamedEntry
<1>0. p \in {Root} \cup DOMAIN ds /\ DOMAIN dc = {Root} \cup DOMAIN ds
  BY DEF Tree, ListingOf
<1>1. /\ DOMAIN all = DOMAIN fs /\ all[id] = e
      /\ \A k \in DOMAIN fs \ {id} : all[k] = fs[k]
      /\ \A k \in DOMAIN fs : all[k].parent_dir = fs[k].parent_dir
  BY DEF Updated
<1>2. /\ dc[p].dirs = Kids(ds, p) /\ dc[p].files = Kids(fs, p)
      /\ dc[p].names = NamesOf(ds, p) \cup NamesOf(fs, p)
  BY <1>0, ListingFields
<1>3. /\ new[p] = [dirs |-> Kids(ds, p), files |-> Kids(fs, p),
                   names |-> ((NamesOf(ds, p) \cup NamesOf(fs, p)) \ {old}) \cup {name}]
      /\ DOMAIN new = DOMAIN dc /\ new = [q \in DOMAIN new |-> new[q]]
      /\ \A q \in DOMAIN dc \ {p} : new[q] = dc[q]
  BY <1>2 DEF Updated, RenamedListing
<1>4. /\ NamesBut(fs, p, {id}) = NamesOf(fs, p) \ {old}
      /\ NamesOf(ds, p) = NamesOf(ds, p) \ {old}
  <2>1. \A k \in Kids(fs, p) \ {id} : fs[k].name # old
    BY DEF Tree, Siblings, Kids
  <2>2. id \in Kids(fs, p)
    BY DEF Kids
  <2>3. NamesBut(fs, p, {id}) = NamesOf(fs, p) \ {old}
    BY <2>1, <2>2 DEF NamesOf, NamesBut
  <2>4. \A k \in Kids(ds, p) : ds[k].name # old
    BY DEF Tree, Siblings, Kids
  <2>5. old \notin NamesOf(ds, p)
    BY <2>4 DEF NamesOf
  <2> QED
    BY <2>3, <2>5
<1>5. ASSUME NEW q \in {Root} \cup DOMAIN ds
      PROVE  new[q] = [dirs |-> Kids(ds, q), files |-> Kids(all, q), names |-> NamesOf(ds, q) \cup NamesOf(all, q)]
  <2>1. /\ Kids(all, q) = Kids(fs, q)
        /\ q # p => NamesOf(all, q) = NamesOf(fs, q)
        /\ q = p => NamesOf(all, q) = NamesBut(fs, q, {id}) \cup {name}
    <3>1. Kids(all, q) = Kids(fs, q)
      BY <1>1 DEF Kids
    <3>2. \A k \in Kids(fs, q) \ {id} : all[k] = fs[k]
      BY <1>1 DEF Kids
    <3>3. ASSUME q # p PROVE NamesOf(all, q) = NamesOf(fs, q)
      <4>1. \A k \in Kids(fs, q) : all[k] = fs[k]
        BY <3>2, <3>3 DEF Kids
      <4> QED
        BY <3>1, <4>1 DEF NamesOf
    <3>4. ASSUME q = p PROVE NamesOf(all, q) = NamesBut(fs, q, {id}) \cup {name}
      <4>1. id \in Kids(fs, q)
        BY <3>4 DEF Kids
      <4> QED
        BY <1>1, <3>1, <3>2, <4>1 DEF NamesOf, NamesBut
    <3> QED
      BY <3>1, <3>3, <3>4
  <2>2. CASE q = p
    <3>1. NamesOf(all, p) = NamesBut(fs, p, {id}) \cup {name}
      BY <2>1, <2>2
    <3>2. ((NamesOf(ds, p) \cup NamesOf(fs, p)) \ {old}) \cup {name}
            = NamesOf(ds, p) \cup NamesOf(all, p)
      BY <1>4, <3>1
    <3> QED
      BY <1>3, <2>1, <2>2, <3>2
  <2>3. CASE q # p
    <3>1. new[q] = dc[q]
      BY <1>0, <1>3, <2>3
    <3> QED
      BY <2>1, <2>3, <3>1 DEF ListingOf
  <2> QED
    BY <2>2, <2>3
<1>6. \A k \in DOMAIN fs : ~Siblings(e, fs[k]) /\ ~Siblings(fs[k], e)
  BY <1>2 DEF Siblings, NamesOf, Kids
<1>7. \A d \in DOMAIN ds : ~Siblings(ds[d], e)
  BY <1>2 DEF Siblings, NamesOf, Kids
<1>8. new = ListingOf(ds, all)
  BY <1>0, <1>1, <1>3, <1>5 DEF ListingOf
<1>10. \A k, l \in DOMAIN all : k # l => ~Siblings(all[k], all[l])
  BY <1>1, <1>6 DEF Tree
<1>11. \A d \in DOMAIN ds : \A k \in DOMAIN all : ~Siblings(ds[d], all[k])
  BY <1>1, <1>7 DEF Tree
<1>12. Tree(ds, all)
  BY <1>1, <1>10, <1>11 DEF Tree
<1> QED
  BY <1>8, <1>12

\* new is dc without the directories and files that are gone.
AllWithout(ds, fs, dc, gone_dirs, gone_files, new) ==
  /\ new = [p \in DOMAIN new |-> new[p]] /\ DOMAIN new = DOMAIN dc \ gone_dirs
  /\ \A p \in DOMAIN new : new[p] = ListingWithout(ds, fs, dc[p], gone_dirs, gone_files)

\* remove_dir and remove_file: directories go with all that is in them.
LEMMA ListingRemove ==
  ASSUME NEW ds, NEW fs, Tree(ds, fs), NEW dc, dc = ListingOf(ds, fs),
         NEW gone_dirs \in SUBSET DOMAIN ds, NEW gone_files \in SUBSET DOMAIN fs,
         Root \notin DOMAIN ds,
         \A d \in gone_dirs : Kids(ds, d) \subseteq gone_dirs /\ Kids(fs, d) \subseteq gone_files,
         NEW new, AllWithout(ds, fs, dc, gone_dirs, gone_files, new)
  PROVE  LET new_ds == Restrict(ds, DOMAIN ds \ gone_dirs)
             new_fs == Restrict(fs, DOMAIN fs \ gone_files)
         IN  Tree(new_ds, new_fs) /\ new = ListingOf(new_ds, new_fs)
<1> DEFINE new_ds == Restrict(ds, DOMAIN ds \ gone_dirs)
           new_fs == Restrict(fs, DOMAIN fs \ gone_files)
           gone_names(p) == {ds[d].name : d \in gone_dirs \cap dc[p].dirs}
                              \cup {fs[f].name : f \in gone_files \cap dc[p].files}
<1>0. DOMAIN dc = {Root} \cup DOMAIN ds
  BY DEF ListingOf
<1>1. /\ DOMAIN new_ds = DOMAIN ds \ gone_dirs /\ \A d \in DOMAIN new_ds : new_ds[d] = ds[d]
      /\ DOMAIN new_fs = DOMAIN fs \ gone_files /\ \A f \in DOMAIN new_fs : new_fs[f] = fs[f]
  BY DEF Restrict
<1>2. {Root} \cup DOMAIN new_ds = DOMAIN dc \ gone_dirs
  BY <1>0, <1>1
<1>3. ASSUME NEW p \in {Root} \cup DOMAIN ds
      PROVE  /\ dc[p].dirs \ gone_dirs = Kids(new_ds, p)
             /\ dc[p].files \ gone_files = Kids(new_fs, p)
             /\ dc[p].names \ gone_names(p) = NamesOf(new_ds, p) \cup NamesOf(new_fs, p)
  <2>1. /\ dc[p].dirs = Kids(ds, p) /\ dc[p].files = Kids(fs, p)
        /\ dc[p].names = NamesOf(ds, p) \cup NamesOf(fs, p)
    BY ListingFields
  <2>2. /\ Kids(new_ds, p) = Kids(ds, p) \ gone_dirs
        /\ NamesOf(new_ds, p) = NamesBut(ds, p, gone_dirs)
        /\ Kids(new_fs, p) = Kids(fs, p) \ gone_files
        /\ NamesOf(new_fs, p) = NamesBut(fs, p, gone_files)
    <3>1. /\ Kids(new_ds, p) = Kids(ds, p) \ gone_dirs
          /\ NamesOf(new_ds, p) = NamesBut(ds, p, gone_dirs)
      BY KidsRestrict
    <3>2. /\ Kids(new_fs, p) = Kids(fs, p) \ gone_files
          /\ NamesOf(new_fs, p) = NamesBut(fs, p, gone_files)
      BY KidsRestrict
    <3> QED
      BY <3>1, <3>2
  <2> DEFINE A == NamesBut(ds, p, gone_dirs)
             B == NamesBut(fs, p, gone_files)
             G == {ds[d].name : d \in gone_dirs \cap Kids(ds, p)}
             H == {fs[f].name : f \in gone_files \cap Kids(fs, p)}
  <2>3. NamesOf(ds, p) = A \cup G /\ NamesOf(fs, p) = B \cup H
    BY DEF NamesOf, NamesBut
  <2>4. A \cap G = {} /\ A \cap H = {} /\ B \cap G = {} /\ B \cap H = {}
    BY DEF Tree, Siblings, Kids, NamesBut
  <2>5. gone_names(p) = G \cup H
    BY <2>1
  <2>6. dc[p].names = (A \cup G) \cup (B \cup H)
    BY <2>1, <2>3
  <2>7. NamesOf(new_ds, p) \cup NamesOf(new_fs, p) = A \cup B
    BY <2>2
  <2> HIDE DEF A, B, G, H, gone_names
  <2>8. dc[p].names \ gone_names(p) = A \cup B
    BY <2>4, <2>5, <2>6
  <2> QED
    BY <2>1, <2>2, <2>7, <2>8
<1>4. Tree(new_ds, new_fs)
  <2> HIDE DEF new_ds, new_fs
  <2>1. \A d \in DOMAIN new_ds : new_ds[d].parent_dir \in {Root} \cup DOMAIN new_ds
    BY <1>1 DEF Tree, Kids
  <2>2. \A f \in DOMAIN new_fs : new_fs[f].parent_dir \in {Root} \cup DOMAIN new_ds
    BY <1>1 DEF Tree, Kids
  <2>3. \A d \in DOMAIN new_ds : new_ds[d].parent_dir < d
    BY <1>1 DEF Tree
  <2> QED
    BY <1>1, <2>1, <2>2, <2>3 DEF Tree
<1> HIDE DEF new_ds, new_fs, gone_names
<1>5. ASSUME NEW p \in {Root} \cup DOMAIN ds
      PROVE  ListingWithout(ds, fs, dc[p], gone_dirs, gone_files)
               = [dirs |-> Kids(new_ds, p), files |-> Kids(new_fs, p),
                  names |-> NamesOf(new_ds, p) \cup NamesOf(new_fs, p)]
  <2>1. ListingWithout(ds, fs, dc[p], gone_dirs, gone_files)
          = [dirs  |-> dc[p].dirs \ gone_dirs, files |-> dc[p].files \ gone_files,
             names |-> dc[p].names \ gone_names(p)]
    BY DEF ListingWithout, gone_names
  <2> QED
    BY <1>3, <2>1
<1>6. new = ListingOf(new_ds, new_fs)
  BY <1>0, <1>2, <1>5 DEF ListingOf, AllWithout
<1> QED
  BY <1>4, <1>6 DEF new_ds, new_fs

-----------------------------------------------------------------------------
(* The table as a whole *)

\* The slots of the table in use, and the entries they hold.
LEMMA UsedSlots ==
  ASSUME NEW segs
  PROVE  /\ Used(DirTable(segs)) = UsedDirSlots(segs)
         /\ Used(FileTable(segs)) = UsedFileSlots(segs)
         /\ \A x \in DirSlots(segs) : DirTable(segs)[x] = DirAt(segs, x)
         /\ \A x \in FileSlots(segs) : FileTable(segs)[x] = FileAt(segs, x)
         /\ DirsIn(segs) = EntriesIn(DirTable(segs))
         /\ FilesIn(segs) = EntriesIn(FileTable(segs))
<1>1. /\ DOMAIN DirTable(segs) = DirSlots(segs)
      /\ \A x \in DirSlots(segs) : DirTable(segs)[x] = DirAt(segs, x)
  BY DEF DirTable
<1>2. /\ DOMAIN FileTable(segs) = FileSlots(segs)
      /\ \A x \in FileSlots(segs) : FileTable(segs)[x] = FileAt(segs, x)
  BY DEF FileTable
<1>3. Used(DirTable(segs)) = UsedDirSlots(segs)
  BY <1>1 DEF Used, UsedDirSlots, FreeDirSlots
<1>4. Used(FileTable(segs)) = UsedFileSlots(segs)
  BY <1>2 DEF Used, UsedFileSlots, FreeFileSlots
<1>5. DirsIn(segs) = EntriesIn(DirTable(segs))
  <2>1. \A x \in UsedDirSlots(segs) : DirTable(segs)[x] = DirAt(segs, x)
    BY <1>1 DEF UsedDirSlots
  <2> QED
    BY <1>3, <2>1 DEF DirsIn, UsedDirSlots, EntriesIn
<1>6. FilesIn(segs) = EntriesIn(FileTable(segs))
  <2>1. \A x \in UsedFileSlots(segs) : FileTable(segs)[x] = FileAt(segs, x)
    BY <1>2 DEF UsedFileSlots
  <2> QED
    BY <1>4, <2>1 DEF FilesIn, UsedFileSlots, EntriesIn
<1> QED
  BY <1>1, <1>2, <1>3, <1>4, <1>5, <1>6

\* get_item_entry finds the item's slot.
LEMMA SlotOfDirFound ==
  ASSUME NEW segs, NEW ds, Match(DirTable(segs), ds), NEW id \in DOMAIN ds
  PROVE  /\ SlotOfDir(segs, id) \in Used(DirTable(segs))
         /\ DirTable(segs)[SlotOfDir(segs, id)] = ds[id]
         /\ DirAt(segs, SlotOfDir(segs, id)) = ds[id]
         /\ SlotOfDir(segs, id) \in DirSlots(segs)
<1>1. \E x \in UsedDirSlots(segs) : DirAt(segs, x).id = id
  BY UsedSlots DEF Match, UsedDirSlots
<1>2. SlotOfDir(segs, id) \in UsedDirSlots(segs) /\ DirAt(segs, SlotOfDir(segs, id)).id = id
  BY <1>1 DEF SlotOfDir, UsedDirSlots
<1>3. SlotOfDir(segs, id) \in DirSlots(segs)
  BY <1>2 DEF UsedDirSlots
<1>4. DirTable(segs)[SlotOfDir(segs, id)] = DirAt(segs, SlotOfDir(segs, id))
  BY <1>3, UsedSlots
<1>5. SlotOfDir(segs, id) \in Used(DirTable(segs))
  BY <1>2, UsedSlots
<1>6. DirTable(segs)[SlotOfDir(segs, id)] = ds[id]
  BY <1>2, <1>4, <1>5 DEF Match
<1> QED
  BY <1>3, <1>4, <1>5, <1>6

\* get_item_entry finds the slot of every file of the map.
LEMMA SlotOfFileFound ==
  ASSUME NEW segs, NEW fs, Match(FileTable(segs), fs), NEW id \in DOMAIN fs
  PROVE  /\ SlotOfFile(segs, id) \in Used(FileTable(segs))
         /\ FileTable(segs)[SlotOfFile(segs, id)] = fs[id]
         /\ FileAt(segs, SlotOfFile(segs, id)) = fs[id]
         /\ SlotOfFile(segs, id) \in FileSlots(segs)
<1>1. \E x \in UsedFileSlots(segs) : FileAt(segs, x).id = id
  BY UsedSlots DEF Match, UsedFileSlots
<1>2. SlotOfFile(segs, id) \in UsedFileSlots(segs) /\ FileAt(segs, SlotOfFile(segs, id)).id = id
  BY <1>1 DEF SlotOfFile, UsedFileSlots
<1>3. SlotOfFile(segs, id) \in FileSlots(segs)
  BY <1>2 DEF UsedFileSlots
<1>4. FileTable(segs)[SlotOfFile(segs, id)] = FileAt(segs, SlotOfFile(segs, id))
  BY <1>3, UsedSlots
<1>5. SlotOfFile(segs, id) \in Used(FileTable(segs))
  BY <1>2, UsedSlots
<1>6. FileTable(segs)[SlotOfFile(segs, id)] = fs[id]
  BY <1>2, <1>4, <1>5 DEF Match
<1> QED
  BY <1>3, <1>4, <1>5, <1>6

\* Opening a table builds the maps and the listings that match it.
LEMMA OpenBuildsIndex ==
  ASSUME NEW segs, NEW ds, NEW fs,
         Match(DirTable(segs), ds), Match(FileTable(segs), fs), Tree(ds, fs)
  PROVE  /\ DirsOf(segs) = ds
         /\ FilesOf(segs) = fs
         /\ DirsContentOf(segs) = ListingOf(ds, fs)
         /\ \A e : e \in DirsIn(segs) <=> \E id \in DOMAIN ds : e = ds[id]
         /\ \A e : e \in FilesIn(segs) <=> \E id \in DOMAIN fs : e = fs[id]
<1> DEFINE D == DirsIn(segs)
           F == FilesIn(segs)
<1>1. ById(D) = ds /\ \A e : e \in D <=> \E id \in DOMAIN ds : e = ds[id]
  BY UsedSlots, MatchUnique
<1>2. ById(F) = fs /\ \A e : e \in F <=> \E id \in DOMAIN fs : e = fs[id]
  BY UsedSlots, MatchUnique
<1>3. DirsOf(segs) = ds /\ FilesOf(segs) = fs
  BY <1>1, <1>2 DEF DirsOf, FilesOf, ById
<1>4. (\A d \in DOMAIN ds : ds[d].id = d) /\ (\A f \in DOMAIN fs : fs[f].id = f)
  BY MatchId
<1> HIDE DEF D, F
<1>5. {Root} \cup {d.id : d \in D} \cup {x.parent_dir : x \in D \cup F} = {Root} \cup DOMAIN ds
  <2>1. \A x \in D \cup F : x.parent_dir \in {Root} \cup DOMAIN ds
    BY <1>1, <1>2 DEF Tree
  <2>2. \A d \in DOMAIN ds : \E x \in D : x.id = d
    BY <1>1, <1>4
  <2>3. \A x \in D : x.id \in DOMAIN ds
    BY <1>1, <1>4
  <2>4. {d.id : d \in D} = DOMAIN ds
    BY <2>2, <2>3
  <2> QED
    BY <2>1, <2>4
<1>6. ASSUME NEW p
      PROVE  /\ {d.id : d \in {x \in D : x.parent_dir = p}} = Kids(ds, p)
             /\ {f.id : f \in {x \in F : x.parent_dir = p}} = Kids(fs, p)
             /\ {x.name : x \in {y \in D \cup F : y.parent_dir = p}}
                  = NamesOf(ds, p) \cup NamesOf(fs, p)
  <2>1. {d.id : d \in {x \in D : x.parent_dir = p}} = Kids(ds, p)
    <3>1. \A id \in Kids(ds, p) : \E x \in D : x.parent_dir = p /\ x.id = id
      BY <1>1, <1>4 DEF Kids
    <3>2. \A x \in D : x.parent_dir = p => x.id \in Kids(ds, p)
      BY <1>1, <1>4 DEF Kids
    <3> QED
      BY <3>1, <3>2
  <2>2. {f.id : f \in {x \in F : x.parent_dir = p}} = Kids(fs, p)
    <3>1. \A id \in Kids(fs, p) : \E x \in F : x.parent_dir = p /\ x.id = id
      BY <1>2, <1>4 DEF Kids
    <3>2. \A x \in F : x.parent_dir = p => x.id \in Kids(fs, p)
      BY <1>2, <1>4 DEF Kids
    <3> QED
      BY <3>1, <3>2
  <2>3. \A n : n \in NamesOf(ds, p) <=> \E y \in D : y.parent_dir = p /\ y.name = n
    BY <1>1 DEF NamesOf, Kids
  <2>4. \A n : n \in NamesOf(fs, p) <=> \E y \in F : y.parent_dir = p /\ y.name = n
    BY <1>2 DEF NamesOf, Kids
  <2>5. {x.name : x \in {y \in D \cup F : y.parent_dir = p}} = NamesOf(ds, p) \cup NamesOf(fs, p)
    BY <2>3, <2>4
  <2> QED
    BY <2>1, <2>2, <2>5
<1>7. DirsContentOf(segs) = ListingOf(ds, fs)
  BY <1>5, <1>6 DEF DirsContentOf, ListingOf, D, F
<1> QED
  BY <1>1, <1>2, <1>3, <1>7 DEF D, F

\* The health check of the table passes.
LEMMA OpenAcceptsTable ==
  ASSUME NEW segs, NEW ds, NEW fs,
         Match(DirTable(segs), ds), Match(FileTable(segs), fs), Tree(ds, fs)
  PROVE  TableIsCorrect(segs)
<1>1. ASSUME NEW x \in UsedDirSlots(segs)
      PROVE  DirAt(segs, x).id \in DOMAIN ds /\ DirAt(segs, x) = ds[DirAt(segs, x).id]
  <2>1. x \in Used(DirTable(segs)) /\ DirTable(segs)[x] = DirAt(segs, x)
    BY UsedSlots DEF UsedDirSlots
  <2> QED
    BY <2>1 DEF Match
<1>2. ASSUME NEW x \in UsedFileSlots(segs)
      PROVE  FileAt(segs, x).id \in DOMAIN fs /\ FileAt(segs, x) = fs[FileAt(segs, x).id]
  <2>1. x \in Used(FileTable(segs)) /\ FileTable(segs)[x] = FileAt(segs, x)
    BY UsedSlots DEF UsedFileSlots
  <2> QED
    BY <2>1 DEF Match
<1>3. \A x, y \in UsedDirSlots(segs) : x # y => DirAt(segs, x).id # DirAt(segs, y).id
  <2>1. \A x \in UsedDirSlots(segs) : x \in Used(DirTable(segs)) /\ DirTable(segs)[x] = DirAt(segs, x)
    BY UsedSlots DEF UsedDirSlots
  <2> QED
    BY <2>1 DEF Match
<1>4. \A x, y \in UsedFileSlots(segs) : x # y => FileAt(segs, x).id # FileAt(segs, y).id
  <2>1. \A x \in UsedFileSlots(segs) : x \in Used(FileTable(segs)) /\ FileTable(segs)[x] = FileAt(segs, x)
    BY UsedSlots DEF UsedFileSlots
  <2> QED
    BY <2>1 DEF Match
<1>5. \A x, y \in UsedDirSlots(segs) : x # y => ~Siblings(DirAt(segs, x), DirAt(segs, y))
  BY <1>1, <1>3 DEF Tree
<1>6. \A x, y \in UsedFileSlots(segs) : x # y => ~Siblings(FileAt(segs, x), FileAt(segs, y))
  BY <1>2, <1>4 DEF Tree
<1>7. \A x \in UsedDirSlots(segs) : \A y \in UsedFileSlots(segs) :
        ~Siblings(DirAt(segs, x), FileAt(segs, y))
  BY <1>1, <1>2 DEF Tree
<1> QED
  BY <1>3, <1>4, <1>5, <1>6, <1>7 DEF TableIsCorrect, UsedDirSlots, UsedFileSlots, Siblings

-----------------------------------------------------------------------------

\* The maps ds and fs are what the table says, which is a tree.
Described(segs, ds, fs) ==
  /\ segs \in Tables /\ segs # <<>>
  /\ Match(DirTable(segs), ds)
  /\ Match(FileTable(segs), fs)
  /\ Tree(ds, fs)

\* No ID is used twice, nor will be.
IdsApart(ds, fs, next) ==
  /\ next \in Ids
  /\ \A id \in DOMAIN ds \cup DOMAIN fs : id < next
  /\ DOMAIN ds \cap DOMAIN fs = {}

\* The mark of the first segment, the one a creation cut off leaves incomplete.
FirstMark == <<1, 0>>

\* A table, the index of it, and the space it describes, on a device of length
\* len that may end within the first segment.
Sound(segs, ds, fs, next, cov, len) ==
  /\ Described(segs, ds, fs)
  /\ IdsApart(ds, fs, next)
  /\ Fits(Zones(segs), FirstMark, cov, len)

IndexInv == Described(file_segments, dirs, files) /\ dirs_content = ListingOf(dirs, files)
IdsInv   == IdsApart(dirs, files, next_id)
SpaceInv == Fits(Zones(file_segments), FirstMark, coverage, source_len)

ArchiveInv == IndexInv /\ IdsInv /\ SpaceInv

\* The first segment stays where and as long as it is, and the coverage gets no
\* shorter.
Lasting(segs, cov) ==
  /\ Zones(segs)[FirstMark] = Zones(file_segments)[FirstMark]
  /\ coverage.len <= cov.len

-----------------------------------------------------------------------------
\* The types of the index's entries follow from those of the table.
LEMMA DescribedTypes ==
  ASSUME NEW segs, NEW ds, NEW fs, Described(segs, ds, fs)
  PROVE  /\ \A id \in DOMAIN ds : id \in Ids /\ ds[id] \in Directory /\ ds[id].id = id
         /\ \A id \in DOMAIN fs : id \in Ids /\ fs[id] \in File /\ fs[id].id = id
<1>1. ASSUME NEW id \in DOMAIN ds
      PROVE  id \in Ids /\ ds[id] \in Directory /\ ds[id].id = id
  <2> DEFINE at == SlotOfDir(segs, id)
  <2>1. at \in UsedDirSlots(segs) /\ DirAt(segs, at) = ds[id]
    BY SlotOfDirFound, UsedSlots DEF Described
  <2>2. DirAt(segs, at) \in Directory
    BY <2>1, SlotTypes DEF Described
  <2>3. ds[id].id = id
    BY MatchId DEF Described
  <2> QED
    BY <2>1, <2>2, <2>3 DEF Directory
<1>2. ASSUME NEW id \in DOMAIN fs
      PROVE  id \in Ids /\ fs[id] \in File /\ fs[id].id = id
  <2> DEFINE at == SlotOfFile(segs, id)
  <2>1. at \in UsedFileSlots(segs) /\ FileAt(segs, at) = fs[id]
    BY SlotOfFileFound, UsedSlots DEF Described
  <2>2. FileAt(segs, at) \in File
    BY <2>1, SlotTypes DEF Described
  <2>3. fs[id].id = id
    BY MatchId DEF Described
  <2> QED
    BY <2>1, <2>2, <2>3 DEF File
<1> QED
  BY <1>1, <1>2

\* So do the directories that have a listing.
LEMMA IndexTypes ==
  ASSUME IndexInv
  PROVE  /\ \A id \in DOMAIN dirs  : id \in Ids /\ dirs[id]  \in Directory /\ dirs[id].id = id
         /\ \A id \in DOMAIN files : id \in Ids /\ files[id] \in File /\ files[id].id = id
         /\ DOMAIN dirs_content = {Root} \cup DOMAIN dirs
         /\ {Root} \cup DOMAIN dirs \subseteq ParentIds
         /\ Root \notin DOMAIN dirs
<1>1. /\ \A id \in DOMAIN dirs  : id \in Ids /\ dirs[id]  \in Directory /\ dirs[id].id = id
      /\ \A id \in DOMAIN files : id \in Ids /\ files[id] \in File /\ files[id].id = id
  BY DescribedTypes DEF IndexInv
<1>2. DOMAIN dirs_content = {Root} \cup DOMAIN dirs
  BY DEF IndexInv, ListingOf
<1>3. Root \notin Ids
  BY DEF Root, Ids
<1> QED
  BY <1>1, <1>2, <1>3 DEF ParentIds

\* The first segment is behind the header, and its mark is no file's.
LEMMA FirstZone ==
  ASSUME NEW segs \in Tables, segs # <<>>
  PROVE  /\ FirstMark \in DOMAIN Zones(segs) /\ FirstMark \notin FileSlots(segs)
         /\ Zones(segs)[FirstMark] = Segment(HEADER_SIZE, EncodedLen(segs[1]))
         /\ Zones(segs)[FirstMark].len > 0
<1>1. 1 \in DOMAIN segs /\ segs[1] \in FileTableSegment
  BY DEF Tables
<1>2. FirstMark \in Marks(segs) /\ MarkedZone(segs, FirstMark) = Segment(SegmentAddr(segs, 1), EncodedLen(segs[1]))
  BY <1>1, MarksShape DEF FirstMark
<1>3. FirstMark[2] = 0
  BY DEF FirstMark
<1>4. EncodedLen(segs[1]) > 0
  BY <1>1, EncodedLenPositive
<1> QED
  BY <1>2, <1>3, <1>4, MarksShape DEF Zones, SegmentAddr, Segment

\* What fits has an archive's types.
LEMMA SpaceTypes ==
  ASSUME ArchiveInv
  PROVE  /\ source_len \in Nat /\ coverage.len \in Nat /\ coverage.len <= source_len
         /\ coverage \in Coverages
         /\ coverage = [len |-> coverage.len, segments |-> coverage.segments]
BY FitsTypes DEF ArchiveInv, SpaceInv

\* The length of a new segment is a number.
LEMMA NewSegmentLen == EncodedLen(NewSegment) \in Nat
BY EmptySegmentType, EncodedLenPositive, Layout DEF NewSegment

\* Making room for an entry leaves a sound table.
LEMMA RoomEffect ==
  ASSUME ArchiveInv, NEW full \in BOOLEAN
  PROVE  LET room == Room(full)
             segs == room.file_segments
             at   == <<Len(segs), 1>>
         IN  /\ segs \in Tables /\ segs # <<>>
             /\ MoreSlots(DirTable(file_segments), DirTable(segs))
             /\ MoreSlots(FileTable(file_segments), FileTable(segs))
             /\ Fits(Zones(segs), FirstMark, room.coverage, room.source_len)
             /\ Lasting(segs, room.coverage)
             /\ room.source_len \in Nat /\ source_len <= room.source_len
             /\ full => /\ at \in DOMAIN DirTable(segs) /\ DirTable(segs)[at] = None
                        /\ at \in DOMAIN FileTable(segs) /\ FileTable(segs)[at] = None
<1> DEFINE len  == EncodedLen(NewSegment)
           addr == AddrFor(coverage, len)
           new  == WithNewSegment(file_segments, addr)
           at   == <<Len(new), 1>>
           m    == <<Len(new), 0>>
<1>0. /\ file_segments \in Tables /\ file_segments # <<>>
      /\ Fits(Zones(file_segments), FirstMark, coverage, source_len)
      /\ source_len \in Nat /\ coverage.len \in Nat /\ coverage.len <= source_len
      /\ coverage \in Coverages /\ FirstMark \in DOMAIN Zones(file_segments)
  BY SpaceTypes, FirstZone DEF ArchiveInv, IndexInv, SpaceInv, Described
<1>1. CASE full
  <2>1. addr \in Nat
    BY <1>0, FitsAddr, NewSegmentLen
  <2>2. /\ new \in Tables /\ new # <<>>
        /\ MoreSlots(DirTable(file_segments), DirTable(new))
        /\ MoreSlots(FileTable(file_segments), FileTable(new))
        /\ at \in DOMAIN DirTable(new) /\ DirTable(new)[at] = None
        /\ at \in DOMAIN FileTable(new) /\ FileTable(new)[at] = None
        /\ m \notin DOMAIN Zones(file_segments)
        /\ DOMAIN Zones(new) = DOMAIN Zones(file_segments) \cup {m}
        /\ Zones(new)[m] = Segment(addr, EncodedLen(NewSegment))
        /\ \A k \in DOMAIN Zones(file_segments) : Zones(new)[k] = Zones(file_segments)[k]
    BY <1>0, <2>1, NewSegmentTables
  <2> HIDE DEF new, m, at
  <2>3. Fits(Zones(new), FirstMark, CoverageAfterWrite(coverage, source_len, len),
               SourceLenAfter(source_len, addr, len))
    BY <1>0, <2>2, NewSegmentLen, FitsWrite
  <2>4. /\ Room(full).file_segments = new
        /\ Room(full).coverage = CoverageAfterWrite(coverage, source_len, len)
        /\ Room(full).source_len = SourceLenAfter(source_len, addr, len)
    BY <1>1 DEF Room, new
  <2>5. /\ SourceLenAfter(source_len, addr, len) \in Nat
        /\ source_len <= SourceLenAfter(source_len, addr, len)
        /\ coverage.len <= CoverageAfterWrite(coverage, source_len, len).len
    BY <1>0, <2>1, NewSegmentLen, WriteLengthens
  <2>6. Lasting(new, CoverageAfterWrite(coverage, source_len, len))
    BY <1>0, <2>2, <2>5 DEF Lasting
  <2> QED
    BY <2>2, <2>3, <2>4, <2>5, <2>6 DEF at
<1>2. CASE ~full
  <2>1. /\ Room(full).file_segments = file_segments
        /\ Room(full).coverage = coverage
        /\ Room(full).source_len = source_len
    BY <1>2 DEF Room
  <2>2. \A t : MoreSlots(t, t)
    BY DEF MoreSlots
  <2>3. Lasting(file_segments, coverage)
    BY <1>0 DEF Lasting
  <2> QED
    BY <1>0, <1>2, <2>1, <2>2, <2>3
<1> QED
  BY <1>1, <1>2

\* The slots of one segment are few, so that there is a last free one.
LEMMA LastFreeSlot ==
  ASSUME NEW segs \in Tables
  PROVE  /\ FreeDirSlots(segs) # {} => LastSlot(FreeDirSlots(segs)) \in FreeDirSlots(segs)
         /\ FreeFileSlots(segs) # {} => LastSlot(FreeFileSlots(segs)) \in FreeFileSlots(segs)
<1>0. Len(segs) \in Nat /\ DOMAIN segs = 1 .. Len(segs)
  BY DEF Tables
<1>1. ASSUME NEW i \in 1 .. Len(segs)
      PROVE  /\ Len(segs[i].dirs) \in Nat /\ DOMAIN segs[i].dirs = 1 .. Len(segs[i].dirs)
             /\ Len(segs[i].files) \in Nat /\ DOMAIN segs[i].files = 1 .. Len(segs[i].files)
  <2>1. segs[i] \in FileTableSegment
    BY DEF Tables
  <2>2. /\ segs[i].dirs \in Seq(Directory \cup {None})
        /\ segs[i].files \in Seq(File \cup {None})
    BY <2>1 DEF FileTableSegment
  <2> QED
    BY <2>2
<1>2. ASSUME FreeDirSlots(segs) # {}
      PROVE  LastSlot(FreeDirSlots(segs)) \in FreeDirSlots(segs)
  <2> DEFINE S == FreeDirSlots(segs)
  <2>1. \A x \in S : \E i \in DOMAIN segs : \E j \in DOMAIN segs[i].dirs : x = <<i, j>>
    BY DirSlotPair DEF FreeDirSlots
  <2>2. \A x \in S : \E i \in 1 .. Len(segs) : \E j \in Nat : x = <<i, j>>
    BY <1>0, <1>1, <2>1
  <2>3. \A i \in 1 .. Len(segs) : \A x \in S : x[1] = i => x[2] <= Len(segs[i].dirs)
    BY <1>0, <1>1, <2>1
  <2>4. \A i \in 1 .. Len(segs) : \E M \in Nat : \A x \in S : x[1] = i => x[2] <= M
    BY <1>1, <2>3
  <2> HIDE DEF S
  <2>5. S # {} => LastSlot(S) \in S
    BY <1>0, <2>2, <2>4, LastSlotExists
  <2> QED
    BY <1>2, <2>5 DEF S
<1>3. ASSUME FreeFileSlots(segs) # {}
      PROVE  LastSlot(FreeFileSlots(segs)) \in FreeFileSlots(segs)
  <2> DEFINE S == FreeFileSlots(segs)
  <2>1. \A x \in S : \E i \in DOMAIN segs : \E j \in DOMAIN segs[i].files : x = <<i, j>>
    BY FileSlotPair DEF FreeFileSlots
  <2>2. \A x \in S : \E i \in 1 .. Len(segs) : \E j \in Nat : x = <<i, j>>
    BY <1>0, <1>1, <2>1
  <2>3. \A i \in 1 .. Len(segs) : \A x \in S : x[1] = i => x[2] <= Len(segs[i].files)
    BY <1>0, <1>1, <2>1
  <2>4. \A i \in 1 .. Len(segs) : \E M \in Nat : \A x \in S : x[1] = i => x[2] <= M
    BY <1>1, <2>3
  <2> HIDE DEF S
  <2>5. S # {} => LastSlot(S) \in S
    BY <1>0, <2>2, <2>4, LastSlotExists
  <2> QED
    BY <1>3, <2>5 DEF S
<1> QED
  BY <1>2, <1>3

\* get_addr_for_item_insert finds a free slot.
LEMMA DirRoomEffect ==
  ASSUME ArchiveInv
  PROVE  LET segs == DirRoom.file_segments
         IN  /\ segs \in Tables /\ segs # <<>>
             /\ Match(DirTable(segs), dirs) /\ Match(FileTable(segs), files)
             /\ Fits(Zones(segs), FirstMark, DirRoom.coverage, DirRoom.source_len)
             /\ Lasting(segs, DirRoom.coverage)
             /\ DirRoom.source_len \in Nat /\ source_len <= DirRoom.source_len
             /\ NewDirSlot \in DirSlots(segs) /\ DirTable(segs)[NewDirSlot] = None
<1> DEFINE segs == DirRoom.file_segments
<1>1. /\ segs \in Tables /\ segs # <<>>
      /\ MoreSlots(DirTable(file_segments), DirTable(segs))
      /\ MoreSlots(FileTable(file_segments), FileTable(segs))
      /\ Fits(Zones(segs), FirstMark, DirRoom.coverage, DirRoom.source_len)
      /\ Lasting(segs, DirRoom.coverage)
      /\ DirRoom.source_len \in Nat /\ source_len <= DirRoom.source_len
      /\ DirsFull => /\ <<Len(segs), 1>> \in DOMAIN DirTable(segs)
                     /\ DirTable(segs)[<<Len(segs), 1>>] = None
  BY RoomEffect DEF DirRoom, DirsFull
<1>2. Match(DirTable(segs), dirs) /\ Match(FileTable(segs), files)
  BY <1>1, MatchMoreSlots DEF ArchiveInv, IndexInv, Described
<1>3. DOMAIN DirTable(segs) = DirSlots(segs)
  BY DEF DirTable
<1>4. NewDirSlot \in DOMAIN DirTable(segs) /\ DirTable(segs)[NewDirSlot] = None
  <2>1. CASE DirsFull
    BY <1>1, <2>1 DEF NewDirSlot, SlotIn
  <2>2. CASE ~DirsFull
    <3>1. NewDirSlot \in FreeDirSlots(file_segments)
      BY <2>2, LastFreeSlot DEF NewDirSlot, SlotIn, DirsFull, ArchiveInv, IndexInv, Described
    <3>2. /\ NewDirSlot \in DOMAIN DirTable(file_segments)
          /\ DirTable(file_segments)[NewDirSlot] = None
      BY <3>1 DEF FreeDirSlots, DirTable
    <3> QED
      BY <1>1, <3>2 DEF MoreSlots
  <2> QED
    BY <2>1, <2>2
<1> QED
  BY <1>1, <1>2, <1>3, <1>4

\* The same for a file's entry.
LEMMA FileRoomEffect ==
  ASSUME ArchiveInv
  PROVE  LET segs == FileRoom.file_segments
         IN  /\ segs \in Tables /\ segs # <<>>
             /\ Match(DirTable(segs), dirs) /\ Match(FileTable(segs), files)
             /\ Fits(Zones(segs), FirstMark, FileRoom.coverage, FileRoom.source_len)
             /\ Lasting(segs, FileRoom.coverage)
             /\ FileRoom.source_len \in Nat /\ source_len <= FileRoom.source_len
             /\ NewFileSlot \in FileSlots(segs) /\ FileTable(segs)[NewFileSlot] = None
<1> DEFINE segs == FileRoom.file_segments
<1>1. /\ segs \in Tables /\ segs # <<>>
      /\ MoreSlots(DirTable(file_segments), DirTable(segs))
      /\ MoreSlots(FileTable(file_segments), FileTable(segs))
      /\ Fits(Zones(segs), FirstMark, FileRoom.coverage, FileRoom.source_len)
      /\ Lasting(segs, FileRoom.coverage)
      /\ FileRoom.source_len \in Nat /\ source_len <= FileRoom.source_len
      /\ FilesFull => /\ <<Len(segs), 1>> \in DOMAIN FileTable(segs)
                      /\ FileTable(segs)[<<Len(segs), 1>>] = None
  BY RoomEffect DEF FileRoom, FilesFull
<1>2. Match(DirTable(segs), dirs) /\ Match(FileTable(segs), files)
  BY <1>1, MatchMoreSlots DEF ArchiveInv, IndexInv, Described
<1>3. DOMAIN FileTable(segs) = FileSlots(segs)
  BY DEF FileTable
<1>4. NewFileSlot \in DOMAIN FileTable(segs) /\ FileTable(segs)[NewFileSlot] = None
  <2>1. CASE FilesFull
    BY <1>1, <2>1 DEF NewFileSlot, SlotIn
  <2>2. CASE ~FilesFull
    <3>1. NewFileSlot \in FreeFileSlots(file_segments)
      BY <2>2, LastFreeSlot DEF NewFileSlot, SlotIn, FilesFull, ArchiveInv, IndexInv, Described
    <3>2. /\ NewFileSlot \in DOMAIN FileTable(file_segments)
          /\ FileTable(file_segments)[NewFileSlot] = None
      BY <3>1 DEF FreeFileSlots, FileTable
    <3> QED
      BY <1>1, <3>2 DEF MoreSlots
  <2> QED
    BY <2>1, <2>2
<1> QED
  BY <1>1, <1>2, <1>3, <1>4

-----------------------------------------------------------------------------
(* Creating items *)

\* The ID taken is fresh and never given again.
LEMMA NextIdIsFree ==
  ASSUME ArchiveInv, next_id < MaxId
  PROVE  /\ next_id \in Ids /\ next_id + 1 \in Ids
         /\ next_id \notin DOMAIN dirs /\ next_id \notin DOMAIN files
         /\ next_id \notin {Root} \cup DOMAIN dirs
         /\ \A p \in {Root} \cup DOMAIN dirs : p < next_id
         /\ \A id \in DOMAIN dirs \cup DOMAIN files \cup {next_id} : id < next_id + 1
<1>1. next_id \in Ids /\ next_id + 1 \in Ids
  BY BoundsAssumption DEF ArchiveInv, IdsInv, Ids, IdsApart
<1>2. \A id \in DOMAIN dirs \cup DOMAIN files : id \in Ids /\ id < next_id
  BY IndexTypes DEF ArchiveInv, IdsInv, IdsApart
<1>3. next_id \notin DOMAIN dirs /\ next_id \notin DOMAIN files
  BY <1>1, <1>2 DEF Ids
<1>4. next_id # Root /\ Root < next_id
  BY <1>1 DEF Root, Ids
<1>5. \A id \in DOMAIN dirs \cup DOMAIN files \cup {next_id} : id < next_id + 1
  BY <1>1, <1>2 DEF Ids
<1> QED
  BY <1>1, <1>2, <1>3, <1>4, <1>5

LEMMA TakeIdEffect ==
  ASSUME ArchiveInv, TakeId
  PROVE  /\ next_id \in Ids /\ next_id' \in Ids
         /\ next_id \notin DOMAIN dirs /\ next_id \notin DOMAIN files
         /\ next_id \notin {Root} \cup DOMAIN dirs
         /\ \A p \in {Root} \cup DOMAIN dirs : p < next_id
         /\ \A id \in DOMAIN dirs \cup DOMAIN files \cup {next_id} : id < next_id'
BY NextIdIsFree DEF TakeId

\* The invariant after a step that leaves a sound archive.
LEMMA SoundAfter ==
  ASSUME Sound(file_segments', dirs', files', next_id', coverage', source_len'),
         dirs_content' = ListingOf(dirs', files')
  PROVE  ArchiveInv'
BY DEF Sound, ArchiveInv, IndexInv, IdsInv, SpaceInv

\* The table and the maps with a new directory.
LEMMA CreateDirSound ==
  ASSUME ArchiveInv, NEW p \in DOMAIN dirs_content, NEW n \in Names,
         NameIsFree(p, n), next_id < MaxId,
         NEW new, new = PutDir(DirRoom.file_segments, NewDirSlot, NewDir(p, n)),
         NEW ds, ds = Extend(dirs, next_id, NewDir(p, n))
  PROVE  /\ Sound(new, ds, files, next_id + 1, DirRoom.coverage, DirRoom.source_len)
         /\ Lasting(new, DirRoom.coverage)
         /\ NewDir(p, n) \in Directory
<1> DEFINE segs == DirRoom.file_segments
           e    == NewDir(p, n)
<1>0. /\ IndexInv /\ IdsInv
      /\ Tree(dirs, files) /\ dirs_content = ListingOf(dirs, files)
      /\ p \in {Root} \cup DOMAIN dirs /\ p \in ParentIds
      /\ n \notin dirs_content[p].names
  BY IndexTypes DEF ArchiveInv, IndexInv, NameIsFree, Described
<1>1. /\ e.id = next_id /\ e.parent_dir = p /\ e.name = n
      /\ e \in Directory /\ e # None
  <2>1. e.id = next_id /\ e.parent_dir = p /\ e.name = n
    BY DEF NewDir
  <2>2. e \in Directory
    BY <1>0 DEF NewDir, Directory, IdsInv, IdsApart
  <2> QED
    BY <2>1, <2>2, NoneAssumption
<1>2. /\ segs \in Tables /\ segs # <<>>
      /\ Match(DirTable(segs), dirs) /\ Match(FileTable(segs), files)
      /\ Fits(Zones(segs), FirstMark, DirRoom.coverage, DirRoom.source_len)
      /\ Lasting(segs, DirRoom.coverage)
      /\ NewDirSlot \in DirSlots(segs) /\ DirTable(segs)[NewDirSlot] = None
  BY DirRoomEffect
<1>3. new = PutDir(segs, NewDirSlot, e) /\ ds = Extend(dirs, next_id, e)
  OBVIOUS
<1> HIDE DEF segs, e
<1>4. /\ new \in Tables /\ DOMAIN new = DOMAIN segs
      /\ DirTable(new) = [DirTable(segs) EXCEPT ![NewDirSlot] = e]
      /\ FileTable(new) = FileTable(segs)
      /\ Zones(new) = Zones(segs)
  BY <1>1, <1>2, <1>3, PutDirTables
<1>5. new # <<>>
  BY <1>2, <1>4 DEF Tables
<1>6. /\ next_id + 1 \in Ids
      /\ next_id \notin DOMAIN dirs /\ next_id \notin DOMAIN files
      /\ next_id \notin {Root} \cup DOMAIN dirs /\ p < next_id
      /\ \A id \in DOMAIN dirs \cup DOMAIN files \cup {next_id} : id < next_id + 1
  BY <1>0, NextIdIsFree
<1>7. Match(DirTable(new), ds)
  <2>1. NewDirSlot \in DOMAIN DirTable(segs)
    BY <1>2 DEF DirTable
  <2>2. Match([DirTable(segs) EXCEPT ![NewDirSlot] = e], Extend(dirs, next_id, e))
    BY <1>1, <1>2, <1>6, <2>1, MatchInsert
  <2> QED
    BY <1>3, <1>4, <2>2
<1>8. Match(FileTable(new), files)
  BY <1>2, <1>4
<1>9. Tree(ds, files)
  BY <1>0, <1>1, <1>3, <1>6, TreeAddDir
<1>10. Described(new, ds, files)
  BY <1>4, <1>5, <1>7, <1>8, <1>9 DEF Described
<1>11. IdsApart(ds, files, next_id + 1)
  <2>1. DOMAIN ds = DOMAIN dirs \cup {next_id}
    BY <1>3 DEF Extend
  <2> QED
    BY <1>0, <1>6, <2>1 DEF IdsInv, IdsApart
<1> QED
  BY <1>1, <1>2, <1>4, <1>10, <1>11 DEF Sound, Lasting, e

\* create_dir.
LEMMA CreateDirKeeps ==
  ASSUME ArchiveInv, NEW p \in DOMAIN dirs_content, NEW n \in Names, CreateDir(p, n)
  PROVE  ArchiveInv' /\ Lasting(file_segments', coverage')
<1> DEFINE e == NewDir(p, n)
<1>0. /\ NameIsFree(p, n) /\ next_id < MaxId /\ next_id' = next_id + 1
      /\ Tree(dirs, files) /\ dirs_content = ListingOf(dirs, files)
      /\ p \in {Root} \cup DOMAIN dirs
      /\ n \notin dirs_content[p].names
  BY IndexTypes DEF ArchiveInv, IndexInv, CreateDir, NameIsFree, Described, TakeId
<1>1. e.parent_dir = p /\ e.name = n
  BY DEF NewDir
<1>2. /\ file_segments' = PutDir(DirRoom.file_segments, NewDirSlot, e)
      /\ dirs' = Extend(dirs, next_id, e) /\ files' = files
      /\ coverage' = DirRoom.coverage /\ source_len' = DirRoom.source_len
  BY DEF CreateDir
<1>3. /\ Sound(file_segments', dirs', files', next_id', coverage', source_len')
      /\ Lasting(file_segments', coverage')
  BY <1>0, <1>2, CreateDirSound
<1>4. dirs_content' = ListingOf(dirs', files')
  <2> DEFINE listed  == [dirs_content[p] EXCEPT !.names = @ \cup {n}, !.dirs = @ \cup {next_id}]
             listing == [dirs_content EXCEPT ![p] = listed]
  <2>1. listed = [dirs  |-> dirs_content[p].dirs \cup {next_id}, files |-> dirs_content[p].files,
                  names |-> dirs_content[p].names \cup {n}]
    <3> DEFINE old   == dirs_content[p]
               named == [old EXCEPT !.names = old.names \cup {n}]
    <3>1. old = [dirs |-> old.dirs, files |-> old.files, names |-> old.names]
      BY <1>0 DEF ListingOf
    <3>2. listed = [named EXCEPT !.dirs = old.dirs \cup {next_id}]
      BY <3>1
    <3> HIDE DEF old
    <3>3. named = [dirs |-> old.dirs, files |-> old.files, names |-> old.names \cup {n}]
      BY <3>1
    <3> HIDE DEF named, listed
    <3> QED
      BY <3>2, <3>3 DEF old
  <2>2. dirs_content' = Extend(listing, next_id, [dirs |-> {}, files |-> {}, names |-> {}])
    BY DEF CreateDir
  <2> HIDE DEF listed
  <2>3. /\ DOMAIN listing = DOMAIN dirs_content
        /\ listing[p] = listed
        /\ \A q \in DOMAIN dirs_content \ {p} : listing[q] = dirs_content[q]
    OBVIOUS
  <2> HIDE DEF listing, e
  <2>4. Extend(listing, next_id, [dirs |-> {}, files |-> {}, names |-> {}])
          = ListingOf(Extend(dirs, next_id, e), files)
    BY <1>0, <1>1, <2>1, <2>3, ListingAddDir, NextIdIsFree
  <2> QED
    BY <1>2, <2>2, <2>4
<1> QED
  BY <1>3, <1>4, SoundAfter

\* The slot the entry goes to is not in use yet.
LEMMA NewFileSlotFree ==
  ASSUME ArchiveInv
  PROVE  NewFileSlot \notin DOMAIN Zones(FileRoom.file_segments)
<1> DEFINE segs == FileRoom.file_segments
<1>1. /\ segs \in Tables
      /\ NewFileSlot \in FileSlots(segs) /\ FileTable(segs)[NewFileSlot] = None
  BY FileRoomEffect
<1> HIDE DEF segs
<1>2. NewFileSlot \notin UsedFileSlots(segs)
  BY <1>1 DEF UsedFileSlots, FreeFileSlots, FileTable
<1>3. NewFileSlot[2] # 0
  BY <1>1, MarksShape
<1>4. NewFileSlot \notin Marks(segs)
  BY <1>1, <1>2, <1>3, MarksShape
<1> QED
  BY <1>4 DEF Zones, segs

\* An entry has an address, at or behind the header of its segment.
LEMMA EntryAddrs ==
  ASSUME NEW segs \in Tables
  PROVE  /\ \A i \in DOMAIN segs : SegmentAddr(segs, i) \in Nat
         /\ \A x \in DirSlots(segs)  : DirEntryAddr(segs, x) \in Nat
         /\ \A x \in FileSlots(segs) : FileEntryAddr(segs, x) \in Nat
<1>1. ASSUME NEW i \in DOMAIN segs
      PROVE  /\ SegmentAddr(segs, i) \in Nat
             /\ Len(segs[i].dirs) \in Nat /\ DOMAIN segs[i].dirs = 1 .. Len(segs[i].dirs)
             /\ Len(segs[i].files) \in Nat /\ DOMAIN segs[i].files = 1 .. Len(segs[i].files)
  <2>1. segs[i] \in FileTableSegment /\ DOMAIN segs = 1 .. Len(segs) /\ Len(segs) \in Nat
    BY DEF Tables
  <2>2. /\ segs[i].dirs \in Seq(Directory \cup {None})
        /\ segs[i].files \in Seq(File \cup {None})
    BY <2>1 DEF FileTableSegment
  <2>3. i # 1 => i - 1 \in DOMAIN segs /\ segs[i - 1] \in FileTableSegment
    BY <2>1 DEF Tables
  <2>4. SegmentAddr(segs, i) \in Nat
    BY <2>3, Layout DEF SegmentAddr, FileTableSegment
  <2> QED
    BY <2>2, <2>4
<1>2. ASSUME NEW i \in DOMAIN segs, NEW j \in DOMAIN segs[i].dirs
      PROVE  DirEntryAddr(segs, <<i, j>>) \in Nat
  <2>1. (j - 1) * DIRECTORY_ENTRY_SIZE \in Nat
    BY <1>1, Layout, NatTimes
  <2> QED
    BY <1>1, <2>1, Layout DEF DirEntryAddr
<1>3. ASSUME NEW i \in DOMAIN segs, NEW j \in DOMAIN segs[i].files
      PROVE  FileEntryAddr(segs, <<i, j>>) \in Nat
  <2> DEFINE a == (j - 1) * FILE_ENTRY_SIZE
             b == Len(segs[i].dirs) * DIRECTORY_ENTRY_SIZE
  <2>1. j - 1 \in Nat /\ Len(segs[i].dirs) \in Nat /\ SegmentAddr(segs, i) \in Nat
    BY <1>1
  <2>2. a \in Nat
    BY <2>1, Layout, NatTimes
  <2>3. b \in Nat
    BY <2>1, Layout, NatTimes
  <2>4. FileEntryAddr(segs, <<i, j>>) = SegmentAddr(segs, i) + SEGMENT_HEADER_SIZE + b + a
    BY DEF FileEntryAddr
  <2> HIDE DEF a, b
  <2> QED
    BY <2>1, <2>2, <2>3, <2>4, Layout
<1> QED
  BY <1>1, <1>2, <1>3, DirSlotPair, FileSlotPair

\* The content is written after room was made for the entry; the entry itself
\* lengthens the device at most.
LEMMA ContentFits ==
  ASSUME ArchiveInv, NEW c \in Contents
  PROVE  /\ ContentLen[c] \in Nat
         /\ AddrFor(FileRoom.coverage, ContentLen[c]) \in Nat
         /\ SourceLenWith(c) \in Nat /\ FileRoom.source_len <= SourceLenWith(c)
         /\ SourceLenWithEntry(c) \in Nat /\ SourceLenWith(c) <= SourceLenWithEntry(c)
         /\ Fits(Zones(FileRoom.file_segments), FirstMark, CoverageWith(c), SourceLenWith(c))
         /\ Lasting(FileRoom.file_segments, CoverageWith(c))
<1> DEFINE z   == Zones(FileRoom.file_segments)
           cov == FileRoom.coverage
           len == ContentLen[c]
           m   == NewFileSlot
           y   == [k \in DOMAIN z \cup {m} |-> IF k = m THEN Segment(AddrFor(cov, len), len) ELSE z[k]]
<1>1. len \in Nat
  BY ContentsAssumption
<1>2. /\ Fits(z, FirstMark, cov, FileRoom.source_len)
      /\ FileRoom.source_len \in Nat /\ Lasting(FileRoom.file_segments, cov)
      /\ FileRoom.file_segments \in Tables /\ FileRoom.file_segments # <<>>
      /\ NewFileSlot \in FileSlots(FileRoom.file_segments)
  BY FileRoomEffect
<1>3. AddrFor(cov, len) \in Nat
  BY <1>1, <1>2, FitsAddr
<1>4. m \notin DOMAIN z
  BY NewFileSlotFree
<1>5. FirstMark \in DOMAIN z
  BY <1>2, FirstZone
<1>6. coverage.len \in Nat /\ cov.len \in Nat /\ cov.len <= FileRoom.source_len /\ cov \in Coverages
  BY <1>2, SpaceTypes, FitsTypes
<1>7. /\ SourceLenWith(c) \in Nat /\ FileRoom.source_len <= SourceLenWith(c)
      /\ cov.len <= CoverageWith(c).len
  BY <1>1, <1>2, <1>3, <1>6, WriteLengthens DEF SourceLenWith, CoverageWith
<1>8. CoverageWith(c).len \in Nat /\ Fits(z, FirstMark, CoverageWith(c), SourceLenWith(c))
  <2> HIDE DEF z, m, cov, len
  <2>1. Fits(y, FirstMark, CoverageAfterWrite(cov, FileRoom.source_len, len),
                SourceLenAfter(FileRoom.source_len, AddrFor(cov, len), len))
    BY <1>1, <1>2, <1>4, FitsWrite
  <2>2. Fits(y, FirstMark, CoverageWith(c), SourceLenWith(c))
    BY <2>1 DEF CoverageWith, SourceLenWith, cov, len
  <2>3. Fits(z, FirstMark, CoverageWith(c), SourceLenWith(c))
    BY <1>4, <1>5, <1>7, <2>2, FitsLess
  <2> QED
    BY <2>2, <2>3, FitsTypes
<1>9. Lasting(FileRoom.file_segments, CoverageWith(c))
  BY <1>2, <1>6, <1>7, <1>8 DEF Lasting
<1>10. SourceLenWithEntry(c) \in Nat /\ SourceLenWith(c) <= SourceLenWithEntry(c)
  <2>1. FileEntryAddr(FileRoom.file_segments, NewFileSlot) \in Nat
    BY <1>2, EntryAddrs
  <2> QED
    BY <1>7, <2>1, Layout DEF SourceLenWithEntry, SourceLenAfter
<1> QED
  BY <1>1, <1>3, <1>7, <1>8, <1>9, <1>10

\* The table and the maps with a new file.
LEMMA CreateFileSound ==
  ASSUME ArchiveInv, NEW p \in DOMAIN dirs_content, NEW n \in Names, NEW c \in Contents,
         NameIsFree(p, n), next_id < MaxId,
         NEW new, new = PutFile(FileRoom.file_segments, NewFileSlot, NewFile(p, n, c)),
         NEW fs, fs = Extend(files, next_id, NewFile(p, n, c))
  PROVE  /\ Sound(new, dirs, fs, next_id + 1, CoverageWith(c), SourceLenWithEntry(c))
         /\ Lasting(new, CoverageWith(c))
         /\ NewFile(p, n, c) \in File
<1> DEFINE segs == FileRoom.file_segments
           len  == ContentLen[c]
           addr == AddrFor(FileRoom.coverage, len)
           e    == NewFile(p, n, c)
           cov  == CoverageAfterWrite(FileRoom.coverage, FileRoom.source_len, len)
<1>0. /\ IndexInv /\ IdsInv
      /\ Tree(dirs, files) /\ dirs_content = ListingOf(dirs, files)
      /\ p \in {Root} \cup DOMAIN dirs /\ p \in ParentIds
      /\ n \notin dirs_content[p].names
  BY IndexTypes DEF ArchiveInv, IndexInv, NameIsFree, Described
<1>1. /\ segs \in Tables /\ segs # <<>>
      /\ Match(DirTable(segs), dirs) /\ Match(FileTable(segs), files)
      /\ Fits(Zones(segs), FirstMark, FileRoom.coverage, FileRoom.source_len)
      /\ NewFileSlot \in FileSlots(segs) /\ FileTable(segs)[NewFileSlot] = None
  BY FileRoomEffect
<1>2. /\ len \in Nat /\ addr \in Nat
      /\ SourceLenWith(c) \in Nat
      /\ SourceLenWithEntry(c) \in Nat /\ SourceLenWith(c) <= SourceLenWithEntry(c)
      /\ Lasting(segs, CoverageWith(c))
  BY ContentFits
<1>3. /\ e.id = next_id /\ e.parent_dir = p /\ e.name = n
      /\ e \in File /\ e # None
      /\ Extent(e) = Segment(addr, len)
  <2>1. /\ e.id = next_id /\ e.parent_dir = p /\ e.name = n
        /\ e.content_addr = addr /\ e.content_len = len
    BY DEF NewFile
  <2>2. e \in File
    BY <1>0, <1>2 DEF NewFile, File, IdsInv, IdsApart
  <2> QED
    BY <2>1, <2>2, NoneAssumption DEF Extent
<1>4. new = PutFile(segs, NewFileSlot, e) /\ fs = Extend(files, next_id, e)
  OBVIOUS
<1>5. NewFileSlot \notin DOMAIN Zones(segs) /\ FirstMark \in DOMAIN Zones(segs)
  BY <1>1, NewFileSlotFree, FirstZone
<1>6. CoverageWith(c) = cov /\ SourceLenWith(c) = SourceLenAfter(FileRoom.source_len, addr, len)
  BY DEF CoverageWith, SourceLenWith
<1> HIDE DEF segs, e, len, addr, cov
<1>7. /\ new \in Tables /\ DOMAIN new = DOMAIN segs
      /\ DirTable(new) = DirTable(segs)
      /\ FileTable(new) = [FileTable(segs) EXCEPT ![NewFileSlot] = e]
      /\ DOMAIN Zones(new) = DOMAIN Zones(segs) \cup {NewFileSlot}
      /\ Zones(new)[NewFileSlot] = Segment(addr, len)
      /\ \A m \in DOMAIN Zones(segs) : Zones(new)[m] = Zones(segs)[m]
  <2>1. segs \in Tables /\ NewFileSlot \in FileSlots(segs) /\ e \in File /\ new = PutFile(segs, NewFileSlot, e)
    BY <1>1, <1>3, <1>4
  <2>2. FilePut(segs, new, NewFileSlot, e)
    BY <2>1, PutFileTables
  <2> QED
    BY <1>3, <1>5, <2>2 DEF FilePut
<1>8. new # <<>>
  BY <1>1, <1>7 DEF Tables
<1>9. /\ next_id + 1 \in Ids
      /\ next_id \notin DOMAIN dirs /\ next_id \notin DOMAIN files
      /\ \A id \in DOMAIN dirs \cup DOMAIN files \cup {next_id} : id < next_id + 1
  BY <1>0, NextIdIsFree
<1>10. Match(FileTable(new), fs)
  <2>1. NewFileSlot \in DOMAIN FileTable(segs)
    BY <1>1 DEF FileTable
  <2>2. Match([FileTable(segs) EXCEPT ![NewFileSlot] = e], Extend(files, next_id, e))
    BY <1>1, <1>3, <1>9, <2>1, MatchInsert
  <2> QED
    BY <1>4, <1>7, <2>2
<1>11. Match(DirTable(new), dirs)
  BY <1>1, <1>7
<1>12. Tree(dirs, fs)
  BY <1>0, <1>3, <1>4, <1>9, TreeAddFile
<1>13. Described(new, dirs, fs)
  BY <1>7, <1>8, <1>10, <1>11, <1>12 DEF Described
<1>14. IdsApart(dirs, fs, next_id + 1)
  <2>1. DOMAIN fs = DOMAIN files \cup {next_id}
    BY <1>4 DEF Extend
  <2> QED
    BY <1>0, <1>9, <2>1 DEF IdsInv, IdsApart
<1>15. Fits(Zones(new), FirstMark, CoverageWith(c), SourceLenWithEntry(c))
  <2>1. Fits(Zones(new), FirstMark, cov, SourceLenAfter(FileRoom.source_len, addr, len))
    BY <1>1, <1>2, <1>5, <1>7, FitsWrite DEF addr, cov
  <2>2. FirstMark \in DOMAIN Zones(new)
    BY <1>5, <1>7
  <2> QED
    BY <1>2, <1>6, <2>1, <2>2, FitsLess
<1>16. Lasting(new, CoverageWith(c))
  BY <1>2, <1>5, <1>7 DEF Lasting
<1> QED
  BY <1>3, <1>13, <1>14, <1>15, <1>16 DEF Sound, e

\* create_file.
LEMMA CreateFileKeeps ==
  ASSUME ArchiveInv, NEW p \in DOMAIN dirs_content, NEW n \in Names, NEW c \in Contents,
         CreateFile(p, n, c)
  PROVE  ArchiveInv' /\ Lasting(file_segments', coverage')
<1> DEFINE e == NewFile(p, n, c)
<1>0. /\ NameIsFree(p, n) /\ next_id < MaxId /\ next_id' = next_id + 1
      /\ Tree(dirs, files) /\ dirs_content = ListingOf(dirs, files)
      /\ p \in {Root} \cup DOMAIN dirs
      /\ n \notin dirs_content[p].names
  BY IndexTypes DEF ArchiveInv, IndexInv, CreateFile, NameIsFree, Described, TakeId
<1>1. e.parent_dir = p /\ e.name = n
  BY DEF NewFile
<1>2. /\ file_segments' = PutFile(FileRoom.file_segments, NewFileSlot, e)
      /\ files' = Extend(files, next_id, e) /\ dirs' = dirs
      /\ coverage' = CoverageWith(c) /\ source_len' = SourceLenWithEntry(c)
  BY DEF CreateFile
<1>3. /\ Sound(file_segments', dirs', files', next_id', coverage', source_len')
      /\ Lasting(file_segments', coverage')
  BY <1>0, <1>2, CreateFileSound
<1>4. dirs_content' = ListingOf(dirs', files')
  <2> DEFINE listed  == [dirs_content[p] EXCEPT !.names = @ \cup {n}, !.files = @ \cup {next_id}]
             listing == [dirs_content EXCEPT ![p] = listed]
  <2>1. listed = [dirs  |-> dirs_content[p].dirs, files |-> dirs_content[p].files \cup {next_id},
                  names |-> dirs_content[p].names \cup {n}]
    <3> DEFINE old   == dirs_content[p]
               named == [old EXCEPT !.names = old.names \cup {n}]
    <3>1. old = [dirs |-> old.dirs, files |-> old.files, names |-> old.names]
      BY <1>0 DEF ListingOf
    <3>2. listed = [named EXCEPT !.files = old.files \cup {next_id}]
      BY <3>1
    <3> HIDE DEF old
    <3>3. named = [dirs |-> old.dirs, files |-> old.files, names |-> old.names \cup {n}]
      BY <3>1
    <3> HIDE DEF named, listed
    <3> QED
      BY <3>2, <3>3 DEF old
  <2>2. dirs_content' = listing
    BY DEF CreateFile
  <2> HIDE DEF listed
  <2>3. /\ DOMAIN listing = DOMAIN dirs_content
        /\ listing = [q \in DOMAIN listing |-> listing[q]]
        /\ listing[p] = listed
        /\ \A q \in DOMAIN dirs_content \ {p} : listing[q] = dirs_content[q]
    OBVIOUS
  <2> HIDE DEF listing, e
  <2>4. listing = ListingOf(dirs, Extend(files, next_id, e))
    BY <1>0, <1>1, <2>1, <2>3, ListingAddFile, NextIdIsFree
  <2> QED
    BY <1>2, <2>2, <2>4
<1> QED
  BY <1>3, <1>4, SoundAfter

-----------------------------------------------------------------------------
(* Creating items, with an I/O error *)

\* Data written in part lengthens the device at most.
LEMMA DataWriteFailsEffect ==
  ASSUME NEW z, NEW cov, NEW src_len, Fits(z, FirstMark, cov, src_len), NEW len \in Nat,
         FirstMark \in DOMAIN z, DataWriteFails(cov, len, src_len)
  PROVE  source_len' \in Nat /\ Fits(z, FirstMark, cov, source_len')
<1>1. PICK written \in 0 .. len : source_len' = SourceLenAfter(src_len, AddrFor(cov, len), written)
  BY DEF DataWriteFails
<1>2. AddrFor(cov, len) \in Nat /\ src_len \in Nat
  BY FitsAddr, FitsTypes
<1>3. source_len' \in Nat /\ source_len' >= src_len
  BY <1>1, <1>2 DEF SourceLenAfter
<1> QED
  BY <1>3, FitsLess

\* The entry is not written: the table may have one more segment.
LEMMA EntryNotWritten ==
  ASSUME ArchiveInv, NEW segs, segs \in Tables, segs # <<>>,
         Match(DirTable(segs), dirs), Match(FileTable(segs), files),
         file_segments' = segs, UNCHANGED index, TakeId \/ UNCHANGED next_id,
         Fits(Zones(segs), FirstMark, coverage', source_len'), Lasting(segs, coverage')
  PROVE  ArchiveInv' /\ Lasting(file_segments', coverage')
<1>1. dirs' = dirs /\ files' = files /\ dirs_content' = dirs_content
  BY DEF index
<1>2. IndexInv'
  BY <1>1 DEF ArchiveInv, IndexInv, Described
<1>3. IdsInv'
  <2>1. CASE TakeId
    BY <1>1, <2>1, TakeIdEffect DEF IdsInv, ArchiveInv, IdsApart
  <2>2. CASE UNCHANGED next_id
    BY <1>1, <2>2 DEF IdsInv, ArchiveInv, IdsApart
  <2> QED
    BY <2>1, <2>2
<1> QED
  BY <1>2, <1>3 DEF ArchiveInv, SpaceInv

\* A segment that could not be written, or not linked, costs space at most.
LEMMA NewSegmentFailsKeeps ==
  ASSUME ArchiveInv, NEW full \in BOOLEAN, NewSegmentFails(full)
  PROVE  ArchiveInv' /\ Lasting(file_segments', coverage')
<1> DEFINE segs == Room(full).file_segments
           z    == Zones(file_segments)
<1>1. /\ file_segments \in Tables /\ file_segments # <<>>
      /\ Match(DirTable(file_segments), dirs) /\ Match(FileTable(file_segments), files)
      /\ Fits(z, FirstMark, coverage, source_len)
      /\ FirstMark \in DOMAIN z /\ coverage.len \in Nat
  BY FirstZone, SpaceTypes DEF ArchiveInv, IndexInv, SpaceInv, Described
<1>2. full /\ file_segments' = file_segments /\ UNCHANGED index /\ UNCHANGED next_id
  BY DEF NewSegmentFails
<1>3. CASE DataWriteFails(coverage, EncodedLen(NewSegment), source_len) /\ UNCHANGED coverage
  <2>1. Fits(z, FirstMark, coverage', source_len')
    BY <1>1, <1>3, NewSegmentLen, DataWriteFailsEffect
  <2>2. Lasting(file_segments, coverage')
    BY <1>1, <1>3 DEF Lasting
  <2> QED
    BY <1>1, <1>2, <2>1, <2>2, EntryNotWritten
<1>4. CASE coverage' = Room(full).coverage /\ source_len' = Room(full).source_len
  <2>1. /\ Fits(Zones(segs), FirstMark, coverage', source_len')
        /\ Lasting(segs, coverage') /\ source_len' \in Nat
    BY <1>4, RoomEffect
  <2>2. DOMAIN z \subseteq DOMAIN Zones(segs) /\ \A m \in DOMAIN z : z[m] = Zones(segs)[m]
    <3>1. AddrFor(coverage, EncodedLen(NewSegment)) \in Nat
      BY <1>1, NewSegmentLen, FitsAddr
    <3>2. segs = WithNewSegment(file_segments, AddrFor(coverage, EncodedLen(NewSegment)))
      BY <1>2 DEF Room
    <3> DEFINE new == WithNewSegment(file_segments, AddrFor(coverage, EncodedLen(NewSegment)))
    <3>3. /\ DOMAIN Zones(new) = DOMAIN Zones(file_segments) \cup {<<Len(new), 0>>}
          /\ \A k \in DOMAIN Zones(file_segments) : Zones(new)[k] = Zones(file_segments)[k]
      BY <1>1, <3>1, NewSegmentTables
    <3> HIDE DEF new, segs
    <3> QED
      BY <3>2, <3>3 DEF new
  <2>3. Lasting(file_segments, coverage')
    BY <2>1 DEF Lasting
  <2> HIDE DEF z, segs
  <2>4. Fits(z, FirstMark, coverage', source_len')
    BY <1>1, <2>1, <2>2, FitsLess
  <2> QED
    BY <1>1, <1>2, <2>3, <2>4, EntryNotWritten DEF z
<1> QED
  BY <1>3, <1>4 DEF NewSegmentFails

\* create_dir that ends with an I/O error.
LEMMA CreateDirFailsKeeps ==
  ASSUME ArchiveInv, NEW p, NEW n, CreateDirFails(p, n)
  PROVE  ArchiveInv' /\ Lasting(file_segments', coverage')
<1>1. CASE NewSegmentFails(DirsFull)
  BY <1>1, NewSegmentFailsKeeps DEF DirsFull
<1>2. CASE /\ TakeId
           /\ file_segments' = DirRoom.file_segments
           /\ coverage' = DirRoom.coverage
           /\ source_len' = DirRoom.source_len
           /\ UNCHANGED index
  BY <1>2, DirRoomEffect, EntryNotWritten
<1> QED
  BY <1>1, <1>2 DEF CreateDirFails

\* create_file that ends with an I/O error.
LEMMA CreateFileFailsKeeps ==
  ASSUME ArchiveInv, NEW p, NEW n, NEW c \in Contents, CreateFileFails(p, n, c)
  PROVE  ArchiveInv' /\ Lasting(file_segments', coverage')
<1>0. ContentLen[c] \in Nat
  BY ContentsAssumption
<1>1. CASE NewSegmentFails(FilesFull)
  BY <1>1, NewSegmentFailsKeeps DEF FilesFull
<1>2. CASE /\ DataWriteFails(FileRoom.coverage, ContentLen[c], FileRoom.source_len)
           /\ file_segments' = FileRoom.file_segments
           /\ coverage' = FileRoom.coverage
           /\ UNCHANGED <<index, next_id>>
  <2>1. Fits(Zones(FileRoom.file_segments), FirstMark, coverage', source_len')
    BY <1>0, <1>2, FileRoomEffect, FirstZone, DataWriteFailsEffect
  <2> QED
    BY <1>2, <2>1, FileRoomEffect, EntryNotWritten
<1>3. CASE /\ TakeId
           /\ file_segments' = FileRoom.file_segments
           /\ coverage' = CoverageWith(c)
           /\ source_len' = SourceLenWith(c)
           /\ UNCHANGED index
  <2>1. /\ Fits(Zones(FileRoom.file_segments), FirstMark, coverage', source_len')
        /\ Lasting(FileRoom.file_segments, coverage')
    BY <1>3, ContentFits
  <2> QED
    BY <1>3, <2>1, FileRoomEffect, EntryNotWritten
<1> QED
  BY <1>1, <1>2, <1>3 DEF CreateFileFails

-----------------------------------------------------------------------------
(* Replacing a file's content *)

\* The zone released and the zone taken.
LEMMA ReplaceFileContentSound ==
  ASSUME ArchiveInv, NEW id \in DOMAIN files, NEW c \in Contents,
         NEW new, new = PutFile(file_segments, SlotOfFile(file_segments, id), ReplacedFile(id, c)),
         NEW fs, fs = [files EXCEPT ![id] = ReplacedFile(id, c)]
  PROVE  LET len == ContentLen[c]
             cov == CoverageAfterWrite(CoverageToReplace(id), source_len, len)
         IN  /\ Sound(new, dirs, fs, next_id, cov, SourceLenAfter(source_len, NewAddr(id, c), len))
             /\ Lasting(new, cov)
             /\ ListingOf(dirs, fs) = ListingOf(dirs, files)
             /\ len \in Nat /\ NewAddr(id, c) \in Nat /\ ReplacedFile(id, c) \in File
<1> DEFINE at   == SlotOfFile(file_segments, id)
           len  == ContentLen[c]
           free == CoverageToReplace(id)
           addr == AddrFor(free, len)
           e    == ReplacedFile(id, c)
           z    == Zones(file_segments)
           rest == [k \in DOMAIN z \ {at} |-> z[k]]
           cov  == CoverageAfterWrite(free, source_len, len)
<1>0. /\ IndexInv /\ IdsInv
      /\ file_segments \in Tables /\ file_segments # <<>>
      /\ Match(DirTable(file_segments), dirs) /\ Match(FileTable(file_segments), files)
      /\ Tree(dirs, files) /\ dirs_content = ListingOf(dirs, files)
      /\ Fits(z, FirstMark, coverage, source_len)
      /\ FirstMark \in DOMAIN z /\ FirstMark \notin FileSlots(file_segments)
      /\ source_len \in Nat /\ coverage.len \in Nat /\ coverage.len <= source_len
      /\ coverage = [len |-> coverage.len, segments |-> coverage.segments]
      /\ coverage \in Coverages
  BY FirstZone, SpaceTypes DEF ArchiveInv, IndexInv, SpaceInv, Described
<1>1. files[id] \in File /\ files[id].id = id
  BY <1>0, IndexTypes
<1>2. /\ at \in Used(FileTable(file_segments)) /\ at \in UsedFileSlots(file_segments)
      /\ at \in FileSlots(file_segments)
      /\ FileTable(file_segments)[at] = files[id]
      /\ FileAt(file_segments, at) = files[id]
  BY <1>0, SlotOfFileFound, UsedSlots
<1>3. at \in DOMAIN z /\ z[at] = Extent(files[id])
  BY <1>0, <1>2, MarksShape DEF Zones
<1>4. len \in Nat
  BY ContentsAssumption
<1>5. Extent(files[id]) \in Segments
  BY <1>1 DEF Extent, Segment, Segments, File
<1>6. Fits(rest, FirstMark, free, source_len)
  <2>1. /\ free.len = coverage.len
        /\ free = [len |-> free.len, segments |-> free.segments]
        /\ free.segments \subseteq coverage.segments
        /\ \A s \in coverage.segments : s # Extent(files[id]) => s \in free.segments
    BY <1>0 DEF CoverageToReplace, MarkAsFree
  <2> DEFINE gone == {at}
  <2>2. gone \in SUBSET DOMAIN z
    BY <1>3
  <2>3. \A s \in coverage.segments : (\A m \in gone : s # z[m]) => s \in free.segments
    BY <1>3, <2>1
  <2>4. DOMAIN rest = DOMAIN z \ gone /\ \A k \in DOMAIN rest : rest[k] = z[k]
    OBVIOUS
  <2>6. FirstMark \notin gone
    BY <1>0, <1>2
  <2> HIDE DEF free, rest, z, at, gone
  <2>5. Released(z, coverage, gone, rest, free)
    BY <2>1, <2>2, <2>3, <2>4 DEF Released
  <2> QED
    BY <1>0, <2>5, <2>6, FitsRelease
<1>7. addr \in Nat
  BY <1>4, <1>6, FitsAddr
<1>8. /\ e \in File /\ e # None
      /\ e.id = id /\ e.parent_dir = files[id].parent_dir /\ e.name = files[id].name
      /\ Extent(e) = Segment(addr, len)
  <2>1. /\ e.id = files[id].id /\ e.parent_dir = files[id].parent_dir /\ e.name = files[id].name
        /\ e.content_addr = addr /\ e.content_len = len
    <3> DEFINE old == files[id]
    <3>1. e = [old EXCEPT !.content_addr = addr, !.content_len = len, !.sha3_checksum = c]
      BY DEF ReplacedFile, NewAddr
    <3> HIDE DEF addr, len, e
    <3>2. old \in File
      BY <1>1
    <3> HIDE DEF old
    <3>3. /\ e.id = old.id /\ e.parent_dir = old.parent_dir /\ e.name = old.name
          /\ e.content_addr = addr /\ e.content_len = len
      BY <3>1, <3>2 DEF File
    <3> QED
      BY <3>3 DEF old
  <2>2. e \in File
    BY <1>1, <1>4, <1>7 DEF ReplacedFile, NewAddr, File
  <2> QED
    BY <1>1, <2>1, <2>2, NoneAssumption DEF Extent
<1>9. /\ new = PutFile(file_segments, at, e) /\ fs = [files EXCEPT ![id] = e]
      /\ addr = NewAddr(id, c)
  BY DEF NewAddr
<1>10. coverage.len <= cov.len
  <2>1. free.len = coverage.len /\ free \in Coverages
    BY <1>0 DEF CoverageToReplace, MarkAsFree, Coverages
  <2> HIDE DEF free, len
  <2> QED
    BY <1>0, <1>4, <1>7, <2>1, WriteLengthens
<1> HIDE DEF at, len, free, addr, e, z, cov
<1>11. /\ new \in Tables /\ DOMAIN new = DOMAIN file_segments
       /\ DirTable(new) = DirTable(file_segments)
       /\ FileTable(new) = [FileTable(file_segments) EXCEPT ![at] = e]
       /\ DOMAIN Zones(new) = DOMAIN z
       /\ Zones(new)[at] = Segment(addr, len)
       /\ \A m \in DOMAIN z \ {at} : Zones(new)[m] = z[m]
  <2>1. file_segments \in Tables /\ at \in FileSlots(file_segments) /\ e \in File /\ new = PutFile(file_segments, at, e)
    BY <1>0, <1>2, <1>8, <1>9
  <2>2. FilePut(file_segments, new, at, e)
    BY <2>1, PutFileTables
  <2> QED
    BY <1>3, <1>8, <2>2 DEF FilePut, z
<1>12. new # <<>>
  BY <1>0, <1>11 DEF Tables
<1>13. Match(FileTable(new), fs)
  <2>1. at \in DOMAIN FileTable(file_segments)
    BY <1>2 DEF Used
  <2>2. /\ DOMAIN FileTable(new) = DOMAIN FileTable(file_segments)
        /\ FileTable(new)[at] = e
        /\ \A x \in DOMAIN FileTable(file_segments) \ {at} :
             FileTable(new)[x] = FileTable(file_segments)[x]
    BY <1>11, <2>1
  <2>3. /\ DOMAIN fs = DOMAIN files /\ fs = [k \in DOMAIN fs |-> fs[k]]
        /\ fs[id] = e /\ \A k \in DOMAIN files \ {id} : fs[k] = files[k]
    BY <1>9
  <2> QED
    BY <1>0, <1>1, <1>2, <1>8, <2>2, <2>3, MatchUpdate
<1>14. Match(DirTable(new), dirs)
  BY <1>0, <1>11
<1>15. Tree(dirs, fs) /\ ListingOf(dirs, fs) = ListingOf(dirs, files)
  <2>1. Updated(files, id, e, fs)
    BY <1>9 DEF Updated
  <2> QED
    BY <1>0, <1>8, <2>1, TreeSameFile
<1>16. Described(new, dirs, fs)
  BY <1>11, <1>12, <1>13, <1>14, <1>15 DEF Described
<1>17. IdsApart(dirs, fs, next_id)
  <2>1. DOMAIN fs = DOMAIN files
    BY <1>9
  <2> QED
    BY <1>0, <2>1 DEF IdsInv, IdsApart
<1>18. Fits(Zones(new), FirstMark, cov, SourceLenAfter(source_len, addr, len))
  <2>1. at \notin DOMAIN rest /\ DOMAIN Zones(new) = DOMAIN rest \cup {at}
    BY <1>3, <1>11
  <2>2. \A k \in DOMAIN rest : Zones(new)[k] = rest[k]
    BY <1>11
  <2> HIDE DEF rest
  <2> QED
    BY <1>4, <1>6, <1>11, <2>1, <2>2, FitsWrite DEF addr, cov
<1>19. Lasting(new, cov)
  <2>1. FirstMark # at
    BY <1>0, <1>2
  <2> QED
    BY <1>0, <1>10, <1>11, <2>1 DEF Lasting, z
<1> QED
  BY <1>4, <1>7, <1>8, <1>9, <1>15, <1>16, <1>17, <1>18, <1>19 DEF Sound, e, cov, free, len

\* replace_file_content.
LEMMA ReplaceFileContentKeeps ==
  ASSUME ArchiveInv, NEW id \in DOMAIN files, NEW c \in Contents, ReplaceFileContent(id, c)
  PROVE  ArchiveInv' /\ Lasting(file_segments', coverage')
<1> DEFINE len == ContentLen[c]
           e   == ReplacedFile(id, c)
<1>1. /\ dirs' = dirs /\ dirs_content' = dirs_content /\ next_id' = next_id
      /\ coverage' = CoverageAfterWrite(CoverageToReplace(id), source_len, len)
      /\ source_len' = SourceLenAfter(source_len, NewAddr(id, c), len)
      /\ files' = [files EXCEPT ![id] = e]
  BY DEF ReplaceFileContent, RewriteContent
<1>2. file_segments' = PutFile(file_segments, SlotOfFile(file_segments, id), e)
  <2>1. file_segments' = PutFile(file_segments, SlotOfFile(file_segments, id), files'[id])
    BY DEF ReplaceFileContent
  <2>2. files'[id] = e
    BY <1>1
  <2> QED
    BY <2>1, <2>2
<1> HIDE DEF len
<1>3. /\ Sound(file_segments', dirs', files', next_id', coverage', source_len')
      /\ Lasting(file_segments', coverage')
      /\ ListingOf(dirs', files') = ListingOf(dirs, files)
  BY <1>1, <1>2, ReplaceFileContentSound DEF len
<1>4. dirs_content' = ListingOf(dirs', files')
  BY <1>1, <1>3 DEF ArchiveInv, IndexInv
<1> QED
  BY <1>3, <1>4, SoundAfter

-----------------------------------------------------------------------------
(* Renaming items *)

\* The listing of one directory gets another name.
LEMMA RenameInEffect ==
  ASSUME IndexInv, NEW p \in {Root} \cup DOMAIN dirs, NEW old, NEW n, NEW listing,
         listing = RenameIn(p, old, n)
  PROVE  Updated(dirs_content, p, RenamedListing(dirs_content[p], old, n), listing)
<1> DEFINE was == dirs_content[p]
           rec == [was EXCEPT !.names = (was.names \ {old}) \cup {n}]
<1>1. p \in DOMAIN dirs_content /\ was = [dirs |-> was.dirs, files |-> was.files, names |-> was.names]
  BY DEF IndexInv, ListingOf, Described
<1>2. listing = [dirs_content EXCEPT ![p] = rec]
  BY DEF RenameIn
<1> HIDE DEF was
<1>3. rec = [dirs |-> was.dirs, files |-> was.files, names |-> (was.names \ {old}) \cup {n}]
  BY <1>1
<1> HIDE DEF rec
<1>4. /\ DOMAIN listing = DOMAIN dirs_content
      /\ listing = [q \in DOMAIN listing |-> listing[q]]
      /\ listing[p] = rec
      /\ \A q \in DOMAIN dirs_content \ {p} : listing[q] = dirs_content[q]
  BY <1>1, <1>2
<1> QED
  BY <1>3, <1>4 DEF was, Updated, RenamedListing

\* Another name in a directory's entry and in the listing of its parent.
LEMMA RenameDirectorySound ==
  ASSUME ArchiveInv, NEW id \in DOMAIN dirs, NEW n \in Names,
         n \notin dirs_content[dirs[id].parent_dir].names,
         NEW new, new = PutDir(file_segments, SlotOfDir(file_segments, id),
                               [dirs[id] EXCEPT !.name = n]),
         NEW ds, ds = [dirs EXCEPT ![id] = [dirs[id] EXCEPT !.name = n]],
         NEW listing, listing = RenameIn(dirs[id].parent_dir, dirs[id].name, n)
  PROVE  /\ Sound(new, ds, files, next_id, coverage, source_len)
         /\ Lasting(new, coverage)
         /\ listing = ListingOf(ds, files)
         /\ [dirs[id] EXCEPT !.name = n] \in Directory
<1> DEFINE at  == SlotOfDir(file_segments, id)
           dir == dirs[id]
           e   == [dir EXCEPT !.name = n]
<1>0. /\ IndexInv /\ IdsInv
      /\ file_segments \in Tables /\ file_segments # <<>>
      /\ Match(DirTable(file_segments), dirs) /\ Match(FileTable(file_segments), files)
      /\ Tree(dirs, files) /\ dirs_content = ListingOf(dirs, files)
  BY DEF ArchiveInv, IndexInv, Described
<1>1. dir \in Directory /\ dir.id = id /\ dir.parent_dir \in {Root} \cup DOMAIN dirs
  BY <1>0, IndexTypes DEF Tree
<1>2. /\ at \in Used(DirTable(file_segments)) /\ at \in DirSlots(file_segments)
      /\ DirTable(file_segments)[at] = dir /\ DirAt(file_segments, at) = dir
  BY <1>0, SlotOfDirFound
<1>3. /\ n \notin dirs_content[dir.parent_dir].names
      /\ new = PutDir(file_segments, at, e)
      /\ ds = [dirs EXCEPT ![id] = e]
      /\ listing = RenameIn(dir.parent_dir, dir.name, n)
  OBVIOUS
<1> HIDE DEF at, dir
<1>4. /\ e \in Directory /\ e # None
      /\ e.id = id /\ e.parent_dir = dir.parent_dir /\ e.name = n
  <2>1. e \in Directory
    BY <1>1 DEF Directory
  <2>2. e.id = id /\ e.parent_dir = dir.parent_dir /\ e.name = n
    BY <1>1 DEF Directory
  <2> QED
    BY <2>1, <2>2, NoneAssumption
<1> HIDE DEF e
<1>5. /\ new \in Tables /\ DOMAIN new = DOMAIN file_segments
      /\ DirTable(new) = [DirTable(file_segments) EXCEPT ![at] = e]
      /\ FileTable(new) = FileTable(file_segments)
      /\ Zones(new) = Zones(file_segments)
  BY <1>0, <1>2, <1>3, <1>4, PutDirTables
<1>6. new # <<>>
  BY <1>0, <1>5 DEF Tables
<1>7. /\ DOMAIN ds = DOMAIN dirs /\ ds = [k \in DOMAIN ds |-> ds[k]]
      /\ ds[id] = e /\ \A k \in DOMAIN dirs \ {id} : ds[k] = dirs[k]
  BY <1>3
<1>8. Match(DirTable(new), ds)
  <2>1. at \in DOMAIN DirTable(file_segments)
    BY <1>2 DEF Used
  <2>2. /\ DOMAIN DirTable(new) = DOMAIN DirTable(file_segments)
        /\ DirTable(new)[at] = e
        /\ \A x \in DOMAIN DirTable(file_segments) \ {at} :
             DirTable(new)[x] = DirTable(file_segments)[x]
    BY <1>5, <2>1
  <2> QED
    BY <1>0, <1>1, <1>2, <1>4, <1>7, <2>2, MatchUpdate
<1>9. Match(FileTable(new), files)
  BY <1>0, <1>3, <1>5
<1>10. Tree(ds, files) /\ listing = ListingOf(ds, files)
  <2> DEFINE p == dir.parent_dir
             old == dir.name
  <2>1. Updated(dirs_content, p, RenamedListing(dirs_content[p], old, n), listing)
    BY <1>0, <1>1, <1>3, RenameInEffect
  <2>2. p = dirs[id].parent_dir /\ old = dirs[id].name
    BY DEF dir
  <2> HIDE DEF p, old
  <2>3. n \notin dirs_content[p].names /\ e.parent_dir = p /\ e.name = n
    BY <1>3, <1>4 DEF p
  <2>4. listing = ListingOf(ds, files) /\ Tree(ds, files)
    <3>1. Updated(dirs, id, e, ds)
      BY <1>7 DEF Updated
    <3>2. Tree(dirs, files) /\ dirs_content = ListingOf(dirs, files)
      BY <1>0
    <3>3. RenamedEntry(dirs, dirs_content, id, p, old, n, e, listing)
      BY <2>1, <2>2, <2>3 DEF RenamedEntry
    <3> QED
      BY <3>1, <3>2, <3>3, ListingRenameDir
  <2> QED
    BY <1>3, <2>4
<1>11. Described(new, ds, files)
  BY <1>5, <1>6, <1>8, <1>9, <1>10 DEF Described
<1>12. IdsApart(ds, files, next_id)
  BY <1>0, <1>7 DEF IdsInv, IdsApart
<1>13. Fits(Zones(new), FirstMark, coverage, source_len) /\ Lasting(new, coverage)
  BY <1>5, SpaceTypes DEF ArchiveInv, SpaceInv, Lasting
<1> QED
  BY <1>4, <1>10, <1>11, <1>12, <1>13 DEF Sound, e, dir

\* rename_directory.
LEMMA RenameDirectoryKeeps ==
  ASSUME ArchiveInv, NEW id \in DOMAIN dirs, NEW n \in Names, RenameDirectory(id, n)
  PROVE  ArchiveInv' /\ Lasting(file_segments', coverage')
<1> DEFINE dir == dirs[id]
           e   == [dir EXCEPT !.name = n]
           at  == SlotOfDir(file_segments, id)
<1>1. DirAt(file_segments, at) = dir
  BY SlotOfDirFound DEF ArchiveInv, IndexInv, Described
<1>2. /\ n \notin dirs_content[dir.parent_dir].names
      /\ file_segments' = PutDir(file_segments, at, e)
      /\ dirs' = [dirs EXCEPT ![id] = e]
      /\ dirs_content' = RenameIn(dir.parent_dir, dir.name, n)
      /\ UNCHANGED <<files, coverage, next_id, source_len>>
  BY <1>1 DEF RenameDirectory, NameIsFree
<1>3. /\ Sound(file_segments', dirs', files, next_id, coverage, source_len)
      /\ Lasting(file_segments', coverage)
      /\ dirs_content' = ListingOf(dirs', files)
  BY <1>2, RenameDirectorySound
<1> QED
  BY <1>2, <1>3, SoundAfter

\* Another name in a file's entry and in the listing of its parent.
LEMMA RenameFileSound ==
  ASSUME ArchiveInv, NEW id \in DOMAIN files, NEW n \in Names,
         n \notin dirs_content[files[id].parent_dir].names,
         NEW new, new = PutFile(file_segments, SlotOfFile(file_segments, id),
                                [files[id] EXCEPT !.name = n]),
         NEW fs, fs = [files EXCEPT ![id] = [files[id] EXCEPT !.name = n]],
         NEW listing, listing = RenameIn(files[id].parent_dir, files[id].name, n)
  PROVE  /\ Sound(new, dirs, fs, next_id, coverage, source_len)
         /\ Lasting(new, coverage)
         /\ listing = ListingOf(dirs, fs)
         /\ [files[id] EXCEPT !.name = n] \in File
<1> DEFINE at   == SlotOfFile(file_segments, id)
           file == files[id]
           e    == [file EXCEPT !.name = n]
           z    == Zones(file_segments)
<1>0. /\ IndexInv /\ IdsInv
      /\ file_segments \in Tables /\ file_segments # <<>>
      /\ Match(DirTable(file_segments), dirs) /\ Match(FileTable(file_segments), files)
      /\ Tree(dirs, files) /\ dirs_content = ListingOf(dirs, files)
      /\ Fits(z, FirstMark, coverage, source_len)
  BY DEF ArchiveInv, IndexInv, SpaceInv, Described
<1>1. file \in File /\ file.id = id /\ file.parent_dir \in {Root} \cup DOMAIN dirs
  BY <1>0, IndexTypes DEF Tree
<1>2. /\ at \in Used(FileTable(file_segments)) /\ at \in FileSlots(file_segments)
      /\ at \in UsedFileSlots(file_segments)
      /\ FileTable(file_segments)[at] = file /\ FileAt(file_segments, at) = file
  BY <1>0, SlotOfFileFound, UsedSlots
<1>3. at \in DOMAIN z /\ z[at] = Extent(file)
  BY <1>0, <1>2, MarksShape DEF Zones
<1>4. /\ n \notin dirs_content[file.parent_dir].names
      /\ new = PutFile(file_segments, at, e)
      /\ fs = [files EXCEPT ![id] = e]
      /\ listing = RenameIn(file.parent_dir, file.name, n)
  OBVIOUS
<1> HIDE DEF at, file, z
<1>5. /\ e \in File /\ e # None
      /\ e.id = id /\ e.parent_dir = file.parent_dir /\ e.name = n
      /\ Extent(e) = Extent(file)
  <2>1. e \in File
    BY <1>1 DEF File
  <2>2. /\ e.id = id /\ e.parent_dir = file.parent_dir /\ e.name = n
        /\ e.content_addr = file.content_addr /\ e.content_len = file.content_len
    BY <1>1 DEF File
  <2> QED
    BY <2>1, <2>2, NoneAssumption DEF Extent
<1> HIDE DEF e
<1>6. /\ new \in Tables /\ DOMAIN new = DOMAIN file_segments
      /\ DirTable(new) = DirTable(file_segments)
      /\ FileTable(new) = [FileTable(file_segments) EXCEPT ![at] = e]
      /\ DOMAIN Zones(new) = DOMAIN z
      /\ \A m \in DOMAIN z : Zones(new)[m] = z[m]
  <2>1. file_segments \in Tables /\ at \in FileSlots(file_segments) /\ e \in File /\ new = PutFile(file_segments, at, e)
    BY <1>0, <1>2, <1>5, <1>4
  <2>2. FilePut(file_segments, new, at, e)
    BY <2>1, PutFileTables
  <2> QED
    BY <1>3, <1>5, <2>2 DEF FilePut, z
<1>7. new # <<>>
  BY <1>0, <1>6 DEF Tables
<1>8. /\ DOMAIN fs = DOMAIN files /\ fs = [k \in DOMAIN fs |-> fs[k]]
      /\ fs[id] = e /\ \A k \in DOMAIN files \ {id} : fs[k] = files[k]
  BY <1>4
<1>9. Match(FileTable(new), fs)
  <2>1. at \in DOMAIN FileTable(file_segments)
    BY <1>2 DEF Used
  <2>2. /\ DOMAIN FileTable(new) = DOMAIN FileTable(file_segments)
        /\ FileTable(new)[at] = e
        /\ \A x \in DOMAIN FileTable(file_segments) \ {at} :
             FileTable(new)[x] = FileTable(file_segments)[x]
    BY <1>6, <2>1
  <2> QED
    BY <1>0, <1>1, <1>2, <1>5, <1>8, <2>2, MatchUpdate
<1>10. Match(DirTable(new), dirs)
  BY <1>0, <1>4, <1>6
<1>11. Tree(dirs, fs) /\ listing = ListingOf(dirs, fs)
  <2> DEFINE p == file.parent_dir
             old == file.name
  <2>1. Updated(dirs_content, p, RenamedListing(dirs_content[p], old, n), listing)
    BY <1>0, <1>1, <1>4, RenameInEffect
  <2>2. p = files[id].parent_dir /\ old = files[id].name
    BY DEF file
  <2> HIDE DEF p, old
  <2>3. n \notin dirs_content[p].names /\ e.parent_dir = p /\ e.name = n
    BY <1>4, <1>5 DEF p
  <2>4. listing = ListingOf(dirs, fs) /\ Tree(dirs, fs)
    <3>1. Updated(files, id, e, fs)
      BY <1>8 DEF Updated
    <3>2. Tree(dirs, files) /\ dirs_content = ListingOf(dirs, files)
      BY <1>0
    <3>3. RenamedEntry(files, dirs_content, id, p, old, n, e, listing)
      BY <2>1, <2>2, <2>3 DEF RenamedEntry
    <3> QED
      BY <3>1, <3>2, <3>3, ListingRenameFile
  <2> QED
    BY <1>4, <2>4
<1>12. Described(new, dirs, fs)
  BY <1>6, <1>7, <1>9, <1>10, <1>11 DEF Described
<1>13. IdsApart(dirs, fs, next_id)
  BY <1>0, <1>8 DEF IdsInv, IdsApart
<1>14. FirstMark \in DOMAIN Zones(new) /\ source_len \in Nat
  BY <1>6, <1>7, FirstZone, SpaceTypes
<1>15. Fits(Zones(new), FirstMark, coverage, source_len)
  BY <1>0, <1>6, <1>14, FitsLess
<1>16. Lasting(new, coverage)
  BY <1>6, <1>14, SpaceTypes DEF Lasting, z
<1> QED
  BY <1>5, <1>11, <1>12, <1>13, <1>15, <1>16 DEF Sound, e, file

\* rename_file.
LEMMA RenameFileKeeps ==
  ASSUME ArchiveInv, NEW id \in DOMAIN files, NEW n \in Names, RenameFile(id, n)
  PROVE  ArchiveInv' /\ Lasting(file_segments', coverage')
<1> DEFINE file == files[id]
           e    == [file EXCEPT !.name = n]
           at   == SlotOfFile(file_segments, id)
<1>1. FileAt(file_segments, at) = file
  BY SlotOfFileFound DEF ArchiveInv, IndexInv, Described
<1>2. /\ n \notin dirs_content[file.parent_dir].names
      /\ file_segments' = PutFile(file_segments, at, e)
      /\ files' = [files EXCEPT ![id] = e]
      /\ dirs_content' = RenameIn(file.parent_dir, file.name, n)
      /\ UNCHANGED <<dirs, coverage, next_id, source_len>>
  BY <1>1 DEF RenameFile, NameIsFree
<1>3. /\ Sound(file_segments', dirs, files', next_id, coverage, source_len)
      /\ Lasting(file_segments', coverage)
      /\ dirs_content' = ListingOf(dirs, files')
  BY <1>2, RenameFileSound
<1> QED
  BY <1>2, <1>3, SoundAfter

-----------------------------------------------------------------------------
(* Removing items *)

\* What RemoveItems makes of the archive.
Removal(gone_dirs, gone_files, new, ds, fs, listing, cov) ==
  /\ new = ClearEntries(file_segments, gone_dirs, gone_files)
  /\ ds = Restrict(dirs, DOMAIN dirs \ gone_dirs)
  /\ fs = Restrict(files, DOMAIN files \ gone_files)
  /\ listing = [p \in DOMAIN dirs_content \ gone_dirs |->
                  ListingWithout(dirs, files, dirs_content[p], gone_dirs, gone_files)]
  /\ cov = [coverage EXCEPT !.segments = @ \ {Extent(files[f]) : f \in gone_files}]

\* Removing directories with all they contain, and files, leaves the rest
\* sound.
LEMMA RemoveItemsSound ==
  ASSUME ArchiveInv,
         NEW gone_dirs \in SUBSET DOMAIN dirs, NEW gone_files \in SUBSET DOMAIN files,
         \A d \in gone_dirs : Kids(dirs, d) \subseteq gone_dirs /\ Kids(files, d) \subseteq gone_files,
         NEW new, NEW ds, NEW fs, NEW listing, NEW cov,
         Removal(gone_dirs, gone_files, new, ds, fs, listing, cov)
  PROVE  /\ Sound(new, ds, fs, next_id, cov, source_len)
         /\ Lasting(new, cov)
         /\ listing = ListingOf(ds, fs)
<1> DEFINE segs == file_segments
           z    == Zones(segs)
           gone == SlotsOfFiles(segs, gone_files)
<1>0. /\ IndexInv /\ IdsInv
      /\ segs \in Tables /\ segs # <<>>
      /\ Match(DirTable(segs), dirs) /\ Match(FileTable(segs), files)
      /\ Tree(dirs, files) /\ dirs_content = ListingOf(dirs, files)
      /\ Fits(z, FirstMark, coverage, source_len)
      /\ Root \notin DOMAIN dirs
  BY IndexTypes DEF ArchiveInv, IndexInv, SpaceInv, Described
<1>1. /\ new = ClearEntries(file_segments, gone_dirs, gone_files)
      /\ ds = Restrict(dirs, DOMAIN dirs \ gone_dirs)
      /\ fs = Restrict(files, DOMAIN files \ gone_files)
      /\ listing = [p \in DOMAIN dirs_content \ gone_dirs |->
                      ListingWithout(dirs, files, dirs_content[p], gone_dirs, gone_files)]
      /\ cov = [coverage EXCEPT !.segments = @ \ {Extent(files[f]) : f \in gone_files}]
  BY DEF Removal
<1>2. /\ new \in Tables /\ DOMAIN new = DOMAIN segs
      /\ DirTable(new) = ClearedTable(DirTable(segs), gone_dirs)
      /\ FileTable(new) = ClearedTable(FileTable(segs), gone_files)
      /\ DOMAIN Zones(new) = DOMAIN z \ gone
      /\ \A m \in DOMAIN Zones(new) : Zones(new)[m] = z[m]
  <2> DEFINE put == ClearEntries(segs, gone_dirs, gone_files)
  <2>1. /\ put \in Tables /\ DOMAIN put = DOMAIN segs
        /\ DirTable(put) = ClearedTable(DirTable(segs), gone_dirs)
        /\ FileTable(put) = ClearedTable(FileTable(segs), gone_files)
        /\ DOMAIN Zones(put) = DOMAIN Zones(segs) \ gone
        /\ \A m \in DOMAIN Zones(put) : Zones(put)[m] = Zones(segs)[m]
    <3>1. segs \in Tables
      BY <1>0
    <3> HIDE DEF segs
    <3> QED
      BY <3>1, ClearTables
  <2>2. new = put
    BY <1>1
  <2> HIDE DEF put
  <2> QED
    BY <2>1, <2>2
<1>3. new # <<>>
  BY <1>0, <1>2 DEF Tables
<1>4. Match(DirTable(new), ds)
  <2> DEFINE t   == DirTable(segs)
             put == ClearedTable(t, gone_dirs)
  <2>1. /\ DOMAIN put = DOMAIN t
        /\ \A x \in DOMAIN t :
             put[x] = IF t[x] # None /\ t[x].id \in gone_dirs THEN None ELSE t[x]
    BY DEF ClearedTable
  <2> HIDE DEF t, put
  <2>2. Match(put, Restrict(dirs, DOMAIN dirs \ gone_dirs))
    BY <1>0, <2>1, MatchClear DEF t
  <2> QED
    BY <1>1, <1>2, <2>2 DEF t, put
<1>5. Match(FileTable(new), fs)
  <2> DEFINE t   == FileTable(segs)
             put == ClearedTable(t, gone_files)
  <2>1. /\ DOMAIN put = DOMAIN t
        /\ \A x \in DOMAIN t :
             put[x] = IF t[x] # None /\ t[x].id \in gone_files THEN None ELSE t[x]
    BY DEF ClearedTable
  <2> HIDE DEF t, put
  <2>2. Match(put, Restrict(files, DOMAIN files \ gone_files))
    BY <1>0, <2>1, MatchClear DEF t
  <2> QED
    BY <1>1, <1>2, <2>2 DEF t, put
<1>6. Tree(ds, fs) /\ listing = ListingOf(ds, fs)
  <2> DEFINE less == Restrict(dirs, DOMAIN dirs \ gone_dirs)
             left == Restrict(files, DOMAIN files \ gone_files)
  <2>1. /\ Tree(dirs, files) /\ dirs_content = ListingOf(dirs, files)
        /\ Root \notin DOMAIN dirs
    BY <1>0
  <2>2. AllWithout(dirs, files, dirs_content, gone_dirs, gone_files, listing)
    BY <1>1 DEF AllWithout
  <2>3. Tree(less, left) /\ listing = ListingOf(less, left)
    BY <2>1, <2>2, ListingRemove
  <2> QED
    BY <1>1, <2>3
<1>7. Described(new, ds, fs)
  BY <1>2, <1>3, <1>4, <1>5, <1>6 DEF Described
<1>8. IdsApart(ds, fs, next_id)
  <2>1. DOMAIN ds \subseteq DOMAIN dirs /\ DOMAIN fs \subseteq DOMAIN files
    BY <1>1 DEF Restrict
  <2> QED
    BY <1>0, <2>1 DEF IdsInv, IdsApart
<1>9. Fits(Zones(new), FirstMark, cov, source_len) /\ Lasting(new, cov)
  <2> DEFINE freed == {Extent(files[f]) : f \in gone_files}
  <2>1. \A e \in freed : \E m \in gone : e = z[m]
    <3> SUFFICES ASSUME NEW f \in gone_files
                 PROVE  \E m \in gone : Extent(files[f]) = z[m]
      OBVIOUS
    <3> DEFINE at == SlotOfFile(segs, f)
    <3>1. /\ at \in UsedFileSlots(segs) /\ FileAt(segs, at) = files[f] /\ files[f].id = f
      BY <1>0, SlotOfFileFound, UsedSlots, IndexTypes
    <3>2. at \in gone
      BY <3>1 DEF SlotsOfFiles
    <3>3. z[at] = Extent(files[f])
      BY <1>0, <3>1, MarksShape DEF Zones
    <3> QED
      BY <3>2, <3>3
  <2>2. gone \in SUBSET DOMAIN z
    BY <1>0, MarksShape DEF SlotsOfFiles, Zones
  <2>3. coverage = [len |-> coverage.len, segments |-> coverage.segments]
    BY SpaceTypes
  <2>4. /\ cov.len = coverage.len /\ cov = [len |-> cov.len, segments |-> cov.segments]
        /\ cov.segments = coverage.segments \ freed
    BY <1>1, <2>3
  <2>5. FirstMark \in DOMAIN z /\ FirstMark \notin gone
    BY <1>0, FirstZone, MarksShape DEF SlotsOfFiles, UsedFileSlots
  <2> HIDE DEF freed, gone, z
  <2>6. \A s \in coverage.segments : (\A m \in gone : s # z[m]) => s \in cov.segments
    BY <2>1, <2>4
  <2>7. Fits(Zones(new), FirstMark, cov, source_len)
    <3> DEFINE y == Zones(new)
    <3>1. cov.segments \subseteq coverage.segments
      BY <2>4
    <3>2. DOMAIN y = DOMAIN z \ gone /\ \A m \in DOMAIN y : y[m] = z[m]
      BY <1>2
    <3>3. Fits(z, FirstMark, coverage, source_len)
      BY <1>0
    <3> HIDE DEF y
    <3>4. Released(z, coverage, gone, y, cov)
      BY <2>2, <2>4, <2>6, <3>1, <3>2 DEF Released
    <3>5. Fits(y, FirstMark, cov, source_len)
      BY <2>5, <3>3, <3>4, FitsRelease
    <3> QED
      BY <3>5 DEF y
  <2>8. Lasting(new, cov)
    BY <1>2, <2>4, <2>5, SpaceTypes DEF Lasting, z
  <2> QED
    BY <2>7, <2>8
<1> QED
  BY <1>6, <1>7, <1>8, <1>9 DEF Sound

\* The same of the action.
LEMMA RemoveItemsKeeps ==
  ASSUME ArchiveInv,
         NEW gone_dirs \in SUBSET DOMAIN dirs, NEW gone_files \in SUBSET DOMAIN files,
         \A d \in gone_dirs : Kids(dirs, d) \subseteq gone_dirs /\ Kids(files, d) \subseteq gone_files,
         RemoveItems(gone_dirs, gone_files)
  PROVE  ArchiveInv' /\ Lasting(file_segments', coverage')
<1>1. /\ Removal(gone_dirs, gone_files, file_segments', dirs', files', dirs_content', coverage')
      /\ UNCHANGED <<next_id, source_len>>
  BY DEF RemoveItems, Removal
<1>2. /\ Sound(file_segments', dirs', files', next_id, coverage', source_len)
      /\ Lasting(file_segments', coverage')
      /\ dirs_content' = ListingOf(dirs', files')
  BY <1>1, RemoveItemsSound
<1> QED
  BY <1>1, <1>2, SoundAfter

\* What lies below a directory is closed: it holds the directory and what
\* each of its members lists.
LEMMA SubtreeClosed ==
  ASSUME IndexInv, NEW id \in DOMAIN dirs
  PROVE  /\ Subtree(id) \subseteq DOMAIN dirs
         /\ id \in Subtree(id)
         /\ \A d \in Subtree(id) : Kids(dirs, d) \subseteq Subtree(id)
         /\ \A S \in SUBSET DOMAIN dirs :
              /\ FilesUnder(S) \subseteq DOMAIN files
              /\ \A d \in S : Kids(files, d) \subseteq FilesUnder(S)
<1>1. \A d \in DOMAIN dirs : /\ dirs_content[d].dirs = Kids(dirs, d)
                             /\ dirs_content[d].files = Kids(files, d)
  BY ListingFields DEF IndexInv, Described
<1>2. \A d : Kids(dirs, d) \subseteq DOMAIN dirs /\ Kids(files, d) \subseteq DOMAIN files
  BY DEF Kids
<1>3. Subtree(id) \subseteq DOMAIN dirs /\ id \in Subtree(id)
  BY DEF Subtree
<1>4. ASSUME NEW d \in Subtree(id), NEW k \in Kids(dirs, d)
      PROVE  k \in Subtree(id)
  <2>1. k \in DOMAIN dirs
    BY <1>2
  <2>2. ASSUME NEW X \in SUBSET DOMAIN dirs, id \in X,
               \A x \in X : dirs_content[x].dirs \subseteq X
        PROVE  k \in X
    <3>1. d \in X
      BY <2>2 DEF Subtree
    <3> QED
      BY <1>1, <1>3, <2>2, <3>1
  <2> QED
    BY <2>1, <2>2 DEF Subtree
<1>5. ASSUME NEW S \in SUBSET DOMAIN dirs
      PROVE  /\ FilesUnder(S) \subseteq DOMAIN files
             /\ \A d \in S : Kids(files, d) \subseteq FilesUnder(S)
  BY <1>1, <1>2 DEF FilesUnder
<1> QED
  BY <1>3, <1>4, <1>5

\* remove_file.
LEMMA RemoveFileKeeps ==
  ASSUME ArchiveInv, NEW id \in DOMAIN files, RemoveFile(id)
  PROVE  ArchiveInv' /\ Lasting(file_segments', coverage')
<1>1. RemoveItems({}, {id})
  BY DEF RemoveFile
<1> QED
  BY <1>1, RemoveItemsKeeps

\* remove_dir: all below the directory goes with it.
LEMMA RemoveDirKeeps ==
  ASSUME ArchiveInv, NEW id \in DOMAIN dirs, RemoveDir(id)
  PROVE  ArchiveInv' /\ Lasting(file_segments', coverage')
<1> DEFINE ds == Subtree(id)
           fs == FilesUnder(ds)
<1>1. /\ ds \in SUBSET DOMAIN dirs /\ fs \in SUBSET DOMAIN files
      /\ \A d \in ds : Kids(dirs, d) \subseteq ds /\ Kids(files, d) \subseteq fs
  BY SubtreeClosed DEF ArchiveInv
<1>2. RemoveItems(ds, fs)
  BY DEF RemoveDir
<1> HIDE DEF ds, fs
<1> QED
  BY <1>1, <1>2, RemoveItemsKeeps

\* Halfway through remove_dir too: a directory goes after all it contains.
LEMMA RemoveDirFailsKeeps ==
  ASSUME ArchiveInv, NEW id \in DOMAIN dirs, RemoveDirFails(id)
  PROVE  ArchiveInv' /\ Lasting(file_segments', coverage')
<1>1. PICK gone_dirs \in SUBSET (Subtree(id) \ {id}) :
        \E gone_files \in SUBSET FilesUnder(Subtree(id)) :
          RemovedSoFar(id, gone_dirs, gone_files) /\ RemoveItems(gone_dirs, gone_files)
  BY DEF RemoveDirFails
<1>2. PICK gone_files \in SUBSET FilesUnder(Subtree(id)) :
          RemovedSoFar(id, gone_dirs, gone_files) /\ RemoveItems(gone_dirs, gone_files)
  BY <1>1
<1>3. gone_dirs \in SUBSET DOMAIN dirs /\ gone_files \in SUBSET DOMAIN files
  BY SubtreeClosed DEF ArchiveInv
<1>4. ASSUME NEW d \in gone_dirs
      PROVE  Kids(dirs, d) \subseteq gone_dirs /\ Kids(files, d) \subseteq gone_files
  <2>1. Subtree(d) \subseteq gone_dirs /\ FilesUnder(Subtree(d)) \subseteq gone_files
    BY <1>2 DEF RemovedSoFar
  <2>2. d \in DOMAIN dirs
    BY <1>3
  <2>3. /\ Subtree(d) \in SUBSET DOMAIN dirs /\ d \in Subtree(d)
        /\ Kids(dirs, d) \subseteq Subtree(d) /\ Kids(files, d) \subseteq FilesUnder(Subtree(d))
    BY <2>2, SubtreeClosed DEF ArchiveInv
  <2> QED
    BY <2>1, <2>3
<1> QED
  BY <1>2, <1>3, <1>4, RemoveItemsKeeps
-----------------------------------------------------------------------------
(* Opening *)

\* The coverage Archive::open computes holds the zones of the table.
LEMMA OpenCoverageZones ==
  ASSUME NEW segs, NEW len
  PROVE  OpenCoverage(segs, len) =
           [len |-> len,
            segments |-> {s \in {Zones(segs)[m] : m \in DOMAIN Zones(segs)} : s.len > 0}]
<1>1. {MarkedZone(segs, m) : m \in Marks(segs)} = {Zones(segs)[m] : m \in DOMAIN Zones(segs)}
  BY DEF Zones
<1> QED
  BY <1>1 DEF OpenCoverage, CoverageOfMarks

\* The ID Archive::open gives out next is above all that are in use.
LEMMA OpenNextIdEffect ==
  ASSUME NEW segs, NEW ds, NEW fs, Described(segs, ds, fs),
         NEW next, IdsApart(ds, fs, next)
  PROVE  /\ OpenNextId(segs) \in Ids
         /\ \A id \in DOMAIN ds \cup DOMAIN fs : id < OpenNextId(segs)
<1> DEFINE used == {x.id : x \in DirsIn(segs) \cup FilesIn(segs)}
           IsNext(n) == (\A id \in used : id < n) /\ (n > 1 => n - 1 \in used)
<1>1. used = DOMAIN ds \cup DOMAIN fs
  <2>1. /\ \A e : e \in DirsIn(segs) <=> \E id \in DOMAIN ds : e = ds[id]
        /\ \A e : e \in FilesIn(segs) <=> \E id \in DOMAIN fs : e = fs[id]
    BY OpenBuildsIndex DEF Described
  <2>2. /\ \A id \in DOMAIN ds : ds[id].id = id
        /\ \A id \in DOMAIN fs : fs[id].id = id
    BY DescribedTypes
  <2> QED
    BY <2>1, <2>2
<1>2. /\ \A id \in used : id \in Nat \ {0} /\ id < next /\ id <= MaxId
      /\ next \in 1 .. MaxId /\ MaxId \in Nat \ {0}
  BY <1>1, DescribedTypes, BoundsAssumption DEF Ids, IdsApart
<1>3. OpenNextId(segs) = CHOOSE n \in 1 .. (MaxId + 1) : IsNext(n)
  BY DEF OpenNextId
<1> HIDE DEF used
<1>4. \E n \in 1 .. (MaxId + 1) : IsNext(n)
  <2>1. CASE used = {}
    BY <1>2, <2>1
  <2>2. CASE used # {}
    <3>1. used \in SUBSET Nat /\ \A n \in used : n <= MaxId
      BY <1>2
    <3>2. PICK m \in used : \A n \in used : n <= m
      BY <1>2, <2>2, <3>1, NatMax
    <3>3. m + 1 \in 1 .. (MaxId + 1) /\ IsNext(m + 1)
      BY <1>2, <3>2
    <3> QED
      BY <3>3
  <2> QED
    BY <2>1, <2>2
<1>5. OpenNextId(segs) \in 1 .. (MaxId + 1) /\ IsNext(OpenNextId(segs))
  BY <1>3, <1>4
<1>6. OpenNextId(segs) \in Ids
  BY <1>2, <1>5 DEF Ids
<1> QED
  BY <1>1, <1>5, <1>6

\* The archive opened from a sound table, whatever came before.
LEMMA OpenSound ==
  ASSUME NEW segs, NEW ds, NEW fs, NEW next, NEW cov, NEW len,
         Sound(segs, ds, fs, next, cov, len), Open(segs, len)
  PROVE  /\ ArchiveInv'
         /\ dirs' = ds /\ files' = fs /\ dirs_content' = ListingOf(ds, fs)
         /\ file_segments' = segs /\ source_len' = len /\ coverage'.len = len
<1> DEFINE z == Zones(segs)
           S == {s \in {z[m] : m \in DOMAIN z} : s.len > 0}
<1>1. /\ file_segments' = segs /\ source_len' = len
      /\ dirs' = DirsOf(segs) /\ files' = FilesOf(segs)
      /\ dirs_content' = DirsContentOf(segs)
      /\ coverage' = OpenCoverage(segs, len)
      /\ next_id' = OpenNextId(segs)
  BY DEF Open
<1>2. dirs' = ds /\ files' = fs /\ dirs_content' = ListingOf(ds, fs)
  BY <1>1, OpenBuildsIndex DEF Sound, Described
<1>3. IdsApart(ds, fs, next_id')
  BY <1>1, OpenNextIdEffect DEF Sound, IdsApart
<1>4. coverage' = [len |-> len, segments |-> S]
  BY <1>1, OpenCoverageZones
<1> HIDE DEF S
<1>5. Fits(Zones(segs), FirstMark, coverage', len)
  <2>1. segs \in Tables /\ segs # <<>> /\ Fits(z, FirstMark, cov, len)
    BY DEF Sound, Described
  <2>2. FirstMark \in DOMAIN z /\ z[FirstMark].len > 0
    BY <2>1, FirstZone
  <2> HIDE DEF z
  <2>3. Fits(z, FirstMark, [len |-> len, segments |-> S], len)
    BY <2>1, <2>2, FitsAfresh DEF S
  <2> QED
    BY <1>4, <2>3 DEF z
<1>6. Sound(file_segments', dirs', files', next_id', coverage', source_len')
  BY <1>1, <1>2, <1>3, <1>5 DEF Sound
<1> QED
  BY <1>1, <1>2, <1>4, <1>6, SoundAfter

\* close, then open: the index comes out as it was.
LEMMA ReopenKeeps ==
  ASSUME ArchiveInv, Reopen
  PROVE  /\ ArchiveInv' /\ Lasting(file_segments', coverage')
         /\ dirs' = dirs /\ files' = files
<1>1. Sound(file_segments, dirs, files, next_id, coverage, source_len)
  BY DEF ArchiveInv, IndexInv, IdsInv, SpaceInv, Sound
<1>2. Open(file_segments, source_len)
  BY DEF Reopen
<1>3. /\ ArchiveInv' /\ dirs' = dirs /\ files' = files
      /\ file_segments' = file_segments /\ coverage'.len = source_len
  BY <1>1, <1>2, OpenSound
<1>4. coverage.len <= source_len
  BY SpaceTypes
<1> QED
  BY <1>3, <1>4 DEF Lasting

\* The coverage reaches the end of the first segment, which is then complete.
CompleteInv == ArchiveInv /\ End(Zones(file_segments)[FirstMark]) <= coverage.len

\* In a complete archive everything is within the device.
LEMMA CompletePlaced ==
  ASSUME CompleteInv
  PROVE  Placed(Zones(file_segments), coverage, source_len)
BY FitsPlaced DEF CompleteInv, ArchiveInv, SpaceInv

\* What lasts stays complete.
LEMMA CompleteKeeps ==
  ASSUME CompleteInv, ArchiveInv', Lasting(file_segments', coverage')
  PROVE  CompleteInv'
<1>1. /\ Zones(file_segments')[FirstMark] = Zones(file_segments)[FirstMark]
      /\ coverage.len <= coverage'.len
      /\ End(Zones(file_segments)[FirstMark]) <= coverage.len
  BY DEF CompleteInv, Lasting
<1>2. Fits(Zones(file_segments), FirstMark, coverage, source_len)
  BY DEF CompleteInv, ArchiveInv, SpaceInv
<1>3. Fits(Zones(file_segments'), FirstMark, coverage', source_len')
  BY DEF ArchiveInv, SpaceInv
<1>4. coverage.len \in Nat /\ coverage'.len \in Nat
  BY <1>2, <1>3, FitsTypes
<1>5. Zones(file_segments)[FirstMark] \in Segments
  <2>1. file_segments \in Tables /\ file_segments # <<>>
    BY DEF CompleteInv, ArchiveInv, IndexInv, Described
  <2> QED
    BY <1>2, <2>1, FirstZone, FitsTypes
<1> DEFINE e == End(Zones(file_segments)[FirstMark])
<1>6. e \in Nat
  BY <1>5 DEF Segments, End
<1>7. End(Zones(file_segments')[FirstMark]) = e /\ e <= coverage.len
  BY <1>1
<1> HIDE DEF e
<1>8. e <= coverage'.len
  BY <1>1, <1>4, <1>6, <1>7
<1> QED
  BY <1>7, <1>8 DEF CompleteInv

\* A table of one empty segment, the first, right behind the header.
LEMMA CreatedSound ==
  ASSUME NEW first, first = EmptySegment(FirstDirsCapacity, FirstFilesCapacity),
         NEW segs, segs = <<first>>,
         NEW source_length, source_length = HEADER_SIZE + EncodedLen(first),
         NEW cov, cov = OpenCoverage(segs, source_length),
         NEW none, none = <<>>
  PROVE  /\ Sound(segs, none, none, 1, cov, source_length)
         /\ Placed(Zones(segs), cov, source_length)
         /\ cov.len = source_length
         /\ End(Zones(segs)[FirstMark]) = source_length /\ Zones(segs)[FirstMark].len > 0
<1> DEFINE len == EncodedLen(first)
<1>0. /\ first \in FileTableSegment
      /\ \A j \in DOMAIN first.dirs : first.dirs[j] = None
      /\ \A j \in DOMAIN first.files : first.files[j] = None
  <2> DEFINE e == EmptySegment(FirstDirsCapacity, FirstFilesCapacity)
  <2>1. /\ e \in FileTableSegment
        /\ \A j \in DOMAIN e.dirs : e.dirs[j] = None
        /\ \A j \in DOMAIN e.files : e.files[j] = None
    BY ONLY EmptySegmentType, Layout
  <2> HIDE DEF e
  <2>2. e = first
    BY DEF e
  <2> QED
    BY <2>1, <2>2
<1>1. DOMAIN none = {} /\ none = [id \in DOMAIN none |-> none[id]]
  OBVIOUS
<1>2. segs \in Tables /\ segs # <<>> /\ DOMAIN segs = {1} /\ segs[1] = first
  BY <1>0 DEF Tables
<1>3. len \in Nat \ {0} /\ HEADER_SIZE \in Nat \ {0} /\ source_length = HEADER_SIZE + len
  BY <1>0, EncodedLenPositive, Layout
<1> HIDE DEF len
<1>4. UsedDirSlots(segs) = {} /\ UsedFileSlots(segs) = {}
  <2>1. \A x \in DirSlots(segs) : DirAt(segs, x) = None
    BY <1>0, <1>2, DirSlotPair DEF DirAt
  <2>2. \A x \in FileSlots(segs) : FileAt(segs, x) = None
    BY <1>0, <1>2, FileSlotPair DEF FileAt
  <2> QED
    BY <2>1, <2>2 DEF UsedDirSlots, UsedFileSlots, FreeDirSlots, FreeFileSlots
<1>5. Described(segs, none, none)
  <2>1. Match(DirTable(segs), none) /\ Match(FileTable(segs), none)
    BY <1>1, <1>4, UsedSlots DEF Match
  <2>2. Tree(none, none)
    BY <1>1 DEF Tree
  <2> QED
    BY <1>2, <2>1, <2>2 DEF Described
<1>7. IdsApart(none, none, 1)
  BY <1>1, BoundsAssumption DEF Ids, IdsApart
<1>8. /\ Placed(Zones(segs), cov, source_length) /\ cov.len = source_length
      /\ End(Zones(segs)[FirstMark]) = source_length /\ Zones(segs)[FirstMark].len > 0
  <2> DEFINE z == Zones(segs)
             a == <<0, 0>>
             b == <<1, 0>>
             s == Segment(0, HEADER_SIZE)
             t == Segment(HEADER_SIZE, len)
  <2>1. Marks(segs) = {a, b}
    <3>1. {<<i, 0>> : i \in DOMAIN segs} = {b}
      BY <1>2
    <3>2. FileSlots(segs) \ FreeFileSlots(segs) = {}
      BY <1>4 DEF UsedFileSlots
    <3> HIDE DEF a, b
    <3> QED
      BY <3>1, <3>2 DEF Marks, a
  <2>2. MarkedZone(segs, a) = s
    BY DEF MarkedZone
  <2>3. MarkedZone(segs, b) = t
    BY <1>2 DEF MarkedZone, SegmentAddr, len
  <2>4. DOMAIN z = {a, b} /\ a # b /\ z[a] = s /\ z[b] = t
    BY <2>1, <2>2, <2>3 DEF Zones
  <2>5. /\ s \in Segments /\ t \in Segments /\ s # t
        /\ s.len > 0 /\ t.len > 0 /\ End(s) <= source_length /\ End(t) = source_length
        /\ Apart(s, t) /\ Apart(t, s) /\ source_length \in Nat
    BY <1>3 DEF Segment, Segments, End, Apart
  <2>6. cov = [len |-> source_length, segments |-> {s, t}]
    <3> HIDE DEF a, b, s, t, z
    <3>1. {x \in {z[m] : m \in DOMAIN z} : x.len > 0} = {s, t}
      BY <2>4, <2>5
    <3>2. cov = [len |-> source_length,
                 segments |-> {x \in {z[m] : m \in DOMAIN z} : x.len > 0}]
      BY OpenCoverageZones DEF z
    <3> QED
      BY <3>1, <3>2
  <2> HIDE DEF a, b, s, t, z
  <2>7. Tidy(cov) /\ cov.len = source_length /\ cov.segments = {s, t}
    BY <2>5, <2>6 DEF Tidy, Coverages, PairwiseApart
  <2>8. Placed(z, cov, source_length)
    BY <2>4, <2>5, <2>7 DEF Placed
  <2>9. z[FirstMark] = t
    BY <2>4 DEF FirstMark, b
  <2> QED
    BY <2>5, <2>7, <2>8, <2>9 DEF z
<1> QED
  BY <1>5, <1>7, <1>8 DEF Sound, Fits

\* A new archive: the header and one empty segment behind it.
LEMMA InitKeeps ==
  ASSUME Init
  PROVE  CompleteInv
<1>1. PICK first, segs, none :
        /\ first = EmptySegment(FirstDirsCapacity, FirstFilesCapacity)
        /\ segs = <<first>> /\ none = <<>>
  OBVIOUS
<1>2. DOMAIN none = {} /\ none = [id \in DOMAIN none |-> none[id]]
  BY <1>1
<1>3. /\ file_segments = segs /\ dirs = none /\ files = none
      /\ dirs_content = [p \in {Root} |-> [dirs |-> {}, files |-> {}, names |-> {}]]
      /\ source_len = HEADER_SIZE + EncodedLen(first)
      /\ coverage = OpenCoverage(segs, source_len)
      /\ next_id = 1
  BY <1>1 DEF Init
<1>4. /\ Sound(segs, none, none, 1, coverage, source_len)
      /\ coverage.len = source_len /\ End(Zones(segs)[FirstMark]) = source_len
  BY <1>1, <1>2, <1>3, CreatedSound
<1>5. source_len \in Nat
  BY <1>4, FitsTypes DEF Sound
<1>6. dirs_content = ListingOf(none, none)
  <2>1. Kids(none, Root) = {} /\ NamesOf(none, Root) \cup NamesOf(none, Root) = {}
    BY <1>2 DEF Kids, NamesOf
  <2> QED
    BY <1>2, <1>3, <2>1 DEF ListingOf
<1> QED
  BY <1>3, <1>4, <1>5, <1>6 DEF Sound, CompleteInv, ArchiveInv, IndexInv, IdsInv, SpaceInv
-----------------------------------------------------------------------------
(* The invariant *)

\* Every step keeps the invariant.
LEMMA ArchiveInvStep ==
  ASSUME ArchiveInv, [Next]_vars
  PROVE  ArchiveInv' /\ Lasting(file_segments', coverage')
<1>1. ASSUME NEW p \in DOMAIN dirs_content, NEW n \in Names, CreateDir(p, n)
      PROVE  ArchiveInv' /\ Lasting(file_segments', coverage')
  BY <1>1, CreateDirKeeps
<1>2. ASSUME NEW p \in DOMAIN dirs_content, NEW n \in Names, NEW c \in Contents,
             CreateFile(p, n, c)
      PROVE  ArchiveInv' /\ Lasting(file_segments', coverage')
  BY <1>2, CreateFileKeeps
<1>3. ASSUME NEW id \in DOMAIN files, NEW c \in Contents, ReplaceFileContent(id, c)
      PROVE  ArchiveInv' /\ Lasting(file_segments', coverage')
  BY <1>3, ReplaceFileContentKeeps
<1>4. ASSUME NEW id \in DOMAIN dirs, NEW n \in Names, RenameDirectory(id, n)
      PROVE  ArchiveInv' /\ Lasting(file_segments', coverage')
  BY <1>4, RenameDirectoryKeeps
<1>5. ASSUME NEW id \in DOMAIN files, NEW n \in Names, RenameFile(id, n)
      PROVE  ArchiveInv' /\ Lasting(file_segments', coverage')
  BY <1>5, RenameFileKeeps
<1>6. ASSUME NEW id \in DOMAIN dirs, RemoveDir(id)
      PROVE  ArchiveInv' /\ Lasting(file_segments', coverage')
  BY <1>6, RemoveDirKeeps
<1>7. ASSUME NEW id \in DOMAIN files, RemoveFile(id)
      PROVE  ArchiveInv' /\ Lasting(file_segments', coverage')
  BY <1>7, RemoveFileKeeps
<1>8. CASE Reopen
  BY <1>8, ReopenKeeps
<1>9. ASSUME NEW p \in DOMAIN dirs_content, NEW n \in Names, CreateDirFails(p, n)
      PROVE  ArchiveInv' /\ Lasting(file_segments', coverage')
  BY <1>9, CreateDirFailsKeeps
<1>10. ASSUME NEW p \in DOMAIN dirs_content, NEW n \in Names, NEW c \in Contents,
              CreateFileFails(p, n, c)
       PROVE  ArchiveInv' /\ Lasting(file_segments', coverage')
  BY <1>10, CreateFileFailsKeeps
<1>11. ASSUME NEW id \in DOMAIN dirs, RemoveDirFails(id)
       PROVE  ArchiveInv' /\ Lasting(file_segments', coverage')
  BY <1>11, RemoveDirFailsKeeps
<1>12. CASE UNCHANGED vars
  BY <1>12, SpaceTypes DEF vars, ArchiveInv, IndexInv, IdsInv, SpaceInv, Lasting
<1> QED
  BY <1>1, <1>2, <1>3, <1>4, <1>5, <1>6, <1>7, <1>8, <1>9, <1>10, <1>11, <1>12
     DEF Next, Operation, IoError

(***************************************************************************)
(* After any history of operations and I/O errors (but a failed            *)
(* replacement) the index is what the table says, the table is a tree with *)
(* unique IDs, and all it describes is placed in space of its own.         *)
(***************************************************************************)
THEOREM ArchiveInvariant == Spec => []CompleteInv
<1>1. Init => CompleteInv
  BY InitKeeps
<1>2. CompleteInv /\ [Next]_vars => CompleteInv'
  <2> SUFFICES ASSUME CompleteInv, [Next]_vars PROVE CompleteInv'
    OBVIOUS
  <2>1. ArchiveInv' /\ Lasting(file_segments', coverage')
    BY ArchiveInvStep DEF CompleteInv
  <2> QED
    BY <2>1, CompleteKeeps
<1> QED
  BY <1>1, <1>2, PTL DEF Spec

\* The same without the part that holds only of an archive created in full.
LEMMA ArchiveInvAlways == Spec => []ArchiveInv
<1>1. CompleteInv => ArchiveInv
  BY DEF CompleteInv
<1> QED
  BY <1>1, ArchiveInvariant, PTL

-----------------------------------------------------------------------------
(* What follows from it *)

\* All parts of the archive keep their types; in particular next_id stays a
\* valid ID.
THEOREM ArchiveTypeCorrect == Spec => []TypeOK
<1>1. ArchiveInv => TypeOK
  <2> SUFFICES ASSUME ArchiveInv PROVE TypeOK
    OBVIOUS
  <2>1. file_segments \in Seq(FileTableSegment)
    BY DEF ArchiveInv, IndexInv, Tables, Described
  <2>2. /\ dirs = [id \in DOMAIN dirs |-> dirs[id]] /\ files = [id \in DOMAIN files |-> files[id]]
        /\ dirs_content = ListingOf(dirs, files)
    BY DEF ArchiveInv, IndexInv, Match, Described
  <2>3. /\ \A id \in DOMAIN dirs  : id \in Ids /\ dirs[id] \in Directory
        /\ \A id \in DOMAIN files : id \in Ids /\ files[id] \in File
        /\ DOMAIN dirs_content = {Root} \cup DOMAIN dirs /\ DOMAIN dirs_content \subseteq ParentIds
    BY IndexTypes DEF ArchiveInv
  <2>4. dirs \in [DOMAIN dirs -> Directory] /\ files \in [DOMAIN files -> File]
    BY <2>2, <2>3
  <2>5. dirs_content \in [DOMAIN dirs_content -> DirContent]
    <3>1. ASSUME NEW p \in DOMAIN dirs_content
          PROVE  dirs_content[p] \in DirContent
      <4> DEFINE D == Kids(dirs, p)
                 F == Kids(files, p)
                 N == NamesOf(dirs, p) \cup NamesOf(files, p)
      <4>1. D \subseteq Ids /\ F \subseteq Ids
        BY <2>3 DEF Kids
      <4>2. N \subseteq Names
        BY <2>3 DEF NamesOf, Kids, Directory, File
      <4>3. dirs_content[p] = [dirs |-> D, files |-> F, names |-> N]
        BY <2>2, <2>3 DEF ListingOf
      <4> HIDE DEF D, F, N
      <4> QED
        BY <4>1, <4>2, <4>3 DEF DirContent
    <3>2. dirs_content = [p \in DOMAIN dirs_content |-> dirs_content[p]]
      BY <2>2 DEF ListingOf
    <3> QED
      BY <3>1, <3>2
  <2>6. coverage \in Coverages /\ source_len \in Nat
    BY SpaceTypes
  <2>7. next_id \in Ids
    BY DEF ArchiveInv, IdsInv, IdsApart
  <2> QED
    BY <2>1, <2>3, <2>4, <2>5, <2>6, <2>7 DEF TypeOK
<1> QED
  BY <1>1, ArchiveInvAlways, PTL

\* The maps and the listings are what opening the archive would build.
THEOREM IndexIsTheTable == Spec => []IndexMatchesTable
<1>1. ArchiveInv => IndexMatchesTable
  BY OpenBuildsIndex DEF ArchiveInv, IndexInv, IndexMatchesTable, Described
<1> QED
  BY <1>1, ArchiveInvAlways, PTL

\* The header, the segments and the contents never overlap and lie within
\* the device.
THEOREM ArchiveZonesApart == Spec => []ZonesApart
<1>1. CompleteInv => ZonesApart
  <2> SUFFICES ASSUME CompleteInv PROVE ZonesApart
    OBVIOUS
  <2> DEFINE z == Zones(file_segments)
  <2>1. /\ DOMAIN z = Marks(file_segments)
        /\ \A m \in Marks(file_segments) : z[m] = MarkedZone(file_segments, m)
    BY DEF Zones
  <2>2. Placed(z, coverage, source_len)
    BY CompletePlaced
  <2> HIDE DEF z
  <2>3. \A m, n \in DOMAIN z : m # n /\ z[m].len > 0 /\ z[n].len > 0 => Apart(z[m], z[n])
    BY <2>2, PlacedApart
  <2>4. \A m \in DOMAIN z : End(z[m]) <= source_len
    BY <2>2 DEF Placed
  <2> QED
    BY <2>1, <2>3, <2>4 DEF ZonesApart
<1> QED
  BY <1>1, ArchiveInvariant, PTL

\* The coverage knows every zone in use, so that no write lands on one.
THEOREM ArchiveCoverageKnowsAll == Spec => []CoverageKnowsAll
<1>1. ArchiveInv => CoverageKnowsAll
  <2> SUFFICES ASSUME ArchiveInv PROVE CoverageKnowsAll
    OBVIOUS
  <2> DEFINE z == Zones(file_segments)
  <2>1. Fits(z, FirstMark, coverage, source_len)
    BY DEF ArchiveInv, SpaceInv
  <2>2. OpenCoverage(file_segments, source_len).segments
          = {s \in {z[m] : m \in DOMAIN z} : s.len > 0}
    BY OpenCoverageZones
  <2> HIDE DEF z
  <2>3. {s \in {z[m] : m \in DOMAIN z} : s.len > 0} \subseteq coverage.segments
    <3>1. FirstMark \in DOMAIN z /\ z[FirstMark].len > 0
      BY FirstZone DEF ArchiveInv, IndexInv, Described, z
    <3> QED
      BY <2>1, <3>1, FitsAfresh
  <2> QED
    BY <2>2, <2>3 DEF CoverageKnowsAll
<1> QED
  BY <1>1, ArchiveInvAlways, PTL

\* Opening the archive again neither panics nor returns an error.
THEOREM ArchiveCanBeReopened == Spec => []CanBeReopened
<1>1. CompleteInv => TableIsCorrect(file_segments)
  BY OpenAcceptsTable DEF CompleteInv, ArchiveInv, IndexInv, Described
<1>2. CompleteInv => OpenNeverPanics
  <2> DEFINE segs == file_segments
             z    == Zones(segs)
  <2> SUFFICES ASSUME CompleteInv, NEW m \in Marks(segs)
               PROVE  LET before == {x \in Marks(segs) :
                                       x[1] < m[1] \/ (x[1] = m[1] /\ x[2] < m[2])}
                          zone   == MarkedZone(segs, m)
                      IN  MarkAsUsedAsserts(CoverageOfMarks(segs, before, source_len),
                                            zone.start, zone.len)
    BY DEF OpenNeverPanics, OpenAsserts
  <2> DEFINE before == {x \in Marks(segs) : x[1] < m[1] \/ (x[1] = m[1] /\ x[2] < m[2])}
             c      == CoverageOfMarks(segs, before, source_len)
  <2>1. Placed(z, coverage, source_len)
    BY CompletePlaced
  <2>2. /\ DOMAIN z = Marks(segs)
        /\ \A k \in Marks(segs) : z[k] = MarkedZone(segs, k)
    BY DEF Zones
  <2>3. before \in SUBSET DOMAIN z
    BY <2>2
  <2>4. m \notin before
    <3>1. segs \in Tables
      BY DEF CompleteInv, ArchiveInv, IndexInv, Described
    <3>2. m[1] \in Nat /\ m[2] \in Nat
      <4>1. CASE m \in UsedFileSlots(segs)
        <5>1. PICK i \in DOMAIN segs : \E j \in DOMAIN segs[i].files : m = <<i, j>>
          BY <4>1, FileSlotPair DEF UsedFileSlots
        <5>2. i \in Nat /\ segs[i] \in FileTableSegment
          BY <3>1 DEF Tables
        <5>3. segs[i].files \in Seq(File \cup {None})
          BY <5>2 DEF FileTableSegment
        <5>4. DOMAIN segs[i].files \subseteq Nat
          BY <5>3
        <5> QED
          BY <5>1, <5>2, <5>4
      <4>2. CASE m \notin UsedFileSlots(segs)
        <5>1. m = <<0, 0>> \/ \E i \in DOMAIN segs : m = <<i, 0>>
          BY <3>1, <4>2, MarksShape
        <5>2. DOMAIN segs \subseteq Nat
          BY <3>1 DEF Tables
        <5> QED
          BY <5>1, <5>2
      <4> QED
        BY <4>1, <4>2
    <3> QED
      BY <3>2
  <2>5. c.segments = {s \in {z[k] : k \in before} : s.len > 0}
    <3>1. {z[k] : k \in before} = {MarkedZone(segs, k) : k \in before}
      BY <2>2, <2>3
    <3> QED
      BY <3>1 DEF CoverageOfMarks
  <2> HIDE DEF z, before, c
  <2>6. MarkAsUsedAsserts(c, z[m].start, z[m].len)
    BY <2>1, <2>2, <2>3, <2>4, <2>5, PlacedMarks
  <2> QED
    BY <2>2, <2>6 DEF c, before
<1> QED
  BY <1>1, <1>2, ArchiveInvariant, PTL DEF CanBeReopened

\* No two items share an ID, and none has an ID still to be given out.
THEOREM ArchiveIdsUnique == Spec => []IdsUnique
<1>1. ArchiveInv => IdsUnique
  <2> SUFFICES ASSUME ArchiveInv PROVE IdsUnique
    OBVIOUS
  <2>1. /\ \A e : e \in DirsIn(file_segments) <=> \E id \in DOMAIN dirs : e = dirs[id]
        /\ \A e : e \in FilesIn(file_segments) <=> \E id \in DOMAIN files : e = files[id]
    BY OpenBuildsIndex DEF ArchiveInv, IndexInv, Described
  <2>2. /\ \A id \in DOMAIN dirs : dirs[id].id = id
        /\ \A id \in DOMAIN files : files[id].id = id
    BY IndexTypes DEF ArchiveInv
  <2> QED
    BY <2>1, <2>2 DEF ArchiveInv, IdsInv, IdsUnique, IdsApart
<1> QED
  BY <1>1, ArchiveInvAlways, PTL

\* Every item can be reached from the root: parents are older than what they
\* contain, and there is no oldest item out of reach.
THEOREM ArchiveReachable == Spec => []EverythingReachable
<1>1. ArchiveInv => EverythingReachable
  <2> SUFFICES ASSUME ArchiveInv PROVE EverythingReachable
    OBVIOUS
  <2> DEFINE tops    == dirs_content[Root].dirs
             reached == UNION {Subtree(top) : top \in tops}
             lost    == DOMAIN dirs \ reached
  <2>1. /\ IndexInv /\ Tree(dirs, files) /\ tops = Kids(dirs, Root)
    BY ListingFields DEF ArchiveInv, IndexInv, Described
  <2>2. tops \subseteq DOMAIN dirs
    BY <2>1 DEF Kids
  <2>3. \A x \in DirsIn(file_segments) \cup FilesIn(file_segments) :
          x.parent_dir \in {Root} \cup DOMAIN dirs
    <3>1. /\ \A e : e \in DirsIn(file_segments) <=> \E id \in DOMAIN dirs : e = dirs[id]
          /\ \A e : e \in FilesIn(file_segments) <=> \E id \in DOMAIN files : e = files[id]
      BY OpenBuildsIndex DEF ArchiveInv, IndexInv, Described
    <3> QED
      BY <2>1, <3>1 DEF Tree
  <2>4. lost = {}
    <3> SUFFICES ASSUME lost # {} PROVE FALSE
      OBVIOUS
    <3>1. lost \in SUBSET Nat
      BY <2>1, IndexTypes DEF Ids
    <3> HIDE DEF lost
    <3>2. PICK d \in lost : \A e \in lost : d <= e
      BY <3>1, NatMin
    <3>3. d \in DOMAIN dirs /\ d \notin reached /\ d \in Nat
      BY <3>1, <3>2 DEF lost
    <3> DEFINE p == dirs[d].parent_dir
    <3>4. d \in Kids(dirs, p)
      BY <3>3 DEF Kids
    <3>5. p \in {Root} \cup DOMAIN dirs /\ p < d
      BY <2>1, <3>3 DEF Tree
    <3> HIDE DEF p
    <3>6. CASE p = Root
      <4>1. d \in tops /\ d \in Subtree(d)
        BY <2>1, <3>3, <3>4, <3>6, SubtreeClosed
      <4> QED
        BY <3>3, <4>1
    <3>7. CASE p \in DOMAIN dirs
      <4>1. p \in Nat
        BY <2>1, <3>7, IndexTypes DEF Ids
      <4>2. p \notin lost
        BY <3>1, <3>2, <3>3, <3>5, <4>1
      <4>3. PICK top \in tops : p \in Subtree(top)
        BY <3>7, <4>2 DEF lost
      <4>4. top \in DOMAIN dirs
        BY <2>2
      <4>5. Kids(dirs, p) \subseteq Subtree(top)
        BY <2>1, <4>3, <4>4, SubtreeClosed
      <4> QED
        BY <3>3, <3>4, <4>3, <4>5
    <3> QED
      BY <3>5, <3>6, <3>7
  <2> QED
    BY <2>3, <2>4 DEF EverythingReachable
<1> QED
  BY <1>1, ArchiveInvAlways, PTL

(***************************************************************************)
(* A content that is not longer than the one it replaces never lengthens   *)
(* the archive: the zone just released is (part of) a free one.            *)
(***************************************************************************)
THEOREM ArchiveSmallerContentFits == Spec => SmallerContentFits
<1>1. ASSUME CompleteInv, NEW id \in DOMAIN files, NEW c \in Contents,
             ReplaceFileContent(id, c), ContentLen[c] <= files[id].content_len
      PROVE  source_len' = source_len
  <2> DEFINE len  == ContentLen[c]
             zone == Extent(files[id])
             free == CoverageToReplace(id)
             addr == AddrFor(free, len)
  <2>1. source_len' = SourceLenAfter(source_len, addr, len)
    BY <1>1 DEF ReplaceFileContent, RewriteContent, NewAddr
  <2>2. len \in Nat
    BY ContentsAssumption
  <2>3. CASE len = 0
    BY <2>1, <2>3 DEF SourceLenAfter
  <2>4. CASE len > 0
    <3> DEFINE z  == Zones(file_segments)
               at == SlotOfFile(file_segments, id)
    <3>1. /\ Placed(z, coverage, source_len) /\ file_segments \in Tables
          /\ files[id] \in File
      BY <1>1, CompletePlaced, IndexTypes DEF CompleteInv, ArchiveInv, IndexInv, Described
    <3>2. at \in DOMAIN z /\ z[at] = zone
      <4>1. at \in UsedFileSlots(file_segments) /\ FileAt(file_segments, at) = files[id]
        BY <1>1, SlotOfFileFound, UsedSlots DEF CompleteInv, ArchiveInv, IndexInv, Described
      <4> QED
        BY <3>1, <4>1, MarksShape DEF Zones
    <3>3. zone \in Segments /\ zone.len = files[id].content_len /\ zone.len >= len /\ zone.len > 0
      BY <1>1, <2>2, <2>4, <3>1 DEF Extent, Segment, Segments, File
    <3> HIDE DEF z, at, zone, len, addr
    <3>4. /\ Tidy(coverage) /\ zone \in coverage.segments
          /\ source_len \in Nat /\ coverage.len <= source_len
      BY <3>1, <3>2, <3>3 DEF Placed
    <3>5. free = MarkAsFree(coverage, zone)
      BY DEF CoverageToReplace, zone
    <3> HIDE DEF free
    <3>6. /\ Tidy(free) /\ free.len = coverage.len
          /\ \A t \in free.segments : t \in coverage.segments /\ t # zone
      <4>1. coverage = [len |-> coverage.len, segments |-> coverage.segments]
        BY <3>4 DEF Tidy, Coverages
      <4>2. free.segments = coverage.segments \ {zone}
        BY <3>3, <3>5, <4>1 DEF MarkAsFree
      <4> QED
        BY <3>3, <3>4, <3>5, <4>2, FreeKeepsTidy
    <3>7. End(zone) <= free.len /\ \A t \in free.segments : Apart(zone, t)
      BY <3>4, <3>6 DEF Tidy, PairwiseApart
    <3>8. \E y \in FreeZones(free) : y.len >= zone.len
      BY <3>3, <3>6, <3>7, GapIsFound
    <3>9. ~Growing(free, len)
      <4>1. PICK y \in FreeZones(free) : y.len >= zone.len
        BY <3>8
      <4>2. y \in Segments
        BY <3>6, FreeZonesAreFree
      <4>3. y.len >= len
        BY <2>2, <3>3, <4>1, <4>2 DEF Segments, len
      <4> QED
        BY <4>3 DEF Growing, ZonesFor
    <3>10. addr \in Nat /\ addr + len <= free.len
      BY <2>2, <3>6, <3>9, AddrForIsFree DEF addr, len
    <3>11. free.len \in Nat
      BY <3>6 DEF Tidy, Coverages
    <3>12. addr + len <= source_len
      BY <2>2, <3>4, <3>6, <3>10, <3>11 DEF len
    <3> QED
      BY <2>1, <2>2, <3>4, <3>10, <3>12 DEF SourceLenAfter, len, addr
  <2> QED
    BY <2>2, <2>3, <2>4
<1>2. CompleteInv /\ [Next]_vars =>
        [\A id \in DOMAIN files, c \in Contents :
           ReplaceFileContent(id, c) /\ ContentLen[c] <= files[id].content_len
             => source_len' = source_len]_vars
  BY <1>1
<1> QED
  BY <1>2, ArchiveInvariant, PTL DEF Spec, SmallerContentFits

-----------------------------------------------------------------------------
(***************************************************************************)
(* The archive implements a file tree.                                     *)
(***************************************************************************)
LEMMA SameFunction ==
  ASSUME NEW f, NEW g, f = [x \in DOMAIN f |-> f[x]], g = [x \in DOMAIN g |-> g[x]],
         DOMAIN f = DOMAIN g, \A x \in DOMAIN f : f[x] = g[x]
  PROVE  f = g
OBVIOUS

\* The visible tree, item by item.
LEMMA VisibleItems ==
  ASSUME ArchiveInv
  PROVE  /\ VisibleTree = [id \in DOMAIN VisibleTree |-> VisibleTree[id]]
         /\ DOMAIN VisibleTree = DOMAIN dirs \cup DOMAIN files
         /\ DOMAIN dirs \cap DOMAIN files = {}
         /\ \A id \in DOMAIN dirs  : VisibleTree[id] = VisibleDir(dirs[id])
         /\ \A id \in DOMAIN files : VisibleTree[id] = VisibleFile(files[id])
         /\ AsTree!DirIds = DOMAIN dirs
<1>1. DOMAIN dirs \cap DOMAIN files = {}
  BY DEF ArchiveInv, IdsInv, IdsApart
<1>2. /\ VisibleTree = [id \in DOMAIN VisibleTree |-> VisibleTree[id]]
      /\ DOMAIN VisibleTree = DOMAIN dirs \cup DOMAIN files
      /\ \A id \in DOMAIN dirs  : VisibleTree[id] = VisibleDir(dirs[id])
      /\ \A id \in DOMAIN files : VisibleTree[id] = VisibleFile(files[id])
  BY <1>1 DEF VisibleTree
<1>3. /\ \A id \in DOMAIN dirs  : VisibleTree[id].kind = "dir"
      /\ \A id \in DOMAIN files : VisibleTree[id].kind = "file"
  BY <1>2 DEF VisibleDir, VisibleFile
<1>4. AsTree!DirIds = DOMAIN dirs
  BY <1>1, <1>2, <1>3 DEF AsTree!DirIds
<1> QED
  BY <1>1, <1>2, <1>4

\* What is in a directory; nothing is in a file.
LEMMA VisibleChildren ==
  ASSUME ArchiveInv
  PROVE  /\ \A d : AsTree!Children(d) = Kids(dirs, d) \cup Kids(files, d)
         /\ \A f \in DOMAIN files : AsTree!Children(f) = {}
         /\ \A d \in {Root} \cup DOMAIN dirs :
              /\ dirs_content[d].dirs = Kids(dirs, d) /\ dirs_content[d].files = Kids(files, d)
              /\ \A x \in AsTree!Children(d) : VisibleTree[x].name \in dirs_content[d].names
<1>1. /\ \A id \in DOMAIN dirs  : /\ VisibleTree[id].parent_dir = dirs[id].parent_dir
                                  /\ VisibleTree[id].name = dirs[id].name
      /\ \A id \in DOMAIN files : /\ VisibleTree[id].parent_dir = files[id].parent_dir
                                  /\ VisibleTree[id].name = files[id].name
  BY VisibleItems DEF VisibleDir, VisibleFile
<1>2. \A d : AsTree!Children(d) = Kids(dirs, d) \cup Kids(files, d)
  BY <1>1, VisibleItems DEF AsTree!Children, Kids
<1>3. Tree(dirs, files) /\ dirs_content = ListingOf(dirs, files)
  BY DEF ArchiveInv, IndexInv, Described
<1>4. \A f \in DOMAIN files : f \notin {Root} \cup DOMAIN dirs
  BY VisibleItems, IndexTypes DEF ArchiveInv, Ids, Root
<1>5. \A f \in DOMAIN files : AsTree!Children(f) = {}
  BY <1>2, <1>3, <1>4, NoKids
<1>6. ASSUME NEW d \in {Root} \cup DOMAIN dirs
      PROVE  /\ dirs_content[d].dirs = Kids(dirs, d) /\ dirs_content[d].files = Kids(files, d)
             /\ \A x \in AsTree!Children(d) : VisibleTree[x].name \in dirs_content[d].names
  <2>1. /\ dirs_content[d].dirs = Kids(dirs, d) /\ dirs_content[d].files = Kids(files, d)
        /\ dirs_content[d].names = NamesOf(dirs, d) \cup NamesOf(files, d)
    BY <1>3, ListingFields
  <2>2. \A x \in AsTree!Children(d) : VisibleTree[x].name \in NamesOf(dirs, d) \cup NamesOf(files, d)
    BY <1>1, <1>2 DEF NamesOf, Kids
  <2> QED
    BY <2>1, <2>2
<1> QED
  BY <1>2, <1>5, <1>6

\* A name the listing does not have is free.
LEMMA VisibleNameIsFree ==
  ASSUME ArchiveInv, NEW p \in {Root} \cup DOMAIN dirs, NEW name, name \notin dirs_content[p].names
  PROVE  AsTree!NameIsFree(p, name)
BY VisibleItems, VisibleChildren DEF AsTree!NameIsFree, AsTree!Root, Root

\* Below a directory is what its subtree holds; below a file, the file.
LEMMA VisibleBelow ==
  ASSUME ArchiveInv
  PROVE  /\ \A id \in DOMAIN dirs  : AsTree!Below(id) = Subtree(id) \cup FilesUnder(Subtree(id))
         /\ \A id \in DOMAIN files : AsTree!Below(id) = {id}
<1>0. IndexInv /\ DOMAIN VisibleTree = DOMAIN dirs \cup DOMAIN files
  BY VisibleItems DEF ArchiveInv
<1>1. ASSUME NEW id \in DOMAIN dirs
      PROVE  AsTree!Below(id) = Subtree(id) \cup FilesUnder(Subtree(id))
  <2> DEFINE B == Subtree(id) \cup FilesUnder(Subtree(id))
  <2>1. /\ Subtree(id) \subseteq DOMAIN dirs /\ id \in Subtree(id)
        /\ FilesUnder(Subtree(id)) \subseteq DOMAIN files
        /\ \A d \in Subtree(id) : /\ Kids(dirs, d) \subseteq Subtree(id)
                                  /\ Kids(files, d) \subseteq FilesUnder(Subtree(id))
    BY <1>0, SubtreeClosed
  <2>2. B \in SUBSET DOMAIN VisibleTree /\ id \in B
    BY <1>0, <2>1
  <2>3. \A x \in B : AsTree!Children(x) \subseteq B
    BY <2>1, VisibleChildren
  <2> HIDE DEF B
  <2>4. AsTree!Below(id) \subseteq B
    BY <2>2, <2>3 DEF AsTree!Below
  <2>5. ASSUME NEW X \in SUBSET DOMAIN VisibleTree, id \in X,
               \A y \in X : AsTree!Children(y) \subseteq X
        PROVE  B \subseteq X
    <3> DEFINE Y == X \cap DOMAIN dirs
    <3>1. \A y \in Y : dirs_content[y].dirs \subseteq Y /\ dirs_content[y].files \subseteq X
      BY <2>5, VisibleChildren DEF Kids
    <3>2. Y \in SUBSET DOMAIN dirs /\ id \in Y
      BY <2>5
    <3>3. Subtree(id) \subseteq Y
      BY <3>1, <3>2 DEF Subtree
    <3>4. FilesUnder(Subtree(id)) \subseteq X
      BY <3>1, <3>3 DEF FilesUnder
    <3> QED
      BY <3>3, <3>4 DEF B
  <2>6. B \subseteq AsTree!Below(id)
    BY <2>2, <2>5 DEF AsTree!Below
  <2> QED
    BY <2>4, <2>6 DEF B
<1>2. ASSUME NEW id \in DOMAIN files
      PROVE  AsTree!Below(id) = {id}
  <2>1. {id} \in SUBSET DOMAIN VisibleTree /\ \A y \in {id} : AsTree!Children(y) \subseteq {id}
    BY <1>0, VisibleChildren
  <2> QED
    BY <1>0, <2>1 DEF AsTree!Below
<1> QED
  BY <1>1, <1>2

\* A new item, of whatever kind.
LEMMA CreateIsSeen ==
  ASSUME ArchiveInv, TakeId, NEW p \in {Root} \cup DOMAIN dirs, NEW n \in Names,
         n \notin dirs_content[p].names,
         NEW item, item.parent_dir = p, item.name = n,
         VisibleTree' = [x \in DOMAIN VisibleTree' |-> VisibleTree'[x]],
         DOMAIN VisibleTree' = DOMAIN VisibleTree \cup {next_id},
         VisibleTree'[next_id] = item,
         \A x \in DOMAIN VisibleTree : VisibleTree'[x] = VisibleTree[x]
  PROVE  next_id \in Ids /\ AsTree!Create(next_id, item)
<1>1. next_id \in Ids /\ next_id \notin DOMAIN VisibleTree
  BY TakeIdEffect, VisibleItems
<1>2. AsTree!NameIsFree(item.parent_dir, item.name)
  BY VisibleNameIsFree
<1> DEFINE new == [x \in DOMAIN VisibleTree \cup {next_id} |->
                     IF x = next_id THEN item ELSE VisibleTree[x]]
<1>3. VisibleTree' = new
  <2>1. new = [x \in DOMAIN new |-> new[x]] /\ DOMAIN new = DOMAIN VisibleTree'
        /\ \A x \in DOMAIN new : new[x] = VisibleTree'[x]
    BY <1>1
  <2> HIDE DEF new
  <2> QED
    BY <2>1, SameFunction
<1> QED
  BY <1>1, <1>2, <1>3 DEF AsTree!Create

LEMMA CreateDirIsSeen ==
  ASSUME ArchiveInv, NEW p \in DOMAIN dirs_content, NEW n \in Names, CreateDir(p, n)
  PROVE  AsTree!Next
<1>1. /\ TakeId /\ p \in {Root} \cup DOMAIN dirs /\ p \in ParentIds
      /\ n \notin dirs_content[p].names
      /\ dirs' = Extend(dirs, next_id, NewDir(p, n)) /\ files' = files
  BY IndexTypes DEF ArchiveInv, CreateDir, NameIsFree
<1>2. next_id \notin DOMAIN dirs /\ next_id \notin DOMAIN files
  BY <1>1, TakeIdEffect
<1> DEFINE item == VisibleDir(NewDir(p, n))
<1>3. item.parent_dir = p /\ item.name = n /\ item \in AsTree!Dirs
  BY <1>1 DEF VisibleDir, NewDir, AsTree!Dirs, AsTree!Root, Root, ParentIds
<1>4. /\ DOMAIN dirs' = DOMAIN dirs \cup {next_id} /\ dirs'[next_id] = NewDir(p, n)
      /\ \A x \in DOMAIN dirs : dirs'[x] = dirs[x]
  BY <1>1, <1>2 DEF Extend
<1> HIDE DEF item
<1>5. /\ VisibleTree' = [x \in DOMAIN VisibleTree' |-> VisibleTree'[x]]
      /\ DOMAIN VisibleTree' = DOMAIN VisibleTree \cup {next_id}
      /\ VisibleTree'[next_id] = item
      /\ \A x \in DOMAIN VisibleTree : VisibleTree'[x] = VisibleTree[x]
  BY <1>1, <1>2, <1>4 DEF VisibleTree, item
<1>6. next_id \in Ids /\ AsTree!Create(next_id, item)
  BY <1>1, <1>3, <1>5, CreateIsSeen
<1> QED
  BY <1>3, <1>6 DEF AsTree!Next

LEMMA CreateFileIsSeen ==
  ASSUME ArchiveInv, NEW p \in DOMAIN dirs_content, NEW n \in Names, NEW c \in Contents,
         CreateFile(p, n, c)
  PROVE  AsTree!Next
<1>1. /\ TakeId /\ p \in {Root} \cup DOMAIN dirs /\ p \in ParentIds
      /\ n \notin dirs_content[p].names
      /\ files' = Extend(files, next_id, NewFile(p, n, c)) /\ dirs' = dirs
  BY IndexTypes DEF ArchiveInv, CreateFile, NameIsFree
<1>2. next_id \notin DOMAIN dirs /\ next_id \notin DOMAIN files
  BY <1>1, TakeIdEffect
<1> DEFINE item == VisibleFile(NewFile(p, n, c))
<1>3. /\ item.parent_dir = p /\ item.name = n /\ item \in AsTree!Files
      /\ item.content # AsTree!Damaged
  BY <1>1, UndamagedAssumption
  DEF VisibleFile, NewFile, AsTree!Files, AsTree!Root, Root, ParentIds
<1>4. /\ DOMAIN files' = DOMAIN files \cup {next_id} /\ files'[next_id] = NewFile(p, n, c)
      /\ \A x \in DOMAIN files : files'[x] = files[x]
  BY <1>1, <1>2 DEF Extend
<1> HIDE DEF item
<1>5. /\ VisibleTree' = [x \in DOMAIN VisibleTree' |-> VisibleTree'[x]]
      /\ DOMAIN VisibleTree' = DOMAIN VisibleTree \cup {next_id}
      /\ VisibleTree'[next_id] = item
      /\ \A x \in DOMAIN VisibleTree : VisibleTree'[x] = VisibleTree[x]
  BY <1>1, <1>2, <1>4 DEF VisibleTree, item
<1>6. next_id \in Ids /\ AsTree!Create(next_id, item)
  BY <1>1, <1>3, <1>5, CreateIsSeen
<1> QED
  BY <1>3, <1>6 DEF AsTree!Next

\* An item's entry changed, in its name or its content only.
LEMMA RenameIsSeen ==
  ASSUME ArchiveInv, NEW id \in DOMAIN VisibleTree, NEW n \in Names,
         AsTree!NameIsFree(VisibleTree[id].parent_dir, n),
         VisibleTree' = [x \in DOMAIN VisibleTree' |-> VisibleTree'[x]],
         DOMAIN VisibleTree' = DOMAIN VisibleTree,
         VisibleTree'[id] = [VisibleTree[id] EXCEPT !.name = n],
         \A x \in DOMAIN VisibleTree \ {id} : VisibleTree'[x] = VisibleTree[x]
  PROVE  AsTree!Next
<1> DEFINE new == [VisibleTree EXCEPT ![id].name = n]
<1>1. new = [x \in DOMAIN new |-> new[x]] /\ DOMAIN new = DOMAIN VisibleTree'
  OBVIOUS
<1>2. \A x \in DOMAIN new : new[x] = VisibleTree'[x]
  OBVIOUS
<1> HIDE DEF new
<1>3. VisibleTree' = new
  BY <1>1, <1>2, SameFunction
<1>4. AsTree!Rename(id, n)
  BY <1>3 DEF AsTree!Rename, new
<1> QED
  BY <1>4 DEF AsTree!Next

LEMMA RenameDirectoryIsSeen ==
  ASSUME ArchiveInv, NEW id \in DOMAIN dirs, NEW n \in Names, RenameDirectory(id, n)
  PROVE  AsTree!Next
<1>1. /\ dirs[id].parent_dir \in {Root} \cup DOMAIN dirs
      /\ n \notin dirs_content[dirs[id].parent_dir].names
      /\ dirs[id] \in Directory
      /\ dirs' = [dirs EXCEPT ![id].name = n] /\ files' = files
  BY IndexTypes DEF ArchiveInv, IndexInv, Tree, RenameDirectory, NameIsFree, Described
<1>2. /\ DOMAIN dirs' = DOMAIN dirs /\ \A x \in DOMAIN dirs \ {id} : dirs'[x] = dirs[x]
      /\ dirs'[id].parent_dir = dirs[id].parent_dir /\ dirs'[id].name = n
  BY <1>1 DEF Directory
<1>3. VisibleDir(dirs'[id]) = [VisibleDir(dirs[id]) EXCEPT !.name = n]
  BY <1>2 DEF VisibleDir
<1>4. id \in DOMAIN VisibleTree /\ VisibleTree[id] = VisibleDir(dirs[id])
  BY VisibleItems
<1>5. AsTree!NameIsFree(VisibleTree[id].parent_dir, n)
  BY <1>1, <1>4, VisibleNameIsFree DEF VisibleDir
<1>6. /\ VisibleTree' = [x \in DOMAIN VisibleTree' |-> VisibleTree'[x]]
      /\ DOMAIN VisibleTree' = DOMAIN VisibleTree
      /\ VisibleTree'[id] = VisibleDir(dirs'[id])
      /\ \A x \in DOMAIN VisibleTree \ {id} : VisibleTree'[x] = VisibleTree[x]
  BY <1>1, <1>2 DEF VisibleTree
<1> QED
  BY <1>3, <1>4, <1>5, <1>6, RenameIsSeen

LEMMA RenameFileIsSeen ==
  ASSUME ArchiveInv, NEW id \in DOMAIN files, NEW n \in Names, RenameFile(id, n)
  PROVE  AsTree!Next
<1>1. /\ files[id].parent_dir \in {Root} \cup DOMAIN dirs
      /\ n \notin dirs_content[files[id].parent_dir].names
      /\ files[id] \in File
      /\ files' = [files EXCEPT ![id].name = n] /\ dirs' = dirs
  BY IndexTypes DEF ArchiveInv, IndexInv, Tree, RenameFile, NameIsFree, Described
<1>2. /\ DOMAIN files' = DOMAIN files /\ \A x \in DOMAIN files \ {id} : files'[x] = files[x]
      /\ files'[id].parent_dir = files[id].parent_dir /\ files'[id].name = n
      /\ files'[id].sha3_checksum = files[id].sha3_checksum
  BY <1>1 DEF File
<1>3. VisibleFile(files'[id]) = [VisibleFile(files[id]) EXCEPT !.name = n]
  BY <1>2 DEF VisibleFile
<1>4. /\ id \in DOMAIN VisibleTree /\ VisibleTree[id] = VisibleFile(files[id])
      /\ id \notin DOMAIN dirs
  BY VisibleItems
<1>5. AsTree!NameIsFree(VisibleTree[id].parent_dir, n)
  BY <1>1, <1>4, VisibleNameIsFree DEF VisibleFile
<1>6. /\ VisibleTree' = [x \in DOMAIN VisibleTree' |-> VisibleTree'[x]]
      /\ DOMAIN VisibleTree' = DOMAIN VisibleTree
      /\ VisibleTree'[id] = VisibleFile(files'[id])
      /\ \A x \in DOMAIN VisibleTree \ {id} : VisibleTree'[x] = VisibleTree[x]
  BY <1>1, <1>2, <1>4 DEF VisibleTree
<1> QED
  BY <1>3, <1>4, <1>5, <1>6, RenameIsSeen

LEMMA ReplaceFileContentIsSeen ==
  ASSUME ArchiveInv, NEW id \in DOMAIN files, NEW c \in Contents, ReplaceFileContent(id, c)
  PROVE  AsTree!Next
<1>1. /\ files[id] \in File /\ files' = [files EXCEPT ![id] = ReplacedFile(id, c)]
      /\ dirs' = dirs
  BY IndexTypes DEF ArchiveInv, ReplaceFileContent
<1>2. /\ DOMAIN files' = DOMAIN files /\ \A x \in DOMAIN files \ {id} : files'[x] = files[x]
      /\ files'[id].parent_dir = files[id].parent_dir /\ files'[id].name = files[id].name
      /\ files'[id].sha3_checksum = c
  BY <1>1 DEF ReplacedFile, File
<1>3. VisibleFile(files'[id]) = [VisibleFile(files[id]) EXCEPT !.content = c]
  BY <1>2 DEF VisibleFile
<1>4. /\ id \in DOMAIN VisibleTree /\ VisibleTree[id] = VisibleFile(files[id])
      /\ id \notin DOMAIN dirs
  BY VisibleItems
<1>5. /\ VisibleTree' = [x \in DOMAIN VisibleTree' |-> VisibleTree'[x]]
      /\ DOMAIN VisibleTree' = DOMAIN VisibleTree
      /\ VisibleTree'[id] = VisibleFile(files'[id])
      /\ \A x \in DOMAIN VisibleTree \ {id} : VisibleTree'[x] = VisibleTree[x]
  BY <1>1, <1>2, <1>4 DEF VisibleTree
<1> DEFINE new == [VisibleTree EXCEPT ![id].content = c]
<1>6. /\ new = [x \in DOMAIN new |-> new[x]] /\ DOMAIN new = DOMAIN VisibleTree'
      /\ new[id] = [VisibleTree[id] EXCEPT !.content = c]
      /\ \A x \in DOMAIN VisibleTree \ {id} : new[x] = VisibleTree[x]
  BY <1>4, <1>5
<1> HIDE DEF new
<1>7. \A x \in DOMAIN new : new[x] = VisibleTree'[x]
  BY <1>3, <1>4, <1>5, <1>6
<1>8. VisibleTree' = new
  BY <1>5, <1>6, <1>7, SameFunction
<1>9. VisibleTree[id].kind = "file"
  BY <1>4 DEF VisibleFile
<1>10. AsTree!SetContent(id, c)
  BY <1>8, <1>9 DEF AsTree!SetContent, new
<1> QED
  BY <1>4, <1>10 DEF AsTree!Next

\* Items that are gone are gone from the tree.
LEMMA RemoveItemsIsSeen ==
  ASSUME ArchiveInv, NEW gone_dirs \in SUBSET DOMAIN dirs, NEW gone_files \in SUBSET DOMAIN files,
         RemoveItems(gone_dirs, gone_files)
  PROVE  VisibleTree' = AsTree!Without(gone_dirs \cup gone_files)
<1>1. /\ dirs'  = Restrict(dirs, DOMAIN dirs \ gone_dirs)
      /\ files' = Restrict(files, DOMAIN files \ gone_files)
  BY DEF RemoveItems
<1>2. /\ DOMAIN dirs' = DOMAIN dirs \ gone_dirs /\ \A x \in DOMAIN dirs' : dirs'[x] = dirs[x]
      /\ DOMAIN files' = DOMAIN files \ gone_files /\ \A x \in DOMAIN files' : files'[x] = files[x]
  BY <1>1 DEF Restrict
<1> DEFINE new == AsTree!Without(gone_dirs \cup gone_files)
<1>3. /\ new = [x \in DOMAIN new |-> new[x]]
      /\ DOMAIN new = DOMAIN VisibleTree \ (gone_dirs \cup gone_files)
      /\ \A x \in DOMAIN new : new[x] = VisibleTree[x]
  BY DEF AsTree!Without
<1>4. DOMAIN new = DOMAIN dirs' \cup DOMAIN files'
  BY <1>2, <1>3, VisibleItems
<1> HIDE DEF new
<1>5. /\ VisibleTree' = [x \in DOMAIN VisibleTree' |-> VisibleTree'[x]]
      /\ DOMAIN VisibleTree' = DOMAIN dirs' \cup DOMAIN files'
      /\ \A x \in DOMAIN dirs' : VisibleTree'[x] = VisibleDir(dirs'[x])
      /\ \A x \in DOMAIN files' : x \notin DOMAIN dirs' => VisibleTree'[x] = VisibleFile(files'[x])
  BY DEF VisibleTree
<1>6. \A x \in DOMAIN new : VisibleTree'[x] = new[x]
  BY <1>2, <1>3, <1>4, <1>5, VisibleItems
<1>7. VisibleTree' = new
  BY <1>3, <1>4, <1>5, <1>6, SameFunction
<1> QED
  BY <1>7 DEF new

LEMMA RemoveFileIsSeen ==
  ASSUME ArchiveInv, NEW id \in DOMAIN files, RemoveFile(id)
  PROVE  AsTree!Next
<1>1. VisibleTree' = AsTree!Without({} \cup {id})
  BY RemoveItemsIsSeen DEF RemoveFile
<1>2. AsTree!Below(id) = {} \cup {id} /\ id \in DOMAIN VisibleTree
  BY VisibleBelow, VisibleItems
<1>3. AsTree!Delete(id)
  BY <1>1, <1>2 DEF AsTree!Delete
<1> QED
  BY <1>2, <1>3 DEF AsTree!Next

LEMMA RemoveDirIsSeen ==
  ASSUME ArchiveInv, NEW id \in DOMAIN dirs, RemoveDir(id)
  PROVE  AsTree!Next
<1> DEFINE ds == Subtree(id)
           fs == FilesUnder(ds)
<1>1. ds \in SUBSET DOMAIN dirs /\ fs \in SUBSET DOMAIN files
  BY SubtreeClosed DEF ArchiveInv
<1>2. RemoveItems(ds, fs) /\ AsTree!Below(id) = ds \cup fs /\ id \in DOMAIN VisibleTree
  BY VisibleBelow, VisibleItems DEF RemoveDir
<1> HIDE DEF ds, fs
<1>3. VisibleTree' = AsTree!Without(ds \cup fs)
  BY <1>1, <1>2, RemoveItemsIsSeen
<1>4. AsTree!Delete(id)
  BY <1>2, <1>3 DEF AsTree!Delete
<1> QED
  BY <1>2, <1>4 DEF AsTree!Next

\* Cut short, the removal has taken directories with all that is in them.
LEMMA RemoveDirFailsIsSeen ==
  ASSUME ArchiveInv, NEW id \in DOMAIN dirs, RemoveDirFails(id)
  PROVE  AsTree!Next
<1>1. PICK gone_dirs \in SUBSET (Subtree(id) \ {id}) :
        \E gone_files \in SUBSET FilesUnder(Subtree(id)) :
          RemovedSoFar(id, gone_dirs, gone_files) /\ RemoveItems(gone_dirs, gone_files)
  BY DEF RemoveDirFails
<1>2. PICK gone_files \in SUBSET FilesUnder(Subtree(id)) :
          RemovedSoFar(id, gone_dirs, gone_files) /\ RemoveItems(gone_dirs, gone_files)
  BY <1>1
<1>3. Subtree(id) \in SUBSET DOMAIN dirs /\ FilesUnder(Subtree(id)) \in SUBSET DOMAIN files
  BY SubtreeClosed DEF ArchiveInv
<1>4. gone_dirs \in SUBSET DOMAIN dirs /\ gone_files \in SUBSET DOMAIN files
  BY <1>3
<1> DEFINE gone == gone_dirs \cup gone_files
<1>5. VisibleTree' = AsTree!Without(gone)
  BY <1>2, <1>4, RemoveItemsIsSeen
<1>6. gone \in SUBSET (AsTree!Below(id) \ {id})
  <2>1. id \notin FilesUnder(Subtree(id))
    BY <1>3, VisibleItems
  <2> QED
    BY <2>1, VisibleBelow
<1>7. \A x \in gone : AsTree!Below(x) \subseteq gone
  <2>1. ASSUME NEW x \in gone_dirs PROVE AsTree!Below(x) \subseteq gone
    <3>1. Subtree(x) \subseteq gone_dirs /\ FilesUnder(Subtree(x)) \subseteq gone_files
      BY <1>2 DEF RemovedSoFar
    <3> QED
      BY <1>4, <3>1, VisibleBelow
  <2>2. ASSUME NEW x \in gone_files PROVE AsTree!Below(x) \subseteq gone
    BY <1>4, VisibleBelow
  <2> QED
    BY <2>1, <2>2
<1>8. id \in DOMAIN VisibleTree /\ VisibleTree[id].kind = "dir"
  BY VisibleItems DEF VisibleDir
<1> HIDE DEF gone
<1>9. AsTree!RemovePart(id)
  BY <1>5, <1>6, <1>7, <1>8 DEF AsTree!RemovePart
<1> QED
  BY <1>8, <1>9 DEF AsTree!Next

\* All other steps leave the maps alone.
LEMMA StepIsSeen ==
  ASSUME ArchiveInv, [Next]_vars
  PROVE  [AsTree!Next]_VisibleTree
<1>0. dirs' = dirs /\ files' = files => VisibleTree' = VisibleTree
  BY DEF VisibleTree
<1>1. ASSUME NEW p \in DOMAIN dirs_content, NEW n \in Names, CreateDir(p, n)
      PROVE  AsTree!Next
  BY <1>1, CreateDirIsSeen
<1>2. ASSUME NEW p \in DOMAIN dirs_content, NEW n \in Names, NEW c \in Contents,
             CreateFile(p, n, c)
      PROVE  AsTree!Next
  BY <1>2, CreateFileIsSeen
<1>3. ASSUME NEW id \in DOMAIN files, NEW c \in Contents, ReplaceFileContent(id, c)
      PROVE  AsTree!Next
  BY <1>3, ReplaceFileContentIsSeen
<1>4. ASSUME NEW id \in DOMAIN dirs, NEW n \in Names, RenameDirectory(id, n)
      PROVE  AsTree!Next
  BY <1>4, RenameDirectoryIsSeen
<1>5. ASSUME NEW id \in DOMAIN files, NEW n \in Names, RenameFile(id, n)
      PROVE  AsTree!Next
  BY <1>5, RenameFileIsSeen
<1>6. ASSUME NEW id \in DOMAIN dirs, RemoveDir(id)
      PROVE  AsTree!Next
  BY <1>6, RemoveDirIsSeen
<1>7. ASSUME NEW id \in DOMAIN files, RemoveFile(id)
      PROVE  AsTree!Next
  BY <1>7, RemoveFileIsSeen
<1>8. CASE Reopen
  BY <1>0, <1>8, OpenBuildsIndex DEF Reopen, Open, ArchiveInv, IndexInv, Described
<1>9. ASSUME NEW p \in DOMAIN dirs_content, NEW n \in Names, CreateDirFails(p, n)
      PROVE  VisibleTree' = VisibleTree
  BY <1>0, <1>9 DEF CreateDirFails, NewSegmentFails, index
<1>10. ASSUME NEW p \in DOMAIN dirs_content, NEW n \in Names, NEW c \in Contents,
              CreateFileFails(p, n, c)
       PROVE  VisibleTree' = VisibleTree
  BY <1>0, <1>10 DEF CreateFileFails, NewSegmentFails, index
<1>11. ASSUME NEW id \in DOMAIN dirs, RemoveDirFails(id)
       PROVE  AsTree!Next
  BY <1>11, RemoveDirFailsIsSeen
<1>12. CASE UNCHANGED vars
  BY <1>0, <1>12 DEF vars
<1> QED
  BY <1>1, <1>2, <1>3, <1>4, <1>5, <1>6, <1>7, <1>8, <1>9, <1>10, <1>11, <1>12
     DEF Next, Operation, IoError

(***************************************************************************)
(* Any number of items, segments and errors: seen through its index, the   *)
(* archive only ever does what a file tree does.                           *)
(***************************************************************************)
THEOREM ArchiveIsAFileTree == Spec => ImplementsFileTree
<1>1. Init => AsTree!Init
  BY DEF Init, AsTree!Init, VisibleTree
<1>2. ArchiveInv /\ [Next]_vars => [AsTree!Next]_VisibleTree
  BY StepIsSeen
<1> QED
  BY <1>1, <1>2, ArchiveInvAlways, PTL DEF Spec, ImplementsFileTree, AsTree!Spec
=============================================================================
