---------------------------- MODULE ReadingProofs ---------------------------
(***************************************************************************)
(* What reading relies on.  A source, used as the archive uses it, is a    *)
(* file with one position, for every capacity of the buffer and all        *)
(* lengths of reads and writes; the invariant: the buffer holds what the   *)
(* device has between the reader's position and that of the stream below,  *)
(* and is empty when the caller may write.  What a reader promises holds   *)
(* for every device, every set of files and every length of buffers; the   *)
(* invariant: it has digested exactly what it has delivered, and without   *)
(* errors or changes that is the beginning of the file it was opened for.  *)
(* The check of a table decides right for all tables; the invariant: its   *)
(* listings and errors are those of the slots it has come to.  An entry    *)
(* reads back as the item it was written for, for all widths of numbers    *)
(* and lengths of names; the invariant: the item in memory is what opening *)
(* would decode, and a write cut off left no item nobody made.             *)
(***************************************************************************)
EXTENDS Source, Reader, Health, Entry, SequenceTheorems, WellFoundedInduction, TLAPS

SourceTypes ==
  /\ device \in Seq(Bytes) /\ buffer \in Seq(Bytes)
  /\ at \in Nat /\ Len(buffer) <= at

ReadAhead ==
  \A i \in 1 .. Len(buffer) :
    Position + i <= Len(device) /\ buffer[i] = device[Position + i]

EmptyToWrite == since \in {"nothing", "write"} => buffer = <<>>

SourceInv == SourceTypes /\ ReadAhead /\ EmptyToWrite

-----------------------------------------------------------------------------
LEMMA SubSeqIsSeq ==
  ASSUME NEW s \in Seq(Bytes), NEW m \in 1 .. Len(s) + 1, NEW n \in 0 .. Len(s)
  PROVE  /\ SubSeq(s, m, n) \in Seq(Bytes)
         /\ Len(SubSeq(s, m, n)) = IF n < m THEN 0 ELSE n - m + 1
         /\ \A i \in 1 .. n - m + 1 : SubSeq(s, m, n)[i] = s[m + i - 1]
OBVIOUS

\* What the stream below gives: all that was asked for, or all there is.
LEMMA WhatReadAtGives ==
  ASSUME SourceTypes, NEW n \in Nat
  PROVE  /\ ReadAt(at, n) \in Seq(Bytes)
         /\ Len(ReadAt(at, n)) = IF at + n <= Len(device) THEN n
                                 ELSE IF at <= Len(device) THEN Len(device) - at ELSE 0
         /\ \A i \in 1 .. Len(ReadAt(at, n)) : ReadAt(at, n)[i] = device[at + i]
<1> DEFINE to == IF at + n < Len(device) THEN at + n ELSE Len(device)
<1>1. /\ device \in Seq(Bytes) /\ at \in Nat /\ Len(device) \in Nat
      /\ to \in 0 .. Len(device)
  BY DEF SourceTypes
<1>2. CASE at <= Len(device)
  <2>1. at + 1 \in 1 .. Len(device) + 1
    BY <1>1, <1>2
  <2>2. /\ SubSeq(device, at + 1, to) \in Seq(Bytes)
        /\ Len(SubSeq(device, at + 1, to)) = IF to < at + 1 THEN 0 ELSE to - (at + 1) + 1
        /\ \A i \in 1 .. to - (at + 1) + 1 :
             SubSeq(device, at + 1, to)[i] = device[(at + 1) + i - 1]
    BY <1>1, <2>1, SubSeqIsSeq
  <2> DEFINE r == ReadAt(at, n)
  <2>3. r = SubSeq(device, at + 1, to)
    BY DEF ReadAt
  <2> HIDE DEF r
  <2>4. /\ r \in Seq(Bytes) /\ Len(r) = to - at
        /\ \A i \in 1 .. to - at : r[i] = device[at + i]
    <3>1. at <= to /\ (at + 1) - 1 = at
      BY <1>1, <1>2
    <3> HIDE DEF to
    <3> QED
      BY <1>1, <2>2, <2>3, <3>1
  <2> QED
    BY <1>1, <1>2, <2>4 DEF r
<1>3. CASE at > Len(device)
  <2>1. to < at + 1
    BY <1>1, <1>3
  <2>2. SubSeq(device, at + 1, to) = <<>>
    <3> DEFINE m == at + 1
    <3>1. m \in Int /\ to \in Int /\ to < m
      BY <1>1, <2>1
    <3> HIDE DEF m, to
    <3>2. SubSeq(device, m, to) = <<>>
      BY <3>1, SubSeqEmpty
    <3> QED
      BY <3>2 DEF m
  <2> QED
    BY <1>1, <1>3, <2>2 DEF ReadAt
<1> QED
  BY <1>1, <1>2, <1>3

\* The bytes of a read that succeeds are those of the device.
LEMMA BytesOfTheDevice ==
  ASSUME SourceTypes, NEW n \in Nat, Position + n <= Len(device), NEW bytes \in Seq(Bytes),
         Len(bytes) = n, \A i \in 1 .. n : bytes[i] = device[Position + i]
  PROVE  bytes = SubSeq(device, Position + 1, Position + n)
<1>1. Position \in Nat /\ device \in Seq(Bytes)
  BY DEF SourceTypes, Position
<1>2. /\ SubSeq(device, Position + 1, Position + n) \in Seq(Bytes)
      /\ Len(SubSeq(device, Position + 1, Position + n)) = n
      /\ \A i \in 1 .. n : SubSeq(device, Position + 1, Position + n)[i] = device[Position + i]
  <2> DEFINE p == Position
  <2>1. p + 1 \in 1 .. Len(device) + 1 /\ p + n \in 0 .. Len(device)
    BY <1>1
  <2> HIDE DEF p
  <2>2. p \in Nat
    BY <1>1 DEF p
  <2>3. /\ SubSeq(device, p + 1, p + n) \in Seq(Bytes)
        /\ Len(SubSeq(device, p + 1, p + n)) = n
        /\ \A i \in 1 .. n : SubSeq(device, p + 1, p + n)[i] = device[p + i]
    <3> DEFINE from == p + 1
               to   == p + n
    <3>1. /\ from \in 1 .. Len(device) + 1 /\ to \in 0 .. Len(device)
          /\ to - from + 1 = n /\ (to < from => n = 0) /\ from \in Nat
          /\ \A i \in 1 .. n : from + i - 1 = p + i
      BY <2>1, <2>2
    <3> HIDE DEF from, to
    <3>2. /\ SubSeq(device, from, to) \in Seq(Bytes)
          /\ Len(SubSeq(device, from, to)) = IF to < from THEN 0 ELSE to - from + 1
          /\ \A i \in 1 .. to - from + 1 : SubSeq(device, from, to)[i] = device[from + i - 1]
      BY <1>1, <3>1, SubSeqIsSeq
    <3>3. /\ SubSeq(device, from, to) \in Seq(Bytes) /\ Len(SubSeq(device, from, to)) = n
          /\ \A i \in 1 .. n : SubSeq(device, from, to)[i] = device[p + i]
      BY <3>1, <3>2
    <3> QED
      BY <3>3 DEF from, to
  <2> QED
    BY <2>3 DEF p
<1> QED
  BY <1>2, SeqEqual

-----------------------------------------------------------------------------
LEMMA ReadExactIsOne ==
  ASSUME SourceInv, NEW n \in 1 .. MaxRead, ReadExact(n)
  PROVE  SourceInv' /\ File!ReadExact(n)
<1> DEFINE missing == n - Len(buffer)
           fetched == Fetched(missing)
<1>1. /\ n \in Nat /\ n > 0 /\ Len(buffer) \in Nat /\ Len(device) \in Nat
      /\ at \in Nat /\ Len(buffer) <= at /\ Position = at - Len(buffer)
      /\ buffer \in Seq(Bytes) /\ device \in Seq(Bytes)
      /\ missing \in Int /\ Capacity \in Nat
  BY SourceAssumption DEF SourceInv, SourceTypes, Position
<1>2. /\ device' = device /\ EmptyToWrite'
      /\ Len(buffer) > 0 => at <= Len(device)
      /\ \A i \in 1 .. Len(buffer) : buffer[i] = device[Position + i]
  <2>1. Len(buffer) > 0 => at <= Len(device)
    BY <1>1 DEF SourceInv, ReadAhead
  <2> QED
    BY <2>1 DEF ReadExact, EmptyToWrite, SourceInv, ReadAhead
<1>3. CASE missing <= 0
  <2>1. /\ got' = Gave(SubSeq(buffer, 1, n)) /\ buffer' = SubSeq(buffer, n + 1, Len(buffer))
        /\ at' = at
    BY <1>1, <1>3 DEF ReadExact
  <2>2. n <= Len(buffer) /\ Position + n <= Len(device)
    BY <1>1, <1>2, <1>3
  <2>3. /\ SubSeq(buffer, 1, n) \in Seq(Bytes) /\ Len(SubSeq(buffer, 1, n)) = n
        /\ \A i \in 1 .. n : SubSeq(buffer, 1, n)[i] = buffer[i]
    BY <1>1, <2>2
  <2>4. SubSeq(buffer, 1, n) = SubSeq(device, Position + 1, Position + n)
    <3> DEFINE bytes == SubSeq(buffer, 1, n)
    <3>1. /\ bytes \in Seq(Bytes) /\ Len(bytes) = n
          /\ \A i \in 1 .. n : bytes[i] = device[Position + i]
      <4> HIDE DEF bytes
      <4>1. bytes \in Seq(Bytes) /\ Len(bytes) = n /\ \A i \in 1 .. n : bytes[i] = buffer[i]
        BY <2>3 DEF bytes
      <4>2. ASSUME NEW i \in 1 .. n PROVE bytes[i] = device[Position + i]
        <5>1. i \in 1 .. Len(buffer)
          BY <1>1, <2>2
        <5> QED
          BY <1>2, <4>1, <5>1
      <4> QED
        BY <4>1, <4>2
    <3>2. SourceTypes /\ n \in Nat
      BY <1>1 DEF SourceInv
    <3> HIDE DEF bytes
    <3>3. bytes = SubSeq(device, Position + 1, Position + n)
      BY <2>2, <3>1, <3>2, BytesOfTheDevice
    <3> QED
      BY <3>3 DEF bytes
  <2>5. /\ buffer' \in Seq(Bytes) /\ Len(buffer') = Len(buffer) - n
        /\ \A i \in 1 .. Len(buffer) - n : buffer'[i] = buffer[n + i]
    BY <1>1, <2>1, <2>2
  <2>6. Position' = Position + n
    <3>1. at' = at /\ Len(buffer') = Len(buffer) - n
      BY <2>1, <2>5
    <3> QED
      BY <1>1, <3>1 DEF Position
  <2>7. SourceTypes'
    BY <1>1, <1>2, <2>1, <2>5, <2>2 DEF SourceTypes
  <2>8. ReadAhead'
    <3> SUFFICES ASSUME NEW i \in 1 .. Len(buffer')
                 PROVE  Position' + i <= Len(device) /\ buffer'[i] = device[Position' + i]
      BY <1>2 DEF ReadAhead
    <3>1. n + i \in 1 .. Len(buffer) /\ Position' + i = Position + (n + i)
      BY <1>1, <2>2, <2>5, <2>6
    <3> QED
      BY <1>1, <1>2, <2>5, <3>1
  <2> QED
    BY <1>2, <2>1, <2>2, <2>4, <2>6, <2>7, <2>8
    DEF SourceInv, File!ReadExact, Gave, File!Gave
<1>4. CASE missing > 0
  <2>1. PICK size \in Nat : size >= missing /\ fetched = ReadAt(at, size)
    BY <1>1, <1>4 DEF Fetched
  <2>2. /\ fetched \in Seq(Bytes)
        /\ Len(fetched) = IF at + size <= Len(device) THEN size
                          ELSE IF at <= Len(device) THEN Len(device) - at ELSE 0
        /\ \A i \in 1 .. Len(fetched) : fetched[i] = device[at + i]
    BY <2>1, WhatReadAtGives DEF SourceInv
  <2> HIDE DEF fetched
  <2>3. CASE missing <= Len(fetched)
    <3>1. /\ got' = Gave(buffer \o SubSeq(fetched, 1, missing))
          /\ buffer' = SubSeq(fetched, missing + 1, Len(fetched))
          /\ at' = at + Len(fetched)
      BY <1>1, <1>4, <2>3 DEF ReadExact, fetched
    <3>2. Len(fetched) \in Nat /\ at + Len(fetched) <= Len(device) /\ Position + n = at + missing
      BY <1>1, <1>4, <2>1, <2>2, <2>3
    <3>3. /\ SubSeq(fetched, 1, missing) \in Seq(Bytes)
          /\ Len(SubSeq(fetched, 1, missing)) = missing
          /\ \A i \in 1 .. missing : SubSeq(fetched, 1, missing)[i] = fetched[i]
      BY <1>1, <1>4, <2>2, <2>3, <3>2
    <3> DEFINE bytes == buffer \o SubSeq(fetched, 1, missing)
    <3>4. /\ bytes \in Seq(Bytes) /\ Len(bytes) = n
          /\ \A i \in 1 .. n : bytes[i] = device[Position + i]
      <4>1. /\ bytes \in Seq(Bytes) /\ Len(bytes) = n
            /\ \A i \in 1 .. n : bytes[i] = IF i <= Len(buffer) THEN buffer[i]
                                            ELSE SubSeq(fetched, 1, missing)[i - Len(buffer)]
        <5> DEFINE rest == SubSeq(fetched, 1, missing)
        <5>1. /\ buffer \o rest \in Seq(Bytes)
              /\ Len(buffer \o rest) = Len(buffer) + Len(rest)
              /\ \A i \in 1 .. Len(buffer) + Len(rest) :
                   (buffer \o rest)[i] = IF i <= Len(buffer) THEN buffer[i]
                                         ELSE rest[i - Len(buffer)]
          <6> HIDE DEF rest
          <6>1. buffer \in Seq(Bytes) /\ rest \in Seq(Bytes)
            BY <1>1, <3>3 DEF rest
          <6> QED
            BY <6>1
        <5>2. Len(buffer) + Len(rest) = n
          BY <1>1, <3>3
        <5> HIDE DEF rest
        <5> QED
          BY <5>1, <5>2 DEF rest
      <4>2. ASSUME NEW i \in 1 .. n PROVE bytes[i] = device[Position + i]
        <5>1. CASE i <= Len(buffer)
          BY <1>1, <1>2, <4>1, <5>1
        <5>2. CASE i > Len(buffer)
          <6>1. /\ i - Len(buffer) \in 1 .. missing /\ i - Len(buffer) \in 1 .. Len(fetched)
                /\ at + (i - Len(buffer)) = Position + i
            BY <1>1, <2>3, <3>2, <5>2
          <6> QED
            BY <1>1, <2>2, <3>3, <4>1, <5>2, <6>1
        <5> QED
          BY <1>1, <5>1, <5>2
      <4> QED
        BY <4>1, <4>2
    <3>5. bytes = SubSeq(device, Position + 1, Position + n)
      <4> HIDE DEF bytes
      <4>1. Position + n <= Len(device) /\ n \in Nat
        BY <1>1, <1>4, <2>3, <3>2
      <4>2. SourceTypes
        BY DEF SourceInv
      <4> QED
        BY <3>4, <4>1, <4>2, BytesOfTheDevice
    <3>6. /\ buffer' \in Seq(Bytes) /\ Len(buffer') = Len(fetched) - missing
          /\ \A i \in 1 .. Len(fetched) - missing : buffer'[i] = fetched[missing + i]
      <4> DEFINE m == missing + 1
                 l == Len(fetched)
      <4>1. m \in 1 .. l + 1 /\ l \in 0 .. l /\ m \in Int /\ l \in Nat
        BY <1>1, <1>4, <2>3, <3>2
      <4>2. buffer' = SubSeq(fetched, m, l)
        BY <3>1
      <4> HIDE DEF m
      <4>3. /\ buffer' \in Seq(Bytes) /\ Len(buffer') = IF l < m THEN 0 ELSE l - m + 1
            /\ \A i \in 1 .. l - m + 1 : buffer'[i] = fetched[m + i - 1]
        BY <2>2, <4>1, <4>2, SubSeqIsSeq
      <4>4. m - 1 = missing
        BY <1>1 DEF m
      <4>5. missing \in Int
        BY <1>1
      <4> HIDE DEF missing
      <4>6. l - m + 1 = l - missing /\ (IF l < m THEN 0 ELSE l - m + 1) = l - missing
        BY <4>1, <4>4, <4>5
      <4>7. \A i \in 1 .. l - missing : m + i - 1 = missing + i
        BY <4>1, <4>4, <4>5
      <4> HIDE DEF l
      <4>8. /\ buffer' \in Seq(Bytes) /\ Len(buffer') = l - missing
            /\ \A i \in 1 .. l - missing : buffer'[i] = fetched[missing + i]
        BY <4>3, <4>6, <4>7
      <4> QED
        BY <4>8 DEF l
    <3>7. Position' = at + missing /\ at' \in Nat /\ Len(buffer') <= at'
      <4>1. at' = at + Len(fetched) /\ Len(buffer') = Len(fetched) - missing
        BY <3>1, <3>6
      <4> QED
        BY <1>1, <1>4, <2>3, <3>2, <4>1 DEF Position
    <3>8. SourceTypes'
      BY <1>1, <1>2, <3>6, <3>7 DEF SourceTypes
    <3>9. ReadAhead'
      <4> SUFFICES ASSUME NEW i \in 1 .. Len(buffer')
                   PROVE  Position' + i <= Len(device) /\ buffer'[i] = device[Position' + i]
        BY <1>2 DEF ReadAhead
      <4>1. missing + i \in 1 .. Len(fetched) /\ Position' + i = at + (missing + i)
        BY <1>1, <1>4, <2>3, <3>2, <3>6, <3>7
      <4> QED
        BY <1>1, <2>2, <3>2, <3>6, <4>1
    <3>10. Position + n <= Len(device)
      BY <1>1, <1>4, <2>3, <3>2
    <3> QED
      BY <1>2, <3>1, <3>2, <3>5, <3>7, <3>8, <3>9, <3>10
      DEF SourceInv, File!ReadExact, Gave, File!Gave
  <2>4. CASE missing > Len(fetched)
    <3>1. got' = Failed /\ buffer' = <<>> /\ at' = at + Len(fetched)
      BY <1>1, <1>4, <2>2, <2>4 DEF ReadExact, fetched
    <3>2. Len(fetched) \in Nat
      BY <2>2
    <3>3. SourceTypes' /\ ReadAhead' /\ Position' = at + Len(fetched)
      BY <1>1, <1>2, <3>1, <3>2 DEF SourceTypes, ReadAhead, Position
    <3>4. ~(Position + n <= Len(device))
      BY <1>1, <1>2, <1>4, <2>1, <2>2, <2>4
    <3>5. Position' = IF Position > Len(device) THEN Position ELSE Len(device)
      BY <1>1, <1>2, <1>4, <2>1, <2>2, <2>4, <3>3
    <3> QED
      BY <1>2, <3>1, <3>3, <3>4, <3>5
      DEF SourceInv, File!ReadExact, File!AtEnd, Failed, File!Failed
  <2> QED
    BY <1>1, <2>2, <2>3, <2>4
<1> QED
  BY <1>1, <1>3, <1>4

-----------------------------------------------------------------------------
LEMMA SetPositionIsOne ==
  ASSUME SourceInv, NEW p \in 0 .. MaxLen, SetPosition(p)
  PROVE  SourceInv' /\ File!SetPosition(p)
<1>1. p \in Nat
  BY SourceAssumption
<1>2. /\ buffer' = <<>> /\ at' = p + Len(buffer') /\ device' = device
      /\ since' = "nothing" /\ got' = Done
  BY DEF SetPosition, BufferAfterSeek
<1>3. Len(buffer') = 0
  BY <1>2
<1>4. at' = p /\ Position' = p
  BY <1>1, <1>2, <1>3 DEF Position
<1>5. SourceInv'
  BY <1>1, <1>2, <1>3, <1>4 DEF SourceInv, SourceTypes, ReadAhead, EmptyToWrite
<1> QED
  BY <1>2, <1>4, <1>5 DEF File!SetPosition, Done, File!Done, Gave, File!Gave

\* The rest of a buffer is still what the device has from there on.
LEMMA RestOfTheBuffer ==
  ASSUME SourceInv, NEW n \in Nat, n <= Len(buffer),
         buffer' = SubSeq(buffer, n + 1, Len(buffer)), at' = at, device' = device
  PROVE  SourceTypes' /\ ReadAhead' /\ Position' = Position + n
<1>1. /\ at \in Nat /\ Len(buffer) \in Nat /\ Len(buffer) <= at /\ buffer \in Seq(Bytes)
      /\ device \in Seq(Bytes) /\ Len(device) \in Nat /\ Position = at - Len(buffer)
  BY DEF SourceInv, SourceTypes, Position
<1>2. /\ buffer' \in Seq(Bytes) /\ Len(buffer') = Len(buffer) - n
      /\ \A i \in 1 .. Len(buffer) - n : buffer'[i] = buffer[n + i]
  BY <1>1
<1>3. Position' = Position + n
  <2> DEFINE len == Len(buffer')
  <2>1. len = Len(buffer) - n /\ Position' = at' - len
    BY <1>2 DEF Position
  <2> HIDE DEF len
  <2>2. Position' = (at - Len(buffer)) + n
    BY <1>1, <2>1
  <2> QED
    BY <1>1, <2>2
<1>4. SourceTypes'
  BY <1>1, <1>2 DEF SourceTypes
<1>5. ReadAhead'
  <2> SUFFICES ASSUME NEW i \in 1 .. Len(buffer')
               PROVE  Position' + i <= Len(device) /\ buffer'[i] = device[Position' + i]
    BY DEF ReadAhead
  <2>1. n + i \in 1 .. Len(buffer) /\ Position' + i = Position + (n + i)
    BY <1>1, <1>2, <1>3
  <2> QED
    BY <1>1, <1>2, <2>1 DEF SourceInv, ReadAhead
<1> QED
  BY <1>3, <1>4, <1>5

LEMMA AdvanceIsOne ==
  ASSUME SourceInv, NEW n \in 1 .. MaxRead, Advance(n)
  PROVE  SourceInv' /\ File!Advance(n)
<1>1. /\ n \in Nat /\ Len(buffer) \in Nat /\ at \in Nat /\ Len(buffer) <= at
      /\ Position = at - Len(buffer)
  BY SourceAssumption DEF SourceInv, SourceTypes, Position
<1>2. /\ device' = device /\ got' = Done /\ EmptyToWrite'
  BY DEF Advance, EmptyToWrite
<1>3. SourceTypes' /\ ReadAhead' /\ Position' = Position + n
  <2>1. CASE n <= Len(buffer)
    BY <1>1, <1>2, <2>1, RestOfTheBuffer DEF Advance
  <2>2. CASE ~(n <= Len(buffer))
    <3>1. at' = Position + n /\ buffer' = <<>> /\ Len(buffer') = 0
      BY <2>2 DEF Advance
    <3>2. Position + n \in Nat
      BY <1>1
    <3>3. Position' = Position + n
      <4>1. Position' = at' - Len(buffer')
        BY DEF Position
      <4> QED
        BY <3>1, <3>2, <4>1
    <3> QED
      BY <1>2, <3>1, <3>2, <3>3 DEF SourceTypes, ReadAhead, SourceInv
  <2> QED
    BY <2>1, <2>2
<1> QED
  BY <1>2, <1>3 DEF SourceInv, File!Advance, Done, File!Done, Gave, File!Gave

LEMMA SeekLenIsOne ==
  ASSUME SourceInv, SeekLen
  PROVE  SourceInv' /\ File!SeekLen
<1>1. /\ Position \in Nat /\ at' = Position /\ buffer' = <<>> /\ Len(buffer') = 0
      /\ device' = device /\ since' = since /\ got' = Gave(<<Len(device)>>)
  BY DEF SeekLen, SourceInv, SourceTypes, Position
<1>2. Position' = Position
  <2>1. Position' = at' - Len(buffer')
    BY DEF Position
  <2> QED
    BY <1>1, <2>1
<1>3. SourceInv'
  BY <1>1, <1>2 DEF SourceInv, SourceTypes, ReadAhead, EmptyToWrite
<1> QED
  BY <1>1, <1>2, <1>3 DEF File!SeekLen, Gave, File!Gave

LEMMA WrittenIsSeq ==
  ASSUME NEW d \in Seq(Bytes), NEW p \in Nat, NEW data \in Seq(Bytes)
  PROVE  Written(d, p, data) \in Seq(Bytes) /\ File!Written(d, p, data) = Written(d, p, data)
<1>1. CASE data = <<>>
  BY <1>1 DEF Written, File!Written
<1>2. CASE data # <<>>
  <2> DEFINE l == IF Len(d) > p + Len(data) THEN Len(d) ELSE p + Len(data)
             w == [i \in 1 .. l |->
                     IF i - p \in DOMAIN data THEN data[i - p]
                     ELSE IF i \in DOMAIN d THEN d[i] ELSE 0]
  <2>1. l \in Nat
    OBVIOUS
  <2>2. Written(d, p, data) = w /\ File!Written(d, p, data) = w
    BY <1>2 DEF Written, File!Written
  <2> HIDE DEF l
  <2>3. \A i \in 1 .. l : w[i] \in Bytes
    BY SourceAssumption
  <2>4. w \in [1 .. l -> Bytes]
    BY <2>3
  <2> HIDE DEF w
  <2>5. w \in Seq(Bytes)
    BY <2>1, <2>4
  <2> QED
    BY <2>2, <2>5
<1> QED
  BY <1>1, <1>2

\* What is written while the buffer is empty, or before an error.
LEMMA WritingKeepsInv ==
  ASSUME SourceInv, buffer = <<>>, buffer' = buffer, NEW data \in Seq(Bytes),
         device' = Written(device, at, data), at' = at + Len(data)
  PROVE  /\ SourceInv' /\ Position = at /\ Position' = Position + Len(data)
         /\ device' = File!Written(device, Position, data)
<1>1. /\ at \in Nat /\ device \in Seq(Bytes) /\ Len(buffer) = 0 /\ Len(buffer') = 0
      /\ Len(data) \in Nat
  BY DEF SourceInv, SourceTypes
<1>2. Position = at /\ Position' = at'
  <2>1. Position = at - Len(buffer) /\ Position' = at' - Len(buffer')
    BY DEF Position
  <2> QED
    BY <1>1, <2>1
<1>3. device' \in Seq(Bytes) /\ device' = File!Written(device, Position, data)
  BY <1>1, <1>2, WrittenIsSeq
<1> QED
  BY <1>1, <1>2, <1>3 DEF SourceInv, SourceTypes, ReadAhead, EmptyToWrite

LEMMA WriteAllIsOne ==
  ASSUME SourceInv, NEW data \in Datas, WriteAll(data)
  PROVE  SourceInv' /\ File!WriteAll(data)
<1>1. data \in Seq(Bytes) /\ Len(data) \in Nat
  BY SourceAssumption DEF Datas
<1>2. buffer = <<>> /\ buffer' = buffer
  BY DEF WriteAll, SourceInv, EmptyToWrite
<1>3. CASE device' = Written(device, at, data) /\ at' = at + Len(data) /\ got' = Done
  BY <1>1, <1>2, <1>3, WritingKeepsInv
  DEF File!WriteAll, Done, File!Done, Gave, File!Gave
<1>4. ASSUME NEW k \in 0 .. Len(data),
             device' = Written(device, at, SubSeq(data, 1, k)), at' = at + k, got' = Failed
      PROVE  SourceInv' /\ File!WriteAll(data)
  <2> DEFINE part == SubSeq(data, 1, k)
  <2>1. part \in Seq(Bytes) /\ Len(part) = k
    BY <1>1
  <2> HIDE DEF part
  <2>2. device' = Written(device, at, part) /\ at' = at + Len(part)
    BY <1>4, <2>1 DEF part
  <2>3. /\ SourceInv' /\ Position' = Position + k
        /\ device' = File!Written(device, Position, part)
    BY <1>2, <2>1, <2>2, WritingKeepsInv
  <2> QED
    BY <1>4, <2>3 DEF File!WriteAll, Failed, File!Failed, part
<1> QED
  BY <1>3, <1>4 DEF WriteAll

-----------------------------------------------------------------------------
LEMMA StartsAsFile == Init => SourceInv /\ File!Init
<1> SUFFICES ASSUME Init PROVE SourceInv /\ File!Init
  OBVIOUS
<1>1. device \in Seq(Bytes) /\ at = 0 /\ buffer = <<>> /\ Len(buffer) = 0 /\ Position = 0
  <2>1. PICK n \in 0 .. MaxLen : device \in [1 .. n -> Bytes]
    BY DEF Init
  <2>2. device \in Seq(Bytes)
    BY <2>1, SourceAssumption
  <2>3. at = 0 /\ buffer = <<>>
    BY DEF Init
  <2>4. Len(buffer) = 0
    BY <2>3
  <2>5. Position = at - Len(buffer)
    BY DEF Position
  <2>6. Position = 0
    BY <2>3, <2>4, <2>5
  <2> QED
    BY <2>2, <2>3, <2>4, <2>6
<1> QED
  BY <1>1 DEF Init, SourceInv, SourceTypes, ReadAhead, EmptyToWrite, File!Init,
              Done, File!Done, Gave, File!Gave

LEMMA StepsAsFile == SourceInv /\ [Next]_vars => SourceInv' /\ [File!Next]_(File!vars)
<1> SUFFICES ASSUME SourceInv, [Next]_vars PROVE SourceInv' /\ [File!Next]_(File!vars)
  OBVIOUS
<1>1. ASSUME NEW n \in 1 .. MaxRead, ReadExact(n) PROVE SourceInv' /\ File!Next
  BY <1>1, ReadExactIsOne DEF File!Next
<1>2. ASSUME NEW p \in 0 .. MaxLen, SetPosition(p) PROVE SourceInv' /\ File!Next
  BY <1>2, SetPositionIsOne DEF File!Next
<1>3. ASSUME NEW n \in 1 .. MaxRead, Advance(n) PROVE SourceInv' /\ File!Next
  BY <1>3, AdvanceIsOne DEF File!Next
<1>4. CASE SeekLen
  BY <1>4, SeekLenIsOne DEF File!Next
<1>5. ASSUME NEW data \in Datas, WriteAll(data) PROVE SourceInv' /\ File!Next
  BY <1>5, WriteAllIsOne DEF File!Next, Datas, File!Datas
<1>6. CASE UNCHANGED vars
  BY <1>6 DEF vars, SourceInv, SourceTypes, ReadAhead, EmptyToWrite, Position, File!vars
<1> QED
  BY <1>1, <1>2, <1>3, <1>4, <1>5, <1>6 DEF Next

(***************************************************************************)
(* Buffered reads and the writes around the buffer, in the order the       *)
(* archive makes them, are those of a file with one position.              *)
(***************************************************************************)
THEOREM SourceIsAFile == Spec => ImplementsByteFile
BY StartsAsFile, StepsAsFile, PTL DEF Spec, ImplementsByteFile, File!Spec

-----------------------------------------------------------------------------
(* The reader *)

Readers ==
  [open : BOOLEAN, caller : Callers, len : Nat, expected_checksum : Seq(ByteValues),
   pending_checksum : Seq(ByteValues), pos : Nat, answers : SUBSET Answers]

ReaderTypes ==
  /\ written \in DeviceContents /\ stored \in DeviceContents
  /\ position \in 0..DeviceLen
  /\ reader \in Readers /\ reader.pos <= reader.len
  /\ delivered \in Seq(ByteValues)

Digested ==
  "mismatch" \notin reader.answers =>
    /\ delivered = reader.pending_checksum
    /\ reader.pos = reader.len => reader.pending_checksum = reader.expected_checksum

\* Reading has gone as it should, from the file f.
OnTrack(f) ==
  /\ reader.len = f.len
  /\ reader.expected_checksum = Slice(written, f.addr, f.len)
  /\ position = f.addr + reader.pos
  /\ reader.pending_checksum = Slice(written, f.addr, reader.pos)

Undisturbed ==
  stored = written /\ "io_error" \notin reader.answers /\ reader.open =>
    "mismatch" \notin reader.answers /\ \E f \in Files : OnTrack(f)

ClosedIsClean == ~reader.open => reader.answers = {}

ReaderInv == ReaderTypes /\ Digested /\ Undisturbed /\ ClosedIsClean

-----------------------------------------------------------------------------
\* A slice of the device is a sequence of its bytes, and two that follow one
\* another make one.
LEMMA SliceType ==
  ASSUME NEW bytes \in DeviceContents, NEW addr \in Nat, NEW len \in Nat, addr + len <= DeviceLen
  PROVE  Slice(bytes, addr, len) \in Seq(ByteValues) /\ Len(Slice(bytes, addr, len)) = len
<1>1. \A i \in 1..len : bytes[addr + i - 1] \in ByteValues
  BY DeviceAssumption DEF DeviceContents
<1> QED
  BY <1>1 DEF Slice

LEMMA SlicesJoin ==
  ASSUME NEW bytes \in DeviceContents, NEW addr \in Nat, NEW p \in Nat, NEW n \in Nat,
         addr + p + n <= DeviceLen
  PROVE  Slice(bytes, addr, p) \o Slice(bytes, addr + p, n) = Slice(bytes, addr, p + n)
<1> DEFINE s == Slice(bytes, addr, p)
           t == Slice(bytes, addr + p, n)
           u == Slice(bytes, addr, p + n)
<1>1. /\ s \in Seq(ByteValues) /\ Len(s) = p
      /\ t \in Seq(ByteValues) /\ Len(t) = n
      /\ u \in Seq(ByteValues) /\ Len(u) = p + n
  BY SliceType, DeviceAssumption
<1>2. \A i \in 1..p : s[i] = u[i]
  BY DEF Slice
<1>3. \A i \in 1..n : t[i] = u[p + i]
  BY DEF Slice
<1> HIDE DEF s, t, u
<1>4. s \o t \in Seq(ByteValues) /\ Len(s \o t) = p + n
  BY <1>1
<1>5. \A i \in 1..p + n : (s \o t)[i] = u[i]
  <2> TAKE i \in 1..p + n
  <2>1. CASE i <= p
    BY <1>1, <1>2, <2>1
  <2>2. CASE i > p
    <3>1. i - p \in 1..n /\ p + (i - p) = i
      BY <2>2
    <3>2. (s \o t)[i] = t[i - p]
      BY <1>1, <2>2, ConcatProperties
    <3> QED
      BY <3>1, <3>2, <1>3
  <2>3. i <= p \/ i > p
    OBVIOUS
  <2> QED
    BY <2>1, <2>2, <2>3
<1>6. s \o t = u
  BY <1>1, <1>4, <1>5, SeqEqual
<1> QED
  BY <1>6 DEF s, t, u

\* A read asks for no more than is left of the file.
LEMMA ReadLenBound ==
  ASSUME ReaderTypes, NEW buf_len \in Nat
  PROVE  ReadLen(buf_len) \in Nat /\ reader.pos + ReadLen(buf_len) <= reader.len
BY DEF ReaderTypes, Readers, ReadLen

-----------------------------------------------------------------------------
LEMMA ReaderInvInit == ReaderInit => ReaderInv
BY DeviceAssumption
   DEF ReaderInit, ReaderInv, ReaderTypes, Readers, Callers, Answers, NoReader, Digested, Undisturbed,
       ClosedIsClean

LEMMA ReadFileKeepsInv ==
  ASSUME ReaderInv, NEW f \in Files, NEW caller \in Callers, ReadFile(f, caller)
  PROVE  ReaderInv'
<1> DEFINE sum == Slice(written, f.addr, f.len)
<1>1. f.addr \in Nat /\ f.len \in Nat /\ f.addr + f.len <= DeviceLen
  BY FilesAssumption
<1>2. sum \in Seq(ByteValues) /\ Len(sum) = f.len
  BY <1>1, SliceType DEF ReaderInv, ReaderTypes
<1>3. Slice(written, f.addr, 0) = <<>>
  BY DEF Slice
<1>4. f.len = 0 => sum = <<>>
  BY <1>2
<1>5. /\ reader' = [open |-> TRUE, caller |-> caller, len |-> f.len, expected_checksum |-> sum,
                    pending_checksum |-> <<>>, pos |-> 0, answers |-> {}]
      /\ position' = f.addr /\ delivered' = <<>> /\ written' = written /\ stored' = stored
  BY DEF ReadFile, Start, NoReader, ExpectedChecksum
<1> HIDE DEF sum
<1>6. ReaderTypes'
  BY <1>1, <1>2, <1>5, DeviceAssumption DEF ReaderInv, ReaderTypes, Readers
<1>7. Digested' /\ ClosedIsClean'
  BY <1>4, <1>5 DEF Digested, ClosedIsClean
<1>8. OnTrack(f)'
  BY <1>1, <1>3, <1>5 DEF OnTrack, sum
<1>9. Undisturbed'
  BY <1>5, <1>8 DEF Undisturbed
<1> QED
  BY <1>6, <1>7, <1>9 DEF ReaderInv

LEMMA ReadBytesKeepsInv ==
  ASSUME ReaderInv, NEW buf_len \in Nat, reader.open, ReadBytes(buf_len)
  PROVE  ReaderInv'
<1> DEFINE n     == ReadLen(buf_len)
           bytes == Slice(stored, position, n)
           wrong == IsComplete(reader.pos + n) /\ reader.pending_checksum \o bytes # reader.expected_checksum
           last  == IF wrong THEN "mismatch" ELSE "data"
<1>1. n \in Nat /\ reader.pos + n <= reader.len
  BY ReadLenBound DEF ReaderInv
<1>2. position + n <= DeviceLen /\ position' = position + n /\ written' = written /\ stored' = stored
  BY DEF ReadBytes
<1>3. reader' = [reader EXCEPT !.answers = reader.answers \cup {last},
                               !.pending_checksum = reader.pending_checksum \o bytes,
                               !.pos = reader.pos + n]
  BY DEF ReadBytes, Answer, ReaderInv, ReaderTypes, Readers
<1>4. delivered' = IF wrong THEN delivered ELSE delivered \o bytes
  BY DEF ReadBytes
<1>5. bytes \in Seq(ByteValues)
  BY <1>1, <1>2, SliceType DEF ReaderInv, ReaderTypes
<1>6. last \in Answers /\ (last = "mismatch" <=> wrong) /\ last # "io_error"
  BY DEF Answers
<1> HIDE DEF last
<1>7. /\ reader'.open = reader.open /\ reader'.caller = reader.caller /\ reader'.len = reader.len
      /\ reader'.expected_checksum = reader.expected_checksum
      /\ reader'.pending_checksum = reader.pending_checksum \o bytes
      /\ reader'.pos = reader.pos + n /\ reader'.answers = reader.answers \cup {last}
      /\ reader' \in Readers
  <2>1. reader \in Readers
    BY DEF ReaderInv, ReaderTypes
  <2>2. reader.pending_checksum \o bytes \in Seq(ByteValues)
    BY <2>1, <1>5 DEF Readers
  <2> HIDE DEF bytes, n, wrong
  <2>3. reader.pos + n \in Nat /\ reader.answers \cup {last} \subseteq Answers
    BY <1>1, <1>6, <2>1 DEF Readers
  <2>4. reader' = [open |-> reader.open, caller |-> reader.caller, len |-> reader.len,
                   expected_checksum |-> reader.expected_checksum,
                   pending_checksum |-> reader.pending_checksum \o bytes,
                   pos |-> reader.pos + n, answers |-> reader.answers \cup {last}]
    BY <1>3, <2>1 DEF Readers
  <2> QED
    BY <2>1, <2>2, <2>3, <2>4 DEF Readers
<1>8. ReaderTypes'
  <2> HIDE DEF bytes, n, wrong
  <2> QED
    BY <1>1, <1>2, <1>4, <1>5, <1>7 DEF ReaderInv, ReaderTypes
<1>9. Digested'
  <2> SUFFICES ASSUME "mismatch" \notin reader'.answers
               PROVE  /\ delivered' = reader'.pending_checksum
                      /\ reader'.pos = reader'.len => reader'.pending_checksum = reader'.expected_checksum
    BY DEF Digested
  <2>1. ~wrong /\ "mismatch" \notin reader.answers
    BY <1>6, <1>7
  <2>2. delivered = reader.pending_checksum
    BY <2>1 DEF ReaderInv, Digested
  <2> HIDE DEF bytes, n
  <2> QED
    BY <1>4, <1>7, <2>1, <2>2 DEF IsComplete
<1>10. Undisturbed'
  <2> SUFFICES ASSUME stored = written, "io_error" \notin reader.answers
               PROVE  "mismatch" \notin reader'.answers /\ \E f \in Files : OnTrack(f)'
    BY <1>2, <1>6, <1>7 DEF Undisturbed
  <2>1. PICK f \in Files : OnTrack(f)
    BY DEF ReaderInv, Undisturbed
  <2>2. f.addr \in Nat /\ f.len \in Nat /\ f.addr + f.len <= DeviceLen
    BY FilesAssumption
  <2>3. reader.pos \in Nat /\ written \in DeviceContents
    BY DEF ReaderInv, ReaderTypes, Readers
  <2>4. reader.pending_checksum \o bytes = Slice(written, f.addr, reader.pos + n)
    <3>1. bytes = Slice(written, f.addr + reader.pos, n)
      BY <2>1 DEF OnTrack
    <3>2. f.addr + reader.pos + n <= DeviceLen
      BY <1>1, <2>1, <2>2, <2>3, DeviceAssumption DEF OnTrack
    <3> HIDE DEF bytes, n
    <3>3. Slice(written, f.addr, reader.pos) \o Slice(written, f.addr + reader.pos, n)
            = Slice(written, f.addr, reader.pos + n)
      BY <1>1, <2>2, <2>3, <3>2, SlicesJoin
    <3> QED
      BY <2>1, <3>1, <3>3 DEF OnTrack
  <2>5. ~wrong
    BY <2>1, <2>4 DEF IsComplete, OnTrack
  <2> HIDE DEF bytes, n, wrong
  <2>6. OnTrack(f)'
    BY <1>1, <1>2, <1>7, <2>1, <2>2, <2>3, <2>4 DEF OnTrack
  <2>7. "mismatch" \notin reader'.answers
    BY <1>6, <1>7, <2>5 DEF ReaderInv, Undisturbed
  <2> QED
    BY <2>6, <2>7
<1>11. ClosedIsClean'
  BY <1>7 DEF ClosedIsClean
<1> QED
  BY <1>8, <1>9, <1>10, <1>11 DEF ReaderInv

\* A read that gives nothing, or fails, digests nothing.
LEMMA EmptyReadKeepsInv ==
  ASSUME ReaderInv, NEW buf_len \in Nat, reader.open,
         ReadNothing(buf_len) \/ ReadFails(buf_len)
  PROVE  ReaderInv'
<1>1. ASSUME NEW answer \in Answers \ {"mismatch"}, reader' = Answer(answer)
      PROVE  /\ reader' = [reader EXCEPT !.answers = reader.answers \cup {answer}]
             /\ reader' \in Readers /\ reader'.pos = reader.pos /\ reader'.len = reader.len
             /\ reader'.open = reader.open
             /\ reader'.expected_checksum = reader.expected_checksum
             /\ reader'.pending_checksum = reader.pending_checksum
             /\ reader'.answers = reader.answers \cup {answer}
  BY <1>1 DEF Answer, ReaderInv, ReaderTypes, Readers
<1>2. CASE ReadNothing(buf_len)
  <2>1. PICK answer \in {"data", "end"} : reader' = Answer(answer)
    BY <1>2 DEF ReadNothing, AnswerAtEnd
  <2>2. answer \in Answers \ {"mismatch"} /\ answer # "io_error"
    BY DEF Answers
  <2>3. UNCHANGED <<written, stored, position, delivered>>
    BY <1>2 DEF ReadNothing
  <2>4. ReaderTypes' /\ Digested' /\ ClosedIsClean'
    BY <1>1, <2>1, <2>2, <2>3 DEF ReaderInv, ReaderTypes, Digested, ClosedIsClean
  <2>5. \A f \in Files : OnTrack(f) => OnTrack(f)'
    BY <1>1, <2>1, <2>2, <2>3 DEF OnTrack
  <2>6. Undisturbed'
    BY <1>1, <2>1, <2>2, <2>3, <2>5 DEF ReaderInv, Undisturbed
  <2> QED
    BY <2>4, <2>6 DEF ReaderInv
<1>3. CASE ReadFails(buf_len)
  <2>1. "io_error" \in Answers \ {"mismatch"}
    BY DEF Answers
  <2>2. reader' = Answer("io_error") /\ UNCHANGED <<written, stored, delivered>>
    BY <1>3 DEF ReadFails
  <2>3. position' \in 0..DeviceLen
    BY <1>3, ReadLenBound, DeviceAssumption DEF ReadFails, ReaderInv, ReaderTypes
  <2>4. ReaderTypes' /\ Digested' /\ ClosedIsClean'
    BY <1>1, <2>1, <2>2, <2>3 DEF ReaderInv, ReaderTypes, Digested, ClosedIsClean
  <2>5. Undisturbed'
    BY <1>1, <2>1, <2>2 DEF Undisturbed
  <2> QED
    BY <2>4, <2>5 DEF ReaderInv
<1> QED
  BY <1>2, <1>3

LEMMA DropKeepsInv == ReaderInv /\ Drop => ReaderInv'
<1> SUFFICES ASSUME ReaderInv, Drop PROVE ReaderInv'
  OBVIOUS
<1>1. /\ reader' = NoReader /\ delivered' = <<>>
      /\ UNCHANGED <<written, stored, position>>
  BY DEF Drop
<1> QED
  BY <1>1 DEF ReaderInv, ReaderTypes, Readers, Callers, Answers, NoReader, Digested, Undisturbed,
              ClosedIsClean

LEMMA RotKeepsInv == ReaderInv /\ Rot => ReaderInv'
<1> SUFFICES ASSUME ReaderInv, Rot PROVE ReaderInv'
  OBVIOUS
<1>1. stored' \in DeviceContents /\ stored = written /\ UNCHANGED <<written, position, reader, delivered>>
  BY DEF Rot, ReaderInv, ReaderTypes, DeviceContents
<1>2. \A f \in Files : OnTrack(f) => OnTrack(f)'
  BY <1>1 DEF OnTrack
<1> QED
  BY <1>1, <1>2 DEF ReaderInv, ReaderTypes, Digested, Undisturbed, ClosedIsClean

LEMMA ReaderInvNext == ReaderInv /\ [ReaderNext]_reader_vars => ReaderInv'
<1> SUFFICES ASSUME ReaderInv, [ReaderNext]_reader_vars PROVE ReaderInv'
  OBVIOUS
<1>1. ASSUME NEW f \in Files, NEW caller \in Callers, ReadFile(f, caller) PROVE ReaderInv'
  BY <1>1, ReadFileKeepsInv
<1>2. ASSUME NEW buf_len \in Nat, Read(buf_len) PROVE ReaderInv'
  <2>1. reader.open
    BY <1>2 DEF Read, ReadNothing, ReadBytes, ReadFails, MayRead
  <2> QED
    BY <1>2, <2>1, ReadBytesKeepsInv, EmptyReadKeepsInv DEF Read
<1>3. CASE ReadOn \/ ReadAPiece
  <2>1. PICK buf_len \in 0..MaxBuf : Read(buf_len)
    BY <1>3, DeviceAssumption DEF ReadOn, ReadAPiece
  <2> QED
    BY <1>2, <2>1
<1>4. CASE UNCHANGED reader_vars
  <2>1. \A f \in Files : OnTrack(f) => OnTrack(f)'
    BY <1>4 DEF OnTrack, reader_vars
  <2> QED
    BY <1>4, <2>1 DEF reader_vars, ReaderInv, ReaderTypes, Digested, Undisturbed, ClosedIsClean
<1> QED
  BY <1>1, <1>3, <1>4, DropKeepsInv, RotKeepsInv DEF ReaderNext

LEMMA ReaderInvAlways == ReaderSpec => []ReaderInv
BY ReaderInvInit, ReaderInvNext, PTL DEF ReaderSpec

-----------------------------------------------------------------------------
(***************************************************************************)
(* A reader never leaves its file, nor the device.                         *)
(***************************************************************************)
THEOREM ReaderTypeCorrect == ReaderSpec => []ReaderTypeOK
<1>1. ReaderInv => ReaderTypeOK
  BY DEF ReaderInv, ReaderTypes, Readers, ReaderTypeOK
<1> QED
  BY <1>1, ReaderInvAlways, PTL

(***************************************************************************)
(* Whoever has read a whole file and got no checksum error has exactly     *)
(* what was written (checksums being as good as the contents).             *)
(***************************************************************************)
THEOREM WholeFilesAreIntact == ReaderSpec => []WholeMeansIntact
<1>1. ReaderInv => WholeMeansIntact
  BY DEF ReaderInv, Digested, WholeMeansIntact
<1> QED
  BY <1>1, ReaderInvAlways, PTL

(***************************************************************************)
(* There is no checksum error without a byte that changed or an I/O error  *)
(* that was read on from.                                                  *)
(***************************************************************************)
THEOREM NoFalseAlarm == ReaderSpec => []MismatchMeansChanged
<1>1. ReaderInv => MismatchMeansChanged
  BY DEF ReaderInv, Undisturbed, ClosedIsClean, MismatchMeansChanged
<1> QED
  BY <1>1, ReaderInvAlways, PTL

-----------------------------------------------------------------------------
(***************************************************************************)
(* The check of a table, from here on.  What its passes make of the slots  *)
(* they have come to: R registered, D and F listed.                        *)
(***************************************************************************)
ListedIn(segs, D, F, p) ==
  [dirs  |-> {A!DirAt(segs, x).id  : x \in {y \in D : A!DirAt(segs, y).parent_dir = p}},
   files |-> {A!FileAt(segs, x).id : x \in {y \in F : A!FileAt(segs, y).parent_dir = p}},
   names |-> {A!DirAt(segs, x).name  : x \in {y \in D : A!DirAt(segs, y).parent_dir = p}}
       \cup  {A!FileAt(segs, x).name : x \in {y \in F : A!FileAt(segs, y).parent_dir = p}}]

HaveListing(segs, R, D, F) ==
  {Root} \cup {A!DirAt(segs, x).id : x \in R} \cup {A!DirAt(segs, x).parent_dir : x \in D}
         \cup {A!FileAt(segs, x).parent_dir : x \in F}

Listings(segs, R, D, F) == [p \in HaveListing(segs, R, D, F) |-> ListedIn(segs, D, F, p)]

Clean(segs, R, D, F) ==
  /\ \A x, y \in R : x # y => A!DirAt(segs, x).id # A!DirAt(segs, y).id
  /\ \A x, y \in D : x # y => ~SamePlace(A!DirAt(segs, x), A!DirAt(segs, y))
  /\ \A x, y \in F :
       x # y => /\ ~SamePlace(A!FileAt(segs, x), A!FileAt(segs, y))
                /\ ~(A!FileAt(segs, x).parent_dir = A!FileAt(segs, y).parent_dir
                       /\ A!FileAt(segs, x).id = A!FileAt(segs, y).id)
  /\ \A x \in D, y \in F : ~SamePlace(A!DirAt(segs, x), A!FileAt(segs, y))

Registered == IF pass = "register" THEN AllDirs \ left ELSE AllDirs
DirsSeen   == IF pass = "register" THEN {} ELSE IF pass = "dirs" THEN AllDirs \ left ELSE AllDirs
FilesSeen  == IF pass \in {"register", "dirs"} THEN {} ELSE AllFiles \ left

InOrder ==
  /\ pass \in {"register", "dirs"} => \A x \in AllDirs \ left, y \in left : Before(x, y)
  /\ pass \in {"files", "done"}    => \A x \in AllFiles \ left, y \in left : Before(x, y)

HealthInv ==
  /\ segments \in Tables
  /\ pass \in {"register", "dirs", "files", "done"}
  /\ pass \in {"register", "dirs"} => left \subseteq AllDirs
  /\ pass = "files" => left \subseteq AllFiles
  /\ pass = "done" => left = {}
  /\ InOrder
  /\ dirs_content = Listings(segments, Registered, DirsSeen, FilesSeen)
  /\ errors = {} <=> Clean(segments, Registered, DirsSeen, FilesSeen)
  /\ BlamesOnlyClashes

-----------------------------------------------------------------------------
LEMMA AllCleanIsCorrect ==
  ASSUME NEW segs
  PROVE  Clean(segs, DirsOfTable(segs), DirsOfTable(segs), FilesOfTable(segs))
           <=> A!TableIsCorrect(segs)
BY DEF Clean, A!TableIsCorrect, SamePlace, DirsOfTable, FilesOfTable

LEMMA AllListedIsContent ==
  ASSUME NEW segs
  PROVE  Listings(segs, DirsOfTable(segs), DirsOfTable(segs), FilesOfTable(segs))
           = A!DirsContentOf(segs)
<1> DEFINE ds == DirsOfTable(segs) fs == FilesOfTable(segs)
           D(x) == A!DirAt(segs, x) F(x) == A!FileAt(segs, x)
           DI == A!DirsIn(segs) FI == A!FilesIn(segs)
<1>1. DI = {D(x) : x \in ds} /\ FI = {F(x) : x \in fs}
  BY DEF A!DirsIn, A!FilesIn, DirsOfTable, FilesOfTable
<1> DEFINE listed == {Root} \cup {d.id : d \in DI} \cup {x.parent_dir : x \in DI \cup FI}
<1>2. HaveListing(segs, ds, ds, fs) = listed
  <2> HIDE DEF ds, fs, D, F, DI, FI
  <2> SUFFICES {Root} \cup {D(x).id : x \in ds} \cup {D(x).parent_dir : x \in ds}
                 \cup {F(x).parent_dir : x \in fs} = listed
    BY DEF HaveListing, D, F
  <2> QED BY <1>1
<1>3. ASSUME NEW p
      PROVE  ListedIn(segs, ds, fs, p)
             = [dirs  |-> {d.id : d \in {x \in DI : x.parent_dir = p}},
                files |-> {f.id : f \in {x \in FI : x.parent_dir = p}},
                names |-> {x.name : x \in {y \in DI \cup FI : y.parent_dir = p}}]
  <2> HIDE DEF ds, fs, D, F, DI, FI
  <2>1. {D(x).id : x \in {y \in ds : D(y).parent_dir = p}}
          = {d.id : d \in {x \in DI : x.parent_dir = p}}
    BY <1>1
  <2>2. {F(x).id : x \in {y \in fs : F(y).parent_dir = p}}
          = {f.id : f \in {x \in FI : x.parent_dir = p}}
    BY <1>1
  <2>3. {D(x).name : x \in {y \in ds : D(y).parent_dir = p}}
        \cup {F(x).name : x \in {y \in fs : F(y).parent_dir = p}}
          = {x.name : x \in {y \in DI \cup FI : y.parent_dir = p}}
    BY <1>1
  <2> QED BY <2>1, <2>2, <2>3 DEF ListedIn, D, F
<1> HIDE DEF ds, fs, DI, FI
<1>4. A!DirsContentOf(segs) =
        [p \in listed |->
          [dirs  |-> {d.id : d \in {x \in DI : x.parent_dir = p}},
           files |-> {f.id : f \in {x \in FI : x.parent_dir = p}},
           names |-> {x.name : x \in {y \in DI \cup FI : y.parent_dir = p}}]]
  BY DEF A!DirsContentOf, DI, FI, A!Root, Root
<1>5. Listings(segs, ds, ds, fs) = [p \in listed |-> ListedIn(segs, ds, fs, p)]
  BY <1>2 DEF Listings
<1> QED BY <1>3, <1>4, <1>5 DEF ds, fs

-----------------------------------------------------------------------------
(* What one more slot does to the listings, and to what is clean. *)

LEMMA ListedNowhere ==
  ASSUME NEW segs, NEW p
  PROVE  ListedIn(segs, {}, {}, p) = Nothing
BY DEF ListedIn, Nothing

\* Where no listing is, there is nothing to list.
LEMMA NoListing ==
  ASSUME NEW segs, NEW R, NEW D, NEW F, NEW p, p \notin HaveListing(segs, R, D, F)
  PROVE  ListedIn(segs, D, F, p) = Nothing
<1>1. {x \in D : A!DirAt(segs, x).parent_dir = p} = {}
  BY DEF HaveListing
<1>2. {x \in F : A!FileAt(segs, x).parent_dir = p} = {}
  BY DEF HaveListing
<1> QED BY <1>1, <1>2 DEF ListedIn, Nothing

LEMMA ListingIsListed ==
  ASSUME NEW R, NEW D, NEW F, dirs_content = Listings(segments, R, D, F), NEW p
  PROVE  ListingOf(p) = ListedIn(segments, D, F, p)
<1>1. DOMAIN dirs_content = HaveListing(segments, R, D, F)
  BY DEF Listings
<1>2. CASE p \in HaveListing(segments, R, D, F)
  BY <1>1, <1>2 DEF Listings, ListingOf
<1>3. CASE p \notin HaveListing(segments, R, D, F)
  BY <1>1, <1>3, NoListing DEF ListingOf
<1> QED BY <1>2, <1>3

LEMMA PutIsListings ==
  ASSUME NEW R, NEW D, NEW F, dirs_content = Listings(segments, R, D, F),
         NEW R2, NEW D2, NEW F2, NEW p, NEW listing, Put(p, listing),
         HaveListing(segments, R2, D2, F2) = HaveListing(segments, R, D, F) \cup {p},
         listing = ListedIn(segments, D2, F2, p),
         \A q : q # p => ListedIn(segments, D2, F2, q) = ListedIn(segments, D, F, q)
  PROVE  dirs_content' = Listings(segments, R2, D2, F2)
<1>1. DOMAIN dirs_content = HaveListing(segments, R, D, F)
  BY DEF Listings
<1>2. dirs_content' = [q \in HaveListing(segments, R2, D2, F2) |->
                         IF q = p THEN listing ELSE dirs_content[q]]
  BY <1>1 DEF Put
<1>3. ASSUME NEW q \in HaveListing(segments, R2, D2, F2)
      PROVE  (IF q = p THEN listing ELSE dirs_content[q]) = ListedIn(segments, D2, F2, q)
  BY <1>1 DEF Listings
<1> QED BY <1>2, <1>3 DEF Listings

LEMMA OneMoreDir ==
  ASSUME NEW segs, NEW R, NEW D, NEW F, NEW x
  PROVE  LET dir == A!DirAt(segs, x)  more == D \cup {x}
             was == ListedIn(segs, D, F, dir.parent_dir)
         IN /\ HaveListing(segs, R, more, F) = HaveListing(segs, R, D, F) \cup {dir.parent_dir}
            /\ ListedIn(segs, more, F, dir.parent_dir)
                 = WithDir(was, dir)
            /\ \A q : q # dir.parent_dir => ListedIn(segs, more, F, q) = ListedIn(segs, D, F, q)
<1> DEFINE dir == A!DirAt(segs, x)
           more == D \cup {x}
           p == dir.parent_dir
           there(S, q) == {y \in S : A!DirAt(segs, y).parent_dir = q}
<1>1. HaveListing(segs, R, more, F) = HaveListing(segs, R, D, F) \cup {p}
  BY DEF HaveListing
<1>2. there(more, p) = there(D, p) \cup {x}
  OBVIOUS
<1>3. ASSUME NEW q, q # p PROVE there(more, q) = there(D, q)
  BY <1>3
<1> HIDE DEF there
<1>4. {A!DirAt(segs, y).id : y \in there(more, p)}
        = {A!DirAt(segs, y).id : y \in there(D, p)} \cup {dir.id}
  BY <1>2
<1>5. {A!DirAt(segs, y).name : y \in there(more, p)}
        = {A!DirAt(segs, y).name : y \in there(D, p)} \cup {dir.name}
  BY <1>2
<1>6. ASSUME NEW q, q # p PROVE ListedIn(segs, more, F, q) = ListedIn(segs, D, F, q)
  <2>1. there(more, q) = there(D, q)
    BY <1>3, <1>6
  <2> HIDE DEF more
  <2> QED BY <2>1 DEF ListedIn, there
<1>7. ListedIn(segs, more, F, p)
        = WithDir(ListedIn(segs, D, F, p), dir)
  <2> DEFINE ids    == {A!DirAt(segs, y).id : y \in there(D, p)}
             names  == {A!DirAt(segs, y).name : y \in there(D, p)}
             others == {A!FileAt(segs, y).id : y \in {z \in F : A!FileAt(segs, z).parent_dir = p}}
             its    == {A!FileAt(segs, y).name : y \in {z \in F : A!FileAt(segs, z).parent_dir = p}}
             idsOfMore   == {A!DirAt(segs, y).id : y \in there(more, p)}
             namesOfMore == {A!DirAt(segs, y).name : y \in there(more, p)}
  <2>1. ListedIn(segs, D, F, p) = [dirs |-> ids, files |-> others, names |-> names \cup its]
    BY DEF ListedIn, there
  <2>2. ListedIn(segs, more, F, p) = [dirs |-> idsOfMore, files |-> others, names |-> namesOfMore \cup its]
    <3> HIDE DEF more, p
    <3> QED BY DEF ListedIn, there
  <2>3. idsOfMore = ids \cup {dir.id} /\ namesOfMore = names \cup {dir.name}
    BY <1>4, <1>5
  <2> HIDE DEF ids, names, others, its, idsOfMore, namesOfMore, more, p, dir
  <2>4. (names \cup {dir.name}) \cup its = (names \cup its) \cup {dir.name}
    OBVIOUS
  <2>5. WithDir(ListedIn(segs, D, F, p), dir)
          = [dirs |-> ids \cup {dir.id}, files |-> others, names |-> (names \cup its) \cup {dir.name}]
    BY <2>1 DEF WithDir
  <2> QED BY <2>2, <2>3, <2>4, <2>5
<1> QED BY <1>1, <1>6, <1>7

LEMMA OneMoreFile ==
  ASSUME NEW segs, NEW R, NEW D, NEW F, NEW x
  PROVE  LET file == A!FileAt(segs, x)  more == F \cup {x}
             was == ListedIn(segs, D, F, file.parent_dir)
         IN /\ HaveListing(segs, R, D, more) = HaveListing(segs, R, D, F) \cup {file.parent_dir}
            /\ ListedIn(segs, D, more, file.parent_dir)
                 = WithFile(was, file)
            /\ \A q : q # file.parent_dir => ListedIn(segs, D, more, q) = ListedIn(segs, D, F, q)
<1> DEFINE file == A!FileAt(segs, x)
           more == F \cup {x}
           p == file.parent_dir
           there(S, q) == {y \in S : A!FileAt(segs, y).parent_dir = q}
<1>1. HaveListing(segs, R, D, more) = HaveListing(segs, R, D, F) \cup {p}
  BY DEF HaveListing
<1>2. there(more, p) = there(F, p) \cup {x}
  OBVIOUS
<1>3. ASSUME NEW q, q # p PROVE there(more, q) = there(F, q)
  BY <1>3
<1> HIDE DEF there
<1>4. {A!FileAt(segs, y).id : y \in there(more, p)}
        = {A!FileAt(segs, y).id : y \in there(F, p)} \cup {file.id}
  BY <1>2
<1>5. {A!FileAt(segs, y).name : y \in there(more, p)}
        = {A!FileAt(segs, y).name : y \in there(F, p)} \cup {file.name}
  BY <1>2
<1>6. ASSUME NEW q, q # p PROVE ListedIn(segs, D, more, q) = ListedIn(segs, D, F, q)
  <2>1. there(more, q) = there(F, q)
    BY <1>3, <1>6
  <2> HIDE DEF more
  <2> QED BY <2>1 DEF ListedIn, there
<1>7. ListedIn(segs, D, more, p)
        = WithFile(ListedIn(segs, D, F, p), file)
  <2> DEFINE ids    == {A!FileAt(segs, y).id : y \in there(F, p)}
             names  == {A!FileAt(segs, y).name : y \in there(F, p)}
             others == {A!DirAt(segs, y).id : y \in {z \in D : A!DirAt(segs, z).parent_dir = p}}
             its    == {A!DirAt(segs, y).name : y \in {z \in D : A!DirAt(segs, z).parent_dir = p}}
             idsOfMore   == {A!FileAt(segs, y).id : y \in there(more, p)}
             namesOfMore == {A!FileAt(segs, y).name : y \in there(more, p)}
  <2>1. ListedIn(segs, D, F, p) = [dirs |-> others, files |-> ids, names |-> its \cup names]
    BY DEF ListedIn, there
  <2>2. ListedIn(segs, D, more, p) = [dirs |-> others, files |-> idsOfMore, names |-> its \cup namesOfMore]
    <3> HIDE DEF more, p
    <3> QED BY DEF ListedIn, there
  <2>3. idsOfMore = ids \cup {file.id} /\ namesOfMore = names \cup {file.name}
    BY <1>4, <1>5
  <2> HIDE DEF ids, names, others, its, idsOfMore, namesOfMore, more, p, file
  <2>4. its \cup (names \cup {file.name}) = (its \cup names) \cup {file.name}
    OBVIOUS
  <2>5. WithFile(ListedIn(segs, D, F, p), file)
          = [dirs |-> others, files |-> ids \cup {file.id}, names |-> (its \cup names) \cup {file.name}]
    BY <2>1 DEF WithFile
  <2> QED BY <2>2, <2>3, <2>4, <2>5
<1> QED BY <1>1, <1>6, <1>7

LEMMA OneMoreRegistered ==
  ASSUME NEW segs, NEW R, NEW x, x \notin R
  PROVE  Clean(segs, R \cup {x}, {}, {})
           <=> /\ Clean(segs, R, {}, {})
               /\ A!DirAt(segs, x).id \notin {A!DirAt(segs, y).id : y \in R}
BY DEF Clean

LEMMA OneMoreCleanDir ==
  ASSUME NEW segs, NEW R, NEW D \in SUBSET R, NEW x \in R, x \notin D
  PROVE  LET dir == A!DirAt(segs, x)  was == ListedIn(segs, D, {}, dir.parent_dir)
         IN  Clean(segs, R, D \cup {x}, {})
               <=> Clean(segs, R, D, {}) /\ dir.name \notin was.names /\ dir.id \notin was.dirs
<1> DEFINE dir == A!DirAt(segs, x)
           was == ListedIn(segs, D, {}, dir.parent_dir)
<1>1. dir.name \in was.names <=> \E y \in D : SamePlace(A!DirAt(segs, y), dir)
  BY DEF ListedIn, SamePlace
<1>2. dir.id \in was.dirs
        => \E y \in D : A!DirAt(segs, y).id = dir.id
  BY DEF ListedIn
<1>3. Clean(segs, R, D \cup {x}, {})
        <=> Clean(segs, R, D, {}) /\ ~ \E y \in D : SamePlace(A!DirAt(segs, y), dir)
  <2>1. ASSUME NEW y, NEW z PROVE SamePlace(y, z) <=> SamePlace(z, y)
    BY DEF SamePlace
  <2> QED BY <2>1 DEF Clean
<1>4. Clean(segs, R, D, {}) => ~ \E y \in D : A!DirAt(segs, y).id = dir.id
  BY DEF Clean
<1> HIDE DEF dir, was
<1> QED BY <1>1, <1>2, <1>3, <1>4 DEF dir, was

LEMMA OneMoreCleanFile ==
  ASSUME NEW segs, NEW R, NEW D, NEW F, NEW x, x \notin F
  PROVE  LET file == A!FileAt(segs, x)  was == ListedIn(segs, D, F, file.parent_dir)
         IN  Clean(segs, R, D, F \cup {x})
               <=> Clean(segs, R, D, F) /\ file.name \notin was.names /\ file.id \notin was.files
<1> DEFINE file == A!FileAt(segs, x)
           was == ListedIn(segs, D, F, file.parent_dir)
           SameId(y, z) == y.parent_dir = z.parent_dir /\ y.id = z.id
<1>1. file.name \in was.names
        <=> \/ \E y \in D : SamePlace(A!DirAt(segs, y), file)
            \/ \E y \in F : SamePlace(A!FileAt(segs, y), file)
  BY DEF ListedIn, SamePlace
<1>2. file.id \in was.files <=> \E y \in F : SameId(A!FileAt(segs, y), file)
  BY DEF ListedIn
<1>3. Clean(segs, R, D, F \cup {x})
        <=> /\ Clean(segs, R, D, F)
            /\ ~ \E y \in D : SamePlace(A!DirAt(segs, y), file)
            /\ ~ \E y \in F : SamePlace(A!FileAt(segs, y), file)
            /\ ~ \E y \in F : SameId(A!FileAt(segs, y), file)
  <2>1. ASSUME NEW y, NEW z
        PROVE  (SamePlace(y, z) <=> SamePlace(z, y)) /\ (SameId(y, z) <=> SameId(z, y))
    BY DEF SamePlace
  <2>2. ASSUME NEW S
        PROVE  Clean(segs, R, D, S) <=>
                 /\ \A y, z \in R : y # z => A!DirAt(segs, y).id # A!DirAt(segs, z).id
                 /\ \A y, z \in D : y # z => ~SamePlace(A!DirAt(segs, y), A!DirAt(segs, z))
                 /\ \A y, z \in S :
                      y # z => /\ ~SamePlace(A!FileAt(segs, y), A!FileAt(segs, z))
                               /\ ~SameId(A!FileAt(segs, y), A!FileAt(segs, z))
                 /\ \A y \in D, z \in S : ~SamePlace(A!DirAt(segs, y), A!FileAt(segs, z))
    BY DEF Clean
  <2> HIDE DEF SameId
  <2> QED BY <2>1, <2>2
<1> HIDE DEF file, was, SameId
<1> QED BY <1>1, <1>2, <1>3 DEF file, was

-----------------------------------------------------------------------------
LEMMA HealthInitInv == HealthInit => HealthInv
<1> SUFFICES ASSUME HealthInit PROVE HealthInv
  OBVIOUS
<1> USE DEF HealthInit
<1>1. Registered = {} /\ DirsSeen = {} /\ FilesSeen = {}
  BY DEF Registered, DirsSeen, FilesSeen
<1>2. dirs_content = Listings(segments, {}, {}, {})
  <2>1. HaveListing(segments, {}, {}, {}) = {Root}
    BY DEF HaveListing
  <2> QED BY <2>1, ListedNowhere DEF Listings
<1>3. Clean(segments, {}, {}, {})
  BY DEF Clean
<1> QED BY <1>1, <1>2, <1>3 DEF HealthInv, InOrder, BlamesOnlyClashes

\* The slot that is next comes after those that were.
LEMMA NextKeepsOrder ==
  ASSUME NEW S, NEW x, IsNext(x), \A y \in S \ left, z \in left : Before(y, z)
  PROVE  /\ \A y \in S \ left : Before(y, x)
         /\ \A y \in S \ (left \ {x}), z \in left \ {x} : Before(y, z)
BY DEF IsNext

LEMMA RegisterDirInv ==
  ASSUME HealthInv, NEW x \in left, RegisterDir(x)
  PROVE  HealthInv'
<1> USE DEF HealthInv
<1> DEFINE dir == DirAt(x)
           R == AllDirs \ left
           more == R \cup {x}
<1>1. /\ pass = "register" /\ pass' = "register" /\ segments' = segments
      /\ left' = left \ {x} /\ AllDirs' = AllDirs /\ AllFiles' = AllFiles
      /\ x \in AllDirs /\ x \notin R
  BY DEF RegisterDir, AllDirs, AllFiles
<1>2. /\ Registered = R /\ DirsSeen = {} /\ FilesSeen = {}
      /\ Registered' = more /\ DirsSeen' = {} /\ FilesSeen' = {}
  BY <1>1 DEF Registered, DirsSeen, FilesSeen
<1>3. InOrder' /\ \A y \in R : Before(y, x)
  BY <1>1, NextKeepsOrder DEF InOrder, RegisterDir, IsNext
<1>4. Put(dir.id, Nothing)
  BY DEF RegisterDir
<1>5. dirs_content' = Listings(segments, more, {}, {})
  <2>1. HaveListing(segments, more, {}, {}) = HaveListing(segments, R, {}, {}) \cup {dir.id}
    BY DEF HaveListing, DirAt
  <2> HIDE DEF more, R, dir
  <2> QED BY <1>2, <1>4, <2>1, ListedNowhere, PutIsListings
<1>6. dir.id \in DOMAIN dirs_content <=> \E y \in R : DirAt(y).id = dir.id
  <2>1. DOMAIN dirs_content = HaveListing(segments, R, {}, {})
    BY <1>2 DEF Listings
  <2>2. dir.id # Root
    BY <1>1, TablesAssumption DEF AllDirs, DirAt
  <2> QED BY <2>1, <2>2 DEF HaveListing, DirAt
<1>7. errors' = errors \cup
        (IF dir.id \in DOMAIN dirs_content THEN {Error("duplicate directory", dir)} ELSE {})
  BY DEF RegisterDir
<1>8. errors' = {} <=> Clean(segments, more, {}, {})
  <2>1. errors' = {} <=> errors = {} /\ dir.id \notin DOMAIN dirs_content
    BY <1>7
  <2>2. Clean(segments, more, {}, {})
          <=> Clean(segments, R, {}, {}) /\ ~ \E y \in R : DirAt(y).id = dir.id
    <3>1. Clean(segments, more, {}, {})
            <=> /\ Clean(segments, R, {}, {})
                /\ A!DirAt(segments, x).id \notin {A!DirAt(segments, y).id : y \in R}
      <4> HIDE DEF R
      <4> QED BY <1>1, OneMoreRegistered
    <3> QED BY <3>1 DEF DirAt
  <2>3. errors = {} <=> Clean(segments, R, {}, {})
    BY <1>2
  <2> HIDE DEF more, R, dir, HealthInv
  <2> QED BY <1>6, <2>1, <2>2, <2>3
<1>9. BlamesOnlyClashes'
  <2>1. ASSUME NEW e \in errors', e \notin errors
        PROVE  \E p, q \in AllDirs : Before(p, q) /\ ClashOfDirs(e, DirAt(p), DirAt(q))
    BY <1>1, <1>3, <1>6, <1>7, <2>1 DEF ClashOfDirs
  <2> QED BY <1>1, <2>1 DEF BlamesOnlyClashes, DirAt, FileAt
<1> HIDE DEF more, R, dir
<1> QED BY <1>1, <1>2, <1>3, <1>5, <1>8, <1>9

LEMMA ListDirInv ==
  ASSUME HealthInv, NEW x \in left, ListDir(x)
  PROVE  HealthInv'
<1> USE DEF HealthInv
<1> DEFINE dir == DirAt(x)
           D == AllDirs \ left
           more == D \cup {x}
           was == ListedIn(segments, D, {}, dir.parent_dir)
<1>1. /\ pass = "dirs" /\ pass' = "dirs" /\ segments' = segments
      /\ left' = left \ {x} /\ AllDirs' = AllDirs /\ AllFiles' = AllFiles
      /\ x \in AllDirs /\ x \notin D
  BY DEF ListDir, AllDirs, AllFiles
<1>2. /\ Registered = AllDirs /\ DirsSeen = D /\ FilesSeen = {}
      /\ Registered' = AllDirs /\ DirsSeen' = more /\ FilesSeen' = {}
  BY <1>1 DEF Registered, DirsSeen, FilesSeen
<1>3. InOrder' /\ \A y \in D : Before(y, x)
  BY <1>1, NextKeepsOrder DEF InOrder, ListDir, IsNext
<1>4. ListingOf(dir.parent_dir) = was
  BY <1>2, ListingIsListed
<1>5. dirs_content' = Listings(segments, AllDirs, more, {})
  <2>1. Put(dir.parent_dir, WithDir(was, dir))
    BY <1>4 DEF ListDir
  <2>2. /\ HaveListing(segments, AllDirs, more, {})
             = HaveListing(segments, AllDirs, D, {}) \cup {dir.parent_dir}
        /\ ListedIn(segments, more, {}, dir.parent_dir) = WithDir(was, dir)
        /\ \A q : q # dir.parent_dir =>
             ListedIn(segments, more, {}, q) = ListedIn(segments, D, {}, q)
    <3>1. dir = A!DirAt(segments, x)
      BY DEF DirAt
    <3> HIDE DEF dir, HealthInv
    <3> QED BY <3>1, OneMoreDir
  <2>3. dirs_content = Listings(segments, AllDirs, D, {})
    BY <1>2
  <2> HIDE DEF more, D, dir, was, HealthInv
  <2> QED BY <2>1, <2>2, <2>3, PutIsListings
<1>6. errors' = errors
        \cup (IF dir.name \in was.names THEN {Error("duplicate name", dir)} ELSE {})
        \cup (IF dir.id \in was.dirs THEN {Error("duplicate directory", dir)} ELSE {})
  BY <1>4 DEF ListDir, NameErrors
<1>7. errors' = {} <=> Clean(segments, AllDirs, more, {})
  <2>1. errors' = {} <=> errors = {} /\ dir.name \notin was.names /\ dir.id \notin was.dirs
    BY <1>6
  <2>2. Clean(segments, AllDirs, more, {})
          <=> Clean(segments, AllDirs, D, {}) /\ dir.name \notin was.names /\ dir.id \notin was.dirs
    BY <1>1, OneMoreCleanDir DEF DirAt
  <2>3. errors = {} <=> Clean(segments, AllDirs, D, {})
    BY <1>2
  <2> HIDE DEF more, D, dir, was, HealthInv
  <2> QED BY <2>1, <2>2, <2>3
<1>8. BlamesOnlyClashes'
  <2>1. dir.name \in was.names => \E y \in D : SamePlace(DirAt(y), dir)
    BY DEF ListedIn, SamePlace, DirAt
  <2>2. dir.id \in was.dirs => \E y \in D : DirAt(y).id = dir.id
    BY DEF ListedIn, DirAt
  <2>3. ASSUME NEW e \in errors', e \notin errors
        PROVE  \E p, q \in AllDirs : Before(p, q) /\ ClashOfDirs(e, DirAt(p), DirAt(q))
    <3>1. \/ dir.name \in was.names /\ e = Error("duplicate name", dir)
          \/ dir.id \in was.dirs /\ e = Error("duplicate directory", dir)
      BY <1>6, <2>3
    <3> QED BY <1>1, <1>3, <2>1, <2>2, <3>1 DEF ClashOfDirs
  <2> QED BY <1>1, <2>3 DEF BlamesOnlyClashes, DirAt, FileAt
<1> HIDE DEF more, D, dir, was
<1> QED BY <1>1, <1>2, <1>3, <1>5, <1>7, <1>8

LEMMA ListFileInv ==
  ASSUME HealthInv, NEW x \in left, ListFile(x)
  PROVE  HealthInv'
<1> USE DEF HealthInv
<1> DEFINE file == FileAt(x)
           F == AllFiles \ left
           more == F \cup {x}
           was == ListedIn(segments, AllDirs, F, file.parent_dir)
<1>1. /\ pass = "files" /\ pass' = "files" /\ segments' = segments
      /\ left' = left \ {x} /\ AllDirs' = AllDirs /\ AllFiles' = AllFiles
      /\ x \in AllFiles /\ x \notin F
  BY DEF ListFile, AllDirs, AllFiles
<1>2. /\ Registered = AllDirs /\ DirsSeen = AllDirs /\ FilesSeen = F
      /\ Registered' = AllDirs /\ DirsSeen' = AllDirs /\ FilesSeen' = more
  BY <1>1 DEF Registered, DirsSeen, FilesSeen
<1>3. InOrder' /\ \A y \in F : Before(y, x)
  BY <1>1, NextKeepsOrder DEF InOrder, ListFile, IsNext
<1>4. ListingOf(file.parent_dir) = was
  BY <1>2, ListingIsListed
<1>5. dirs_content' = Listings(segments, AllDirs, AllDirs, more)
  <2>1. Put(file.parent_dir, WithFile(was, file))
    BY <1>4 DEF ListFile
  <2>2. /\ HaveListing(segments, AllDirs, AllDirs, more)
             = HaveListing(segments, AllDirs, AllDirs, F) \cup {file.parent_dir}
        /\ ListedIn(segments, AllDirs, more, file.parent_dir) = WithFile(was, file)
        /\ \A q : q # file.parent_dir =>
             ListedIn(segments, AllDirs, more, q) = ListedIn(segments, AllDirs, F, q)
    <3>1. file = A!FileAt(segments, x)
      BY DEF FileAt
    <3> HIDE DEF file, HealthInv
    <3> QED BY <3>1, OneMoreFile
  <2>3. dirs_content = Listings(segments, AllDirs, AllDirs, F)
    BY <1>2
  <2> HIDE DEF more, F, file, was, HealthInv
  <2> QED BY <2>1, <2>2, <2>3, PutIsListings
<1>6. errors' = errors
        \cup (IF file.name \in was.names THEN {Error("duplicate name", file)} ELSE {})
        \cup (IF file.id \in was.files THEN {Error("duplicate file", file)} ELSE {})
  BY <1>4 DEF ListFile, NameErrors
<1>7. errors' = {} <=> Clean(segments, AllDirs, AllDirs, more)
  <2>1. errors' = {} <=> errors = {} /\ file.name \notin was.names /\ file.id \notin was.files
    BY <1>6
  <2>2. Clean(segments, AllDirs, AllDirs, more)
          <=> Clean(segments, AllDirs, AllDirs, F) /\ file.name \notin was.names
                                                   /\ file.id \notin was.files
    BY <1>1, OneMoreCleanFile DEF FileAt
  <2>3. errors = {} <=> Clean(segments, AllDirs, AllDirs, F)
    BY <1>2
  <2> HIDE DEF more, F, file, was, HealthInv
  <2> QED BY <2>1, <2>2, <2>3
<1>8. BlamesOnlyClashes'
  <2>1. file.name \in was.names
          => \/ \E y \in AllDirs : SamePlace(DirAt(y), file)
             \/ \E y \in F : SamePlace(FileAt(y), file)
    BY DEF ListedIn, SamePlace, DirAt, FileAt
  <2>2. file.id \in was.files
          => \E y \in F : FileAt(y).id = file.id /\ FileAt(y).parent_dir = file.parent_dir
    BY DEF ListedIn, FileAt
  <2>3. ASSUME NEW e \in errors', e \notin errors
        PROVE  \/ \E p, q \in AllFiles : Before(p, q) /\ ClashOfFiles(e, FileAt(p), FileAt(q))
               \/ \E p \in AllDirs, q \in AllFiles :
                    e = Error("duplicate name", FileAt(q)) /\ SamePlace(DirAt(p), FileAt(q))
    <3>1. \/ file.name \in was.names /\ e = Error("duplicate name", file)
          \/ file.id \in was.files /\ e = Error("duplicate file", file)
      BY <1>6, <2>3
    <3> QED BY <1>1, <1>3, <2>1, <2>2, <3>1 DEF ClashOfFiles
  <2> QED BY <1>1, <2>3 DEF BlamesOnlyClashes, DirAt, FileAt
<1> HIDE DEF more, F, file, was
<1> QED BY <1>1, <1>2, <1>3, <1>5, <1>7, <1>8

LEMMA HealthStep == HealthInv /\ [HealthNext]_health_vars => HealthInv'
<1> SUFFICES ASSUME HealthInv, [HealthNext]_health_vars PROVE HealthInv'
  OBVIOUS
<1>1. ASSUME NEW x \in left, RegisterDir(x) \/ ListDir(x) \/ ListFile(x) PROVE HealthInv'
  BY <1>1, RegisterDirInv, ListDirInv, ListFileInv
<1>2. CASE DirsRegistered \/ DirsListed \/ Finish
  <2>1. /\ segments' = segments /\ AllDirs' = AllDirs /\ AllFiles' = AllFiles
        /\ dirs_content' = dirs_content /\ errors' = errors
    BY <1>2 DEF DirsRegistered, DirsListed, Finish, AllDirs, AllFiles
  <2>2. /\ Registered' = Registered /\ DirsSeen' = DirsSeen /\ FilesSeen' = FilesSeen
    BY <1>2, <2>1 DEF DirsRegistered, DirsListed, Finish, Registered, DirsSeen, FilesSeen
  <2>3. InOrder'
    BY <1>2, <2>1 DEF DirsRegistered, DirsListed, Finish, InOrder
  <2>4. BlamesOnlyClashes'
    BY <2>1 DEF HealthInv, BlamesOnlyClashes, DirAt, FileAt
  <2> QED BY <1>2, <2>1, <2>2, <2>3, <2>4 DEF DirsRegistered, DirsListed, Finish, HealthInv
<1>3. CASE UNCHANGED health_vars
  BY <1>3 DEF health_vars, HealthInv, InOrder, BlamesOnlyClashes, DirAt, FileAt, AllDirs, AllFiles,
              Registered, DirsSeen, FilesSeen
<1> QED BY <1>1, <1>2, <1>3 DEF HealthNext

(***************************************************************************)
(* For every set of tables a device may hold, of any length and with       *)
(* entries in any order, check_file_table_correctness refuses exactly what *)
(* Archive takes for incorrect, lists what it accepts as Archive does, and *)
(* blames no item for a later one.                                         *)
(***************************************************************************)
THEOREM CheckIsRight == HealthSpec => []HealthCheckIsRight
<1>1. HealthInv => HealthCheckIsRight
  <2> SUFFICES ASSUME HealthInv PROVE HealthCheckIsRight
    OBVIOUS
  <2> USE DEF HealthInv
  <2>1. CASE pass = "done"
    <3>1. Registered = AllDirs /\ DirsSeen = AllDirs /\ FilesSeen = AllFiles
      BY <2>1 DEF Registered, DirsSeen, FilesSeen
    <3>2. errors = {} <=> A!TableIsCorrect(segments)
      BY <3>1, AllCleanIsCorrect DEF AllDirs, AllFiles
    <3>3. dirs_content = A!DirsContentOf(segments)
      BY <3>1, AllListedIsContent DEF AllDirs, AllFiles
    <3> QED BY <3>2, <3>3 DEF HealthCheckIsRight, DecidesAsArchiveDoes, Accepted, Refused
  <2>2. CASE pass # "done"
    BY <2>2 DEF HealthCheckIsRight, DecidesAsArchiveDoes, Accepted, Refused
  <2> QED BY <2>1, <2>2
<1> QED BY <1>1, HealthInitInv, HealthStep, PTL DEF HealthSpec

-----------------------------------------------------------------------------
(* One slot of the file table: numbers, names and entries as bytes. *)

\* A non-empty set of numbers has a first.
LEMMA FirstOf ==
  ASSUME NEW S \in SUBSET Nat, S # {}
  PROVE  \E n \in S : \A m \in S : n <= m
<1>1. PICK n \in S : \A m \in S : ~(<<m, n>> \in OpToRel(<, Nat))
  BY NatLessThanWellFounded, WFMin
<1>2. \A m \in S : ~(m < n)
  BY <1>1 DEF OpToRel
<1> QED
  BY <1>2

LEMMA Bases == Base \in Nat /\ Base > 1 /\ Width \in Nat /\ Width > 0
BY EntryAssumption

LEMMA Division ==
  ASSUME NEW q \in Nat, NEW r \in Byte
  PROVE  /\ (q * Base + r) \div Base = q
         /\ (q * Base + r) % Base = r
<1>1. \A b \in Nat : b > 0 => \A p \in Nat, s \in 0 .. b - 1 :
         (p * b + s) \div b = p /\ (p * b + s) % b = s
  OBVIOUS
<1> QED
  BY <1>1, Bases DEF Byte

LEMMA QuotientIs == ASSUME NEW b \in Nat, b > 0, NEW n \in Nat PROVE n \div b \in Nat
OBVIOUS

LEMMA RemainderIs == ASSUME NEW b \in Nat, b > 0, NEW n \in Nat PROVE (n % b) \in 0 .. b - 1
OBVIOUS

LEMMA DividedIs ==
  ASSUME NEW b \in Nat, b > 0, NEW n \in Nat, NEW q \in Nat, q = n \div b, NEW r \in Nat, r = n % b
  PROVE  n = q * b + r
OBVIOUS

LEMMA Divided ==
  ASSUME NEW n \in Nat
  PROVE  /\ n \div Base \in Nat /\ (n % Base) \in Byte
         /\ n = (n \div Base) * Base + (n % Base)
<1> DEFINE q == n \div Base
           r == n % Base
<1>4. q \in Nat /\ r \in 0 .. Base - 1 /\ r \in Nat
  BY QuotientIs, RemainderIs, Bases
<1>5. n = q * Base + r
  <2> HIDE DEF q, r
  <2>1. q = n \div Base /\ r = n % Base
    BY DEF q, r
  <2> QED
    BY <1>4, <2>1, DividedIs, Bases
<1> QED
  BY <1>4, <1>5 DEF Byte

\* A number shifted i times, for i up to k.
Shifts(n, k, f) == f = [i \in 0 .. k |-> IF i = 0 THEN n ELSE f[i - 1] \div Base]

LEMMA ShiftsAre ==
  ASSUME NEW n \in Nat, NEW k \in Nat, NEW f, Shifts(n, k, f)
  PROVE  /\ f \in [0 .. k -> Nat] /\ f[0] = n
         /\ \A i \in 1 .. k : f[i] = f[i - 1] \div Base
<1>1. /\ DOMAIN f = 0 .. k /\ f[0] = n /\ f = [i \in 0 .. k |-> f[i]]
      /\ \A i \in 1 .. k : f[i] = f[i - 1] \div Base
  BY DEF Shifts
<1> DEFINE Bad == {m \in 0 .. k : f[m] \notin Nat}
<1>2. Bad = {}
  <2> SUFFICES ASSUME Bad # {} PROVE FALSE
    OBVIOUS
  <2>1. PICK m \in Bad : \A l \in Bad : m <= l
    <3>1. Bad \in SUBSET Nat
      OBVIOUS
    <3> HIDE DEF Bad
    <3> QED BY <3>1, FirstOf
  <2>2. m \in 1 .. k /\ m - 1 \in 0 .. k /\ m - 1 \notin Bad
    BY <1>1, <2>1
  <2>3. f[m - 1] \in Nat /\ f[m] = f[m - 1] \div Base
    BY <1>1, <2>2
  <2> QED
    BY <2>1, <2>3, QuotientIs, Bases
<1> QED
  BY <1>1, <1>2

LEMMA ShiftsExist ==
  ASSUME NEW n \in Nat, NEW k \in Nat
  PROVE  \E f : Shifts(n, k, f)
<1> DEFINE Bad == {m \in Nat : ~\E f : Shifts(n, m, f)}
<1>1. SUFFICES ASSUME Bad # {} PROVE FALSE
  OBVIOUS
<1>2. PICK m \in Bad : \A l \in Bad : m <= l
  BY <1>1, FirstOf
<1>3. CASE m = 0
  <2>1. Shifts(n, 0, [i \in 0 .. 0 |-> n])
    BY DEF Shifts
  <2> QED
    BY <1>2, <1>3, <2>1
<1>4. CASE m # 0
  <2>1. m \in Nat /\ m - 1 \in Nat /\ m - 1 \notin Bad
    BY <1>2, <1>4
  <2>2. PICK f : Shifts(n, m - 1, f)
    BY <2>1
  <2> DEFINE g == [i \in 0 .. m |-> IF i = 0 THEN n ELSE f[i - 1] \div Base]
  <2>3. f[0] = n /\ \A i \in 1 .. m - 1 : f[i] = f[i - 1] \div Base
    BY <2>1, <2>2, ShiftsAre
  <2>4. \A i \in 0 .. m - 1 : g[i] = f[i]
    BY <2>1, <2>3
  <2>5. \A i \in 0 .. m : i # 0 => i - 1 \in 0 .. m - 1
    BY <2>1
  <2>6. g = [i \in 0 .. m |-> IF i = 0 THEN n ELSE g[i - 1] \div Base]
    BY <2>4, <2>5
  <2>7. Shifts(n, m, g)
    <3> HIDE DEF g
    <3> QED BY <2>6 DEF Shifts
  <2> QED
    BY <1>2, <2>7
<1> QED
  BY <1>3, <1>4

LEMMA ShiftedIs ==
  ASSUME NEW n \in Nat
  PROVE  /\ Shifted(n) \in [0 .. Width -> Nat] /\ Shifted(n)[0] = n
         /\ \A i \in 1 .. Width : Shifted(n)[i] = Shifted(n)[i - 1] \div Base
<1>1. \E f : Shifts(n, Width, f)
  BY ShiftsExist, Bases
<1>2. Shifts(n, Width, Shifted(n))
  BY <1>1 DEF Shifts, Shifted
<1> QED
  BY <1>2, ShiftsAre, Bases

\* The number in the i highest bytes, for i up to k.
Sums(b, k, f) == f = [i \in 0 .. k |-> IF i = 0 THEN 0 ELSE f[i - 1] * Base + b[Width + 1 - i]]

IntBytes(b) == b \in [1 .. Width -> Byte]

LEMMA SameBytes ==
  ASSUME NEW b, NEW c, IntBytes(b), IntBytes(c), \A i \in 1 .. Width : b[i] = c[i]
  PROVE  b = c
<1>1. b = [i \in 1 .. Width |-> b[i]] /\ c = [i \in 1 .. Width |-> c[i]]
  BY DEF IntBytes
<1> QED
  BY <1>1

LEMMA SumsAre ==
  ASSUME NEW b, IntBytes(b), NEW k \in 0 .. Width, NEW f, Sums(b, k, f)
  PROVE  /\ f \in [0 .. k -> Nat] /\ f[0] = 0
         /\ \A i \in 1 .. k : f[i] = f[i - 1] * Base + b[Width + 1 - i]
<1>1. /\ DOMAIN f = 0 .. k /\ f[0] = 0 /\ f = [i \in 0 .. k |-> f[i]]
      /\ \A i \in 1 .. k : f[i] = f[i - 1] * Base + b[Width + 1 - i]
  BY DEF Sums
<1> DEFINE Bad == {m \in 0 .. k : f[m] \notin Nat}
<1>2. Bad = {}
  <2> SUFFICES ASSUME Bad # {} PROVE FALSE
    OBVIOUS
  <2>1. PICK m \in Bad : \A l \in Bad : m <= l
    <3>1. Bad \in SUBSET Nat
      OBVIOUS
    <3> HIDE DEF Bad
    <3> QED BY <3>1, FirstOf
  <2>2. m \in 1 .. k /\ m - 1 \in 0 .. k /\ m - 1 \notin Bad
    BY <1>1, <2>1
  <2>3. f[m - 1] \in Nat /\ f[m] = f[m - 1] * Base + b[Width + 1 - m]
    BY <1>1, <2>2
  <2>4. b[Width + 1 - m] \in Nat
    <3>1. Width + 1 - m \in 1 .. Width
      BY <2>2, Bases
    <3> QED
      BY <3>1, Bases DEF IntBytes, Byte
  <2>5. f[m - 1] * Base \in Nat
    BY <2>3, Bases
  <2> QED
    BY <2>1, <2>3, <2>4, <2>5
<1> QED
  BY <1>1, <1>2

LEMMA SumsExist ==
  ASSUME NEW b, IntBytes(b)
  PROVE  \E f : Sums(b, Width, f)
<1> DEFINE Bad == {m \in 0 .. Width : ~\E f : Sums(b, m, f)}
<1>1. SUFFICES ASSUME Bad # {} PROVE FALSE
  BY Bases
<1>2. PICK m \in Bad : \A l \in Bad : m <= l
  <2>1. Bad \in SUBSET Nat
    OBVIOUS
  <2> HIDE DEF Bad
  <2> QED BY <1>1, <2>1, FirstOf
<1>3. CASE m = 0
  <2>1. Sums(b, 0, [i \in 0 .. 0 |-> 0])
    BY DEF Sums
  <2> QED
    BY <1>2, <1>3, <2>1
<1>4. CASE m # 0
  <2>1. m \in Nat /\ m - 1 \in 0 .. Width /\ m - 1 \notin Bad
    BY <1>2, <1>4, Bases
  <2>2. PICK f : Sums(b, m - 1, f)
    BY <2>1
  <2> DEFINE g == [i \in 0 .. m |-> IF i = 0 THEN 0 ELSE f[i - 1] * Base + b[Width + 1 - i]]
  <2>3. f[0] = 0 /\ \A i \in 1 .. m - 1 : f[i] = f[i - 1] * Base + b[Width + 1 - i]
    BY <2>1, <2>2, SumsAre
  <2>4. \A i \in 0 .. m - 1 : g[i] = f[i]
    BY <2>1, <2>3
  <2>5. \A i \in 0 .. m : i # 0 => i - 1 \in 0 .. m - 1
    BY <2>1
  <2>6. g = [i \in 0 .. m |-> IF i = 0 THEN 0 ELSE g[i - 1] * Base + b[Width + 1 - i]]
    BY <2>4, <2>5
  <2>7. Sums(b, m, g)
    <3> HIDE DEF g
    <3> QED BY <2>6 DEF Sums
  <2> QED
    BY <1>2, <2>7
<1> QED
  BY <1>3, <1>4

LEMMA UpperIs ==
  ASSUME NEW b, IntBytes(b)
  PROVE  /\ Upper(b) \in [0 .. Width -> Nat] /\ Upper(b)[0] = 0
         /\ \A i \in 1 .. Width : Upper(b)[i] = Upper(b)[i - 1] * Base + b[Width + 1 - i]
<1>1. \E f : Sums(b, Width, f)
  BY SumsExist
<1>2. Sums(b, Width, Upper(b))
  BY <1>1 DEF Sums, Upper
<1> QED
  BY <1>2, SumsAre, Bases

LEMMA ToLeBytesIs ==
  ASSUME NEW n \in Nat
  PROVE  /\ IntBytes(ToLeBytes(n)) /\ ToLeBytes(n) \in Seq(Byte) /\ Len(ToLeBytes(n)) = Width
         /\ \A i \in 1 .. Width : ToLeBytes(n)[i] = Shifted(n)[i - 1] % Base
<1>1. \A i \in 1 .. Width : Shifted(n)[i - 1] \in Nat
  BY ShiftedIs, Bases
<1>2. IntBytes(ToLeBytes(n))
  BY <1>1, Divided DEF ToLeBytes, IntBytes
<1> QED
  BY <1>2, Bases DEF ToLeBytes, IntBytes

\* What is written is read.
LEMMA FromToLe ==
  ASSUME NEW n, Integer(n)
  PROVE  FromLeBytes(ToLeBytes(n)) = n
<1> DEFINE b == ToLeBytes(n)
           Bad == {i \in 0 .. Width : Upper(b)[i] # Shifted(n)[Width - i]}
<1>1. n \in Nat /\ IntBytes(b) /\ \A i \in 1 .. Width : b[i] = Shifted(n)[i - 1] % Base
  BY ToLeBytesIs DEF Integer
<1>2. /\ Shifted(n) \in [0 .. Width -> Nat] /\ Shifted(n)[0] = n /\ Shifted(n)[Width] = 0
      /\ \A i \in 1 .. Width : Shifted(n)[i] = Shifted(n)[i - 1] \div Base
  BY <1>1, ShiftedIs DEF Integer
<1> HIDE DEF b
<1>3. /\ Upper(b) \in [0 .. Width -> Nat] /\ Upper(b)[0] = 0
      /\ \A i \in 1 .. Width : Upper(b)[i] = Upper(b)[i - 1] * Base + b[Width + 1 - i]
  BY <1>1, UpperIs
<1>4. Bad = {}
  <2> SUFFICES ASSUME Bad # {} PROVE FALSE
    OBVIOUS
  <2>1. PICK m \in Bad : \A l \in Bad : m <= l
    <3>1. Bad \in SUBSET Nat
      OBVIOUS
    <3> HIDE DEF Bad
    <3> QED BY <3>1, FirstOf
  <2>2. m # 0
    BY <1>2, <1>3, <2>1, Bases
  <2>3. m \in 1 .. Width /\ m - 1 \in 0 .. Width /\ m - 1 \notin Bad
    BY <2>1, <2>2, Bases
  <2> DEFINE l == Width - m
             high == Shifted(n)[l + 1]
             low == Shifted(n)[l] % Base
  <2>4. l \in 0 .. Width /\ l + 1 \in 1 .. Width /\ Width + 1 - m = l + 1 /\ Width - (m - 1) = l + 1
        /\ (l + 1) - 1 = l
    BY <2>3, Bases
  <2>5. Upper(b)[m - 1] = high /\ b[Width + 1 - m] = low
    BY <1>1, <2>3, <2>4
  <2>6. Upper(b)[m] = high * Base + low
    BY <1>3, <2>3, <2>5
  <2>7. Shifted(n)[l] \in Nat /\ high = Shifted(n)[l] \div Base
    BY <1>2, <2>4
  <2>8. Shifted(n)[l] = high * Base + low
    BY <2>7, Divided
  <2> QED
    BY <2>1, <2>6, <2>8
<1>5. Width \in 0 .. Width /\ Width - Width = 0
  BY Bases
<1> QED
  BY <1>2, <1>4, <1>5 DEF FromLeBytes, b

\* What is read was written.
LEMMA ToFromLe ==
  ASSUME NEW b, IntBytes(b)
  PROVE  Integer(FromLeBytes(b)) /\ ToLeBytes(FromLeBytes(b)) = b
<1> DEFINE n == FromLeBytes(b)
           Bad == {i \in 0 .. Width : Shifted(n)[i] # Upper(b)[Width - i]}
<1>1. /\ Upper(b) \in [0 .. Width -> Nat] /\ Upper(b)[0] = 0
      /\ \A i \in 1 .. Width : Upper(b)[i] = Upper(b)[i - 1] * Base + b[Width + 1 - i]
  BY UpperIs
<1>2. n = Upper(b)[Width] /\ n \in Nat
  BY <1>1, Bases DEF FromLeBytes
<1> HIDE DEF n
<1>3. /\ Shifted(n) \in [0 .. Width -> Nat] /\ Shifted(n)[0] = n
      /\ \A i \in 1 .. Width : Shifted(n)[i] = Shifted(n)[i - 1] \div Base
  BY <1>2, ShiftedIs
<1>4. ASSUME NEW i \in 1 .. Width, Shifted(n)[i - 1] = Upper(b)[Width - (i - 1)]
      PROVE  Shifted(n)[i] = Upper(b)[Width - i] /\ Shifted(n)[i - 1] % Base = b[i]
  <2> DEFINE l == Width - i
             high == Upper(b)[l]
             low == b[i]
  <2>1. l \in 0 .. Width /\ l + 1 \in 1 .. Width /\ Width - (i - 1) = l + 1 /\ (l + 1) - 1 = l
        /\ Width + 1 - (l + 1) = i
    BY <1>4, Bases
  <2>2. high \in Nat /\ low \in Byte
    BY <1>1, <2>1 DEF IntBytes
  <2>3. Upper(b)[l + 1] = high * Base + low
    BY <1>1, <2>1
  <2>4. Shifted(n)[i - 1] = high * Base + low
    BY <1>4, <2>1, <2>3
  <2>5. Shifted(n)[i - 1] \div Base = high /\ Shifted(n)[i - 1] % Base = low
    <3> HIDE DEF high, low
    <3> QED BY <2>2, <2>4, Division
  <2> QED
    BY <1>3, <2>5
<1>5. Bad = {}
  <2> SUFFICES ASSUME Bad # {} PROVE FALSE
    OBVIOUS
  <2>1. PICK m \in Bad : \A l \in Bad : m <= l
    <3>1. Bad \in SUBSET Nat
      OBVIOUS
    <3> HIDE DEF Bad
    <3> QED BY <3>1, FirstOf
  <2>2. m # 0
    BY <1>2, <1>3, <2>1, Bases
  <2>3. m \in 1 .. Width /\ m - 1 \in 0 .. Width /\ m - 1 \notin Bad
    BY <2>1, <2>2, Bases
  <2> QED
    BY <1>4, <2>1, <2>3
<1>6. Integer(n)
  <2>1. Width \in 0 .. Width /\ Width - Width = 0
    BY Bases
  <2> QED
    BY <1>1, <1>2, <1>5, <2>1 DEF Integer
<1>7. \A i \in 1 .. Width : ToLeBytes(n)[i] = b[i]
  <2> SUFFICES ASSUME NEW i \in 1 .. Width PROVE ToLeBytes(n)[i] = b[i]
    OBVIOUS
  <2>1. i - 1 \in 0 .. Width
    BY Bases
  <2> QED
    BY <1>2, <1>4, <1>5, <2>1, ToLeBytesIs
<1>8. ToLeBytes(n) = b
  BY <1>2, <1>7, ToLeBytesIs DEF IntBytes
<1> QED
  BY <1>6, <1>8 DEF n

LEMMA NothingIsZero ==
  ASSUME NEW b, IntBytes(b), \A i \in 1 .. Width : b[i] = 0
  PROVE  FromLeBytes(b) = 0
<1> DEFINE Bad == {i \in 0 .. Width : Upper(b)[i] # 0}
<1>1. /\ Upper(b) \in [0 .. Width -> Nat] /\ Upper(b)[0] = 0
      /\ \A i \in 1 .. Width : Upper(b)[i] = Upper(b)[i - 1] * Base + b[Width + 1 - i]
  BY UpperIs
<1>2. Bad = {}
  <2> SUFFICES ASSUME Bad # {} PROVE FALSE
    OBVIOUS
  <2>1. PICK m \in Bad : \A l \in Bad : m <= l
    <3>1. Bad \in SUBSET Nat
      OBVIOUS
    <3> HIDE DEF Bad
    <3> QED BY <3>1, FirstOf
  <2>2. m \in 1 .. Width /\ m - 1 \in 0 .. Width /\ m - 1 \notin Bad
    BY <1>1, <2>1, Bases
  <2>3. Width + 1 - m \in 1 .. Width
    BY <2>2, Bases
  <2>4. Upper(b)[m] = 0 * Base + 0
    BY <1>1, <2>2, <2>3
  <2> QED
    BY <2>1, <2>4, Bases
<1> QED
  BY <1>2, Bases DEF FromLeBytes

-----------------------------------------------------------------------------
\* t is in s from an offset on.
Holds(s, offset, t) == \A j \in 1 .. Len(t) : s[offset + j] = t[j]

LEMMA Joined ==
  ASSUME NEW a \in Seq(Byte), NEW b \in Seq(Byte)
  PROVE  /\ a \o b \in Seq(Byte) /\ Len(a \o b) = Len(a) + Len(b) /\ Len(a) \in Nat /\ Len(b) \in Nat
         /\ Holds(a \o b, Len(a), b) /\ Holds(a \o b, 0, a)
         /\ \A i \in 1 .. Len(a) : (a \o b)[i] = a[i]
BY DEF Holds

LEMMA HoldsOn ==
  ASSUME NEW a \in Seq(Byte), NEW b \in Seq(Byte), NEW t \in Seq(Byte), NEW o \in Nat,
         Holds(a, o, t), o + Len(t) <= Len(a)
  PROVE  Holds(a \o b, o, t)
<1> SUFFICES ASSUME NEW j \in 1 .. Len(t) PROVE (a \o b)[o + j] = t[j]
  BY DEF Holds
<1>1. o + j \in 1 .. Len(a)
  OBVIOUS
<1>2. a[o + j] = t[j]
  BY DEF Holds
<1> QED
  BY <1>1, <1>2, Joined

LEMMA BytesAtAre ==
  ASSUME NEW s \in Seq(Byte), NEW o \in Nat, o + Width <= Len(s)
  PROVE  LET b == SubSeq(s, o + 1, o + Width)
         IN IntBytes(b) /\ \A j \in 1 .. Width : b[j] = s[o + j]
<1> DEFINE b == SubSeq(s, o + 1, o + Width)
<1>1. \A j \in 1 .. Width : s[o + j] \in Byte /\ b[j] = s[o + j]
  BY Bases
<1>2. b = [j \in 1 .. Width |-> b[j]]
  BY Bases
<1> QED
  BY <1>1, <1>2 DEF IntBytes

LEMMA IntIsThere ==
  ASSUME NEW s \in Seq(Byte), NEW o \in Nat, o + Width <= Len(s),
         NEW n, Integer(n), Holds(s, o, ToLeBytes(n))
  PROVE  IntAt(s, o) = n
<1> DEFINE b == SubSeq(s, o + 1, o + Width)
<1>1. IntBytes(b) /\ \A j \in 1 .. Width : b[j] = s[o + j]
  BY BytesAtAre
<1>2. IntBytes(ToLeBytes(n)) /\ Len(ToLeBytes(n)) = Width
  BY ToLeBytesIs DEF Integer
<1>3. \A j \in 1 .. Width : s[o + j] = ToLeBytes(n)[j]
  BY <1>2 DEF Holds
<1> HIDE DEF b
<1>4. b = ToLeBytes(n)
  BY <1>1, <1>2, <1>3 DEF IntBytes
<1> QED
  BY <1>4, FromToLe DEF IntAt, b

LEMMA IntsAgree ==
  ASSUME NEW s \in Seq(Byte), NEW t \in Seq(Byte), NEW o \in Nat,
         o + Width <= Len(s), o + Width <= Len(t),
         \A i \in o + 1 .. o + Width : s[i] = t[i]
  PROVE  IntAt(s, o) = IntAt(t, o)
<1> DEFINE b == SubSeq(s, o + 1, o + Width)
           c == SubSeq(t, o + 1, o + Width)
<1>1. IntBytes(b) /\ \A j \in 1 .. Width : b[j] = s[o + j]
  BY BytesAtAre
<1>2. IntBytes(c) /\ \A j \in 1 .. Width : c[j] = t[o + j]
  BY BytesAtAre
<1>3. \A j \in 1 .. Width : s[o + j] = t[o + j]
  BY Bases
<1> HIDE DEF b, c
<1>4. \A j \in 1 .. Width : b[j] = c[j]
  BY <1>1, <1>2, <1>3
<1>5. b = c
  BY <1>1, <1>2, <1>4, SameBytes
<1> QED
  BY <1>5 DEF IntAt, b, c

LEMMA IntAtIs ==
  ASSUME NEW s \in Seq(Byte), NEW o \in Nat, o + Width <= Len(s)
  PROVE  /\ Integer(IntAt(s, o)) /\ Holds(s, o, ToLeBytes(IntAt(s, o)))
         /\ (\A j \in 1 .. Width : s[o + j] = 0) => IntAt(s, o) = 0
<1> DEFINE b == SubSeq(s, o + 1, o + Width)
<1>1. IntBytes(b) /\ \A j \in 1 .. Width : b[j] = s[o + j]
  BY BytesAtAre
<1>2. Integer(FromLeBytes(b)) /\ ToLeBytes(FromLeBytes(b)) = b
  BY <1>1, ToFromLe
<1>3. Len(ToLeBytes(FromLeBytes(b))) = Width
  BY <1>2, ToLeBytesIs DEF Integer
<1>4. IntAt(s, o) = FromLeBytes(b)
  BY DEF IntAt
<1> HIDE DEF b
<1>5. Holds(s, o, ToLeBytes(IntAt(s, o)))
  BY <1>1, <1>2, <1>3, <1>4 DEF Holds
<1>6. (\A j \in 1 .. Width : s[o + j] = 0) => IntAt(s, o) = 0
  BY <1>1, <1>4, NothingIsZero
<1> QED
  BY <1>2, <1>4, <1>5, <1>6

-----------------------------------------------------------------------------
NameOf(s) == NameIn(SubSeq(s, NAME_OFFSET_IN_ENTRY + 1, AFTER_NAME))

Name(name) == name \in Seq(Byte) /\ IsUtf8(name) /\ CheckValidity(name)

LEMMA Offsets ==
  /\ NAME_OFFSET_IN_ENTRY \in Nat /\ AFTER_NAME \in Nat /\ NAME_MAX \in Nat /\ NAME_MAX = Base - 1
  /\ NAME_OFFSET_IN_ENTRY = Width + Width /\ AFTER_NAME = NAME_OFFSET_IN_ENTRY + Base
BY Bases DEF NAME_OFFSET_IN_ENTRY, AFTER_NAME, NAME_MAX

LEMMA NameOfIs ==
  ASSUME NEW s \in Seq(Byte), AFTER_NAME <= Len(s)
  PROVE  LET len == s[NAME_OFFSET_IN_ENTRY + 1]
         IN /\ len \in 0 .. NAME_MAX /\ NameOf(s) \in Seq(Byte) /\ Len(NameOf(s)) = len
            /\ Holds(s, NAME_OFFSET_IN_ENTRY + 1, NameOf(s))
<1> DEFINE o == NAME_OFFSET_IN_ENTRY
           len == s[o + 1]
           b == SubSeq(s, o + 1, AFTER_NAME)
<1>1. o \in Nat /\ AFTER_NAME = o + Base /\ NAME_MAX = Base - 1 /\ Base \in Nat /\ Base > 1
  BY Offsets, Bases
<1>2. o + 1 \in 1 .. Len(s) /\ len \in 0 .. NAME_MAX
  BY <1>1 DEF Byte
<1>3. b \in Seq(Byte) /\ Len(b) = Base /\ \A j \in 1 .. Base : b[j] = s[o + j]
  BY <1>1
<1> HIDE DEF b, o
<1>4. b[1] = len /\ NameOf(s) = SubSeq(b, 2, len + 1)
  <2>1. b[1] = s[o + 1]
    BY <1>1, <1>3
  <2>2. NameOf(s) = SubSeq(b, 2, b[1] + 1)
    BY DEF NameOf, NameIn, b, o
  <2> QED
    BY <2>1, <2>2
<1> HIDE DEF len
<1>5. NameOf(s) \in Seq(Byte) /\ Len(NameOf(s)) = len /\ \A j \in 1 .. len : NameOf(s)[j] = b[j + 1]
  BY <1>1, <1>2, <1>3, <1>4
<1>6. \A j \in 1 .. len : NameOf(s)[j] = s[(o + 1) + j]
  <2> SUFFICES ASSUME NEW j \in 1 .. len PROVE NameOf(s)[j] = s[(o + 1) + j]
    OBVIOUS
  <2>1. j + 1 \in 1 .. Base /\ o + (j + 1) = (o + 1) + j
    BY <1>1, <1>2
  <2> QED
    BY <1>3, <1>5, <2>1
<1> QED
  BY <1>2, <1>5, <1>6 DEF Holds, len, o

LEMMA NamesAgree ==
  ASSUME NEW s \in Seq(Byte), NEW t \in Seq(Byte), AFTER_NAME <= Len(s), AFTER_NAME <= Len(t),
         LET o == NAME_OFFSET_IN_ENTRY + 1
         IN \A i \in o .. o + s[o] : s[i] = t[i]
  PROVE  NameOf(s) = NameOf(t)
<1> DEFINE o == NAME_OFFSET_IN_ENTRY + 1
           len == s[o]
<1>1. o \in Nat /\ len \in Nat /\ \A i \in o .. o + len : s[i] = t[i]
  BY Offsets, NameOfIs
<1>2. /\ NameOf(s) \in Seq(Byte) /\ Len(NameOf(s)) = len
      /\ \A j \in 1 .. len : s[o + j] = NameOf(s)[j]
  BY NameOfIs DEF Holds
<1>3. t[o] = len
  BY <1>1
<1>4. /\ NameOf(t) \in Seq(Byte) /\ Len(NameOf(t)) = len
      /\ \A j \in 1 .. len : t[o + j] = NameOf(t)[j]
  BY <1>3, NameOfIs DEF Holds
<1> HIDE DEF len, o
<1>5. \A j \in 1 .. len : s[o + j] = t[o + j]
  BY <1>1
<1>6. \A j \in 1 .. len : NameOf(s)[j] = NameOf(t)[j]
  BY <1>2, <1>4, <1>5
<1> QED
  BY <1>1, <1>2, <1>4, <1>6

LEMMA NameIsThere ==
  ASSUME NEW s \in Seq(Byte), AFTER_NAME <= Len(s), NEW name \in Seq(Byte),
         s[NAME_OFFSET_IN_ENTRY + 1] = Len(name), Holds(s, NAME_OFFSET_IN_ENTRY + 1, name)
  PROVE  NameOf(s) = name
<1>1. /\ NameOf(s) \in Seq(Byte) /\ Len(NameOf(s)) = Len(name)
      /\ \A j \in 1 .. Len(name) : NameOf(s)[j] = name[j]
  BY NameOfIs DEF Holds
<1> QED
  BY <1>1

LEMMA EncodeNameIs ==
  ASSUME NEW name \in Seq(Byte), Len(name) <= NAME_MAX
  PROVE  /\ EncodeName(name) \in Seq(Byte) /\ Len(EncodeName(name)) = Base
         /\ EncodeName(name)[1] = Len(name) /\ Holds(EncodeName(name), 1, name)
<1> DEFINE zeros == Zeros(NAME_MAX - Len(name))
<1>1. NAME_MAX - Len(name) \in Nat /\ Len(name) \in Byte /\ 0 \in Byte
  BY Offsets, Bases DEF Byte
<1>2. zeros \in Seq(Byte) /\ Len(zeros) = NAME_MAX - Len(name)
  BY <1>1 DEF Zeros
<1> HIDE DEF zeros
<1>3. <<Len(name)>> \in Seq(Byte) /\ Len(<<Len(name)>>) = 1
  BY <1>1
<1> DEFINE start == <<Len(name)>> \o name
<1>4. /\ start \in Seq(Byte) /\ Len(start) = 1 + Len(name) /\ start[1] = Len(name)
      /\ Holds(start, 1, name)
  BY <1>3 DEF Holds
<1> HIDE DEF start
<1>5. EncodeName(name) = start \o zeros
  BY DEF EncodeName, start, zeros
<1>6. Holds(start \o zeros, 1, name)
  BY <1>2, <1>4, HoldsOn
<1>7. (start \o zeros)[1] = start[1] /\ start \o zeros \in Seq(Byte) /\ Len(start \o zeros) = Len(start) + Len(zeros)
  BY <1>2, <1>4
<1> QED
  BY <1>2, <1>4, <1>5, <1>6, <1>7, Offsets, Bases

-----------------------------------------------------------------------------
ContentOK(c) ==
  IF kind = "directory" THEN c = NoContent
  ELSE /\ c = [addr |-> c.addr, len |-> c.len, checksum |-> c.checksum]
       /\ Integer(c.addr) /\ Integer(c.len) /\ c.checksum \in Byte

CONTENT_SIZE == IF kind = "directory" THEN 0 ELSE (Width + Width) + 1

LEMMA EncodeContentIs ==
  ASSUME NEW c, ContentOK(c)
  PROVE  /\ EncodeContent(c) \in Seq(Byte) /\ Len(EncodeContent(c)) = CONTENT_SIZE
         /\ kind # "directory" =>
              /\ Holds(EncodeContent(c), 0, ToLeBytes(c.addr))
              /\ Holds(EncodeContent(c), Width, ToLeBytes(c.len))
              /\ EncodeContent(c)[(Width + Width) + 1] = c.checksum
<1>1. CASE kind = "directory"
  BY <1>1 DEF EncodeContent, CONTENT_SIZE
<1>2. CASE kind # "directory"
  <2> DEFINE a == ToLeBytes(c.addr)
             l == ToLeBytes(c.len)
             k == <<c.checksum>>
  <2>1. /\ a \in Seq(Byte) /\ Len(a) = Width /\ l \in Seq(Byte) /\ Len(l) = Width
        /\ k \in Seq(Byte) /\ Len(k) = 1 /\ k[1] = c.checksum
    BY <1>2, ToLeBytesIs DEF ContentOK, Integer
  <2>2. EncodeContent(c) = (a \o l) \o k
    BY <1>2 DEF EncodeContent
  <2> HIDE DEF a, l, k
  <2>3. /\ a \o l \in Seq(Byte) /\ Len(a \o l) = Len(a) + Len(l)
        /\ Holds(a \o l, 0, a) /\ Holds(a \o l, Len(a), l)
    BY <2>1, Joined
  <2> DEFINE p == a \o l
  <2> HIDE DEF p
  <2>4. /\ p \in Seq(Byte) /\ Len(p) = Width + Width /\ Holds(p, 0, a) /\ Holds(p, Width, l)
    BY <2>1, <2>3 DEF p
  <2>5. /\ p \o k \in Seq(Byte) /\ Len(p \o k) = Len(p) + Len(k) /\ Holds(p \o k, Len(p), k)
    BY <2>1, <2>4, Joined
  <2>6. Holds(p \o k, 0, a) /\ Holds(p \o k, Width, l)
    BY <2>1, <2>4, HoldsOn, Bases
  <2> DEFINE s == p \o k
  <2> HIDE DEF s
  <2>7. /\ s \in Seq(Byte) /\ Len(s) = (Width + Width) + 1 /\ Holds(s, Width + Width, k)
        /\ Holds(s, 0, a) /\ Holds(s, Width, l) /\ EncodeContent(c) = s
    BY <2>1, <2>2, <2>4, <2>5, <2>6 DEF s, p
  <2>8. s[(Width + Width) + 1] = c.checksum
    BY <2>1, <2>7 DEF Holds
  <2> QED
    BY <1>2, <2>7, <2>8 DEF CONTENT_SIZE, a, l
<1> QED
  BY <1>1, <1>2

LEMMA HoldsWithin ==
  ASSUME NEW s \in Seq(Byte), NEW t \in Seq(Byte), NEW u \in Seq(Byte), NEW o \in Nat, NEW p \in Nat,
         Holds(s, o, t), Holds(t, p, u), p + Len(u) <= Len(t)
  PROVE  Holds(s, o + p, u)
<1> SUFFICES ASSUME NEW j \in 1 .. Len(u) PROVE s[(o + p) + j] = u[j]
  BY DEF Holds
<1>1. p + j \in 1 .. Len(t) /\ (o + p) + j = o + (p + j)
  OBVIOUS
<1>2. s[o + (p + j)] = t[p + j] /\ t[p + j] = u[j]
  BY <1>1 DEF Holds
<1> QED
  BY <1>1, <1>2

LEMMA ContentIsThere ==
  ASSUME NEW c, ContentOK(c), NEW s \in Seq(Byte), NEW o \in Nat, o + CONTENT_SIZE <= Len(s),
         Holds(s, o, EncodeContent(c))
  PROVE  DecodeContent(s, o) = c
<1>1. CASE kind = "directory"
  BY <1>1 DEF DecodeContent, ContentOK
<1>2. CASE kind # "directory"
  <2> DEFINE e == EncodeContent(c)
  <2>0. CONTENT_SIZE = (Width + Width) + 1
    BY <1>2 DEF CONTENT_SIZE
  <2>1. /\ e \in Seq(Byte) /\ Len(e) = (Width + Width) + 1
        /\ Holds(e, 0, ToLeBytes(c.addr)) /\ Holds(e, Width, ToLeBytes(c.len))
        /\ e[(Width + Width) + 1] = c.checksum
        /\ o + ((Width + Width) + 1) <= Len(s)
    BY <1>2, <2>0, EncodeContentIs
  <2>2. /\ Integer(c.addr) /\ ToLeBytes(c.addr) \in Seq(Byte) /\ Len(ToLeBytes(c.addr)) = Width
        /\ Integer(c.len) /\ ToLeBytes(c.len) \in Seq(Byte) /\ Len(ToLeBytes(c.len)) = Width
    BY <1>2, ToLeBytesIs DEF ContentOK, Integer
  <2>3. Holds(s, o, ToLeBytes(c.addr)) /\ Holds(s, o + Width, ToLeBytes(c.len))
    <3> HIDE DEF e
    <3>1. Holds(s, o, e)
      BY DEF e
    <3>2. Holds(s, o + 0, ToLeBytes(c.addr)) /\ o + 0 = o
      BY <2>1, <2>2, <3>1, HoldsWithin, Bases
    <3>3. Holds(s, o + Width, ToLeBytes(c.len))
      BY <2>1, <2>2, <3>1, HoldsWithin, Bases
    <3> QED BY <3>2, <3>3
  <2>4. IntAt(s, o) = c.addr
    <3>1. o + Width <= Len(s)
      BY <2>1, Bases
    <3> QED
      BY <2>2, <2>3, <3>1, IntIsThere
  <2>5. IntAt(s, o + Width) = c.len
    BY <2>1, <2>2, <2>3, IntIsThere, Bases
  <2>6. s[o + 2 * Width + 1] = c.checksum
    <3>1. (Width + Width) + 1 \in 1 .. Len(e) /\ o + ((Width + Width) + 1) = o + 2 * Width + 1
      BY <2>1, Bases
    <3> QED
      BY <2>1, <3>1 DEF Holds
  <2> QED
    BY <1>2, <2>4, <2>5, <2>6 DEF DecodeContent, ContentOK
<1> QED
  BY <1>1, <1>2

LEMMA ContentsAgree ==
  ASSUME NEW s \in Seq(Byte), NEW t \in Seq(Byte), NEW o \in Nat,
         o + CONTENT_SIZE <= Len(s), o + CONTENT_SIZE <= Len(t),
         \A i \in o + 1 .. o + CONTENT_SIZE : s[i] = t[i]
  PROVE  DecodeContent(s, o) = DecodeContent(t, o)
<1>1. CASE kind = "directory"
  BY <1>1 DEF DecodeContent
<1>2. CASE kind # "directory"
  <2>1. CONTENT_SIZE = (Width + Width) + 1
    BY <1>2 DEF CONTENT_SIZE
  <2>2. IntAt(s, o) = IntAt(t, o)
    BY <2>1, IntsAgree, Bases
  <2>3. IntAt(s, o + Width) = IntAt(t, o + Width)
    BY <2>1, IntsAgree, Bases
  <2>4. s[o + 2 * Width + 1] = t[o + 2 * Width + 1]
    <3>1. o + 2 * Width + 1 \in o + 1 .. o + CONTENT_SIZE
      BY <2>1, Bases
    <3> QED
      BY <3>1
  <2> QED
    BY <1>2, <2>2, <2>3, <2>4 DEF DecodeContent
<1> QED
  BY <1>1, <1>2

-----------------------------------------------------------------------------
ItemOK(i) ==
  /\ i = Item(i.id, i.parent_dir, i.name, i.modif_time, i.content)
  /\ Integer(i.id) /\ i.id # 0 /\ Integer(i.parent_dir) /\ Integer(i.modif_time)
  /\ Name(i.name) /\ ContentOK(i.content)

SIZE == AFTER_NAME + Width + CONTENT_SIZE

LEMMA NamesAreShort ==
  ASSUME NEW name, Name(name)
  PROVE  /\ name \in Seq(Byte) /\ Len(name) \in 1 .. NAME_MAX
         /\ \A j \in 1 .. Len(name) : name[j] # 0
BY Offsets DEF Name, CheckValidity

\* What is where in five pieces put together.
Joint(a, b, c, d, e) == (((a \o b) \o c) \o d) \o e

LEMMA FivePieces ==
  ASSUME NEW a \in Seq(Byte), NEW b \in Seq(Byte), NEW c \in Seq(Byte), NEW d \in Seq(Byte),
         NEW e \in Seq(Byte)
  PROVE  LET s == Joint(a, b, c, d, e) IN
         /\ s \in Seq(Byte) /\ Len(s) = Len(a) + Len(b) + Len(c) + Len(d) + Len(e)
         /\ Holds(s, 0, a) /\ Holds(s, Len(a), b) /\ Holds(s, Len(a) + Len(b), c)
         /\ Holds(s, Len(a) + Len(b) + Len(c), d) /\ Holds(s, Len(a) + Len(b) + Len(c) + Len(d), e)
<1> DEFINE p == a \o b
           q == p \o c
           r == q \o d
           s == Joint(a, b, c, d, e)
<1>1. /\ Len(a) \in Nat /\ Len(b) \in Nat /\ Len(c) \in Nat /\ Len(d) \in Nat /\ Len(e) \in Nat
      /\ s = r \o e
  BY DEF Joint
<1> HIDE DEF s
<1>2. p \in Seq(Byte) /\ Len(p) = Len(a) + Len(b) /\ Holds(p, 0, a) /\ Holds(p, Len(a), b)
  BY Joined
<1> HIDE DEF p
<1>3. q \in Seq(Byte) /\ Len(q) = Len(p) + Len(c) /\ Holds(q, Len(p), c)
  BY <1>2, Joined
<1>4. Holds(q, 0, a) /\ Holds(q, Len(a), b)
  BY <1>1, <1>2, HoldsOn
<1> HIDE DEF q
<1>5. r \in Seq(Byte) /\ Len(r) = Len(q) + Len(d) /\ Holds(r, Len(q), d)
  BY <1>3, Joined
<1>6. Holds(r, 0, a) /\ Holds(r, Len(a), b) /\ Holds(r, Len(p), c)
  BY <1>1, <1>2, <1>3, <1>4, HoldsOn
<1> HIDE DEF r
<1>7. r \o e \in Seq(Byte) /\ Len(r \o e) = Len(r) + Len(e) /\ Holds(r \o e, Len(r), e)
  BY <1>5, Joined
<1>8. Holds(r \o e, 0, a) /\ Holds(r \o e, Len(a), b) /\ Holds(r \o e, Len(p), c) /\ Holds(r \o e, Len(q), d)
  BY <1>1, <1>2, <1>3, <1>5, <1>6, HoldsOn
<1> QED
  BY <1>1, <1>2, <1>3, <1>5, <1>7, <1>8 DEF s

LEMMA Layout ==
  ASSUME NEW i, Integer(i.id), Integer(i.parent_dir), Integer(i.modif_time),
         i.name \in Seq(Byte), Len(i.name) <= NAME_MAX, ContentOK(i.content)
  PROVE  LET e == Encode(i)
         IN /\ e \in Seq(Byte) /\ Len(e) = SIZE
            /\ Holds(e, 0, ToLeBytes(i.id)) /\ Holds(e, Width, ToLeBytes(i.parent_dir))
            /\ Holds(e, NAME_OFFSET_IN_ENTRY, EncodeName(i.name))
            /\ Holds(e, AFTER_NAME, ToLeBytes(i.modif_time))
            /\ Holds(e, AFTER_NAME + Width, EncodeContent(i.content))
<1> DEFINE e == Encode(i)
           a == ToLeBytes(i.id)
           b == ToLeBytes(i.parent_dir)
           c == EncodeName(i.name)
           d == ToLeBytes(i.modif_time)
           f == EncodeContent(i.content)
<1>1. /\ a \in Seq(Byte) /\ Len(a) = Width /\ b \in Seq(Byte) /\ Len(b) = Width
      /\ d \in Seq(Byte) /\ Len(d) = Width
  BY ToLeBytesIs DEF Integer
<1>2. c \in Seq(Byte) /\ Len(c) = Base
  BY EncodeNameIs
<1>3. f \in Seq(Byte) /\ Len(f) = CONTENT_SIZE
  BY EncodeContentIs
<1>4. e = Joint(a, b, c, d, f)
  BY DEF Encode, Joint
<1> HIDE DEF a, b, c, d, e, f
<1>5. LET s == Joint(a, b, c, d, f)
      IN /\ s \in Seq(Byte) /\ Len(s) = Len(a) + Len(b) + Len(c) + Len(d) + Len(f)
         /\ Holds(s, 0, a) /\ Holds(s, Len(a), b) /\ Holds(s, Len(a) + Len(b), c)
         /\ Holds(s, Len(a) + Len(b) + Len(c), d) /\ Holds(s, Len(a) + Len(b) + Len(c) + Len(d), f)
  BY <1>1, <1>2, <1>3, FivePieces
<1>6. /\ e \in Seq(Byte) /\ Len(e) = Width + Width + Base + Width + CONTENT_SIZE
      /\ Holds(e, 0, a) /\ Holds(e, Width, b) /\ Holds(e, Width + Width, c)
      /\ Holds(e, Width + Width + Base, d) /\ Holds(e, Width + Width + Base + Width, f)
  BY <1>1, <1>2, <1>3, <1>4, <1>5
<1> QED
  BY <1>6, Offsets DEF SIZE, a, b, c, d, e, f

-----------------------------------------------------------------------------
(* What opening the archive makes of a slot. *)

Slot(s) == s \in Seq(Byte) /\ Len(s) = SIZE

There(i) == i \notin {NoItem, Unreadable}

LEMMA Sizes ==
  /\ CONTENT_SIZE \in Nat /\ SIZE \in Nat /\ SIZE = AFTER_NAME + Width + CONTENT_SIZE
  /\ 0 + Width <= SIZE /\ Width + Width <= SIZE /\ AFTER_NAME <= SIZE /\ AFTER_NAME + Width <= SIZE
  /\ NAME_OFFSET_IN_ENTRY + Base <= SIZE
BY Offsets, Bases DEF SIZE, CONTENT_SIZE

LEMMA DecodeIs ==
  ASSUME NEW s, Slot(s)
  PROVE  /\ There(Decode(s)) <=> IntAt(s, 0) # 0 /\ Name(NameOf(s))
         /\ IntAt(s, 0) = 0 => Decode(s) = NoItem
         /\ There(Decode(s)) =>
              Decode(s) = Item(IntAt(s, 0), IntAt(s, Width), NameOf(s), IntAt(s, AFTER_NAME),
                               DecodeContent(s, AFTER_NAME + Width))
<1> DEFINE id == IntAt(s, 0)
           name == NameOf(s)
           it == Item(id, IntAt(s, Width), name, IntAt(s, AFTER_NAME),
                      DecodeContent(s, AFTER_NAME + Width))
<1>1. id \in Nat
  <2>1. Integer(id)
    BY IntAtIs, Sizes, Bases DEF Slot
  <2> QED
    BY <2>1 DEF Integer
<1>2. name \in Seq(Byte)
  BY NameOfIs, Sizes DEF Slot
<1>3. /\ id = 0 => Decode(s) = NoItem
      /\ id # 0 /\ ~(IsUtf8(name) /\ CheckValidity(name)) => Decode(s) = Unreadable
      /\ id # 0 /\ IsUtf8(name) /\ CheckValidity(name) => Decode(s) = it
  BY Zenon DEF Decode, NameOf
<1>4. id # 0 => it \notin {NoItem, Unreadable}
  <2>1. it.id = id /\ NoItem.id = 0 /\ Unreadable.id = -1
    BY DEF Item, NoItem, Unreadable
  <2> HIDE DEF it, id
  <2> QED
    BY <1>1, <2>1
<1> HIDE DEF it, id, name
<1>5. ~There(NoItem) /\ ~There(Unreadable)
  BY DEF There
<1>6. Name(name) <=> IsUtf8(name) /\ CheckValidity(name)
  BY <1>2 DEF Name
<1>7. There(Decode(s)) <=> id # 0 /\ Name(name)
  BY <1>3, <1>4, <1>5, <1>6 DEF There
<1> QED
  BY <1>3, <1>6, <1>7 DEF id, name, it

\* The bytes of an item that is there are those of its ID, parent and name.
LEMMA ItemThereIs ==
  ASSUME NEW s, Slot(s), NEW i, i = Decode(s), There(i)
  PROVE  /\ i = Item(i.id, i.parent_dir, i.name, i.modif_time, i.content)
         /\ i.id = IntAt(s, 0) /\ i.parent_dir = IntAt(s, Width) /\ i.name = NameOf(s)
         /\ i.modif_time = IntAt(s, AFTER_NAME) /\ i.content = DecodeContent(s, AFTER_NAME + Width)
         /\ Integer(i.id) /\ i.id # 0 /\ Integer(i.parent_dir) /\ Name(i.name)
         /\ Holds(s, 0, ToLeBytes(i.id)) /\ Holds(s, Width, ToLeBytes(i.parent_dir))
         /\ s[NAME_OFFSET_IN_ENTRY + 1] = Len(i.name) /\ Holds(s, NAME_OFFSET_IN_ENTRY + 1, i.name)
<1>1. /\ i = Item(IntAt(s, 0), IntAt(s, Width), NameOf(s), IntAt(s, AFTER_NAME),
                  DecodeContent(s, AFTER_NAME + Width))
      /\ IntAt(s, 0) # 0 /\ Name(NameOf(s))
  BY DecodeIs
<1>2. /\ i.id = IntAt(s, 0) /\ i.parent_dir = IntAt(s, Width) /\ i.name = NameOf(s)
      /\ i.modif_time = IntAt(s, AFTER_NAME) /\ i.content = DecodeContent(s, AFTER_NAME + Width)
  BY <1>1 DEF Item
<1>3. /\ Integer(IntAt(s, 0)) /\ Integer(IntAt(s, Width))
      /\ Holds(s, 0, ToLeBytes(IntAt(s, 0))) /\ Holds(s, Width, ToLeBytes(IntAt(s, Width)))
  BY IntAtIs, Sizes, Bases DEF Slot
<1>4. /\ s[NAME_OFFSET_IN_ENTRY + 1] = Len(NameOf(s))
      /\ Holds(s, NAME_OFFSET_IN_ENTRY + 1, NameOf(s))
  BY NameOfIs, Sizes DEF Slot
<1> QED
  BY <1>1, <1>2, <1>3, <1>4

LEMMA EncodedNameIs ==
  ASSUME NEW s, Slot(s), NEW name, Name(name), Holds(s, NAME_OFFSET_IN_ENTRY, EncodeName(name))
  PROVE  NameOf(s) = name
<1> DEFINE n == EncodeName(name)
           o == NAME_OFFSET_IN_ENTRY
<1>1. /\ s \in Seq(Byte) /\ Len(s) = SIZE /\ o + Base <= Len(s) /\ AFTER_NAME <= Len(s)
      /\ name \in Seq(Byte) /\ Len(name) \in Nat /\ 1 + Len(name) <= Base /\ 1 \in 1 .. Base /\ o \in Nat
  BY NamesAreShort, Offsets, Sizes, Bases DEF Slot
<1>2. n \in Seq(Byte) /\ Len(n) = Base /\ n[1] = Len(name) /\ Holds(n, 1, name)
  BY NamesAreShort, EncodeNameIs, Offsets
<1>3. Holds(s, o, n)
  OBVIOUS
<1> HIDE DEF n, o
<1>4. s[o + 1] = Len(name)
  BY <1>1, <1>2, <1>3 DEF Holds
<1>5. Holds(s, o + 1, name)
  BY <1>1, <1>2, <1>3, HoldsWithin
<1> QED
  BY <1>1, <1>4, <1>5, NameIsThere DEF o

\* What is encoded is decoded.
LEMMA DecodeEncode ==
  ASSUME NEW i, ItemOK(i)
  PROVE  Slot(Encode(i)) /\ Decode(Encode(i)) = i
<1> DEFINE e == Encode(i)
<1>1. /\ Integer(i.id) /\ i.id # 0 /\ Integer(i.parent_dir) /\ Integer(i.modif_time)
      /\ Name(i.name) /\ ContentOK(i.content)
      /\ i = Item(i.id, i.parent_dir, i.name, i.modif_time, i.content)
  BY DEF ItemOK
<1>2. i.name \in Seq(Byte) /\ Len(i.name) <= NAME_MAX
  BY <1>1, NamesAreShort, Offsets
<1>3. /\ e \in Seq(Byte) /\ Len(e) = SIZE
      /\ Holds(e, 0, ToLeBytes(i.id)) /\ Holds(e, Width, ToLeBytes(i.parent_dir))
      /\ Holds(e, NAME_OFFSET_IN_ENTRY, EncodeName(i.name))
      /\ Holds(e, AFTER_NAME, ToLeBytes(i.modif_time))
      /\ Holds(e, AFTER_NAME + Width, EncodeContent(i.content))
  BY <1>1, <1>2, Layout
<1> HIDE DEF e
<1>4. IntAt(e, 0) = i.id /\ IntAt(e, Width) = i.parent_dir /\ IntAt(e, AFTER_NAME) = i.modif_time
  BY <1>1, <1>3, IntIsThere, Sizes, Offsets, Bases
<1>5. DecodeContent(e, AFTER_NAME + Width) = i.content
  <2>1. AFTER_NAME + Width \in Nat /\ (AFTER_NAME + Width) + CONTENT_SIZE <= Len(e)
    BY <1>3, Sizes, Offsets, Bases
  <2> QED
    BY <1>1, <1>3, <2>1, ContentIsThere
<1>6. NameOf(e) = i.name
  BY <1>1, <1>3, EncodedNameIs DEF Slot
<1>7. Slot(e)
  BY <1>3 DEF Slot
<1> QED
  BY <1>1, <1>4, <1>5, <1>6, <1>7, DecodeIs DEF e

LEMMA SizeIs == kind \in {"directory", "file"} => ENTRY_SIZE = SIZE
<1> SUFFICES ASSUME kind \in {"directory", "file"} PROVE Len(Encode(NoItem)) = SIZE
  BY DEF ENTRY_SIZE
<1>1. Integer(0)
  <2>1. IntBytes([i \in 1 .. Width |-> 0])
    BY Bases DEF IntBytes, Byte
  <2> DEFINE z == [i \in 1 .. Width |-> 0]
  <2>2. \A i \in 1 .. Width : z[i] = 0
    OBVIOUS
  <2> HIDE DEF z
  <2>3. FromLeBytes(z) = 0 /\ Integer(FromLeBytes(z))
    BY <2>1, <2>2, NothingIsZero, ToFromLe DEF z
  <2> QED
    BY <2>3
<1>2. /\ NoItem.id = 0 /\ NoItem.parent_dir = 0 /\ NoItem.modif_time = 0
      /\ NoItem.name = <<>> /\ NoItem.content = NoContent
  BY DEF NoItem, Item
<1>3. ContentOK(NoContent)
  BY <1>1, Bases DEF ContentOK, NoContent, Byte
<1>4. <<>> \in Seq(Byte) /\ Len(<<>>) <= NAME_MAX
  BY Offsets
<1> QED
  BY <1>1, <1>2, <1>3, <1>4, Layout

-----------------------------------------------------------------------------
(* Writing over a slot. *)

\* t is s with the bytes of b over it, the first k of them from offset o on.
IsOver(t, s, o, b, k) ==
  /\ Slot(t)
  /\ \A i \in 1 .. SIZE : i \in o + 1 .. o + k => t[i] = b[i - o]
  /\ \A i \in 1 .. SIZE : i \notin o + 1 .. o + k => t[i] = s[i]

LEMMA OverIs ==
  ASSUME NEW s, Slot(s), NEW b \in Seq(Byte), NEW o \in Nat, o + Len(b) <= SIZE
  PROVE  IsOver(Over(s, o, b), s, o, b, Len(b))
<1> DEFINE t == Over(s, o, b)
<1>1. s \in Seq(Byte) /\ Len(s) = SIZE /\ SIZE \in Nat /\ Len(b) \in Nat /\ DOMAIN s = 1 .. SIZE
      /\ DOMAIN b = 1 .. Len(b)
  BY Sizes DEF Slot
<1>2. t = [i \in 1 .. SIZE |-> IF i - o \in 1 .. Len(b) THEN b[i - o] ELSE s[i]]
  BY <1>1 DEF Over
<1>3. \A i \in 1 .. SIZE : (i - o \in 1 .. Len(b) <=> i \in o + 1 .. o + Len(b)) /\ s[i] \in Byte
  BY <1>1
<1>4. \A j \in 1 .. Len(b) : b[j] \in Byte
  OBVIOUS
<1>5. \A i \in 1 .. SIZE : t[i] \in Byte
  BY <1>2, <1>3, <1>4
<1>6. t \in Seq(Byte) /\ Len(t) = SIZE
  <2> HIDE DEF t
  <2>1. t \in [1 .. SIZE -> Byte]
    BY <1>2, <1>5
  <2> QED
    BY <1>1, <2>1
<1> QED
  BY <1>2, <1>3, <1>6 DEF IsOver, Slot

LEMMA CutIs ==
  ASSUME NEW s, Slot(s), NEW b \in Seq(Byte), NEW o \in Nat, o + Len(b) <= SIZE, NEW k \in 0 .. Len(b)
  PROVE  IsOver(Over(s, o, SubSeq(b, 1, k)), s, o, b, k)
<1> DEFINE c == SubSeq(b, 1, k)
<1>1. c \in Seq(Byte) /\ Len(c) = k /\ \A j \in 1 .. k : c[j] = b[j]
  OBVIOUS
<1> HIDE DEF c
<1>2. IsOver(Over(s, o, c), s, o, c, k)
  BY <1>1, OverIs, Sizes
<1>3. \A i \in 1 .. SIZE : i \in o + 1 .. o + k => c[i - o] = b[i - o]
  BY <1>1, Sizes
<1> QED
  BY <1>2, <1>3 DEF IsOver, c

LEMMA HoldsOver ==
  ASSUME NEW t, NEW s, NEW o \in Nat, NEW b \in Seq(Byte), o + Len(b) <= SIZE,
         IsOver(t, s, o, b, Len(b))
  PROVE  Holds(t, o, b)
<1> SUFFICES ASSUME NEW j \in 1 .. Len(b) PROVE t[o + j] = b[j]
  BY DEF Holds
<1>1. o + j \in 1 .. SIZE /\ o + j \in o + 1 .. o + Len(b) /\ (o + j) - o = j
  BY Sizes
<1> QED
  BY <1>1 DEF IsOver

\* Nothing but the name changed.
LEMMA NameChanged ==
  ASSUME NEW s, Slot(s), NEW old, old = Decode(s), There(old), NEW t, Slot(t), NEW i, i = Decode(t),
         \A j \in 1 .. SIZE :
           j \notin NAME_OFFSET_IN_ENTRY + 1 .. NAME_OFFSET_IN_ENTRY + Base => t[j] = s[j]
  PROVE  /\ There(i) <=> Name(NameOf(t))
         /\ There(i) => i = Item(old.id, old.parent_dir, NameOf(t), old.modif_time, old.content)
<1>1. /\ s \in Seq(Byte) /\ t \in Seq(Byte) /\ Len(s) = SIZE /\ Len(t) = SIZE
  BY DEF Slot
<1>2. /\ old.id = IntAt(s, 0) /\ old.id # 0 /\ old.parent_dir = IntAt(s, Width)
      /\ old.modif_time = IntAt(s, AFTER_NAME) /\ old.content = DecodeContent(s, AFTER_NAME + Width)
  BY ItemThereIs
<1>3. IntAt(t, 0) = IntAt(s, 0)
  <2>1. \A j \in 0 + 1 .. 0 + Width : t[j] = s[j]
    BY Offsets, Sizes, Bases
  <2> QED
    BY <1>1, <2>1, IntsAgree, Sizes
<1>4. IntAt(t, Width) = IntAt(s, Width)
  <2>1. \A j \in Width + 1 .. Width + Width : t[j] = s[j]
    BY Offsets, Sizes, Bases
  <2> QED
    BY <1>1, <2>1, IntsAgree, Sizes, Bases
<1>5. IntAt(t, AFTER_NAME) = IntAt(s, AFTER_NAME)
  <2>1. \A j \in AFTER_NAME + 1 .. AFTER_NAME + Width : t[j] = s[j]
    BY Offsets, Sizes, Bases
  <2> QED
    BY <1>1, <2>1, IntsAgree, Sizes, Offsets
<1>6. DecodeContent(t, AFTER_NAME + Width) = DecodeContent(s, AFTER_NAME + Width)
  <2> DEFINE o == AFTER_NAME + Width
  <2>1. o \in Nat /\ o + CONTENT_SIZE <= SIZE /\ \A j \in o + 1 .. o + CONTENT_SIZE : t[j] = s[j]
    BY Offsets, Sizes, Bases
  <2> HIDE DEF o
  <2>2. DecodeContent(t, o) = DecodeContent(s, o)
    BY <1>1, <2>1, ContentsAgree
  <2> QED
    BY <2>2 DEF o
<1> QED
  BY <1>2, <1>3, <1>4, <1>5, <1>6, DecodeIs

\* Nothing but the ID changed.
LEMMA IdChanged ==
  ASSUME NEW s, Slot(s), NEW old, old = Decode(s), There(old), NEW t, Slot(t), There(Decode(t)),
         \A j \in 1 .. SIZE : j > Width => t[j] = s[j]
  PROVE  LET i == Decode(t)
         IN i = Item(i.id, old.parent_dir, old.name, old.modif_time, old.content)
<1>1. /\ s \in Seq(Byte) /\ t \in Seq(Byte) /\ Len(s) = SIZE /\ Len(t) = SIZE
  BY DEF Slot
<1>2. /\ old.parent_dir = IntAt(s, Width) /\ old.name = NameOf(s)
      /\ old.modif_time = IntAt(s, AFTER_NAME) /\ old.content = DecodeContent(s, AFTER_NAME + Width)
  BY ItemThereIs
<1>3. IntAt(t, Width) = IntAt(s, Width)
  <2>1. \A j \in Width + 1 .. Width + Width : t[j] = s[j]
    BY Offsets, Sizes, Bases
  <2> QED
    BY <1>1, <2>1, IntsAgree, Sizes, Bases
<1>4. NameOf(t) = NameOf(s)
  <2> DEFINE o == NAME_OFFSET_IN_ENTRY + 1
  <2>1. s[o] \in 0 .. NAME_MAX
    BY <1>1, NameOfIs, Sizes
  <2>2. \A j \in o .. o + s[o] : s[j] = t[j]
    <3>1. PICK len \in 0 .. NAME_MAX : len = s[o]
      BY <2>1
    <3>2. \A j \in o .. o + len : j \in 1 .. SIZE /\ j > Width
      BY <3>1, Offsets, Sizes, Bases
    <3> QED
      BY <3>1, <3>2
  <2> QED
    BY <1>1, <2>2, NamesAgree, Sizes
<1>5. IntAt(t, AFTER_NAME) = IntAt(s, AFTER_NAME)
  <2>1. \A j \in AFTER_NAME + 1 .. AFTER_NAME + Width : t[j] = s[j]
    BY Offsets, Sizes, Bases
  <2> QED
    BY <1>1, <2>1, IntsAgree, Sizes, Offsets
<1>6. DecodeContent(t, AFTER_NAME + Width) = DecodeContent(s, AFTER_NAME + Width)
  <2> DEFINE o == AFTER_NAME + Width
  <2>1. o \in Nat /\ o + CONTENT_SIZE <= SIZE /\ \A j \in o + 1 .. o + CONTENT_SIZE : t[j] = s[j]
    BY Offsets, Sizes, Bases
  <2> HIDE DEF o
  <2>2. DecodeContent(t, o) = DecodeContent(s, o)
    BY <1>1, <2>1, ContentsAgree
  <2> QED
    BY <2>2 DEF o
<1>7. Decode(t) = Item(IntAt(t, 0), IntAt(t, Width), NameOf(t), IntAt(t, AFTER_NAME),
                       DecodeContent(t, AFTER_NAME + Width))
      /\ Decode(t).id = IntAt(t, 0)
  BY DecodeIs, ItemThereIs
<1> QED
  BY <1>2, <1>3, <1>4, <1>5, <1>6, <1>7

\* The beginning of the slot did not change, up to the end of the name.
LEMMA BeginningKept ==
  ASSUME NEW s, Slot(s), NEW old, old = Decode(s), There(old), NEW t, Slot(t), NEW i, i = Decode(t),
         \A j \in 1 .. NAME_OFFSET_IN_ENTRY + 1 + Len(old.name) : t[j] = s[j]
  PROVE  There(i) /\ i = Item(old.id, old.parent_dir, old.name, i.modif_time, i.content)
<1>1. /\ s \in Seq(Byte) /\ t \in Seq(Byte) /\ Len(s) = SIZE /\ Len(t) = SIZE
  BY DEF Slot
<1>2. /\ old.id = IntAt(s, 0) /\ old.id # 0 /\ old.parent_dir = IntAt(s, Width)
      /\ old.name = NameOf(s) /\ Name(old.name) /\ s[NAME_OFFSET_IN_ENTRY + 1] = Len(old.name)
  BY ItemThereIs
<1>3. Len(old.name) \in Nat /\ Len(old.name) <= NAME_MAX
  BY <1>2, NamesAreShort, Offsets
<1>4. \A j \in 1 .. Width + Width : t[j] = s[j]
  <2>1. PICK len \in Nat : len = Len(old.name)
    BY <1>3
  <2>2. \A j \in 1 .. Width + Width + 1 + len : t[j] = s[j]
    BY <2>1, Offsets
  <2> QED
    BY <2>2, Bases
<1>5. IntAt(t, 0) = IntAt(s, 0)
  <2>1. \A j \in 0 + 1 .. 0 + Width : t[j] = s[j]
    BY <1>4, Bases
  <2> QED
    BY <1>1, <2>1, IntsAgree, Sizes
<1>6. IntAt(t, Width) = IntAt(s, Width)
  <2>1. \A j \in Width + 1 .. Width + Width : t[j] = s[j]
    BY <1>4, Bases
  <2> QED
    BY <1>1, <2>1, IntsAgree, Sizes, Bases
<1>7. NameOf(t) = NameOf(s)
  <2> DEFINE o == NAME_OFFSET_IN_ENTRY + 1
  <2>1. \A j \in o .. o + s[o] : s[j] = t[j]
    BY <1>2, <1>3, Offsets
  <2> QED
    BY <1>1, <2>1, NamesAgree, Sizes
<1>8. There(i)
  BY <1>2, <1>5, <1>7, DecodeIs
<1> QED
  BY <1>2, <1>5, <1>6, <1>7, <1>8, ItemThereIs

\* A creation over nothing but zeros, cut off.
LEMMA CutCreation ==
  ASSUME NEW new, ItemOK(new), NEW s, Slot(s), \A j \in 1 .. SIZE : s[j] = 0,
         NEW k \in 0 .. SIZE, NEW t, IsOver(t, s, 0, Encode(new), k), There(Decode(t))
  PROVE  LET i == Decode(t)
         IN i.id = new.id /\ i.parent_dir = new.parent_dir /\ i.name = new.name
<1> DEFINE i == Decode(t)
           e == Encode(new)
           o == NAME_OFFSET_IN_ENTRY + 1
           len == Len(i.name)
<1>1. /\ Slot(t) /\ Slot(e) /\ Decode(e) = new
      /\ \A j \in 1 .. SIZE : j <= k => t[j] = e[j]
      /\ \A j \in 1 .. SIZE : j > k => t[j] = 0
  <2>1. \A j \in 1 .. SIZE : (j \in 0 + 1 .. 0 + k <=> j <= k) /\ j - 0 = j
    BY Sizes
  <2> QED
    BY <2>1, DecodeEncode, Sizes DEF IsOver
<1>2. There(new)
  <2>1. new.id # 0 /\ new.id \in Nat
    BY DEF ItemOK, Integer
  <2>2. NoItem.id = 0 /\ Unreadable.id = -1
    BY DEF NoItem, Unreadable, Item
  <2> QED
    BY <2>1, <2>2 DEF There
<1>3. Name(i.name) /\ t[o] = len /\ Holds(t, o, i.name)
  BY <1>1, ItemThereIs
<1>4. len \in 1 .. NAME_MAX /\ \A j \in 1 .. len : i.name[j] # 0
  BY <1>3, NamesAreShort
<1> HIDE DEF i, e, len
<1>5. o \in Nat /\ o + len <= SIZE /\ o \in 1 .. SIZE /\ o = Width + Width + 1
  BY <1>4, Offsets, Sizes, Bases
<1> HIDE DEF o
<1>6. o + len <= k
  <2>1. o + len \in 1 .. SIZE /\ len \in 1 .. len
    BY <1>4, <1>5, Sizes
  <2>2. t[o + len] = i.name[len]
    BY <1>3, <1>4, <2>1 DEF Holds, len
  <2>3. t[o + len] # 0
    BY <1>4, <2>1, <2>2
  <2> QED
    BY <1>1, <1>4, <1>5, <2>1, <2>3, Sizes
<1>7. /\ new.id = IntAt(e, 0) /\ new.parent_dir = IntAt(e, Width) /\ new.name = NameOf(e)
      /\ i.id = IntAt(t, 0) /\ i.parent_dir = IntAt(t, Width) /\ i.name = NameOf(t)
  BY <1>1, <1>2, ItemThereIs DEF i
<1>8. /\ t \in Seq(Byte) /\ e \in Seq(Byte) /\ Len(t) = SIZE /\ Len(e) = SIZE
      /\ \A j \in 1 .. o + len : t[j] = e[j]
  BY <1>1, <1>4, <1>5, <1>6, Sizes DEF Slot
<1>9. IntAt(t, 0) = IntAt(e, 0)
  <2>1. \A j \in 0 + 1 .. 0 + Width : t[j] = e[j]
    BY <1>4, <1>5, <1>8, Bases
  <2> QED
    BY <1>8, <2>1, IntsAgree, Sizes
<1>10. IntAt(t, Width) = IntAt(e, Width)
  <2>1. \A j \in Width + 1 .. Width + Width : t[j] = e[j]
    BY <1>4, <1>5, <1>8, Bases
  <2> QED
    BY <1>8, <2>1, IntsAgree, Sizes, Bases
<1>11. NameOf(t) = NameOf(e)
  <2>1. \A j \in o .. o + t[o] : t[j] = e[j]
    BY <1>3, <1>4, <1>5, <1>8
  <2> QED
    BY <1>8, <2>1, NamesAgree, Sizes DEF o
<1> QED
  BY <1>7, <1>9, <1>10, <1>11 DEF i

-----------------------------------------------------------------------------
(* The slot and the item in memory, through all operations and crashes. *)

NoOther(op, old, new, clean, i) ==
  There(i) =>
    /\ op = "create" /\ clean =>
         i.id = new.id /\ i.parent_dir = new.parent_dir /\ i.name = new.name
    /\ op = "rename" => i = Item(old.id, old.parent_dir, i.name, old.modif_time, old.content)
    /\ op = "replace" => i = Item(old.id, old.parent_dir, old.name, i.modif_time, i.content)
    /\ op = "remove" => i = Item(i.id, old.parent_dir, old.name, old.modif_time, old.content)

Torn(op, old, new, clean) == [op |-> op, old |-> old, new |-> new, clean |-> clean]

EntryInv ==
  /\ kind \in {"directory", "file"}
  /\ Slot(slot) /\ item = Decode(slot)
  /\ torn = Torn(torn.op, torn.old, torn.new, torn.clean)
  /\ NoOther(torn.op, torn.old, torn.new, torn.clean, item)

LEMMA KindStays ==
  ASSUME kind' = kind, NEW s
  PROVE  /\ Slot(s)' <=> Slot(s)
         /\ Decode(s)' = Decode(s)
<1>1. \A o : DecodeContent(s, o)' = DecodeContent(s, o)
  BY DEF DecodeContent
<1>2. Decode(s)' = Decode(s)
  BY <1>1 DEF Decode
<1>3. Slot(s)' <=> Slot(s)
  BY DEF Slot, SIZE, CONTENT_SIZE
<1> QED
  BY <1>2, <1>3

LEMMA WriteKeeps ==
  ASSUME EntryInv, NEW op, NEW new, NEW o, o \in Nat, NEW b, b \in Seq(Byte), o + Len(b) <= SIZE,
         Write(op, new, o, b),
         Decode(Over(slot, o, b)) = new,
         \A k \in 0 .. Len(b) :
           NoOther(op, item, new, slot = Zeros(ENTRY_SIZE), Decode(Over(slot, o, SubSeq(b, 1, k))))
  PROVE  EntryInv'
<1>1. Slot(slot) /\ kind \in {"directory", "file"}
  BY DEF EntryInv
<1>2. ASSUME NEW s, slot' = s, kind' = kind, Slot(s), item' = Decode(s),
             torn' = Torn(torn'.op, torn'.old, torn'.new, torn'.clean),
             NoOther(torn'.op, torn'.old, torn'.new, torn'.clean, item')
      PROVE  EntryInv'
  <2>1. Slot(s)' /\ Decode(s)' = Decode(s)
    BY <1>2, KindStays
  <2>2. Slot(slot)' /\ item' = Decode(slot)'
    BY <1>2, <2>1
  <2>3. NoOther(torn.op, torn.old, torn.new, torn.clean, item)'
    BY <1>2 DEF NoOther, There
  <2>4. (torn = Torn(torn.op, torn.old, torn.new, torn.clean))'
    BY <1>2 DEF Torn
  <2>5. kind' \in {"directory", "file"}
    BY <1>1, <1>2
  <2> QED
    BY <2>2, <2>3, <2>4, <2>5 DEF EntryInv
<1>3. CASE /\ slot' = Over(slot, o, b)
           /\ item' = new
           /\ torn' = [torn EXCEPT !.op = "none"]
           /\ UNCHANGED <<kind, crashes>>
  <2>1. torn' = Torn("none", torn.old, torn.new, torn.clean)
    <3>1. torn = Torn(torn.op, torn.old, torn.new, torn.clean)
      BY DEF EntryInv
    <3> QED
      BY <1>3, <3>1 DEF Torn
  <2>2. /\ torn'.op = "none" /\ torn' = Torn(torn'.op, torn'.old, torn'.new, torn'.clean)
    BY <2>1 DEF Torn
  <2>3. PICK s : s = Over(slot, o, b)
    OBVIOUS
  <2>4. Slot(s)
    BY <1>1, <2>3, OverIs DEF IsOver
  <2>5. NoOther(torn'.op, torn'.old, torn'.new, torn'.clean, item')
    BY <2>2 DEF NoOther
  <2> QED
    BY <1>2, <1>3, <2>2, <2>3, <2>4, <2>5
<1>4. ASSUME NEW k \in 0 .. Len(b),
             slot' = Over(slot, o, SubSeq(b, 1, k)),
             item' = Decode(slot'),
             torn' = [op |-> op, old |-> item, new |-> new, clean |-> slot = Zeros(ENTRY_SIZE)],
             kind' = kind
      PROVE  EntryInv'
  <2>1. /\ torn'.op = op /\ torn'.old = item /\ torn'.new = new
        /\ torn'.clean = (slot = Zeros(ENTRY_SIZE))
        /\ torn' = Torn(torn'.op, torn'.old, torn'.new, torn'.clean)
    BY <1>4 DEF Torn
  <2>2. PICK s : s = Over(slot, o, SubSeq(b, 1, k))
    OBVIOUS
  <2>3. Slot(s)
    BY <1>1, <2>2, CutIs DEF IsOver
  <2>4. item' = Decode(s)
    BY <1>4, <2>2
  <2>5. NoOther(op, item, new, slot = Zeros(ENTRY_SIZE), Decode(s))
    BY <2>2
  <2>6. NoOther(torn'.op, torn'.old, torn'.new, torn'.clean, item')
    BY <2>1, <2>4, <2>5
  <2> QED
    BY <1>2, <1>4, <2>1, <2>2, <2>3, <2>4, <2>6
<1> QED
  BY <1>3, <1>4 DEF Write

LEMMA EntryInvInit == EntryInit => EntryInv
<1> SUFFICES ASSUME EntryInit PROVE EntryInv
  OBVIOUS
<1>1. kind \in {"directory", "file"} /\ slot = Zeros(SIZE) /\ item = NoItem
  BY SizeIs DEF EntryInit
<1>2. Slot(slot) /\ \A j \in 1 .. SIZE : slot[j] = 0
  <2>1. SIZE \in Nat /\ 0 \in Byte
    BY Sizes, Bases DEF Byte
  <2>2. slot = [j \in 1 .. SIZE |-> 0]
    BY <1>1 DEF Zeros
  <2> QED
    BY <2>1, <2>2 DEF Slot
<1>3. Decode(slot) = NoItem
  <2>1. \A j \in 1 .. Width : slot[0 + j] = 0
    BY <1>2, Sizes, Bases
  <2>2. IntAt(slot, 0) = 0
    BY <1>2, <2>1, IntAtIs, Sizes DEF Slot
  <2> QED
    BY <1>2, <2>2, DecodeIs
<1>4. torn = Torn("none", NoItem, NoItem, TRUE)
  BY DEF EntryInit, Torn
<1>5. torn.op = "none" /\ torn = Torn(torn.op, torn.old, torn.new, torn.clean)
  BY <1>4 DEF Torn
<1> QED
  BY <1>1, <1>2, <1>3, <1>5 DEF EntryInv, NoOther

LEMMA WholeOver ==
  ASSUME NEW s, NEW e, Slot(e), NEW t, IsOver(t, s, 0, e, SIZE)
  PROVE  t = e
<1>1. /\ t \in Seq(Byte) /\ e \in Seq(Byte) /\ Len(t) = SIZE /\ Len(e) = SIZE
  BY DEF IsOver, Slot
<1>2. \A j \in 1 .. SIZE : t[j] = e[j]
  <2>1. \A j \in 1 .. SIZE : j \in 0 + 1 .. 0 + SIZE /\ j - 0 = j
    BY Sizes
  <2> QED
    BY <2>1 DEF IsOver
<1> QED
  BY <1>1, <1>2

LEMMA CreateKeeps == EntryInv /\ Create => EntryInv'
<1> SUFFICES ASSUME EntryInv, Create PROVE EntryInv'
  OBVIOUS
<1>1. PICK id \in NewIds, parent_dir \in ParentDirs, name \in NewNames, time \in Times, c \in Contents :
        LET new == Item(id, parent_dir, name, time, IF kind = "directory" THEN NoContent ELSE c)
        IN Write("create", new, 0, Encode(new))
  BY Zenon DEF Create
<1> DEFINE content == IF kind = "directory" THEN NoContent ELSE c
           new == Item(id, parent_dir, name, time, content)
           e == Encode(new)
<1>2. ItemOK(new)
  <2>1. ContentOK(content)
    BY EntryAssumption DEF ContentOK
  <2>2. /\ Integer(id) /\ id # 0 /\ Integer(parent_dir) /\ Integer(time) /\ Name(name)
    BY EntryAssumption DEF Name
  <2>3. /\ new.id = id /\ new.parent_dir = parent_dir /\ new.name = name /\ new.modif_time = time
        /\ new.content = content
    BY DEF Item
  <2> HIDE DEF content
  <2> QED
    BY <2>1, <2>2, <2>3 DEF ItemOK
<1>3. Slot(e) /\ Decode(e) = new /\ Slot(slot) /\ kind \in {"directory", "file"}
  BY <1>2, DecodeEncode DEF EntryInv
<1>4. Write("create", new, 0, e)
  BY <1>1
<1> HIDE DEF content, new
<1>5. e \in Seq(Byte) /\ Len(e) = SIZE /\ 0 + Len(e) <= SIZE /\ SIZE \in Nat
  BY <1>3, Sizes DEF Slot
<1>6. Decode(Over(slot, 0, e)) = new
  BY <1>3, <1>5, OverIs, WholeOver
<1>7. ASSUME NEW k \in 0 .. Len(e)
      PROVE  NoOther("create", item, new, slot = Zeros(ENTRY_SIZE), Decode(Over(slot, 0, SubSeq(e, 1, k))))
  <2> DEFINE t == Over(slot, 0, SubSeq(e, 1, k))
  <2>1. IsOver(t, slot, 0, e, k)
    BY <1>3, <1>5, CutIs
  <2> HIDE DEF t
  <2>2. ASSUME slot = Zeros(ENTRY_SIZE), There(Decode(t))
        PROVE  LET i == Decode(t)
               IN i.id = new.id /\ i.parent_dir = new.parent_dir /\ i.name = new.name
    <3>1. \A j \in 1 .. SIZE : slot[j] = 0
      BY <1>3, <2>2, SizeIs DEF Zeros
    <3>2. k \in 0 .. SIZE
      BY <1>5, <1>7
    <3> QED
      BY <1>2, <1>3, <2>1, <2>2, <3>1, <3>2, CutCreation
  <2>3. NoOther("create", item, new, slot = Zeros(ENTRY_SIZE), Decode(t))
    BY <2>2 DEF NoOther
  <2> QED
    BY <2>3 DEF t
<1> HIDE DEF e
<1> QED
  BY <1>4, <1>5, <1>6, <1>7, WriteKeeps

\* Two slots with one ID, parent and name are the same up to the name's end.
LEMMA SameBeginning ==
  ASSUME NEW s, Slot(s), There(Decode(s)), NEW t, Slot(t), There(Decode(t)),
         Decode(s).id = Decode(t).id, Decode(s).parent_dir = Decode(t).parent_dir,
         Decode(s).name = Decode(t).name,
         NEW j \in 1 .. NAME_OFFSET_IN_ENTRY + 1 + Len(Decode(s).name)
  PROVE  s[j] = t[j]
<1> DEFINE id == Decode(s).id
           parent_dir == Decode(s).parent_dir
           name == Decode(s).name
           o == NAME_OFFSET_IN_ENTRY + 1
           len == Len(name)
<1>1. /\ Integer(id) /\ Integer(parent_dir) /\ Name(name)
      /\ Holds(s, 0, ToLeBytes(id)) /\ Holds(s, Width, ToLeBytes(parent_dir))
      /\ s[o] = Len(name) /\ Holds(s, o, name)
  BY ItemThereIs
<1>2. /\ Holds(t, 0, ToLeBytes(id)) /\ Holds(t, Width, ToLeBytes(parent_dir))
      /\ t[o] = Len(name) /\ Holds(t, o, name)
  BY ItemThereIs
<1>3. Len(ToLeBytes(id)) = Width /\ Len(ToLeBytes(parent_dir)) = Width
  BY <1>1, ToLeBytesIs DEF Integer
<1>4. len \in Nat
  BY <1>1, NamesAreShort
<1>5. o = Width + Width + 1 /\ j \in 1 .. o + len
  BY Offsets
<1> HIDE DEF id, parent_dir, name, o, len
<1>6. CASE j \in 1 .. Width
  <2>1. 0 + j = j
    BY <1>6, Bases
  <2> QED
    BY <1>1, <1>2, <1>3, <1>6, <2>1 DEF Holds
<1>7. CASE j \in Width + 1 .. Width + Width
  <2>1. j - Width \in 1 .. Width /\ Width + (j - Width) = j
    BY <1>7, Bases
  <2>2. s[Width + (j - Width)] = ToLeBytes(parent_dir)[j - Width]
    BY <1>1, <1>3, <2>1 DEF Holds
  <2>3. t[Width + (j - Width)] = ToLeBytes(parent_dir)[j - Width]
    BY <1>2, <1>3, <2>1 DEF Holds
  <2> QED
    BY <2>1, <2>2, <2>3
<1>8. CASE j = o
  BY <1>1, <1>2, <1>8
<1>9. CASE j \in o + 1 .. o + len
  <2>1. j - o \in 1 .. Len(name) /\ o + (j - o) = j
    BY <1>4, <1>5, <1>9, Bases DEF len
  <2>2. s[o + (j - o)] = name[j - o] /\ t[o + (j - o)] = name[j - o]
    BY <1>1, <1>2, <2>1 DEF Holds
  <2> QED
    BY <2>1, <2>2
<1> QED
  BY <1>4, <1>5, <1>6, <1>7, <1>8, <1>9, Bases

LEMMA ReplaceKeeps == EntryInv /\ ReplaceFileContent => EntryInv'
<1> SUFFICES ASSUME EntryInv, ReplaceFileContent PROVE EntryInv'
  OBVIOUS
<1>1. PICK time \in Times, c \in Contents :
        LET new == Item(item.id, item.parent_dir, item.name, time, c)
        IN Write("replace", new, 0, Encode(new))
  BY Zenon DEF ReplaceFileContent
<1> DEFINE new == Item(item.id, item.parent_dir, item.name, time, c)
           e == Encode(new)
<1>2. /\ There(item) /\ kind = "file" /\ Slot(slot) /\ item = Decode(slot)
  BY DEF ReplaceFileContent, IsThere, There, EntryInv
<1>3. /\ Integer(item.id) /\ item.id # 0 /\ Integer(item.parent_dir) /\ Name(item.name)
  BY <1>2, ItemThereIs
<1>4. /\ new.id = item.id /\ new.parent_dir = item.parent_dir /\ new.name = item.name
      /\ new.modif_time = time /\ new.content = c
  BY DEF Item
<1>5. ItemOK(new)
  <2>1. ContentOK(c) /\ Integer(time)
    BY <1>2, EntryAssumption DEF ContentOK
  <2> QED
    BY <1>3, <1>4, <2>1 DEF ItemOK
<1>6. Slot(e) /\ Decode(e) = new
  BY <1>5, DecodeEncode
<1>7. Write("replace", new, 0, e)
  BY <1>1
<1>8. There(new)
  <2>1. new.id # 0 /\ new.id \in Nat /\ NoItem.id = 0 /\ Unreadable.id = -1
    BY <1>3, <1>4 DEF Integer, NoItem, Unreadable, Item
  <2> QED
    BY <2>1 DEF There
<1> HIDE DEF new
<1>9. e \in Seq(Byte) /\ Len(e) = SIZE /\ 0 + Len(e) <= SIZE /\ SIZE \in Nat
  BY <1>6, Sizes DEF Slot
<1>10. Decode(Over(slot, 0, e)) = new
  BY <1>2, <1>6, <1>9, OverIs, WholeOver
<1>11. ASSUME NEW k \in 0 .. Len(e)
       PROVE  NoOther("replace", item, new, slot = Zeros(ENTRY_SIZE), Decode(Over(slot, 0, SubSeq(e, 1, k))))
  <2> DEFINE t == Over(slot, 0, SubSeq(e, 1, k))
  <2>1. IsOver(t, slot, 0, e, k)
    BY <1>2, <1>9, CutIs
  <2> HIDE DEF t, e
  <2>2. \A j \in 1 .. NAME_OFFSET_IN_ENTRY + 1 + Len(item.name) : t[j] = slot[j]
    <3> SUFFICES ASSUME NEW j \in 1 .. NAME_OFFSET_IN_ENTRY + 1 + Len(item.name)
                 PROVE  t[j] = slot[j]
      OBVIOUS
    <3>1. slot[j] = e[j]
      BY <1>2, <1>4, <1>6, <1>8, SameBeginning
    <3>2. j \in 1 .. SIZE
      <4>1. PICK len \in 1 .. NAME_MAX : len = Len(item.name)
        BY <1>3, NamesAreShort
      <4>2. j \in Nat /\ 1 <= j /\ j <= NAME_OFFSET_IN_ENTRY + 1 + len
        BY <4>1, Offsets
      <4>3. len \in Nat /\ len <= Base - 1
        BY <4>1, Offsets, Bases
      <4>4. NAME_OFFSET_IN_ENTRY + 1 + len <= AFTER_NAME
        BY <4>3, Offsets, Bases
      <4> QED
        BY <4>2, <4>3, <4>4, Offsets, Sizes
    <3>3. t[j] = e[j - 0] \/ t[j] = slot[j]
      BY <2>1, <3>2 DEF IsOver
    <3> QED
      BY <3>1, <3>2, <3>3
  <2>3. LET i == Decode(t)
        IN There(i) /\ i = Item(item.id, item.parent_dir, item.name, i.modif_time, i.content)
    BY <1>2, <2>1, <2>2, BeginningKept DEF IsOver
  <2>4. NoOther("replace", item, new, slot = Zeros(ENTRY_SIZE), Decode(t))
    BY <2>3 DEF NoOther
  <2> QED
    BY <2>4 DEF t
<1> HIDE DEF e
<1> QED
  BY <1>7, <1>9, <1>10, <1>11, WriteKeeps

LEMMA RenameKeeps == EntryInv /\ Rename => EntryInv'
<1> SUFFICES ASSUME EntryInv, Rename PROVE EntryInv'
  OBVIOUS
<1>1. PICK name \in NewNames :
        LET new == Item(item.id, item.parent_dir, name, item.modif_time, item.content)
        IN Write("rename", new, NAME_OFFSET_IN_ENTRY, EncodeName(name))
  BY Zenon DEF Rename, NameWritten
<1> DEFINE new == Item(item.id, item.parent_dir, name, item.modif_time, item.content)
           n == EncodeName(name)
           o == NAME_OFFSET_IN_ENTRY
<1>2. /\ There(item) /\ Slot(slot) /\ item = Decode(slot)
  BY DEF Rename, IsThere, There, EntryInv
<1>3. Name(name)
  BY EntryAssumption DEF Name
<1>4. n \in Seq(Byte) /\ Len(n) = Base /\ o \in Nat /\ o + Len(n) <= SIZE
  BY <1>3, NamesAreShort, EncodeNameIs, Offsets, Sizes
<1>5. Write("rename", new, o, n)
  BY <1>1
<1> HIDE DEF n
<1>6. ASSUME NEW k \in 0 .. Len(n), NEW t, IsOver(t, slot, o, n, k)
      PROVE  /\ Slot(t) /\ (There(Decode(t)) <=> Name(NameOf(t)))
             /\ There(Decode(t)) =>
                  Decode(t) = Item(item.id, item.parent_dir, NameOf(t), item.modif_time, item.content)
  <2>1. \A j \in 1 .. SIZE : j \notin o + 1 .. o + Base => t[j] = slot[j]
    <3>1. \A j \in 1 .. SIZE : j \in o + 1 .. o + k => j \in o + 1 .. o + Base
      BY <1>4, <1>6
    <3> QED
      BY <1>6, <3>1 DEF IsOver
  <2>2. Slot(t)
    BY <1>6 DEF IsOver
  <2> QED
    BY <1>2, <2>1, <2>2, NameChanged
<1>7. Decode(Over(slot, o, n)) = new
  <2> DEFINE t == Over(slot, o, n)
  <2>1. IsOver(t, slot, o, n, Len(n)) /\ Len(n) \in 0 .. Len(n)
    BY <1>2, <1>4, OverIs
  <2> HIDE DEF t
  <2>2. Holds(t, o, n) /\ Slot(t)
    BY <1>4, <1>6, <2>1, HoldsOver
  <2>3. NameOf(t) = name
    BY <1>3, <2>2, EncodedNameIs DEF n
  <2> QED
    BY <1>3, <1>6, <2>1, <2>3 DEF t
<1>8. ASSUME NEW k \in 0 .. Len(n)
      PROVE  NoOther("rename", item, new, slot = Zeros(ENTRY_SIZE), Decode(Over(slot, o, SubSeq(n, 1, k))))
  <2> DEFINE t == Over(slot, o, SubSeq(n, 1, k))
             i == Decode(t)
  <2>1. IsOver(t, slot, o, n, k)
    BY <1>2, <1>4, CutIs
  <2> HIDE DEF t
  <2>2. There(i) => i.name = NameOf(t)
    BY <1>6, <2>1, ItemThereIs
  <2>3. There(i) => i = Item(item.id, item.parent_dir, i.name, item.modif_time, item.content)
    BY <1>6, <2>1, <2>2
  <2>4. NoOther("rename", item, new, slot = Zeros(ENTRY_SIZE), Decode(t))
    BY <2>3 DEF NoOther
  <2> QED
    BY <2>4 DEF t
<1> HIDE DEF new
<1> QED
  BY <1>4, <1>5, <1>7, <1>8, WriteKeeps
LEMMA RemoveKeeps == EntryInv /\ RemoveItem => EntryInv'
<1> SUFFICES ASSUME EntryInv, RemoveItem PROVE EntryInv'
  OBVIOUS
<1> DEFINE b == Zeros(ENTRY_SIZE)
<1>1. /\ There(item) /\ Slot(slot) /\ item = Decode(slot) /\ Write("remove", NoItem, 0, b)
  BY DEF RemoveItem, IsThere, There, EntryInv
<1>2. /\ b \in Seq(Byte) /\ Len(b) = SIZE /\ 0 + Len(b) <= SIZE /\ SIZE \in Nat
      /\ \A j \in 1 .. SIZE : b[j] = 0
  <2>1. b = [j \in 1 .. SIZE |-> 0]
    BY SizeIs, <1>1 DEF Zeros, EntryInv
  <2>2. 0 \in Byte /\ SIZE \in Nat
    BY Bases, Sizes DEF Byte
  <2> HIDE DEF b
  <2> QED
    BY <2>1, <2>2
<1> HIDE DEF b
<1>3. ASSUME NEW k \in 0 .. SIZE, NEW t, IsOver(t, slot, 0, b, k), Width <= k
      PROVE  Decode(t) = NoItem
  <2>1. t \in Seq(Byte) /\ Len(t) = SIZE /\ Slot(t)
    BY <1>3 DEF IsOver, Slot
  <2>2. \A j \in 1 .. Width : t[0 + j] = 0
    <3>1. \A j \in 1 .. Width : j \in 1 .. SIZE /\ j \in 0 + 1 .. 0 + k /\ j - 0 = j /\ 0 + j = j
      BY <1>3, Bases, Sizes
    <3> QED
      BY <1>2, <1>3, <3>1 DEF IsOver
  <2>3. IntAt(t, 0) = 0
    BY <2>1, <2>2, IntAtIs, Sizes
  <2> QED
    BY <2>1, <2>3, DecodeIs
<1>4. ASSUME NEW k \in 0 .. SIZE, NEW t, IsOver(t, slot, 0, b, k), k < Width, There(Decode(t))
      PROVE  LET i == Decode(t)
             IN i = Item(i.id, item.parent_dir, item.name, item.modif_time, item.content)
  <2>1. \A j \in 1 .. SIZE : j > Width => t[j] = slot[j]
    <3>1. \A j \in 1 .. SIZE : j > Width => j \notin 0 + 1 .. 0 + k
      BY <1>4, Bases
    <3> QED
      BY <1>4, <3>1 DEF IsOver
  <2>2. Slot(t)
    BY <1>4 DEF IsOver
  <2> QED
    BY <1>1, <1>4, <2>1, <2>2, IdChanged
<1>5. Decode(Over(slot, 0, b)) = NoItem
  <2> DEFINE t == Over(slot, 0, b)
  <2>1. IsOver(t, slot, 0, b, Len(b)) /\ Len(b) \in 0 .. SIZE /\ Width <= Len(b)
    BY <1>1, <1>2, OverIs, Sizes, Bases
  <2> HIDE DEF t
  <2>2. Decode(t) = NoItem
    BY <1>3, <2>1
  <2> QED
    BY <2>2 DEF t
<1>6. ASSUME NEW k \in 0 .. Len(b)
      PROVE  NoOther("remove", item, NoItem, slot = Zeros(ENTRY_SIZE), Decode(Over(slot, 0, SubSeq(b, 1, k))))
  <2> DEFINE t == Over(slot, 0, SubSeq(b, 1, k))
             i == Decode(t)
  <2>1. IsOver(t, slot, 0, b, k) /\ k \in 0 .. SIZE
    BY <1>1, <1>2, CutIs
  <2> HIDE DEF t
  <2>2. There(i) => i = Item(i.id, item.parent_dir, item.name, item.modif_time, item.content)
    <3>1. CASE Width <= k
      BY <1>3, <2>1, <3>1 DEF There
    <3>2. CASE k < Width
      BY <1>4, <2>1, <3>2
    <3> QED
      BY <2>1, <3>1, <3>2, Bases
  <2>3. NoOther("remove", item, NoItem, slot = Zeros(ENTRY_SIZE), i)
    BY <2>2 DEF NoOther
  <2> QED
    BY <2>3 DEF t
<1> QED
  BY <1>1, <1>2, <1>5, <1>6, WriteKeeps

LEMMA EntryStep == EntryInv /\ [EntryNext]_entry_vars => EntryInv'
<1> SUFFICES ASSUME EntryInv, [EntryNext]_entry_vars PROVE EntryInv'
  OBVIOUS
<1>1. CASE UNCHANGED entry_vars
  <2>1. kind' = kind /\ slot' = slot /\ item' = item /\ torn' = torn
    BY <1>1 DEF entry_vars
  <2>2. Slot(slot)' /\ Decode(slot)' = Decode(slot)
    <3>1. PICK s : s = slot
      OBVIOUS
    <3>2. (Slot(s)' <=> Slot(s)) /\ Decode(s)' = Decode(s)
      BY <2>1, KindStays
    <3>3. Slot(s)
      BY <3>1 DEF EntryInv
    <3>4. Slot(slot)' <=> Slot(s)'
      BY <2>1, <3>1
    <3>5. Decode(slot)' = Decode(s)'
      BY <2>1, <3>1
    <3> QED
      BY <3>1, <3>2, <3>3, <3>4, <3>5
  <2>3. NoOther(torn.op, torn.old, torn.new, torn.clean, item)'
    BY <2>1 DEF EntryInv, NoOther, There
  <2>4. (torn = Torn(torn.op, torn.old, torn.new, torn.clean))'
    BY <2>1 DEF EntryInv, Torn
  <2> QED
    BY <2>1, <2>2, <2>3, <2>4 DEF EntryInv
<1> QED
  BY <1>1, CreateKeeps, ReplaceKeeps, RenameKeeps, RemoveKeeps DEF EntryNext

LEMMA EntryAlwaysInv == EntrySpec => []EntryInv
<1> QED
  BY EntryInvInit, EntryStep, PTL DEF EntrySpec

(***************************************************************************)
(* However its names, numbers and crashes are chosen, what an archive has  *)
(* in memory is what opening it would find: every number and every name    *)
(* that fits comes back as it was written, and no bytes left behind by an  *)
(* item that was in the slot before, or by a write cut off, show.          *)
(***************************************************************************)
THEOREM EntryOpensRight == EntrySpec => []OpensToWhatItHas
<1>1. EntryInv => OpensToWhatItHas
  BY DEF EntryInv, OpensToWhatItHas
<1> QED
  BY <1>1, EntryAlwaysInv, PTL

(***************************************************************************)
(* However wide the numbers and long the names are, a write to the slot    *)
(* cut off after any of its bytes leaves no item that nobody made.         *)
(***************************************************************************)
THEOREM TornEntriesAreNoOther == EntrySpec => []TornWritesMakeNoOther
<1>1. EntryInv => TornWritesMakeNoOther
  BY DEF EntryInv, TornWritesMakeNoOther, NoOther, There, IsThere
<1> QED
  BY <1>1, EntryAlwaysInv, PTL
=============================================================================
