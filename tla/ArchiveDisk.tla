---------------------------- MODULE ArchiveDisk -----------------------------
(***************************************************************************)
(* An archive and the device under it.  Every operation is the sequence of *)
(* writes the code makes, in its order; a crash keeps a prefix of them and *)
(* the archive is then opened from what the device holds.                  *)
(*                                                                         *)
(* A unit of the device is one field of an entry or one chunk of content,  *)
(* so sizes are small numbers: a segment's header has three fields (next   *)
(* segment, number of directories, number of files), a directory entry     *)
(* three (ID, parent, name), a file entry six (and address, length and     *)
(* checksum).  A zero is a zeroed field.                                   *)
(*                                                                         *)
(* A write of new entries reaches the device whole or not at all (Entry    *)
(* looks inside); every other write can stop after any of its fields.      *)
(***************************************************************************)
EXTENDS Archive

CONSTANT Chunks   \* content -> the sequence of its chunks

ASSUME ChunksAssumption ==
  \A c \in Contents : Chunks[c] = [i \in 1 .. ContentLen[c] |-> Chunks[c][i]]
ASSUME FieldsAssumption ==
  /\ SEGMENT_HEADER_SIZE = 3
  /\ DIRECTORY_ENTRY_SIZE = 3
  /\ FILE_ENTRY_SIZE = 6

VARIABLE disk   \* address -> field or chunk

disk_vars == <<vars, disk>>

Header == [i \in 1 .. HEADER_SIZE |-> "header"]

DeviceLen(d) == Cardinality(DOMAIN d)

-----------------------------------------------------------------------------
(* Encoding and decoding *)

EncodeDir(dir) == <<dir.id, dir.parent_dir, dir.name>>

EncodeFile(file) ==
  <<file.id, file.parent_dir, file.name,
    file.content_addr, file.content_len, file.sha3_checksum>>

Zeros(n) == [i \in 1 .. n |-> 0]

\* Only segments without entries are ever encoded.
EncodeSegment(segment) ==
  <<segment.next_segment_addr, Len(segment.dirs), Len(segment.files)>>
    \o Zeros(EncodedLen(segment) - SEGMENT_HEADER_SIZE)

\* An entry that starts with a zero is an empty slot, whatever follows.
DecodeDir(d, a) ==
  IF d[a] = 0 THEN None
  ELSE [id |-> d[a], parent_dir |-> d[a + 1], name |-> d[a + 2]]

DecodeFile(d, a) ==
  IF d[a] = 0 THEN None
  ELSE [id |-> d[a], parent_dir |-> d[a + 1], name |-> d[a + 2],
        content_addr |-> d[a + 3], content_len |-> d[a + 4], sha3_checksum |-> d[a + 5]]

DecodeSegment(d, a) ==
  LET dirs_start  == a + SEGMENT_HEADER_SIZE
      files_start == dirs_start + d[a + 1] * DIRECTORY_ENTRY_SIZE
  IN  [next_segment_addr |-> d[a],
       dirs  |-> [j \in 1 .. d[a + 1] |->
                    DecodeDir(d, dirs_start + (j - 1) * DIRECTORY_ENTRY_SIZE)],
       files |-> [j \in 1 .. d[a + 2] |->
                    DecodeFile(d, files_start + (j - 1) * FILE_ENTRY_SIZE)]]

NextAddr(segs) == segs[Len(segs)].next_segment_addr

\* The segments are read one after the other, following the links.
DecodeTable(d) ==
  LET first[n \in Nat] ==
        IF n <= 1 THEN <<DecodeSegment(d, HEADER_SIZE)>>
        ELSE LET before == first[n - 1]
             IN  IF NextAddr(before) = 0 THEN before
                 ELSE Append(before, DecodeSegment(d, NextAddr(before)))
  IN  first[CHOOSE n \in 1 .. DeviceLen(d) : NextAddr(first[n]) = 0]

\* What reading a file and verifying its checksum gives.
Intact(d, file) ==
  LET zone == file.content_addr .. (file.content_addr + file.content_len - 1)
  IN  /\ zone \subseteq DOMAIN d
      /\ \E c \in Contents :
           /\ c = file.sha3_checksum
           /\ Chunks[c] = [i \in 1 .. file.content_len |-> d[file.content_addr + i - 1]]

-----------------------------------------------------------------------------
(* The writes of each operation *)

\* A write that reaches the device whole or not at all, and one that can stop
\* after any of its fields.
Whole(addr, fields)    == [addr |-> addr, fields |-> fields, whole |-> TRUE]
OneByOne(addr, fields) == [addr |-> addr, fields |-> fields, whole |-> FALSE]

\* A write past the end of the device fills the gap with zeros.
WriteTo(d, w) ==
  LET end == w.addr + Len(w.fields)
  IN  [a \in DOMAIN d \cup (IF w.fields = <<>> THEN {} ELSE 0 .. end - 1) |->
         IF a \in w.addr .. end - 1 THEN w.fields[a - w.addr + 1]
         ELSE IF a \in DOMAIN d THEN d[a] ELSE 0]

\* The device after each of the writes.
Devices(d, writes) ==
  LET after[i \in 0 .. Len(writes)] ==
        IF i = 0 THEN d ELSE WriteTo(after[i - 1], writes[i])
  IN  after

Apply(d, writes) == Devices(d, writes)[Len(writes)]

\* What a write that is cut off can leave.
CutOff(d, w) ==
  {WriteTo(d, [w EXCEPT !.fields = SubSeq(@, 1, k)]) :
     k \in IF w.whole THEN {0, Len(w.fields)} ELSE 0 .. Len(w.fields)}

RoomWrites_NotLinked(full) ==
  IF full
  THEN <<OneByOne(AddrFor(coverage, EncodedLen(NewSegment)), EncodeSegment(NewSegment))>>
  ELSE <<>>

\* create_segment: the segment itself first, then the link to it.
RoomWrites(full) ==
  LET addr == AddrFor(coverage, EncodedLen(NewSegment))
  IN  IF full
      THEN <<OneByOne(addr, EncodeSegment(NewSegment)),
             Whole(SegmentAddr(file_segments, Len(file_segments)), <<addr>>)>>
      ELSE <<>>

CreateDirWrites(parent_dir, name) ==
  RoomWrites(DirsFull) \o
    <<Whole(DirEntryAddr(DirRoom.file_segments, NewDirSlot), EncodeDir(NewDir(parent_dir, name)))>>

CreateFileWrites_EntryFirst(parent_dir, name, content) ==
  LET file == NewFile(parent_dir, name, content)
  IN  RoomWrites(FilesFull) \o
        <<Whole(FileEntryAddr(FileRoom.file_segments, NewFileSlot), EncodeFile(file)),
          OneByOne(file.content_addr, Chunks[content])>>

\* create_file: the content before the entry that refers to it.
CreateFileWrites(parent_dir, name, content) ==
  LET file == NewFile(parent_dir, name, content)
  IN  RoomWrites(FilesFull) \o
        <<OneByOne(file.content_addr, Chunks[content]),
          Whole(FileEntryAddr(FileRoom.file_segments, NewFileSlot), EncodeFile(file))>>

ReplaceFileContentWrites(id, content) ==
  <<OneByOne(NewAddr(id, content), Chunks[content]),
    Whole(FileEntryAddr(file_segments, SlotOfFile(file_segments, id)),
          EncodeFile(ReplacedFile(id, content)))>>

\* The name is the third field of either entry.
RenameDirectoryWrites(id, new_name) ==
  <<Whole(DirEntryAddr(file_segments, SlotOfDir(file_segments, id)) + 2, <<new_name>>)>>

RenameFileWrites_WrongField(id, new_name) ==
  <<Whole(FileEntryAddr(file_segments, SlotOfFile(file_segments, id)) + 1, <<new_name>>)>>

RenameFileWrites(id, new_name) ==
  <<Whole(FileEntryAddr(file_segments, SlotOfFile(file_segments, id)) + 2, <<new_name>>)>>

RemoveFileWrites_IdLast(id) ==
  LET addr == FileEntryAddr(file_segments, SlotOfFile(file_segments, id))
  IN  <<OneByOne(addr + 1, Zeros(FILE_ENTRY_SIZE - 1)), OneByOne(addr, Zeros(1))>>

RemoveFileWrites(id) ==
  <<OneByOne(FileEntryAddr(file_segments, SlotOfFile(file_segments, id)), Zeros(FILE_ENTRY_SIZE))>>

\* The entries remove_dir zeroes, for a set of items.
ZeroEntries(d, gone_dirs, gone_files) ==
  LET segs == file_segments
      DirZone(id)  == LET a == DirEntryAddr(segs, SlotOfDir(segs, id))
                      IN  a .. a + DIRECTORY_ENTRY_SIZE - 1
      FileZone(id) == LET a == FileEntryAddr(segs, SlotOfFile(segs, id))
                      IN  a .. a + FILE_ENTRY_SIZE - 1
      zeroed == UNION ({DirZone(id) : id \in gone_dirs} \cup {FileZone(id) : id \in gone_files})
  IN  [a \in DOMAIN d |-> IF a \in zeroed THEN 0 ELSE d[a]]

-----------------------------------------------------------------------------
(* Operations on the archive and its device *)

\* Archive::create writes the header and the first segment.
CreatedDisk ==
  WriteTo(<<>>, OneByOne(0, Header \o
                            EncodeSegment(EmptySegment(FirstDirsCapacity, FirstFilesCapacity))))

DiskInit == Init /\ disk = CreatedDisk

DiskOperation ==
  \/ \E p \in DOMAIN dirs_content, n \in Names :
       CreateDir(p, n) /\ disk' = Apply(disk, CreateDirWrites(p, n))
  \/ \E p \in DOMAIN dirs_content, n \in Names, c \in Contents :
       CreateFile(p, n, c) /\ disk' = Apply(disk, CreateFileWrites(p, n, c))
  \/ \E id \in DOMAIN files, c \in Contents :
       ReplaceFileContent(id, c) /\ disk' = Apply(disk, ReplaceFileContentWrites(id, c))
  \/ \E id \in DOMAIN dirs, n \in Names :
       RenameDirectory(id, n) /\ disk' = Apply(disk, RenameDirectoryWrites(id, n))
  \/ \E id \in DOMAIN files, n \in Names :
       RenameFile(id, n) /\ disk' = Apply(disk, RenameFileWrites(id, n))
  \/ \E id \in DOMAIN dirs :
       /\ RemoveDir(id)
       /\ disk' = ZeroEntries(disk, Subtree(id), FilesUnder(Subtree(id)))
  \/ \E id \in DOMAIN files :
       RemoveFile(id) /\ disk' = Apply(disk, RemoveFileWrites(id))

OpenDisk(d) ==
  /\ disk' = d
  /\ Open(DecodeTable(d), DeviceLen(d))

\* Some of the writes reach the device, then the archive is opened again.
CrashDuring(writes) ==
  \E d \in UNION {CutOff(Devices(disk, writes)[i - 1], writes[i]) : i \in DOMAIN writes} :
    OpenDisk(d)

\* Creation cut off: the archive opens once all its entries have an ID, since
\* the rest of an empty slot is skipped, not read.  One cut off before is not
\* an archive yet.
CrashInCreation ==
  /\ disk = CreatedDisk
  /\ \E len \in FileEntryAddr(file_segments, <<1, FirstFilesCapacity>>) + 1 .. DeviceLen(disk) :
       OpenDisk([a \in 0 .. len - 1 |-> disk[a]])

CrashInRemoveDir(id) ==
  \E gone_dirs \in SUBSET Subtree(id), gone_files \in SUBSET FilesUnder(Subtree(id)) :
    /\ RemovedSoFar(id, gone_dirs, gone_files)
    /\ OpenDisk(ZeroEntries(disk, gone_dirs, gone_files))

Crash ==
  \/ \E p \in DOMAIN dirs_content, n \in Names :
       /\ NameIsFree(p, n)
       /\ DirRoom.source_len <= MaxSourceLen
       /\ next_id < MaxId
       /\ CrashDuring(CreateDirWrites(p, n))
  \/ \E p \in DOMAIN dirs_content, n \in Names, c \in Contents :
       /\ NameIsFree(p, n)
       /\ SourceLenWith(c) <= MaxSourceLen
       /\ next_id < MaxId
       /\ CrashDuring(CreateFileWrites(p, n, c))
  \/ \E id \in DOMAIN files, c \in Contents :
       /\ NewAddr(id, c) + ContentLen[c] <= MaxSourceLen
       /\ CrashDuring(ReplaceFileContentWrites(id, c))
  \/ \E id \in DOMAIN files : CrashDuring(RemoveFileWrites(id))
  \/ \E id \in DOMAIN dirs : CrashInRemoveDir(id)
  \/ CrashInCreation

DiskNext == DiskOperation \/ Crash

DiskSpec == DiskInit /\ [][DiskNext]_disk_vars

-----------------------------------------------------------------------------
(***************************************************************************)
(* What the device holds is what the archive believes: it decodes to the   *)
(* table in memory, and is exactly as long as source_len says.             *)
(***************************************************************************)
DiskHoldsTheTable ==
  /\ DOMAIN disk = 0 .. source_len - 1
  /\ DecodeTable(disk) = file_segments

\* The tree one gets from a table by reading every file on the device.
TreeOf(segs, d) ==
  [id \in {x.id : x \in DirsIn(segs) \cup FilesIn(segs)} |->
     IF id \in DOMAIN DirsOf(segs)
     THEN LET dir == DirsOf(segs)[id]
          IN  [kind |-> "dir", parent_dir |-> dir.parent_dir, name |-> dir.name]
     ELSE LET file == FilesOf(segs)[id]
          IN  [kind |-> "file", parent_dir |-> file.parent_dir, name |-> file.name,
               content |-> IF Intact(d, file) THEN file.sha3_checksum ELSE "damaged"]]

=============================================================================
