------------------------------ MODULE Archive -------------------------------
(***************************************************************************)
(* An open archive (crate-lib/src/archive.rs): the chain of file table     *)
(* segments, the index built from it, the coverage, and every operation    *)
(* that changes them, with the I/O errors that can end one halfway.        *)
(* file_segments stands for the table in memory and on the device at once: *)
(* the code updates an entry in memory right after it wrote it;            *)
(* ArchiveDisk models the device and checks that the two agree.            *)
(* Left out: modification times, and the bytes of names and contents (a    *)
(* content is its own checksum).                                           *)
(* The variants with a bug (see Coverage) carry an underscore here too.    *)
(***************************************************************************)
EXTENDS Coverage, Integers, Sequences, Functions

CONSTANTS
  Names,                  \* item names (ItemName)
  Contents, ContentLen,   \* file contents and their lengths
  None,                   \* an empty slot of a file table segment
  MaxId,                  \* the last ID (u64::MAX in the code)
  MaxSourceLen,           \* bound: the device's capacity
  HEADER_SIZE, SEGMENT_HEADER_SIZE, DIRECTORY_ENTRY_SIZE, FILE_ENTRY_SIZE,
  FirstDirsCapacity, FirstFilesCapacity,   \* ArchiveConfig, first segment
  DirsCapacity, FilesCapacity              \* ArchiveConfig, other segments

Root == 0   \* DirectoryIdOrRoot::Root, as it is encoded

Ids        == 1 .. MaxId
ParentIds  == Ids \cup {Root}
Directory  == [id : Ids, parent_dir : ParentIds, name : Names]
File       == [id : Ids, parent_dir : ParentIds, name : Names,
               content_addr : Nat, content_len : Nat, sha3_checksum : Contents]
DirContent == [dirs : SUBSET Ids, files : SUBSET Ids, names : SUBSET Names]

\* A next_segment_addr of 0 is None, as it is encoded.
FileTableSegment ==
  [next_segment_addr : Nat,
   dirs  : Seq(Directory \cup {None}),
   files : Seq(File \cup {None})]

ASSUME ContentsAssumption == ContentLen \in [Contents -> Nat]
ASSUME NoneAssumption     == None \notin Directory \cup File
ASSUME BoundsAssumption   == MaxId \in Nat \ {0} /\ MaxSourceLen \in Nat
ASSUME LayoutAssumption ==
  {HEADER_SIZE, SEGMENT_HEADER_SIZE, DIRECTORY_ENTRY_SIZE, FILE_ENTRY_SIZE,
   FirstDirsCapacity, FirstFilesCapacity, DirsCapacity, FilesCapacity} \subseteq Nat \ {0}

VARIABLES
  file_segments,   \* the chain of file table segments, in order
  dirs,            \* DirectoryId -> Directory
  files,           \* FileId -> File
  dirs_content,    \* DirectoryIdOrRoot -> DirContent
  coverage,        \* used and free space
  next_id,         \* the next ID to give out
  source_len       \* length of the device behind Archive.source

table == <<file_segments, coverage, source_len>>
index == <<dirs, files, dirs_content>>
vars  == <<file_segments, dirs, files, dirs_content, coverage, next_id, source_len>>

-----------------------------------------------------------------------------
(* File table segments *)

EmptySegment(dirs_count, files_count) ==
  [next_segment_addr |-> 0,
   dirs  |-> [i \in 1 .. dirs_count |-> None],
   files |-> [i \in 1 .. files_count |-> None]]

EncodedLen(segment) ==
  SEGMENT_HEADER_SIZE + Len(segment.dirs) * DIRECTORY_ENTRY_SIZE
                      + Len(segment.files) * FILE_ENTRY_SIZE

SegmentAddr(segs, i) == IF i = 1 THEN HEADER_SIZE ELSE segs[i - 1].next_segment_addr

DirSlots(segs)  == UNION {{<<i, j>> : j \in DOMAIN segs[i].dirs}  : i \in DOMAIN segs}
FileSlots(segs) == UNION {{<<i, j>> : j \in DOMAIN segs[i].files} : i \in DOMAIN segs}

DirAt(segs, at)  == segs[at[1]].dirs[at[2]]
FileAt(segs, at) == segs[at[1]].files[at[2]]

FreeDirSlots(segs)  == {at \in DirSlots(segs)  : DirAt(segs, at) = None}
FreeFileSlots(segs) == {at \in FileSlots(segs) : FileAt(segs, at) = None}

\* The directories and the files the table holds.
DirsIn(segs)  == {DirAt(segs, at)  : at \in DirSlots(segs)  \ FreeDirSlots(segs)}
FilesIn(segs) == {FileAt(segs, at) : at \in FileSlots(segs) \ FreeFileSlots(segs)}

\* The last segment with a free slot, and the last free slot in it.
LastSlot(slots) ==
  CHOOSE at \in slots :
    \A x \in slots \ {at} : x[1] < at[1] \/ (x[1] = at[1] /\ x[2] < at[2])

PutDir(segs, at, dir)   == [segs EXCEPT ![at[1]].dirs[at[2]] = dir]
PutFile(segs, at, file) == [segs EXCEPT ![at[1]].files[at[2]] = file]

\* get_item_entry: the slot that holds an item.
SlotOfDir(segs, id)  ==
  CHOOSE at \in DirSlots(segs)  \ FreeDirSlots(segs)  : DirAt(segs, at).id = id
SlotOfFile(segs, id) ==
  CHOOSE at \in FileSlots(segs) \ FreeFileSlots(segs) : FileAt(segs, at).id = id

\* Where the entry in a slot is on the device.
DirEntryAddr(segs, at) ==
  SegmentAddr(segs, at[1]) + SEGMENT_HEADER_SIZE + (at[2] - 1) * DIRECTORY_ENTRY_SIZE

FileEntryAddr(segs, at) ==
  SegmentAddr(segs, at[1]) + SEGMENT_HEADER_SIZE
    + Len(segs[at[1]].dirs) * DIRECTORY_ENTRY_SIZE + (at[2] - 1) * FILE_ENTRY_SIZE

\* The slots of the given items zeroed.
Cleared(slots, gone) ==
  [j \in DOMAIN slots |->
     IF slots[j] # None /\ slots[j].id \in gone THEN None ELSE slots[j]]

ClearEntries(segs, gone_dirs, gone_files) ==
  [i \in DOMAIN segs |->
     [segs[i] EXCEPT !.dirs = Cleared(@, gone_dirs), !.files = Cleared(@, gone_files)]]

Extent(file) == Segment(file.content_addr, file.content_len)

-----------------------------------------------------------------------------
(* Opening: what Archive::open makes of the table it decoded *)

\* check_file_table_correctness, the part that can refuse.  File IDs are
\* compared within one parent directory only.
TableIsCorrect(segs) ==
  LET ds == DirSlots(segs)  \ FreeDirSlots(segs)
      fs == FileSlots(segs) \ FreeFileSlots(segs)
      dir(at)  == DirAt(segs, at)
      file(at) == FileAt(segs, at)
      SameEntry(x, y) == x.parent_dir = y.parent_dir /\ x.name = y.name
  IN  /\ \A p, q \in ds : p # q => dir(p).id # dir(q).id /\ ~SameEntry(dir(p), dir(q))
      /\ \A p, q \in fs :
           p # q => /\ ~SameEntry(file(p), file(q))
                    /\ ~(file(p).parent_dir = file(q).parent_dir /\ file(p).id = file(q).id)
      /\ \A p \in ds : \A q \in fs : ~SameEntry(dir(p), file(q))

DirsOf(segs) ==
  [id \in {d.id : d \in DirsIn(segs)} |-> CHOOSE d \in DirsIn(segs) : d.id = id]

FilesOf(segs) ==
  [id \in {f.id : f \in FilesIn(segs)} |-> CHOOSE f \in FilesIn(segs) : f.id = id]

\* A parent no entry defines gets a listing all the same (or_default).
DirsContentOf(segs) ==
  LET items   == DirsIn(segs) \cup FilesIn(segs)
      listed  == {Root} \cup {d.id : d \in DirsIn(segs)} \cup {x.parent_dir : x \in items}
  IN  [p \in listed |->
         [dirs  |-> {d.id : d \in {x \in DirsIn(segs)  : x.parent_dir = p}},
          files |-> {f.id : f \in {x \in FilesIn(segs) : x.parent_dir = p}},
          names |-> {x.name : x \in {y \in items : y.parent_dir = p}}]]

(***************************************************************************)
(* compute_coverage marks the header, then each segment followed by its    *)
(* files; the marks are named by their place in that order.                *)
(***************************************************************************)
Marks(segs) == {<<0, 0>>} \cup {<<i, 0>> : i \in DOMAIN segs}
                          \cup (FileSlots(segs) \ FreeFileSlots(segs))

MarkedZone(segs, m) ==
  IF m = <<0, 0>> THEN Segment(0, HEADER_SIZE)
  ELSE IF m[2] = 0 THEN Segment(SegmentAddr(segs, m[1]), EncodedLen(segs[m[1]]))
  ELSE Extent(FileAt(segs, m))

CoverageOfMarks(segs, marks, len) ==
  [len |-> len,
   segments |-> {z \in {MarkedZone(segs, m) : m \in marks} : z.len > 0}]

OpenCoverage(segs, len) == CoverageOfMarks(segs, Marks(segs), len)

OpenAsserts(segs, len) ==
  \A m \in Marks(segs) :
    LET before == {x \in Marks(segs) : x[1] < m[1] \/ (x[1] = m[1] /\ x[2] < m[2])}
        zone   == MarkedZone(segs, m)
    IN  MarkAsUsedAsserts(CoverageOfMarks(segs, before, len), zone.start, zone.len)

OpenNextId_OfDirs(segs) ==
  LET used == {d.id : d \in DirsIn(segs)}
  IN  CHOOSE n \in 1 .. (MaxId + 1) : (\A id \in used : id < n) /\ (n > 1 => n - 1 \in used)

\* The ID after the greatest one in use, 1 when there is none.
OpenNextId(segs) ==
  LET used == {x.id : x \in DirsIn(segs) \cup FilesIn(segs)}
  IN  CHOOSE n \in 1 .. (MaxId + 1) :
        /\ \A id \in used : id < n
        /\ n > 1 => n - 1 \in used

-----------------------------------------------------------------------------
(* Making room for an entry: get_addr_for_item_insert and create_segment *)

NewSegment == EmptySegment(DirsCapacity, FilesCapacity)

\* The new segment is written wherever there is space for it, then linked
\* from the last one.
WithNewSegment(segs, addr) ==
  Append([segs EXCEPT ![Len(segs)].next_segment_addr = addr], NewSegment)

\* The table, coverage and device once there is room; "full" says that no
\* slot of the wanted kind is free.
Room(full) ==
  LET len  == EncodedLen(NewSegment)
      addr == AddrFor(coverage, len)
  IN  IF full
      THEN [file_segments |-> WithNewSegment(file_segments, addr),
            coverage      |-> CoverageAfterWrite(coverage, source_len, len),
            source_len    |-> SourceLenAfter(source_len, addr, len)]
      ELSE [file_segments |-> file_segments, coverage |-> coverage, source_len |-> source_len]

\* The slot an entry goes to: the first one of a segment just created.
SlotIn(room, free_slots, full) ==
  IF full THEN <<Len(room.file_segments), 1>> ELSE LastSlot(free_slots)

DirsFull  == FreeDirSlots(file_segments) = {}
FilesFull == FreeFileSlots(file_segments) = {}

DirRoom  == Room(DirsFull)
FileRoom == Room(FilesFull)

\* ensure_no_duplicate_name returns Ok.
NameIsFree(parent_dir, name) ==
  /\ parent_dir \in DOMAIN dirs_content
  /\ name \notin dirs_content[parent_dir].names

TakeId_TooLate == next_id <= MaxId /\ next_id' = next_id + 1

\* The ID is taken before the entry is written; expect("ID overflow").
TakeId == next_id < MaxId /\ next_id' = next_id + 1

Extend(f, x, y) == [z \in DOMAIN f \cup {x} |-> IF z = x THEN y ELSE f[z]]

-----------------------------------------------------------------------------
(* Operations that succeed *)

\* The entry create_dir writes, and where.
NewDir(parent_dir, name) == [id |-> next_id, parent_dir |-> parent_dir, name |-> name]

NewDirSlot == SlotIn(DirRoom, FreeDirSlots(file_segments), DirsFull)

CreateDir(parent_dir, name) ==
  LET listed  == [dirs_content[parent_dir] EXCEPT !.names = @ \cup {name},
                                                  !.dirs  = @ \cup {next_id}]
      listing == [dirs_content EXCEPT ![parent_dir] = listed]
  IN  /\ NameIsFree(parent_dir, name)
      /\ DirRoom.source_len <= MaxSourceLen
      /\ TakeId
      /\ file_segments' = PutDir(DirRoom.file_segments, NewDirSlot, NewDir(parent_dir, name))
      /\ dirs' = Extend(dirs, next_id, NewDir(parent_dir, name))
      /\ dirs_content' = Extend(listing, next_id, [dirs |-> {}, files |-> {}, names |-> {}])
      /\ coverage' = DirRoom.coverage
      /\ source_len' = DirRoom.source_len
      /\ UNCHANGED files

\* The entry create_file writes once the content is written, and where.
NewFile(parent_dir, name, content) ==
  [id |-> next_id, parent_dir |-> parent_dir, name |-> name,
   content_addr |-> AddrFor(FileRoom.coverage, ContentLen[content]),
   content_len |-> ContentLen[content], sha3_checksum |-> content]

NewFileSlot == SlotIn(FileRoom, FreeFileSlots(file_segments), FilesFull)

\* The device's length and the coverage once the content is written as well.
SourceLenWith(content) ==
  LET len == ContentLen[content]
  IN  SourceLenAfter(FileRoom.source_len, AddrFor(FileRoom.coverage, len), len)

CoverageWith_StaleCoverage(content) ==
  CoverageAfterWrite(coverage, FileRoom.source_len, ContentLen[content])

CoverageWith(content) ==
  CoverageAfterWrite(FileRoom.coverage, FileRoom.source_len, ContentLen[content])

\* Its entry lengthens the device when it goes to the last slot of a table that
\* the device ends in (ArchiveDisk, a creation cut off).
SourceLenWithEntry(content) ==
  SourceLenAfter(SourceLenWith(content), FileEntryAddr(FileRoom.file_segments, NewFileSlot),
                 FILE_ENTRY_SIZE)

CreateFile(parent_dir, name, content) ==
  LET file   == NewFile(parent_dir, name, content)
      listed == [dirs_content[parent_dir] EXCEPT !.names = @ \cup {name},
                                                 !.files = @ \cup {next_id}]
  IN  /\ NameIsFree(parent_dir, name)
      /\ SourceLenWith(content) <= MaxSourceLen
      /\ TakeId
      /\ file_segments' = PutFile(FileRoom.file_segments, NewFileSlot, file)
      /\ files' = Extend(files, next_id, file)
      /\ dirs_content' = [dirs_content EXCEPT ![parent_dir] = listed]
      /\ coverage' = CoverageWith(content)
      /\ source_len' = SourceLenWithEntry(content)
      /\ UNCHANGED dirs

CoverageToReplace_NotFreed(id) == coverage

\* The old content's zone is released before the new content is placed.
CoverageToReplace(id) == MarkAsFree(coverage, Extent(files[id]))

NewAddr(id, content) == AddrFor(CoverageToReplace(id), ContentLen[content])

ReplacedFile_OldAddr(id, content) ==
  [files[id] EXCEPT !.content_len = ContentLen[content], !.sha3_checksum = content]

ReplacedFile(id, content) ==
  [files[id] EXCEPT !.content_addr = NewAddr(id, content),
                    !.content_len = ContentLen[content], !.sha3_checksum = content]

\* The content is written and its zone recorded.
RewriteContent(id, content) ==
  LET len == ContentLen[content]
  IN  /\ source_len' = SourceLenAfter(source_len, NewAddr(id, content), len)
      /\ source_len' <= MaxSourceLen
      /\ coverage' = CoverageAfterWrite(CoverageToReplace(id), source_len, len)

ReplaceFileContent(id, content) ==
  /\ id \in DOMAIN files
  /\ RewriteContent(id, content)
  /\ files' = [files EXCEPT ![id] = ReplacedFile(id, content)]
  /\ file_segments' = PutFile(file_segments, SlotOfFile(file_segments, id), files'[id])
  /\ UNCHANGED <<dirs, dirs_content, next_id>>

RenameIn_KeepsOldName(parent_dir, old_name, new_name) ==
  [dirs_content EXCEPT ![parent_dir].names = @ \cup {new_name}]

RenameIn_DropsNewName(parent_dir, old_name, new_name) ==
  [dirs_content EXCEPT ![parent_dir].names = @ \ {old_name}]

\* The listings after a rename.
RenameIn(parent_dir, old_name, new_name) ==
  [dirs_content EXCEPT ![parent_dir].names = (@ \ {old_name}) \cup {new_name}]

RenameDirectory(id, new_name) ==
  LET dir == dirs[id]
  IN  /\ id \in DOMAIN dirs
      /\ NameIsFree(dir.parent_dir, new_name)
      /\ LET at == SlotOfDir(file_segments, id)
         IN  file_segments' = PutDir(file_segments, at,
                                     [DirAt(file_segments, at) EXCEPT !.name = new_name])
      /\ dirs' = [dirs EXCEPT ![id].name = new_name]
      /\ dirs_content' = RenameIn(dir.parent_dir, dir.name, new_name)
      /\ UNCHANGED <<files, coverage, next_id, source_len>>

RenameFile(id, new_name) ==
  LET file == files[id]
  IN  /\ id \in DOMAIN files
      /\ NameIsFree(file.parent_dir, new_name)
      /\ LET at == SlotOfFile(file_segments, id)
         IN  file_segments' = PutFile(file_segments, at,
                                      [FileAt(file_segments, at) EXCEPT !.name = new_name])
      /\ files' = [files EXCEPT ![id].name = new_name]
      /\ dirs_content' = RenameIn(file.parent_dir, file.name, new_name)
      /\ UNCHANGED <<dirs, coverage, next_id, source_len>>

\* A listing without these items and their names.
ListingWithout(ds, fs, listing, gone_dirs, gone_files) ==
  [dirs  |-> listing.dirs \ gone_dirs,
   files |-> listing.files \ gone_files,
   names |-> listing.names \ ({ds[d].name : d \in gone_dirs \cap listing.dirs}
                               \cup {fs[f].name : f \in gone_files \cap listing.files})]

\* What removing these directories and files comes to, in any order: slots
\* zeroed, index entries and names dropped, the files' zones released.
RemoveItems(gone_dirs, gone_files) ==
  /\ file_segments' = ClearEntries(file_segments, gone_dirs, gone_files)
  /\ dirs'  = Restrict(dirs, DOMAIN dirs \ gone_dirs)
  /\ files' = Restrict(files, DOMAIN files \ gone_files)
  /\ dirs_content' = [p \in DOMAIN dirs_content \ gone_dirs |->
                        ListingWithout(dirs, files, dirs_content[p], gone_dirs, gone_files)]
  /\ coverage' = [coverage EXCEPT !.segments = @ \ {Extent(files[f]) : f \in gone_files}]
  /\ UNCHANGED <<next_id, source_len>>

RemoveFile(id) ==
  /\ id \in DOMAIN files
  /\ RemoveItems({}, {id})

Subtree_TwoLevels(id) == {id} \cup dirs_content[id].dirs

\* The directory and those below it, as the index lists them.
Subtree(id) ==
  {d \in DOMAIN dirs :
     \A X \in SUBSET DOMAIN dirs :
       (id \in X /\ \A x \in X : dirs_content[x].dirs \subseteq X) => d \in X}

FilesUnder(ds) == UNION {dirs_content[d].files : d \in ds}

RemoveDir(id) ==
  /\ id \in DOMAIN dirs
  /\ RemoveItems(Subtree(id), FilesUnder(Subtree(id)))

\* Archive::open, on a device of length len whose table decodes to segs.
Open(segs, len) ==
  /\ file_segments' = segs
  /\ dirs' = DirsOf(segs)
  /\ files' = FilesOf(segs)
  /\ dirs_content' = DirsContentOf(segs)
  /\ coverage' = OpenCoverage(segs, len)
  /\ next_id' = OpenNextId(segs)
  /\ source_len' = len

\* The archive is closed, or dropped, and opened again.
Reopen == Open(file_segments, source_len)

-----------------------------------------------------------------------------
(* Operations that end with an I/O error and leave the archive in use.     *)
(* Entries, zeros over entries, names and links are written whole or not   *)
(* at all.                                                                 *)

\* The device, or the reader the data comes from, gives up after "written"
\* units; nothing else of write_data_where_possible has happened yet.
DataWriteFails(cov, len, src_len) ==
  \E written \in 0 .. len :
    /\ source_len' = SourceLenAfter(src_len, AddrFor(cov, len), written)
    /\ source_len' <= MaxSourceLen

\* create_segment: the segment is not written, or written but not linked.
NewSegmentFails(full) ==
  LET len == EncodedLen(NewSegment)
  IN  /\ full
      /\ \/ DataWriteFails(coverage, len, source_len) /\ UNCHANGED coverage
         \/ /\ Room(full).source_len <= MaxSourceLen
            /\ coverage' = Room(full).coverage
            /\ source_len' = Room(full).source_len
      /\ UNCHANGED <<file_segments, index, next_id>>

\* create_dir, up to the write of the entry.
CreateDirFails(parent_dir, name) ==
  /\ NameIsFree(parent_dir, name)
  /\ \/ NewSegmentFails(DirsFull)
     \/ /\ DirRoom.source_len <= MaxSourceLen
        /\ TakeId
        /\ file_segments' = DirRoom.file_segments
        /\ coverage' = DirRoom.coverage
        /\ source_len' = DirRoom.source_len
        /\ UNCHANGED index

\* create_file: no segment; no content; content written but not its entry.
CreateFileFails(parent_dir, name, content) ==
  /\ NameIsFree(parent_dir, name)
  /\ \/ NewSegmentFails(FilesFull)
     \/ /\ FileRoom.source_len <= MaxSourceLen
        /\ DataWriteFails(FileRoom.coverage, ContentLen[content], FileRoom.source_len)
        /\ file_segments' = FileRoom.file_segments
        /\ coverage' = FileRoom.coverage
        /\ UNCHANGED <<index, next_id>>
     \/ /\ SourceLenWith(content) <= MaxSourceLen
        /\ TakeId
        /\ file_segments' = FileRoom.file_segments
        /\ coverage' = CoverageWith(content)
        /\ source_len' = SourceLenWith(content)
        /\ UNCHANGED index

(***************************************************************************)
(* What remove_dir may have removed when a write of its fails: within a    *)
(* directory, all sub-directories go before the first file and before the  *)
(* directory itself, in the (arbitrary) order of a HashSet; the            *)
(* directories half done are the ones on the call stack, one below the     *)
(* other.                                                                  *)
(***************************************************************************)
RemovedSoFar_AnyOrder(id, gone_dirs, gone_files) == TRUE

RemovedSoFar(id, gone_dirs, gone_files) ==
  LET Touched(d) == \/ Subtree(d) \cap gone_dirs # {}
                    \/ FilesUnder(Subtree(d)) \cap gone_files # {}
      half_done  == {d \in Subtree(id) \ gone_dirs : Touched(d)}
  IN  /\ \A d \in gone_dirs :
           Subtree(d) \subseteq gone_dirs /\ FilesUnder(Subtree(d)) \subseteq gone_files
      /\ \A d \in Subtree(id) :
           dirs_content[d].files \cap gone_files # {} => dirs_content[d].dirs \subseteq gone_dirs
      /\ \A d, e \in half_done : d \in Subtree(e) \/ e \in Subtree(d)

RemoveDirFails(id) ==
  /\ id \in DOMAIN dirs
  /\ \E gone_dirs \in SUBSET (Subtree(id) \ {id}), gone_files \in SUBSET FilesUnder(Subtree(id)) :
       /\ RemovedSoFar(id, gone_dirs, gone_files)
       /\ RemoveItems(gone_dirs, gone_files)

\* replace_file_content: the old zone is released already when the content
\* cannot be read or written, and the index is updated when its entry cannot.
ReplaceFileContentFails(id, content) ==
  /\ id \in DOMAIN files
  /\ \/ /\ DataWriteFails(CoverageToReplace(id), ContentLen[content], source_len)
        /\ coverage' = CoverageToReplace(id)
        /\ UNCHANGED files
     \/ /\ RewriteContent(id, content)
        /\ files' = [files EXCEPT ![id] = ReplacedFile(id, content)]
  /\ UNCHANGED <<file_segments, dirs, dirs_content, next_id>>

-----------------------------------------------------------------------------
(* The specification *)

\* Archive::create.
Init ==
  LET first == EmptySegment(FirstDirsCapacity, FirstFilesCapacity)
  IN  /\ file_segments = <<first>>
      /\ dirs = <<>>
      /\ files = <<>>
      /\ dirs_content = [p \in {Root} |-> [dirs |-> {}, files |-> {}, names |-> {}]]
      /\ source_len = HEADER_SIZE + EncodedLen(first)
      /\ coverage = OpenCoverage(file_segments, source_len)
      /\ next_id = 1

Operation ==
  \/ \E p \in DOMAIN dirs_content, n \in Names : CreateDir(p, n)
  \/ \E p \in DOMAIN dirs_content, n \in Names, c \in Contents : CreateFile(p, n, c)
  \/ \E id \in DOMAIN files, c \in Contents : ReplaceFileContent(id, c)
  \/ \E id \in DOMAIN dirs, n \in Names : RenameDirectory(id, n)
  \/ \E id \in DOMAIN files, n \in Names : RenameFile(id, n)
  \/ \E id \in DOMAIN dirs : RemoveDir(id)
  \/ \E id \in DOMAIN files : RemoveFile(id)
  \/ Reopen

\* The errors every invariant below survives ...
IoError ==
  \/ \E p \in DOMAIN dirs_content, n \in Names : CreateDirFails(p, n)
  \/ \E p \in DOMAIN dirs_content, n \in Names, c \in Contents : CreateFileFails(p, n, c)
  \/ \E id \in DOMAIN dirs : RemoveDirFails(id)

\* ... and the one they do not.
FailedReplace == \E id \in DOMAIN files, c \in Contents : ReplaceFileContentFails(id, c)

Next == Operation \/ IoError

Spec == Init /\ [][Next]_vars

SpecWithFailedReplace == Init /\ [][Next \/ FailedReplace]_vars

-----------------------------------------------------------------------------
(* Properties *)

TypeOK ==
  /\ file_segments \in Seq(FileTableSegment)
  /\ DOMAIN dirs  \subseteq Ids /\ dirs  \in [DOMAIN dirs -> Directory]
  /\ DOMAIN files \subseteq Ids /\ files \in [DOMAIN files -> File]
  /\ DOMAIN dirs_content \subseteq ParentIds
  /\ dirs_content \in [DOMAIN dirs_content -> DirContent]
  /\ coverage \in Coverages
  /\ next_id \in Ids
  /\ source_len \in Nat

(***************************************************************************)
(* The four structures the code keeps by hand agree: the two maps and the  *)
(* directory listings are, after every operation and every error, what     *)
(* opening the archive afresh would build from the table.                  *)
(***************************************************************************)
IndexMatchesTable ==
  /\ dirs = DirsOf(file_segments)
  /\ files = FilesOf(file_segments)
  /\ dirs_content = DirsContentOf(file_segments)

(***************************************************************************)
(* Opening the archive again does not panic: the assertions of             *)
(* mark_as_used hold for every mark of compute_coverage, in its order.     *)
(***************************************************************************)
OpenNeverPanics == OpenAsserts(file_segments, source_len)

(***************************************************************************)
(* The archive can be opened again: no panic, and the table passes the     *)
(* health check.                                                           *)
(***************************************************************************)
CanBeReopened == TableIsCorrect(file_segments) /\ OpenNeverPanics

(***************************************************************************)
(* The header, the segments and the contents of the files never overlap    *)
(* (TODO of archive.rs:34), and the coverage knows all of them, so that no *)
(* write can land on one.  It may know more: a failed operation leaves its *)
(* zone marked until the archive is opened again.                          *)
(***************************************************************************)
ZonesApart ==
  /\ \A m, n \in Marks(file_segments) :
       LET y == MarkedZone(file_segments, m)
           z == MarkedZone(file_segments, n)
       IN  m # n /\ y.len > 0 /\ z.len > 0 => Apart(y, z)
  /\ \A m \in Marks(file_segments) : End(MarkedZone(file_segments, m)) <= source_len

CoverageKnowsAll ==
  OpenCoverage(file_segments, source_len).segments \subseteq coverage.segments

(***************************************************************************)
(* No two entries of the table share an ID, not even a directory and a     *)
(* file or files of two directories (which the health check lets pass),    *)
(* and none has an ID still to be given out.                               *)
(***************************************************************************)
IdsUnique ==
  /\ \A x, y \in DirsIn(file_segments) \cup FilesIn(file_segments) : x.id = y.id => x = y
  /\ \A x \in DirsIn(file_segments) \cup FilesIn(file_segments) : x.id < next_id

(***************************************************************************)
(* Every item can be reached from the root: no removal, however far it     *)
(* got, leaves an item whose parent is gone.                               *)
(***************************************************************************)
EverythingReachable ==
  \A x \in DirsIn(file_segments) \cup FilesIn(file_segments) :
    x.parent_dir \in {Root} \cup UNION {Subtree(top) : top \in dirs_content[Root].dirs}

(***************************************************************************)
(* Replacing a file's content by one that is not longer never lengthens    *)
(* the archive (tests/archive.rs, reuse_file_space).                       *)
(***************************************************************************)
SmallerContentFits ==
  [][\A id \in DOMAIN files, c \in Contents :
       ReplaceFileContent(id, c) /\ ContentLen[c] <= files[id].content_len
         => source_len' = source_len]_vars
=============================================================================
