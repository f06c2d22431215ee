# BAF in TLA+

Models of the Basic Archive Format library and tool (`src/`), the TLC runs that
check them on small instances, and theorems about them checked by TLAPS.

BAF keeps directories and files in one archive that is edited in place: a
256-byte header, a linked chain of *file table segments* (arrays of directory and
file entries), and the contents of the files wherever there is room.

## 1. Inventory

All code runs on one thread. An `Archive` is used through `&mut self`, so no two
operations interleave; what makes the system hard is that every operation edits
*five* structures by hand (the device, the table in memory, two maps, the
directory listings, and the map of used space), that it may be cut short by an
I/O error or a crash between any two writes, and that a later operation, or a
later opening, relies on all five agreeing.

| Component | State | Operations | Correct when |
|---|---|---|---|
| Coverage (`coverage.rs`) | known length, set of used zones | `mark_as_used`, `mark_as_free`, `find_free_zones`, `find_free_zone_for`, `next_writable_addr`, `grow_to` | zones never overlap; what is reported free is exactly what is; no assertion fails |
| Archive (`archive.rs`) | table segments, `dirs`, `files`, `dirs_content`, coverage, `next_id`, the device | `create`, `open`, `create_dir`, `create_file`, `replace_file_content`, `rename_*`, `remove_*`, `flush`, `close`, getters, `read_file` | the index is what reopening would build; contents do not overlap; an operation takes effect entirely or not at all |
| Encoding (`data/*.rs`) | none | encode/decode of header, segments, entries, names, timestamps | decoding gives back what was encoded; a half-zeroed entry is an empty slot |
| Health check (`health.rs`) | none | `check_file_table_correctness` | accepts every table the library writes |
| Configuration (`config.rs`) | capacities of new segments | – | capacities are not zero |
| Source (`source.rs`) | a seekable device | `set_position`, `write_all`, `read_exact`, `seek_len` | a read through the buffer returns what the device would, whatever was written around the buffer before |
| File reader (`file_reader.rs`) | position, pending checksum | `read`, `read_to_vec`, `read_to_string` | damaged content never passes for whole |
| Iteration (`iter.rs`) | a stack of listings | `next` | every item once, a directory before its items |
| Paths (`data/path.rs`, `with_paths.rs`, `with_paths_mut.rs`) | none of their own | path to item and back; `*_at` operations built of several archive operations | a path names the item it says; a failed operation leaves a sensible archive |
| Tool (`crate-bin`) | the command's arguments, the file system | `create`, `list`, `tree`, `add`, `extract`, `delete`, `zip` | the archive ends up with the files asked for, an error loses nothing |

How they interact: the tool calls the path layer or the archive directly; the
path layer calls the archive's operations one after the other; the archive calls
the coverage for a place, the encoders for bytes, and the source for every write;
opening calls the decoders, then `compute_coverage` (whose assertions panic on
overlapping zones), then the health check.

Hard behaviours, each an entry of `hazards` in `PROJECT.json`:

- the life of used space: best fit and tail zone boundaries, zones of length 0,
  a device longer than the coverage knows after a failed write, assertions that
  look only at the *first* zone below the new one (`coverage.rs:37`);
- operations cut short by an error, after which the archive stays in use;
- crashes between the writes of an operation (new segment, link, content, entry),
  inside the write of an entry, and inside the creation of an archive;
- removal of a directory, recursive and made of many writes;
- IDs given out again after the archive was reopened;
- in-place replacement of a file's content, and contents that change length while
  they are read;
- reads through a buffer and writes around it, on one position (`source.rs:93`);
- a checksum that is compared at the last byte only, by callers that may stop, fail
  or try again before;
- paths resolved as text, and operations by path that are several operations of the
  archive, refused or cut short in the middle of their walk;
- commands of the tool that look everything up first and then make many changes,
  over arguments that overlap, on an archive that an earlier command left half done.

## 2. Modules

    Coverage <---- Space                  used space alone, any history
       ^
       +---------- Archive <-- ChangingSource    contents that change length
                      ^  ^
                      |  +-- ArchiveTree     Archive implements FileTree
                      +----- ArchiveDisk     the device under it, crashes
                                ^
                                +-- DiskTree     what it shows implements FileTree
    FileTree                              what an archive promises (Items: of what)
       ^  ^
       |  +-- Iter                        going through it
       +----- Paths -------> PathStore    operations by path implement PathStore
                  \             ^
                   PathCalls ---+         what such operations promise
                      ^
                      +-- ToolEdit ---+
                      +-- ToolExtract-+-- Tool      the commands of baf

    Source --> ByteFile                   a buffered source implements a file
    Entry                                 one slot of the table, byte by byte
    Health                                the check of a table (uses Archive's view)
    Reader                                reading a file in pieces

    CoverageProofs <-- SpaceProofs
       ^
       +-- ArchiveProofs <-- DiskProofs
    PathCallsProofs <-- ToolProofs
       ^
       +-- PathsProofs                    (FileTree and Iter too)
    ReadingProofs

**Used space**

- **Coverage** – `coverage.rs` as pure operators over a record (`len`,
  `segments`), and the placement policy of `write_data_where_possible`. Each
  assertion of the code is an operator named `...Asserts`; no step models a
  panic, invariants say that the assertions hold wherever the code would
  evaluate them.
- **Space** – a state machine over `coverage` and `source_len`: data of any
  length is written, fails halfway, or is released, in any order. It is the part
  of an archive's behaviour on which everything else rests, without tables.

**The archive**

- **Archive** – variables `file_segments`, `dirs`, `files`, `dirs_content`,
  `coverage`, `next_id` (the fields of `struct Archive`) and `source_len` (the
  device's length). One action per public operation, plus one per operation that
  can end in an I/O error halfway (`...Fails`) and `Reopen`. `file_segments`
  stands for the table in memory and on the device; `ArchiveDisk` separates the
  two. `RemoveItems` is the joint effect of the recursion of `remove_dir`.
- **ChangingSource** – the same archive when a content has another length at the
  second `seek_len` than at the first (`archive.rs:377`, `:717`).
- **FileTree** – the abstract specification: a tree of named items whose
  operations are atomic, except that removing a directory may stop partway
  (never leaving an orphan) and that a crash during a replacement may damage
  that one file. **Items** has what it and `PathCalls` say of names and contents.
- **ArchiveTree** – the refinement mapping from the index to `FileTree`.
- **ArchiveDisk** – adds `disk`, the device field by field. Every operation is
  the sequence of writes of the code, in its order. A write of new entries, of a
  link or of a name is there whole or not at all (`Whole`), one of a content, a
  segment or zeros can stop after any field (`OneByOne`). `Crash` keeps the first
  writes, and a part of the next, and opens what is left with the decoder;
  `CrashInCreation` does so with the writes of `Archive::create`, which can leave a
  device that ends inside the last empty slot of the table: the entry that goes
  there later lengthens it (`SourceLenWithEntry`).
- **DiskTree** – the refinement mapping from the device to `FileTree`: `shown` is the
  tree one gets by opening the device and reading every file with its checksum.

**Reading back**

- **Source** – `source.rs`: the device, the position of the stream below
  (`at`), what a `BufReader` has read ahead (`buffer`) and what the last call
  returned. `since` says what the caller has done since it set the position: the
  order in which the archive calls the source is a guard of the actions.
- **ByteFile** – what all other modules take a source for: bytes and a position.
- **Entry** – one slot of the file table byte by byte: `encode` and
  `consume_from_reader` of directories and files, names with their validation,
  UTF-8 and length byte, little-endian integers, and every write an operation
  makes over the slot, cut off by a crash after any byte.
- **Health** – `check_file_table_correctness` entry by entry, in its three passes,
  over any table a device may hold.
- **Reader** – `FileReader` in the hands of a caller that reads on to the end
  (`read_to_end`, `io::copy`) or in pieces, stops and tries again, on a device
  that may fail and whose bytes may change.
- **Iter** – `ArchiveIter` as the stack of its nested iterators, over any tree of
  `FileTree`, with names in any order (`NameOrder`).

**Paths and the tool**

- **Paths** – `PathInArchive::new` as the stack machine it is, `get_item_at` and
  `compute_item_path` as operators, and each operation of `WithPathsMut` as a
  call that makes the archive's operations one at a time over `FileTree`'s
  state, with an error possible after each. Between calls items are also used by
  ID, as the API allows.
- **PathCalls** – what the operations by path promise: what a path means (by
  counting, not by a stack), which calls are possible, what they leave, what a
  call cut short may leave.
- **PathStore** – the archive seen by path only: a map from paths to contents.
- **ToolEdit** – `baf add` and `baf delete`: the look-up of everything first, then
  one operation by path after the other, with an error or a crash in between or
  in the middle of one.
- **ToolExtract** – `baf extract`: the same for the user's disk, with what is in
  the way there and contents whose checksum does not match.
- **Tool** – both on one archive: extract meets what add and delete have left,
  cut off or not.

**MC\*** modules give the constants values for TLC. `MCReading` puts `Source`,
`Entry`, `Health` and `Reader`, which share no state, side by side in one run
(`looked_at` says whose behaviour it is).

An operator named `X_Something` beside an operator `X` is `X` with a plausible
bug. No specification uses one; substituting it for `X` shows that a property
notices (the `mutants` of `PROJECT.json`).

Abstractions. Names and contents are model values (but in `Entry`), a content is
its own checksum: checksums are taken to tell any two contents apart.
Modification times are only in `Entry`: they are stored and shown, nothing
depends on them. Lengths in `Archive` are abstract units (a header, a segment
header and an entry of 1 unit each), in `ArchiveDisk` fields (3 for a segment
header or a directory, 6 for a file), in `Entry` bytes, with integers of `Width`
bytes of `0 .. Base - 1` and, as with real bytes, names at most as long as one
byte can say. A failing assertion, an ID overflow and a full device end the
model's behaviour instead of the process. In `ArchiveDisk` new
entries, a segment's link and a new name are
written whole or not at all (a `write_all` of 8 to 328 bytes) and all other
writes can be cut anywhere; entries cut anywhere are `Entry`'s subject.
`ArchiveDisk` has crashes and no I/O errors, `Archive` has I/O errors and no
device: there the `write_all` of an entry, of zeros over one, of a link or of a name either
fails and leaves nothing or succeeds. `Paths` and the tool stand on `FileTree`, which both implement.

## 3. Runs

| Run | Question | Bounds |
|---|---|---|
| `space` | is any history of writes, failed writes and releases free of overlap and of failing assertions, and does the archive grow only when it must? | data up to 3 units, device up to 11: several zones and gaps of every length up to 3 and beyond at once |
| `archive` | do the structures agree after every operation and error, can the archive always be reopened, are zones apart and known, and does all of it implement `FileTree`? | 3 items (so that a removal goes two levels down), contents of length 0, 1, 2, 2 names; one slot per kind in the first segment and two directories in later ones, so that segments are added, and three nested directories fit |
| `file_tree` | does `FileTree` give what a user relies on (one item per path, a path for every item), and does iterating give every item once, in order, and end? | 4 IDs, 2 names: every tree of up to 4 items, every numbering of it, iterated from every directory |
| `disk_replace` | does the device hold the table, and is every crash a step of the tree, when contents are replaced and moved? | 2 items, contents of 1 and 2 chunks sharing a chunk, so that half of one can be all of the other; two slots for files (7962 states) |
| `disk_grow` | the same, when segments are added | 2 items, files of 0 and 1 chunks, one slot per kind and segment: the second item of a kind needs a segment, and a creation cut off leaves the device short (16788 states) |
| `paths` | do operations by path do all their path says or nothing, can one that was cut off be made again, do paths lead back to the items they were computed for? | 2 names and an invalid one, 3 IDs, paths up to three names deep, with `""`, `.` and `..` among them, a name that is refused |
| `tool` | do add, delete and extract change only what they were asked to, finish what they say they finished, lose no file, and end? | directories `d`, `d/d`, `e` with files of the same name; 5 lists of items to add, 3 values of `--under-dir`, 5 lists to delete, all flags, any number of commands; extraction of archives of up to 3 items, intact, partial and damaged, in 7 places with something in the way, 3 values of `--to`, 5 lists of items |
| `reading` | can what is read back be relied on: source, entry, table check and file reader | see below |
| `failed_replace` | *violation*: after a failed `replace_file_content` the archive can no longer be opened | 3 items, one slot per kind and segment |
| `changing_source` | *violation*: a content that shrinks while it is added makes the archive unreadable | 3 items, one slot per kind and segment, contents of length 1 and 2 |
| `empty_unverified` | *violation*: a torn entry reads as an empty file, without a checksum error | as `reading`, one crash |
| `same_file_twice` | *violation*: `baf add` of a file given twice stops with a failed assertion | as `tool` |

Bounds of `reading`. *Source*: 2 byte values, a device of up to 6 bytes, reads of up
to 4, writes of up to 2, a buffer of 3: reads and steps shorter than, as long as
and longer than the buffer. *Entry*: bytes in base 5, integers of 2 bytes, names of
1, 2 and 4 bytes (the longest), one with a two-byte character, IDs and lengths with
a zero byte at either end, two crashes, so that a write is cut off over what a cut
off write has left. *Health*: all tables of two segments with up to two directories
and two files, over IDs, parents and names that clash in every combination, parents
that come later and parents that are missing. *Reader*: a device of 5 bytes with
files of 1, 3, 1 and 0 bytes side by side, buffers of up to 2, one byte that
changes at any time.

`MaxId`, `MaxSourceLen`, `MaxLen`, `MaxCrashes`, `MaxCommands` and `MaxItems` bound
the state space (the code has `u64::MAX`, the device's capacity, and no limit on
the others): what would pass them is not enabled. `MaxItems` limits the archives
that are extracted, not those that are edited; `MaxCommands = 2` allows one
extraction after the disk was set up. Symmetry is over `Names`, which are only
compared.

Deadlock is not checked where a model really may stop: a full device with no IDs
left (`space`, `archive`, `disk_*`), a health check that has finished (`reading`),
the last extraction (`tool`).

### Fairness

No operation is ever obliged to happen: each is a synchronous call of the user's.
Liveness is stated where the code has a loop of its own, under weak fairness of a
turn of that loop and of nothing else: `ReadOn` (the loop of `read_to_end` or
`io::copy`), `NextItem` (a `for` loop over an iterator), `Step` (a command of the
tool once it was started). The program has one thread and these loops wait for
nobody, so a turn that can happen does. A caller that reads in pieces, the start
of a command, an error, a crash and a byte that changes have no fairness.

### What the violations show

- **`failed_replace`**. `replace_file_content` releases the old content's zone
  (`archive.rs:435`) before it writes the new content (`archive.rs:440`). When
  reading or writing the new content fails, the file's entry and the index still
  refer to the old zone, which the coverage now takes for free; the next
  `create_file` may be placed there. Two files then share bytes, and the next
  `Archive::open` panics in `mark_as_used` (`coverage.rs:42`,
  `assert!(start + len <= next.start)`). `archive` therefore includes every I/O
  error but this one, as far as entries are written whole (section 2): that an error
  leaves part of an entry on the device is not in it (section 5).
- **`changing_source`**. The length in a file's entry is that of one `seek_len`
  (`archive.rs:377`, `:433`), the place and the bytes are those of another
  (`archive.rs:717`). A file that shrinks in between gets an entry longer than its
  zone; the next content goes inside it, and the next open panics.
- **`empty_unverified`**. `FileReader::read` returns `Ok(0)` before it compares
  anything when nothing is left to read (`file_reader.rs:59`), so a file of length
  0 is never verified. An entry cut off by a crash after its name and before its
  length is such a file.
- **`same_file_twice`**. Sizes are collected in a map by real path; a file that is
  listed twice (`baf add d d/a`) makes the map shorter than the list, and
  `assert_eq!(files.len(), files_size.len())` (`main.rs:211`) fails, after the
  directories have been created in the archive.

### What else does not hold

These properties state what the documentation says; TLC finds each of them violated
when it replaces the properties of the run named in brackets. They are not runs of
their own, each being one wrong condition or call rather than a history.

- `ToolExtract!ExtractsToNewDir` [`tool`, as `Extract!...`]: `extract --to new_dir`
  creates the directory (`main.rs:259`) and then refuses it because it exists
  (`main.rs:335`).
- `ToolExtract!MergeDirsMerges`, `ToolEdit!MergeDirsMerges` [`tool`]:
  `--merge-dirs` skips the check, but the directories are then made with
  `fs::create_dir` (`main.rs:388`) and `create_dir_at` (`main.rs:192`), which fail
  on one that exists.
- `ToolExtract!ItemsAtAnyDepth` [`tool`]: an item below a directory is extracted to
  its full path, and nothing makes the directories above it (`main.rs:406`).
- `ToolEdit!OverwritesOnlyIfAsked` [`tool`]: of two files bound for one path
  (`add d/a e/a`) the second replaces the first without `--overwrite-files`,
  since existing files are looked for once, at the beginning (`main.rs:169`).
- `Paths!CollisionIsAFile` [`paths`]: the path in a `FileCollision` is the directory
  above the file that is in the way (`with_paths_mut.rs:81`), not "the path that
  caused the collision".
- `Health!AcceptedIdsAreUnique` [`reading`]: a file's ID is compared within its
  directory only (`health.rs:60`); `docs/specs.md:31` calls it archive-unique.

And one met while reading: `docs/specs.md` gives 250 bytes of filler for a 256-byte
header whose fields take 12.

## 4. Proofs

Everything below is proved for every value of the constants: any capacities,
sizes, sets of names, contents and files, any bounds, and any history.

| Module | What it proves |
|---|---|
| `CoverageProofs` | facts about the coverage's operators and about things *placed* in it |
| `SpaceProofs` | `SpaceTypeOK`, `NoOverlap`, `WithinSource`, `NeverPanics`, `GrowsOnlyWhenFull`, `FreeZonesAreTheGaps` of `SpaceSpec` |
| `ArchiveProofs` | what each operation does to a file table, slot by slot, to the zones it describes, and to the maps and listings; from that the inductive invariant of `Archive!Spec`, from it `TypeOK`, `IndexMatchesTable`, `CanBeReopened`, `ZonesApart`, `CoverageKnowsAll`, `IdsUnique`, `EverythingReachable`, `SmallerContentFits`, and the refinement `ArchiveIsAFileTree`: `Spec => ImplementsFileTree` |
| `DiskProofs` | the inductive invariant of `DiskSpec` (the archive, its device and its crashes), from it `DiskHoldsTheTable`, the refinement `DiskIsAFileTree`: `ShownSpec => DiskImplementsFileTree`, and that only a replacement cut off damages a file (`OnlyReplacingDamages`) |
| `ReadingProofs` | the refinement `SourceIsAFile`: `Spec => ImplementsByteFile` of `Source`; `ReaderTypeOK`, `WholeMeansIntact`, `MismatchMeansChanged` of `ReaderSpec`; `HealthCheckIsRight` of `HealthSpec`; `OpensToWhatItHas`, `TornWritesMakeNoOther` of `EntrySpec` |
| `PathCallsProofs` | what the operations by path do to the archive seen by path, done or cut off, and what a path put together of two means |
| `PathsProofs` | `TypeOK`, `PathsAreUnique`, `EveryItemHasAPath` of `FileTree!SpecWithCrashes`; `PathsMeanWhatTheySay`, `PathsLeadBack`, `CallsDoAllOrNothing`, `CutOffCallCanBeRepeated` of `PathsSpec` and the refinement `PathsImplementPathStore`: `PathsSpec => ImplementsPathStore`; `YieldsInOrder` of `IterSpec` |
| `ToolProofs` | `OnlyWhatWasAsked`, `DoneMeansDone`, `NoFileIsLost`, `OnlyBelowOutputDir`, `DoneMeansExtracted` of `ToolSpec` |

Assumptions: the ones the models state (`SizesAssumption` for `Space`;
`ContentsAssumption`, `NoneAssumption`, `BoundsAssumption`, `LayoutAssumption` for
`Archive`, `UndamagedAssumption` for its refinement; `ChunksAssumption` and
`FieldsAssumption` for its device; `IdsAssumption` and
`DamagedAssumption` for `FileTree`; `OrderAssumption` for `Iter`; `SourceAssumption`; `DeviceAssumption` and
`FilesAssumption` for `Reader`; `TablesAssumption` for `Health`; `SegmentsAssumption` for `PathCalls`, and
`RawPathsAssumption` and `ContentsAssumption` for `Paths`;
`OutsideAssumption`, `ArgumentsAssumption` and `ExtractAssumption` for the tool;
`EntryAssumption`), no
others: lengths are naturals, an empty slot is
no entry, a header, a segment header and an entry take some space, a content is
as many chunks as it is long, a segment has
at least one slot of each kind (a `NonZero` in `ArchiveConfig`), a buffer has
room for a byte, files lie within their device, of two names one comes first, no directory has the root's ID, a damaged content is none of the
contents users write. Of entries: numbers fit their bytes (a `u64`), IDs are not zero (a `NonZero`), names are ones
`ItemName` accepts, a byte has two values or more, and an empty content has the
checksum of one. Of paths: no name is `""`, `"."`, `".."` or refused; a path is
at least one segment, and being a directory is no file's content; the user's files and `--under-dir` are sequences of segments, what is above one of the
user's files is a directory, and being a directory, damaged or partial is no file's
content.

**Space.** A coverage is *tidy* when its zones are not empty, do not overlap and end
within its length. On a tidy coverage the zones the iterator yields are free
(`FreeZonesAreFree`) and maximal (`FreeZonesAreMaximal`), and every run of free
units lies in one of them (`GapIsFound`), so they are exactly the gaps, the
address chosen for data is apart from all used zones (`AddrForIsFree`), and
recording it keeps the coverage tidy. Tidiness alone is not inductive: `grow_to`
sets the coverage's length to the device's, so the invariant `SpaceInv` adds that
the device is never shorter than the coverage knows. The lowest and highest zones
are CHOOSE'd; they exist because `<` is well-founded on the naturals.

**Archive.** None of the properties is inductive, since each operation reads one
structure to update another. `ArchiveInv` says how all of them hang together:

- `IndexInv`: the table *matches* the two maps (one slot per item), the maps are a
  *tree* (each item's parent is there and has a smaller ID, siblings have
  different names) and the listings are those of the maps. That a parent is older
  is what makes `EverythingReachable` provable: there is no oldest item out of
  reach.
- `IdsInv`: directories and files share no ID, all are below `next_id`.
- `SpaceInv`: the zones of the header, the segments and the contents *fit*: each is
  recorded in a tidy coverage of at most the device's length, and no two are the
  same record. The last part is needed to release a zone: `mark_as_free` drops a
  record by its value, which must be no other item's.

After a creation cut off the device ends inside the first segment, and the coverage
records no more than what the device has of it. `SpaceInv` therefore exempts the end
of that one zone (`FirstMark`), as long as all others begin after it; the first
segment stays where it is and the coverage gets no shorter (`Lasting`), so an
archive that was created to the end keeps the whole zone: `CompleteInv`, the invariant
of `Archive!Spec`, where creation is not cut off, is `ArchiveInv` with it, and `ArchiveInv`
alone is what an archive on a device keeps.

Each action has a lemma that it keeps `ArchiveInv`; `ArchiveInvStep` puts them
together, and the theorems follow without further induction. `CanBeReopened` needs
one more fact: the assertions of `mark_as_used` hold for each zone in the order
of opening, because each is apart from all those marked before
(`PlacedMarks`). The theorems are about `Archive!Next`, which has every operation
and, with entries, names and links written whole, every I/O error but a failed
replacement, which breaks the archive.

**The refinement.** Every action of `Archive` is an action of `FileTree` on the tree
the two maps show, or changes nothing of it. For most this is the effect on the table read
through the mapping; what has to be argued is removal: the archive removes the
subtree its *listings* span, the tree everything in `Below`, the least set that
holds an item and the children of its members. The invariant makes them the same
set, and a removal that stops makes a set that is closed downwards.

**The device.** `DiskHoldsTheTable` is not inductive, because no write is about a whole
table. The proofs take the table on the device apart into *pieces*: the three
fields at the head of each segment, and each entry (`Pieces`). Pieces are apart from
each other and from all contents, and decoding a table reads exactly its pieces,
of an empty slot only the ID. `DiskInv` says that `ArchiveInv` holds, that every piece
is on the device where it belongs (`Holds`), that the device is `source_len` long and
that the last link is zero. Every write of every operation is then one to a single piece
(`SameBut`), to a place with no piece in it (`Outside`), or zeros over some entries, and
what it makes of the table is read off: the table with one slot or one link changed,
the same table, or the table without these items. Where a crash can stop is a list
of such stages (`Staged`, `ThenOne`, `ThenTwo`). Each stage that can remain is *sound*: a table with its
index and its space that fits, which is what opening needs to build an index for
which `ArchiveInv` holds again. A write of new entries at the end of a device that is
too short lengthens it, to what the archive then believes it is: proving this step
failed at first, and TLC then showed the model's `CreateFile` to leave `source_len` behind
after a creation that was cut off; `SourceLenWithEntry` is what the code does, whose
length is asked of the device each time. `DecodeTable` follows the links with a recursive
function; its only solution is shown to be the first segments, as many as have been
read, and the link is zero at the last one only (`DecodeTableIs`).

**What the device shows.** `Change` lists what a step can do to the index a reader
would build and to the bytes of the contents: nothing (`Unseen`), one item more,
renamed, replaced, or some whole subtrees less, each with the bytes of every file it
does not name where they were (`Keeps`, because those zones are placed). Whether a file
is intact depends on these bytes only, so each is an action of `FileTree` on `shown`.
The one change that does not keep a content is a replacement cut off (`ReplacementCutOff`),
whose new content may be placed over the old one: that is `Damage` of that file, and
of no other (`OnlyReplacingDamages`).

**FileTree.** `EveryItemHasAPath` is inductive on a well-typed tree once `Below` is
seen to follow the tree: it only grows when an item comes (`Create`), and what is
left after a removal was not below what went. Neither needs induction over the
tree: `Below` is a least fixpoint, and both are shown by giving a closed set.

**A tree seen by path.** `PathOf` and `ItemAt` are recursive functions, one over the
tree, one over a path. What each computes is given explicitly and shown to be the
only solution of its recursion: a tree (`IsTree`) is one whose items have paths at
all, which creating, renaming and removing preserve by writing down the new paths
(`AddingAnItem`, `RenamingAnItem`, `RemovingItems`), and which of two solutions
differ is contradicted at the shortest path. From there on a tree is the map
`StoreOf` from its paths to contents, a store in the sense of `PathCalls`.

**What a path means.** `NewPath` reads segment by segment with a stack, `Meant` counts.
The link is the *height* of the stack after each segment (`Heights`): a name is
undone exactly when the height falls below the one it was pushed at (`ByHeight`),
so what is on the stack is what is not undone, in order (`LeftByHeight`,
`NewPathIs`).

**Operations by path.** None of the promises is inductive, because a call is many
operations of the archive, refused only when it finds something in its way. The
invariant `PathsInv` says of a call in its walk (`CameTo`) that the store is the one
it began with, and the directories of the walk's first `n` segments, all of which
either were directories or did not exist; that the call is at the directory of
these segments; and that what it has yet to walk is the rest. Then directories made
on the way never change whether the call is possible (`PossibleAsMade`), and a call
that meets an obstacle has made nothing, because whatever is in its way was there
before and so was all above it (`NothingMade`). A call at an item knows the item's
path and has changed nothing. The invariant was checked with TLC on the instance of
`paths` before it was proved, and with it the steps of a call are seen to be steps of
`PathStore` (`StepsByPath`), which is the refinement.

**Source.** The invariant `SourceInv`: the buffer holds exactly what the device has
between the reader's position and that of the stream below, and it is empty
whenever the caller may write, so a write can neither leave old bytes in it nor
go to another place than the reader's position.

**Reader.** A reader has digested exactly what it has delivered (`Digested`), and
while nothing changed and nothing failed both are the beginning of the file it was
opened for (`Undisturbed`, `OnTrack`). From the first follows that who has read a
whole file has what was written, whatever happened; from the second that there is
no false alarm.

**Health check.** `HealthInv` says what the passes have made of the slots they came to
(`Registered`, `DirsSeen`, `FilesSeen`): the listings are those of these slots, wherever
they are in the table, and there is an error if and only if they are not `Clean`.
Two facts carry it. A listing that is not there is as good as an empty one
(`NoListing`), so that parents may come later or never. And in the second pass a
directory's ID is in its parent's listing only if the first pass had met it twice,
so that the table is incorrect already (`OneMoreCleanDir`).

**Entry.** `EntryInv` is `OpensToWhatItHas`, that the slot is as long as an entry, and
what `TornWritesMakeNoOther` says (`NoOther`). It rests on two round trips. Integers:
`Shifted` and `Upper` are recursive functions, each shown to be what its equation says
(`ShiftsExist`, `SumsExist`). What is left of a number above each of its bytes is the
number in the bytes above (`FromToLe`, `ToFromLe`): at the first place where they
differed, they would not differ one byte earlier, and one step of either is the other's
undone. Entries: `Layout` says what is where in an
encoded entry, `DecodeEncode` that it decodes to its item. A write cut off is told by
*which bytes it leaves alone* (`IsOver`): all but the name (`NameChanged`), all but the ID
(`IdChanged`), or the beginning up to the end of the name (`BeginningKept`: a
replacement writes the same bytes there again, `SameBeginning`). A creation in a clean
slot that shows an item was written up to the end of its name, since a name has no
zeros and all that was not written is zero (`CutCreation`).

**Paths, by counting.** `Meant` numbers the names of a path that no `..` undoes. The
proofs need to know that this numbering leaves none out (`RanksDiffer`,
`RankIsReached`, by well-founded induction on positions): then a path that goes on
with names means the path followed by these names (`MeantOfAppended`), which is what
lets `add` put strings together and know where the items will be. An operation by
path keeps the store a *tree* (`StoreOK`: above each item is a directory) and
changes nothing but at, above or below its path; the same is shown of what a
cut off call may leave.

**The tool.** `add`, `delete` and `extract` look everything up first and make many
changes afterwards, so each property needs to know, in the middle of a command,
what is left to do and what was done. `ToolInv` says, of the archive, that it is a
tree of known contents; of `add` (`AddInv`), that what it has done since it began is
only wanted items and directories above them, that each item no longer in its
lists is where it belongs, and that without `--overwrite-files` no file still to
be written goes where one was *when the command began*; of `delete` (`DeleteInv`),
that what is gone was below one of its paths and nothing is left below those done;
of `extract` (`ExtractInv`) the same of the disk. That last part of `AddInv` is the
reason why one check at the beginning is enough for `NoFileIsLost`, although two
of the new files may go to one place. That all that was asked for is in the lists
(`WantedIsFound`) and nothing else (`ItemLands`) is shown of the walk over the
user's directories: the path an item is given, a string put together of
`--under-dir` and the names below, means the place where it belongs.
The invariant was checked with TLC on the instance of `tool` before it was proved.

**Iteration.** What has been given is everything below the directory asked for, minus
what the stacked iterators still have to give (`AllPending`): what is below the
directories left to each, and the files of its directory until they were given. And
everything given comes before everything pending, in the order documented
(`GivenOK`). Each iterator of the stack is over a directory that the one around it
has taken out of its list (`StackOK`), so what the inner one has yet to give comes
before what the outer ones have (`OuterAfter`). That nothing is given too early
needs the order to be one-way (`ComesOneWay`): the ways down to two items part at
one place only, because siblings have nothing below them in common.

Every invariant and every safety property that a passing run checks is stated by a
theorem. Out of the provers' reach and left to TLC: liveness
(`ReadingEnds`, `IterationEnds`, `EveryCommandEnds`). What is violated in the runs
that expect it is shown there only.

## 5. Not modelled, and what could follow

Not modelled, and why:

- `create`, `list`, `tree` and `zip` of the tool: `create` is `Archive::create` on a
  path that must be new; the others only read, through the iterator and the
  reader, and writing a ZIP is another crate's;
- the tool's terminal output (`logger.rs`, `tree.rs`, `utils.rs`) and the parsing of
  its arguments: formatting, and no state;
- conversion between timestamps and the system's time, the header's magic number
  and version: single values, compared with constants;
- plain accessors of `PathInArchive`, `Directory` and `File`.

Known limits of the models: an entry created in a slot where a removal was cut off
before, and itself cut off, may show with old bytes in its name (`Entry` promises
for clean slots only); a torn rename may leave a third name, even a sibling's;
`Entry` is one slot, so what the health check says to such a pair is not in it.
`TornWritesMakeNoOther` is about items, not about availability: it allows what
can happen, that an archive with a torn entry is refused when it is opened (`archive.rs:338`).

An entry torn by an I/O error, after which the archive stays in use, is in no model:
in `Archive` the failing `write_all` of an entry (`archive.rs:336`, `:396`) leaves nothing.
Nor does a torn entry reach the paths and the tool: what `PathCalls!CutShort` allows has a
new file whole or not at all, while `empty_unverified` shows one that is there, empty and
unverified. So `CutOffCallCanBeRepeated`, `OnlyWhatWasAsked` and `DoneMeansExtracted` hold as
far as entries are written whole: `add` cut off inside an entry may leave an empty
file where one was asked for, and a later `extract` may then copy it without an error.

What could follow, in order:

1. I/O errors on the device in `ArchiveDisk`, beside its crashes, with torn entries, and a device of
   several slots in `Entry`.
2. `Reader` on top of `Source` instead of a file with one position.
