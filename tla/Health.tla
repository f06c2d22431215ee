------------------------------- MODULE Health -------------------------------
(***************************************************************************)
(* check_file_table_correctness (crate-lib/src/health.rs), entry by entry: *)
(* over any table a device may hold, it collects what is wrong and builds  *)
(* the listings of the directories, in three passes over the segments.     *)
(***************************************************************************)
EXTENDS Integers

CONSTANTS Names, None,
          Tables   \* the tables a device may hold, damaged ones too

VARIABLES
  segments,       \* the table, as it was decoded
  pass, left,     \* what is being gone through, and the slots left of it
  dirs_content, errors

health_vars == <<segments, pass, left, dirs_content, errors>>

Root == 0

\* Of the archive, only what opening makes of a table is used.
A == INSTANCE Archive WITH
       file_segments <- segments, dirs <- <<>>, files <- <<>>, coverage <- <<>>,
       next_id <- 1, source_len <- 0, Contents <- {}, ContentLen <- <<>>, MaxId <- 9,
       MaxSourceLen <- 0, HEADER_SIZE <- 1, SEGMENT_HEADER_SIZE <- 1,
       DIRECTORY_ENTRY_SIZE <- 1, FILE_ENTRY_SIZE <- 1, FirstDirsCapacity <- 1,
       FirstFilesCapacity <- 1, DirsCapacity <- 1, FilesCapacity <- 1

\* segments.flat_map(..).flatten(): the slots that hold something.
DirsOfTable(segs)  == A!DirSlots(segs)  \ A!FreeDirSlots(segs)
FilesOfTable(segs) == A!FileSlots(segs) \ A!FreeFileSlots(segs)

\* IDs are NonZeroU64: no entry that decodes has the root's.
ASSUME TablesAssumption ==
  \A segs \in Tables : \A at \in DirsOfTable(segs) : A!DirAt(segs, at).id # Root

AllDirs  == DirsOfTable(segments)
AllFiles == FilesOfTable(segments)
DirAt(at)  == A!DirAt(segments, at)
FileAt(at) == A!FileAt(segments, at)

Nothing == [dirs |-> {}, files |-> {}, names |-> {}]

HealthInit ==
  /\ segments \in Tables
  /\ pass = "register" /\ left = AllDirs
  /\ dirs_content = [p \in {Root} |-> Nothing]
  /\ errors = {}

\* The order of the iteration: segment by segment, slot by slot.
Before(p, q) == p[1] < q[1] \/ (p[1] = q[1] /\ p[2] < q[2])

IsNext(at) == at \in left /\ \A other \in left \ {at} : Before(at, other)

Error(kind, x) == [kind |-> kind, id |-> x.id, name |-> x.name, parent_dir |-> x.parent_dir]

Put(p, listing) ==
  dirs_content' = [q \in DOMAIN dirs_content \cup {p} |-> IF q = p THEN listing ELSE dirs_content[q]]

\* entry(parent).or_default()
ListingOf(p) == IF p \in DOMAIN dirs_content THEN dirs_content[p] ELSE Nothing

\* dirs.insert, files.insert, names.insert
WithDir(listing, dir) ==
  [dirs |-> listing.dirs \cup {dir.id}, files |-> listing.files,
   names |-> listing.names \cup {dir.name}]
WithFile(listing, file) ==
  [dirs |-> listing.dirs, files |-> listing.files \cup {file.id},
   names |-> listing.names \cup {file.name}]

NameErrors_OfDirs(x) ==
  IF pass = "dirs" /\ x.name \in ListingOf(x.parent_dir).names THEN {Error("duplicate name", x)} ELSE {}

NameErrors(x) ==
  IF x.name \in ListingOf(x.parent_dir).names THEN {Error("duplicate name", x)} ELSE {}

RegisterDir(at) ==
  /\ pass = "register" /\ IsNext(at)
  /\ errors' = errors \cup
       (IF DirAt(at).id \in DOMAIN dirs_content THEN {Error("duplicate directory", DirAt(at))} ELSE {})
  /\ Put(DirAt(at).id, Nothing)
  /\ left' = left \ {at}
  /\ UNCHANGED <<segments, pass>>

DirsRegistered ==
  /\ pass = "register" /\ left = {}
  /\ pass' = "dirs" /\ left' = AllDirs
  /\ UNCHANGED <<segments, dirs_content, errors>>

ListDir(at) ==
  LET dir == DirAt(at) listing == ListingOf(dir.parent_dir)
  IN /\ pass = "dirs" /\ IsNext(at)
     /\ Put(dir.parent_dir, WithDir(listing, dir))
     /\ errors' = errors \cup NameErrors(dir)
          \cup (IF dir.id \in listing.dirs THEN {Error("duplicate directory", dir)} ELSE {})
     /\ left' = left \ {at}
     /\ UNCHANGED <<segments, pass>>

DirsListed ==
  /\ pass = "dirs" /\ left = {}
  /\ pass' = "files" /\ left' = AllFiles
  /\ UNCHANGED <<segments, dirs_content, errors>>

ListFile(at) ==
  LET file == FileAt(at) listing == ListingOf(file.parent_dir)
  IN /\ pass = "files" /\ IsNext(at)
     /\ Put(file.parent_dir, WithFile(listing, file))
     /\ errors' = errors \cup NameErrors(file)
          \cup (IF file.id \in listing.files THEN {Error("duplicate file", file)} ELSE {})
     /\ left' = left \ {at}
     /\ UNCHANGED <<segments, pass>>

Finish ==
  /\ pass = "files" /\ left = {}
  /\ pass' = "done"
  /\ UNCHANGED <<segments, left, dirs_content, errors>>

HealthNext ==
  \/ \E at \in left : RegisterDir(at) \/ ListDir(at) \/ ListFile(at)
  \/ DirsRegistered \/ DirsListed \/ Finish

HealthSpec == HealthInit /\ [][HealthNext]_health_vars

-----------------------------------------------------------------------------
Accepted == pass = "done" /\ errors = {}
Refused  == pass = "done" /\ errors # {}

(***************************************************************************)
(* The passes refuse exactly the tables that Archive takes for incorrect,  *)
(* and an accepted one gets the listings Archive opens it with.            *)
(***************************************************************************)
DecidesAsArchiveDoes ==
  /\ Accepted => A!TableIsCorrect(segments) /\ dirs_content = A!DirsContentOf(segments)
  /\ Refused  => ~A!TableIsCorrect(segments)

SamePlace(x, y) == x.parent_dir = y.parent_dir /\ x.name = y.name

\* Item y is in error, because of item x.
ClashOfDirs(e, x, y) ==
  \/ e = Error("duplicate directory", y) /\ x.id = y.id
  \/ e = Error("duplicate name", y) /\ SamePlace(x, y)
ClashOfFiles(e, x, y) ==
  \/ e = Error("duplicate file", y) /\ x.id = y.id /\ x.parent_dir = y.parent_dir
  \/ e = Error("duplicate name", y) /\ SamePlace(x, y)

(***************************************************************************)
(* An item is blamed only if an earlier one has its ID or its place;       *)
(* whatever the order of the entries, the first of them never is for the   *)
(* second.                                                                 *)
(***************************************************************************)
BlamesOnlyClashes ==
  \A e \in errors :
    \/ \E p, q \in AllDirs  : Before(p, q) /\ ClashOfDirs(e, DirAt(p), DirAt(q))
    \/ \E p, q \in AllFiles : Before(p, q) /\ ClashOfFiles(e, FileAt(p), FileAt(q))
    \/ \E p \in AllDirs, q \in AllFiles :
         e = Error("duplicate name", FileAt(q)) /\ SamePlace(DirAt(p), FileAt(q))

(***************************************************************************)
(* So the check decides right, and its report can be trusted.              *)
(***************************************************************************)
HealthCheckIsRight == DecidesAsArchiveDoes /\ BlamesOnlyClashes

-----------------------------------------------------------------------------
(* What the documentation says and the code does not do: these do not hold, *)
(* see "What else does not hold" in the README.                             *)

(***************************************************************************)
(* specs.md, of files and of directories: "Archive-unique ID".  A table    *)
(* that is accepted has no two items with one ID.                          *)
(***************************************************************************)
AcceptedIdsAreUnique ==
  Accepted =>
    /\ \A p, q \in AllFiles : p # q => FileAt(p).id # FileAt(q).id
    /\ \A p \in AllDirs, q \in AllFiles : DirAt(p).id # FileAt(q).id
=============================================================================
