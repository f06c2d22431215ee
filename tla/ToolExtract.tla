---------------------------- MODULE ToolExtract -----------------------------
(***************************************************************************)
(* baf extract (crate-bin/src/main.rs): the archive, opened for reading    *)
(* and seen by path (PathCalls), is copied item by item to the user's      *)
(* disk, whose paths start at the current directory, <<>>.  Commands       *)
(* follow one another and may be cut off anywhere.  Items come in some     *)
(* order that has directories before their items (Iter has the exact one). *)
(***************************************************************************)
EXTENDS PathCalls

CONSTANTS
  Partial,       \* a content that was not copied to its end
  Stem,          \* the archive's own name, without its extension
  NoOutputDir,   \* no --to
  OutputDirs,    \* the paths given with --to, or NoOutputDir
  ItemLists,     \* the lists of paths given with --items
  MaxCommands    \* bound: commands one after the other

VARIABLES
  store,     \* the archive, which stays as it is
  disk,      \* the user's files
  command,   \* its arguments, what it has still to do, how it ended
  commands   \* how many there have been

ExistsIn(d, p) == p = <<>> \/ p \in DOMAIN d

IsDirIn(d, p) == p = <<>> \/ (p \in DOMAIN d /\ d[p] = "directory")

With(d, p, what) == [q \in DOMAIN d \cup {p} |-> IF q = p THEN what ELSE d[q]]

NoCommand ==
  [output_dir |-> <<>>, to |-> NoOutputDir, items |-> <<>>, merge_dirs |-> FALSE,
   overwrite_files |-> FALSE, todo |-> {}, stage |-> "ended", result |-> "none",
   error_at |-> <<>>, before |-> <<>>]

Idle == command = NoCommand

-----------------------------------------------------------------------------
\* get_item_at on the archive.
Resolves(raw) == IsPath(raw) /\ ExistsIn(store, Meant(raw))
IsRoot(raw)   == IsPath(raw) /\ Meant(raw) = <<>>

\* Once the root is met, all is selected and the other arguments are not read.
SelectsAll(items) ==
  \/ items = <<>>
  \/ \E i \in DOMAIN items : IsRoot(items[i]) /\ \A j \in 1..i - 1 : Resolves(items[j])

Select(turn, p) == {[turn |-> turn, path |-> q] : q \in {q \in DOMAIN store : IsPrefix(p, q)}}

\* An item may be selected by several arguments.
Selection(items) ==
  IF SelectsAll(items) THEN Select(1, <<>>)
  ELSE UNION {Select(i, Meant(items[i])) : i \in DOMAIN items}

Found(items) == SelectsAll(items) \/ \A i \in DOMAIN items : Resolves(items[i])

OutputDir(to, items) ==
  CASE to # NoOutputDir                  -> to
    [] to = NoOutputDir /\ items = <<>> -> <<Stem>>
    [] to = NoOutputDir /\ items # <<>> -> <<>>

OutputPath_InPlace(x) == x.path

OutputPath(x) == command.output_dir \o x.path

\* The directories and the files selected.
SelectedDirs  == {x \in Selection(command.items) : store[x.path] = "directory"}
SelectedFiles == Selection(command.items) \ SelectedDirs

-----------------------------------------------------------------------------
End(result, error_at) ==
  command' = [command EXCEPT !.stage = "ended", !.result = result, !.error_at = error_at]

Begin(to, items, merge_dirs, overwrite_files, stage, result) ==
  command' = [NoCommand EXCEPT
                !.output_dir = OutputDir(to, items), !.to = to, !.items = items,
                !.merge_dirs = merge_dirs, !.overwrite_files = overwrite_files,
                !.stage = stage, !.result = result, !.before = disk]

\* The directory given with --to is created, or must be there to merge into.
BeginExtract(to, items, merge_dirs, overwrite_files) ==
  LET begin(stage, result) == Begin(to, items, merge_dirs, overwrite_files, stage, result)
      is_new == to # NoOutputDir /\ ~ExistsIn(disk, to)
  IN /\ Idle /\ commands < MaxCommands /\ commands' = commands + 1
     /\ \/ is_new /\ IsDirIn(disk, Front(to))
           /\ begin("looking up", "none") /\ disk' = With(disk, to, "directory")
        \/ is_new /\ ~IsDirIn(disk, Front(to))
           /\ begin("ended", "failed") /\ UNCHANGED disk
        \/ ~is_new /\ to # NoOutputDir /\ ~merge_dirs
           /\ begin("ended", "refused") /\ UNCHANGED disk
        \/ ~is_new /\ (to = NoOutputDir \/ merge_dirs)
           /\ begin("looking up", "none") /\ UNCHANGED disk
     /\ UNCHANGED store

LookingUp == command.stage = "looking up"

NotFound ==
  /\ LookingUp /\ ~Found(command.items)
  /\ End("not found", <<>>)
  /\ UNCHANGED <<store, disk, commands>>

DirInTheWay ==
  \/ ExistsIn(disk, command.output_dir)
  \/ \E x \in SelectedDirs : ExistsIn(disk, OutputPath(x))

Refused ==
  /\ LookingUp /\ Found(command.items) /\ ~command.merge_dirs /\ DirInTheWay
  /\ End("refused", <<>>)
  /\ UNCHANGED <<store, disk, commands>>

Occupied(d, p) == ExistsIn(d, p)

\* create_dir_all; then the files are looked for where they are to go.
Prepare ==
  LET out   == command.output_dir
      ready == IF ExistsIn(disk, out) THEN disk ELSE With(disk, out, "directory")
  IN /\ LookingUp /\ Found(command.items) /\ (command.merge_dirs \/ ~DirInTheWay)
     /\ IF ~IsDirIn(ready, out)
        THEN End("failed", <<>>)
        ELSE IF ~command.overwrite_files /\ \E x \in SelectedFiles : Occupied(ready, OutputPath(x))
        THEN End("refused", <<>>)
        ELSE command' = [command EXCEPT !.stage = "extracting", !.todo = Selection(command.items)]
     /\ disk' = ready
     /\ UNCHANGED <<store, commands>>

-----------------------------------------------------------------------------
UpNext ==
  {x \in command.todo : \A y \in command.todo :
     x.turn < y.turn \/ (x.turn = y.turn /\ ~IsStrictPrefix(y.path, x.path))}

Rest(todo, x) == todo \ {x}

Verified_Never(x) == TRUE

\* io::copy gets the checksum error when it has read all.
Verified(x) == store[x.path] # Damaged

\* fs::create_dir and File::create succeed.
CanCreateDir(p)  == ~ExistsIn(disk, p) /\ IsDirIn(disk, Front(p))
CanCreateFile(p) == ~IsDirIn(disk, p) /\ IsDirIn(disk, Front(p))

ExtractDir ==
  /\ command.stage = "extracting"
  /\ \E x \in UpNext :
       /\ store[x.path] = "directory"
       /\ IF CanCreateDir(OutputPath(x))
          THEN /\ disk' = With(disk, OutputPath(x), "directory")
               /\ command' = [command EXCEPT !.todo = Rest(@, x)]
          ELSE End("failed", OutputPath(x)) /\ UNCHANGED disk
  /\ UNCHANGED <<store, commands>>

ExtractFile ==
  /\ command.stage = "extracting"
  /\ \E x \in UpNext :
       /\ store[x.path] # "directory"
       /\ IF ~CanCreateFile(OutputPath(x))
          THEN End("failed", OutputPath(x)) /\ UNCHANGED disk
          ELSE IF ~Verified(x)
          THEN disk' = With(disk, OutputPath(x), Partial) /\ End("failed", OutputPath(x))
          ELSE /\ disk' = With(disk, OutputPath(x), store[x.path])
               /\ command' = [command EXCEPT !.todo = Rest(@, x)]
  /\ UNCHANGED <<store, commands>>

Extracted ==
  /\ command.stage = "extracting" /\ command.todo = {}
  /\ End("ok", <<>>)
  /\ UNCHANGED <<store, disk, commands>>

\* An error of either side, or a crash: a file may be there in part.
Interrupted ==
  /\ command.stage # "ended"
  /\ \/ UNCHANGED disk
     \/ \E x \in UpNext :
          /\ store[x.path] # "directory" /\ CanCreateFile(OutputPath(x))
          /\ disk' = With(disk, OutputPath(x), Partial)
  /\ End("interrupted", <<>>)
  /\ UNCHANGED <<store, commands>>

NextCommand ==
  /\ ~Idle /\ command.stage = "ended"
  /\ command' = NoCommand
  /\ UNCHANGED <<store, disk, commands>>

Step == NotFound \/ Refused \/ Prepare \/ ExtractDir \/ ExtractFile \/ Extracted

Next ==
  \/ \E to \in OutputDirs, items \in ItemLists, merge_dirs, overwrite_files \in BOOLEAN :
       BeginExtract(to, items, merge_dirs, overwrite_files)
  \/ Step
  \/ Interrupted
  \/ NextCommand

-----------------------------------------------------------------------------
(* Properties *)

\* The items a command asks for.
Asked ==
  {q \in DOMAIN store :
     \/ SelectsAll(command.items)
     \/ \E i \in DOMAIN command.items : IsPrefix(Meant(command.items[i]), q)}

Changed ==
  {p \in DOMAIN disk \cup DOMAIN command.before :
     ~(p \in DOMAIN disk \cap DOMAIN command.before /\ disk[p] = command.before[p])}

(***************************************************************************)
(* Whatever becomes of a command, all it has done to the user's disk is to *)
(* create its output directory, and below it items that were asked for,    *)
(* whole or in part.  Nothing is removed.                                  *)
(***************************************************************************)
OnlyBelowOutputDir ==
  ~Idle =>
    \A p \in Changed :
      /\ p \in DOMAIN disk
      /\ \/ p = command.output_dir /\ disk[p] = "directory"
         \/ \E q \in Asked : p = command.output_dir \o q /\ disk[p] \in {store[q], Partial}

(***************************************************************************)
(* Without --overwrite-files no file the user had is touched.              *)
(***************************************************************************)
OldFilesAreKept ==
  ~Idle /\ ~command.overwrite_files =>
    \A p \in DOMAIN command.before : p \in DOMAIN disk /\ disk[p] = command.before[p]

(***************************************************************************)
(* When extract says it succeeded, all that was asked for is on the disk,  *)
(* and none of it damaged or partial.                                      *)
(***************************************************************************)
DoneMeansExtracted ==
  command.result = "ok" =>
    \A q \in Asked :
      LET p == command.output_dir \o q
      IN p \in DOMAIN disk /\ disk[p] = store[q] /\ disk[p] \notin {Damaged, Partial}

(***************************************************************************)
(* Every command ends (under the fairness of its own loop).                *)
(***************************************************************************)
CommandsEnd == command.stage # "ended" ~> command.stage = "ended"

-----------------------------------------------------------------------------
(* What the documentation says and the code does not do: these do not hold, *)
(* see "What else does not hold" in the README.                             *)

(***************************************************************************)
(* args.rs, --to: "Directory to extract the archive into": one that is not *)
(* there yet is a place to extract to.                                     *)
(***************************************************************************)
ExtractsToNewDir ==
  command.to # NoOutputDir /\ ~ExistsIn(command.before, command.to) => command.result # "refused"

(***************************************************************************)
(* args.rs, --merge-dirs: "Merge with existing directories if they already *)
(* exist in the output directory".                                         *)
(***************************************************************************)
MergeDirsMerges ==
  command.merge_dirs /\ command.result = "failed" => ~IsDirIn(command.before, command.error_at)

(***************************************************************************)
(* args.rs, --items: "Items to extract (files or directories)", at any     *)
(* depth: extraction never fails because a directory above is missing.     *)
(***************************************************************************)
ItemsAtAnyDepth ==
  command.result = "failed" /\ command.error_at # <<>> => IsDirIn(disk, Front(command.error_at))
=============================================================================
