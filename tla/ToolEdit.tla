------------------------------ MODULE ToolEdit ------------------------------
(***************************************************************************)
(* baf add and baf delete (crate-bin/src/main.rs): commands that make many *)
(* operations by path, or removals, one after the other, on an archive     *)
(* seen by path (PathCalls).  An error or a crash ends a command between   *)
(* any two of them or in the middle of one; then other commands follow.    *)
(* WalkDir yields the items of a directory in any order, the directory     *)
(* before them; here items of different branches may alternate as well.    *)
(***************************************************************************)
EXTENDS PathCalls

CONSTANTS
  Outside,        \* the user's files: path -> "directory" or a content
  NoUnderDir,     \* no --under-dir
  AddArguments,   \* the lists of items given to add
  UnderDirs,      \* the paths given as --under-dir, or NoUnderDir
  DeleteArguments \* the lists of paths given to delete

ASSUME OutsideAssumption ==
  /\ DOMAIN Outside \subseteq Seq(Names \cup InvalidNames) \ {<<>>}
  /\ \A q \in DOMAIN Outside : \A p \in Above(q) : p \in DOMAIN Outside /\ Outside[p] = "directory"
  /\ Damaged \notin {Outside[q] : q \in DOMAIN Outside} \cup {"directory"}

ASSUME ArgumentsAssumption ==
  LET raw_paths == Seq(Names \cup InvalidNames \cup Dotted)
  IN /\ UnderDirs \ {NoUnderDir} \subseteq raw_paths
     /\ \A raws \in DeleteArguments : \A i \in DOMAIN raws : raws[i] \in raw_paths

VARIABLES
  store,     \* the archive: path -> "directory" or a content
  command    \* its arguments, what it has still to do, how it ended

vars == <<store, command>>

-----------------------------------------------------------------------------
\* find_items_to_add.

Walk_OneLevel(item) ==
  {q \in DOMAIN Outside : IsPrefix(item, q) /\ Len(q) = Len(item) + 1}

\* What is below a directory, but not the directory.
Walk(item) == {q \in DOMAIN Outside : IsStrictPrefix(item, q)}

DirInArchive_Basename(item, under_dir) == <<Last(item)>>

\* A directory's items go under its own name, or under --under-dir instead.
DirInArchive(item, under_dir) == IF under_dir = NoUnderDir THEN <<Last(item)>> ELSE under_dir

FileInArchive(item, under_dir) ==
  IF under_dir = NoUnderDir THEN <<Last(item)>> ELSE Append(under_dir, Last(item))

ItemToAdd(turn, real_path, path_in_archive) ==
  [turn |-> turn, real_path |-> real_path, path_in_archive |-> path_in_archive]

FoundAt(turn, item, under_dir) ==
  IF Outside[item] = "directory"
  THEN {ItemToAdd(turn, q, DirInArchive(item, under_dir) \o SubSeq(q, Len(item) + 1, Len(q))) :
          q \in Walk(item)}
  ELSE {ItemToAdd(turn, item, FileInArchive(item, under_dir))}

ItemsToAdd(items, under_dir) ==
  UNION {FoundAt(turn, items[turn], under_dir) : turn \in DOMAIN items}

IsDir(x) == Outside[x.real_path] = "directory"

\* The items that may come next.
UpNext(todo) ==
  {x \in todo : \A y \in todo :
     x.turn < y.turn \/ (x.turn = y.turn /\ ~IsStrictPrefix(y.real_path, x.real_path))}

-----------------------------------------------------------------------------
NoCommand ==
  [action |-> "none", arguments |-> <<>>, under_dir |-> NoUnderDir, merge_dirs |-> FALSE,
   overwrite_files |-> FALSE, dirs |-> {}, files |-> {}, to_delete |-> {},
   stage |-> "ended", result |-> "none", error_at |-> <<>>, before |-> <<>>]

Idle == command = NoCommand

End(result, error_at) ==
  command' = [command EXCEPT !.stage = "ended", !.result = result, !.error_at = error_at]

Exists_AsDir(raw) ==
  IsPath(raw) /\ Meant(raw) \in DOMAIN store /\ store[Meant(raw)] = "directory"

\* get_item_at finds something.
Exists(raw) == IsPath(raw) /\ Meant(raw) \in {<<>>} \cup DOMAIN store

Clash(to_add, allowed) == ~allowed /\ \E x \in to_add : Exists(x.path_in_archive)

\* Everything is looked up before anything is changed.
BeginAdd(items, under_dir, merge_dirs, overwrite_files) ==
  LET missing == \E i \in DOMAIN items : items[i] \notin DOMAIN Outside
      to_add  == IF missing THEN {} ELSE ItemsToAdd(items, under_dir)
      dirs    == {x \in to_add : IsDir(x)}
      files   == to_add \ dirs
      refused == missing \/ Clash(dirs, merge_dirs) \/ Clash(files, overwrite_files)
  IN /\ Idle
     /\ command' = [NoCommand EXCEPT
                      !.action = "add", !.arguments = items, !.under_dir = under_dir,
                      !.merge_dirs = merge_dirs, !.overwrite_files = overwrite_files,
                      !.dirs = dirs, !.files = files, !.before = store,
                      !.stage = IF refused THEN "ended" ELSE "creating dirs",
                      !.result = IF refused THEN "refused" ELSE "none"]
     /\ UNCHANGED store

Rest_Kept(todo, x) == todo

Rest(todo, x) == todo \ {x}

CreateNextDir ==
  /\ command.stage = "creating dirs"
  /\ \E x \in UpNext(command.dirs) :
       IF Possible("create_dir_at", x.path_in_archive, store)
       THEN /\ store' = After("create_dir_at", Meant(x.path_in_archive), Damaged, store)
            /\ command' = [command EXCEPT !.dirs = Rest(@, x)]
       ELSE End("failed", x.path_in_archive) /\ UNCHANGED store

\* The sizes of the files are collected by path, and as many are expected as
\* there are files: assert_eq!(files.len(), files_size.len()).
SizesAssert == Cardinality(command.files) = Cardinality({x.real_path : x \in command.files})

DirsCreated ==
  /\ command.stage = "creating dirs" /\ command.dirs = {}
  /\ IF SizesAssert THEN command' = [command EXCEPT !.stage = "writing files"] ELSE End("panic", <<>>)
  /\ UNCHANGED store

WriteNextFile ==
  /\ command.stage = "writing files"
  /\ \E x \in UpNext(command.files) :
       IF Possible("write_file_at", x.path_in_archive, store)
       THEN /\ store' = After("write_file_at", Meant(x.path_in_archive), Outside[x.real_path], store)
            /\ command' = [command EXCEPT !.files = Rest(@, x)]
       ELSE End("failed", x.path_in_archive) /\ UNCHANGED store

FilesWritten ==
  /\ command.stage = "writing files" /\ command.files = {}
  /\ End("ok", <<>>)
  /\ UNCHANGED store

-----------------------------------------------------------------------------
BeginDelete(raws) ==
  LET refused == \E i \in DOMAIN raws : ~Exists(raws[i]) \/ Meant(raws[i]) = <<>>
  IN /\ Idle
     /\ command' = [NoCommand EXCEPT
                      !.action = "delete", !.arguments = raws, !.before = store,
                      !.to_delete = IF refused THEN {} ELSE {Meant(raws[i]) : i \in DOMAIN raws},
                      !.stage = IF refused THEN "ended" ELSE "deleting",
                      !.result = IF refused THEN "refused" ELSE "none"]
     /\ UNCHANGED store

\* It went with a directory above it.
Skipped(p) == p \notin DOMAIN store

RemovalOf(p) == IF store[p] = "directory" THEN "remove_dir_at" ELSE "remove_file_at"

\* In any order: the items are kept in a HashSet.
DeleteNext ==
  /\ command.stage = "deleting"
  /\ \E p \in command.to_delete :
       CASE Skipped(p) ->
              command' = [command EXCEPT !.to_delete = Rest(@, p)] /\ UNCHANGED store
         [] ~Skipped(p) /\ p \in DOMAIN store ->
              /\ store' = After(RemovalOf(p), p, Damaged, store)
              /\ command' = [command EXCEPT !.to_delete = Rest(@, p)]
         [] OTHER -> End("failed", p) /\ UNCHANGED store

Deleted ==
  /\ command.stage = "deleting" /\ command.to_delete = {}
  /\ End("ok", <<>>)
  /\ UNCHANGED store

-----------------------------------------------------------------------------
\* An error of the archive or of the user's files, or a crash.
Interrupted ==
  /\ command.stage # "ended"
  /\ \/ UNCHANGED store
     \/ /\ command.stage = "creating dirs"
        /\ \E x \in UpNext(command.dirs) :
             store' \in CutShort("create_dir_at", x.path_in_archive, store)
     \/ /\ command.stage = "writing files"
        /\ \E x \in UpNext(command.files) :
             store' \in CutShort("write_file_at", x.path_in_archive, store)
     \/ /\ command.stage = "deleting"
        /\ \E p \in command.to_delete \cap DOMAIN store : store' \in CutShort(RemovalOf(p), p, store)
  /\ End("interrupted", <<>>)

NextCommand == ~Idle /\ command.stage = "ended" /\ command' = NoCommand /\ UNCHANGED store

Init == store = <<>> /\ command = NoCommand

Step ==
  CreateNextDir \/ DirsCreated \/ WriteNextFile \/ FilesWritten \/ DeleteNext \/ Deleted

Next ==
  \/ \E items \in AddArguments, under_dir \in UnderDirs, merge_dirs, overwrite_files \in BOOLEAN :
       BeginAdd(items, under_dir, merge_dirs, overwrite_files)
  \/ \E raws \in DeleteArguments : BeginDelete(raws)
  \/ Step
  \/ Interrupted
  \/ NextCommand

\* A command that runs goes on until it ends.
Spec == Init /\ [][Next]_vars /\ WF_vars(Step)

-----------------------------------------------------------------------------
(* Properties *)

\* Where an item belongs in the archive, and what is to be found there.
Landing(item) ==
  LET under == IF command.under_dir = NoUnderDir THEN <<>> ELSE Meant(command.under_dir)
  IN IF Outside[item] = "directory" /\ command.under_dir # NoUnderDir
     THEN under ELSE Append(under, Last(item))

Wanted ==
  UNION {LET item == command.arguments[i]
         IN {[path |-> Landing(item) \o SubSeq(q, Len(item) + 1, Len(q)), content |-> Outside[q]] :
               q \in {q \in DOMAIN Outside : IsPrefix(item, q) /\ (q = item => Outside[q] # "directory")}} :
         i \in {i \in DOMAIN command.arguments : command.arguments[i] \in DOMAIN Outside}}

Unwanted == {Meant(command.arguments[i]) : i \in DOMAIN command.arguments}

Changed ==
  {q \in DOMAIN store \cup DOMAIN command.before :
     ~(q \in DOMAIN store \cap DOMAIN command.before /\ store[q] = command.before[q])}

(***************************************************************************)
(* However far a command got and however it ended, what it changed is what *)
(* it was asked to: add has added wanted items and directories above them, *)
(* or replaced files by wanted ones; delete has removed items at or below  *)
(* the paths given.  A command that was refused has changed nothing.       *)
(***************************************************************************)
OnlyWhatWasAsked ==
  /\ command.action = "add" =>
       \A q \in Changed :
         /\ q \in DOMAIN store
         /\ \/ \E w \in Wanted : q = w.path /\ store[q] \in {w.content, Damaged}
            \/ q \notin DOMAIN command.before /\ store[q] = "directory" /\ \E w \in Wanted : q \in Above(w.path)
  /\ command.action = "delete" =>
       \A q \in Changed : q \notin DOMAIN store /\ \E p \in Unwanted : IsPrefix(p, q)
  /\ command.result = "refused" => Changed = {}

(***************************************************************************)
(* A command that says it is done has left nothing undone: every item of   *)
(* the user's is where it belongs, with its content (or that of another    *)
(* item that belongs there too); nothing is left of what was to go.  And   *)
(* delete never fails over its own paths: whatever overlaps, and in        *)
(* whatever order, a path already gone is skipped.                         *)
(***************************************************************************)
DoneMeansDone ==
  /\ command.result = "ok" =>
       /\ command.action = "add" =>
            \A w \in Wanted : w.path \in DOMAIN store /\ [path |-> w.path, content |-> store[w.path]] \in Wanted
       /\ command.action = "delete" =>
            \A q \in DOMAIN store, p \in Unwanted : ~IsPrefix(p, q)
  /\ command.action = "delete" => command.result # "failed"

(***************************************************************************)
(* Without --overwrite-files no file that was in the archive is touched,   *)
(* be the command interrupted or not.                                      *)
(***************************************************************************)
OldFilesAreKept ==
  command.action = "add" /\ ~command.overwrite_files =>
    \A q \in DOMAIN command.before : q \in DOMAIN store /\ store[q] = command.before[q]

(***************************************************************************)
(* Every command ends (under the fairness of its own loops).               *)
(***************************************************************************)
CommandsEnd == command.stage # "ended" ~> command.stage = "ended"

-----------------------------------------------------------------------------
(* What the documentation says and the code does not do: these do not hold, *)
(* see "What else does not hold" in the README.                             *)

(***************************************************************************)
(* args.rs, --merge-dirs: "Merge with existing directories if they already *)
(* exist in the archive".                                                  *)
(***************************************************************************)
MergeDirsMerges ==
  command.merge_dirs /\ command.result = "failed" =>
    ~(Exists_AsDir(command.error_at) /\ Meant(command.error_at) \in DOMAIN command.before)

(***************************************************************************)
(* main.rs:211, assert_eq!(files.len(), files_size.len()).                 *)
(***************************************************************************)
SizesAssertHolds == command.result # "panic"

(***************************************************************************)
(* args.rs, --overwrite-files: "Overwrite existing files if they already   *)
(* exist in the archive": without it, a file in the archive stays as it is *)
(* while add runs.                                                         *)
(***************************************************************************)
OverwritesOnlyIfAsked ==
  [][command.action = "add" /\ ~command.overwrite_files /\ command'.result # "interrupted" =>
       \A q \in DOMAIN store : q \in DOMAIN store' /\ store'[q] = store[q]]_vars
=============================================================================
