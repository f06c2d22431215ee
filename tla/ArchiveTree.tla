---------------------------- MODULE ArchiveTree -----------------------------
(***************************************************************************)
(* An open archive implements FileTree.                                    *)
(***************************************************************************)
EXTENDS Archive

\* What the index shows of a directory and of a file.
VisibleDir(d) == [kind |-> "dir", parent_dir |-> d.parent_dir, name |-> d.name]

VisibleFile(f) ==
  [kind |-> "file", parent_dir |-> f.parent_dir, name |-> f.name, content |-> f.sha3_checksum]

VisibleTree ==
  [id \in DOMAIN dirs \cup DOMAIN files |->
     IF id \in DOMAIN dirs THEN VisibleDir(dirs[id]) ELSE VisibleFile(files[id])]

AsTree == INSTANCE FileTree WITH tree <- VisibleTree

\* No content is taken for a damaged one.
ASSUME UndamagedAssumption == AsTree!Damaged \notin Contents

(***************************************************************************)
(* The archive, as its index shows it, is a file tree: each operation and  *)
(* each I/O error but a failed replacement is one step of the tree, or     *)
(* none, and reopening changes nothing that can be seen.                   *)
(***************************************************************************)
ImplementsFileTree == AsTree!Spec
=============================================================================
