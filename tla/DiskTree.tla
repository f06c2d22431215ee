------------------------------ MODULE DiskTree ------------------------------
(***************************************************************************)
(* The device, opened and read in full, implements FileTree.               *)
(***************************************************************************)
EXTENDS ArchiveDisk

VARIABLE shown   \* the tree one gets by opening the device and reading it

\* The quantifiers have TLC decode the device once per step.
ShownInit ==
  /\ DiskInit
  /\ \E segs \in {DecodeTable(disk)} : shown = TreeOf(segs, disk)

ShownNext ==
  /\ DiskNext
  /\ \E segs \in {DecodeTable(disk')} : shown' = TreeOf(segs, disk')

ShownSpec == ShownInit /\ [][ShownNext]_<<disk_vars, shown>>

OnDisk == INSTANCE FileTree WITH tree <- shown

(***************************************************************************)
(* Every operation changes what the device would show in one step or not   *)
(* at all, crashes included: create, rename and remove_file are atomic,    *)
(* remove_dir stops between whole subtrees, and a crash while a file is    *)
(* replaced damages the content of that file at most.                      *)
(***************************************************************************)
DiskImplementsFileTree == OnDisk!SpecWithCrashes
=============================================================================
