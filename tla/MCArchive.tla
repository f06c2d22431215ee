----------------------------- MODULE MCArchive ------------------------------
(***************************************************************************)
(* Small instances of Archive: contents of length 0, 1 and 2 (one of them  *)
(* as long as another), one slot of each kind in the first segment.        *)
(***************************************************************************)
EXTENDS ArchiveTree, TLC

CONSTANTS empty, short, other, long

MCContentLen == [c \in Contents |-> CASE c = empty -> 0 [] c = long -> 2 [] OTHER -> 1]

\* Names are only ever compared.
MCSymmetry == Permutations(Names)
=============================================================================
