--------------------------- MODULE MCArchiveDisk ----------------------------
(***************************************************************************)
(* Small instances of DiskTree: contents of 0, 1 and 2 chunks; the one     *)
(* chunk of "short" is the last one of "long".                             *)
(***************************************************************************)
EXTENDS DiskTree, TLC

CONSTANTS empty, short, long, first_chunk, last_chunk

MCContentLen == [c \in Contents |-> CASE c = empty -> 0 [] c = long -> 2 [] OTHER -> 1]

MCChunks ==
  [c \in Contents |->
     CASE c = empty -> <<>> [] c = long -> <<first_chunk, last_chunk>> [] OTHER -> <<last_chunk>>]

\* Names are only ever compared.
MCSymmetry == Permutations(Names)
=============================================================================
