------------------------- MODULE MCChangingSource --------------------------
(***************************************************************************)
(* MCArchive's instances, with contents that change length.                *)
(***************************************************************************)
EXTENDS ChangingSource, MCArchive
=============================================================================
