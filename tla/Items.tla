------------------------------- MODULE Items --------------------------------
(***************************************************************************)
(* What the models of trees and of paths say of the items of an archive.   *)
(***************************************************************************)
CONSTANT Names   \* what ItemName accepts

\* A content that does not match its checksum any more.
Damaged == "damaged"
=============================================================================
