------------------------------ MODULE MCIter --------------------------------
(***************************************************************************)
(* All trees of up to four items, of every shape and numbering.            *)
(***************************************************************************)
EXTENDS Iter

CONSTANT c

MCNameOrder == {<<1, 2>>}
=============================================================================
