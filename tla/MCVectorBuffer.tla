---------------------------- MODULE MCVectorBuffer ----------------------------
(***************************************************************************)
(* Small instances of VectorBuffer for TLC.  The items are interchangeable *)
(* except for the order in which they were pushed.                         *)
(***************************************************************************)
EXTENDS VectorBuffer, TLC

ItemSymmetry == Permutations(Items)
===============================================================================
