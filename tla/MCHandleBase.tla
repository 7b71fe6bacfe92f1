---------------------------- MODULE MCHandleBase ----------------------------
(***************************************************************************)
(* HandleBase with interchangeable objects.                                *)
(***************************************************************************)
EXTENDS HandleBase, TLC

DataSymmetry == Permutations(Data)
=============================================================================
