---------------------------- MODULE MCReadState -----------------------------
(***************************************************************************)
(* Instances of ReadState for TLC.                                         *)
(***************************************************************************)
EXTENDS ReadState, TLC

SlotSymmetry == Permutations(Slots)
Symmetry == SlotSymmetry \cup Permutations(Users)
=============================================================================
