------------------------------ MODULE MCStream ------------------------------
(* TLC instance of Stream: symmetry of the nodes and of the slots.         *)
EXTENDS Stream, TLC

Symmetry == Permutations(Slots) \union Permutations(Nodes)
=============================================================================
