---------------------------- MODULE MCAdmission -----------------------------
(***************************************************************************)
(* Instances of AdmissionOverlaps for TLC.                                 *)
(***************************************************************************)
EXTENDS AdmissionOverlaps, TLC

NameOnly == {"name"}
NameAndVisibility == {"name", "visibility"}

Symmetry == Permutations(Slots) \cup Permutations(Users) \cup Permutations(Links)
=============================================================================
