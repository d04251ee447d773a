------------------------------ MODULE MCThreads -----------------------------
(* Followed threads for TLC. *)
EXTENDS Threads

CONSTANTS ann, bob
=============================================================================
