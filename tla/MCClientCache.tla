--------------------------- MODULE MCClientCache ---------------------------
(* The client's cache for TLC. *)
EXTENDS ClientCache
=============================================================================
