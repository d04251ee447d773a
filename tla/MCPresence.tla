----------------------------- MODULE MCPresence -----------------------------
(* TLC instance of Presence.  Nothing is symmetric: a liveness property is *)
(* among those that are checked.                                           *)
EXTENDS Presence
=============================================================================
