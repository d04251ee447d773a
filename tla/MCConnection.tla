---------------------------- MODULE MCConnection ---------------------------
(***************************************************************************)
(* The client for TLC: its connection, and before it connects one call.    *)
(* The two share nothing, so nothing is lost by not interleaving them.     *)
(***************************************************************************)
EXTENDS Connection, Calls

Waiting == setting.mode = "auto" /\ setting.sourced /\ status = "idle" /\ loaded = {} /\ ~hidden

ClientNext ==
    \/ Next /\ call = NoCall /\ UNCHANGED call
    \/ Waiting /\ readable = Threads /\ recent = <<>> /\ CallsNext /\ UNCHANGED vars

ClientInit == Init /\ CallsInit

ClientSpec == ClientInit /\ [][ClientNext]_<<vars, call>> /\ Fairness
=============================================================================
