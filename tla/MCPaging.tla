------------------------------ MODULE MCPaging ------------------------------
(* TLC instance of Paging.                                                 *)
EXTENDS Paging
=============================================================================
