---------------------------- MODULE MCSqlStorage ----------------------------
(* TLC instance of SqlStorage: two calls on the same tables, one may die.  *)
EXTENDS SqlStorage
=============================================================================
