---------------------------- MODULE MCTopPSearch ----------------------------
(* TopPSearch for TLC. *)
EXTENDS TopPSearch
=============================================================================
