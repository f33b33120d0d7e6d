--------------------------- MODULE MCQuantStream ---------------------------
(* QuantStream for TLC. *)
EXTENDS QuantStream
===========================================================================
