------------------------------ MODULE MCScoring ------------------------------
(* Scoring for TLC: two words per key, every query on a grid on which values *)
(* fall on, between and half-way between codes.                               *)
EXTENDS Scoring

MCGrid == -1 .. 3
=============================================================================
