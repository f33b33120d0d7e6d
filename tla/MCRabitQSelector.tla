-------------------------- MODULE MCRabitQSelector --------------------------
(* RabitQSelector for TLC. *)
EXTENDS RabitQSelector
=============================================================================
