-------------------------- MODULE MCSelectionMask --------------------------
(* SelectionMask for TLC. *)
EXTENDS SelectionMask
=============================================================================
