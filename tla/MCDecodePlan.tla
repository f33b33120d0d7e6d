---------------------------- MODULE MCDecodePlan ----------------------------
(* DecodePlan for TLC: request ids are interchangeable model values. *)
EXTENDS DecodePlan, TLC

Symmetry == Permutations(Reqs)
=============================================================================
