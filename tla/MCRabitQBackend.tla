-------------------------- MODULE MCRabitQBackend --------------------------
(* RabitQBackend for TLC: request ids are interchangeable model values. *)
EXTENDS RabitQBackend, TLC

Symmetry == Permutations(Reqs)

\* A batch of two requests does not tell a running sum from the length of the
\* slice in front, so the offsets are also evaluated for larger batches: the
\* slices of up to four prepared requests lie side by side from zero on.
ASSUME OffsetsTile ==
  \A m \in 1 .. 4 : \A total \in [1 .. m -> 1 .. 3] :
    LET place == [i \in 1 .. m |-> i]
        offs  == MaskOffsets(place, place,
                             [i \in 1 .. m |-> [total_tokens |-> total[i]]])
        slice(j) == offs[j] .. offs[j] + total[j] - 1
    IN  /\ UNION {slice(j) : j \in 1 .. m} = 0 .. offs[m + 1] - 1
        /\ \A i, j \in 1 .. m : i < j => \A x \in slice(i), y \in slice(j) : x < y
===========================================================================
