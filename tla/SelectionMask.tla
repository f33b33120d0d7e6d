--------------------------- MODULE SelectionMask ---------------------------
(***************************************************************************)
(* How one request's slice of topk_mask_unpacked gets its bytes: from the  *)
(* top-p masks of the query rows (_compute_topk_mask and its single-       *)
(* request variant), or from their top-k indices (update_topk_mask and     *)
(* rabitq_update_mask_kernel of rabitq_ops.py).                            *)
(*                                                                         *)
(* The kernel makes three stores and has no barrier between them.  The     *)
(* warps of its programs are the workers; a worker covers Width offsets    *)
(* and makes its own stores in program order, but the order between two    *)
(* workers is open.  A byte only depends on the order of the stores to it, *)
(* so one step may be one worker's whole store.                            *)
(***************************************************************************)
EXTENDS Integers, Sequences, FiniteSetsExt

CONSTANTS
  MaxQuantized,  \* most quantized tokens of a request
  MaxPending,    \* most pending tokens of a request
  MaxRows,       \* most query rows that are scored
  TopK,          \* topk
  Width,         \* offsets of a warp
  Warps          \* warps of a program; BLOCK_SIZE = Warps * Width

ASSUME SelectionAssumption ==
  /\ {MaxQuantized, MaxRows, TopK, Width, Warps} \subseteq Nat \ {0}
  /\ MaxPending \in Nat

VARIABLES
  path,           \* "topp" or "topk"
  num_quantized,  \* metadata_write_index
  total_tokens,   \* length of the slice
  result,         \* a set of tokens, or a sequence of indices, per query row
  mask,           \* the slice; Stale until written in this step
  pc              \* worker -> its next store

vars == <<path, num_quantized, total_tokens, result, mask, pc>>

\* A byte that an earlier decode step has left in the reused buffer.
Stale == -1

Tokens == 0 .. total_tokens - 1
Quantized == 0 .. num_quantized - 1

\* TokensAccounted of RabitQBackend: what is not quantized is pending.
pending_start == num_quantized

\* idx_flat: the indices of all query rows, one after the other.
IdxFlat ==
  LET k == Len(result[1])
  IN  [i \in 1 .. k * Len(result) |->
         result[((i - 1) \div k) + 1][((i - 1) % k) + 1]]

Cdiv(a, b) == (a + b - 1) \div b

\* Mutant: the grid covers the indices and the tail, not the whole slice.
Grid_NoZeroBlocks(numIndices, numPending, total) ==
  LET block == Warps * Width
  IN  Max({1, Cdiv(numPending, block), Cdiv(numIndices, block)})

\* The number of programs that update_topk_mask launches.
Grid(numIndices, numPending, total) ==
  LET block == Warps * Width
  IN  Max({1, Cdiv(total, block), Cdiv(numPending, block),
           Cdiv(numIndices, block)})

\* The offsets of a worker.
Offsets(w) == Width * w .. Width * w + Width - 1

\* _compute_quantized_topk_indices has returned: a top-p mask of every query
\* row, or its topk_quantized indices in no particular order.
TopPResults(n, rows) == [1 .. rows -> SUBSET (0 .. n - 1) \ {{}}]

TopKResults(n, rows) ==
  LET k == Min({TopK, n})
      picks == {s \in [1 .. k -> 0 .. n - 1] :
                  \A i, j \in 1 .. k : s[i] = s[j] => i = j}
  IN  [1 .. rows -> picks]

Start(n, pend, rows) ==
  /\ num_quantized = n
  /\ total_tokens = n + pend
  /\ mask = [t \in 0 .. n + pend - 1 |-> Stale]
  /\ \/ /\ path = "topp"
        /\ result \in TopPResults(n, rows)
        /\ pc = <<"direct">>
     \/ /\ path = "topk"
        /\ result \in TopKResults(n, rows)
        /\ LET grid == Grid(rows * Min({TopK, n}), pend, n + pend)
           IN  pc = [w \in 0 .. grid * Warps - 1 |-> "zero"]

---------------------------------------------------------------------------
(* Top-p *)

\* Mutant: a token has to be selected by every row.
Reduced_All == \A i \in DOMAIN result : result[i] = Quantized

\* result.any(dim=0).any(dim=0).  The scores have one row for each query row
\* and no dimension for the heads, so the second any() reduces the tokens.
Reduced == \E i \in DOMAIN result : \E t \in Quantized : t \in result[i]

\* request_slice[:num_quantized].copy_(...), then the tail is filled.
DirectMask ==
  /\ path = "topp" /\ pc # <<>>
  /\ mask' = [t \in Tokens |->
                IF t >= pending_start \/ Reduced THEN 1 ELSE 0]
  /\ pc' = <<>>
  /\ UNCHANGED <<path, num_quantized, total_tokens, result>>

---------------------------------------------------------------------------
(* Top-k *)

\* What a worker's first, second and third store write.
Zeroes(w) == Tokens \cap Offsets(w)

Scatters(w) ==
  {IdxFlat[o + 1] : o \in Offsets(w) \cap 0 .. Len(IdxFlat) - 1} \cap Quantized

TailTokens(w) ==
  {pending_start + o : o \in Offsets(w) \cap 0 .. total_tokens - pending_start - 1}

Written(ts, byte) == [t \in Tokens |-> IF t \in ts THEN byte ELSE mask[t]]

\* Mutant: the slice is cleared after the indices are stored.
Store_ZeroSecond(w) ==
  \/ /\ pc[w] = "zero"
     /\ mask' = Written(Scatters(w), 1)
     /\ pc' = [pc EXCEPT ![w] = "scatter"]
  \/ /\ pc[w] = "scatter"
     /\ mask' = Written(Zeroes(w), 0)
     /\ pc' = [pc EXCEPT ![w] = "tail"]
  \/ /\ pc[w] = "tail"
     /\ mask' = Written(TailTokens(w), 1)
     /\ pc' = [pc EXCEPT ![w] = "done"]

\* A worker's next store.
Store(w) ==
  \/ /\ pc[w] = "zero"
     /\ mask' = Written(Zeroes(w), 0)
     /\ pc' = [pc EXCEPT ![w] = "scatter"]
  \/ /\ pc[w] = "scatter"
     /\ mask' = Written(Scatters(w), 1)
     /\ pc' = [pc EXCEPT ![w] = "tail"]
  \/ /\ pc[w] = "tail"
     /\ mask' = Written(TailTokens(w), 1)
     /\ pc' = [pc EXCEPT ![w] = "done"]

UpdateMaskKernel ==
  /\ path = "topk"
  /\ \E w \in DOMAIN pc : Store(w)
  /\ UNCHANGED <<path, num_quantized, total_tokens, result>>

\* The branch of update_topk_mask for other devices, which is sequential.
CpuMask ==
  [t \in Tokens |->
     IF t >= pending_start \/ \E i \in DOMAIN IdxFlat : IdxFlat[i] = t
     THEN 1 ELSE 0]

---------------------------------------------------------------------------
Init ==
  \E n \in 1 .. MaxQuantized, pend \in 0 .. MaxPending, rows \in 1 .. MaxRows :
    Start(n, pend, rows)

Next == DirectMask \/ UpdateMaskKernel

Spec == Init /\ [][Next]_vars

---------------------------------------------------------------------------
(* Properties *)

Finished == \A w \in DOMAIN pc : pc[w] = "done"

Ones == {t \in Tokens : mask[t] = 1}

\* However the workers interleave, no byte of an earlier decode step or
\* request is left in the reused buffer, and no token is attended that is
\* neither selected nor pending: the race can only lose tokens.
KernelStaysWithinSelection ==
  path = "topk" /\ Finished =>
    \A t \in Tokens : mask[t] \in {0, CpuMask[t]}

\* A selected or pending token survives when the worker that clears its byte
\* also sets it; in particular the mask is exact when one worker does it all.
KernelKeepsOwn ==
  path = "topk" /\ Finished =>
    \A w \in DOMAIN pc : Zeroes(w) \cap (Scatters(w) \cup TailTokens(w)) \subseteq Ones

\* The top-p path writes every byte, attends all pending tokens and loses no
\* token that some query row selects.
TopPLosesNothing ==
  path = "topp" /\ Finished =>
    /\ \A t \in Tokens : mask[t] # Stale
    /\ UNION {result[i] : i \in DOMAIN result} \subseteq Ones
    /\ num_quantized .. total_tokens - 1 \subseteq Ones

---------------------------------------------------------------------------
(* What the comments say and the code does not do *)

\* "Reduce across tokens and heads: select if ANY head/token selects it"
TopPSelectsAny ==
  path = "topp" /\ Finished =>
    Ones \cap Quantized = UNION {result[i] : i \in DOMAIN result}
=============================================================================
