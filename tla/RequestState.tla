--------------------------- MODULE RequestState ---------------------------
(***************************************************************************)
(* One RabitQRequestState (rabitq.py) and the operations the attention     *)
(* backend applies to it.                                                  *)
(*                                                                         *)
(* The state is split in two: a record of the host-side fields, and the    *)
(* rows of the metadata tensors (x_b_gpu, x_b_packed_gpu, sum_x_b_gpu,     *)
(* key_norms_gpu, k_bar_dot_k_gpu, cq_dot_kr_gpu, which are allocated,     *)
(* grown and written together).  A row is abstracted to the position in    *)
(* the request's KV cache of the key it was computed from; a row nobody    *)
(* wrote since torch.empty, and a row computed from a cache slot that      *)
(* holds no token of the request, are Garbage.                             *)
(***************************************************************************)
EXTENDS Integers

CONSTANTS
  BatchSize,     \* RabitQRuntimeState.batch_size (512)
  MinSpare,      \* the 512 rows of head room of both allocations
  SpareFactor    \* decode tokens reserved per prefill token (10)

ASSUME SizeAssumption ==
  /\ BatchSize \in Nat \ {0}
  /\ MinSpare \in Nat \ {0}
  /\ SpareFactor \in Nat

Garbage == -1

Larger(a, b) == IF a >= b THEN a ELSE b

RequestStates ==
  [exists : BOOLEAN, count : Nat, prepared : BOOLEAN, total_tokens : Nat,
   write_index : Nat, capacity : Nat, pending : Nat]

\* No entry in request_states; the other fields are the dataclass defaults.
NoState ==
  [exists |-> FALSE, count |-> 0, prepared |-> FALSE, total_tokens |-> 0,
   write_index |-> 0, capacity |-> 0, pending |-> 0]

NoRows == [i \in 0 .. -1 |-> Garbage]

---------------------------------------------------------------------------
(* Prefill *)

\* _update_prefill_stats for one request scheduled with n > 0 tokens: the
\* state is created, and a request already prepared is left alone.
UpdatePrefillStats(s, n) ==
  IF s.prepared
  THEN [s EXCEPT !.exists = TRUE]
  ELSE [s EXCEPT !.exists = TRUE, !.count = @ + n, !.total_tokens = @ + n]

\* The requests _process_pending_quantization_async does not skip.
Quantizes(s) == s.exists /\ ~s.prepared /\ s.count # 0

PrefillCapacity(n) == n + Larger(n * SpareFactor, MinSpare)

\* _process_pending_quantization_async for one request, host-side fields.
QuantizePrefill(s, n) ==
  IF Quantizes(s)
  THEN [s EXCEPT !.capacity = PrefillCapacity(n), !.write_index = n,
                 !.prepared = TRUE]
  ELSE s

\* ... and its rows: this step's n keys, which go to positions first, ...
QuantizePrefillRows(m, s, first, n) ==
  IF Quantizes(s)
  THEN [i \in 0 .. PrefillCapacity(n) - 1 |->
          IF i < n THEN first + i ELSE Garbage]
  ELSE m

---------------------------------------------------------------------------
(* Decode *)

\* _append_decode_kv for one request scheduled with n > 0 tokens.
AppendDecode(s, n) ==
  IF s.exists /\ s.prepared
  THEN [s EXCEPT !.total_tokens = @ + n, !.pending = @ + n]
  ELSE s

\* Mutant: the batch must be exceeded, not reached.
NeedsQuantization_Above(s) == s.prepared /\ s.pending > BatchSize

\* The guard in front of both calls of _quantize_pending_keys.
NeedsQuantization(s) == s.prepared /\ s.pending >= BatchSize

\* The capacity _quantize_pending_keys leaves behind.
GrownCapacity(s) ==
  LET end == s.write_index + s.pending
  IN  IF end > s.capacity THEN Larger(end * 2, s.capacity + MinSpare)
                          ELSE s.capacity

\* Mutant: num_pending_decode_tokens is not reset.
QuantizePending_NoReset(s) ==
  IF NeedsQuantization(s)
  THEN [s EXCEPT !.capacity = GrownCapacity(s), !.write_index = @ + s.pending]
  ELSE s

\* _quantize_pending_keys, host-side fields.
QuantizePending(s) ==
  IF NeedsQuantization(s)
  THEN [s EXCEPT !.capacity = GrownCapacity(s),
                 !.write_index = @ + s.pending,
                 !.pending = 0]
  ELSE s

\* _extract_keys_from_paged_cache: len tokens of the request are cached.
KeyAt(pos, len) == IF pos < len THEN pos ELSE Garbage

\* Mutant: the tensors keep their size when capacity grows.
QuantizePendingRows_NoRealloc(m, s, len) ==
  IF NeedsQuantization(s)
  THEN [i \in DOMAIN m |->
          IF i \in s.write_index .. s.write_index + s.pending - 1
          THEN KeyAt(s.total_tokens - s.pending + (i - s.write_index), len)
          ELSE m[i]]
  ELSE m

\* Mutant: pending_start_pos is one too high.
QuantizePendingRows_LateStart(m, s, len) ==
  IF NeedsQuantization(s)
  THEN [i \in 0 .. GrownCapacity(s) - 1 |->
          IF i \in s.write_index .. s.write_index + s.pending - 1
          THEN KeyAt(s.total_tokens - s.pending + 1 + (i - s.write_index), len)
          ELSE IF i < s.write_index THEN m[i] ELSE Garbage]
  ELSE m

\* Mutant: a reallocation forgets to copy the old rows.
QuantizePendingRows_NoCopy(m, s, len) ==
  IF NeedsQuantization(s)
  THEN [i \in 0 .. GrownCapacity(s) - 1 |->
          IF i \in s.write_index .. s.write_index + s.pending - 1
          THEN KeyAt(s.total_tokens - s.pending + (i - s.write_index), len)
          ELSE IF GrownCapacity(s) = s.capacity THEN m[i] ELSE Garbage]
  ELSE m

\* ... and its rows: the pending keys are the last ones of total_tokens, and
\* a reallocation copies the rows below write_index only.
QuantizePendingRows(m, s, len) ==
  IF NeedsQuantization(s)
  THEN LET start == s.total_tokens - s.pending
           kept  == IF GrownCapacity(s) > s.capacity THEN s.write_index
                                                     ELSE s.capacity
       IN  [i \in 0 .. GrownCapacity(s) - 1 |->
              IF i \in s.write_index .. s.write_index + s.pending - 1
              THEN KeyAt(start + (i - s.write_index), len)
              ELSE IF i < kept THEN m[i] ELSE Garbage]
  ELSE m

---------------------------------------------------------------------------
(* Consistency of one request's books *)

\* Every token on the books is quantized or pending, the quantized ones fit
\* the allocated rows, and fewer than a batch wait.  A request that is not
\* prepared has no token on the books between two steps.
Accounted(s) ==
  IF s.prepared
  THEN /\ s.exists
       /\ s.total_tokens = s.write_index + s.pending
       /\ s.write_index \in 1 .. s.capacity
       /\ s.pending < BatchSize
  ELSE s.count = 0 /\ s.total_tokens = 0 /\ s.write_index = 0 /\ s.pending = 0
===========================================================================
