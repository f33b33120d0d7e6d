--------------------------- MODULE RabitQBackend ---------------------------
(***************************************************************************)
(* One attention layer of the RabitQ backend (rabitq.py) under the vLLM    *)
(* scheduler: the bookkeeping of every request over prefill and decode     *)
(* steps, and the mask with which the batched decode kernel attends.       *)
(*                                                                         *)
(* A step runs forward() once on a batch, the requests in the order of     *)
(* attn_metadata.req_ids, each with the number of tokens scheduled for it. *)
(* Every layer sees the same batches, so every layer's request_states      *)
(* evolve alike.  The scheduler is external: requests arrive (possibly     *)
(* with a cached prefix), are chunked, mixed and preempted.                *)
(***************************************************************************)
EXTENDS RequestState, Sequences

CONSTANTS
  Reqs,        \* request ids
  MaxPrompt,   \* longest prompt
  MaxCached,   \* longest prefix found in the prefix cache on arrival
  MaxLen,      \* bound on a request's tokens (named bound of the model)
  MaxBatch,    \* requests per step (max_num_seqs)
  MaxPreempts  \* bound on the preemptions of a behaviour

ASSUME WorkloadAssumption ==
  /\ MaxPrompt \in Nat /\ MaxCached \in Nat /\ MaxLen \in Nat
  /\ MaxBatch \in Nat /\ MaxPreempts \in Nat

VARIABLES
  todo,        \* todo[r]: tokens of r known but not computed yet
  kvLen,       \* kvLen[r]: tokens of r whose K and V are in the paged cache
  arrived,     \* the requests the scheduler knows
  preempts,    \* preemptions so far
  states,      \* layer_state.request_states
  rows,        \* rows[r]: the metadata tensors of r
  offset0,     \* mask_offsets_buffer[0] (Unallocated: no buffer yet)
  batch,       \* the last step's req_ids (ghost)
  attn,        \* attn[r]: what r's attention read in the last step (ghost)
  bypassed     \* bypassed[r]: K/V of r entered or left the cache without
               \* the bookkeeping seeing it (ghost)

sched == <<todo, kvLen, arrived, preempts>>
vars  == <<sched, states, rows, offset0, batch, attn, bypassed>>

Unallocated == -1

\* A byte of the mask is a record: written for key position pos of request
\* req, because the token is pending or by the scoring of its row with the
\* query vectors of the requests in queries.
Undefined == [req |-> "none", pos |-> 0, kind |-> "undefined", queries |-> {}]

Idle    == [how |-> "idle",   cells |-> <<>>]  \* not scheduled
Dense   == [how |-> "dense",  cells |-> <<>>]  \* FlashInfer, all keys
NoWrite == [how |-> "none",   cells |-> <<>>]  \* output left unwritten

---------------------------------------------------------------------------
(* The scheduler's side of a step *)

\* Batches in the order of req_ids.
Batches ==
  {b \in UNION {[1 .. k -> Reqs] : k \in 1 .. MaxBatch} :
     \A i, j \in DOMAIN b : b[i] = b[j] => i = j}

Scheduled(b) == {b[i] : i \in DOMAIN b}

\* The scheduler may give a live request any part of its uncomputed tokens;
\* requests with one token come first in the batch
\* (reorder_batch_to_split_decodes_and_prefills).
Schedulable(b, n) ==
  /\ \A r \in Scheduled(b) :
       /\ r \in arrived
       /\ n[r] \in 1 .. todo[r]
       /\ kvLen[r] + n[r] <= MaxLen
       /\ states[r].total_tokens + n[r] <= MaxLen
  /\ \A i, j \in DOMAIN b : n[b[i]] = 1 /\ n[b[j]] > 1 => i < j

\* The tokens become cached; a request with no token left gets the sampled one.
Compute(b, n) ==
  /\ kvLen' = [r \in Reqs |->
                 IF r \in Scheduled(b) THEN kvLen[r] + n[r] ELSE kvLen[r]]
  /\ todo' = [r \in Reqs |->
                IF r \in Scheduled(b)
                THEN IF todo[r] = n[r] THEN 1 ELSE todo[r] - n[r]
                ELSE todo[r]]
  /\ batch' = b
  /\ UNCHANGED <<arrived, preempts>>

Arrive(r, len, hit) ==
  /\ r \notin arrived
  /\ hit < len
  /\ arrived' = arrived \cup {r}
  /\ todo' = [todo EXCEPT ![r] = len - hit]
  /\ kvLen' = [kvLen EXCEPT ![r] = hit]
  /\ bypassed' = [bypassed EXCEPT ![r] = hit > 0]
  /\ UNCHANGED <<preempts, states, rows, offset0, batch, attn>>

\* The scheduler frees the blocks and will recompute every token; the backend
\* is not told.  (Nor is it told that a request finished: its entry stays in
\* request_states, and the request is one that is never scheduled again.)
Preempt(r) ==
  /\ preempts < MaxPreempts
  /\ kvLen[r] > 0
  /\ preempts' = preempts + 1
  /\ kvLen' = [kvLen EXCEPT ![r] = 0]
  /\ todo' = [todo EXCEPT ![r] = @ + kvLen[r]]
  /\ bypassed' = [bypassed EXCEPT ![r] = TRUE]
  /\ batch' = <<>>
  /\ attn' = [q \in Reqs |-> Idle]
  /\ UNCHANGED <<arrived, states, rows, offset0>>

---------------------------------------------------------------------------
(* forward() on a batch with a request of more than one token *)

\* The whole batch takes this branch, decode requests included: FlashInfer
\* computes the attention, the statistics are updated, and each request not
\* prepared yet is quantized and marked prepared.
ForwardPrefill(b, n) ==
  LET stats(r) == UpdatePrefillStats(states[r], n[r])
  IN  /\ Schedulable(b, n)
      /\ \E r \in Scheduled(b) : n[r] > 1
      /\ Compute(b, n)
      /\ states' = [r \in Reqs |->
                      IF r \in Scheduled(b) THEN QuantizePrefill(stats(r), n[r])
                                            ELSE states[r]]
      /\ rows' = [r \in Reqs |->
                    IF r \in Scheduled(b)
                    THEN QuantizePrefillRows(rows[r], stats(r), kvLen[r], n[r])
                    ELSE rows[r]]
      /\ bypassed' = [r \in Reqs |->
                        \/ bypassed[r]
                        \/ r \in Scheduled(b) /\ states[r].prepared]
      /\ attn' = [r \in Reqs |-> IF r \in Scheduled(b) THEN Dense ELSE Idle]
      /\ UNCHANGED offset0

---------------------------------------------------------------------------
(* forward() on a batch of single tokens *)

IsPrepared(r) == states[r].exists /\ states[r].prepared

\* batch_info of _run_rabitq_decode: the places in the batch of the prepared
\* requests ('req_idx', counted from one here).
BatchInfo(b) ==
  LET info[i \in 0 .. Len(b)] ==
        IF i = 0 THEN <<>>
        ELSE IF IsPrepared(b[i]) THEN Append(info[i - 1], i) ELSE info[i - 1]
  IN  info[Len(b)]

\* The running sums of total_tokens over batch_info: entry j is the offset of
\* the j-th request's slice, the last entry total_kv_tokens.
MaskOffsets(b, info, st) ==
  LET sum[j \in 0 .. Len(info)] ==
        IF j = 0 THEN 0 ELSE sum[j - 1] + st[b[info[j]]].total_tokens
  IN  [j \in 1 .. Len(info) + 1 |-> sum[j - 1]]

\* mask_offsets_buffer[0] after _compute_topk_mask, which overwrites it, or
\* _compute_topk_mask_single, which trusts it once the buffer exists.
FirstOffset(info, offs) ==
  IF Len(info) = 1
  THEN IF offset0 = Unallocated THEN 0 ELSE offset0
  ELSE offs[1]

\* mask_offsets_list[info['req_idx']] raises IndexError, which
\* _run_batch_decode turns into the per-request fallback.
OffsetLookupFails(info) ==
  Len(info) > 1 /\ \E j \in DOMAIN info : info[j] > Len(info)

\* What a request's slice holds at position k: [:num_quantized] comes from the
\* scores, [pending_start:num_total_kv] is filled with ones.
SliceCell(r, s, k, queries) ==
  IF k \in s.total_tokens - s.pending .. s.total_tokens - 1
  THEN [req |-> r, pos |-> k, kind |-> "pending", queries |-> {}]
  ELSE IF k < s.write_index
       THEN [req |-> r, pos |-> k, kind |-> "scored", queries |-> queries]
       ELSE Undefined

\* Mutant: query_idx is not advanced from one request to the next.
QueriesOf_FirstRow(b, info, j) ==
  IF Len(info) = 1 THEN Scheduled(b) ELSE {b[1]}

\* The query rows with which the j-th request of batch_info is scored: row j
\* (query_idx counts batch_info only), or all rows on the single path.
QueriesOf(b, info, j) == IF Len(info) = 1 THEN Scheduled(b) ELSE {b[j]}

\* Byte x of topk_mask_unpacked, from the slices written in batch_info order.
MaskByte(b, info, st, x) ==
  LET offs == MaskOffsets(b, info, st)
      start(j) == IF Len(info) = 1 THEN 0 ELSE offs[info[j]]
      covers == {j \in DOMAIN info :
                   x \in start(j) .. start(j) + st[b[info[j]]].total_tokens - 1}
      last == CHOOSE j \in covers : \A i \in covers : i <= j
  IN  IF covers = {} THEN Undefined
      ELSE SliceCell(b[info[last]], st[b[info[last]]], x - start(last),
                     QueriesOf(b, info, last))

\* The kernel planned by build() for the whole batch: row i reads the bytes
\* from entry i of mask_offsets on, one for each cached token of its request;
\* mask_offsets has only as many entries as batch_info.
KernelRow(b, info, st, i) ==
  LET offs == MaskOffsets(b, info, st)
      from == IF i = 1 THEN FirstOffset(info, offs) ELSE offs[i]
  IN  [how |-> "masked",
       cells |-> [k \in 0 .. kvLen'[b[i]] - 1 |->
                    IF i <= Len(info) THEN MaskByte(b, info, st, from + k)
                                      ELSE Undefined]]

\* _run_individual_decode: the indices go straight to the paged cache.
IndividualRow(r, s) ==
  [how |-> "sdpa",
   cells |-> [k \in 0 .. s.total_tokens - 1 |->
                IF k < kvLen'[r] THEN SliceCell(r, s, k, {r})
                                 ELSE Undefined]]

\* The decode wrapper is absent (build() could not make one), raises in run(),
\* or runs.
Wrapper == {"absent", "raises", "runs"}

ForwardDecode(b, n, wrapper) ==
  LET appended(r) == AppendDecode(states[r], n[r])
      info  == BatchInfo(b)
      offs  == MaskOffsets(b, info, states')
      masks == wrapper # "absent" /\ info # <<>>
      batched == masks /\ wrapper = "runs" /\ ~OffsetLookupFails(info)
  IN  /\ Schedulable(b, n)
      /\ \A r \in Scheduled(b) : n[r] = 1
      /\ Compute(b, n)
      /\ states' = [r \in Reqs |->
                      IF r \in Scheduled(b) THEN QuantizePending(appended(r))
                                            ELSE states[r]]
      /\ rows' = [r \in Reqs |->
                    IF r \in Scheduled(b)
                    THEN QuantizePendingRows(rows[r], appended(r), kvLen'[r])
                    ELSE rows[r]]
      /\ bypassed' = [r \in Reqs |->
                        \/ bypassed[r]
                        \/ r \in Scheduled(b) /\ ~IsPrepared(r)]
      /\ offset0' = IF masks THEN FirstOffset(info, offs) ELSE offset0
      /\ attn' = [r \in Reqs |->
                    IF r \notin Scheduled(b) THEN Idle
                    ELSE IF batched
                    THEN KernelRow(b, info, states',
                                   CHOOSE i \in DOMAIN b : b[i] = r)
                    ELSE IF IsPrepared(r) THEN IndividualRow(r, states'[r])
                                          ELSE NoWrite]

---------------------------------------------------------------------------
Init ==
  /\ todo = [r \in Reqs |-> 0]
  /\ kvLen = [r \in Reqs |-> 0]
  /\ arrived = {}
  /\ preempts = 0
  /\ states = [r \in Reqs |-> NoState]
  /\ rows = [r \in Reqs |-> NoRows]
  /\ offset0 = Unallocated
  /\ batch = <<>>
  /\ attn = [r \in Reqs |-> Idle]
  /\ bypassed = [r \in Reqs |-> FALSE]

Next ==
  \/ \E r \in Reqs, len \in 1 .. MaxPrompt, hit \in 0 .. MaxCached :
       Arrive(r, len, hit)
  \/ \E r \in Reqs : Preempt(r)
  \/ \E b \in Batches : \E n \in [Scheduled(b) -> 1 .. MaxLen] :
       \/ ForwardPrefill(b, n)
       \/ \E wrapper \in Wrapper : ForwardDecode(b, n, wrapper)

Spec == Init /\ [][Next]_vars

---------------------------------------------------------------------------
(* Properties *)

TypeOK ==
  /\ todo \in [Reqs -> Nat]
  /\ kvLen \in [Reqs -> Nat]
  /\ arrived \in SUBSET Reqs
  /\ preempts \in Nat
  /\ states \in [Reqs -> RequestStates]
  /\ bypassed \in [Reqs -> BOOLEAN]
  /\ DOMAIN rows = Reqs
  /\ \A r \in Reqs : rows[r] \in [0 .. states[r].capacity - 1 -> Int]

\* Every token a prepared request's bookkeeping knows is either quantized or
\* pending, in numbers that fit the allocated rows, and fewer than a batch
\* wait; a request that is not prepared has no tokens on the books.  The mask
\* slices of _compute_topk_mask have no unwritten byte because of this.
TokensAccounted == \A r \in Reqs : Accounted(states[r])

\* As long as the scheduler keeps a request on the path the bookkeeping sees
\* (whole prompt in one prefill step, then decode-only steps), total_tokens is
\* its number of cached tokens and row i describes the key at position i,
\* across every batch of pending keys and every reallocation.
RowsFollowPositions ==
  \A r \in Reqs :
    ~bypassed[r] /\ states[r].prepared =>
      /\ states[r].total_tokens = kvLen[r]
      /\ \A i \in 0 .. states[r].write_index - 1 : rows[r][i] = i

\* A decode step attends a request with exactly its own keys: each cached
\* position is read through the mask byte written for that position in this
\* step, selected outright if pending and scored with the request's own query
\* if quantized.  What happened before to the other requests of the batch does
\* not matter; only one that is not prepared does, by standing in front, or by
\* its query taking part when a single request of the batch is prepared.
AttendsOwnKeys ==
  \A i \in DOMAIN batch :
    LET r == batch[i]
        alone == \A q \in Scheduled(batch) : states[q].prepared => q = r
        queries == IF alone /\ attn[r].how = "masked" THEN Scheduled(batch)
                                                      ELSE {r}
    IN  /\ attn[r].how \in {"masked", "sdpa"}
        /\ ~bypassed[r]
        /\ \A j \in 1 .. i - 1 : states[batch[j]].prepared
        => attn[r].cells =
             [k \in 0 .. kvLen[r] - 1 |->
                IF k < states[r].write_index
                THEN [req |-> r, pos |-> k, kind |-> "scored",
                      queries |-> queries]
                ELSE [req |-> r, pos |-> k, kind |-> "pending",
                      queries |-> {}]]

\* What is quantized stays: a prepared request is prepared for ever, and no
\* later step changes or drops a row below write_index, not even one that
\* reallocates the tensors.
RowsAppendOnly ==
  [][\A r \in Reqs : states[r].prepared =>
       /\ states'[r].prepared
       /\ states'[r].write_index >= states[r].write_index
       /\ \A i \in 0 .. states[r].write_index - 1 : rows'[r][i] = rows[r][i]
    ]_vars

\* The ledger of quantized and pending tokens that a reader of the scores
\* relies on (TokenLedger), kept by write_index and num_pending_decode_tokens.
Ledger ==
  INSTANCE TokenLedger
    WITH quantized <- [r \in Reqs |-> states[r].write_index],
         pending <- [r \in Reqs |-> states[r].pending]

\* The backend implements the ledger: rows appear with the prefill and then
\* only in whole batches, exactly when the last token of a batch is appended.
ImplementsLedger == Ledger!Spec
===========================================================================
