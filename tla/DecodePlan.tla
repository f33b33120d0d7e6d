----------------------------- MODULE DecodePlan -----------------------------
(***************************************************************************)
(* The decode plan of RabitQMetadataBuilder.build (rabitq.py) and          *)
(* RabitQBatchDecodeWrapper.plan_direct (rabitq_flashinfer_ops.py).        *)
(*                                                                         *)
(* build() writes the pages of the decode requests of every step into      *)
(* fixed buffers; FlashInfer's plan() divides the work according to the    *)
(* number of pages of each row, and plan_direct() calls it only when the   *)
(* batch size or the total number of pages changed.  FlashInfer and the    *)
(* choice of the batch by the scheduler are external.                      *)
(***************************************************************************)
EXTENDS Integers, Sequences

CONSTANTS
  Reqs,       \* request ids
  PageSize,   \* tokens per page (block_size)
  MaxPrompt,  \* longest prompt
  MaxLen,     \* bound on a request's tokens
  MaxSeqs,    \* rows of the fixed buffers (max_num_seqs)
  MaxPages    \* entries of the index buffer (max_num_pages)

ASSUME PlanAssumption ==
  /\ PageSize \in Nat \ {0}
  /\ MaxPrompt \in Nat /\ MaxLen \in Nat /\ MaxSeqs \in Nat /\ MaxPages \in Nat

VARIABLES
  known,    \* known[r]: tokens of r, prompt and samples (0: not arrived)
  len,      \* len[r]: num_computed_tokens of r
  pages,    \* the buffers: pages of each row of the last decode batch
  roster,   \* the requests of these rows (ghost)
  plan,     \* the wrapper's plan: _last_batch_size, _last_num_indices and the
            \* pages of each row when it was made; NoPlan: _planned is FALSE
  planned,  \* the requests it was made for (ghost)
  shrunk,   \* one of them was preempted since (ghost)
  up        \* FALSE once build() raised: nobody catches it, the engine stops

buffers == <<pages, roster, plan, planned>>
vars == <<known, len, buffers, shrunk, up>>

NoPlan == [batch_size |-> -1, num_indices |-> -1, pages |-> <<>>]

\* The rows with one token, in any order and number: the scheduler may run more of them
\* than the buffers have rows.
Batches ==
  {b \in UNION {[1 .. k -> Reqs] : k \in 1 .. MaxSeqs + 1} :
     \A i, j \in DOMAIN b : b[i] = b[j] => i = j}

PagesOf(n) == (n + PageSize - 1) \div PageSize

NumIndices(ps) ==
  LET indptr[i \in 0 .. Len(ps)] == IF i = 0 THEN 0 ELSE indptr[i - 1] + ps[i]
  IN  indptr[Len(ps)]

\* Mutant: only the batch size is compared.
Reuses_SizeOnly(ps) == plan # NoPlan /\ Len(ps) = plan.batch_size

\* "Plan already exists for this shape, skip re-planning"
Reuses(ps) ==
  /\ plan # NoPlan
  /\ Len(ps) = plan.batch_size
  /\ NumIndices(ps) = plan.num_indices

---------------------------------------------------------------------------
(* The scheduler, as far as it moves the lengths *)

Arrive(r, n) ==
  /\ up /\ known[r] = 0
  /\ known' = [known EXCEPT ![r] = n]
  /\ UNCHANGED <<len, buffers, shrunk, up>>

\* r starts, or starts again, behind n cached tokens; or a chunk of several tokens ends
\* before token n: it is a prefill row, which the plan leaves out.
Advance(r, n) ==
  /\ up
  /\ \/ len[r] = 0 /\ n % PageSize = 0 /\ n \in 1 .. known[r] - 1
     \/ n \in len[r] + 2 .. known[r]
  /\ len' = [len EXCEPT ![r] = n]
  /\ known' = [known EXCEPT ![r] = IF n = @ THEN @ + 1 ELSE @]
  /\ UNCHANGED <<buffers, shrunk, up>>

\* All is to be computed again.
Preempt(r) ==
  /\ up /\ len[r] # 0
  /\ len' = [len EXCEPT ![r] = 0]
  /\ shrunk' = (shrunk \/ \E i \in DOMAIN planned : planned[i] = r)
  /\ UNCHANGED <<known, buffers, up>>

---------------------------------------------------------------------------
(* build() and plan_direct() *)

\* Pages of the rows b with this step's token, which build() finds in seq_lens.
RowPages(b) == [i \in DOMAIN b |-> PagesOf(len[b[i]] + 1)]

\* One token of each, the next sample or one of a recomputed request.
Decodable(b) == up /\ \A i \in DOMAIN b : len[b[i]] < known[b[i]] /\ len[b[i]] < MaxLen

\* The rows do not fit the buffers: the copy, or plan_direct, raises.
BuildRaises(b) ==
  /\ Decodable(b)
  /\ Len(b) > MaxSeqs \/ NumIndices(RowPages(b)) > MaxPages
  /\ up' = FALSE
  /\ UNCHANGED <<known, len, buffers, shrunk>>

\* A step with the decode rows b: build() plans for them also when the step holds
\* prefills and the decode kernel is not used.  The last known token yields a sample.
Step(b) ==
  LET ps == RowPages(b)
      In(r) == \E i \in DOMAIN b : b[i] = r
  IN  /\ Decodable(b)
      /\ Len(b) <= MaxSeqs /\ NumIndices(ps) <= MaxPages
      /\ len' = [r \in Reqs |-> IF In(r) THEN len[r] + 1 ELSE len[r]]
      /\ known' = [r \in Reqs |-> IF In(r) /\ len[r] + 1 = known[r] THEN known[r] + 1 ELSE known[r]]
      /\ pages' = ps
      /\ roster' = b
      /\ \/ Reuses(ps) /\ UNCHANGED <<plan, planned, shrunk>>
         \/ /\ ~Reuses(ps)
            /\ plan' = [batch_size |-> Len(b), num_indices |-> NumIndices(ps),
                        pages |-> ps]
            /\ planned' = b /\ shrunk' = FALSE
      /\ UNCHANGED up

Init ==
  /\ known = [r \in Reqs |-> 0] /\ len = [r \in Reqs |-> 0]
  /\ pages = <<>> /\ roster = <<>>
  /\ plan = NoPlan /\ planned = <<>> /\ shrunk = FALSE
  /\ up = TRUE

Next ==
  \/ \E r \in Reqs :
       \/ \E n \in 1 .. MaxPrompt : Arrive(r, n)
       \/ \E n \in 1 .. MaxLen : Advance(r, n)
       \/ Preempt(r)
  \/ \E b \in Batches : BuildRaises(b) \/ Step(b)

Spec == Init /\ [][Next]_vars

---------------------------------------------------------------------------
(* Properties *)

\* As long as the rows hold the requests the plan was made for, in the same order, and none
\* of them was preempted since, a plan that was kept divides exactly the pages the kernel
\* finds: the total alone reveals any growth, because only a preemption lets a row shrink.
PlanFitsItsBatch ==
  roster # <<>> /\ roster = planned /\ ~shrunk => plan.pages = pages
=============================================================================
