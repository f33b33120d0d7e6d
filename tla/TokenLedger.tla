---------------------------- MODULE TokenLedger ----------------------------
(***************************************************************************)
(* What the request bookkeeping of the RabitQ backend promises, without    *)
(* capacities, statistics, batches or preemption: each request has a       *)
(* number of quantized tokens and a number of pending ones.  It enrolls    *)
(* once, with a whole prefill quantized, and from then on gains one token  *)
(* at a time; the token that completes a batch turns the batch into        *)
(* quantized tokens at once.  No token on the books is ever dropped.       *)
(***************************************************************************)
EXTENDS Integers

CONSTANTS Reqs, BatchSize

VARIABLES quantized, pending

Unmoved(r) == quantized'[r] = quantized[r] /\ pending'[r] = pending[r]

Enroll(r) ==
  /\ quantized[r] = 0 /\ pending[r] = 0
  /\ quantized'[r] > 0 /\ pending'[r] = 0

Append1(r) ==
  /\ quantized[r] > 0
  /\ pending[r] + 1 < BatchSize
  /\ quantized'[r] = quantized[r]
  /\ pending'[r] = pending[r] + 1

CompleteBatch(r) ==
  /\ quantized[r] > 0
  /\ pending[r] + 1 = BatchSize
  /\ quantized'[r] = quantized[r] + BatchSize
  /\ pending'[r] = 0

Init ==
  /\ quantized = [r \in Reqs |-> 0]
  /\ pending = [r \in Reqs |-> 0]

\* A step serves a whole batch of requests.
Next ==
  /\ quantized' \in [Reqs -> Nat]
  /\ pending' \in [Reqs -> Nat]
  /\ \A r \in Reqs :
       Unmoved(r) \/ Enroll(r) \/ Append1(r) \/ CompleteBatch(r)

Spec == Init /\ [][Next]_<<quantized, pending>>
===========================================================================
