--------------------------- MODULE RabitQSelector ---------------------------
(***************************************************************************)
(* The selector of the accuracy evaluation (rabitqcache/pyimpl/rabitq.py,  *)
(* hooked into the attention of pyimpl/attention.py): RabitQState of one   *)
(* layer over the sequences that a benchmark runs one after the other.     *)
(*                                                                         *)
(* A code is abstracted to the key it was computed from and the centroids  *)
(* it was computed with.  The no-centre variant has the same control, with *)
(* centroids that are zero.                                                *)
(***************************************************************************)
EXTENDS Integers, Sequences

CONSTANTS
  HookInterval,  \* quantize_interval of the prefill hook (default 512)
  SelInterval,   \* quantize_interval of the selector (default 128)
  MaxSeqs,       \* bound on the sequences of a behaviour
  MaxLen         \* bound on the tokens of a sequence

ASSUME IntervalAssumption ==
  /\ HookInterval \in Nat \ {0} /\ SelInterval \in Nat \ {0}
  /\ MaxSeqs \in Nat /\ MaxLen \in Nat

VARIABLES
  interval,  \* quantize_interval of the global state; Absent: no state yet
  trained,   \* the sequence the centroids come from; Absent: not trained
  numQ,      \* num_quantized_tokens[layer_id]; Absent: no entry
  codes,     \* quantized_data[layer_id], the batches put together
  seq,       \* number of the current sequence
  len,       \* its tokens in the KV cache
  fresh,     \* the state was reset when the sequence began (ghost)
  out        \* what the last call of the selector returned (ghost)

state == <<interval, trained, numQ, codes>>
vars  == <<state, seq, len, fresh, out>>

Absent == -1

Code(s, pos, centroid) == [seq |-> s, pos |-> pos, centroid |-> centroid]

NoCall == [kind |-> "none", always |-> {}, scored |-> <<>>]

\* The codes of the keys at positions from, ..., upto - 1 of the sequence.
Batch(from, upto, centroid) ==
  [i \in 1 .. upto - from |-> Code(seq, from + i - 1, centroid)]

---------------------------------------------------------------------------
\* A benchmark begins its next example, with or without reset_rabitq_state().
NewSequence(reset) ==
  /\ seq < MaxSeqs
  /\ out.kind # "raised"
  /\ seq' = seq + 1
  /\ len' = 0
  /\ fresh' = reset
  /\ out' = NoCall
  /\ IF reset
     THEN interval' = Absent /\ trained' = Absent /\ numQ' = Absent /\ codes' = <<>>
     ELSE UNCHANGED state

\* Mutant: the first interval is not spared.
InitialCodes_FromZero(n, q, centroid) == Batch(0, n, centroid)

\* quantize_initial_keys: nothing for a prompt within the first interval.
InitialCodes(n, q, centroid) ==
  IF n > q THEN Batch(q, n, centroid) ELSE <<>>

\* The hook of the prefill stage (q_len > 1): train(), unless the layer is
\* trained, and quantize_initial_keys().
Prefill(n) ==
  /\ seq > 0 /\ len = 0
  /\ n \in 2 .. MaxLen
  /\ len' = n
  /\ interval' = IF interval = Absent THEN HookInterval ELSE interval
  /\ trained' = IF trained = Absent THEN seq ELSE trained
  /\ codes' = codes \o InitialCodes(n, interval', trained')
  /\ numQ' = IF n > interval' THEN n ELSE numQ
  /\ UNCHANGED <<seq, fresh, out>>

\* Mutant: a batch that is not complete is quantized too, its end rounded up.
QuantizedUpTo_Early(n, q) ==
  IF numQ = Absent \/ n <= numQ THEN numQ ELSE numQ + q

\* quantize_new_decode_tokens: as many complete batches as there are.
QuantizedUpTo(n, q) ==
  IF numQ = Absent \/ n < numQ + q THEN numQ ELSE n - ((n - numQ) % q)

\* The result of rabitq_selector on n keys, last being last_quantized_idx and
\* cs the codes: row i of distances() is used for position SelInterval + i - 1.
\* The assignment to the mask fails if the codes reach beyond the sequence.
Selection(n, last, cs) ==
  LET rows == IF last - SelInterval < Len(cs) THEN last - SelInterval ELSE Len(cs)
  IN  [kind |-> IF last > n THEN "raised" ELSE "mask",
       always |-> (0 .. SelInterval - 1) \cup (last .. n - 1),
       scored |-> [p \in SelInterval .. SelInterval + rows - 1 |->
                     cs[p - SelInterval + 1]]]

\* The selector in the decode stage (q_len = 1).
Decode ==
  LET n == len + 1
      q == IF interval = Absent THEN SelInterval ELSE interval
      upto == QuantizedUpTo(n, q)
  IN  /\ seq > 0 /\ len < MaxLen
      /\ out.kind # "raised"
      /\ len' = n
      /\ interval' = q
      /\ UNCHANGED <<trained, seq, fresh>>
      /\ \/ /\ trained = Absent \/ n <= SelInterval
            /\ out' = [kind |-> "mask", always |-> 0 .. n - 1, scored |-> <<>>]
            /\ UNCHANGED <<numQ, codes>>
         \/ /\ trained # Absent /\ n > SelInterval
            /\ numQ' = upto
            /\ codes' = IF upto = numQ THEN codes
                                       ELSE codes \o Batch(numQ, upto, trained)
            /\ out' = Selection(n, IF upto = Absent THEN SelInterval ELSE upto,
                                codes')

---------------------------------------------------------------------------
Init ==
  /\ interval = Absent /\ trained = Absent /\ numQ = Absent /\ codes = <<>>
  /\ seq = 0 /\ len = 0 /\ fresh = FALSE /\ out = NoCall

Next ==
  \/ \E reset \in BOOLEAN : NewSequence(reset)
  \/ \E n \in 2 .. MaxLen : Prefill(n)
  \/ Decode

Spec == Init /\ [][Next]_vars

---------------------------------------------------------------------------
(* Properties *)

\* The configuration gives quantize_interval, so hook and selector agree.
Configured == HookInterval = SelInterval

\* A sequence that began with a reset gets a mask in every decode step, in
\* which each token is either selected outright or scored, never both, and is
\* scored with the code of its own key and its own sequence's centroids.
ScoresOwnKeys ==
  Configured /\ fresh /\ out.kind # "none" =>
    /\ out.kind = "mask"
    /\ out.always \cup DOMAIN out.scored = 0 .. len - 1
    /\ out.always \cap DOMAIN out.scored = {}
    /\ \A p \in DOMAIN out.scored : out.scored[p] = Code(seq, p, seq)

\* Once a fresh sequence has codes, fewer than an interval of its tokens wait
\* for theirs after a decode step, so the tail that is always selected stays
\* bounded however long the sequence grows.
TailBounded ==
  Configured /\ fresh /\ numQ # Absent => numQ <= len /\ len - numQ < HookInterval

=============================================================================
