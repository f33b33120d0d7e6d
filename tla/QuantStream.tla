---------------------------- MODULE QuantStream ----------------------------
(***************************************************************************)
(* The asynchronous quantization of rabitq.py: what the host launches on   *)
(* the default CUDA stream and on each layer's quantize_stream, in which   *)
(* orders the GPU may run it, and which memory each kernel then finds.     *)
(*                                                                         *)
(* A kernel is a record of the block contents it expects to read and of    *)
(* those it writes.  CUDA streams and PyTorch's caching allocator are      *)
(* external: a stream runs its work in order, wait_stream makes the rest   *)
(* of one stream wait for what another one holds at that moment, and a     *)
(* block whose last reference is gone may at once be handed out again to   *)
(* the stream it was allocated on, without regard to the other streams.    *)
(***************************************************************************)
EXTENDS Integers, Sequences

CONSTANTS
  Reqs,        \* request ids
  NumLayers,   \* attention layers, run in order in every step
  KeyPool,     \* blocks the default stream allocates from
  MetaPool,    \* blocks each quantize_stream allocates from
  MaxSteps     \* bound on the steps of a behaviour

ASSUME StreamAssumption ==
  /\ NumLayers \in Nat \ {0} /\ KeyPool \in Nat /\ MetaPool \in Nat
  /\ MaxSteps \in Nat

Layers  == 1 .. NumLayers
Default == 0
Streams == {Default} \cup Layers       \* l is the quantize_stream of layer l
Blocks  == ({Default} \X (1 .. KeyPool)) \cup (Layers \X (1 .. MetaPool))
NoBlock == <<-1, 0>>

\* Contents of a block.
Nothing    == <<"nothing">>
Keys(k, l) == <<"keys", k, l>>         \* the key tensor of layer l in step k
Meta(l, r) == <<"metadata", l, r>>     \* request r's rows in layer l
Contents   == {Nothing} \cup {Keys(k, l) : k \in 1 .. MaxSteps, l \in Layers}
                        \cup {Meta(l, r) : l \in Layers, r \in Reqs}

VARIABLES
  step,      \* number of the current (or last) step
  layer,     \* layer whose forward() runs next; NumLayers + 1 between steps
  batch,     \* [prefill, reqs] of the current step
  streamOf,  \* the layers whose quantize_stream exists
  meta,      \* meta[l][r]: block of r's metadata in layer l (NoBlock: not prepared)
  queue,     \* queue[s]: what s has not run yet
  done,      \* done[s]: number of items s has run
  mem        \* mem[b]: content of block b

vars == <<step, layer, batch, streamOf, meta, queue, done, mem>>

Kernel(name, reads, writes) ==
  [kind |-> name, reads |-> reads, writes |-> writes, on |-> Default, upto |-> 0]

Launched(s) == done[s] + Len(queue[s])

\* The item t.wait_stream(s) puts on t, n items of the same call being ahead
\* of it on s.
WaitStream(s, n) ==
  [kind |-> "wait", reads |-> {}, writes |-> {}, on |-> s,
   upto |-> Launched(s) + n]

\* Blocks the allocator may hand out on stream s: those no tensor holds.
Free(s) == {b \in Blocks : b[1] = s /\ \A l \in Layers, r \in Reqs : meta[l][r] # b}

Prepared(l) == {r \in Reqs : meta[l][r] # NoBlock}

Injective(f) == \A x, y \in DOMAIN f : f[x] = f[y] => x = y

---------------------------------------------------------------------------
(* The host *)

\* Mutant: the layers are counted from zero.
StartStep_FromZero(b) ==
  /\ layer = NumLayers + 1
  /\ queue[Default] = <<>>
  /\ step < MaxSteps
  /\ step' = step + 1
  /\ layer' = 0
  /\ batch' = b
  /\ UNCHANGED <<streamOf, meta, queue, done, mem>>

\* execute_model: the host has the sampled tokens of the previous step, so the
\* default stream is idle; the quantize streams need not be.
StartStep(b) ==
  /\ layer = NumLayers + 1
  /\ queue[Default] = <<>>
  /\ step < MaxSteps
  /\ step' = step + 1
  /\ layer' = 1
  /\ batch' = b
  /\ UNCHANGED <<streamOf, meta, queue, done, mem>>

\* What precedes forward() in the layer: the keys are computed into k.
Project(k) == Kernel("project", {}, {<<k, Keys(step, layer)>>})

\* FlashInfer's prefill attention, or reshape_and_cache_flash on the decode
\* path: k is read and written to the paged cache.
Attend(k) == Kernel("attend", {<<k, Keys(step, layer)>>}, {})

\* _process_pending_quantization_async: the requests of into get metadata.
Quantize(k, into) ==
  IF DOMAIN into = {} THEN <<>>
  ELSE <<Kernel("quantize", {<<k, Keys(step, layer)>>},
                {<<into[r], Meta(layer, r)>> : r \in DOMAIN into})>>

\* _quantize_pending_keys of a request that outgrew its tensors.
Grow(r, to) ==
  Kernel("grow", {<<meta[layer][r], Meta(layer, r)>>}, {<<to, Meta(layer, r)>>})

\* The scoring of all prepared requests of the batch.
Score(at, rs) == Kernel("score", {<<at[r], Meta(layer, r)>> : r \in rs}, {})

\* Mutant: quantize_stream does not wait for the default stream.
ForwardPrefill_NoWait(k) ==
  /\ layer \in Layers
  /\ batch.prefill
  /\ \E into \in [batch.reqs \ Prepared(layer) -> Free(layer)] :
       /\ Injective(into)
       /\ queue' = [queue EXCEPT
            ![Default] = @ \o <<Project(k), Attend(k)>>,
            ![layer] = @ \o Quantize(k, into)]
       /\ meta' = [meta EXCEPT ![layer] =
            [r \in Reqs |-> IF r \in DOMAIN into THEN into[r] ELSE @[r]]]
  /\ streamOf' = streamOf \cup {layer}
  /\ layer' = layer + 1
  /\ UNCHANGED <<step, batch, done, mem>>

\* forward() with a request of more than one token.  key, in block k, is only
\* referenced by the pending quantization; k is free again on return.
ForwardPrefill(k) ==
  /\ layer \in Layers
  /\ batch.prefill
  /\ \E into \in [batch.reqs \ Prepared(layer) -> Free(layer)] :
       /\ Injective(into)
       /\ queue' = [queue EXCEPT
            ![Default] = @ \o <<Project(k), Attend(k)>>,
            ![layer] = @ \o <<WaitStream(Default, 2)>> \o Quantize(k, into)]
       /\ meta' = [meta EXCEPT ![layer] =
            [r \in Reqs |-> IF r \in DOMAIN into THEN into[r] ELSE @[r]]]
  /\ streamOf' = streamOf \cup {layer}
  /\ layer' = layer + 1
  /\ UNCHANGED <<step, batch, done, mem>>

\* The default stream's items of a decode step in which the request grow, if
\* it is one, is moved to block to.
DecodeItems(k, wait, grow, to) ==
  LET rs == batch.reqs \cap Prepared(layer)
      at == [r \in rs |-> IF grow = {r} THEN to ELSE meta[layer][r]]
  IN  <<Project(k)>> \o wait \o <<Attend(k)>>
      \o (IF grow = {} THEN <<>> ELSE <<Grow(CHOOSE r \in grow : TRUE, to)>>)
      \o (IF rs = {} THEN <<>> ELSE <<Score(at, rs)>>)

\* Mutant: the default stream does not wait for the quantization.
ForwardDecode_NoWait(k, grow, to) ==
  /\ layer \in Layers
  /\ ~batch.prefill
  /\ grow \subseteq batch.reqs \cap Prepared(layer)
  /\ queue' = [queue EXCEPT ![Default] = @ \o DecodeItems(k, <<>>, grow, to)]
  /\ meta' = [meta EXCEPT ![layer] =
       [r \in Reqs |-> IF grow = {r} THEN to ELSE @[r]]]
  /\ layer' = layer + 1
  /\ UNCHANGED <<step, batch, streamOf, done, mem>>

\* forward() on single tokens.  Whether a request outgrows its tensors is left
\* open here (RequestState says when); at most one does so per step.
ForwardDecode(k, grow, to) ==
  /\ layer \in Layers
  /\ ~batch.prefill
  /\ grow \subseteq batch.reqs \cap Prepared(layer)
  /\ LET wait == IF layer \in streamOf THEN <<WaitStream(layer, 0)>> ELSE <<>>
     IN  queue' = [queue EXCEPT
                     ![Default] = @ \o DecodeItems(k, wait, grow, to)]
  /\ meta' = [meta EXCEPT ![layer] =
       [r \in Reqs |-> IF grow = {r} THEN to ELSE @[r]]]
  /\ layer' = layer + 1
  /\ UNCHANGED <<step, batch, streamOf, done, mem>>

---------------------------------------------------------------------------
(* The GPU *)

CanRun(s) ==
  /\ queue[s] # <<>>
  /\ Head(queue[s]).kind = "wait" =>
       done[Head(queue[s]).on] >= Head(queue[s]).upto

Run(s) ==
  /\ CanRun(s)
  /\ LET w == Head(queue[s]).writes
     IN  mem' = [b \in Blocks |->
                   IF \E c \in Contents : <<b, c>> \in w
                   THEN CHOOSE c \in Contents : <<b, c>> \in w
                   ELSE mem[b]]
  /\ queue' = [queue EXCEPT ![s] = Tail(@)]
  /\ done' = [done EXCEPT ![s] = @ + 1]
  /\ UNCHANGED <<step, layer, batch, streamOf, meta>>

---------------------------------------------------------------------------
Init ==
  /\ step = 0
  /\ layer = NumLayers + 1
  /\ batch = [prefill |-> FALSE, reqs |-> {}]
  /\ streamOf = {}
  /\ meta = [l \in Layers |-> [r \in Reqs |-> NoBlock]]
  /\ queue = [s \in Streams |-> <<>>]
  /\ done = [s \in Streams |-> 0]
  /\ mem = [b \in Blocks |-> Nothing]

Next ==
  \/ \E p \in BOOLEAN, rs \in (SUBSET Reqs) \ {{}} :
       StartStep([prefill |-> p, reqs |-> rs])
  \/ \E k \in Free(Default) :
       \/ ForwardPrefill(k)
       \/ ForwardDecode(k, {}, NoBlock)
       \/ \E r \in Reqs, to \in Free(Default) \ {k} : ForwardDecode(k, {r}, to)
  \/ \E s \in Streams : Run(s)

Spec == Init /\ [][Next]_vars

---------------------------------------------------------------------------
(* Properties *)

TypeOK ==
  /\ step \in 0 .. MaxSteps
  /\ layer \in 1 .. NumLayers + 1
  /\ batch \in [prefill : BOOLEAN, reqs : SUBSET Reqs]
  /\ streamOf \in SUBSET Layers
  /\ meta \in [Layers -> [Reqs -> Blocks \cup {NoBlock}]]
  /\ \A s \in Streams : \A i \in DOMAIN queue[s] : queue[s][i].kind \in
       {"project", "attend", "quantize", "grow", "score", "wait"}
  /\ done \in [Streams -> Nat]
  /\ mem \in [Blocks -> Contents]

Finds(item) == \A x \in item.reads : mem[x[1]] = x[2]

\* Whatever the order in which the streams run, a kernel of the default stream
\* finds what it expects: the scores and the copies of a reallocation read the
\* finished rows of their own request, though these are written by another
\* stream, and though the old tensors of a request that grew are handed out
\* again to the quantization of the next one.
DefaultReadsAreFresh ==
  CanRun(Default) => Finds(Head(queue[Default]))

\* "This ensures quantize_stream waits for attention to complete": when a
\* quantization may run, nothing of its own forward() is left to run.
AttentionFirst ==
  \A l \in Layers :
    CanRun(l) /\ Head(queue[l]).kind = "quantize" =>
      \A i \in DOMAIN queue[Default] :
        queue[Default][i].kind = "attend" =>
          queue[Default][i].reads # Head(queue[l]).reads

\* "Save pending quantization data (just references, no copy needed)": when a
\* quantization may run, the keys it was given should still be there.
QuantizationFindsItsKeys ==
  \A l \in Layers :
    CanRun(l) /\ Head(queue[l]).kind = "quantize" => Finds(Head(queue[l]))
===========================================================================
