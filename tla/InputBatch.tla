----------------------------- MODULE InputBatch -----------------------------
(***************************************************************************)
(* The persistent batch of the model runner (v1/worker/gpu_input_batch.py) *)
(* as _update_states changes it before every step, and the logits          *)
(* processors that keep rows of their own and are told of the changes      *)
(* (v1/sample/logits_processor).  The order of the rows is the order of    *)
(* requests that the attention backend is given.                           *)
(*                                                                         *)
(* A row has dozens of columns.  What is stored in one is abstracted to    *)
(* the incarnation of the request it was stored for, <<r, n>>: an id may   *)
(* be aborted and submitted again.  The columns fall into three groups     *)
(* that are moved in different ways.                                       *)
(***************************************************************************)
EXTENDS Integers, Sequences, SequencesExt, FiniteSets, FiniteSetsExt

CONSTANTS
  Requests,       \* request ids
  MaxNumReqs,     \* rows
  MaxInc,         \* bound: MaxInc[r] incarnations of id r
  Threshold,      \* reorder_batch_threshold, 0 for None
  MinP,           \* MinP[<<r, n>>]: min_p of the sampling parameters
  Custom          \* the incarnations with a seed, bad words, allowed tokens and a logit_bias

ASSUME BatchAssumption ==
  /\ Requests \subseteq Nat \ {0}
  /\ MaxNumReqs \in Nat /\ Cardinality(Requests) <= MaxNumReqs
  /\ MaxInc \in [Requests -> Nat \ {0}] /\ Threshold \in Nat
  /\ \A r \in Requests : \A n \in 1 .. MaxInc[r] : MinP[<<r, n>>] \in Nat

VARIABLES
  known,    \* self.requests of the runner: current incarnation of each request, 0 if none
  last,     \* last incarnation each id was used for
  b,        \* the InputBatch and its BatchUpdateBuilder
  minp,     \* MinPLogitsProcessor
  biases,   \* LogitBiasLogitsProcessor: row -> incarnation, and what the device has of it
  swapped,  \* ghost: requests whose row took part in a swap since they were added
  tokens    \* ghost: tokens scheduled in this step

vars == <<known, last, b, minp, biases, swapped, tokens>>

Rows == 1 .. MaxNumReqs
NoReq == 0       \* None in _req_ids
Clear == <<>>    \* nothing stored in a row
Label(r) == <<r, known[r]>>

InitBatch ==
  [ids     |-> <<>>,                        \* _req_ids
   index   |-> <<>>,                        \* req_id_to_index
   data    |-> <<>>,                        \* tokens, lengths, block table, temperature, ...
   gens    |-> <<>>,                        \* generators and bad words: row -> value
   mask    |-> [i \in Rows |-> Clear],      \* allowed_token_ids_mask_cpu_tensor
   removed |-> {},                          \* batch_update_builder
   moved   |-> <<>>,
   added   |-> <<>>]

Without(f, x) == [y \in DOMAIN f \ {x} |-> f[y]]
With(f, x, v) == [y \in DOMAIN f \cup {x} |-> IF y = x THEN v ELSE f[y]]

\* What is kept for row i in a dictionary goes to row j, and that of j to i in a swap.
MoveKey(d, i, j, swap) ==
  LET into == {x \in {i, j} : (x = j /\ i \in DOMAIN d) \/ (x = i /\ swap /\ j \in DOMAIN d)}
  IN  [x \in (DOMAIN d \ {i, j}) \cup into |-> IF x = j THEN d[i] ELSE IF x = i THEN d[j] ELSE d[x]]

-----------------------------------------------------------------------------
(* InputBatch *)

\* remove_request: a hole for the builder to remember, dictionaries cleared.
RemoveRequest(s, r) ==
  IF r \notin DOMAIN s.index THEN s
  ELSE LET i == s.index[r]
       IN  [s EXCEPT !.index = Without(@, r), !.removed = @ \cup {i}, !.ids[i] = NoReq,
                     !.gens = Without(@, i), !.mask[i] = Clear]

\* _register_add_request: the lowest hole of this step, else the end.
RowFor(s) == IF s.removed # {} THEN Min(s.removed) ELSE Cardinality(DOMAIN s.index) + 1

\* add_request, for incarnation l of a request.  The row of the mask and the entries of
\* the dictionaries are written only for a request that has such parameters.
AddRequest(s, l) ==
  LET i == RowFor(s)
      Put(f, v) == IF i = Len(f) + 1 THEN Append(f, v) ELSE [f EXCEPT ![i] = v]
  IN  [s EXCEPT !.removed = @ \ {i}, !.ids = Put(@, l[1]), !.index = With(@, l[1], i),
                !.data = Put(@, l), !.added = Append(@, <<i, l>>),
                !.gens = IF l \in Custom THEN With(@, i, l) ELSE @,
                !.mask[i] = IF l \in Custom THEN l ELSE @]

\* Mutant: what is kept by row in dictionaries is left where it was.
MoveRow_NotDicts(s, from, to) ==
  [s EXCEPT !.removed = @ \ {to}, !.ids = [@ EXCEPT ![to] = s.ids[from], ![from] = NoReq],
            !.index[s.ids[from]] = to, !.data[to] = s.data[from], !.mask[to] = s.mask[from],
            !.moved = Append(@, <<from, to, "move">>)]

\* One round of condense: the last row goes into the lowest hole.
MoveRow(s, from, to) ==
  [s EXCEPT !.removed = @ \ {to}, !.ids = [@ EXCEPT ![to] = s.ids[from], ![from] = NoReq],
            !.index[s.ids[from]] = to, !.data[to] = s.data[from],
            !.gens = MoveKey(@, from, to, FALSE), !.mask[to] = s.mask[from],
            !.moved = Append(@, <<from, to, "move">>)]

LastRow(s) == Max({i \in DOMAIN s.ids : s.ids[i] # NoReq})

\* condense: fill the holes from the end, then trim.  The columns in data are written in
\* full when a row is used again, so that what is left past the end is dropped.
Condense(s) ==
  LET Round(t, hole) == IF hole >= LastRow(t) THEN t ELSE MoveRow(t, LastRow(t), hole)
      filled == FoldLeft(Round, s, SetToSortSeq(s.removed, <))
      n == Cardinality(DOMAIN s.index)
  IN  IF s.removed = {} THEN s
      ELSE IF n = 0 THEN [s EXCEPT !.ids = <<>>, !.data = <<>>]
      ELSE [filled EXCEPT !.ids = SubSeq(@, 1, n), !.data = SubSeq(@, 1, n)]

\* swap_states.  The rows of the mask are views of one tensor: the tuple assignment
\* has overwritten row i with row j before it copies row i to row j.
SwapStates(s, i, j) ==
  LET Swapped(f) == [f EXCEPT ![i] = f[j], ![j] = f[i]]
  IN  [s EXCEPT !.ids = Swapped(@), !.data = Swapped(@),
                !.index = [@ EXCEPT ![s.ids[i]] = j, ![s.ids[j]] = i],
                !.gens = MoveKey(@, i, j, TRUE), !.mask[i] = s.mask[j],
                !.moved = Append(@, <<i, j, "swap">>)]

\* Mutant: the decodes are taken from the front.
Reorder_FromFront(s, num) ==
  LET Is(i) == num[s.ids[i]] <= Threshold
      decodes == SetToSortSeq({i \in DOMAIN s.ids : Is(i)}, <)
      prefills == SetToSortSeq({i \in DOMAIN s.ids : ~Is(i)}, <)
      Pairs == {k \in 1 .. Len(decodes) : k <= Len(prefills) /\ decodes[k] > Len(decodes)}
  IN  FoldLeft(LAMBDA t, k : SwapStates(t, prefills[k], decodes[k]),
               s, SetToSortSeq(Pairs, <))

\* reorder_batch_to_split_decodes_and_prefills: the last decode changes places with the
\* first prefill, and so on, until a decode is among the first num_decodes rows.
Reorder(s, num) ==
  LET Is(i) == num[s.ids[i]] <= Threshold
      decodes == SetToSortSeq({i \in DOMAIN s.ids : Is(i)}, <)
      prefills == SetToSortSeq({i \in DOMAIN s.ids : ~Is(i)}, <)
      nd == Len(decodes)
      Pairs == {k \in 1 .. nd : k <= Len(prefills) /\ decodes[nd - k + 1] > nd}
  IN  FoldLeft(LAMBDA t, k : SwapStates(t, prefills[k], decodes[nd - k + 1]),
               s, SetToSortSeq(Pairs, <))

-----------------------------------------------------------------------------
(* Logits processors *)

\* MinPLogitsProcessor.update_state: additions first, then removals and moves if
\* anyone uses min_p, then the copy to the device if something changed.
AddMinP(p, a) ==
  LET v == MinP[a[2]]
      before == p.cpu[a[1]]
  IN  IF v = before THEN p
      ELSE [p EXCEPT !.cpu[a[1]] = v, !.dirty = TRUE,
                     !.count = @ + (IF v # 0 /\ before = 0 THEN 1 ELSE 0)
                                 - (IF v = 0 /\ before # 0 THEN 1 ELSE 0)]

RemoveMinP(p, i) ==
  IF p.cpu[i] = 0 THEN [p EXCEPT !.dirty = TRUE]
  ELSE [p EXCEPT !.cpu[i] = 0, !.count = @ - 1, !.dirty = TRUE]

\* Mutant: a value that the move overwrites stays counted.
MoveMinP_KeepsCount(p, m) ==
  LET i == m[1]
      j == m[2]
  IN  [p EXCEPT !.cpu = [@ EXCEPT ![i] = IF m[3] = "swap" THEN p.cpu[j] ELSE 0, ![j] = p.cpu[i]],
                !.dirty = @ \/ p.cpu[i] # p.cpu[j]]

MoveMinP(p, m) ==
  LET i == m[1]
      j == m[2]
  IN  IF m[3] = "swap"
      THEN [p EXCEPT !.cpu = [@ EXCEPT ![i] = p.cpu[j], ![j] = p.cpu[i]],
                     !.dirty = @ \/ p.cpu[i] # p.cpu[j]]
      ELSE [p EXCEPT !.cpu = [@ EXCEPT ![i] = 0, ![j] = p.cpu[i]],
                     !.dirty = @ \/ p.cpu[i] # p.cpu[j],
                     !.count = IF p.cpu[j] # 0 THEN @ - 1 ELSE @]

\* Mutant: the device copy is only refreshed when a value changed.
Refresh_SameSize(p, size) ==
  IF p.count > 0 /\ p.dirty
  THEN [p EXCEPT !.device = SubSeq(p.cpu, 1, size), !.dirty = FALSE]
  ELSE [p EXCEPT !.dirty = FALSE]

Refresh(p, size) ==
  IF p.count > 0 /\ (p.dirty \/ Len(p.device) # size)
  THEN [p EXCEPT !.device = SubSeq(p.cpu, 1, size), !.dirty = FALSE]
  ELSE [p EXCEPT !.dirty = FALSE]

UpdateMinP(p, s) ==
  LET added == FoldLeft(AddMinP, p, s.added)
      removed == FoldLeft(RemoveMinP, added, SetToSortSeq(s.removed, >))
      all == FoldLeft(MoveMinP, removed, s.moved)
  IN  Refresh(IF added.count > 0 THEN all ELSE added, Len(s.ids))

\* process_dict_updates, for one row added, removed or moved: new says that an entry was
\* touched, so that the tensors have to be built again.
AddBias(d, a) ==
  IF a[2] \in Custom THEN [of |-> With(d.of, a[1], a[2]), new |-> TRUE]
  ELSE [of |-> Without(d.of, a[1]), new |-> d.new \/ a[1] \in DOMAIN d.of]

RemoveBias(d, i) == [of |-> Without(d.of, i), new |-> d.new \/ i \in DOMAIN d.of]

MoveBias(d, m) ==
  [of |-> MoveKey(d.of, m[1], m[2], m[3] = "swap"),
   new |-> d.new \/ {m[1], m[2]} \cap DOMAIN d.of # {}]

\* LogitBiasLogitsProcessor.update_state
UpdateBiases(d, s) ==
  LET added == FoldLeft(AddBias, [of |-> d.of, new |-> FALSE], s.added)
      removed == FoldLeft(RemoveBias, added, SetToSeq(s.removed))
      end == IF DOMAIN added.of = {} THEN added ELSE FoldLeft(MoveBias, removed, s.moved)
  IN  [of |-> end.of, device |-> IF end.new THEN end.of ELSE d.device]

-----------------------------------------------------------------------------
(* _update_states, for one scheduler output: requests finished since the last one, *)
(* requests new to the worker, known requests that are not in the batch, in the    *)
(* scheduler's order, and the tokens of every scheduled request.                   *)
UpdateStates(fin, fresh, back, num) ==
  LET new == ToSet(fresh)
      inc == [r \in Requests |-> IF r \in new THEN last[r] + 1
                                 ELSE IF r \in fin THEN 0 ELSE known[r]]
      unscheduled == DOMAIN b.index \ DOMAIN num
      cleared == FoldLeft(RemoveRequest, b, SetToSeq(fin \cup unscheduled))
      filled == FoldLeft(LAMBDA s, r : AddRequest(s, <<r, inc[r]>>), cleared, fresh \o back)
      dense == Condense(filled)
      done == IF Threshold = 0 THEN dense ELSE Reorder(dense, num)
      moves == {m \in ToSet(done.moved) : m[3] = "swap"}
  IN  /\ known' = inc
      /\ last' = [r \in Requests |-> IF r \in new THEN last[r] + 1 ELSE last[r]]
      /\ minp' = UpdateMinP(minp, done)
      /\ biases' = UpdateBiases(biases, done)
      /\ b' = [done EXCEPT !.removed = {}, !.moved = <<>>, !.added = <<>>]
      /\ swapped' = (swapped \ (fin \cup unscheduled))
                      \cup {r \in DOMAIN num : \E m \in moves : done.index[r] \in {m[1], m[2]}}
      /\ tokens' = num

Init ==
  /\ known = [r \in Requests |-> 0]
  /\ last = [r \in Requests |-> 0]
  /\ b = InitBatch
  /\ minp = [cpu |-> [i \in Rows |-> 0], count |-> 0, device |-> <<>>, dirty |-> FALSE]
  /\ biases = [of |-> <<>>, device |-> <<>>]
  /\ swapped = {}
  /\ tokens = <<>>

\* An output of the scheduler: an id may be finished and new at once, when it was
\* aborted and submitted again in between.
Next ==
  \E fin \in SUBSET {r \in Requests : known[r] # 0} :
    \E new \in SUBSET {r \in Requests : last[r] < MaxInc[r] /\ (known[r] = 0 \/ r \in fin)} :
      \E sched \in SUBSET {r \in Requests : known[r] # 0 /\ r \notin fin} :
        \E fresh \in SetToSeqs(new), back \in SetToSeqs(sched \ DOMAIN b.index) :
          \E num \in [new \cup sched -> {1, 2}] : UpdateStates(fin, fresh, back, num)

Spec == Init /\ [][Next]_vars

-----------------------------------------------------------------------------
\* Rows, ids and indices have their types, and nothing of the builder is left over.
TypeOK ==
  /\ Len(b.ids) <= MaxNumReqs
  /\ \A r \in DOMAIN b.index : b.index[r] \in Rows
  /\ DOMAIN b.gens \subseteq Rows /\ DOMAIN biases.of \subseteq Rows
  /\ minp.count \in 0 .. MaxNumReqs
  /\ b.removed = {} /\ b.moved = <<>> /\ b.added = <<>>

CustomRows == [i \in {j \in DOMAIN b.ids : Label(b.ids[j]) \in Custom} |-> Label(b.ids[i])]

\* After any mix of removals, additions, moves and swaps in one step, the batch has no
\* hole, holds exactly the scheduled requests, and each column of a row belongs to the
\* current incarnation of the request in it.  Of the mask this is claimed only for
\* requests that restrict their tokens and whose row was not swapped.
RowsFollowRequests ==
  /\ ToSet(b.ids) = DOMAIN tokens /\ Len(b.ids) = Cardinality(DOMAIN tokens)
  /\ DOMAIN b.index = DOMAIN tokens
  /\ \A i \in DOMAIN b.ids :
       LET r == b.ids[i]
       IN  /\ b.index[r] = i
           /\ b.data[i] = Label(r)
           /\ Label(r) \in Custom /\ r \notin swapped => b.mask[i] = Label(r)
  /\ b.gens = CustomRows

\* The logits processors, which only see the update lists, end with the parameters of
\* the same requests in the same rows, also on the device, and count them right.
ProcessorsFollowRows ==
  /\ \A i \in DOMAIN b.ids : minp.cpu[i] = MinP[Label(b.ids[i])]
  /\ \A i \in Rows \ DOMAIN b.ids : minp.cpu[i] = 0
  /\ minp.count = Cardinality({i \in Rows : minp.cpu[i] # 0})
  /\ minp.count > 0 => minp.device = SubSeq(minp.cpu, 1, Len(b.ids))
  /\ biases.of = CustomRows /\ biases.device = CustomRows

\* split_decodes_and_prefills asserts that all decodes stand before all prefills.
DecodesFirst ==
  Threshold > 0 =>
    \A i, j \in DOMAIN b.ids :
      i < j /\ tokens[b.ids[j]] <= Threshold => tokens[b.ids[i]] <= Threshold
=============================================================================
