----------------------- MODULE RabitQBackend_proofs -----------------------
(***************************************************************************)
(* Theorems about RabitQBackend, for every set of requests and every       *)
(* value of the sizes.  The lemmas of the first part are about one         *)
(* RabitQRequestState; the theorems lift them to the steps of the layer.   *)
(***************************************************************************)
EXTENDS RabitQBackend, SequenceTheorems, WellFoundedInduction, TLAPS

---------------------------------------------------------------------------
(* Facts about one request *)

\* The allocation of a prefill holds its rows.
LEMMA PrefillFits ==
  ASSUME NEW n \in Nat \ {0}
  PROVE  PrefillCapacity(n) \in Nat /\ n <= PrefillCapacity(n)
<1>1. n * SpareFactor \in Nat
  BY SizeAssumption
<1> QED
  BY <1>1, SizeAssumption DEF PrefillCapacity, Larger

\* A prefill step (_update_prefill_stats, then the quantization) keeps the
\* state well-typed and its books consistent.
LEMMA PrefillKeepsBooks ==
  ASSUME NEW s \in RequestStates, Accounted(s), NEW n \in Nat \ {0}
  PROVE  LET t == QuantizePrefill(UpdatePrefillStats(s, n), n)
         IN  t \in RequestStates /\ Accounted(t)
<1> DEFINE u == UpdatePrefillStats(s, n)
           t == QuantizePrefill(u, n)
<1>1. PrefillCapacity(n) \in Nat /\ n <= PrefillCapacity(n)
  BY PrefillFits
<1>2. CASE s.prepared
  BY <1>2 DEF UpdatePrefillStats, QuantizePrefill, Quantizes, RequestStates,
     Accounted
<1>3. CASE ~s.prepared
  <2>1. /\ s.count = 0 /\ s.total_tokens = 0 /\ s.pending = 0
        /\ s.count + n = n /\ s.total_tokens + n = n
    BY <1>3 DEF Accounted
  <2>2. u = [s EXCEPT !.exists = TRUE, !.count = n, !.total_tokens = n]
    BY <1>3, <2>1 DEF UpdatePrefillStats
  <2> HIDE DEF u
  <2>3. u \in RequestStates
    BY <2>2, Zenon DEF RequestStates
  <2>4. u.exists /\ ~u.prepared /\ u.count = n /\ u.total_tokens = n
        /\ u.pending = 0
    BY <1>3, <2>1, <2>2 DEF RequestStates
  <2>5. t = [u EXCEPT !.capacity = PrefillCapacity(n), !.write_index = n,
                      !.prepared = TRUE]
    BY <2>4 DEF QuantizePrefill, Quantizes
  <2> HIDE DEF t
  <2>6. t \in RequestStates
    BY <1>1, <2>3, <2>5, Zenon DEF RequestStates
  <2>7. /\ t.exists /\ t.prepared /\ t.total_tokens = n /\ t.write_index = n
        /\ t.pending = 0 /\ t.capacity = PrefillCapacity(n)
    BY <2>3, <2>4, <2>5 DEF RequestStates
  <2>8. Accounted(t)
    BY <1>1, <2>7, SizeAssumption DEF Accounted
  <2> QED
    BY <2>6, <2>8 DEF t, u
<1> QED
  BY <1>2, <1>3

\* What a prefill step does to a request, prepared before or not.
LEMMA PrefillEffect ==
  ASSUME NEW s \in RequestStates, Accounted(s), NEW n \in Nat \ {0}
  PROVE  LET u == UpdatePrefillStats(s, n)
             t == QuantizePrefill(u, n)
         IN  /\ t.prepared
             /\ s.prepared => /\ ~Quantizes(u)
                              /\ t.write_index = s.write_index
                              /\ t.total_tokens = s.total_tokens
                              /\ t.pending = s.pending
                              /\ t.capacity = s.capacity
             /\ ~s.prepared => /\ Quantizes(u)
                               /\ t.write_index = n
                               /\ t.total_tokens = n
                               /\ t.pending = 0
                               /\ t.capacity = PrefillCapacity(n)
BY DEF Quantizes, QuantizePrefill, UpdatePrefillStats, RequestStates, Accounted

\* A decode step (_append_decode_kv, then _quantize_pending_keys once a batch
\* waits) keeps the state well-typed and its books consistent.
LEMMA DecodeKeepsBooks ==
  ASSUME NEW s \in RequestStates, Accounted(s)
  PROVE  LET t == QuantizePending(AppendDecode(s, 1))
         IN  t \in RequestStates /\ Accounted(t)
<1> DEFINE u == AppendDecode(s, 1)
           t == QuantizePending(u)
<1>1. CASE ~s.prepared
  BY <1>1 DEF AppendDecode, QuantizePending, NeedsQuantization, RequestStates,
     Accounted
<1>2. CASE s.prepared
  <2>1. /\ s.exists
        /\ s.total_tokens = s.write_index + s.pending
        /\ s.write_index \in 1 .. s.capacity
        /\ s.pending < BatchSize
        /\ s.total_tokens + 1 \in Nat /\ s.pending + 1 \in Nat
    BY <1>2 DEF Accounted, RequestStates
  <2>2. u = [s EXCEPT !.total_tokens = s.total_tokens + 1,
                      !.pending = s.pending + 1]
    BY <1>2, <2>1 DEF AppendDecode
  <2> HIDE DEF u
  <2>3. u \in RequestStates
    BY <2>1, <2>2, Zenon DEF RequestStates
  <2>4. /\ u.exists /\ u.prepared
        /\ u.total_tokens = u.write_index + u.pending
        /\ u.write_index \in 1 .. u.capacity
        /\ u.pending <= BatchSize
    BY <1>2, <2>1, <2>2, SizeAssumption DEF RequestStates
  <2>5. CASE u.pending < BatchSize
    <3>1. t = u
      BY <2>3, <2>5, SizeAssumption
         DEF QuantizePending, NeedsQuantization, RequestStates
    <3>2. Accounted(u)
      BY <2>4, <2>5 DEF Accounted
    <3> QED
      BY <2>3, <3>1, <3>2 DEF u
  <2>6. CASE u.pending = BatchSize
    <3>1. t = [u EXCEPT !.capacity = GrownCapacity(u),
                        !.write_index = u.write_index + u.pending,
                        !.pending = 0]
      BY <2>4, <2>6, SizeAssumption DEF QuantizePending, NeedsQuantization
    <3>2. /\ GrownCapacity(u) \in Nat
          /\ u.write_index + u.pending \in Nat
          /\ u.write_index + u.pending <= GrownCapacity(u)
      BY <2>3, SizeAssumption DEF GrownCapacity, Larger, RequestStates
    <3> HIDE DEF t
    <3>3. t \in RequestStates
      BY <2>3, <3>1, <3>2, Zenon DEF RequestStates
    <3>4. /\ t.exists /\ t.prepared
          /\ t.total_tokens = t.write_index + t.pending
          /\ t.write_index \in 1 .. t.capacity
          /\ t.pending = 0
      BY <2>3, <2>4, <3>1, <3>2 DEF RequestStates
    <3>5. Accounted(t)
      BY <3>4, SizeAssumption DEF Accounted
    <3> QED
      BY <3>3, <3>5 DEF t, u
  <2>7. QED
    BY <2>3, <2>4, <2>5, <2>6, SizeAssumption DEF RequestStates
<1> QED
  BY <1>1, <1>2

\* What a decode step does to a request that is prepared.
LEMMA DecodeEffect ==
  ASSUME NEW s \in RequestStates, Accounted(s), s.prepared
  PROVE  LET u == AppendDecode(s, 1)
             t == QuantizePending(u)
         IN  /\ t.prepared
             /\ t.total_tokens = s.total_tokens + 1
             /\ u.total_tokens = s.total_tokens + 1
             /\ u.write_index = s.write_index
             /\ u.pending = s.pending + 1
             /\ u.capacity = s.capacity
             /\ u \in RequestStates
             /\ s.pending + 1 < BatchSize =>
                  ~NeedsQuantization(u) /\ t = u
             /\ s.pending + 1 >= BatchSize =>
                  /\ NeedsQuantization(u)
                  /\ s.pending + 1 = BatchSize
                  /\ t.write_index = s.write_index + BatchSize
                  /\ t.pending = 0
                  /\ t.capacity = GrownCapacity(u)
<1> DEFINE u == AppendDecode(s, 1)
           t == QuantizePending(u)
<1>1. /\ s.exists /\ s.pending < BatchSize
      /\ s.total_tokens + 1 \in Nat /\ s.pending + 1 \in Nat
  BY DEF Accounted, RequestStates
<1>2. u = [s EXCEPT !.total_tokens = s.total_tokens + 1,
                    !.pending = s.pending + 1]
  BY <1>1 DEF AppendDecode
<1> HIDE DEF u
<1>3. u \in RequestStates
  BY <1>1, <1>2, Zenon DEF RequestStates
<1>4. /\ u.prepared /\ u.write_index = s.write_index
      /\ u.total_tokens = s.total_tokens + 1
      /\ u.pending = s.pending + 1 /\ u.capacity = s.capacity
  BY <1>2 DEF RequestStates
<1>5. CASE s.pending + 1 < BatchSize
  <2>1. ~NeedsQuantization(u) /\ t = u
    BY <1>3, <1>4, <1>5, SizeAssumption
       DEF NeedsQuantization, QuantizePending, RequestStates
  <2> QED
    BY <1>1, <1>3, <1>4, <1>5, <2>1, SizeAssumption DEF u, RequestStates
<1>6. CASE s.pending + 1 >= BatchSize
  <2>1. NeedsQuantization(u) /\ s.pending + 1 = BatchSize
    BY <1>1, <1>4, <1>6, SizeAssumption DEF NeedsQuantization, RequestStates
  <2>2. t = [u EXCEPT !.capacity = GrownCapacity(u),
                      !.write_index = u.write_index + u.pending,
                      !.pending = 0]
    BY <2>1 DEF QuantizePending
  <2> HIDE DEF t
  <2>3. /\ t.prepared /\ t.total_tokens = s.total_tokens + 1
        /\ t.write_index = s.write_index + BatchSize
        /\ t.pending = 0 /\ t.capacity = GrownCapacity(u)
    BY <1>3, <1>4, <2>1, <2>2 DEF RequestStates
  <2> QED
    BY <1>1, <1>3, <1>4, <1>6, <2>1, <2>3, SizeAssumption DEF t, u
<1> QED
  BY <1>1, <1>5, <1>6, SizeAssumption DEF RequestStates

\* A request that is not prepared is left alone by a decode step.
LEMMA DecodeSkips ==
  ASSUME NEW s \in RequestStates, ~s.prepared
  PROVE  /\ AppendDecode(s, 1) = s
         /\ ~NeedsQuantization(s)
         /\ QuantizePending(s) = s
BY DEF AppendDecode, NeedsQuantization, QuantizePending

\* The capacity never shrinks.
LEMMA CapacityGrows ==
  ASSUME NEW u \in RequestStates
  PROVE  /\ GrownCapacity(u) \in Nat
         /\ u.capacity <= GrownCapacity(u)
         /\ u.write_index + u.pending <= GrownCapacity(u)
BY SizeAssumption DEF GrownCapacity, Larger, RequestStates

\* The rows after _quantize_pending_keys: the old ones are kept, the new ones
\* come from the positions that follow the tokens already quantized.
LEMMA PendingRows ==
  ASSUME NEW u \in RequestStates, NeedsQuantization(u), NEW len \in Nat,
         NEW m \in [0 .. u.capacity - 1 -> Int],
         u.write_index <= u.capacity,
         u.total_tokens = u.write_index + u.pending,
         NEW rs, rs = QuantizePendingRows(m, u, len)
  PROVE  /\ rs \in [0 .. GrownCapacity(u) - 1 -> Int]
         /\ \A i \in 0 .. u.write_index - 1 : rs[i] = m[i]
         /\ \A i \in u.write_index .. u.total_tokens - 1 :
              rs[i] = KeyAt(i, len)
<1> DEFINE kept == IF GrownCapacity(u) > u.capacity THEN u.write_index
                                                    ELSE u.capacity
           cell(i) == IF i \in u.write_index .. u.write_index + u.pending - 1
                      THEN KeyAt(u.total_tokens - u.pending
                                   + (i - u.write_index), len)
                      ELSE IF i < kept THEN m[i] ELSE Garbage
<1>1. /\ u.write_index \in Nat /\ u.capacity \in Nat /\ u.pending \in Nat
      /\ u.total_tokens \in Nat
  BY DEF RequestStates
<1>2. rs = [i \in 0 .. GrownCapacity(u) - 1 |-> cell(i)]
  BY DEF QuantizePendingRows
<1>3. /\ GrownCapacity(u) \in Nat /\ u.capacity <= GrownCapacity(u)
      /\ u.total_tokens <= GrownCapacity(u)
  BY CapacityGrows
<1>4. kept \in Nat /\ u.write_index <= kept /\ kept <= u.capacity
  BY <1>1, <1>3
<1>5. ASSUME NEW i \in 0 .. GrownCapacity(u) - 1
      PROVE  /\ cell(i) \in Int
             /\ i < u.write_index => cell(i) = m[i]
             /\ i \in u.write_index .. u.total_tokens - 1 =>
                  cell(i) = KeyAt(i, len)
  <2> HIDE DEF kept
  <2>1. CASE i \in u.write_index .. u.write_index + u.pending - 1
    <3>1. u.total_tokens - u.pending + (i - u.write_index) = i
      BY <1>1, <1>3, <2>1
    <3>2. cell(i) = KeyAt(i, len)
      BY <2>1, <3>1
    <3>3. KeyAt(i, len) \in Int
      BY <1>3 DEF KeyAt, Garbage
    <3>4. ~(i < u.write_index)
      BY <1>1, <1>3, <2>1
    <3> QED
      BY <3>2, <3>3, <3>4
  <2>2. CASE i \notin u.write_index .. u.write_index + u.pending - 1
    <3>1. cell(i) = IF i < kept THEN m[i] ELSE Garbage
      BY <2>2
    <3>2. i < kept => i \in 0 .. u.capacity - 1
      BY <1>1, <1>3, <1>4
    <3>3. cell(i) \in Int
      BY <3>1, <3>2 DEF Garbage
    <3>4. i < u.write_index => i < kept
      BY <1>1, <1>3, <1>4
    <3> QED
      BY <1>1, <1>3, <2>2, <3>1, <3>3, <3>4, SMTT(30)
  <2> QED
    BY <2>1, <2>2
<1> HIDE DEF cell
<1> QED
  BY <1>1, <1>2, <1>3, <1>5, SMTT(30)

---------------------------------------------------------------------------
(* The inductive invariant *)

\* A request the scheduler never announced, and one on the books' path that no
\* step has served yet, have nothing in the cache.  RowsFollowPositions is not
\* inductive without this: a first prefill must start at position 0.
Untouched ==
  \A r \in Reqs :
    /\ r \notin arrived => ~states[r].prepared /\ kvLen[r] = 0
    /\ ~bypassed[r] /\ ~states[r].prepared => kvLen[r] = 0

IInv == TypeOK /\ TokensAccounted /\ Untouched /\ RowsFollowPositions

\* No request has a state at the start.
LEMMA InitIInv == Init => IInv
BY SizeAssumption DEF Init, IInv, TypeOK, TokensAccounted, Untouched, RowsFollowPositions,
   RequestStates, NoState, NoRows, Accounted

\* Every scheduled request is a request with a positive number of tokens.
LEMMA BatchFacts ==
  ASSUME NEW b \in Batches, NEW n \in [Scheduled(b) -> 1 .. MaxLen],
         NEW r \in Scheduled(b)
  PROVE  r \in Reqs /\ n[r] \in Nat \ {0}
BY WorkloadAssumption DEF Batches, Scheduled

\* Both kinds of step move the scheduler's side alike.
LEMMA ComputeFacts ==
  ASSUME TypeOK, NEW b \in Batches, NEW n \in [Scheduled(b) -> 1 .. MaxLen],
         Schedulable(b, n), Compute(b, n)
  PROVE  /\ todo' \in [Reqs -> Nat]
         /\ kvLen' \in [Reqs -> Nat]
         /\ arrived' = arrived /\ preempts' = preempts
         /\ \A r \in Reqs :
              kvLen'[r] = IF r \in Scheduled(b) THEN kvLen[r] + n[r]
                                                ELSE kvLen[r]
<1>1. ASSUME NEW r \in Scheduled(b)
      PROVE  /\ r \in Reqs /\ n[r] \in Nat \ {0} /\ n[r] <= todo[r]
  BY BatchFacts DEF Schedulable, TypeOK
<1> QED
  BY <1>1 DEF Compute, TypeOK

---------------------------------------------------------------------------
(* What one step of the layer does to one request *)

\* The books and the rows of r stay; tokens entering or leaving the cache at
\* the same time are a bypass, except when r arrives.
Same(r) ==
  /\ (states'[r].prepared <=> states[r].prepared)
  /\ states'[r].write_index = states[r].write_index
  /\ states'[r].pending = states[r].pending
  /\ states'[r].total_tokens = states[r].total_tokens
  /\ rows'[r] = rows[r]
  /\ \/ bypassed'[r] /\ r \in arrived'
     \/ kvLen'[r] = kvLen[r] /\ (bypassed'[r] <=> bypassed[r])
     \/ r \notin arrived /\ kvLen'[r] = 0

Enrolled(r) ==
  /\ r \in arrived
  /\ ~states[r].prepared /\ states'[r].prepared
  /\ states'[r].write_index > 0 /\ states'[r].pending = 0
  /\ states'[r].total_tokens = states'[r].write_index
  /\ kvLen'[r] = kvLen[r] + states'[r].write_index
  /\ \A i \in 0 .. states'[r].write_index - 1 : rows'[r][i] = kvLen[r] + i
  /\ (bypassed'[r] <=> bypassed[r])

\* The part common to the two decode effects.
Grows(r) ==
  /\ r \in arrived
  /\ states[r].prepared /\ states'[r].prepared
  /\ states'[r].total_tokens = states[r].total_tokens + 1
  /\ kvLen'[r] = kvLen[r] + 1
  /\ (bypassed'[r] <=> bypassed[r])

Appended(r) ==
  /\ Grows(r)
  /\ states[r].pending + 1 < BatchSize
  /\ states'[r].pending = states[r].pending + 1
  /\ states'[r].write_index = states[r].write_index
  /\ rows'[r] = rows[r]

Completed(r) ==
  /\ Grows(r)
  /\ states[r].pending + 1 = BatchSize
  /\ states'[r].pending = 0
  /\ states'[r].write_index = states[r].write_index + BatchSize
  /\ \A i \in 0 .. states[r].write_index - 1 : rows'[r][i] = rows[r][i]
  /\ \A i \in states[r].write_index .. states[r].total_tokens :
       rows'[r][i] = KeyAt(i, kvLen'[r])

\* The typing of r after a step.
Typed(r) ==
  /\ states'[r] \in RequestStates
  /\ Accounted(states'[r])
  /\ rows'[r] \in [0 .. states'[r].capacity - 1 -> Int]

\* A prefill step enrolls the scheduled requests that are not prepared and
\* bypasses those that are.
LEMMA PrefillStep ==
  ASSUME IInv, NEW b \in Batches, NEW n \in [Scheduled(b) -> 1 .. MaxLen],
         ForwardPrefill(b, n), NEW r \in Reqs
  PROVE  Typed(r) /\ (Same(r) \/ Enrolled(r))
<1> DEFINE u == UpdatePrefillStats(states[r], n[r])
           t == QuantizePrefill(u, n[r])
<1>1. /\ states[r] \in RequestStates /\ Accounted(states[r])
      /\ rows[r] \in [0 .. states[r].capacity - 1 -> Int]
      /\ kvLen[r] \in Nat
  BY DEF IInv, TypeOK, TokensAccounted
<1>2. \A q \in Reqs : kvLen'[q] = IF q \in Scheduled(b) THEN kvLen[q] + n[q]
                                                        ELSE kvLen[q]
  BY ComputeFacts DEF ForwardPrefill, IInv
<1>3. CASE r \notin Scheduled(b)
  <2>1. /\ states'[r] = states[r] /\ rows'[r] = rows[r]
        /\ bypassed'[r] = bypassed[r] /\ kvLen'[r] = kvLen[r]
    <3>1. bypassed[r] \in BOOLEAN
      BY DEF IInv, TypeOK
    <3> QED
      BY <1>2, <1>3, <3>1 DEF ForwardPrefill
  <2> QED
    BY <1>1, <2>1 DEF Typed, Same
<1>4. CASE r \in Scheduled(b)
  <2>1. n[r] \in Nat \ {0}
    BY <1>4, BatchFacts
  <2>2. /\ states'[r] = t
        /\ rows'[r] = QuantizePrefillRows(rows[r], u, kvLen[r], n[r])
        /\ bypassed'[r] = (bypassed[r] \/ states[r].prepared)
        /\ kvLen'[r] = kvLen[r] + n[r]
        /\ r \in arrived /\ r \in arrived'
    BY <1>2, <1>4 DEF ForwardPrefill, Schedulable, Compute
  <2>3. t \in RequestStates /\ Accounted(t)
    BY <1>1, <2>1, PrefillKeepsBooks
  <2>4. CASE states[r].prepared
    <3>1. /\ t.prepared /\ ~Quantizes(u)
          /\ t.write_index = states[r].write_index
          /\ t.total_tokens = states[r].total_tokens
          /\ t.pending = states[r].pending
          /\ t.capacity = states[r].capacity
      BY <1>1, <2>1, <2>4, PrefillEffect
    <3> HIDE DEF t, u
    <3>2. rows'[r] = rows[r]
      BY <2>2, <3>1 DEF QuantizePrefillRows
    <3> QED
      BY <1>1, <2>2, <2>3, <2>4, <3>1, <3>2 DEF Typed, Same
  <2>5. CASE ~states[r].prepared
    <3>1. /\ t.prepared /\ Quantizes(u)
          /\ t.write_index = n[r] /\ t.total_tokens = n[r] /\ t.pending = 0
          /\ t.capacity = PrefillCapacity(n[r])
      BY <1>1, <2>1, <2>5, PrefillEffect
    <3> HIDE DEF t, u
    <3>2. /\ rows'[r] \in [0 .. PrefillCapacity(n[r]) - 1 -> Int]
          /\ \A i \in 0 .. n[r] - 1 : rows'[r][i] = kvLen[r] + i
      <4>1. rows'[r] = [i \in 0 .. PrefillCapacity(n[r]) - 1 |->
                          IF i < n[r] THEN kvLen[r] + i ELSE Garbage]
        BY <2>2, <3>1 DEF QuantizePrefillRows
      <4>2. PrefillCapacity(n[r]) \in Nat /\ n[r] <= PrefillCapacity(n[r])
        BY <2>1, PrefillFits
      <4> QED
        BY <1>1, <2>1, <4>1, <4>2 DEF Garbage
    <3>3. bypassed'[r] = bypassed[r]
      <4>1. bypassed[r] \in BOOLEAN
        BY DEF IInv, TypeOK
      <4> QED
        BY <2>2, <2>5, <4>1
    <3> QED
      BY <2>1, <2>2, <2>3, <2>5, <3>1, <3>2, <3>3 DEF Typed, Enrolled
  <2> QED
    BY <2>4, <2>5
<1> QED
  BY <1>3, <1>4

\* A decode step appends one token to each scheduled request that is prepared,
\* quantizing the batch it may complete, and bypasses the others.
LEMMA DecodeStep ==
  ASSUME IInv, NEW b \in Batches, NEW n \in [Scheduled(b) -> 1 .. MaxLen],
         NEW wrapper \in Wrapper, ForwardDecode(b, n, wrapper), NEW r \in Reqs
  PROVE  Typed(r) /\ (Same(r) \/ Appended(r) \/ Completed(r))
<1> DEFINE u == AppendDecode(states[r], 1)
           t == QuantizePending(u)
<1>1. /\ states[r] \in RequestStates /\ Accounted(states[r])
      /\ rows[r] \in [0 .. states[r].capacity - 1 -> Int]
      /\ kvLen[r] \in Nat
      /\ bypassed[r] \in BOOLEAN
  BY DEF IInv, TypeOK, TokensAccounted
<1>2. \A q \in Reqs : kvLen'[q] = IF q \in Scheduled(b) THEN kvLen[q] + n[q]
                                                        ELSE kvLen[q]
  BY ComputeFacts DEF ForwardDecode, IInv
<1>3. CASE r \notin Scheduled(b)
  <2>1. /\ states'[r] = states[r] /\ rows'[r] = rows[r]
        /\ bypassed'[r] = bypassed[r] /\ kvLen'[r] = kvLen[r]
    BY <1>1, <1>2, <1>3 DEF ForwardDecode
  <2> QED
    BY <1>1, <2>1 DEF Typed, Same
<1>4. CASE r \in Scheduled(b)
  <2>1. n[r] = 1
    BY <1>4 DEF ForwardDecode
  <2>2. /\ states'[r] = t
        /\ rows'[r] = QuantizePendingRows(rows[r], u, kvLen'[r])
        /\ bypassed'[r] = (bypassed[r] \/ ~IsPrepared(r))
        /\ kvLen'[r] = kvLen[r] + 1
        /\ r \in arrived /\ r \in arrived'
    BY <1>2, <1>4, <2>1 DEF ForwardDecode, Schedulable, Compute
  <2>3. t \in RequestStates /\ Accounted(t)
    BY <1>1, DecodeKeepsBooks
  <2>4. CASE ~states[r].prepared
    <3>1. u = states[r] /\ t = states[r] /\ ~NeedsQuantization(u)
      BY <1>1, <2>4, DecodeSkips
    <3>2. bypassed'[r]
      BY <2>2, <2>4 DEF IsPrepared
    <3> HIDE DEF t, u
    <3>3. rows'[r] = rows[r]
      BY <2>2, <3>1 DEF QuantizePendingRows
    <3> QED
      BY <1>1, <2>2, <2>3, <3>1, <3>2, <3>3 DEF Typed, Same
  <2>5. CASE states[r].prepared
    <3>1. /\ t.prepared
          /\ t.total_tokens = states[r].total_tokens + 1
          /\ u.total_tokens = states[r].total_tokens + 1
          /\ u.write_index = states[r].write_index
          /\ u.pending = states[r].pending + 1
          /\ u.capacity = states[r].capacity
          /\ u \in RequestStates
          /\ states[r].pending + 1 < BatchSize =>
               ~NeedsQuantization(u) /\ t = u
          /\ states[r].pending + 1 >= BatchSize =>
               /\ NeedsQuantization(u)
               /\ states[r].pending + 1 = BatchSize
               /\ t.write_index = states[r].write_index + BatchSize
               /\ t.pending = 0
               /\ t.capacity = GrownCapacity(u)
      BY <1>1, <2>5, DecodeEffect
    <3>2. /\ states[r].exists
          /\ states[r].total_tokens = states[r].write_index + states[r].pending
          /\ states[r].write_index <= states[r].capacity
          /\ states[r].write_index \in Nat /\ states[r].pending \in Nat
          /\ states[r].capacity \in Nat
      BY <1>1, <2>5 DEF Accounted, RequestStates
    <3>3. bypassed'[r] = bypassed[r]
      BY <1>1, <2>2, <2>5, <3>2 DEF IsPrepared
    <3> HIDE DEF t, u
    <3>4. Grows(r)
      BY <2>2, <2>5, <3>1, <3>3 DEF Grows
    <3>5. CASE states[r].pending + 1 < BatchSize
      <4>1. rows'[r] = rows[r]
        BY <2>2, <3>1, <3>5 DEF QuantizePendingRows
      <4>2. Typed(r)
        BY <1>1, <2>2, <2>3, <3>1, <3>5, <4>1 DEF Typed
      <4>3. Appended(r)
        BY <2>2, <3>1, <3>4, <3>5, <4>1 DEF Appended
      <4> QED
        BY <4>2, <4>3
    <3>6. CASE states[r].pending + 1 >= BatchSize
      <4>1. /\ u \in RequestStates /\ NeedsQuantization(u)
            /\ rows[r] \in [0 .. u.capacity - 1 -> Int]
            /\ u.write_index <= u.capacity
            /\ u.total_tokens = u.write_index + u.pending
            /\ kvLen'[r] \in Nat
            /\ rows'[r] = QuantizePendingRows(rows[r], u, kvLen'[r])
        <5>1. rows[r] \in [0 .. u.capacity - 1 -> Int]
          BY <1>1, <3>1, Zenon
        <5>2. u.total_tokens = u.write_index + u.pending
          BY <3>1, <3>2
        <5>3. kvLen'[r] \in Nat
          BY <1>1, <2>2
        <5> QED
          BY <2>2, <3>1, <3>2, <3>6, <5>1, <5>2, <5>3
      <4>2. /\ rows'[r] \in [0 .. GrownCapacity(u) - 1 -> Int]
            /\ \A i \in 0 .. u.write_index - 1 : rows'[r][i] = rows[r][i]
            /\ \A i \in u.write_index .. u.total_tokens - 1 :
                 rows'[r][i] = KeyAt(i, kvLen'[r])
        BY <4>1, PendingRows
      <4>3. u.total_tokens - 1 = states[r].total_tokens
        BY <3>1, <3>2
      <4>4. Typed(r)
        BY <2>2, <2>3, <3>1, <3>6, <4>2 DEF Typed
      <4>5. Completed(r)
        BY <2>2, <3>1, <3>4, <3>6, <4>2, <4>3 DEF Completed
      <4> QED
        BY <4>4, <4>5
    <3> QED
      BY <3>2, <3>5, <3>6, SizeAssumption
  <2> QED
    BY <2>4, <2>5
<1> QED
  BY <1>3, <1>4

\* The scheduler's side, and the shapes of the functions, after any step.
Shapes ==
  /\ todo' \in [Reqs -> Nat]
  /\ kvLen' \in [Reqs -> Nat]
  /\ arrived' \in SUBSET Reqs
  /\ arrived \subseteq arrived'
  /\ preempts' \in Nat
  /\ bypassed' \in [Reqs -> BOOLEAN]
  /\ DOMAIN states' = Reqs /\ states' = [r \in Reqs |-> states'[r]]
  /\ DOMAIN rows' = Reqs

Moved(r) == Same(r) \/ Enrolled(r) \/ Appended(r) \/ Completed(r)

\* Every step, for every request, is one of the four moves.
LEMMA EveryStep ==
  ASSUME IInv, [Next]_vars
  PROVE  Shapes /\ \A r \in Reqs : Typed(r) /\ Moved(r)
<1>1. /\ todo \in [Reqs -> Nat] /\ kvLen \in [Reqs -> Nat]
      /\ arrived \in SUBSET Reqs /\ preempts \in Nat
      /\ states \in [Reqs -> RequestStates] /\ bypassed \in [Reqs -> BOOLEAN]
      /\ DOMAIN rows = Reqs
      /\ \A r \in Reqs : /\ rows[r] \in [0 .. states[r].capacity - 1 -> Int]
                         /\ Accounted(states[r])
  BY DEF IInv, TypeOK, TokensAccounted
<1>2. ASSUME NEW q \in Reqs, NEW len \in 1 .. MaxPrompt,
             NEW hit \in 0 .. MaxCached, Arrive(q, len, hit)
      PROVE  Shapes /\ \A r \in Reqs : Typed(r) /\ Moved(r)
  <2>1. len - hit \in Nat /\ hit \in Nat
    BY <1>2, WorkloadAssumption DEF Arrive
  <2>2. Shapes
    BY <1>1, <1>2, <2>1 DEF Arrive, Shapes
  <2>3. ASSUME NEW r \in Reqs
        PROVE  Typed(r) /\ Same(r)
    <3>1. states'[r] = states[r] /\ rows'[r] = rows[r]
      BY <1>2 DEF Arrive
    <3>2. r # q => kvLen'[r] = kvLen[r] /\ bypassed'[r] = bypassed[r]
      BY <1>1, <1>2 DEF Arrive
    <3>3. r = q => /\ r \notin arrived
                   /\ bypassed'[r] \/ kvLen'[r] = 0
                   /\ r \in arrived'
      <4>1. CASE hit = 0
        BY <1>1, <1>2, <4>1 DEF Arrive
      <4>2. CASE hit > 0
        BY <1>1, <1>2, <4>2 DEF Arrive
      <4> QED
        BY <1>2, <2>1, <4>1, <4>2 DEF Arrive
    <3> QED
      BY <1>1, <2>1, <3>1, <3>2, <3>3 DEF Typed, Same
  <2> QED
    BY <2>2, <2>3 DEF Moved
<1>3. ASSUME NEW q \in Reqs, Preempt(q)
      PROVE  Shapes /\ \A r \in Reqs : Typed(r) /\ Moved(r)
  <2>1. Shapes
    BY <1>1, <1>3 DEF Preempt, Shapes
  <2>2. ASSUME NEW r \in Reqs
        PROVE  Typed(r) /\ Same(r)
    <3>1. states'[r] = states[r] /\ rows'[r] = rows[r]
      BY <1>3 DEF Preempt
    <3>2. \/ bypassed'[r] /\ r \in arrived'
          \/ kvLen'[r] = kvLen[r] /\ bypassed'[r] = bypassed[r]
      <4>1. r = q => r \in arrived /\ bypassed'[r]
        BY <1>1, <1>3 DEF Preempt, IInv, Untouched
      <4>2. r # q => kvLen'[r] = kvLen[r] /\ bypassed'[r] = bypassed[r]
        BY <1>1, <1>3 DEF Preempt
      <4> QED
        BY <1>3, <4>1, <4>2 DEF Preempt
    <3> QED
      BY <1>1, <3>1, <3>2 DEF Typed, Same
  <2> QED
    BY <2>1, <2>2 DEF Moved
<1>4. ASSUME NEW b \in Batches, NEW n \in [Scheduled(b) -> 1 .. MaxLen],
             ForwardPrefill(b, n)
      PROVE  Shapes /\ \A r \in Reqs : Typed(r) /\ Moved(r)
  <2>1. todo' \in [Reqs -> Nat] /\ kvLen' \in [Reqs -> Nat]
        /\ arrived' = arrived /\ preempts' = preempts
    BY <1>4, ComputeFacts DEF ForwardPrefill, IInv
  <2>2. Shapes
    BY <1>1, <1>4, <2>1 DEF ForwardPrefill, Shapes
  <2> QED
    BY <1>4, <2>2, PrefillStep DEF Moved
<1>5. ASSUME NEW b \in Batches, NEW n \in [Scheduled(b) -> 1 .. MaxLen],
             NEW wrapper \in Wrapper, ForwardDecode(b, n, wrapper)
      PROVE  Shapes /\ \A r \in Reqs : Typed(r) /\ Moved(r)
  <2>1. todo' \in [Reqs -> Nat] /\ kvLen' \in [Reqs -> Nat]
        /\ arrived' = arrived /\ preempts' = preempts
    BY <1>5, ComputeFacts DEF ForwardDecode, IInv
  <2>2. Shapes
    BY <1>1, <1>5, <2>1 DEF ForwardDecode, Shapes
  <2> QED
    BY <1>5, <2>2, DecodeStep DEF Moved
<1>6. ASSUME UNCHANGED vars
      PROVE  Shapes /\ \A r \in Reqs : Typed(r) /\ Moved(r)
  <2>1. Shapes
    BY <1>1, <1>6 DEF vars, sched, Shapes
  <2>2. ASSUME NEW r \in Reqs
        PROVE  Typed(r) /\ Same(r)
    BY <1>1, <1>6 DEF vars, sched, Typed, Same
  <2> QED
    BY <2>1, <2>2 DEF Moved
<1> QED
  BY <1>2, <1>3, <1>4, <1>5, <1>6 DEF Next

\* IInv is inductive.
LEMMA StepIInv == IInv /\ [Next]_vars => IInv'
<1> SUFFICES ASSUME IInv, [Next]_vars
             PROVE  IInv'
  OBVIOUS
<1>1. Shapes /\ \A r \in Reqs : Typed(r) /\ Moved(r)
  BY EveryStep
<1>2. TypeOK'
  BY <1>1 DEF Shapes, Typed, TypeOK
<1>3. TokensAccounted'
  BY <1>1 DEF Typed, TokensAccounted
<1>4. ASSUME NEW r \in Reqs
      PROVE  /\ r \notin arrived' => ~states'[r].prepared /\ kvLen'[r] = 0
             /\ ~bypassed'[r] /\ ~states'[r].prepared => kvLen'[r] = 0
             /\ ~bypassed'[r] /\ states'[r].prepared =>
                  /\ states'[r].total_tokens = kvLen'[r]
                  /\ \A i \in 0 .. states'[r].write_index - 1 : rows'[r][i] = i
  <2> USE <1>1
  <2>1. /\ states[r] \in RequestStates /\ Accounted(states[r])
        /\ kvLen[r] \in Nat /\ kvLen'[r] \in Nat
        /\ arrived \subseteq arrived'
        /\ states'[r] \in RequestStates
        /\ r \notin arrived => ~states[r].prepared /\ kvLen[r] = 0
        /\ ~bypassed[r] /\ ~states[r].prepared => kvLen[r] = 0
        /\ ~bypassed[r] /\ states[r].prepared =>
             /\ states[r].total_tokens = kvLen[r]
             /\ \A i \in 0 .. states[r].write_index - 1 : rows[r][i] = i
    BY DEF IInv, TypeOK, TokensAccounted, Untouched, RowsFollowPositions,
       Shapes, Typed
  <2>2. CASE Same(r)
    <3>1. /\ states'[r].prepared <=> states[r].prepared
          /\ states'[r].write_index = states[r].write_index
          /\ states'[r].total_tokens = states[r].total_tokens
          /\ rows'[r] = rows[r]
      BY <2>2 DEF Same
    <3>2. CASE bypassed'[r] /\ r \in arrived'
      BY <2>1, <3>1, <3>2
    <3>3. CASE kvLen'[r] = kvLen[r] /\ (bypassed'[r] <=> bypassed[r])
      BY <2>1, <3>1, <3>3
    <3>4. CASE r \notin arrived /\ kvLen'[r] = 0
      BY <2>1, <3>1, <3>4
    <3> QED
      BY <2>2, <3>2, <3>3, <3>4 DEF Same
  <2>3. CASE Enrolled(r)
    BY <2>1, <2>3 DEF Enrolled, RequestStates
  <2>4. CASE Appended(r)
    BY <2>1, <2>4 DEF Appended, Grows
  <2>5. CASE Completed(r)
    <3>1. /\ states[r].write_index \in Nat /\ states[r].total_tokens \in Nat
          /\ states[r].pending \in Nat
          /\ states[r].total_tokens = states[r].write_index + states[r].pending
          /\ states[r].prepared /\ r \in arrived
      BY <2>1, <2>5 DEF RequestStates, Accounted, Completed, Grows
    <3>2. /\ states'[r].total_tokens = states[r].total_tokens + 1
          /\ states'[r].write_index = states[r].total_tokens + 1
          /\ kvLen'[r] = kvLen[r] + 1
          /\ bypassed'[r] <=> bypassed[r]
      BY <2>5, <3>1, SizeAssumption DEF Completed, Grows
    <3>3. ASSUME ~bypassed[r], NEW i \in 0 .. states'[r].write_index - 1
          PROVE  rows'[r][i] = i
      <4>1. CASE i < states[r].write_index
        BY <2>1, <2>5, <3>1, <3>3, <4>1 DEF Completed
      <4>2. CASE i >= states[r].write_index
        <5>1. rows'[r][i] = KeyAt(i, kvLen'[r])
          BY <2>5, <3>1, <3>2, <4>2 DEF Completed
        <5>2. i < kvLen'[r]
          BY <2>1, <3>1, <3>2, <3>3
        <5> QED
          BY <5>1, <5>2 DEF KeyAt
      <4> QED
        BY <3>1, <3>2, <4>1, <4>2
    <3> QED
      BY <2>1, <2>5, <3>1, <3>2, <3>3 DEF Completed, Grows
  <2> QED
    BY <2>2, <2>3, <2>4, <2>5 DEF Moved
<1>5. Untouched' /\ RowsFollowPositions'
  BY <1>4 DEF Untouched, RowsFollowPositions
<1> QED
  BY <1>2, <1>3, <1>5 DEF IInv

\* IInv holds in every reachable state.
LEMMA Invariance == Spec => []IInv
BY InitIInv, StepIInv, PTL DEF Spec

---------------------------------------------------------------------------
(* Theorems *)

\* The fields of every request's state and the shapes of its metadata tensors
\* stay in range: no row index of _quantize_pending_keys leaves its tensor.
THEOREM TypeCorrect == Spec => []TypeOK
BY Invariance, PTL DEF IInv

\* Whatever the scheduler mixes, chunks or preempts, each token on a request's
\* books is quantized or pending, and fewer than a batch wait.
THEOREM BooksBalance == Spec => []TokensAccounted
BY Invariance, PTL DEF IInv

\* On the path the bookkeeping sees, metadata row i describes the key at
\* position i of the request's KV cache.
THEOREM RowsInPlace == Spec => []RowsFollowPositions
BY Invariance, PTL DEF IInv

\* No step rewrites or drops a quantized row.
THEOREM QuantizedRowsStay == Spec => RowsAppendOnly
<1> DEFINE Keeps(r) ==
      states[r].prepared =>
        /\ states'[r].prepared
        /\ states'[r].write_index >= states[r].write_index
        /\ \A i \in 0 .. states[r].write_index - 1 : rows'[r][i] = rows[r][i]
<1>1. ASSUME IInv, [Next]_vars, NEW r \in Reqs
      PROVE  Keeps(r)
  <2>1. /\ Moved(r) /\ states[r].write_index \in Nat
    BY <1>1, EveryStep DEF IInv, TypeOK, RequestStates
  <2>2. CASE Same(r)
    BY <2>1, <2>2 DEF Same
  <2>3. CASE Enrolled(r)
    BY <2>3 DEF Enrolled
  <2>4. CASE Appended(r)
    BY <2>1, <2>4 DEF Appended, Grows
  <2>5. CASE Completed(r)
    BY <2>1, <2>5, SizeAssumption DEF Completed, Grows
  <2> QED
    BY <2>1, <2>2, <2>3, <2>4, <2>5 DEF Moved
<1>2. IInv /\ [Next]_vars => [\A r \in Reqs : Keeps(r)]_vars
  BY <1>1
<1> HIDE DEF Keeps
<1>3. [][\A r \in Reqs : Keeps(r)]_vars => RowsAppendOnly
  BY DEF Keeps, RowsAppendOnly
<1> QED
  BY <1>2, <1>3, Invariance, PTL DEF Spec

\* The bookkeeping implements the ledger of quantized and pending tokens, with
\* write_index and the number of pending decode tokens as its two columns.
THEOREM BooksImplementLedger == Spec => ImplementsLedger
<1> DEFINE quant == [r \in Reqs |-> states[r].write_index]
           pend  == [r \in Reqs |-> states[r].pending]
<1>1. Init => Ledger!Init
  BY DEF Init, NoState, Ledger!Init
<1>2. IInv /\ [Next]_vars => [Ledger!Next]_<<quant, pend>>
  <2> SUFFICES ASSUME IInv, [Next]_vars
               PROVE  Ledger!Next
    OBVIOUS
  <2>1. Shapes /\ \A r \in Reqs : Typed(r) /\ Moved(r)
    BY EveryStep
  <2>2. quant' \in [Reqs -> Nat] /\ pend' \in [Reqs -> Nat]
    BY <2>1 DEF Typed, RequestStates
  <2>3. ASSUME NEW r \in Reqs
        PROVE  \/ Ledger!Unmoved(r) \/ Ledger!Enroll(r)
               \/ Ledger!Append1(r) \/ Ledger!CompleteBatch(r)
    <3>1. /\ quant[r] = states[r].write_index /\ pend[r] = states[r].pending
          /\ quant'[r] = states'[r].write_index
          /\ pend'[r] = states'[r].pending
      OBVIOUS
    <3>2. /\ states[r] \in RequestStates /\ Accounted(states[r])
      BY DEF IInv, TypeOK, TokensAccounted
    <3>3. CASE Same(r)
      BY <3>1, <3>3 DEF Same, Ledger!Unmoved
    <3>4. CASE Enrolled(r)
      BY <3>1, <3>2, <3>4 DEF Enrolled, Accounted, Ledger!Enroll
    <3>5. CASE Appended(r)
      BY <3>1, <3>2, <3>5
         DEF Appended, Grows, Accounted, RequestStates, Ledger!Append1
    <3>6. CASE Completed(r)
      BY <3>1, <3>2, <3>6
         DEF Completed, Grows, Accounted, RequestStates, Ledger!CompleteBatch
    <3> QED
      BY <2>1, <3>3, <3>4, <3>5, <3>6 DEF Moved
  <2> QED
    BY <2>2, <2>3 DEF Ledger!Next
<1> QED
  BY <1>1, <1>2, Invariance, PTL DEF Spec, ImplementsLedger, Ledger!Spec
---------------------------------------------------------------------------
(* Induction on the length of a batch *)

\* Induction on the natural numbers, for sets.
LEMMA SetInduction ==
  ASSUME NEW S, 0 \in S, \A n \in Nat : n \in S => n + 1 \in S
  PROVE  \A n \in Nat : n \in S
  <1> DEFINE T == Nat \ S
  <1> SUFFICES ASSUME T # {} PROVE FALSE
    OBVIOUS
  <1>0. T \subseteq Nat /\ T # {} /\ IsWellFoundedOn(OpToRel(<, Nat), Nat)
    BY NatLessThanWellFounded
  <1>1. PICK x \in T : \A y \in T : ~(<<y, x>> \in OpToRel(<, Nat))
    <2> DEFINE R == OpToRel(<, Nat)
    <2> HIDE DEF T, R
    <2>1. IsWellFoundedOn(R, Nat)
      BY <1>0 DEF R
    <2>2. \E x \in T : \A y \in T : ~(<<y, x>> \in R)
      BY <1>0, <2>1, WFMin
    <2> QED
      BY <2>2 DEF R
  <1>2. x # 0 /\ x - 1 \in Nat
    OBVIOUS
  <1>3. <<x - 1, x>> \in OpToRel(<, Nat)
    BY <1>1, <1>2 DEF OpToRel
  <1>4. x - 1 \in S
    BY <1>1, <1>2, <1>3
  <1> QED
    BY <1>2, <1>4

\* f goes from a in n steps, each given by st.
Iterates(f, X, n, a, st) ==
  /\ f \in [0 .. n -> X]
  /\ f[0] = a
  /\ \A i \in 1 .. n : f[i] = st[i][f[i - 1]]

\* Steps can be taken one after the other.
LEMMA IterationExists ==
  ASSUME NEW X, NEW N \in Nat, NEW a \in X, NEW st \in [1 .. N -> [X -> X]]
  PROVE  \E f : Iterates(f, X, N, a, st)
  <1> DEFINE S == {n \in Nat : n <= N => \E f : Iterates(f, X, n, a, st)}
  <1>1. 0 \in S
    <2> DEFINE z == [i \in 0 .. 0 |-> a]
    <2>1. z \in [0 .. 0 -> X] /\ z[0] = a /\ 1 .. 0 = {}
      OBVIOUS
    <2> HIDE DEF z
    <2>2. Iterates(z, X, 0, a, st)
      BY <2>1 DEF Iterates
    <2> QED
      BY <2>2
  <1>2. ASSUME NEW n \in Nat, n \in S, n + 1 <= N
        PROVE  \E g : Iterates(g, X, n + 1, a, st)
    <2>1. PICK f : Iterates(f, X, n, a, st)
      BY <1>2
    <2>2. f \in [0 .. n -> X] /\ f[0] = a /\ \A i \in 1 .. n : f[i] = st[i][f[i - 1]]
      BY <2>1 DEF Iterates
    <2> DEFINE y == st[n + 1][f[n]]
               g == [i \in 0 .. n + 1 |-> IF i = n + 1 THEN y ELSE f[i]]
    <2>3. y \in X
      BY <1>2, <2>2
    <2> HIDE DEF y
    <2>4. g \in [0 .. n + 1 -> X] /\ g[0] = a
      BY <2>2, <2>3
    <2>5. ASSUME NEW i \in 1 .. n + 1 PROVE g[i] = st[i][g[i - 1]]
      <3>1. CASE i = n + 1
        BY <3>1 DEF y
      <3>2. CASE i # n + 1
        BY <2>2, <3>2
      <3> QED
        BY <3>1, <3>2
    <2> HIDE DEF g
    <2>6. Iterates(g, X, n + 1, a, st)
      BY <2>4, <2>5 DEF Iterates
    <2> QED
      BY <2>6
  <1>3. \A n \in Nat : n \in S
    <2>1. \A n \in Nat : n \in S => n + 1 \in S
      BY <1>2
    <2> HIDE DEF S
    <2> QED
      BY <1>1, <2>1, SetInduction
  <1> QED
    BY <1>3

---------------------------------------------------------------------------
(* batch_info and the offsets of its slices *)

\* t holds the places of the prepared requests among the first n of b, in order.
InfoOf(t, b, n) ==
  /\ t \in Seq(Nat)
  /\ \A i \in 1 .. Len(t) : t[i] \in 1 .. n /\ IsPrepared(b[t[i]])
  /\ \A i, j \in 1 .. Len(t) : i < j => t[i] < t[j]
  /\ \A m \in 1 .. n : IsPrepared(b[m]) => \E i \in 1 .. Len(t) : t[i] = m

\* The loop of _run_rabitq_decode takes one more request.
LEMMA InfoGrows ==
  ASSUME NEW n \in Nat, NEW b, NEW t, InfoOf(t, b, n)
  PROVE  InfoOf(IF IsPrepared(b[n + 1]) THEN Append(t, n + 1) ELSE t, b, n + 1)
  <1>1. t \in Seq(Nat) /\ Len(t) \in Nat
    BY LenProperties DEF InfoOf
  <1>2. CASE ~IsPrepared(b[n + 1])
    <2>1. \A m \in 1 .. n + 1 : IsPrepared(b[m]) => m \in 1 .. n
      BY <1>2
    <2>2. InfoOf(t, b, n + 1)
      BY <2>1 DEF InfoOf
    <2> QED
      BY <1>2, <2>2
  <1>3. CASE IsPrepared(b[n + 1])
    <2> DEFINE u == Append(t, n + 1)
    <2>1. /\ u \in Seq(Nat) /\ Len(u) = Len(t) + 1
          /\ \A i \in 1 .. Len(t) : u[i] = t[i]
          /\ u[Len(t) + 1] = n + 1
      BY <1>1, AppendProperties
    <2> HIDE DEF u
    <2>2. \A i \in 1 .. Len(u) : u[i] \in 1 .. n + 1 /\ IsPrepared(b[u[i]])
      <3> SUFFICES ASSUME NEW i \in 1 .. Len(u)
                   PROVE  u[i] \in 1 .. n + 1 /\ IsPrepared(b[u[i]])
        OBVIOUS
      <3>1. CASE i = Len(t) + 1
        BY <1>3, <2>1, <3>1
      <3>2. CASE i \in 1 .. Len(t)
        <4>1. u[i] = t[i] /\ t[i] \in 1 .. n /\ IsPrepared(b[t[i]])
          BY <2>1, <3>2 DEF InfoOf
        <4>2. u[i] \in 1 .. n
          BY <4>1
        <4> QED
          BY <4>1, <4>2
      <3> QED
        BY <1>1, <2>1, <3>1, <3>2
    <2>3. ASSUME NEW i \in 1 .. Len(u), NEW j \in 1 .. Len(u), i < j
          PROVE  u[i] < u[j]
      <3>1. i \in 1 .. Len(t) /\ u[i] = t[i] /\ t[i] \in 1 .. n
        BY <1>1, <2>1, <2>3 DEF InfoOf
      <3>2. CASE j = Len(t) + 1
        BY <2>1, <3>1, <3>2
      <3>3. CASE j \in 1 .. Len(t)
        BY <2>1, <2>3, <3>1, <3>3 DEF InfoOf
      <3> QED
        BY <1>1, <2>1, <3>2, <3>3
    <2>4. ASSUME NEW m \in 1 .. n + 1, IsPrepared(b[m])
          PROVE  \E i \in 1 .. Len(u) : u[i] = m
      <3>1. CASE m = n + 1
        <4>1. Len(t) + 1 \in 1 .. Len(u) /\ u[Len(t) + 1] = m
          BY <1>1, <2>1, <3>1
        <4> QED
          BY <4>1
      <3>2. CASE m \in 1 .. n
        <4>1. PICK i \in 1 .. Len(t) : t[i] = m
          BY <2>4, <3>2 DEF InfoOf
        <4>2. i \in 1 .. Len(u) /\ u[i] = m
          BY <1>1, <2>1, <4>1
        <4> QED
          BY <4>2
      <3> QED
        BY <3>1, <3>2
    <2>5. InfoOf(u, b, n + 1)
      BY <2>1, <2>2, <2>3, <2>4 DEF InfoOf
    <2> QED
      BY <1>3, <2>5 DEF u
  <1> QED
    BY <1>2, <1>3

\* batch_info names the prepared requests of the batch, in its order.
LEMMA BatchInfoSelects ==
  ASSUME NEW b, Len(b) \in Nat
  PROVE  InfoOf(BatchInfo(b), b, Len(b))
  <1> DEFINE N == Len(b)
             F(k) == [i \in 0 .. N |->
                        IF i = 0 THEN <<>>
                        ELSE IF IsPrepared(b[i]) THEN Append(k[i - 1], i) ELSE k[i - 1]]
             g == CHOOSE k : k = F(k)
             st == [i \in 1 .. N |-> [x \in Seq(Nat) |->
                      IF IsPrepared(b[i]) THEN Append(x, i) ELSE x]]
  <1>1. N \in Nat /\ <<>> \in Seq(Nat)
    BY EmptySeq
  <1>2. st \in [1 .. N -> [Seq(Nat) -> Seq(Nat)]]
    <2>1. ASSUME NEW i \in 1 .. N, NEW x \in Seq(Nat) PROVE Append(x, i) \in Seq(Nat)
      <3>1. i \in Nat
        BY <1>1
      <3> QED
        BY <3>1, AppendProperties
    <2> HIDE DEF N
    <2> QED
      BY <2>1
  <1>3. PICK h : Iterates(h, Seq(Nat), N, <<>>, st)
    <2> HIDE DEF st, N
    <2> QED
      BY <1>1, <1>2, IterationExists
  <1>4. h = F(h)
    <2>1. /\ h \in [0 .. N -> Seq(Nat)] /\ h[0] = <<>>
          /\ \A i \in 1 .. N : h[i] = st[i][h[i - 1]]
      BY <1>3 DEF Iterates
    <2>2. ASSUME NEW i \in 1 .. N
          PROVE  h[i] = IF IsPrepared(b[i]) THEN Append(h[i - 1], i) ELSE h[i - 1]
      <3>1. h[i - 1] \in Seq(Nat)
        BY <1>1, <2>1
      <3> QED
        BY <2>1, <3>1
    <2> DEFINE Fh == F(h)
    <2>3. Fh = [i \in 0 .. N |-> Fh[i]] /\ h = [i \in 0 .. N |-> h[i]]
      BY <2>1
    <2>4. ASSUME NEW i \in 0 .. N PROVE h[i] = Fh[i]
      <3>1. CASE i = 0
        BY <2>1, <3>1
      <3>2. CASE i # 0
        <4>1. i \in 1 .. N
          BY <1>1, <3>2
        <4> QED
          BY <2>2, <3>2, <4>1
      <3> QED
        BY <3>1, <3>2
    <2> HIDE DEF Fh, N
    <2>5. h = Fh
      BY <2>3, <2>4, SMTT(30)
    <2> QED
      BY <2>5 DEF Fh
  <1>5. g = F(g)
    BY <1>4
  <1>6. BatchInfo(b) = g[N]
    BY Zenon DEF BatchInfo
  <1> HIDE DEF g
  <1>7. /\ g[0] = <<>>
        /\ \A i \in 1 .. N : g[i] = IF IsPrepared(b[i]) THEN Append(g[i - 1], i) ELSE g[i - 1]
    <2> DEFINE Fg == F(g)
    <2>1. /\ Fg[0] = <<>>
          /\ \A i \in 1 .. N : Fg[i] = IF IsPrepared(b[i]) THEN Append(g[i - 1], i) ELSE g[i - 1]
      BY <1>1
    <2> HIDE DEF Fg, F
    <2>2. g = Fg
      BY <1>5 DEF Fg
    <2> QED
      BY <2>1, <2>2
  <1> DEFINE S == {n \in Nat : n <= N => InfoOf(g[n], b, n)}
  <1> HIDE DEF N
  <1>8. 0 \in S
    <2>1. Len(<<>>) = 0 /\ 1 .. 0 = {}
      OBVIOUS
    <2>2. InfoOf(<<>>, b, 0)
      BY <1>1, <2>1 DEF InfoOf
    <2> QED
      BY <1>7, <2>2
  <1>9. ASSUME NEW n \in Nat, n \in S PROVE n + 1 \in S
    <2> SUFFICES ASSUME n + 1 <= N PROVE InfoOf(g[n + 1], b, n + 1)
      OBVIOUS
    <2>1. n + 1 \in 1 .. N /\ (n + 1) - 1 = n /\ InfoOf(g[n], b, n)
      BY <1>1, <1>9
    <2>2. g[n + 1] = IF IsPrepared(b[n + 1]) THEN Append(g[n], n + 1) ELSE g[n]
      BY <1>7, <2>1
    <2>3. InfoOf(IF IsPrepared(b[n + 1]) THEN Append(g[n], n + 1) ELSE g[n], b, n + 1)
      BY <2>1, InfoGrows, Zenon
    <2> QED
      BY <2>2, <2>3, Zenon
  <1>10. N \in S
    <2> HIDE DEF S
    <2> QED
      BY <1>1, <1>8, <1>9, SetInduction
  <1>11. InfoOf(g[N], b, N)
    BY <1>1, <1>10
  <1> QED
    BY <1>6, <1>11 DEF N

\* When the first i requests are prepared, they are the first i of batch_info.
LEMMA FrontInfo ==
  ASSUME NEW n \in Nat, NEW b, NEW t, InfoOf(t, b, n),
         NEW i \in 1 .. n, \A m \in 1 .. i : IsPrepared(b[m])
  PROVE  i <= Len(t) /\ \A m \in 1 .. i : t[m] = m
  <1>1. t \in Seq(Nat) /\ Len(t) \in Nat /\ \A j \in 1 .. Len(t) : t[j] \in Nat \ {0}
    BY LenProperties DEF InfoOf
  <1>2. \A j, k \in 1 .. Len(t) : j < k => t[j] < t[k]
    BY DEF InfoOf
  <1> DEFINE S == {m \in Nat : m \in 1 .. i => m <= Len(t) /\ t[m] = m}
  <1>3. 0 \in S
    OBVIOUS
  <1>4. ASSUME NEW m \in Nat, m \in S PROVE m + 1 \in S
    <2> SUFFICES ASSUME m + 1 <= i PROVE m + 1 <= Len(t) /\ t[m + 1] = m + 1
      OBVIOUS
    <2>1. m + 1 \in 1 .. i /\ m + 1 \in 1 .. n
      OBVIOUS
    <2>2. PICK p \in 1 .. Len(t) : t[p] = m + 1
      BY <2>1 DEF InfoOf
    <2>3. m # 0 => m \in 1 .. Len(t) /\ t[m] = m
      BY <1>4
    <2>4. ~(p <= m)
      <3> SUFFICES ASSUME p <= m PROVE FALSE
        OBVIOUS
      <3>1. p = m \/ p < m
        BY <1>1
      <3> QED
        BY <1>1, <1>2, <2>2, <2>3, <3>1
    <2>5. ~(p > m + 1)
      <3> SUFFICES ASSUME p > m + 1 PROVE FALSE
        OBVIOUS
      <3>1. m + 1 \in 1 .. Len(t) /\ t[m + 1] < m + 1
        BY <1>1, <1>2, <2>2
      <3>2. CASE m = 0
        BY <1>1, <3>1, <3>2
      <3>3. CASE m # 0
        BY <1>1, <1>2, <2>3, <3>1, <3>3
      <3> QED
        BY <3>2, <3>3
    <2>6. p = m + 1
      BY <1>1, <2>4, <2>5
    <2> QED
      BY <1>1, <2>2, <2>6
  <1>5. \A m \in Nat : m \in S
    <2> HIDE DEF S
    <2> QED
      BY <1>3, <1>4, SetInduction
  <1> QED
    BY <1>1, <1>5

\* o: where slices of the sizes ts begin, side by side from zero on.
Tiles(o, ts, n) ==
  /\ \A j \in 1 .. n + 1 : o[j] \in Nat
  /\ o[1] = 0
  /\ \A j \in 1 .. n : o[j + 1] = o[j] + ts[j]
  /\ \A i, j \in 1 .. n + 1 : i <= j => o[i] <= o[j]

\* The tokens of the j-th request of batch_info.
Sizes(b, info, st) == [j \in 1 .. Len(info) |-> st[b[info[j]]].total_tokens]

\* mask_offsets_list divides the mask into slices, whatever the number of requests.
LEMMA OffsetsAreTiles ==
  ASSUME NEW b, NEW info, NEW st, Len(info) \in Nat,
         \A j \in 1 .. Len(info) : st[b[info[j]]].total_tokens \in Nat
  PROVE  Tiles(MaskOffsets(b, info, st), Sizes(b, info, st), Len(info))
  <1> DEFINE N == Len(info)
             ts == [j \in 1 .. N |-> st[b[info[j]]].total_tokens]
             F(f) == [j \in 0 .. N |-> IF j = 0 THEN 0 ELSE f[j - 1] + st[b[info[j]]].total_tokens]
             g == CHOOSE f : f = F(f)
             step == [j \in 1 .. N |-> [x \in Nat |-> x + ts[j]]]
  <1>1. N \in Nat /\ ts \in [1 .. N -> Nat] /\ \A j \in 1 .. N : ts[j] = st[b[info[j]]].total_tokens
    OBVIOUS
  <1>2. Sizes(b, info, st) = ts
    BY DEF Sizes
  <1>3. step \in [1 .. N -> [Nat -> Nat]]
    <2> HIDE DEF ts, N
    <2> QED
      BY <1>1
  <1>4. PICK h : Iterates(h, Nat, N, 0, step)
    <2> HIDE DEF step, N
    <2> QED
      BY <1>1, <1>3, IterationExists
  <1> HIDE DEF ts
  <1>5. h \in [0 .. N -> Nat] /\ h[0] = 0 /\ \A j \in 1 .. N : h[j] = h[j - 1] + ts[j]
    <2>1. h \in [0 .. N -> Nat] /\ h[0] = 0 /\ \A j \in 1 .. N : h[j] = step[j][h[j - 1]]
      BY <1>4 DEF Iterates
    <2>2. ASSUME NEW j \in 1 .. N PROVE h[j] = h[j - 1] + ts[j]
      <3>1. h[j - 1] \in Nat
        BY <1>1, <2>1, SMTT(30)
      <3> QED
        BY <2>1, <3>1
    <2> QED
      BY <2>1, <2>2
  <1> HIDE DEF step, N
  <1>6. h = F(h)
    BY <1>1, <1>5, SMTT(30)
  <1>7. g = F(g)
    BY <1>6
  <1> HIDE DEF g
  <1>8. g[0] = 0 /\ \A j \in 1 .. N : g[j] = g[j - 1] + ts[j]
    <2> DEFINE Fg == F(g)
    <2>1. Fg[0] = 0 /\ \A j \in 1 .. N : Fg[j] = g[j - 1] + ts[j]
      BY <1>1
    <2> HIDE DEF Fg, F
    <2>2. g = Fg
      BY <1>7 DEF Fg
    <2> QED
      BY <2>1, <2>2
  <1>9. MaskOffsets(b, info, st) = [j \in 1 .. N + 1 |-> g[j - 1]]
    BY Zenon DEF MaskOffsets, g, N
  <1> DEFINE S == {n \in Nat : n <= N => \A i \in 0 .. n : g[i] \in Nat /\ g[i] <= g[n]}
  <1>10. 0 \in S
    BY <1>8
  <1>11. ASSUME NEW n \in Nat, n \in S PROVE n + 1 \in S
    <2> SUFFICES ASSUME n + 1 <= N, NEW i \in 0 .. n + 1
                 PROVE  g[i] \in Nat /\ g[i] <= g[n + 1]
      OBVIOUS
    <2>1. n + 1 \in 1 .. N /\ n \in 0 .. n /\ \A k \in 0 .. n : g[k] \in Nat /\ g[k] <= g[n]
      BY <1>1, <1>11
    <2>2. g[n + 1] = g[n] + ts[n + 1] /\ ts[n + 1] \in Nat
      BY <1>1, <1>8, <2>1
    <2>3. g[n] \in Nat /\ g[n + 1] \in Nat /\ g[n] <= g[n + 1]
      BY <2>1, <2>2
    <2>4. CASE i = n + 1
      BY <2>3, <2>4
    <2>5. CASE i \in 0 .. n
      BY <2>1, <2>3, <2>5
    <2> QED
      BY <2>4, <2>5
  <1>12. \A n \in Nat : n \in S
    <2> HIDE DEF S
    <2> QED
      BY <1>10, <1>11, SetInduction
  <1>13. PICK o : o = MaskOffsets(b, info, st)
    OBVIOUS
  <1>14. \A j \in 1 .. N + 1 : o[j] = g[j - 1] /\ j - 1 \in 0 .. N
    BY <1>1, <1>9, <1>13
  <1>15. \A i, j \in 0 .. N : i <= j => g[i] \in Nat /\ g[j] \in Nat /\ g[i] <= g[j]
    <2> SUFFICES ASSUME NEW i \in 0 .. N, NEW j \in 0 .. N, i <= j
                 PROVE  g[i] \in Nat /\ g[j] \in Nat /\ g[i] <= g[j]
      OBVIOUS
    <2>1. j \in Nat /\ j <= N /\ i \in 0 .. j /\ j \in 0 .. j
      BY <1>1
    <2> QED
      BY <1>12, <2>1
  <1>16. \A j \in 1 .. N + 1 : o[j] \in Nat
    BY <1>14, <1>15
  <1>17. o[1] = 0
    BY <1>1, <1>8, <1>14
  <1>18. ASSUME NEW j \in 1 .. N PROVE o[j + 1] = o[j] + ts[j]
    <2>1. j \in 1 .. N + 1 /\ j + 1 \in 1 .. N + 1 /\ (j + 1) - 1 = j
      BY <1>1
    <2> QED
      BY <1>8, <1>14, <2>1
  <1>19. ASSUME NEW i \in 1 .. N + 1, NEW j \in 1 .. N + 1, i <= j PROVE o[i] <= o[j]
    <2>1. i - 1 \in 0 .. N /\ j - 1 \in 0 .. N /\ i - 1 <= j - 1
      BY <1>1, <1>19
    <2> QED
      BY <1>14, <1>15, <2>1
  <1>20. Tiles(o, ts, N)
    BY <1>16, <1>17, <1>18, <1>19 DEF Tiles
  <1> QED
    BY <1>2, <1>13, <1>20 DEF N

\* Byte k of the i-th request's slice, the requests up to it being prepared.
InSlice(b, info, st, i, k) ==
  /\ \A j \in 1 .. Len(info) : st[b[info[j]]].total_tokens \in Nat
  /\ Len(info) > 1 /\ \A j \in 1 .. Len(info) : info[j] <= Len(info)
  /\ i \in 1 .. Len(info) /\ \A m \in 1 .. i : info[m] = m
  /\ k \in 0 .. st[b[i]].total_tokens - 1

\* It is what the kernel finds at the i-th offset.
OwnByteAt(b, info, st, i, k) ==
  MaskByte(b, info, st, MaskOffsets(b, info, st)[i] + k) = SliceCell(b[i], st[b[i]], k, {b[i]})

\* The bytes that row i of the planned kernel reads are those of its own slice, when the
\* requests up to it are prepared and no lookup fails: earlier slices end before it, and
\* later ones start behind it, even where a request in between has none.
LEMMA OwnByte ==
  ASSUME NEW b, NEW n \in Nat, NEW info, NEW st, InfoOf(info, b, n),
         NEW i, NEW k, InSlice(b, info, st, i, k)
  PROVE  OwnByteAt(b, info, st, i, k)
  <1> /\ \A j \in 1 .. Len(info) : st[b[info[j]]].total_tokens \in Nat
      /\ Len(info) > 1 /\ \A j \in 1 .. Len(info) : info[j] <= Len(info)
      /\ i \in 1 .. Len(info) /\ \A m \in 1 .. i : info[m] = m
      /\ k \in 0 .. st[b[i]].total_tokens - 1
    BY DEF InSlice
  <1>1. PICK o : o = MaskOffsets(b, info, st)
    OBVIOUS
  <1>2. PICK ts : ts = Sizes(b, info, st)
    OBVIOUS
  <1>3. PICK L : L = Len(info)
    OBVIOUS
  <1>4. L \in Nat /\ L > 1 /\ i \in 1 .. L
    BY <1>3, LenProperties DEF InfoOf
  <1>5. Tiles(o, ts, L)
    BY <1>1, <1>2, <1>3, <1>4, OffsetsAreTiles
  <1>6. \A j \in 1 .. L : ts[j] = st[b[info[j]]].total_tokens /\ ts[j] \in Nat
    BY <1>2, <1>3 DEF Sizes
  <1>7. \A j \in 1 .. L : info[j] \in 1 .. L
    <2> SUFFICES ASSUME NEW j \in 1 .. L PROVE info[j] \in 1 .. L
      OBVIOUS
    <2>1. info[j] \in 1 .. n
      BY <1>3 DEF InfoOf
    <2>2. info[j] <= L
      BY <1>3
    <2>3. PICK y : y = info[j]
      OBVIOUS
    <2>4. y \in 1 .. n /\ y <= L
      BY <2>1, <2>2, <2>3
    <2>5. y \in 1 .. L
      BY <1>4, <2>4
    <2> QED
      BY <2>3, <2>5
  <1>8. info[i] = i /\ k \in 0 .. ts[i] - 1
    BY <1>4, <1>6
  <1> DEFINE x == o[i] + k
  <1>9. x \in o[i] .. o[i] + ts[i] - 1
    <2>1. o[i] \in Nat /\ ts[i] \in Nat
      BY <1>4, <1>5, <1>6 DEF Tiles
    <2> QED
      BY <1>8, <2>1
  <1>10. ASSUME NEW j \in 1 .. L, x \in o[info[j]] .. o[info[j]] + ts[j] - 1
         PROVE  j = i
    <2>1. o[i] \in Nat /\ o[i + 1] = o[i] + ts[i] /\ o[j] \in Nat /\ o[info[j]] \in Nat
          /\ ts[i] \in Nat /\ ts[j] \in Nat
      <3>1. i \in 1 .. L + 1 /\ j \in 1 .. L + 1 /\ info[j] \in 1 .. L + 1
        BY <1>4, <1>7
      <3> QED
        BY <1>4, <1>5, <1>6, <3>1 DEF Tiles
    <2>2. CASE j < i
      <3>1. info[j] = j /\ o[j + 1] = o[j] + ts[j] /\ o[j + 1] <= o[i] /\ o[j + 1] \in Nat
        BY <1>4, <1>5, <2>2 DEF Tiles
      <3>2. o[j] + ts[j] <= o[i] /\ x \in o[j] .. o[j] + ts[j] - 1
        BY <1>10, <3>1
      <3>3. x \in Int /\ o[i] <= x
        BY <1>9, <2>1
      <3> HIDE DEF x
      <3> QED
        BY <2>1, <3>2, <3>3, SMTT(30)
    <2>3. CASE j > i
      <3>1. info[j] > i
        BY <1>3, <1>8, <2>3 DEF InfoOf
      <3>2. o[i + 1] <= o[info[j]]
        <4>1. i + 1 \in 1 .. L + 1 /\ info[j] \in 1 .. L + 1 /\ i + 1 <= info[j]
          BY <1>4, <1>7, <3>1
        <4> QED
          BY <1>5, <4>1 DEF Tiles
      <3> QED
        BY <1>8, <1>10, <2>1, <3>2, SMTT(30)
    <2> QED
      BY <1>4, <2>2, <2>3
  <1> DEFINE start(j) == IF Len(info) = 1 THEN 0 ELSE MaskOffsets(b, info, st)[info[j]]
             covers == {j \in DOMAIN info :
                          x \in start(j) .. start(j) + st[b[info[j]]].total_tokens - 1}
             last == CHOOSE j \in covers : \A m \in covers : m <= j
  <1>11. covers = {i}
    <2>1. DOMAIN info = 1 .. L /\ \A j : start(j) = o[info[j]]
      <3>1. info \in Seq(Nat)
        BY DEF InfoOf
      <3>2. DOMAIN info = 1 .. L
        BY <1>3, <3>1
      <3>3. Len(info) # 1
        BY <1>3, <1>4
      <3> QED
        BY <1>1, <3>2, <3>3, Zenon
    <2> HIDE DEF start
    <2>2. i \in covers
      BY <1>4, <1>6, <1>8, <1>9, <2>1
    <2>3. ASSUME NEW j \in covers PROVE j = i
      <3>1. j \in 1 .. L /\ x \in o[info[j]] .. o[info[j]] + ts[j] - 1
        BY <1>6, <2>1
      <3> HIDE DEF x, covers
      <3> QED
        BY <1>10, <3>1
    <2> HIDE DEF covers
    <2> QED
      BY <2>2, <2>3
  <1>12. last = i
    <2> HIDE DEF covers
    <2>1. i \in covers /\ \A m \in covers : m <= i
      BY <1>4, <1>11
    <2> QED
      BY <1>4, <1>11, <2>1
  <1>13. QueriesOf(b, info, i) = {b[i]}
    BY <1>3, <1>4 DEF QueriesOf
  <1>14. MaskByte(b, info, st, x) =
           IF covers = {} THEN Undefined
           ELSE SliceCell(b[info[last]], st[b[info[last]]],
                          x - start(last), QueriesOf(b, info, last))
    BY Zenon DEF MaskByte
  <1>15. x - start(i) = k
    BY <1>1, <1>3, <1>4, <1>5, <1>8, SMTT(30) DEF Tiles
  <1>16. MaskByte(b, info, st, x) = SliceCell(b[i], st[b[i]], k, {b[i]})
    <2> HIDE DEF x, start, covers, last
    <2> QED
      BY <1>8, <1>11, <1>12, <1>13, <1>14, <1>15
  <1> QED
    BY <1>1, <1>16 DEF OwnByteAt

\* On the single path there is only one slice, from zero on.
LEMMA OnlyByte ==
  ASSUME NEW b, NEW info, NEW st, info \in Seq(Nat), Len(info) = 1, info[1] = 1,
         st[b[1]].total_tokens \in Nat, NEW k \in 0 .. st[b[1]].total_tokens - 1
  PROVE  MaskByte(b, info, st, k) = SliceCell(b[1], st[b[1]], k, Scheduled(b))
  <1> DEFINE start(j) == IF Len(info) = 1 THEN 0 ELSE MaskOffsets(b, info, st)[info[j]]
             covers == {j \in DOMAIN info :
                          k \in start(j) .. start(j) + st[b[info[j]]].total_tokens - 1}
             last == CHOOSE j \in covers : \A m \in covers : m <= j
  <1>1. MaskByte(b, info, st, k) =
          IF covers = {} THEN Undefined
          ELSE SliceCell(b[info[last]], st[b[info[last]]], k - start(last),
                         QueriesOf(b, info, last))
    BY Zenon DEF MaskByte
  <1>2. DOMAIN info = {1} /\ \A j : start(j) = 0
    OBVIOUS
  <1> HIDE DEF start
  <1>3. covers = {1}
    BY <1>2
  <1>4. last = 1
    <2> HIDE DEF covers
    <2> QED
      BY <1>3
  <1>5. QueriesOf(b, info, 1) = Scheduled(b) /\ k - 0 = k
    BY DEF QueriesOf
  <1> HIDE DEF covers, last
  <1> QED
    BY <1>1, <1>2, <1>3, <1>4, <1>5

\* What position k of request r with state s is attended through.
OwnCell(r, s, k, queries) ==
  IF k < s.write_index
  THEN [req |-> r, pos |-> k, kind |-> "scored", queries |-> queries]
  ELSE [req |-> r, pos |-> k, kind |-> "pending", queries |-> {}]

\* A slice has no unwritten byte, as every token is quantized or pending.
LEMMA SliceIsWritten ==
  ASSUME NEW r, NEW s \in RequestStates, s.prepared, Accounted(s), NEW queries,
         NEW k \in 0 .. s.total_tokens - 1
  PROVE  SliceCell(r, s, k, queries) = OwnCell(r, s, k, queries)
  <1>1. /\ s.total_tokens \in Nat /\ s.write_index \in Nat /\ s.pending \in Nat
        /\ s.total_tokens = s.write_index + s.pending
    BY DEF RequestStates, Accounted
  <1>2. k \in s.total_tokens - s.pending .. s.total_tokens - 1 <=> ~(k < s.write_index)
    BY <1>1
  <1> QED
    BY <1>2 DEF SliceCell, OwnCell

\* A decode step prepares nobody.
LEMMA DecodePrepares ==
  ASSUME IInv, NEW b \in Batches, NEW n \in [Scheduled(b) -> 1 .. MaxLen],
         NEW wrapper \in Wrapper, ForwardDecode(b, n, wrapper), NEW r \in Reqs
  PROVE  states'[r].prepared <=> IsPrepared(r)
  <1>1. Same(r) \/ Appended(r) \/ Completed(r)
    BY DecodeStep
  <1>2. states'[r].prepared <=> states[r].prepared
    BY <1>1 DEF Same, Appended, Completed, Grows
  <1>3. states[r].prepared => states[r].exists
    BY DEF IInv, TokensAccounted, Accounted
  <1> QED
    BY <1>2, <1>3 DEF IsPrepared

\* A batch is a sequence without repetitions.
LEMMA BatchIsSeq ==
  ASSUME NEW b \in Batches
  PROVE  /\ b \in Seq(Reqs) /\ Len(b) \in Nat /\ DOMAIN b = 1 .. Len(b)
         /\ \A i \in 1 .. Len(b) : b[i] \in Reqs /\ b[i] \in Scheduled(b)
         /\ \A i, j \in 1 .. Len(b) : b[i] = b[j] => i = j
         /\ \A r \in Scheduled(b) : r \in Reqs /\ \E i \in 1 .. Len(b) : b[i] = r
  <1>1. PICK k \in 1 .. MaxBatch : b \in [1 .. k -> Reqs]
    BY DEF Batches
  <1>2. k \in Nat
    BY <1>1, WorkloadAssumption
  <1>3. b \in Seq(Reqs) /\ Len(b) = k /\ DOMAIN b = 1 .. k
    BY <1>1, <1>2
  <1>4. \A i, j \in DOMAIN b : b[i] = b[j] => i = j
    BY DEF Batches
  <1> QED
    BY <1>1, <1>2, <1>3, <1>4 DEF Scheduled

\* Row i of the batch is prepared, as are the rows before it, and nothing raises.
KernelReady(b, info, i, queries) ==
  /\ info = BatchInfo(b)
  /\ \A r \in Reqs : states'[r].prepared <=> IsPrepared(r)
  /\ offset0 \in {Unallocated, 0} /\ ~OffsetLookupFails(info)
  /\ i \in 1 .. Len(b) /\ \A m \in 1 .. i : IsPrepared(b[m])
  /\ states'[b[i]].total_tokens = kvLen'[b[i]]
  /\ queries = IF Len(info) = 1 THEN Scheduled(b) ELSE {b[i]}

\* It reads its own keys.
OwnRow(b, info, i, queries) ==
  KernelRow(b, info, states', i).cells =
    [k \in 0 .. kvLen'[b[i]] - 1 |-> OwnCell(b[i], states'[b[i]], k, queries)]

\* The row of the planned kernel, when the requests up to it are prepared: the bytes of its own
\* slice.  The first entry of the offsets is zero on both paths.
LEMMA KernelRowIsOwn ==
  ASSUME IInv, IInv', NEW b \in Batches, NEW info, NEW i, NEW queries,
         KernelReady(b, info, i, queries)
  PROVE  OwnRow(b, info, i, queries)
  <1> /\ info = BatchInfo(b)
      /\ \A r \in Reqs : states'[r].prepared <=> IsPrepared(r)
      /\ offset0 \in {Unallocated, 0} /\ ~OffsetLookupFails(info)
      /\ i \in 1 .. Len(b) /\ \A m \in 1 .. i : IsPrepared(b[m])
      /\ states'[b[i]].total_tokens = kvLen'[b[i]]
      /\ queries = IF Len(info) = 1 THEN Scheduled(b) ELSE {b[i]}
    BY DEF KernelReady
  <1>1. PICK st : st = states'
    OBVIOUS
  <1>2. PICK o : o = MaskOffsets(b, info, st)
    OBVIOUS
  <1>3. PICK len : len = kvLen'[b[i]]
    OBVIOUS
  <1>4. InfoOf(info, b, Len(b)) /\ Len(b) \in Nat
    BY BatchIsSeq, BatchInfoSelects
  <1>5. /\ info \in Seq(Nat) /\ Len(info) \in Nat /\ DOMAIN info = 1 .. Len(info)
        /\ \A j \in 1 .. Len(info) : info[j] \in 1 .. Len(b)
    BY <1>4, LenProperties DEF InfoOf
  <1>6. i <= Len(info) /\ \A m \in 1 .. i : info[m] = m
    BY <1>4, FrontInfo
  <1>7. st \in [Reqs -> RequestStates] /\ \A r \in Reqs : Accounted(st[r])
    BY <1>1 DEF IInv, TypeOK, TokensAccounted
  <1>8. b[i] \in Reqs /\ \A j \in 1 .. Len(info) : b[info[j]] \in Reqs
    BY <1>5, BatchIsSeq
  <1>9. \A j \in 1 .. Len(info) : st[b[info[j]]].total_tokens \in Nat
    BY <1>7, <1>8 DEF RequestStates
  <1>10. st[b[i]].prepared /\ st[b[i]].total_tokens = len /\ len \in Nat
    <2>1. IsPrepared(b[i])
      BY <1>4
    <2> QED
      BY <1>1, <1>3, <1>7, <1>8, <2>1 DEF RequestStates
  <1>11. o[1] = 0
    BY <1>2, <1>5, <1>9, OffsetsAreTiles DEF Tiles
  <1> DEFINE from == IF i = 1 THEN FirstOffset(info, o) ELSE o[i]
  <1>12. ASSUME NEW k \in 0 .. len - 1
         PROVE  MaskByte(b, info, st, from + k) = OwnCell(b[i], st[b[i]], k, queries)
    <2>1. st[b[i]] \in RequestStates /\ Accounted(st[b[i]]) /\ k \in 0 .. st[b[i]].total_tokens - 1
      BY <1>7, <1>8, <1>10
    <2>2. SliceCell(b[i], st[b[i]], k, queries) = OwnCell(b[i], st[b[i]], k, queries)
      BY <1>10, <2>1, SliceIsWritten
    <2>3. CASE Len(info) = 1
      <3>1. i = 1 /\ info[1] = 1
        BY <1>4, <1>6, <2>3
      <3>2. from = 0
        BY <2>3, <3>1 DEF FirstOffset, Unallocated
      <3>3. from + k = k
        BY <3>2
      <3>4. MaskByte(b, info, st, k) = SliceCell(b[1], st[b[1]], k, Scheduled(b))
        BY <1>5, <1>10, <2>1, <2>3, <3>1, OnlyByte
      <3> QED
        BY <2>2, <2>3, <3>1, <3>3, <3>4
    <2>4. CASE Len(info) # 1
      <3>1. Len(info) > 1 /\ i \in 1 .. Len(info) /\ \A j \in 1 .. Len(info) : info[j] <= Len(info)
        <4>1. Len(info) > 1 /\ i \in 1 .. Len(info)
          BY <1>4, <1>5, <1>6, <2>4
        <4> QED
          BY <1>5, <4>1, SMTT(30) DEF OffsetLookupFails
      <3>2. from = o[i]
        BY <2>4 DEF FirstOffset
      <3>3. MaskByte(b, info, st, o[i] + k) = SliceCell(b[i], st[b[i]], k, {b[i]})
        <4>1. MaskByte(b, info, st, MaskOffsets(b, info, st)[i] + k)
                = SliceCell(b[i], st[b[i]], k, {b[i]})
          <5>1. InSlice(b, info, st, i, k)
            BY <1>6, <1>9, <2>1, <3>1 DEF InSlice
          <5> QED
            <6>1. OwnByteAt(b, info, st, i, k)
              BY <1>4, <5>1, OwnByte, Zenon
            <6> QED
              BY <6>1 DEF OwnByteAt
        <4> QED
          BY <1>2, <4>1
      <3> QED
        BY <2>2, <2>4, <3>2, <3>3
    <2> QED
      BY <2>3, <2>4
  <1>13. KernelRow(b, info, states', i).cells =
           [k \in 0 .. len - 1 |-> MaskByte(b, info, st, from + k)]
    BY <1>1, <1>2, <1>3, <1>6 DEF KernelRow
  <1> HIDE DEF from
  <1>14. [k \in 0 .. len - 1 |-> MaskByte(b, info, st, from + k)]
           = [k \in 0 .. len - 1 |-> OwnCell(b[i], st[b[i]], k, queries)]
    BY <1>12
  <1> QED
    BY <1>1, <1>3, <1>13, <1>14 DEF OwnRow

---------------------------------------------------------------------------
(* The mask of a decode step *)

\* The i-th row of AttendsOwnKeys, as a predicate of a batch, what attention read, and the books.
QueriesFor(b, at, st, i) ==
  IF (\A q \in Scheduled(b) : st[q].prepared => q = b[i]) /\ at[b[i]].how = "masked"
  THEN Scheduled(b) ELSE {b[i]}

Attended(b, at, by, st, kv, i) ==
  /\ at[b[i]].how \in {"masked", "sdpa"}
  /\ ~by[b[i]]
  /\ \A j \in 1 .. i - 1 : st[b[j]].prepared
  => at[b[i]].cells = [k \in 0 .. kv[b[i]] - 1 |->
                         OwnCell(b[i], st[b[i]], k, QueriesFor(b, at, st, i))]

\* A request of a decode step is attended with its own keys.
LEMMA DecodeAttends ==
  ASSUME IInv, IInv', NEW b \in Batches, NEW n \in [Scheduled(b) -> 1 .. MaxLen],
         NEW wrapper \in Wrapper, ForwardDecode(b, n, wrapper), offset0 \in {Unallocated, 0}
  PROVE  AttendsOwnKeys'
  <1>1. PICK info : info = BatchInfo(b)
    OBVIOUS
  <1> DEFINE batched == wrapper # "absent" /\ info # <<>> /\ wrapper = "runs"
                        /\ ~OffsetLookupFails(info)
  <1>2. batch' = b
    BY DEF ForwardDecode, Compute
  <1>3. \A r \in Reqs : states'[r].prepared <=> IsPrepared(r)
    BY DecodePrepares
  <1>4. /\ Len(b) \in Nat /\ DOMAIN b = 1 .. Len(b)
        /\ \A j \in 1 .. Len(b) : b[j] \in Reqs /\ b[j] \in Scheduled(b)
        /\ \A j, k \in 1 .. Len(b) : b[j] = b[k] => j = k
        /\ \A r \in Scheduled(b) : r \in Reqs /\ \E j \in 1 .. Len(b) : b[j] = r
    BY BatchIsSeq
  <1> SUFFICES ASSUME NEW i \in 1 .. Len(b),
                      attn'[b[i]].how \in {"masked", "sdpa"}, ~bypassed'[b[i]],
                      \A j \in 1 .. i - 1 : states'[b[j]].prepared,
                      NEW queries, queries = QueriesFor(b, attn', states', i)
               PROVE  attn'[b[i]].cells =
                        [k \in 0 .. kvLen'[b[i]] - 1 |-> OwnCell(b[i], states'[b[i]], k, queries)]
    <2>1. AttendsOwnKeys' <=>
            \A i \in DOMAIN batch' : Attended(batch', attn', bypassed', states', kvLen', i)
      BY Zenon DEF AttendsOwnKeys, Attended, QueriesFor, OwnCell
    <2>2. (\A i \in 1 .. Len(b) : Attended(b, attn', bypassed', states', kvLen', i))
            => AttendsOwnKeys'
      BY <1>2, <1>4, <2>1
    <2>3. \A i \in 1 .. Len(b) : Attended(b, attn', bypassed', states', kvLen', i)
      BY Zenon DEF Attended
    <2> QED
      BY <2>2, <2>3, Zenon
  <1>5. PICK r : r = b[i]
    OBVIOUS
  <1>6. r \in Reqs /\ r \in Scheduled(b)
    BY <1>4, <1>5
  <1>7. IsPrepared(r)
    <2>1. bypassed'[r] = (bypassed[r] \/ (r \in Scheduled(b) /\ ~IsPrepared(r)))
      BY <1>6 DEF ForwardDecode
    <2> QED
      BY <1>5, <1>6, <2>1
  <1>8. \A m \in 1 .. i : IsPrepared(b[m])
    <2> SUFFICES ASSUME NEW m \in 1 .. i PROVE IsPrepared(b[m])
      OBVIOUS
    <2>1. m \in 1 .. Len(b) /\ (m = i \/ m \in 1 .. i - 1)
      BY <1>4
    <2> QED
      BY <1>3, <1>4, <1>5, <1>7, <2>1
  <1>9. /\ states'[r] \in RequestStates /\ Accounted(states'[r]) /\ states'[r].prepared
        /\ states'[r].total_tokens = kvLen'[r]
    <2>1. states'[r] \in RequestStates /\ Accounted(states'[r])
      BY <1>6 DEF IInv, TypeOK, TokensAccounted
    <2>2. states'[r].prepared /\ ~bypassed'[r]
      BY <1>3, <1>5, <1>6, <1>7
    <2> QED
      BY <1>6, <2>1, <2>2 DEF IInv, RowsFollowPositions
  <1>10. attn'[r] = IF batched
                    THEN KernelRow(b, info, states', CHOOSE j \in DOMAIN b : b[j] = r)
                    ELSE IndividualRow(r, states'[r])
    BY <1>1, <1>6, <1>7 DEF ForwardDecode
  <1>11. (CHOOSE j \in DOMAIN b : b[j] = r) = i
    BY <1>4, <1>5
  <1>12. CASE batched
    <2>1. attn'[r] = KernelRow(b, info, states', i)
      BY <1>10, <1>11, <1>12
    <2>2. attn'[r].how = "masked"
      BY <2>1 DEF KernelRow
    <2>3. InfoOf(info, b, Len(b))
      BY <1>1, <1>4, BatchInfoSelects
    <2>4. (\A q \in Scheduled(b) : states'[q].prepared => q = r) <=> Len(info) = 1
      <3>1. info \in Seq(Nat) /\ Len(info) \in Nat
        BY <2>3, LenProperties DEF InfoOf
      <3>2. PICK p \in 1 .. Len(info) : info[p] = i
        BY <1>5, <1>7, <2>3 DEF InfoOf
      <3>3. ASSUME Len(info) = 1, NEW q \in Scheduled(b), states'[q].prepared PROVE q = r
        <4>1. PICK j \in 1 .. Len(b) : b[j] = q
          BY <1>4
        <4>2. IsPrepared(b[j])
          BY <1>3, <1>4, <3>3, <4>1
        <4>3. PICK m \in 1 .. Len(info) : info[m] = j
          BY <2>3, <4>2 DEF InfoOf
        <4>4. m = p
          BY <3>3
        <4> QED
          BY <1>5, <3>2, <4>1, <4>3, <4>4
      <3>4. ASSUME Len(info) # 1 PROVE \E q \in Scheduled(b) : states'[q].prepared /\ q # r
        <4>1. PICK m \in 1 .. Len(info) : m # p
          <5>1. 1 \in 1 .. Len(info) /\ 2 \in 1 .. Len(info)
            <6>1. PICK L : L = Len(info)
              OBVIOUS
            <6>2. L \in Nat /\ p \in 1 .. L /\ L # 1
              BY <3>1, <3>2, <3>4, <6>1
            <6>3. 1 \in 1 .. L /\ 2 \in 1 .. L
              BY <6>2
            <6> QED
              BY <6>1, <6>3
          <5> QED
            BY <5>1
        <4>2. info[m] \in 1 .. Len(b) /\ IsPrepared(b[info[m]])
          BY <2>3 DEF InfoOf
        <4>3. m < p => info[m] < info[p]
          BY <2>3 DEF InfoOf
        <4>4. p < m => info[p] < info[m]
          BY <2>3 DEF InfoOf
        <4>5. info[m] # i
          BY <1>4, <3>1, <3>2, <4>1, <4>2, <4>3, <4>4
        <4>6. b[info[m]] \in Scheduled(b) /\ b[info[m]] # r /\ states'[b[info[m]]].prepared
          BY <1>3, <1>4, <1>5, <4>2, <4>5
        <4> QED
          BY <4>6
      <3> QED
        BY <3>3, <3>4
    <2>5. queries = IF Len(info) = 1 THEN Scheduled(b) ELSE {b[i]}
      BY <1>5, <2>2, <2>4 DEF QueriesFor
    <2>6. ~OffsetLookupFails(info)
      BY <1>12
    <2>7. KernelRow(b, info, states', i).cells =
            [k \in 0 .. kvLen'[b[i]] - 1 |-> OwnCell(b[i], states'[b[i]], k, queries)]
      <3>1. states'[b[i]].total_tokens = kvLen'[b[i]]
        BY <1>5, <1>9
      <3>2. KernelReady(b, info, i, queries)
        BY <1>1, <1>3, <1>8, <2>5, <2>6, <3>1 DEF KernelReady
      <3>3. OwnRow(b, info, i, queries)
        BY <3>2, KernelRowIsOwn, Zenon
      <3> QED
        BY <3>3 DEF OwnRow
    <2> QED
      BY <1>5, <2>1, <2>7
  <1>13. CASE ~batched
    <2>1. attn'[r] = IndividualRow(r, states'[r])
      BY <1>10, <1>13
    <2>2. PICK s : s = states'[r]
      OBVIOUS
    <2>3. PICK len : len = kvLen'[r]
      OBVIOUS
    <2>4. queries = {r}
      <3>1. attn'[r].how = "sdpa"
        BY <2>1 DEF IndividualRow
      <3> QED
        BY <1>5, <3>1 DEF QueriesFor
    <2>5. attn'[r].cells = [k \in 0 .. len - 1 |-> IF k < len THEN SliceCell(r, s, k, {r})
                                                             ELSE Undefined]
      BY <1>9, <2>1, <2>2, <2>3 DEF IndividualRow
    <2>6. len \in Nat /\ s \in RequestStates /\ Accounted(s) /\ s.prepared /\ s.total_tokens = len
      BY <1>9, <2>2, <2>3 DEF RequestStates
    <2>7. ASSUME NEW k \in 0 .. len - 1
          PROVE  k < len /\ SliceCell(r, s, k, {r}) = OwnCell(r, s, k, {r})
      <3>1. k < len
        BY <2>6
      <3>2. SliceCell(r, s, k, {r}) = OwnCell(r, s, k, {r})
        BY <2>6, SliceIsWritten
      <3> QED
        BY <3>1, <3>2
    <2>8. attn'[r].cells = [k \in 0 .. len - 1 |-> OwnCell(r, s, k, {r})]
      BY <2>5, <2>7
    <2> QED
      BY <1>5, <2>2, <2>3, <2>4, <2>8
  <1> QED
    BY <1>12, <1>13

\* mask_offsets_buffer starts with zero, whichever path wrote it.
LEMMA FirstOffsetIsZero ==
  ASSUME IInv, IInv', NEW b \in Batches, NEW n \in [Scheduled(b) -> 1 .. MaxLen],
         NEW wrapper \in Wrapper, ForwardDecode(b, n, wrapper), offset0 \in {Unallocated, 0}
  PROVE  offset0' \in {Unallocated, 0}
  <1>1. PICK info : info = BatchInfo(b)
    OBVIOUS
  <1>2. PICK st : st = states'
    OBVIOUS
  <1>3. PICK o : o = MaskOffsets(b, info, st)
    OBVIOUS
  <1>4. InfoOf(info, b, Len(b))
    BY <1>1, BatchIsSeq, BatchInfoSelects
  <1>5. Len(info) \in Nat /\ \A j \in 1 .. Len(info) : b[info[j]] \in Reqs
    BY <1>4, BatchIsSeq, LenProperties DEF InfoOf
  <1>6. \A j \in 1 .. Len(info) : st[b[info[j]]].total_tokens \in Nat
    BY <1>2, <1>5 DEF IInv, TypeOK, RequestStates
  <1>7. o[1] = 0
    BY <1>3, <1>5, <1>6, OffsetsAreTiles DEF Tiles
  <1>8. offset0' = FirstOffset(info, o) \/ offset0' = offset0
    BY <1>1, <1>2, <1>3 DEF ForwardDecode
  <1>9. FirstOffset(info, o) \in {Unallocated, 0}
    BY <1>7 DEF FirstOffset
  <1> QED
    BY <1>8, <1>9

\* What the mask needs besides IInv.  A request that arrives is in no batch, and the buffer of
\* the offsets, which the single path trusts, starts with zero.
AttnInv ==
  /\ offset0 \in {Unallocated, 0}
  /\ \A i \in DOMAIN batch : batch[i] \in arrived
  /\ AttendsOwnKeys

\* AttnInv is inductive, given IInv.
LEMMA StepAttnInv == IInv /\ AttnInv /\ [Next]_vars => AttnInv'
  <1> SUFFICES ASSUME IInv, AttnInv, [Next]_vars PROVE AttnInv'
    OBVIOUS
  <1>1. IInv'
    BY StepIInv
  <1>2. ASSUME NEW r \in Reqs, NEW len \in 1 .. MaxPrompt, NEW hit \in 0 .. MaxCached,
               Arrive(r, len, hit)
        PROVE  AttnInv'
    <2>1. /\ batch' = batch /\ attn' = attn /\ states' = states /\ offset0' = offset0
          /\ arrived' = arrived \cup {r} /\ r \notin arrived
          /\ \A q : q # r => kvLen'[q] = kvLen[q] /\ bypassed'[q] = bypassed[q]
      BY <1>2 DEF Arrive, IInv, TypeOK
    <2>2. \A i \in DOMAIN batch : /\ kvLen'[batch[i]] = kvLen[batch[i]]
                                  /\ bypassed'[batch[i]] = bypassed[batch[i]]
      BY <2>1 DEF AttnInv
    <2>3. AttendsOwnKeys'
      BY <2>1, <2>2 DEF AttnInv, AttendsOwnKeys
    <2> QED
      BY <2>1, <2>3 DEF AttnInv
  <1>3. ASSUME NEW r \in Reqs, Preempt(r) PROVE AttnInv'
    <2>1. batch' = <<>> /\ offset0' = offset0 /\ DOMAIN <<>> = {}
      BY <1>3 DEF Preempt
    <2> QED
      BY <2>1 DEF AttnInv, AttendsOwnKeys
  <1>4. ASSUME NEW b \in Batches, NEW n \in [Scheduled(b) -> 1 .. MaxLen]
        PROVE  (Compute(b, n) /\ Schedulable(b, n)) => \A i \in DOMAIN batch' : batch'[i] \in arrived'
    BY DEF Compute, Schedulable, Scheduled
  <1>5. ASSUME NEW b \in Batches, NEW n \in [Scheduled(b) -> 1 .. MaxLen], ForwardPrefill(b, n)
        PROVE  AttnInv'
    <2>1. offset0' = offset0 /\ batch' = b /\ Compute(b, n) /\ Schedulable(b, n)
      BY <1>5 DEF ForwardPrefill, Compute
    <2>2. \A i \in DOMAIN b : attn'[b[i]] = Dense
      <3>1. attn' = [r \in Reqs |-> IF r \in Scheduled(b) THEN Dense ELSE Idle]
        BY <1>5 DEF ForwardPrefill
      <3> QED
        BY <3>1, BatchIsSeq
    <2>3. AttendsOwnKeys'
      BY <2>1, <2>2 DEF AttendsOwnKeys, Dense
    <2> QED
      BY <1>4, <2>1, <2>3 DEF AttnInv
  <1>6. ASSUME NEW b \in Batches, NEW n \in [Scheduled(b) -> 1 .. MaxLen],
               NEW wrapper \in Wrapper, ForwardDecode(b, n, wrapper)
        PROVE  AttnInv'
    <2>1. Compute(b, n) /\ Schedulable(b, n) /\ offset0 \in {Unallocated, 0}
      BY <1>6 DEF ForwardDecode, AttnInv
    <2>2. AttendsOwnKeys'
      BY <1>1, <1>6, <2>1, DecodeAttends
    <2>3. offset0' \in {Unallocated, 0}
      BY <1>1, <1>6, <2>1, FirstOffsetIsZero
    <2> QED
      BY <1>4, <2>1, <2>2, <2>3 DEF AttnInv
  <1>7. CASE UNCHANGED vars
    BY <1>7 DEF AttnInv, AttendsOwnKeys, vars, sched
  <1> QED
    BY <1>2, <1>3, <1>5, <1>6, <1>7 DEF Next

\* In every batch, whatever its size and whatever was preempted, chunked or mixed before, a
\* decode step that masks a request lets it read the bytes written for its own keys, unless
\* the bookkeeping missed tokens of it or an unprepared request stands in front.
THEOREM MaskedDecodesAttendOwnKeys == Spec => []AttendsOwnKeys
  <1>1. Init => AttnInv
    <2>1. DOMAIN <<>> = {}
      OBVIOUS
    <2> QED
      BY <2>1 DEF Init, AttnInv, AttendsOwnKeys
  <1>2. AttnInv => AttendsOwnKeys
    BY DEF AttnInv
  <1> QED
    BY <1>1, <1>2, Invariance, StepAttnInv, PTL DEF Spec
===========================================================================
