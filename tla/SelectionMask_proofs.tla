------------------------ MODULE SelectionMask_proofs ------------------------
(***************************************************************************)
(* What the three unordered stores of rabitq_update_mask_kernel leave in   *)
(* the mask, for every size of a request, of a warp and of a program.      *)
(***************************************************************************)
EXTENDS SelectionMask, TLAPS

\* The slice, and the indices that are scattered into it.
SliceOK ==
  /\ num_quantized \in Nat \ {0} /\ total_tokens \in Nat /\ num_quantized <= total_tokens
  /\ mask \in [Tokens -> {Stale, 0, 1}]

\* Top-p: nothing is written, or all.
DirectInv ==
  /\ result \in [DOMAIN result -> SUBSET Quantized]
  /\ \/ pc = <<"direct">>
     \/ mask = [t \in Tokens |-> IF t >= pending_start \/ Reduced THEN 1 ELSE 0]

\* Top-k: the grid covers the slice; a byte is 1 only if it should be, it is stale only while
\* nobody has cleared it, and what a worker clears and sets itself stays set, since no other
\* worker clears it.
KernelInv ==
  /\ DOMAIN pc \subseteq Nat /\ pc \in [DOMAIN pc -> {"zero", "scatter", "tail", "done"}]
  /\ Len(IdxFlat) \in Nat /\ DOMAIN IdxFlat = 1 .. Len(IdxFlat)
  /\ \A t \in Tokens : \E w \in DOMAIN pc : t \in Zeroes(w)
  /\ \A t \in Tokens : mask[t] = 1 => CpuMask[t] = 1
  /\ \A w \in DOMAIN pc : \A t \in Zeroes(w) :
       /\ mask[t] = Stale => pc[w] = "zero"
       /\ pc[w] \in {"tail", "done"} /\ t \in Scatters(w) => mask[t] = 1
       /\ pc[w] = "done" /\ t \in TailTokens(w) => mask[t] = 1

MaskInv ==
  /\ SliceOK
  /\ \/ path = "topp" /\ DirectInv
     \/ path = "topk" /\ KernelInv

-----------------------------------------------------------------------------
(* The grid *)

\* The largest of four numbers.
LEMMA MaxOfFour ==
  ASSUME NEW a \in Int, NEW b \in Int, NEW c \in Int, NEW d \in Int
  PROVE  /\ Max({a, b, c, d}) \in Int
         /\ Max({a, b, c, d}) >= a /\ Max({a, b, c, d}) >= b
  <1>1. \E x \in {a, b, c, d} : \A y \in {a, b, c, d} : x >= y
    OBVIOUS
  <1>2. /\ Max({a, b, c, d}) \in {a, b, c, d}
        /\ \A y \in {a, b, c, d} : Max({a, b, c, d}) >= y
    BY <1>1 DEF Max
  <1> QED
    BY <1>2

\* The smaller of two numbers.
LEMMA MinOfTwo ==
  ASSUME NEW a \in Nat \ {0}, NEW b \in Nat \ {0}
  PROVE  Min({a, b}) \in Nat \ {0}
  <1>1. \E x \in {a, b} : \A y \in {a, b} : x <= y
    OBVIOUS
  <1>2. Min({a, b}) \in {a, b}
    BY <1>1 DEF Min
  <1> QED
    BY <1>2

\* Cdiv blocks of size b hold a elements.
LEMMA CdivCovers ==
  ASSUME NEW a \in Nat, NEW b \in Nat \ {0}
  PROVE  Cdiv(a, b) \in Nat /\ a <= Cdiv(a, b) * b
  <1> DEFINE n == a + b - 1
             q == n \div b
  <1>1. n \in Nat
    OBVIOUS
  <1> HIDE DEF n
  <1>2. q \in Int /\ n = b * q + (n % b) /\ n % b \in 0 .. b - 1
    BY <1>1
  <1> HIDE DEF q
  <1>3. b * q >= a
    BY <1>2 DEF n
  <1>4. q >= 0
    <2>1. q <= -1 => b * q <= -b
      BY <1>2
    <2> QED
      BY <1>2, <1>3, <2>1
  <1>5. b * q = q * b
    BY <1>2
  <1> QED
    BY <1>2, <1>3, <1>4, <1>5 DEF Cdiv, q, n

\* Every offset belongs to a worker of the grid that update_topk_mask launches, ...
LEMMA GridCovers ==
  ASSUME NEW numIndices \in Nat, NEW numPending \in Nat, NEW total \in Nat,
         NEW t \in 0 .. total - 1
  PROVE  /\ Grid(numIndices, numPending, total) \in Int
         /\ \E w \in 0 .. Grid(numIndices, numPending, total) * Warps - 1 : t \in Offsets(w)
  <1> DEFINE block == Warps * Width
             grid == Grid(numIndices, numPending, total)
             w == t \div Width
  <1>1. Warps \in Nat \ {0} /\ Width \in Nat \ {0}
    BY SelectionAssumption
  <1>2. block \in Nat \ {0}
    BY <1>1
  <1> HIDE DEF block
  <1>3. /\ Cdiv(total, block) \in Nat /\ total <= Cdiv(total, block) * block
        /\ Cdiv(numPending, block) \in Nat /\ Cdiv(numIndices, block) \in Nat
    BY <1>2, CdivCovers
  <1>4. grid \in Int /\ grid >= 1 /\ grid >= Cdiv(total, block)
    <2> DEFINE x == Cdiv(total, block)
               y == Cdiv(numPending, block)
               z == Cdiv(numIndices, block)
    <2>1. grid = Max({1, x, y, z})
      BY DEF Grid, block
    <2>2. x \in Int /\ y \in Int /\ z \in Int /\ 1 \in Int
      BY <1>3
    <2> HIDE DEF x, y, z
    <2>3. Max({1, x, y, z}) \in Int /\ Max({1, x, y, z}) >= 1 /\ Max({1, x, y, z}) >= x
      BY <2>2, MaxOfFour
    <2> QED
      BY <2>1, <2>3 DEF x
  <1> HIDE DEF grid
  <1>5. total <= grid * block
    <2>1. Cdiv(total, block) * block <= grid * block
      BY <1>2, <1>3, <1>4
    <2> QED
      BY <1>2, <1>3, <1>4, <2>1
  <1>6. w \in Nat /\ t = Width * w + (t % Width) /\ t % Width \in 0 .. Width - 1
    BY <1>1
  <1> HIDE DEF w
  <1>7. w < grid * Warps
    <2> DEFINE g == grid * Warps
    <2>1. g \in Int /\ grid * block = Width * g
      BY <1>1, <1>4 DEF block
    <2> HIDE DEF g
    <2> SUFFICES ASSUME w >= g PROVE FALSE
      BY <1>6, <2>1 DEF g
    <2>2. Width * w >= Width * g
      BY <1>1, <1>6, <2>1
    <2>3. Width * w \in Int /\ Width * g \in Int
      BY <1>1, <1>6, <2>1
    <2> QED
      BY <1>5, <1>6, <2>1, <2>2, <2>3
  <1>8. t \in Offsets(w)
    BY <1>1, <1>6 DEF Offsets
  <1>9. grid * Warps \in Int
    BY <1>1, <1>4
  <1> QED
    BY <1>4, <1>6, <1>7, <1>8, <1>9 DEF grid

\* ... and to no other one.
LEMMA OffsetsApart ==
  ASSUME NEW v \in Nat, NEW w \in Nat, v # w
  PROVE  Offsets(v) \cap Offsets(w) = {}
  <1>1. Width \in Nat \ {0}
    BY SelectionAssumption
  <1>2. ASSUME NEW a \in Nat, NEW b \in Nat, a < b, NEW t \in Offsets(a), t \in Offsets(b)
        PROVE  FALSE
    <2>1. Width * b >= Width * (a + 1)
      BY <1>1, <1>2
    <2>2. Width * (a + 1) = Width * a + Width
      BY <1>1, <1>2
    <2>3. Width * a \in Int /\ Width * b \in Int
      BY <1>1, <1>2
    <2>4. t <= Width * a + Width - 1 /\ Width * b <= t /\ t \in Int
      BY <1>2, <1>1, <2>3 DEF Offsets
    <2> QED
      BY <1>1, <2>1, <2>2, <2>3, <2>4
  <1> QED
    BY <1>2

-----------------------------------------------------------------------------
(* The invariant *)

\* The bytes that a worker sets are those that the sequential branch would set.
LEMMA SetsWhatItShould ==
  ASSUME SliceOK, KernelInv, NEW w \in DOMAIN pc, NEW t \in Scatters(w) \cup TailTokens(w)
  PROVE  t \in Tokens /\ CpuMask[t] = 1
  <1>1. /\ num_quantized \in Nat \ {0} /\ total_tokens \in Nat
        /\ num_quantized <= total_tokens
    BY DEF SliceOK
  <1>2. CASE t \in Scatters(w)
    <2>1. PICK o \in 0 .. Len(IdxFlat) - 1 : t = IdxFlat[o + 1] /\ t \in Quantized
      BY <1>2 DEF Scatters
    <2>2. o + 1 \in DOMAIN IdxFlat
      BY <2>1 DEF KernelInv
    <2>3. t \in Tokens
      BY <1>1, <2>1 DEF Tokens, Quantized
    <2> QED
      BY <2>1, <2>2, <2>3 DEF CpuMask
  <1>3. CASE t \in TailTokens(w)
    <2>1. PICK o \in 0 .. total_tokens - num_quantized - 1 : t = num_quantized + o
      BY <1>3 DEF TailTokens, pending_start
    <2>2. t \in Tokens /\ t >= num_quantized
      BY <1>1, <2>1 DEF Tokens
    <2> QED
      BY <2>2 DEF CpuMask, pending_start
  <1> QED
    BY <1>2, <1>3

\* A launch of the kernel, or of the copy, starts on a buffer nobody has written yet.
LEMMA InitMask == Init => MaskInv
  <1> SUFFICES ASSUME NEW n \in 1 .. MaxQuantized, NEW pend \in 0 .. MaxPending,
                      NEW rows \in 1 .. MaxRows, Start(n, pend, rows)
               PROVE  MaskInv
    BY DEF Init
  <1>1. /\ n \in Nat \ {0} /\ pend \in Nat /\ rows \in Nat \ {0} /\ TopK \in Nat \ {0}
        /\ Warps \in Nat \ {0}
    BY SelectionAssumption
  <1>2. /\ num_quantized = n /\ total_tokens = n + pend
        /\ mask = [t \in Tokens |-> Stale]
    BY <1>1 DEF Start, Tokens
  <1>3. SliceOK
    BY <1>1, <1>2 DEF SliceOK
  <1>4. CASE path = "topp" /\ result \in TopPResults(n, rows) /\ pc = <<"direct">>
    <2>1. result \in [1 .. rows -> SUBSET Quantized]
      BY <1>2, <1>4 DEF TopPResults, Quantized
    <2> QED
      BY <1>3, <1>4, <2>1 DEF MaskInv, DirectInv
  <1>5. CASE /\ path = "topk" /\ result \in TopKResults(n, rows)
             /\ pc = [w \in 0 .. Grid(rows * Min({TopK, n}), pend, n + pend) * Warps - 1 |-> "zero"]
    <2> DEFINE k == Min({TopK, n})
               grid == Grid(rows * k, pend, n + pend)
    <2>1. k \in Nat \ {0}
      BY <1>1, MinOfTwo
    <2>2. result \in [1 .. rows -> [1 .. k -> 0 .. n - 1]]
      BY <1>5 DEF TopKResults
    <2>p. pc = [w \in 0 .. grid * Warps - 1 |-> "zero"]
      BY <1>5
    <2> HIDE DEF k
    <2>3. rows * k \in Nat
      BY <1>1, <2>1
    <2>4. grid \in Int /\ \A t \in Tokens : \E w \in 0 .. grid * Warps - 1 : t \in Offsets(w)
      <3>1. n + pend \in Nat /\ 0 \in 0 .. (n + pend) - 1 /\ Tokens = 0 .. (n + pend) - 1
        BY <1>1, <1>2 DEF Tokens
      <3> QED
        BY <1>1, <2>3, <3>1, GridCovers
    <2> HIDE DEF grid
    <2>5. /\ DOMAIN pc = 0 .. grid * Warps - 1 /\ \A w \in DOMAIN pc : pc[w] = "zero"
          /\ DOMAIN pc \subseteq Nat
      <3>1. grid * Warps \in Int
        BY <1>1, <2>4
      <3> QED
        BY <2>p, <3>1
    <2>6. Len(IdxFlat) \in Nat /\ DOMAIN IdxFlat = 1 .. Len(IdxFlat)
      <3>1. 1 \in 1 .. rows
        BY <1>1
      <3>2. result[1] \in [1 .. k -> 0 .. n - 1]
        BY <2>2, <3>1
      <3>3. Len(result[1]) = k /\ Len(result) = rows
        BY <1>1, <2>1, <2>2, <3>2
      <3> DEFINE K == Len(result[1]) * Len(result)
      <3>4. K \in Nat
        BY <1>1, <2>1, <3>3
      <3> HIDE DEF K
      <3> DEFINE e(i) == result[((i - 1) \div Len(result[1])) + 1][((i - 1) % Len(result[1])) + 1]
      <3>5. IdxFlat = [i \in 1 .. K |-> e(i)]
        BY DEF IdxFlat, K
      <3> HIDE DEF e
      <3>6. DOMAIN [i \in 1 .. K |-> e(i)] = 1 .. K /\ Len([i \in 1 .. K |-> e(i)]) = K
        BY <3>4
      <3> QED
        BY <3>4, <3>5, <3>6
    <2>7. \A t \in Tokens : mask[t] = Stale
      BY <1>2
    <2>8. \A w \in DOMAIN pc : Zeroes(w) \subseteq Tokens
      BY DEF Zeroes
    <2>9. KernelInv
      <3>1. pc \in [DOMAIN pc -> {"zero", "scatter", "tail", "done"}]
        BY <2>p, <2>5
      <3>2. \A t \in Tokens : \E w \in DOMAIN pc : t \in Zeroes(w)
        BY <2>4, <2>5 DEF Zeroes
      <3>3. \A t \in Tokens : mask[t] # 1
        BY <2>7 DEF Stale
      <3> QED
        BY <2>5, <2>6, <2>8, <3>1, <3>2, <3>3 DEF KernelInv
    <2> QED
      BY <1>3, <1>5, <2>9 DEF MaskInv
  <1> QED
    BY <1>4, <1>5 DEF Start

\* The copy of the top-p masks writes the whole slice.
LEMMA DirectStep == MaskInv /\ DirectMask => MaskInv'
  <1> SUFFICES ASSUME MaskInv, DirectMask PROVE MaskInv'
    OBVIOUS
  <1>1. /\ path = "topp" /\ DirectInv /\ SliceOK
        /\ mask' = [t \in Tokens |-> IF t >= pending_start \/ Reduced THEN 1 ELSE 0]
        /\ UNCHANGED <<path, num_quantized, total_tokens, result>>
    BY DEF MaskInv, DirectMask
  <1>2. UNCHANGED <<Tokens, Quantized, pending_start, Reduced>>
    BY <1>1 DEF Tokens, Quantized, pending_start, Reduced
  <1>3. mask' \in [Tokens -> {Stale, 0, 1}]
    BY <1>1
  <1>4. SliceOK'
    BY <1>1, <1>2, <1>3 DEF SliceOK, Stale
  <1>5. DirectInv'
    BY <1>1, <1>2 DEF DirectInv
  <1> QED
    BY <1>1, <1>4, <1>5 DEF MaskInv

\* One store of one worker.
LEMMA StoreStep ==
  ASSUME MaskInv, path = "topk", NEW w \in DOMAIN pc, Store(w),
         UNCHANGED <<path, num_quantized, total_tokens, result>>
  PROVE  MaskInv'
  <1>1. SliceOK /\ KernelInv
    BY DEF MaskInv
  <1>2. UNCHANGED <<Tokens, Quantized, pending_start, IdxFlat, CpuMask>>
    BY DEF Tokens, Quantized, pending_start, IdxFlat, CpuMask
  <1>3. \A v : Zeroes(v)' = Zeroes(v) /\ Scatters(v)' = Scatters(v) /\ TailTokens(v)' = TailTokens(v)
    BY <1>2 DEF Zeroes, Scatters, TailTokens, pending_start
  <1>4. PICK ts, byte, from, to :
          /\ pc[w] = from /\ pc' = [pc EXCEPT ![w] = to]
          /\ mask' = [t \in Tokens |-> IF t \in ts THEN byte ELSE mask[t]]
          /\ \/ from = "zero" /\ to = "scatter" /\ ts = Zeroes(w) /\ byte = 0
             \/ from = "scatter" /\ to = "tail" /\ ts = Scatters(w) /\ byte = 1
             \/ from = "tail" /\ to = "done" /\ ts = TailTokens(w) /\ byte = 1
    BY DEF Store, Written
  <1>5. /\ DOMAIN pc \subseteq Nat /\ pc \in [DOMAIN pc -> {"zero", "scatter", "tail", "done"}]
        /\ DOMAIN pc' = DOMAIN pc /\ pc' \in [DOMAIN pc -> {"zero", "scatter", "tail", "done"}]
        /\ pc'[w] = to /\ \A v \in DOMAIN pc : v # w => pc'[v] = pc[v]
    BY <1>1, <1>4 DEF KernelInv
  <1>6. mask \in [Tokens -> {Stale, 0, 1}] /\ mask' \in [Tokens -> {Stale, 0, 1}]
    BY <1>1, <1>4 DEF SliceOK
  <1>7. \A t \in Tokens : mask'[t] = IF t \in ts THEN byte ELSE mask[t]
    BY <1>4
  <1>8. SliceOK'
    BY <1>1, <1>2, <1>6 DEF SliceOK, Stale
  <1>9. \A t \in Tokens : mask'[t] = 1 => CpuMask[t] = 1
    <2>1. byte = 1 => \A t \in ts : CpuMask[t] = 1
      BY <1>1, <1>4, SetsWhatItShould
    <2>2. \A t \in Tokens : mask[t] = 1 => CpuMask[t] = 1
      BY <1>1 DEF KernelInv
    <2> QED
      BY <1>4, <1>7, <2>1, <2>2
  <1>10. ASSUME NEW v \in DOMAIN pc, NEW t \in Zeroes(v)
         PROVE  /\ mask'[t] = Stale => pc'[v] = "zero"
                /\ pc'[v] \in {"tail", "done"} /\ t \in Scatters(v) => mask'[t] = 1
                /\ pc'[v] = "done" /\ t \in TailTokens(v) => mask'[t] = 1
    <2>1. /\ mask[t] = Stale => pc[v] = "zero"
          /\ pc[v] \in {"tail", "done"} /\ t \in Scatters(v) => mask[t] = 1
          /\ pc[v] = "done" /\ t \in TailTokens(v) => mask[t] = 1
      BY <1>1 DEF KernelInv
    <2>2. t \in Tokens /\ mask'[t] = (IF t \in ts THEN byte ELSE mask[t]) /\ Stale \notin {0, 1}
      BY <1>7 DEF Zeroes, Stale
    <2>3. CASE v = w
      BY <1>4, <1>5, <2>1, <2>2, <2>3
    <2>4. CASE v # w
      <3>1. t \notin Zeroes(w)
        BY <1>5, <2>4, OffsetsApart DEF Zeroes
      <3>2. t \in ts => byte = 1
        BY <1>4, <3>1
      <3> QED
        BY <1>4, <1>5, <2>1, <2>2, <2>4, <3>2
    <2> QED
      BY <2>3, <2>4
  <1>11. KernelInv'
    <2>1. Len(IdxFlat) \in Nat /\ DOMAIN IdxFlat = 1 .. Len(IdxFlat)
      BY <1>1 DEF KernelInv
    <2>2. \A t \in Tokens : \E v \in DOMAIN pc : t \in Zeroes(v)
      BY <1>1 DEF KernelInv
    <2> QED
      BY <1>2, <1>3, <1>5, <1>9, <1>10, <2>1, <2>2 DEF KernelInv, Stale
  <1> QED
    BY <1>8, <1>11 DEF MaskInv

\* The invariant holds in every reachable state.
LEMMA MaskAlways == Spec => []MaskInv
  <1>1. MaskInv /\ [Next]_vars => MaskInv'
    <2> SUFFICES ASSUME MaskInv, [Next]_vars PROVE MaskInv'
      OBVIOUS
    <2>1. CASE DirectMask
      BY <2>1, DirectStep
    <2>2. CASE UpdateMaskKernel
      BY <2>2, StoreStep DEF UpdateMaskKernel
    <2>3. CASE UNCHANGED vars
      <3>1. UNCHANGED <<Tokens, Quantized, pending_start, IdxFlat, CpuMask, Reduced>>
        BY <2>3 DEF vars, Tokens, Quantized, pending_start, IdxFlat, CpuMask, Reduced
      <3>2. \A v : Zeroes(v)' = Zeroes(v) /\ Scatters(v)' = Scatters(v) /\ TailTokens(v)' = TailTokens(v)
        BY <2>3, <3>1 DEF vars, Zeroes, Scatters, TailTokens
      <3> QED
        BY <2>3, <3>1, <3>2 DEF vars, MaskInv, SliceOK, DirectInv, KernelInv, Stale
    <2> QED
      BY <2>1, <2>2, <2>3 DEF Next
  <1> QED
    BY <1>1, InitMask, PTL DEF Spec

-----------------------------------------------------------------------------
(* The theorems *)

\* However the stores of rabitq_update_mask_kernel interleave, and whatever the sizes of
\* warps, programs and requests: no stale byte is left in the slice, and no token is set
\* that is neither selected nor pending.
THEOREM StaysWithinSelection == Spec => []KernelStaysWithinSelection
  <1>1. MaskInv => KernelStaysWithinSelection
    <2> SUFFICES ASSUME MaskInv, path = "topk", Finished, NEW t \in Tokens
                 PROVE  mask[t] \in {0, CpuMask[t]}
      BY DEF KernelStaysWithinSelection
    <2>1. KernelInv /\ SliceOK
      BY DEF MaskInv
    <2>2. mask[t] \in {Stale, 0, 1} /\ (mask[t] = 1 => CpuMask[t] = 1)
      BY <2>1 DEF KernelInv, SliceOK
    <2>3. PICK w \in DOMAIN pc : t \in Zeroes(w)
      BY <2>1 DEF KernelInv
    <2>4. mask[t] # Stale
      BY <2>1, <2>3 DEF KernelInv, Finished
    <2> QED
      BY <2>2, <2>4
  <1> QED
    BY <1>1, MaskAlways, PTL

\* What a worker clears and then sets itself survives every interleaving of the kernel.
THEOREM KeepsOwn == Spec => []KernelKeepsOwn
  <1>1. MaskInv => KernelKeepsOwn
    <2> SUFFICES ASSUME MaskInv, path = "topk", Finished, NEW w \in DOMAIN pc,
                        NEW t \in Zeroes(w), t \in Scatters(w) \cup TailTokens(w)
                 PROVE  t \in Ones
      BY DEF KernelKeepsOwn
    <2>1. KernelInv /\ pc[w] = "done" /\ t \in Tokens
      BY DEF MaskInv, Finished, Zeroes
    <2>2. mask[t] = 1
      BY <2>1 DEF KernelInv
    <2> QED
      BY <2>1, <2>2 DEF Ones
  <1> QED
    BY <1>1, MaskAlways, PTL

\* _compute_topk_mask writes every byte of a top-p slice and loses no selected or pending
\* token.
THEOREM TopPComplete == Spec => []TopPLosesNothing
  <1>1. MaskInv => TopPLosesNothing
    <2> SUFFICES ASSUME MaskInv, path = "topp", Finished
                 PROVE  /\ \A t \in Tokens : mask[t] # Stale
                        /\ UNION {result[i] : i \in DOMAIN result} \subseteq Ones
                        /\ num_quantized .. total_tokens - 1 \subseteq Ones
      BY DEF TopPLosesNothing
    <2>1. DirectInv /\ SliceOK
      BY DEF MaskInv
    <2>2. pc # <<"direct">>
      BY DEF Finished
    <2>3. \A t \in Tokens : mask[t] = IF t >= pending_start \/ Reduced THEN 1 ELSE 0
      BY <2>1, <2>2 DEF DirectInv
    <2>4. \A t \in Tokens : mask[t] # Stale
      BY <2>3 DEF Stale
    <2>5. ASSUME NEW i \in DOMAIN result, NEW t \in result[i] PROVE t \in Ones
      <3>1. t \in Quantized
        BY <2>1 DEF DirectInv
      <3>2. Reduced
        BY <3>1 DEF Reduced
      <3>3. t \in Tokens
        BY <2>1, <3>1 DEF SliceOK, Tokens, Quantized
      <3> QED
        BY <2>3, <3>2, <3>3 DEF Ones
    <2>6. ASSUME NEW t \in num_quantized .. total_tokens - 1 PROVE t \in Ones
      <3>1. t \in Tokens /\ t >= pending_start
        BY <2>1 DEF SliceOK, Tokens, pending_start
      <3> QED
        BY <2>3, <3>1 DEF Ones
    <2> QED
      BY <2>4, <2>5, <2>6
  <1> QED
    BY <1>1, MaskAlways, PTL
=============================================================================
