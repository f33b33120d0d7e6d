------------------------------- MODULE Scoring -------------------------------
(***************************************************************************)
(* The arithmetic by which the backend estimates an attention score: keys  *)
(* are kept as sign bits packed into words, a query is quantized to b_q    *)
(* bits per dimension, and the product of the two is taken on integers     *)
(* (rabitq.py, rabitq_ops.py, csrc/rabitq_int4_binary.cu).                  *)
(*                                                                         *)
(* Real numbers are integers on a grid.  Delta is a fraction, so that      *)
(* everything it enters is kept multiplied by max_val = 2^b_q - 1: what    *)
(* the code holds as Delta * z is DeltaM * z here.  Widths are parameters: *)
(* 32-bit words and 8-bit codes in the code.                               *)
(***************************************************************************)
EXTENDS Integers, Sequences, FiniteSets, FiniteSetsExt

CONSTANTS
  HeadSize,    \* head_size
  Word,        \* bits of a packed word (32)
  CodeBits,    \* bits of an element of q_u (8)
  Bqs,         \* the values of rabitq_b_q
  Grid,        \* the values of a component of a rotated query
  MaxKeys      \* bound: keys stored

ASSUME ScoringAssumption ==
  /\ HeadSize \in Nat \ {0} /\ Word \in Nat \ {0} /\ HeadSize % Word = 0
  /\ CodeBits \in Nat \ {0} /\ Bqs \subseteq Nat \ {0}
  /\ Grid \subseteq Int /\ Grid # {} /\ MaxKeys \in Nat

VARIABLES
  bq,          \* _rabitq_state.b_q
  bits,        \* x_b_gpu
  packed,      \* x_b_packed_gpu
  sums,        \* sum_x_b_gpu
  rotated,     \* rotated_q of the query
  query,       \* what preprocessing returns for it
  scores       \* the estimate of x_bar . q for each stored key, by each implementation

vars == <<bq, bits, packed, sums, rotated, query, scores>>

Dims == 0 .. HeadSize - 1
SumOver(S, f(_)) == MapThenSumSet(f, S)
Bit(n, i) == (n \div 2^i) % 2
MaxVal == 2^bq - 1

NoQuery == [q_u |-> <<>>]
None == <<>>

-----------------------------------------------------------------------------
(* Keys *)

\* Mutant: the first of the bits becomes the highest one.
PackWord_HighFirst(x, p) == SumOver(0 .. Word - 1, LAMBDA i : x[p * Word + i] * 2^(Word - 1 - i))

\* A 64-bit sum of shifted bits, cut to a signed word.
PackWord(x, p) ==
  LET n == SumOver(0 .. Word - 1, LAMBDA i : x[p * Word + i] * 2^i)
  IN  IF n >= 2^(Word - 1) THEN n - 2^Word ELSE n

\* pack_binary_to_int32
PackBinary(x) == [p \in 0 .. (HeadSize \div Word) - 1 |-> PackWord(x, p)]

\* Keys are quantized: their signs are stored twice, and counted.
QuantizeKey(x) ==
  /\ Len(bits) < MaxKeys
  /\ bits' = Append(bits, x)
  /\ packed' = Append(packed, PackBinary(x))
  /\ sums' = Append(sums, SumOver(Dims, LAMBDA i : x[i]))
  /\ UNCHANGED <<bq, rotated, query, scores>>

-----------------------------------------------------------------------------
(* Queries *)

\* torch.round of n / d: halves go to the even neighbour.
Round(n, d) ==
  LET floor == n \div d
      twice == 2 * (n % d)
  IN  IF twice > d \/ (twice = d /\ floor % 2 = 1) THEN floor + 1 ELSE floor

\* Mutant: truncated.
Code_Floor(y, range) == IF range = 0 THEN 0 ELSE ((y * MaxVal) \div range) % 2^CodeBits

\* Mutant: 2^b_q steps.
Code_FullRange(y, range) == IF range = 0 THEN 0 ELSE Round(y * (MaxVal + 1), range)

\* Code of a component y above the least one.  Delta never is 0: when all components
\* are equal it is clamped, and y / Delta is 0.
Code(y, range) ==
  IF range = 0 THEN 0 ELSE Max({0, Min({MaxVal, Round(y * MaxVal, range)})})

\* _query_preprocess_impl, from the rotated query on.  The codes are cast to bytes,
\* their sum is taken before the cast.
QueryPreprocess(rot) ==
  LET v_l == Min({rot[i] : i \in Dims})
      range == Max({rot[i] : i \in Dims}) - v_l
      codes == [i \in Dims |-> Code(rot[i] - v_l, range)]
  IN  [q_u |-> [i \in Dims |-> codes[i] % 2^CodeBits], DeltaM |-> range, v_l |-> v_l,
       sum_q_u |-> SumOver(Dims, LAMBDA i : codes[i])]

Preprocess(rot) ==
  /\ query = NoQuery
  /\ rotated' = rot
  /\ query' = QueryPreprocess(rot)
  /\ UNCHANGED <<bq, bits, packed, sums, scores>>

-----------------------------------------------------------------------------
(* Inner products *)

\* rabitq_int4_packed_binary_scores_kernel and its warp variant: the words are read as
\* unsigned and their bits extracted one by one.
PackedProduct(q_u, words) ==
  LET unsigned == [p \in DOMAIN words |-> words[p] % 2^Word]
  IN  SumOver((DOMAIN words) \X (0 .. Word - 1),
          LAMBDA pi : q_u[pi[1] * Word + pi[2]] * Bit(unsigned[pi[1]], pi[2]))

\* rabitq_binary_dot_quantized_kernel: b_q passes, one for each bit of the codes.
BitSerialProduct(q_u, x) ==
  SumOver(0 .. bq - 1, LAMBDA b : 2^b * SumOver(Dims, LAMBDA i : x[i] * Bit(q_u[i], b)))

\* rabitq_int4_binary_scores_kernel: dp4a of bytes, the einsum of the Python versions.
DirectProduct(q_u, x) == SumOver(Dims, LAMBDA i : q_u[i] * x[i])

\* Mutant: the last term without the size of the head.
XBarDotQ_Term4(product, sum_x) ==
  2 * query.DeltaM * product + 2 * MaxVal * query.v_l * sum_x
    - query.DeltaM * query.sum_q_u - MaxVal * query.v_l

\* x_bar_dot_q: the four terms, times max_val.
XBarDotQ(product, sum_x) ==
  2 * query.DeltaM * product + 2 * MaxVal * query.v_l * sum_x
    - query.DeltaM * query.sum_q_u - HeadSize * MaxVal * query.v_l

\* _compute_quantized_topk_indices returns early without quantized keys.
Score ==
  /\ query # NoQuery /\ Len(bits) > 0 /\ scores = None
  /\ scores' = [k \in 1 .. Len(bits) |->
                 LET q == query.q_u
                 IN  [packed |-> XBarDotQ(PackedProduct(q, packed[k]), sums[k]),
                      serial |-> XBarDotQ(BitSerialProduct(q, bits[k]), sums[k]),
                      direct |-> XBarDotQ(DirectProduct(q, bits[k]), sums[k])]]
  /\ UNCHANGED <<bq, bits, packed, sums, rotated, query>>

Init ==
  /\ bq \in Bqs
  /\ bits = <<>> /\ packed = <<>> /\ sums = <<>>
  /\ rotated = None /\ query = NoQuery /\ scores = None

Next ==
  \/ \E x \in [Dims -> {0, 1}] : QuantizeKey(x)
  \/ \E rot \in [Dims -> Grid] : Preprocess(rot)
  \/ Score

Spec == Init /\ [][Next]_vars

-----------------------------------------------------------------------------
\* Stored words fit a signed word, codes fit b_q bits.
TypeOK ==
  /\ \A k \in DOMAIN packed : \A p \in DOMAIN packed[k] :
       packed[k][p] \in -(2^(Word - 1)) .. 2^(Word - 1) - 1
  /\ query # NoQuery => \A i \in Dims : query.q_u[i] \in 0 .. MaxVal

\* The sign of a key in dimension i
Sign(k, i) == 2 * bits[k][i] - 1

\* The packed kernel, the bit-serial kernel and the plain product give the same estimate.
KernelsAgree ==
  \A k \in DOMAIN scores :
    scores[k].packed = scores[k].serial /\ scores[k].serial = scores[k].direct

\* The four terms of the kernel, built from packed bits, byte codes and two sums that were
\* taken at other times, are the product of the key's signs with the dequantized query.
EstimateIsProduct ==
  \A k \in DOMAIN scores :
    scores[k].packed =
      SumOver(Dims, LAMBDA i : Sign(k, i) * (query.DeltaM * query.q_u[i] + MaxVal * query.v_l))

\* The dimensions whose code is rounded: the least and the greatest component are codes.
Inner == {i \in Dims : rotated[i] # query.v_l /\ rotated[i] # query.v_l + query.DeltaM}

\* The estimate is off from the product with the query itself by at most half a step of the
\* quantizer in each dimension that is rounded, for every b_q that a byte can hold.
EstimateWithinHalfStep ==
  \A k \in DOMAIN scores :
    LET exact == MaxVal * SumOver(Dims, LAMBDA i : Sign(k, i) * rotated[i])
        off == scores[k].packed - exact
    IN  /\ 2 * off <= Cardinality(Inner) * query.DeltaM
        /\ -2 * off <= Cardinality(Inner) * query.DeltaM
=============================================================================
