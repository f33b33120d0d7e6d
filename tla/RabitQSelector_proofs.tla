------------------------ MODULE RabitQSelector_proofs ------------------------
(***************************************************************************)
(* The selector keeps its promises for every interval, whatever the        *)
(* sequences and their number.                                             *)
(***************************************************************************)
EXTENDS RabitQSelector, TLAPS

\* The books of a sequence that began with a reset: once it has codes, they
\* are those of its tokens from the first interval on, up to numQ.
FreshBooks ==
  /\ trained \in {Absent, seq}
  /\ interval \in {Absent, HookInterval}
  /\ numQ = Absent => codes = <<>>
  /\ numQ # Absent =>
       /\ trained = seq /\ interval = HookInterval
       /\ numQ \in HookInterval + 1 .. len
       /\ len - numQ < HookInterval
       /\ Len(codes) = numQ - HookInterval
       /\ \A i \in 1 .. Len(codes) :
            codes[i] = Code(seq, HookInterval + i - 1, seq)

\* The inductive invariant.  ScoresOwnKeys says nothing of what the next call
\* will find; FreshBooks does.
SInv ==
  /\ seq \in Nat /\ len \in Nat /\ fresh \in BOOLEAN
  /\ numQ \in Nat \cup {Absent}
  /\ codes \in Seq([seq : Nat, pos : Int, centroid : Int])
  /\ trained \in Nat \cup {Absent}
  /\ interval \in (Nat \ {0}) \cup {Absent}
  /\ len = 0 => out = NoCall
  /\ Configured /\ fresh => FreshBooks
  /\ ScoresOwnKeys

\* A batch has a code for each of its keys, in order.
LEMMA BatchCodes ==
  ASSUME NEW from \in Nat, NEW upto \in Nat, from <= upto,
         NEW c \in Int, seq \in Nat
  PROVE  /\ Batch(from, upto, c) \in Seq([seq : Nat, pos : Int, centroid : Int])
         /\ Len(Batch(from, upto, c)) = upto - from
         /\ \A i \in 1 .. upto - from :
              Batch(from, upto, c)[i] = Code(seq, from + i - 1, c)
  <1>1. upto - from \in Nat
    OBVIOUS
  <1>2. \A i \in 1 .. upto - from :
          Code(seq, from + i - 1, c) \in [seq : Nat, pos : Int, centroid : Int]
    BY DEF Code
  <1> QED
    BY <1>1, <1>2 DEF Batch

\* Remainder of a number below twice the divisor.
LEMMA OneBatch ==
  ASSUME NEW q \in Nat \ {0}, NEW d \in Nat, q <= d, d < 2 * q
  PROVE  d % q = d - q
  OBVIOUS

\* Appending codes keeps the old ones and puts the new ones behind them.
LEMMA AppendCodes ==
  ASSUME NEW T, NEW a \in Seq(T), NEW b \in Seq(T)
  PROVE  /\ a \o b \in Seq(T)
         /\ Len(a \o b) = Len(a) + Len(b)
         /\ \A i \in 1 .. Len(a) + Len(b) :
              (a \o b)[i] = IF i <= Len(a) THEN a[i] ELSE b[i - Len(a)]
  OBVIOUS

\* The invariant holds before the first sequence, which is not a fresh one.
LEMMA InitSInv == Init => SInv
  <1> SUFFICES ASSUME Init PROVE SInv
    OBVIOUS
  <1>1. fresh \in BOOLEAN /\ ~ fresh
    BY DEF Init
  <1>2. /\ seq \in Nat /\ len \in Nat /\ numQ = Absent /\ trained = Absent
        /\ interval = Absent /\ out = NoCall
        /\ codes \in Seq([seq : Nat, pos : Int, centroid : Int])
    BY DEF Init
  <1> QED
    BY <1>1, <1>2 DEF SInv, ScoresOwnKeys

\* A sequence begins without codes when the state is reset.
LEMMA NewSequenceStep ==
  ASSUME SInv, NEW reset \in BOOLEAN, NewSequence(reset)
  PROVE  SInv'
  <1>1. /\ seq' \in Nat /\ len' = 0 /\ fresh' = reset /\ out' = NoCall
    BY DEF SInv, NewSequence
  <1>2. ScoresOwnKeys'
    BY <1>1 DEF ScoresOwnKeys, NoCall
  <1>3. CASE reset
    <2>1. /\ interval' = Absent /\ trained' = Absent /\ numQ' = Absent
          /\ codes' = <<>>
      BY <1>3 DEF NewSequence
    <2>2. FreshBooks'
      BY <2>1 DEF FreshBooks
    <2>3. codes' \in Seq([seq : Nat, pos : Int, centroid : Int])
      BY <2>1
    <2> QED
      BY <1>1, <1>2, <2>1, <2>2, <2>3 DEF SInv
  <1>4. CASE ~ reset
    <2>1. UNCHANGED <<interval, trained, numQ, codes>>
      BY <1>4 DEF NewSequence, state
    <2> QED
      BY <1>1, <1>2, <1>4, <2>1 DEF SInv
  <1> QED
    BY <1>3, <1>4

\* The prefill hook quantizes a fresh sequence from the first interval on.
LEMMA PrefillStep ==
  ASSUME SInv, NEW n \in 2 .. MaxLen, Prefill(n)
  PROVE  SInv'
  <1> DEFINE new == InitialCodes(n, interval', trained')
             T == [seq : Nat, pos : Int, centroid : Int]
  <1>1. /\ n \in Nat /\ n > 0 /\ seq \in Nat
        /\ interval' \in Nat \ {0}
        /\ trained' \in Nat
    BY IntervalAssumption DEF SInv, Prefill, Absent
  <1>2. /\ new \in Seq(T)
        /\ Len(new) = IF n > interval' THEN n - interval' ELSE 0
        /\ \A i \in 1 .. Len(new) :
             new[i] = Code(seq, interval' + i - 1, trained')
    <2>1. CASE n > interval'
      <3>1. /\ interval' \in Nat /\ trained' \in Int /\ interval' <= n
        BY <1>1, <2>1 DEF Absent
      <3> DEFINE b == Batch(interval', n, trained')
      <3>2. /\ b \in Seq(T)
            /\ Len(b) = n - interval'
            /\ \A i \in 1 .. n - interval' :
                 b[i] = Code(seq, interval' + i - 1, trained')
        BY <1>1, <3>1, BatchCodes
      <3>3. new = b
        BY <2>1 DEF InitialCodes
      <3> HIDE DEF b, new
      <3> QED
        BY <2>1, <3>2, <3>3
    <2>2. CASE ~ (n > interval')
      <3>1. new = <<>>
        BY <2>2 DEF InitialCodes
      <3> QED
        BY <2>2, <3>1
    <2> QED
      BY <2>1, <2>2
  <1>3. /\ codes' = codes \o new
        /\ codes \in Seq(T)
    BY DEF SInv, Prefill
  <1> HIDE DEF new
  <1>4. /\ codes' \in Seq(T)
        /\ Len(codes') = Len(codes) + Len(new)
        /\ \A i \in 1 .. Len(codes) + Len(new) :
             codes'[i] = IF i <= Len(codes) THEN codes[i] ELSE new[i - Len(codes)]
    BY <1>2, <1>3, AppendCodes
  <1>5. ASSUME Configured', fresh' PROVE FreshBooks'
    <2>1. /\ Configured /\ fresh /\ FreshBooks /\ len = 0
          /\ HookInterval \in Nat \ {0}
      BY <1>5, IntervalAssumption DEF SInv, Prefill, Configured
    <2>2. numQ = Absent /\ codes = <<>> /\ Len(codes) = 0
      BY <2>1 DEF FreshBooks, SInv, Absent
    <2>3. interval' = HookInterval /\ trained' = seq /\ seq' = seq /\ len' = n
      BY <2>1 DEF FreshBooks, Prefill, Absent
    <2>4. Len(codes') = IF n > HookInterval THEN n - HookInterval ELSE 0
      BY <1>2, <1>4, <2>1, <2>2, <2>3
    <2>5. \A i \in 1 .. Len(codes') :
            codes'[i] = Code(seq, HookInterval + i - 1, seq)
      <3> SUFFICES ASSUME NEW i \in 1 .. Len(codes')
                   PROVE  codes'[i] = Code(seq, HookInterval + i - 1, seq)
        OBVIOUS
      <3>1. Len(codes') = Len(new) /\ Len(new) \in Nat
        <4>1. Len(new) \in Nat
          BY <1>2
        <4> QED
          BY <1>4, <2>2, <4>1
      <3>2. codes'[i] = new[i]
        BY <1>4, <2>2, <3>1
      <3> QED
        BY <1>2, <2>3, <3>1, <3>2
    <2>6. CASE n > HookInterval
      <3>1. numQ' = n
        BY <2>3, <2>6 DEF Prefill
      <3> QED
        BY <1>1, <2>1, <2>3, <2>4, <2>5, <2>6, <3>1
           DEF FreshBooks, Absent, Code
    <2>7. CASE ~ (n > HookInterval)
      <3>1. numQ' = Absent
        BY <2>2, <2>3, <2>7 DEF Prefill
      <3>2. codes' = <<>>
        BY <1>4, <2>4, <2>7
      <3> QED
        BY <2>3, <3>1, <3>2 DEF FreshBooks
    <2> QED
      BY <2>6, <2>7
  <1>6. ScoresOwnKeys'
    BY DEF SInv, Prefill, ScoresOwnKeys, NoCall
  <1> QED
    BY <1>1, <1>4, <1>5, <1>6 DEF SInv, Prefill

\* Whole batches end within the sequence and never before the last one.
LEMMA WholeBatches ==
  ASSUME NEW q \in Nat \ {0}, NEW n \in Nat, NEW m \in Nat, m + q <= n
  PROVE  /\ n - ((n - m) % q) \in Nat
         /\ m <= n - ((n - m) % q)
  <1>1. n - m \in Nat
    OBVIOUS
  <1>2. (n - m) % q \in 0 .. q - 1
    BY <1>1
  <1> QED
    BY <1>2

\* With codes for the tokens from the first interval up to last, the selector
\* accounts for each token once.
LEMMA SelectionCovers ==
  ASSUME Configured, NEW n \in Nat, SelInterval < n,
         NEW last \in SelInterval .. n,
         NEW cs \in Seq([seq : Nat, pos : Int, centroid : Int]),
         Len(cs) = last - SelInterval,
         NEW s \in Nat,
         \A i \in 1 .. Len(cs) : cs[i] = Code(s, HookInterval + i - 1, s)
  PROVE  /\ Selection(n, last, cs).kind = "mask"
         /\ Selection(n, last, cs).always \cup DOMAIN Selection(n, last, cs).scored
              = 0 .. n - 1
         /\ Selection(n, last, cs).always \cap DOMAIN Selection(n, last, cs).scored
              = {}
         /\ \A p \in DOMAIN Selection(n, last, cs).scored :
              Selection(n, last, cs).scored[p] = Code(s, p, s)
  <1> DEFINE o == Selection(n, last, cs)
  <1>1. SelInterval \in Nat \ {0} /\ HookInterval = SelInterval
    BY IntervalAssumption DEF Configured
  <1>2. /\ o.kind = "mask"
        /\ o.always = (0 .. SelInterval - 1) \cup (last .. n - 1)
        /\ o.scored = [p \in SelInterval .. last - 1 |-> cs[p - SelInterval + 1]]
    BY <1>1 DEF Selection
  <1> HIDE DEF o
  <1>3. DOMAIN o.scored = SelInterval .. last - 1
    BY <1>2
  <1>4. ASSUME NEW p \in SelInterval .. last - 1
        PROVE  o.scored[p] = Code(s, p, s)
    <2>1. p - SelInterval + 1 \in 1 .. Len(cs)
      BY <1>1
    <2>2. o.scored[p] = cs[p - SelInterval + 1]
      BY <1>2
    <2>3. HookInterval + (p - SelInterval + 1) - 1 = p
      BY <1>1
    <2> QED
      BY <2>1, <2>2, <2>3
  <1>5. (0 .. SelInterval - 1) \cup (last .. n - 1) \cup (SelInterval .. last - 1)
          = 0 .. n - 1
    BY <1>1, SMTT(30)
  <1>6. ((0 .. SelInterval - 1) \cup (last .. n - 1)) \cap (SelInterval .. last - 1)
          = {}
    BY <1>1
  <1>7. /\ o.always \cup DOMAIN o.scored = 0 .. n - 1
        /\ o.always \cap DOMAIN o.scored = {}
    BY <1>2, <1>3, <1>5, <1>6
  <1>8. \A p \in DOMAIN o.scored : o.scored[p] = Code(s, p, s)
    BY <1>3, <1>4
  <1> QED
    BY <1>2, <1>7, <1>8 DEF o

\* A decode step appends the codes of whole batches only, and its mask covers
\* the sequence.
LEMMA DecodeStep ==
  ASSUME SInv, Decode
  PROVE  SInv'
  <1> DEFINE n == len + 1
             q == IF interval = Absent THEN SelInterval ELSE interval
             upto == QuantizedUpTo(n, q)
             T == [seq : Nat, pos : Int, centroid : Int]
  <1>1. /\ seq' = seq /\ trained' = trained /\ fresh' = fresh
        /\ len' = n /\ n \in Nat /\ n > 0
        /\ interval' = q /\ q \in Nat \ {0}
    BY IntervalAssumption DEF SInv, Decode
  <1>2. CASE /\ trained = Absent \/ n <= SelInterval
             /\ out' = [kind |-> "mask", always |-> 0 .. n - 1, scored |-> <<>>]
             /\ UNCHANGED <<numQ, codes>>
    <2>1. ASSUME Configured', fresh' PROVE FreshBooks'
      <3>1. Configured /\ FreshBooks
        BY <1>1, <2>1 DEF SInv, Configured
      <3>2. numQ = Absent
        BY <1>1, <1>2, <3>1, IntervalAssumption
           DEF FreshBooks, SInv, Configured, Absent
      <3>3. q \in {Absent, HookInterval}
        BY <3>1 DEF FreshBooks, Configured
      <3> QED
        BY <1>1, <1>2, <3>1, <3>2, <3>3 DEF FreshBooks
    <2>2. ScoresOwnKeys'
      <3>1. DOMAIN out'.scored = {} /\ out'.kind = "mask" /\ out'.always = 0 .. n - 1
        BY <1>2
      <3> QED
        BY <1>1, <3>1 DEF ScoresOwnKeys
    <2> QED
      BY <1>1, <1>2, <2>1, <2>2 DEF SInv
  <1>3. CASE /\ trained # Absent /\ n > SelInterval
             /\ numQ' = upto
             /\ codes' = IF upto = numQ THEN codes
                                        ELSE codes \o Batch(numQ, upto, trained)
             /\ out' = Selection(n, IF upto = Absent THEN SelInterval ELSE upto,
                                 codes')
    <2> DEFINE new == IF upto = numQ THEN <<>> ELSE Batch(numQ, upto, trained)
    <2>1. /\ upto \in Nat \cup {Absent}
          /\ upto # numQ => numQ \in Nat /\ upto \in Nat /\ numQ <= upto
      <3>1. numQ \in Nat \cup {Absent}
        BY DEF SInv
      <3>2. CASE numQ = Absent \/ n < numQ + q
        BY <3>1, <3>2 DEF QuantizedUpTo
      <3>3. CASE ~ (numQ = Absent \/ n < numQ + q)
        <4>1. numQ \in Nat /\ numQ + q <= n
          BY <1>1, <3>1, <3>3
        <4>2. upto = n - ((n - numQ) % q)
          BY <3>3 DEF QuantizedUpTo
        <4> HIDE DEF n, q, upto
        <4> QED
          BY <1>1, <4>1, <4>2, WholeBatches
      <3> QED
        BY <3>2, <3>3
    <2>2. /\ new \in Seq(T)
          /\ Len(new) = upto - numQ
          /\ \A i \in 1 .. upto - numQ :
               new[i] = Code(seq, numQ + i - 1, trained)
      <3>1. CASE upto = numQ
        <4>1. new = <<>>
          BY <3>1
        <4>2. upto - numQ = 0 /\ 1 .. upto - numQ = {}
          BY <2>1, <3>1 DEF Absent
        <4> HIDE DEF new, upto
        <4> QED
          BY <4>1, <4>2
      <3>2. CASE upto # numQ
        <4>1. seq \in Nat /\ trained \in Int
          BY <1>3 DEF SInv
        <4>2. new = Batch(numQ, upto, trained)
          BY <3>2
        <4> HIDE DEF new, upto
        <4> QED
          BY <2>1, <3>2, <4>1, <4>2, BatchCodes, ZenonT(60)
      <3> QED
        BY <3>1, <3>2
    <2>3. codes' = codes \o new /\ codes \in Seq(T)
      BY <1>3 DEF SInv
    <2> HIDE DEF new
    <2>4. /\ codes' \in Seq(T)
          /\ Len(codes') = Len(codes) + Len(new)
          /\ \A i \in 1 .. Len(codes) + Len(new) :
               codes'[i] = IF i <= Len(codes) THEN codes[i] ELSE new[i - Len(codes)]
      BY <2>2, <2>3, AppendCodes
    <2>5. ASSUME Configured', fresh' PROVE FreshBooks' /\ ScoresOwnKeys'
      <3>1. /\ Configured /\ FreshBooks /\ HookInterval \in Nat \ {0}
            /\ SelInterval = HookInterval /\ q = HookInterval /\ trained = seq
            /\ seq \in Nat /\ numQ \in Nat \cup {Absent} /\ len \in Nat
        BY <1>1, <1>3, <2>5, IntervalAssumption
           DEF SInv, FreshBooks, Configured
      <3>2. CASE numQ = Absent
        <4>1. upto = Absent /\ codes' = <<>>
          BY <1>3, <3>1, <3>2 DEF FreshBooks, QuantizedUpTo
        <4>2. FreshBooks'
          BY <1>1, <1>3, <3>1, <4>1 DEF FreshBooks
        <4>3. /\ SelInterval \in SelInterval .. n
              /\ Len(codes') = SelInterval - SelInterval
              /\ \A i \in 1 .. Len(codes') :
                   codes'[i] = Code(seq, HookInterval + i - 1, seq)
          <5>1. SelInterval \in SelInterval .. n
            BY <1>1, <1>3, <3>1
          <5>2. Len(codes') = 0 /\ SelInterval - SelInterval = 0
            BY <3>1, <4>1
          <5> QED
            BY <5>1, <5>2
        <4>4. out' = Selection(n, SelInterval, codes')
          BY <1>3, <4>1
        <4> HIDE DEF n
        <4>5. /\ out'.kind = "mask"
              /\ out'.always \cup DOMAIN out'.scored = 0 .. n - 1
              /\ out'.always \cap DOMAIN out'.scored = {}
              /\ \A p \in DOMAIN out'.scored : out'.scored[p] = Code(seq, p, seq)
          <5>1. /\ n \in Nat /\ SelInterval < n
                /\ codes' \in Seq([seq : Nat, pos : Int, centroid : Int])
            BY <1>1, <1>3, <2>4, <3>1
          <5>2. Configured /\ seq \in Nat
            BY <3>1
          <5> HIDE DEF q, T
          <5> QED
            BY <4>3, <4>4, <5>1, <5>2, SelectionCovers, SMTT(30)
        <4> QED
          BY <1>1, <4>2, <4>5 DEF ScoresOwnKeys
      <3>3. CASE numQ # Absent
        <4>1. /\ numQ \in HookInterval + 1 .. len /\ len - numQ < HookInterval
              /\ Len(codes) = numQ - HookInterval
              /\ \A i \in 1 .. Len(codes) :
                   codes[i] = Code(seq, HookInterval + i - 1, seq)
          BY <3>1, <3>3 DEF FreshBooks
        <4>2. /\ upto \in HookInterval + 1 .. n /\ n - upto < HookInterval
              /\ upto # Absent
          <5>1. CASE n < numQ + q
            BY <3>1, <3>3, <4>1, <5>1 DEF QuantizedUpTo, Absent
          <5>2. CASE ~ (n < numQ + q)
            <6>1. n - numQ = HookInterval
              BY <3>1, <4>1, <5>2
            <6>2. (n - numQ) % q = 0
              <7>1. HookInterval % HookInterval = 0
                BY <3>1, OneBatch
              <7> QED
                BY <3>1, <6>1, <7>1
            <6>3. upto = n
              BY <1>1, <3>3, <5>2, <6>2 DEF QuantizedUpTo
            <6> QED
              BY <3>1, <4>1, <6>3 DEF Absent
          <5> QED
            BY <5>1, <5>2
        <4> HIDE DEF n, upto
        <4>3. Len(codes') = upto - HookInterval
          BY <2>2, <2>4, <3>1, <4>1, <4>2, <1>1
        <4>4. ASSUME NEW i \in 1 .. Len(codes')
              PROVE  codes'[i] = Code(seq, HookInterval + i - 1, seq)
          <5>1. CASE i <= Len(codes)
            BY <2>4, <4>1, <5>1
          <5>2. CASE ~ (i <= Len(codes))
            <6>1. i - Len(codes) \in 1 .. upto - numQ
              BY <1>1, <3>1, <4>1, <4>2, <4>3, <5>2
            <6>2. codes'[i] = new[i - Len(codes)]
              BY <2>4, <4>3, <5>2
            <6>3. numQ + (i - Len(codes)) - 1 = HookInterval + i - 1
              BY <3>1, <4>1, <4>3
            <6> QED
              BY <2>2, <3>1, <6>1, <6>2, <6>3
          <5> QED
            BY <5>1, <5>2
        <4>5. FreshBooks'
          BY <1>1, <1>3, <3>1, <4>2, <4>3, <4>4 DEF FreshBooks
        <4>6. upto \in SelInterval .. n /\ Len(codes') = upto - SelInterval
          BY <1>1, <3>1, <4>2, <4>3
        <4>7. out' = Selection(n, upto, codes')
          BY <1>3, <4>2
        <4>8. /\ out'.kind = "mask"
              /\ out'.always \cup DOMAIN out'.scored = 0 .. n - 1
              /\ out'.always \cap DOMAIN out'.scored = {}
              /\ \A p \in DOMAIN out'.scored : out'.scored[p] = Code(seq, p, seq)
          <5>1. /\ n \in Nat /\ SelInterval < n
                /\ codes' \in Seq([seq : Nat, pos : Int, centroid : Int])
            BY <1>1, <1>3, <2>4, <3>1
          <5>2. Configured /\ seq \in Nat
            BY <3>1
          <5>3. \A i \in 1 .. Len(codes') :
                  codes'[i] = Code(seq, HookInterval + i - 1, seq)
            BY <4>4
          <5> HIDE DEF q, T
          <5>4. /\ Selection(n, upto, codes').kind = "mask"
                /\ Selection(n, upto, codes').always
                     \cup DOMAIN Selection(n, upto, codes').scored = 0 .. n - 1
                /\ Selection(n, upto, codes').always
                     \cap DOMAIN Selection(n, upto, codes').scored = {}
                /\ \A p \in DOMAIN Selection(n, upto, codes').scored :
                     Selection(n, upto, codes').scored[p] = Code(seq, p, seq)
            BY <4>6, <5>1, <5>2, <5>3, SelectionCovers
          <5> QED
            BY <4>7, <5>4
        <4> QED
          BY <1>1, <4>5, <4>8 DEF ScoresOwnKeys
      <3> QED
        BY <3>1, <3>2, <3>3
    <2>6. ScoresOwnKeys'
      BY <2>5 DEF ScoresOwnKeys
    <2> QED
      BY <1>1, <1>3, <2>1, <2>4, <2>5, <2>6 DEF SInv
  <1> QED
    BY <1>1, <1>2, <1>3 DEF Decode

\* Every step keeps the invariant.
LEMMA StepSInv == SInv /\ [Next]_vars => SInv'
  <1> SUFFICES ASSUME SInv, [Next]_vars PROVE SInv'
    OBVIOUS
  <1>1. CASE Next
    BY <1>1, NewSequenceStep, PrefillStep, DecodeStep DEF Next
  <1>2. CASE UNCHANGED vars
    BY <1>2 DEF vars, state, SInv, FreshBooks, Configured, ScoresOwnKeys
  <1> QED
    BY <1>1, <1>2

\* rabitq_selector scores a fresh sequence's tokens with the codes of their own
\* keys and selects the others outright, for every quantize_interval.
THEOREM ScoresFaithful == Spec => []ScoresOwnKeys
  <1>1. SInv => ScoresOwnKeys
    BY DEF SInv
  <1> QED
    BY <1>1, InitSInv, StepSInv, PTL DEF Spec

\* The tail that rabitq_selector always selects stays below one interval.
THEOREM TailStaysBounded == Spec => []TailBounded
  <1>1. SInv => TailBounded
    BY DEF SInv, FreshBooks, TailBounded
  <1> QED
    BY <1>1, InitSInv, StepSInv, PTL DEF Spec
=============================================================================
