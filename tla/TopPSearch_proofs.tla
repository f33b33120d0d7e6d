------------------------- MODULE TopPSearch_proofs -------------------------
(***************************************************************************)
(* The two searches for the threshold keep their loop invariant, and all   *)
(* three implementations of top-p select what they promise: for rows of    *)
(* any length and any probabilities.                                       *)
(***************************************************************************)
EXTENDS TopPSearch, FiniteSetTheorems, WellFoundedInduction, TLAPS

-----------------------------------------------------------------------------
(* Sums over finite sets *)

\* Induction over the subsets of a finite set.
LEMMA SubsetInduction ==
  ASSUME NEW D, IsFiniteSet(D), NEW P,
         \A S \in SUBSET D : (\A T \in SUBSET S : T # S => T \in P) => S \in P
  PROVE  \A S \in SUBSET D : S \in P
  <1> DEFINE Bad == {S \in SUBSET D : S \notin P}
  <1> SUFFICES ASSUME Bad # {} PROVE FALSE
    OBVIOUS
  <1>1. PICK S \in Bad : \A T \in Bad : ~(<<T, S>> \in StrictSubsetOrdering(D))
    <2> DEFINE R == StrictSubsetOrdering(D)
    <2>1. IsWellFoundedOn(R, SUBSET D)
      <3>1. IsWellFoundedOn(StrictSubsetOrdering(D), FiniteSubsetsOf(D))
        BY FS_StrictSubsetOrderingWellFounded
      <3>2. FiniteSubsetsOf(D) = SUBSET D
        BY FS_FiniteSubsetsOfFinite
      <3> QED
        BY <3>1, <3>2
    <2>2. Bad \subseteq SUBSET D
      OBVIOUS
    <2> HIDE DEF R, Bad
    <2>3. \E S \in Bad : \A T \in Bad : ~(<<T, S>> \in R)
      BY <2>1, <2>2, WFMin
    <2> QED
      BY <2>3 DEF R
  <1>2. ASSUME NEW T \in SUBSET S, T # S PROVE T \in P
    <2>1. <<T, S>> \in StrictSubsetOrdering(D)
      BY <1>1, <1>2 DEF StrictSubsetOrdering
    <2> QED
      BY <1>1, <1>2, <2>1
  <1> QED
    BY <1>1, <1>2

\* What MapThenSumSet computes, as it is used in Mass and MassOf.
Sum(f, S) == MapThenSumSet(LAMBDA i : f[i], S)

\* The element that the summation takes next.
Pick(s) == CHOOSE x \in s : TRUE

\* The recursive function inside of it.
Summing(g, f, S) ==
  g = [s \in SUBSET S |-> IF s = {} THEN 0 ELSE f[Pick(s)] + g[s \ {Pick(s)}]]

\* MapThenSumSet is the value of a recursive function.
LEMMA SumChosen ==
  ASSUME NEW f, NEW S
  PROVE  Sum(f, S) = (CHOOSE g : Summing(g, f, S))[S]
  BY Zenon DEF Sum, MapThenSumSet, MapThenFoldSet, Summing, Pick

\* Masses are sums.
LEMMA MassSum ==
  ASSUME NEW r, NEW x
  PROVE  Mass(r, x) = Sum(r, Above(r, x))
  BY Zenon DEF Sum, Mass

\* The mass of a selection is a sum, too.
LEMMA MassOfSum ==
  ASSUME NEW S
  PROVE  MassOf(S) = Sum(row, S)
  BY Zenon DEF Sum, MassOf

\* The next element is one of the set.
LEMMA PickIn ==
  ASSUME NEW s, s # {}
  PROVE  Pick(s) \in s
  BY Zenon DEF Pick

\* A recursive function is given by its values on smaller sets.
LEMMA SummingValue ==
  ASSUME NEW g, NEW f, NEW S, Summing(g, f, S), NEW s \in SUBSET S
  PROVE  g[s] = IF s = {} THEN 0 ELSE f[Pick(s)] + g[s \ {Pick(s)}]
  <1> DEFINE F == [t \in SUBSET S |-> IF t = {} THEN 0 ELSE f[Pick(t)] + g[t \ {Pick(t)}]]
  <1>1. g = F
    BY DEF Summing
  <1>2. F[s] = IF s = {} THEN 0 ELSE f[Pick(s)] + g[s \ {Pick(s)}]
    OBVIOUS
  <1> HIDE DEF F
  <1> QED
    BY <1>1, <1>2

\* There is only one.
LEMMA SummingUnique ==
  ASSUME NEW f, NEW S, IsFiniteSet(S), NEW g, NEW h, Summing(g, f, S), Summing(h, f, S)
  PROVE  \A s \in SUBSET S : g[s] = h[s]
  <1> DEFINE P == {s \in SUBSET S : g[s] = h[s]}
  <1>1. ASSUME NEW s \in SUBSET S, \A t \in SUBSET s : t # s => t \in P PROVE s \in P
    <2>1. /\ g[s] = IF s = {} THEN 0 ELSE f[Pick(s)] + g[s \ {Pick(s)}]
          /\ h[s] = IF s = {} THEN 0 ELSE f[Pick(s)] + h[s \ {Pick(s)}]
      BY SummingValue
    <2>2. CASE s = {}
      BY <2>1, <2>2
    <2>3. CASE s # {}
      <3>1. Pick(s) \in s
        BY <2>3, PickIn
      <3>2. PICK t : t = s \ {Pick(s)}
        OBVIOUS
      <3>3. t \in SUBSET s /\ t # s
        BY <3>1, <3>2
      <3>4. g[t] = h[t]
        BY <1>1, <3>3
      <3> QED
        BY <2>1, <2>3, <3>2, <3>4
    <2> QED
      BY <2>2, <2>3
  <1> HIDE DEF P
  <1>2. \A s \in SUBSET S : s \in P
    BY <1>1, SubsetInduction
  <1> QED
    BY <1>2 DEF P

\* And there is one: the sum is the value of the next element and the sum of the rest.
LEMMA SumNext ==
  ASSUME NEW f, NEW D, IsFiniteSet(D)
  PROVE  \A S \in SUBSET D :
           Sum(f, S) = IF S = {} THEN 0 ELSE f[Pick(S)] + Sum(f, S \ {Pick(S)})
  <1> DEFINE Next1(S) == IF S = {} THEN 0 ELSE f[Pick(S)] + Sum(f, S \ {Pick(S)})
             P == {S \in SUBSET D : Sum(f, S) = Next1(S)}
  <1>1. ASSUME NEW S \in SUBSET D, \A T \in SUBSET S : T # S => T \in P PROVE S \in P
    <2> DEFINE k == [T \in SUBSET S |-> IF T = S THEN Next1(S) ELSE Sum(f, T)]
               F == [s \in SUBSET S |-> IF s = {} THEN 0 ELSE f[Pick(s)] + k[s \ {Pick(s)}]]
    <2>1. ASSUME NEW s \in SUBSET S PROVE k[s] = F[s]
      <3>1. k[s] = Next1(s)
        <4>1. CASE s = S
          BY <4>1
        <4>2. CASE s # S
          BY <1>1, <4>2
        <4> QED
          BY <4>1, <4>2
      <3>2. CASE s = {}
        BY <3>1, <3>2
      <3>3. CASE s # {}
        <4>1. PICK t : t = s \ {Pick(s)}
          OBVIOUS
        <4>2. t \in SUBSET S /\ t # S
          BY <3>3, <4>1, PickIn
        <4>3. k[t] = Sum(f, t)
          BY <4>2
        <4>4. F[s] = f[Pick(s)] + k[t]
          BY <3>3, <4>1
        <4>5. Next1(s) = f[Pick(s)] + Sum(f, t)
          BY <3>3, <4>1
        <4> QED
          BY <3>1, <4>3, <4>4, <4>5
      <3> QED
        BY <3>2, <3>3
    <2>2. k = F
      <3>1. k = [s \in SUBSET S |-> k[s]] /\ F = [s \in SUBSET S |-> F[s]]
        OBVIOUS
      <3> HIDE DEF k, F
      <3> QED
        BY <2>1, <3>1
    <2>3. Summing(k, f, S)
      BY <2>2, Zenon DEF Summing
    <2>4. k[S] = Next1(S)
      OBVIOUS
    <2> HIDE DEF k, F, Next1
    <2>5. PICK c : c = CHOOSE g : Summing(g, f, S)
      OBVIOUS
    <2>6. Summing(c, f, S)
      BY <2>3, <2>5, Zenon
    <2>7. IsFiniteSet(S) /\ S \in SUBSET S
      BY FS_Subset
    <2>8. c[S] = k[S]
      BY <2>3, <2>6, <2>7, SummingUnique
    <2>9. Sum(f, S) = c[S]
      BY <2>5, SumChosen
    <2> QED
      BY <2>4, <2>8, <2>9
  <1> HIDE DEF P
  <1>2. \A S \in SUBSET D : S \in P
    BY <1>1, SubsetInduction
  <1> QED
    BY <1>2 DEF P

\* f gives the elements of the finite set D natural numbers.
Weights(f, D) == IsFiniteSet(D) /\ \A x \in D : f[x] \in Nat

\* Sums are natural numbers.
LEMMA SumNat ==
  ASSUME NEW f, NEW D, Weights(f, D)
  PROVE  Sum(f, {}) = 0 /\ \A S \in SUBSET D : Sum(f, S) \in Nat
  <1> DEFINE P == {S \in SUBSET D : Sum(f, S) \in Nat}
  <1>1. \A S \in SUBSET D :
          Sum(f, S) = IF S = {} THEN 0 ELSE f[Pick(S)] + Sum(f, S \ {Pick(S)})
    BY SumNext DEF Weights
  <1>2. ASSUME NEW S \in SUBSET D, \A T \in SUBSET S : T # S => T \in P PROVE S \in P
    <2>1. CASE S = {}
      <3>1. Sum(f, S) = 0
        BY <1>1, <2>1
      <3> QED
        BY <3>1
    <2>2. CASE S # {}
      <3>1. PICK T : T = S \ {Pick(S)}
        OBVIOUS
      <3>2. Pick(S) \in S /\ T \in SUBSET S /\ T # S
        BY <2>2, <3>1, PickIn
      <3>3. Sum(f, T) \in Nat /\ f[Pick(S)] \in Nat
        BY <1>2, <3>2 DEF Weights
      <3> QED
        BY <1>1, <2>2, <3>1, <3>3
    <2> QED
      BY <2>1, <2>2
  <1> HIDE DEF P
  <1>3. \A S \in SUBSET D : S \in P
    BY <1>2, SubsetInduction DEF Weights
  <1>4. Sum(f, {}) = 0
    BY <1>1
  <1> QED
    BY <1>3, <1>4 DEF P

\* Any element may be taken out.
LEMMA SumWithout ==
  ASSUME NEW f, NEW D, Weights(f, D)
  PROVE  \A S \in SUBSET D : \A x \in S : Sum(f, S) = f[x] + Sum(f, S \ {x})
  <1> DEFINE P == {S \in SUBSET D : \A x \in S : Sum(f, S) = f[x] + Sum(f, S \ {x})}
  <1>1. \A S \in SUBSET D :
          Sum(f, S) = IF S = {} THEN 0 ELSE f[Pick(S)] + Sum(f, S \ {Pick(S)})
    BY SumNext DEF Weights
  <1>2. ASSUME NEW S \in SUBSET D, \A T \in SUBSET S : T # S => T \in P PROVE S \in P
    <2>1. ASSUME NEW x \in S PROVE Sum(f, S) = f[x] + Sum(f, S \ {x})
      <3>1. PICK c : c = Pick(S)
        OBVIOUS
      <3>2. c \in S /\ Sum(f, S) = f[c] + Sum(f, S \ {c})
        BY <1>1, <3>1, PickIn
      <3>3. CASE x = c
        BY <3>2, <3>3
      <3>4. CASE x # c
        <4>1. PICK A, B, C : A = S \ {c} /\ B = S \ {x} /\ C = (S \ {c}) \ {x}
          OBVIOUS
        <4>2. /\ A \in SUBSET S /\ A # S /\ x \in A /\ C = A \ {x}
              /\ B \in SUBSET S /\ B # S /\ c \in B /\ C = B \ {c}
          BY <3>2, <3>4, <4>1
        <4>3. Sum(f, A) = f[x] + Sum(f, C) /\ Sum(f, B) = f[c] + Sum(f, C)
          BY <1>2, <4>2
        <4>4. C \in SUBSET D /\ Sum(f, C) \in Nat /\ f[x] \in Nat /\ f[c] \in Nat
          <5>1. C \in SUBSET D
            BY <4>2
          <5> QED
            BY <3>2, <5>1, SumNat DEF Weights
        <4> QED
          BY <3>2, <4>1, <4>3, <4>4
      <3> QED
        BY <3>3, <3>4
    <2> QED
      BY <2>1
  <1> HIDE DEF P
  <1>3. \A S \in SUBSET D : S \in P
    BY <1>2, SubsetInduction DEF Weights
  <1> QED
    BY <1>3 DEF P

\* A larger set has no smaller sum.
LEMMA SumMonotone ==
  ASSUME NEW f, NEW D, Weights(f, D), NEW T
  PROVE  \A S \in SUBSET D : T \subseteq S => Sum(f, T) <= Sum(f, S)
  <1> DEFINE P == {S \in SUBSET D : T \subseteq S => Sum(f, T) <= Sum(f, S)}
  <1>1. ASSUME NEW S \in SUBSET D, \A U \in SUBSET S : U # S => U \in P PROVE S \in P
    <2>1. SUFFICES ASSUME T \subseteq S PROVE Sum(f, T) <= Sum(f, S)
      OBVIOUS
    <2>2. Sum(f, T) \in Nat /\ Sum(f, S) \in Nat
      BY <2>1, SumNat
    <2>3. CASE T = S
      BY <2>2, <2>3
    <2>4. CASE T # S
      <3>1. PICK x \in S : x \notin T
        BY <2>1, <2>4
      <3>2. PICK U : U = S \ {x}
        OBVIOUS
      <3>3. U \in SUBSET S /\ U # S /\ T \subseteq U /\ U \in SUBSET D
        BY <2>1, <3>1, <3>2
      <3>4. Sum(f, T) <= Sum(f, U)
        BY <1>1, <3>3
      <3>5. Sum(f, S) = f[x] + Sum(f, U) /\ f[x] \in Nat
        BY <3>2, SumWithout DEF Weights
      <3>6. Sum(f, U) \in Nat
        BY <3>3, SumNat
      <3> QED
        BY <2>2, <3>4, <3>5, <3>6
    <2> QED
      BY <2>3, <2>4
  <1> HIDE DEF P
  <1>2. \A S \in SUBSET D : S \in P
    BY <1>1, SubsetInduction DEF Weights
  <1> QED
    BY <1>2 DEF P

\* What it has more counts.
LEMMA SumMore ==
  ASSUME NEW f, NEW D, Weights(f, D), NEW S \in SUBSET D, NEW T, T \subseteq S, NEW x \in S, x \notin T
  PROVE  Sum(f, T) + f[x] <= Sum(f, S)
  <1>1. PICK U : U = S \ {x}
    OBVIOUS
  <1>2. U \in SUBSET D /\ T \subseteq U /\ T \in SUBSET D
    BY <1>1
  <1>3. Sum(f, T) <= Sum(f, U)
    BY <1>2, SumMonotone
  <1>4. Sum(f, S) = f[x] + Sum(f, U)
    BY <1>1, SumWithout
  <1>5. Sum(f, T) \in Nat /\ Sum(f, U) \in Nat /\ f[x] \in Nat
    BY <1>2, SumNat DEF Weights
  <1> QED
    BY <1>3, <1>4, <1>5

-----------------------------------------------------------------------------
(* Least and greatest elements *)

\* A set of natural numbers has a least element.
LEMMA LeastNat ==
  ASSUME NEW T, T \subseteq Nat, T # {}
  PROVE  \E x \in T : \A y \in T : x <= y
  <1> DEFINE R == OpToRel(<, Nat)
  <1>1. IsWellFoundedOn(R, Nat)
    BY NatLessThanWellFounded
  <1> HIDE DEF R
  <1>2. PICK x \in T : \A y \in T : ~(<<y, x>> \in R)
    BY <1>1, WFMin
  <1>3. ASSUME NEW y \in T, ~(x <= y) PROVE FALSE
    <2>1. y < x /\ x \in Nat /\ y \in Nat
      BY <1>3
    <2>2. <<y, x>> \in R
      BY <2>1 DEF R, OpToRel
    <2> QED
      BY <1>2, <2>2
  <1> QED
    BY <1>3

\* Min is the least element.
LEMMA MinIs ==
  ASSUME NEW T, T \subseteq Nat, T # {}
  PROVE  Min(T) \in T /\ \A y \in T : Min(T) <= y
  <1>1. \E x \in T : \A y \in T : x =< y
    BY LeastNat
  <1> QED
    BY <1>1, Zenon DEF Min

\* And a greatest one, if there is a bound.
LEMMA MaxIs ==
  ASSUME NEW T, T \subseteq Nat, T # {}, NEW n \in Nat, \A x \in T : x <= n
  PROVE  Max(T) \in T /\ \A y \in T : Max(T) >= y
  <1> DEFINE U == {k \in Nat : \A x \in T : x <= k}
  <1>1. U \subseteq Nat /\ U # {}
    OBVIOUS
  <1> HIDE DEF U
  <1>2. PICK k \in U : \A y \in U : k <= y
    BY <1>1, LeastNat
  <1>3. k \in Nat /\ \A x \in T : x <= k
    BY <1>2 DEF U
  <1>4. k \in T
    <2>1. SUFFICES ASSUME k \notin T PROVE FALSE
      OBVIOUS
    <2>2. PICK t \in T : TRUE
      OBVIOUS
    <2>3. t \in Nat /\ t <= k /\ t # k
      BY <1>3, <2>1
    <2>4. k - 1 \in Nat
      BY <1>3, <2>3
    <2>5. \A x \in T : x <= k - 1
      BY <1>3, <2>1
    <2>6. k - 1 \in U
      BY <2>4, <2>5 DEF U
    <2> QED
      BY <1>2, <1>3, <2>4, <2>6
  <1>5. \A y \in T : k >= y
    BY <1>3
  <1>6. \E x \in T : \A y \in T : x >= y
    BY <1>4, <1>5
  <1> QED
    BY <1>6, Zenon DEF Max

\* The smaller of two.
LEMMA MinOfTwo ==
  ASSUME NEW x \in Nat, NEW y \in Nat
  PROVE  Min({x, y}) \in {x, y} /\ Min({x, y}) <= x /\ Min({x, y}) <= y
  <1>1. {x, y} \subseteq Nat /\ {x, y} # {} /\ x \in {x, y} /\ y \in {x, y}
    OBVIOUS
  <1> QED
    BY <1>1, MinIs

-----------------------------------------------------------------------------
(* Rows and their masses *)

\* A probability in the parts in which thresholds are counted.
Part(r, i) == r[i] * Scale

\* What a row is: natural numbers at 1 .. d, one of them positive.
LEMMA RowWeights ==
  ASSUME NEW r \in Rows
  PROVE  /\ Weights(r, DOMAIN r)
         /\ \A i \in DOMAIN r : r[i] \in 0 .. MaxUnits
         /\ \E d \in Nat \ {0} : DOMAIN r = 1 .. d
         /\ \E i \in DOMAIN r : r[i] > 0
  <1>1. MaxUnits \in Nat /\ MaxTokens \in Nat
    BY TopPAssumption
  <1>2. PICK d \in 1 .. MaxTokens : r \in [1 .. d -> 0 .. MaxUnits]
    BY DEF Rows
  <1>3. d \in Nat \ {0} /\ DOMAIN r = 1 .. d /\ \A i \in DOMAIN r : r[i] \in 0 .. MaxUnits
    BY <1>1, <1>2
  <1>4. IsFiniteSet(1 .. d)
    BY <1>3, FS_Interval
  <1>5. \E i \in DOMAIN r : r[i] > 0
    BY DEF Rows
  <1> QED
    BY <1>1, <1>3, <1>4, <1>5 DEF Weights

\* Products with Scale keep the order, and leave a gap.
LEMMA Scaled ==
  ASSUME NEW a \in Nat, NEW b \in Nat
  PROVE  /\ a * Scale \in Nat
         /\ a > b => a * Scale >= b * Scale + Scale
         /\ a <= b => a * Scale <= b * Scale
         /\ a > 0 => a * Scale > 0
         /\ 0 * Scale = 0
  <1>1. Scale \in Nat /\ Scale > 0
    BY TopPAssumption
  <1>2. PICK s \in Nat : s = Scale /\ s > 0
    BY <1>1
  <1>3. a * s \in Nat /\ b * s \in Nat
    BY <1>2
  <1>4. ASSUME a > b PROVE a * s >= b * s + s
    <2>1. PICK c \in Nat : a = b + 1 + c
      <3>1. a - b - 1 \in Nat /\ a = b + 1 + (a - b - 1)
        BY <1>4
      <3> QED
        BY <3>1
    <2>2. c * s \in Nat
      BY <1>2
    <2>3. a * s = b * s + s + c * s
      BY <1>2, <2>1
    <2> QED
      BY <1>2, <1>3, <2>2, <2>3
  <1>5. ASSUME a <= b PROVE a * s <= b * s
    <2>1. PICK c \in Nat : b = a + c
      <3>1. b - a \in Nat /\ b = a + (b - a)
        BY <1>5
      <3> QED
        BY <3>1
    <2>2. c * s \in Nat
      BY <1>2
    <2>3. b * s = a * s + c * s
      BY <1>2, <2>1
    <2> QED
      BY <1>2, <1>3, <2>2, <2>3
  <1>6. ASSUME a > 0 PROVE a * s > 0
    BY <1>2, <1>6
  <1> QED
    BY <1>2, <1>3, <1>4, <1>5, <1>6

\* A probability in threshold parts: a natural number in the same order, and two different
\* probabilities are at least Scale apart.
LEMMA Parts ==
  ASSUME NEW r \in Rows, NEW i \in DOMAIN r
  PROVE  /\ Part(r, i) \in Nat /\ r[i] \in Nat
         /\ Part(r, i) <= MaxUnits * Scale /\ MaxUnits * Scale \in Nat
         /\ Part(r, i) > 0 <=> r[i] > 0
         /\ \A j \in DOMAIN r : /\ r[i] > r[j] <=> Part(r, i) > Part(r, j)
                                /\ Part(r, i) > Part(r, j) => Part(r, i) >= Part(r, j) + Scale
  <1>1. r[i] \in Nat /\ r[i] <= MaxUnits /\ MaxUnits \in Nat /\ Scale \in Nat
    BY RowWeights, TopPAssumption
  <1>2. /\ r[i] * Scale \in Nat /\ MaxUnits * Scale \in Nat /\ r[i] * Scale <= MaxUnits * Scale
        /\ r[i] > 0 => r[i] * Scale > 0
        /\ 0 * Scale = 0
    BY <1>1, Scaled
  <1>3. ASSUME NEW j \in DOMAIN r
        PROVE  /\ r[i] > r[j] <=> Part(r, i) > Part(r, j)
               /\ Part(r, i) > Part(r, j) => Part(r, i) >= Part(r, j) + Scale
    <2>1. r[j] \in Nat
      BY RowWeights
    <2>2. r[j] * Scale \in Nat
      BY <2>1, Scaled
    <2>3. /\ r[i] > r[j] => r[i] * Scale >= r[j] * Scale + Scale
          /\ r[i] <= r[j] => r[i] * Scale <= r[j] * Scale
      BY <1>1, <2>1, Scaled
    <2>4. Scale > 0
      BY TopPAssumption
    <2>5. PICK x \in Nat, y \in Nat : x = r[i] * Scale /\ y = r[j] * Scale
      BY <1>2, <2>2
    <2> QED
      BY <1>1, <2>1, <2>3, <2>4, <2>5 DEF Part
  <1>4. Part(r, i) > 0 <=> r[i] > 0
    BY <1>1, <1>2 DEF Part
  <1> QED
    BY <1>1, <1>2, <1>3, <1>4 DEF Part

\* f(x) is non-increasing, and falls by a probability that is passed.
LEMMA MassFalls ==
  ASSUME NEW r \in Rows, NEW x \in Nat, NEW y \in Nat
  PROVE  /\ Above(r, x) \in SUBSET DOMAIN r
         /\ Mass(r, x) \in Nat
         /\ x <= y => Mass(r, y) <= Mass(r, x)
         /\ Above(r, x) = Above(r, y) => Mass(r, x) = Mass(r, y)
         /\ \A i \in DOMAIN r : x < Part(r, i) /\ Part(r, i) <= y => Mass(r, y) + r[i] <= Mass(r, x)
  <1>1. Weights(r, DOMAIN r) /\ \A i \in DOMAIN r : Part(r, i) \in Nat
    BY RowWeights, Parts
  <1>2. PICK D, A, B : D = DOMAIN r /\ A = Above(r, x) /\ B = Above(r, y)
    OBVIOUS
  <1>3. /\ A \in SUBSET D /\ B \in SUBSET D
        /\ \A i \in D : (i \in A <=> Part(r, i) > x) /\ (i \in B <=> Part(r, i) > y)
    BY <1>2 DEF Above, Part
  <1>4. Mass(r, x) = Sum(r, A) /\ Mass(r, y) = Sum(r, B)
    BY <1>2, MassSum
  <1>5. Sum(r, A) \in Nat /\ Sum(r, B) \in Nat
    BY <1>1, <1>2, <1>3, SumNat
  <1>6. ASSUME x <= y PROVE B \subseteq A
    BY <1>1, <1>2, <1>3, <1>6
  <1>7. x <= y => Sum(r, B) <= Sum(r, A)
    BY <1>1, <1>2, <1>3, <1>6, SumMonotone
  <1>8. ASSUME NEW i \in D, x < Part(r, i), Part(r, i) <= y PROVE Sum(r, B) + r[i] <= Sum(r, A)
    <2>1. i \in A /\ i \notin B /\ x <= y
      BY <1>1, <1>2, <1>3, <1>8
    <2> QED
      BY <1>1, <1>2, <1>3, <1>6, <2>1, SumMore
  <1> QED
    BY <1>2, <1>3, <1>4, <1>5, <1>7, <1>8

\* Nothing is above the maximum.
LEMMA MaxValueMass ==
  ASSUME NEW r \in Rows
  PROVE  MaxValue(r) \in Nat /\ Mass(r, MaxValue(r)) = 0
  <1> DEFINE V == {r[i] : i \in DOMAIN r}
  <1>1. /\ \A i \in DOMAIN r : r[i] \in Nat /\ r[i] <= MaxUnits
        /\ \E i \in DOMAIN r : r[i] > 0
        /\ MaxUnits \in Nat /\ Weights(r, DOMAIN r)
    BY RowWeights, TopPAssumption
  <1>2. V \subseteq Nat /\ V # {} /\ \A v \in V : v <= MaxUnits
    BY <1>1
  <1>3. PICK m : m = Max(V)
    OBVIOUS
  <1>4. m \in Nat /\ \A i \in DOMAIN r : r[i] <= m
    <2>1. \A i \in DOMAIN r : r[i] \in V
      OBVIOUS
    <2> HIDE DEF V
    <2>2. m \in V /\ \A v \in V : m >= v
      BY <1>1, <1>2, <1>3, MaxIs
    <2> QED
      BY <1>1, <1>2, <2>1, <2>2
  <1>5. MaxValue(r) = m * Scale /\ m * Scale \in Nat
    <2>1. Scale \in Nat
      BY TopPAssumption
    <2>2. MaxValue(r) = Scale * m
      BY <1>3 DEF MaxValue
    <2> QED
      BY <1>4, <2>1, <2>2
  <1>6. Above(r, MaxValue(r)) = {}
    <2>1. ASSUME NEW i \in DOMAIN r PROVE ~(r[i] * Scale > MaxValue(r))
      <3>1. r[i] \in Nat /\ r[i] <= m
        BY <1>1, <1>4
      <3>2. r[i] * Scale <= m * Scale /\ r[i] * Scale \in Nat
        BY <1>4, <3>1, Scaled
      <3>3. PICK a \in Nat, c \in Nat : a = r[i] * Scale /\ c = m * Scale
        BY <1>5, <3>2
      <3> QED
        BY <1>5, <3>2, <3>3
    <2> QED
      BY <2>1 DEF Above
  <1>7. Mass(r, MaxValue(r)) = Sum(r, {})
    BY <1>6, MassSum
  <1> QED
    BY <1>1, <1>5, <1>7, SumNat

\* What a pass over the row finds.
LEMMA MinAboveIs ==
  ASSUME NEW r \in Rows, NEW x \in Nat, NEW y \in Nat
  PROVE  /\ MinAbove(r, x, y) \in Nat /\ MinAbove(r, x, y) <= y
         /\ \A i \in DOMAIN r : Part(r, i) > x => MinAbove(r, x, y) <= Part(r, i)
         /\ \/ MinAbove(r, x, y) = y
            \/ \E i \in DOMAIN r : Part(r, i) > x /\ MinAbove(r, x, y) = Part(r, i)
  <1> DEFINE V == {y} \cup {r[i] * Scale : i \in Above(r, x)}
  <1>1. \A i \in DOMAIN r : /\ Part(r, i) \in Nat
                            /\ i \in Above(r, x) <=> Part(r, i) > x
                            /\ r[i] * Scale = Part(r, i)
    BY Parts DEF Above, Part
  <1>2. Above(r, x) \subseteq DOMAIN r
    BY DEF Above
  <1>3. V \subseteq Nat /\ V # {} /\ y \in V
    BY <1>1, <1>2
  <1>4. \A i \in DOMAIN r : Part(r, i) > x => Part(r, i) \in V
    BY <1>1
  <1>5. \A v \in V : v = y \/ \E i \in DOMAIN r : Part(r, i) > x /\ v = Part(r, i)
    BY <1>1, <1>2
  <1>6. MinAbove(r, x, y) = Min(V)
    BY DEF MinAbove
  <1> HIDE DEF V
  <1>7. Min(V) \in V /\ \A v \in V : Min(V) <= v
    BY <1>3, MinIs
  <1> QED
    BY <1>3, <1>4, <1>5, <1>6, <1>7

\* And the largest probability up to the upper bound.
LEMMA MaxUpToIs ==
  ASSUME NEW r \in Rows, NEW x \in Nat, NEW y \in Nat
  PROVE  /\ MaxUpTo(r, x, y) \in Nat /\ MaxUpTo(r, x, y) >= x
         /\ \A i \in DOMAIN r : Part(r, i) <= y => MaxUpTo(r, x, y) >= Part(r, i)
         /\ \/ MaxUpTo(r, x, y) = x
            \/ \E i \in DOMAIN r : Part(r, i) <= y /\ MaxUpTo(r, x, y) = Part(r, i)
  <1> DEFINE V == {x} \cup {r[i] * Scale : i \in DOMAIN r \ Above(r, y)}
  <1>1. \A i \in DOMAIN r : /\ Part(r, i) \in Nat
                            /\ i \in DOMAIN r \ Above(r, y) <=> Part(r, i) <= y
                            /\ r[i] * Scale = Part(r, i)
    BY Parts DEF Above, Part
  <1>2. PICK n \in Nat : \A i \in DOMAIN r : Part(r, i) <= n
    <2>1. \E i \in DOMAIN r : TRUE
      BY RowWeights
    <2>2. MaxUnits * Scale \in Nat /\ \A i \in DOMAIN r : Part(r, i) <= MaxUnits * Scale
      BY <2>1, Parts
    <2> QED
      BY <2>2
  <1>3. V \subseteq Nat /\ V # {} /\ x \in V
    BY <1>1
  <1>4. \A i \in DOMAIN r : Part(r, i) <= y => Part(r, i) \in V
    BY <1>1
  <1>5. \A v \in V : v = x \/ \E i \in DOMAIN r : Part(r, i) <= y /\ v = Part(r, i)
    BY <1>1
  <1>6. MaxUpTo(r, x, y) = Max(V)
    BY DEF MaxUpTo
  <1> HIDE DEF V
  <1>7. PICK m \in Nat : \A v \in V : v <= m
    <2>1. x + n \in Nat /\ \A v \in V : v <= x + n
      BY <1>1, <1>2, <1>5
    <2> QED
      BY <2>1
  <1>8. Max(V) \in V /\ \A v \in V : Max(V) >= v
    BY <1>3, <1>7, MaxIs
  <1> QED
    BY <1>3, <1>4, <1>5, <1>6, <1>8

\* Between two thresholds of which one has the mass q and the other has not there are
\* probabilities; the pass finds the smallest and the largest of them.
Bracket(r, x, y, q, mn, mx) ==
  /\ x < y /\ x < mn /\ mn <= mx /\ mx <= y
  /\ Mass(r, x) > Mass(r, mn) /\ Mass(r, mn) >= Mass(r, mx) /\ Mass(r, mx) = Mass(r, y)
  /\ \E i \in DOMAIN r : mn = Part(r, i)
  /\ \E i \in DOMAIN r : mx = Part(r, i)

\* A pass over an interval that has mass q below and not above brackets the threshold.
LEMMA PassFinds ==
  ASSUME NEW r \in Rows, NEW x \in Nat, NEW y \in Nat, NEW q \in Nat,
         Mass(r, x) >= q, Mass(r, y) < q,
         NEW mn, mn = MinAbove(r, x, y), NEW mx, mx = MaxUpTo(r, x, y)
  PROVE  Bracket(r, x, y, q, mn, mx)
  <1>1. \A i \in DOMAIN r : Part(r, i) \in Nat
    BY Parts
  <1>2. Mass(r, x) \in Nat /\ Mass(r, y) \in Nat
    BY MassFalls
  <1>3. x < y
    <2>1. y <= x => Mass(r, x) <= Mass(r, y)
      BY MassFalls
    <2> QED
      BY <1>2, <2>1
  <1>4. PICK k \in DOMAIN r : x < Part(r, k) /\ Part(r, k) <= y
    <2>1. SUFFICES ASSUME \A k \in DOMAIN r : ~(x < Part(r, k) /\ Part(r, k) <= y) PROVE FALSE
      OBVIOUS
    <2>2. \A k \in DOMAIN r : Part(r, k) > x <=> Part(r, k) > y
      BY <1>1, <1>3, <2>1
    <2>3. Above(r, x) = Above(r, y)
      BY <2>2 DEF Above, Part
    <2>4. Mass(r, x) = Mass(r, y)
      BY <2>3, MassFalls
    <2> QED
      BY <1>2, <2>4
  <1>5. /\ mn \in Nat /\ mn <= y /\ \A i \in DOMAIN r : Part(r, i) > x => mn <= Part(r, i)
        /\ mn = y \/ \E i \in DOMAIN r : Part(r, i) > x /\ mn = Part(r, i)
    BY MinAboveIs
  <1>6. /\ mx \in Nat /\ mx >= x /\ \A i \in DOMAIN r : Part(r, i) <= y => mx >= Part(r, i)
        /\ mx = x \/ \E i \in DOMAIN r : Part(r, i) <= y /\ mx = Part(r, i)
    BY MaxUpToIs
  <1>7. mn <= Part(r, k) /\ Part(r, k) <= mx /\ Part(r, k) \in Nat
    BY <1>1, <1>4, <1>5, <1>6
  <1>8. PICK i \in DOMAIN r : mn = Part(r, i) /\ x < Part(r, i)
    <2>1. CASE mn = y
      BY <1>4, <1>7, <2>1
    <2>2. CASE \E i \in DOMAIN r : Part(r, i) > x /\ mn = Part(r, i)
      BY <1>1, <2>2
    <2> QED
      BY <1>5, <2>1, <2>2
  <1>9. PICK j \in DOMAIN r : mx = Part(r, j) /\ Part(r, j) <= y
    BY <1>4, <1>6, <1>7
  <1>10. x < mn /\ mn <= mx /\ mx <= y
    BY <1>5, <1>6, <1>7, <1>8, <1>9
  <1>11. Mass(r, mn) \in Nat /\ Mass(r, mx) \in Nat /\ r[i] \in Nat /\ r[i] > 0
    <2>1. Part(r, i) > 0
      BY <1>5, <1>8
    <2> QED
      BY <1>5, <1>6, <2>1, MassFalls, Parts
  <1>12. Mass(r, mn) + r[i] <= Mass(r, x)
    <2>1. mn <= mn
      BY <1>5
    <2> QED
      BY <1>5, <1>8, <2>1, MassFalls
  <1>13. Mass(r, mx) <= Mass(r, mn)
    BY <1>5, <1>6, <1>10, MassFalls
  <1>14. Mass(r, mx) = Mass(r, y)
    <2>1. \A l \in DOMAIN r : Part(r, l) > mx <=> Part(r, l) > y
      BY <1>1, <1>6, <1>10
    <2>2. Above(r, mx) = Above(r, y)
      BY <2>1 DEF Above, Part
    <2> QED
      BY <1>6, <2>2, MassFalls
  <1> QED
    BY <1>2, <1>3, <1>8, <1>9, <1>10, <1>11, <1>12, <1>13, <1>14 DEF Bracket

-----------------------------------------------------------------------------
(* The searches *)

\* What holds of the interval between two passes: the lower bound has the mass, if the row has
\* it, and the upper bound has not, if it started from the maximum.
SearchInv ==
  /\ kernel \in {"TopPMask", "TopPReturnMask", "Sort"} /\ pc \in {"scan", "narrow", "done"}
  /\ row \in Rows /\ p \in Nat \ {0}
  /\ low \in Nat /\ high \in Nat /\ low <= high
  /\ kernel # "Sort" /\ pc # "done" =>
       /\ p <= Total(row) => Mass(row, low) >= p
       /\ p > Total(row) => low = 0
       /\ p <= Total(row) /\ StartsFromMax => Mass(row, high) < p
       /\ pc = "narrow" => /\ min_gt_low = MinAbove(row, low, high)
                           /\ max_le_high = MaxUpTo(row, low, high)

\* The first interval.
LEMMA InitSearch ==
  ASSUME Init
  PROVE  SearchInv
  <1>1. PICK r \in Rows, short \in Shortfall : \E q \in 1 .. Total(r) + short :
          StartTopPMask(r, q, Total(r) + short) \/ StartTopPReturnMask(r, q) \/ StartSort(r, q)
    BY DEF Init
  <1>2. PICK q \in 1 .. Total(r) + short :
          StartTopPMask(r, q, Total(r) + short) \/ StartTopPReturnMask(r, q) \/ StartSort(r, q)
    BY <1>1
  <1>3. row = r /\ p = q /\ low = 0
    BY <1>2 DEF StartTopPMask, StartTopPReturnMask, StartSort
  <1>4. Total(r) \in Nat /\ short \in Nat
    BY MassFalls DEF Total, Shortfall
  <1>5. q \in Nat \ {0}
    BY <1>4
  <1>6. MaxValue(r) \in Nat /\ Mass(r, MaxValue(r)) = 0
    BY MaxValueMass
  <1>7. r[1] * Scale \in Nat
    <2>1. 1 \in DOMAIN r
      BY RowWeights
    <2> QED
      BY <2>1, Parts DEF Part
  <1>8. Mass(r, 0) >= q <=> q <= Total(r)
    BY <1>4, <1>5 DEF Total
  <1>9. /\ kernel \in {"TopPMask", "TopPReturnMask", "Sort"} /\ pc \in {"scan", "done"}
        /\ high \in Nat
        /\ kernel = "TopPMask" => high = MaxValue(r)
        /\ kernel = "TopPReturnMask" => high = r[1] * Scale
    BY <1>2, <1>6, <1>7 DEF StartTopPMask, StartTopPReturnMask, StartSort
  <1>10. ASSUME kernel # "Sort", StartsFromMax PROVE Mass(row, high) < p
    <2>1. high = MaxValue(r)
      BY <1>3, <1>9, <1>10 DEF StartsFromMax
    <2> QED
      BY <1>3, <1>5, <1>6, <2>1
  <1>11. low \in Nat /\ low <= high
    BY <1>3, <1>9
  <1> QED
    BY <1>3, <1>5, <1>8, <1>9, <1>10, <1>11 DEF SearchInv

\* A pass over the row.
LEMMA ScanKeeps ==
  ASSUME SearchInv, Scan
  PROVE  SearchInv'
  <1>1. /\ pc = "scan" /\ pc' = "narrow" /\ kernel # "Sort"
        /\ min_gt_low' = MinAbove(row, low, high) /\ max_le_high' = MaxUpTo(row, low, high)
        /\ kernel' = kernel /\ row' = row /\ p' = p /\ low' = low /\ high' = high
    BY DEF Scan
  <1>2. StartsFromMax' <=> StartsFromMax
    BY <1>1 DEF StartsFromMax
  <1> QED
    BY <1>1, <1>2 DEF SearchInv

\* The interval <<a, c>> follows the interval of this pass.
Narrowed(a, c) ==
  /\ a \in Nat /\ c \in Nat /\ low <= a /\ a <= c
  /\ p <= Total(row) => Mass(row, a) >= p
  /\ p > Total(row) => a = 0
  /\ p <= Total(row) /\ StartsFromMax => Mass(row, c) < p

\* The facts about a pass that both kernels use.
LEMMA Pass ==
  ASSUME SearchInv, pc = "narrow", kernel # "Sort"
  PROVE  /\ row \in Rows /\ p \in Nat /\ low \in Nat /\ high \in Nat /\ low <= high
         /\ max_le_high \in Nat /\ low <= max_le_high
         /\ p <= Total(row) => Mass(row, low) >= p
         /\ p > Total(row) => low = 0
         /\ p <= Total(row) /\ StartsFromMax =>
              /\ Mass(row, high) < p /\ Mass(row, max_le_high) < p
              /\ Bracket(row, low, high, p, min_gt_low, max_le_high)
         /\ Total(row) \in Nat
         /\ \A x \in Nat : Mass(row, x) \in Nat /\ Mass(row, x) <= Total(row)
  <1>1. /\ row \in Rows /\ p \in Nat /\ low \in Nat /\ high \in Nat /\ low <= high
        /\ min_gt_low = MinAbove(row, low, high) /\ max_le_high = MaxUpTo(row, low, high)
        /\ p <= Total(row) => Mass(row, low) >= p
        /\ p > Total(row) => low = 0
        /\ p <= Total(row) /\ StartsFromMax => Mass(row, high) < p
    BY DEF SearchInv
  <1>2. max_le_high \in Nat /\ low <= max_le_high
    BY <1>1, MaxUpToIs
  <1>3. ASSUME p <= Total(row), StartsFromMax
        PROVE  Bracket(row, low, high, p, min_gt_low, max_le_high) /\ Mass(row, max_le_high) < p
    <2>1. Bracket(row, low, high, p, min_gt_low, max_le_high)
      BY <1>1, <1>3, PassFinds
    <2>2. Mass(row, max_le_high) = Mass(row, high)
      BY <2>1 DEF Bracket
    <2> QED
      BY <1>1, <1>3, <2>1, <2>2
  <1>4. \A x \in Nat : Mass(row, x) \in Nat /\ Mass(row, x) <= Mass(row, 0)
    BY <1>1, MassFalls
  <1>5. Total(row) = Mass(row, 0)
    BY DEF Total
  <1> QED
    BY <1>1, <1>2, <1>3, <1>4, <1>5

\* The ternary search narrows the interval.
LEMMA ThirdsNarrow ==
  ASSUME SearchInv, pc = "narrow", kernel = "TopPMask"
  PROVE  Narrowed(Thirds[1], Thirds[2])
  <1>1. /\ row \in Rows /\ p \in Nat /\ low \in Nat /\ high \in Nat /\ low <= high
        /\ max_le_high \in Nat /\ low <= max_le_high
        /\ p <= Total(row) => Mass(row, low) >= p
        /\ p > Total(row) => low = 0
        /\ p <= Total(row) /\ StartsFromMax => Mass(row, high) < p /\ Mass(row, max_le_high) < p
        /\ Total(row) \in Nat
        /\ \A x \in Nat : Mass(row, x) \in Nat /\ Mass(row, x) <= Total(row)
    BY Pass
  <1>2. StartsFromMax
    BY DEF StartsFromMax
  <1>3. PICK u, v, w : u = pivot_0 /\ v = pivot_1 /\ w = max_le_high
    OBVIOUS
  <1>4. u \in Nat /\ v \in Nat /\ low <= u /\ u <= v /\ v <= high
    BY <1>1, <1>3 DEF pivot_0, pivot_1
  <1>5. CASE Mass(row, v) >= p
    <2>1. Thirds = <<v, high>>
      BY <1>1, <1>3, <1>4, <1>5 DEF Thirds
    <2>2. p <= Total(row)
      BY <1>1, <1>4, <1>5
    <2>3. Narrowed(v, high)
      BY <1>1, <1>2, <1>4, <1>5, <2>2 DEF Narrowed
    <2> QED
      BY <2>1, <2>3
  <1>6. CASE Mass(row, v) < p /\ Mass(row, u) >= p
    <2>1. PICK m : m = Min({v, w})
      OBVIOUS
    <2>2. Thirds = <<u, m>>
      BY <1>1, <1>3, <1>4, <1>6, <2>1 DEF Thirds
    <2>3. m \in {v, w} /\ m \in Nat
      BY <1>1, <1>3, <1>4, <2>1, MinOfTwo
    <2>4. p <= Total(row)
      BY <1>1, <1>4, <1>6
    <2>5. Mass(row, m) < p
      BY <1>1, <1>2, <1>3, <1>6, <2>3, <2>4
    <2>6. u <= m
      <3>1. m <= u => Mass(row, u) <= Mass(row, m)
        BY <1>1, <1>4, <2>3, MassFalls
      <3>2. Mass(row, m) \in Nat /\ Mass(row, u) \in Nat
        BY <1>1, <1>4, <2>3
      <3> QED
        BY <1>1, <1>4, <1>6, <2>3, <2>5, <3>1, <3>2
    <2>7. Narrowed(u, m)
      BY <1>1, <1>4, <1>6, <2>3, <2>4, <2>5, <2>6 DEF Narrowed
    <2> QED
      BY <2>2, <2>7
  <1>7. CASE Mass(row, v) < p /\ ~(Mass(row, u) >= p)
    <2>1. PICK m : m = Min({u, w})
      OBVIOUS
    <2>2. Thirds = <<low, m>>
      <3>1. ~(Mass(row, v) >= p)
        BY <1>1, <1>4, <1>7
      <3> QED
        BY <1>3, <1>7, <2>1, <3>1 DEF Thirds
    <2>3. m \in {u, w} /\ m \in Nat
      BY <1>1, <1>3, <1>4, <2>1, MinOfTwo
    <2>4. p <= Total(row) => Mass(row, m) < p
      BY <1>1, <1>2, <1>3, <1>4, <1>7, <2>3
    <2>5. low <= m
      BY <1>1, <1>3, <1>4, <2>3
    <2>6. Narrowed(low, m)
      BY <1>1, <2>3, <2>4, <2>5 DEF Narrowed
    <2> QED
      BY <2>2, <2>6
  <1>8. Mass(row, v) \in Nat
    BY <1>1, <1>4
  <1> QED
    BY <1>1, <1>5, <1>6, <1>7, <1>8

\* The bisection narrows the interval, also when it does not start from the maximum.
LEMMA HalvesNarrow ==
  ASSUME SearchInv, pc = "narrow", kernel = "TopPReturnMask"
  PROVE  Narrowed(Halves[1], Halves[2])
  <1>1. /\ row \in Rows /\ p \in Nat /\ low \in Nat /\ high \in Nat /\ low <= high
        /\ max_le_high \in Nat /\ low <= max_le_high
        /\ p <= Total(row) => Mass(row, low) >= p
        /\ p > Total(row) => low = 0
        /\ p <= Total(row) /\ StartsFromMax => Mass(row, high) < p /\ Mass(row, max_le_high) < p
        /\ Total(row) \in Nat
        /\ \A x \in Nat : Mass(row, x) \in Nat /\ Mass(row, x) <= Total(row)
    BY Pass
  <1>2. PICK u, w : u = mid /\ w = max_le_high
    OBVIOUS
  <1>3. u \in Nat /\ low <= u /\ u <= high
    BY <1>1, <1>2 DEF mid
  <1>4. CASE Mass(row, u) >= p
    <2>1. Halves = <<u, high>>
      BY <1>2, <1>4 DEF Halves
    <2>2. p <= Total(row)
      BY <1>1, <1>3, <1>4
    <2>3. Narrowed(u, high)
      BY <1>1, <1>3, <1>4, <2>2 DEF Narrowed
    <2> QED
      BY <2>1, <2>3
  <1>5. CASE ~(Mass(row, u) >= p)
    <2>1. PICK m : m = Min({u, w})
      OBVIOUS
    <2>2. Halves = <<low, m>>
      BY <1>2, <1>5, <2>1 DEF Halves
    <2>3. m \in {u, w} /\ m \in Nat
      BY <1>1, <1>2, <1>3, <2>1, MinOfTwo
    <2>4. Mass(row, u) < p
      BY <1>1, <1>3, <1>5
    <2>5. p <= Total(row) /\ StartsFromMax => Mass(row, m) < p
      BY <1>1, <1>2, <2>3, <2>4
    <2>6. low <= m
      BY <1>1, <1>2, <1>3, <2>3
    <2>7. Narrowed(low, m)
      BY <1>1, <2>3, <2>5, <2>6 DEF Narrowed
    <2> QED
      BY <2>2, <2>7
  <1> QED
    BY <1>4, <1>5

-----------------------------------------------------------------------------
(* What is selected *)

\* SearchSelects and SortSelects, of any row r, mass q and mask m.
Chosen(r, q, m, fromMax, slack) ==
  IF q <= Total(r)
  THEN LET sel == {i \in m : r[i] > 0}
       IN  /\ \A i \in sel, j \in DOMAIN r \ m : r[i] > r[j]
           /\ Sum(r, sel) >= q
           /\ fromMax => IsTopP(r, sel, q, slack)
  ELSE Above(r, 0) \subseteq m

SortChosen(r, q, m) ==
  /\ m # {}
  /\ \A i \in m, j \in DOMAIN r \ m : r[i] >= r[j]
  /\ Sum(r, m) <= q \/ \E i \in m : m = {i}
  /\ q <= Total(r) => \E i \in DOMAIN r : Sum(r, m \cup {i}) >= q

\* The reference definition in terms of Sum.
LEMMA IsTopPSum ==
  ASSUME NEW r, NEW s, NEW q, NEW slack,
         \A i \in s, j \in DOMAIN r \ s : r[i] > r[j],
         Sum(r, s) >= q,
         \A k \in s : Sum(r, {i \in s : Part(r, i) > Part(r, k) + slack}) < q
  PROVE  IsTopP(r, s, q, slack)
  BY Zenon DEF IsTopP, Sum, Part

\* A threshold a within the interval, if the pass found probabilities within slack in it.
LEMMA ThresholdChooses ==
  ASSUME NEW r \in Rows, NEW q \in Nat, NEW x \in Nat, NEW y \in Nat, NEW mn, NEW mx, NEW a \in Nat,
         NEW fromMax \in BOOLEAN, NEW slack \in Nat, x <= a,
         q <= Total(r) => Mass(r, a) >= q,
         q > Total(r) => a = 0,
         q <= Total(r) /\ fromMax =>
           /\ Bracket(r, x, y, q, mn, mx) /\ mn = MinAbove(r, x, y)
           /\ mx - mn <= slack /\ Mass(r, mx) < q
  PROVE  Chosen(r, q, Above(r, a), fromMax, slack)
  <1>1. PICK A : A = Above(r, a)
    OBVIOUS
  <1>2. /\ A \in SUBSET DOMAIN r
        /\ \A i \in DOMAIN r : i \in A <=> Part(r, i) > a
        /\ \A i \in DOMAIN r : Part(r, i) \in Nat /\ r[i] \in Nat
    BY <1>1, Parts DEF Above, Part
  <1>3. ASSUME NEW i \in A PROVE r[i] > 0
    <2>1. Part(r, i) > 0
      BY <1>2, <1>3
    <2> QED
      BY <1>2, <1>3, <2>1, Parts
  <1>4. {i \in A : r[i] > 0} = A
    BY <1>3
  <1>5. ASSUME NEW i \in A, NEW j \in DOMAIN r \ A PROVE r[i] > r[j]
    <2>1. i \in DOMAIN r /\ j \in DOMAIN r /\ Part(r, i) > Part(r, j)
      BY <1>2, <1>5
    <2> QED
      BY <2>1, Parts
  <1>6. Mass(r, a) = Sum(r, A) /\ Sum(r, A) \in Nat
    BY <1>1, MassSum, MassFalls
  <1>7. ASSUME q <= Total(r), fromMax PROVE IsTopP(r, A, q, slack)
    <2>1. mx - mn <= slack /\ Mass(r, mx) < q /\ mn = MinAbove(r, x, y)
      BY <1>7
    <2>2. mn \in Nat /\ \A i \in DOMAIN r : Part(r, i) > x => mn <= Part(r, i)
      BY <2>1, MinAboveIs
    <2>3. mx \in Nat
      <3>1. \E i \in DOMAIN r : mx = Part(r, i)
        BY <1>7 DEF Bracket
      <3> QED
        BY <1>2, <3>1
    <2>4. ASSUME NEW k \in A PROVE Sum(r, {i \in A : Part(r, i) > Part(r, k) + slack}) < q
      <3>1. k \in DOMAIN r /\ mn <= Part(r, k) /\ Part(r, k) \in Nat
        BY <1>2, <2>2
      <3>2. PICK S, B : S = {i \in A : Part(r, i) > Part(r, k) + slack} /\ B = Above(r, mx)
        OBVIOUS
      <3>3. ASSUME NEW i \in S PROVE i \in B
        <4>1. i \in A /\ i \in DOMAIN r /\ Part(r, i) > Part(r, k) + slack /\ Part(r, i) \in Nat
          BY <1>2, <3>2
        <4>2. Part(r, i) > mx
          BY <2>1, <2>2, <2>3, <3>1, <4>1
        <4> QED
          BY <3>2, <4>1, <4>2 DEF Above, Part
      <3>4. B \in SUBSET DOMAIN r /\ Sum(r, B) = Mass(r, mx) /\ Mass(r, mx) \in Nat
        BY <2>3, <3>2, MassSum, MassFalls
      <3>5. Sum(r, S) <= Sum(r, B)
        <4>1. Weights(r, DOMAIN r)
          BY RowWeights
        <4> QED
          BY <3>3, <3>4, <4>1, SumMonotone
      <3>6. Sum(r, S) \in Nat
        <4>1. Weights(r, DOMAIN r) /\ S \in SUBSET DOMAIN r
          BY <1>2, <3>2, RowWeights
        <4> QED
          BY <4>1, SumNat
      <3>7. Sum(r, S) < q
        <4>1. PICK s, m : s = Sum(r, S) /\ m = Mass(r, mx)
          OBVIOUS
        <4>2. s \in Nat /\ m \in Nat /\ s <= m /\ m < q
          BY <2>1, <3>4, <3>5, <3>6, <4>1
        <4>3. s < q
          BY <4>2
        <4> QED
          BY <4>1, <4>3
      <3> QED
        BY <3>2, <3>7
    <2>5. Sum(r, A) >= q
      BY <1>6, <1>7
    <2> QED
      BY <1>5, <2>4, <2>5, IsTopPSum
  <1>8. CASE q <= Total(r)
    <2>1. Sum(r, A) >= q
      BY <1>6, <1>8
    <2>2. fromMax => IsTopP(r, A, q, slack)
      BY <1>7, <1>8
    <2> QED
      BY <1>1, <1>4, <1>5, <1>8, <2>1, <2>2 DEF Chosen
  <1>9. CASE ~(q <= Total(r))
    <2>1. Total(r) \in Nat
      BY MassFalls DEF Total
    <2>2. a = 0
      BY <1>9, <2>1
    <2> QED
      BY <1>9, <2>2 DEF Chosen
  <1> QED
    BY <1>8, <1>9

\* "all tokens are selected": the fast path of TopPMaskKernel.
LEMMA AllChosen ==
  ASSUME NEW r \in Rows, NEW q \in Nat, q >= Total(r), NEW fromMax \in BOOLEAN, NEW slack \in Nat
  PROVE  Chosen(r, q, DOMAIN r, fromMax, slack)
  <1>1. PICK A : A = Above(r, 0)
    OBVIOUS
  <1>2. A \in SUBSET DOMAIN r /\ Total(r) = Sum(r, A) /\ Sum(r, A) \in Nat
    BY <1>1, MassSum, MassFalls DEF Total
  <1>3. \A i \in DOMAIN r : (i \in A <=> r[i] > 0) /\ r[i] \in Nat
    <2>1. ASSUME NEW i \in DOMAIN r PROVE (i \in A <=> r[i] > 0) /\ r[i] \in Nat
      <3>1. i \in A <=> Part(r, i) > 0
        BY <1>1 DEF Above, Part
      <3> QED
        BY <3>1, Parts
    <2> QED
      BY <2>1
  <1>4. {i \in DOMAIN r : r[i] > 0} = A
    BY <1>2, <1>3
  <1>5. ASSUME q <= Total(r) PROVE IsTopP(r, A, q, slack)
    <2>1. q = Sum(r, A)
      BY <1>2, <1>5
    <2>2. ASSUME NEW i \in A, NEW j \in DOMAIN r \ A PROVE r[i] > r[j]
      <3>1. r[i] \in Nat /\ r[j] \in Nat /\ r[i] > 0 /\ ~(r[j] > 0)
        BY <1>2, <1>3, <2>2
      <3> QED
        BY <3>1
    <2>3. ASSUME NEW k \in A PROVE Sum(r, {i \in A : Part(r, i) > Part(r, k) + slack}) < q
      <3>1. k \in DOMAIN r /\ Part(r, k) \in Nat
        BY <1>2, Parts
      <3>2. PICK S : S = {i \in A : Part(r, i) > Part(r, k) + slack}
        OBVIOUS
      <3>3. r[k] \in Nat /\ r[k] > 0 /\ S \subseteq A /\ k \notin S /\ S \in SUBSET DOMAIN r
        BY <1>2, <1>3, <3>1, <3>2
      <3>4. Weights(r, DOMAIN r)
        BY RowWeights
      <3>5. Sum(r, S) + r[k] <= Sum(r, A) /\ Sum(r, S) \in Nat
        BY <1>2, <3>1, <3>3, <3>4, SumMore, SumNat
      <3>6. Sum(r, S) < q
        BY <1>2, <2>1, <3>3, <3>5
      <3> QED
        BY <3>2, <3>6
    <2>4. Sum(r, A) >= q
      BY <1>2, <2>1
    <2> QED
      BY <2>2, <2>3, <2>4, IsTopPSum
  <1>6. CASE q <= Total(r)
    <2>1. Sum(r, A) >= q
      BY <1>2, <1>6
    <2> QED
      BY <1>4, <1>5, <1>6, <2>1 DEF Chosen
  <1>7. CASE ~(q <= Total(r))
    BY <1>1, <1>2, <1>7 DEF Chosen
  <1> QED
    BY <1>6, <1>7

-----------------------------------------------------------------------------
(* The loop invariant *)

\* The end of a pass leaves the interval that follows.
LEMMA NarrowKeeps ==
  ASSUME SearchInv, pc = "narrow", kernel # "Sort", NEW a, NEW c, Narrowed(a, c),
         low' = a, high' = c, pc' \in {"scan", "done"}, UNCHANGED <<kernel, row, p>>
  PROVE  SearchInv'
  <1>1. kernel' = kernel /\ row' = row /\ p' = p
    OBVIOUS
  <1>2. StartsFromMax' <=> StartsFromMax
    BY <1>1 DEF StartsFromMax
  <1>3. /\ kernel \in {"TopPMask", "TopPReturnMask", "Sort"}
        /\ row \in Rows /\ p \in Nat \ {0}
    BY DEF SearchInv
  <1>4. /\ a \in Nat /\ c \in Nat /\ a <= c
        /\ p <= Total(row) => Mass(row, a) >= p
        /\ p > Total(row) => a = 0
        /\ p <= Total(row) /\ StartsFromMax => Mass(row, c) < p
    BY DEF Narrowed
  <1> QED
    BY <1>1, <1>2, <1>3, <1>4 DEF SearchInv

\* Every step of the kernels keeps what is known of the interval.
LEMMA SearchStep ==
  ASSUME SearchInv, [Next]_vars
  PROVE  SearchInv'
  <1>1. CASE Scan
    BY <1>1, ScanKeeps
  <1>2. CASE NarrowTopPMask
    <2>1. /\ kernel = "TopPMask" /\ pc = "narrow" /\ low' = Thirds[1] /\ high' = Thirds[2]
          /\ pc' \in {"scan", "done"} /\ UNCHANGED <<kernel, row, p>>
      BY <1>2 DEF NarrowTopPMask
    <2>2. Narrowed(Thirds[1], Thirds[2])
      BY <2>1, ThirdsNarrow
    <2>3. PICK a, c : a = Thirds[1] /\ c = Thirds[2]
      OBVIOUS
    <2>4. Narrowed(a, c) /\ low' = a /\ high' = c /\ kernel # "Sort"
      BY <2>1, <2>2, <2>3
    <2> QED
      BY <2>1, <2>4, NarrowKeeps
  <1>3. CASE NarrowTopPReturnMask
    <2>1. /\ kernel = "TopPReturnMask" /\ pc = "narrow" /\ low' = Halves[1] /\ high' = Halves[2]
          /\ pc' \in {"scan", "done"} /\ UNCHANGED <<kernel, row, p>>
      BY <1>3 DEF NarrowTopPReturnMask
    <2>2. Narrowed(Halves[1], Halves[2])
      BY <2>1, HalvesNarrow
    <2>3. PICK a, c : a = Halves[1] /\ c = Halves[2]
      OBVIOUS
    <2>4. Narrowed(a, c) /\ low' = a /\ high' = c /\ kernel # "Sort"
      BY <2>1, <2>2, <2>3
    <2> QED
      BY <2>1, <2>4, NarrowKeeps
  <1>4. CASE SortTopP
    <2>1. /\ kernel = "Sort" /\ pc' = "done"
          /\ kernel' = kernel /\ row' = row /\ p' = p /\ low' = low /\ high' = high
      BY <1>4 DEF SortTopP
    <2> QED
      BY <2>1 DEF SearchInv
  <1>5. CASE UNCHANGED vars
    <2>1. /\ kernel' = kernel /\ row' = row /\ p' = p /\ low' = low /\ high' = high
          /\ min_gt_low' = min_gt_low /\ max_le_high' = max_le_high /\ pc' = pc
      BY <1>5 DEF vars
    <2>2. StartsFromMax' <=> StartsFromMax
      BY <2>1 DEF StartsFromMax
    <2> QED
      BY <2>1, <2>2 DEF SearchInv
  <1> QED
    BY <1>1, <1>2, <1>3, <1>4, <1>5 DEF Next, Search, Return

\* Between two passes of either search the interval is what SearchInv says.
THEOREM SearchInvHolds == Spec => []SearchInv
  <1>1. Init => SearchInv
    BY InitSearch
  <1>2. SearchInv /\ [Next]_vars => SearchInv'
    BY SearchStep
  <1> QED
    BY <1>1, <1>2, PTL DEF Spec

\* The comment of both kernels is true of rows of any length: f(low) >= p and f(high) < p
\* throughout, and f(low) > f(min_gt_low) >= f(max_le_high) = f(high) after a pass.
THEOREM LoopInvariantHolds == Spec => []LoopInvariant
  <1>1. SearchInv => LoopInvariant
    <2>1. SUFFICES ASSUME SearchInv, kernel # "Sort", pc # "done", p <= Total(row), StartsFromMax
                   PROVE  /\ Mass(row, low) >= p /\ Mass(row, high) < p
                          /\ pc = "narrow" =>
                               /\ Mass(row, low) > Mass(row, min_gt_low)
                               /\ Mass(row, min_gt_low) >= Mass(row, max_le_high)
                               /\ Mass(row, max_le_high) = Mass(row, high)
      BY DEF LoopInvariant
    <2>2. Mass(row, low) >= p /\ Mass(row, high) < p
      BY <2>1 DEF SearchInv
    <2>3. ASSUME pc = "narrow"
          PROVE  /\ Mass(row, low) > Mass(row, min_gt_low)
                 /\ Mass(row, min_gt_low) >= Mass(row, max_le_high)
                 /\ Mass(row, max_le_high) = Mass(row, high)
      <3>1. Bracket(row, low, high, p, min_gt_low, max_le_high)
        BY <2>1, <2>3, Pass
      <3> QED
        BY <3>1 DEF Bracket
    <2> QED
      BY <2>2, <2>3
  <1> QED
    BY <1>1, SearchInvHolds, PTL

-----------------------------------------------------------------------------
(* The sort of the Python selector *)

\* A sequence of the tokens, each once, has all of them.
LEMMA OrderComplete ==
  ASSUME NEW d \in Nat \ {0}, NEW order \in SetToSeqs(1 .. d)
  PROVE  /\ order \in [1 .. d -> 1 .. d]
         /\ \A t \in 1 .. d : \E i \in 1 .. d : order[i] = t
  <1>1. IsFiniteSet(1 .. d) /\ Cardinality(1 .. d) = d
    BY FS_Interval
  <1>2. /\ order \in [1 .. d -> 1 .. d]
        /\ \A i, j \in 1 .. d : i # j => order[i] # order[j]
    BY <1>1 DEF SetToSeqs
  <1>3. order \in Injection(1 .. d, 1 .. d)
    BY <1>2 DEF Injection, IsInjective
  <1>4. order \in Surjection(1 .. d, 1 .. d)
    BY <1>1, <1>3, FS_Injection
  <1> QED
    BY <1>2, <1>4 DEF Surjection

\* The first k tokens of an order.
First(order, k) == {order[i] : i \in 1 .. k}

\* The positions that the sort keeps are the first ones.
LEMMA KeptPrefix ==
  ASSUME NEW r \in Rows, NEW q \in Nat, NEW d \in Nat \ {0}, DOMAIN r = 1 .. d,
         NEW order \in [1 .. d -> 1 .. d], NEW K,
         K = {1} \cup {j \in 1 .. d : Sum(r, First(order, j)) <= q}
  PROVE  \E m \in 1 .. d : /\ K = 1 .. m
                           /\ m = 1 \/ Sum(r, First(order, m)) <= q
                           /\ m < d => ~(Sum(r, First(order, m + 1)) <= q)
  <1>1. Weights(r, 1 .. d)
    BY RowWeights
  <1>2. /\ \A j \in 1 .. d : First(order, j) \in SUBSET (1 .. d)
        /\ \A i, j \in 1 .. d : i <= j => First(order, i) \subseteq First(order, j)
    BY DEF First
  <1>3. \A j \in 1 .. d : Sum(r, First(order, j)) \in Nat
    BY <1>1, <1>2, SumNat
  <1>4. \A i, j \in 1 .. d : i <= j => Sum(r, First(order, i)) <= Sum(r, First(order, j))
    BY <1>1, <1>2, SumMonotone
  <1>5. K \subseteq Nat /\ K # {} /\ \A x \in K : x <= d
    OBVIOUS
  <1>6. PICK m : m \in K /\ \A y \in K : m >= y
    BY <1>5, MaxIs
  <1>7. m \in 1 .. d /\ (m = 1 \/ Sum(r, First(order, m)) <= q)
    BY <1>6
  <1>8. ASSUME NEW j \in 1 .. m PROVE j \in K
    <2>1. CASE m = 1
      BY <2>1
    <2>2. CASE Sum(r, First(order, m)) <= q
      <3>1. j \in 1 .. d /\ j <= m
        BY <1>7
      <3>2. PICK s, t : s = Sum(r, First(order, j)) /\ t = Sum(r, First(order, m))
        OBVIOUS
      <3>3. s \in Nat /\ t \in Nat /\ s <= t /\ t <= q
        BY <1>3, <1>4, <1>7, <2>2, <3>1, <3>2
      <3>4. s <= q
        BY <3>3
      <3> QED
        BY <3>1, <3>2, <3>4
    <2> QED
      BY <1>7, <2>1, <2>2
  <1>9. ASSUME NEW j \in K PROVE j \in 1 .. m
    <2>1. j \in 1 .. d /\ j <= m
      BY <1>6
    <2> QED
      BY <1>7, <2>1
  <1>10. K = 1 .. m
    BY <1>8, <1>9
  <1>11. m < d => ~(Sum(r, First(order, m + 1)) <= q)
    <2>1. ASSUME m < d, Sum(r, First(order, m + 1)) <= q PROVE FALSE
      <3>1. m + 1 \in 1 .. d /\ ~(m >= m + 1)
        BY <1>7, <2>1
      <3>2. m + 1 \in K
        BY <2>1, <3>1
      <3> QED
        BY <1>6, <3>1, <3>2
    <2> QED
      BY <2>1
  <1> QED
    BY <1>7, <1>10, <1>11

\* The first tokens of a sorted row are what SortSelects says.
LEMMA SortChooses ==
  ASSUME NEW r \in Rows, NEW q \in Nat, NEW order \in SetToSeqs(DOMAIN r),
         \A i, j \in DOMAIN order : i < j => r[order[i]] >= r[order[j]],
         NEW S,
         S = {order[k] : k \in {1} \cup {j \in DOMAIN order : Sum(r, First(order, j)) <= q}}
  PROVE  SortChosen(r, q, S)
  <1>1. PICK d \in Nat \ {0} : DOMAIN r = 1 .. d
    BY RowWeights
  <1>2. order \in [1 .. d -> 1 .. d] /\ \A t \in 1 .. d : \E i \in 1 .. d : order[i] = t
    BY <1>1, OrderComplete
  <1>3. Weights(r, 1 .. d) /\ \A i \in 1 .. d : r[i] \in Nat
    BY <1>1, RowWeights, Parts
  <1>4. PICK K : K = {1} \cup {j \in 1 .. d : Sum(r, First(order, j)) <= q}
    OBVIOUS
  <1>5. DOMAIN order = 1 .. d
    BY <1>2
  <1>6. S = {order[k] : k \in K}
    BY <1>4, <1>5
  <1>7. PICK m \in 1 .. d : /\ K = 1 .. m
                            /\ m = 1 \/ Sum(r, First(order, m)) <= q
                            /\ m < d => ~(Sum(r, First(order, m + 1)) <= q)
    BY <1>1, <1>2, <1>4, KeptPrefix
  <1>8. S = First(order, m)
    BY <1>6, <1>7 DEF First
  <1>9. S \in SUBSET (1 .. d) /\ order[1] \in S /\ S # {}
    <2>1. \A t : t \in S <=> \E i \in 1 .. m : t = order[i]
      BY <1>8, Zenon DEF First
    <2>2. \A i \in 1 .. m : i \in 1 .. d
      BY <1>7
    <2>3. \A i \in 1 .. m : order[i] \in 1 .. d
      BY <1>2, <2>2
    <2>4. 1 \in 1 .. m
      BY <1>7
    <2>5. \A t \in S : t \in 1 .. d
      BY <2>1, <2>3, Zenon
    <2>6. order[1] \in S
      BY <2>1, <2>4, Zenon
    <2> QED
      BY <2>5, <2>6, Zenon
  <1>10. ASSUME NEW i \in S, NEW j \in (1 .. d) \ S PROVE r[i] >= r[j]
    <2>1. PICK a \in 1 .. m : i = order[a]
      BY <1>8 DEF First
    <2>2. PICK b \in 1 .. d : j = order[b]
      BY <1>2
    <2>3. ~(b \in 1 .. m)
      BY <1>8, <2>2 DEF First
    <2>4. a \in 1 .. d /\ a < b
      BY <1>7, <2>1, <2>2, <2>3
    <2> QED
      BY <1>5, <2>1, <2>2, <2>4
  <1>11. Sum(r, S) <= q \/ \E i \in S : S = {i}
    <2>1. CASE m = 1
      <3>1. S = {order[1]}
        <4>1. 1 .. m = {1}
          BY <2>1
        <4>2. S = {order[i] : i \in {1}}
          BY <1>8, <4>1, Zenon DEF First
        <4> QED
          BY <4>2, Zenon
      <3> QED
        BY <1>9, <3>1
    <2>2. CASE Sum(r, First(order, m)) <= q
      BY <1>8, <2>2
    <2> QED
      BY <1>7, <2>1, <2>2
  <1>12. ASSUME q <= Total(r) PROVE \E i \in 1 .. d : Sum(r, S \cup {i}) >= q
    <2>1. CASE m < d
      <3>1. PICK i : i = order[m + 1]
        OBVIOUS
      <3>2. m + 1 \in 1 .. d /\ i \in 1 .. d
        BY <1>2, <1>7, <2>1, <3>1
      <3>3. S \cup {i} = First(order, m + 1)
        <4>1. 1 .. (m + 1) = (1 .. m) \cup {m + 1}
          BY <1>7
        <4> QED
          BY <1>8, <3>1, <4>1 DEF First
      <3>4. PICK s : s = Sum(r, S \cup {i})
        OBVIOUS
      <3>5. s \in Nat
        BY <1>3, <1>9, <3>2, <3>4, SumNat
      <3>6. s >= q
        <4>1. ~(s <= q)
          BY <1>7, <2>1, <3>3, <3>4
        <4> QED
          BY <3>5, <4>1
      <3> QED
        BY <3>2, <3>4, <3>6
    <2>2. CASE ~(m < d)
      <3>1. m = d
        BY <1>7, <2>2
      <3>2. S \cup {1} = 1 .. d /\ 1 \in 1 .. d
        <4>1. ASSUME NEW t \in 1 .. d PROVE t \in S
          <5>1. PICK i \in 1 .. d : order[i] = t
            BY <1>2
          <5> QED
            BY <1>8, <3>1, <5>1, Zenon DEF First
        <4>2. 1 \in 1 .. d
          OBVIOUS
        <4> QED
          BY <1>9, <4>1, <4>2, Zenon
      <3>3. PICK A : A = Above(r, 0)
        OBVIOUS
      <3>4. A \in SUBSET (1 .. d) /\ Total(r) = Sum(r, A)
        BY <1>1, <3>3, MassSum DEF Above, Total
      <3>5. PICK s, t : s = Sum(r, A) /\ t = Sum(r, S \cup {1})
        OBVIOUS
      <3>6. s \in Nat /\ t \in Nat
        BY <1>3, <3>2, <3>4, <3>5, SumNat
      <3>7. s <= t
        BY <1>3, <3>2, <3>4, <3>5, SumMonotone
      <3>8. q <= s
        BY <1>12, <3>4, <3>5
      <3>9. t >= q
        BY <3>6, <3>7, <3>8
      <3> QED
        BY <3>2, <3>5, <3>9
    <2> QED
      BY <2>1, <2>2
  <1> QED
    BY <1>1, <1>9, <1>10, <1>11, <1>12 DEF SortChosen

-----------------------------------------------------------------------------
(* What the kernels leave in the mask *)

\* The interval at every pass, and the mask at the end.
SelectInv == SearchInv /\ SelectsTopP

\* The mask at the end of a search, when the pass found probabilities within Slack of each other
\* in the interval.
LEMMA SearchEnds ==
  ASSUME SearchInv, pc = "narrow", kernel # "Sort", NEW a, NEW c, Narrowed(a, c),
         p <= Total(row) /\ StartsFromMax => max_le_high - min_gt_low <= Slack
  PROVE  Chosen(row, p, Above(row, a), StartsFromMax, Slack)
  <1>1. PICK r, q, x, y, mn, mx, fromMax, slack :
          /\ r = row /\ q = p /\ x = low /\ y = high /\ mn = min_gt_low /\ mx = max_le_high
          /\ fromMax = StartsFromMax /\ slack = Slack
    OBVIOUS
  <1>2. fromMax \in BOOLEAN /\ slack \in Nat
    BY <1>1, EpsAssumption DEF StartsFromMax, Slack
  <1>3. /\ row \in Rows /\ p \in Nat /\ low \in Nat /\ high \in Nat
        /\ p <= Total(row) /\ StartsFromMax =>
             /\ Mass(row, max_le_high) < p
             /\ Bracket(row, low, high, p, min_gt_low, max_le_high)
    BY Pass
  <1>4. min_gt_low = MinAbove(row, low, high)
    BY DEF SearchInv
  <1>5. /\ a \in Nat /\ low <= a
        /\ p <= Total(row) => Mass(row, a) >= p
        /\ p > Total(row) => a = 0
    BY DEF Narrowed
  <1>6. /\ r \in Rows /\ q \in Nat /\ x \in Nat /\ y \in Nat /\ a \in Nat /\ x <= a
        /\ q <= Total(r) => Mass(r, a) >= q
        /\ q > Total(r) => a = 0
        /\ q <= Total(r) /\ fromMax =>
             /\ Bracket(r, x, y, q, mn, mx) /\ mn = MinAbove(r, x, y)
             /\ mx - mn <= slack /\ Mass(r, mx) < q
    BY <1>1, <1>3, <1>4, <1>5
  <1>7. Chosen(r, q, Above(r, a), fromMax, slack)
    BY <1>2, <1>6, ThresholdChooses
  <1> QED
    BY <1>1, <1>7

\* The properties in terms of Chosen and SortChosen.
LEMMA SelectsIs ==
  /\ SearchSelects <=> Chosen(row, p, mask, StartsFromMax, Slack)
  /\ SortSelects <=> SortChosen(row, p, mask)
  <1>1. SearchSelects <=> Chosen(row, p, mask, StartsFromMax, Slack)
    BY MassOfSum, Zenon DEF Chosen, SearchSelects
  <1>2. SortSelects <=> SortChosen(row, p, mask)
    BY MassOfSum, Zenon DEF SortChosen, SortSelects
  <1> QED
    BY <1>1, <1>2

\* And after a step.
LEMMA SelectsIsNext ==
  /\ SearchSelects' <=> Chosen(row', p', mask', StartsFromMax', Slack')
  /\ SortSelects' <=> SortChosen(row', p', mask')
  <1>1. (/\ SearchSelects <=> Chosen(row, p, mask, StartsFromMax, Slack)
         /\ SortSelects <=> SortChosen(row, p, mask))'
    BY SelectsIs, PTL
  <1> QED
    BY <1>1

\* The first masks: the fast path selects every token.
LEMMA InitSelects ==
  ASSUME Init
  PROVE  SelectsTopP
  <1>1. SUFFICES ASSUME pc = "done" PROVE kernel # "Sort" /\ SearchSelects
    BY DEF SelectsTopP
  <1>2. PICK r \in Rows, short \in Shortfall : \E q \in 1 .. Total(r) + short :
          StartTopPMask(r, q, Total(r) + short) \/ StartTopPReturnMask(r, q) \/ StartSort(r, q)
    BY DEF Init
  <1>3. PICK q \in 1 .. Total(r) + short :
          StartTopPMask(r, q, Total(r) + short) \/ StartTopPReturnMask(r, q) \/ StartSort(r, q)
    BY <1>2
  <1>4. StartTopPMask(r, q, Total(r) + short)
    BY <1>1, <1>3 DEF StartTopPReturnMask, StartSort
  <1>5. kernel = "TopPMask" /\ row = r /\ p = q /\ q >= Total(r) + short /\ mask = DOMAIN r
    BY <1>1, <1>4 DEF StartTopPMask
  <1>6. Total(r) \in Nat /\ short \in Nat
    BY MassFalls DEF Total, Shortfall
  <1>7. q \in Nat /\ q >= Total(r)
    BY <1>5, <1>6
  <1>8. PICK fromMax, slack : fromMax = StartsFromMax /\ slack = Slack
    OBVIOUS
  <1>9. fromMax \in BOOLEAN /\ slack \in Nat
    BY <1>8, EpsAssumption DEF StartsFromMax, Slack
  <1>10. Chosen(r, q, DOMAIN r, fromMax, slack)
    BY <1>7, <1>9, AllChosen
  <1>11. Chosen(row, p, mask, StartsFromMax, Slack)
    BY <1>5, <1>8, <1>10
  <1> QED
    BY <1>5, <1>11, SelectsIs

\* The last pass of the ternary search found one probability.
LEMMA TopPMaskSelects ==
  ASSUME SearchInv, NarrowTopPMask
  PROVE  SelectsTopP'
  <1>1. SUFFICES ASSUME pc' = "done" PROVE kernel' # "Sort" /\ SearchSelects'
    BY DEF SelectsTopP
  <1>2. /\ kernel = "TopPMask" /\ pc = "narrow" /\ low' = Thirds[1]
        /\ min_gt_low = max_le_high /\ mask' = Above(row, low')
        /\ kernel' = kernel /\ row' = row /\ p' = p
    BY <1>1 DEF NarrowTopPMask
  <1>3. Narrowed(Thirds[1], Thirds[2])
    BY <1>2, ThirdsNarrow
  <1>4. PICK a, c : a = Thirds[1] /\ c = Thirds[2]
    OBVIOUS
  <1>5. ASSUME p <= Total(row), StartsFromMax PROVE max_le_high - min_gt_low <= Slack
    <2>1. max_le_high \in Nat /\ Slack = 0
      BY <1>2, Pass DEF Slack
    <2> QED
      BY <1>2, <2>1
  <1>6. Chosen(row, p, Above(row, a), StartsFromMax, Slack)
    BY <1>2, <1>3, <1>4, <1>5, SearchEnds
  <1>7. StartsFromMax' = StartsFromMax /\ Slack' = Slack
    BY <1>2 DEF StartsFromMax, Slack
  <1>8. Chosen(row', p', mask', StartsFromMax', Slack')
    BY <1>2, <1>4, <1>6, <1>7
  <1> QED
    BY <1>2, <1>8, SelectsIsNext

\* The bisection stops within eps.
LEMMA TopPReturnMaskSelects ==
  ASSUME SearchInv, NarrowTopPReturnMask
  PROVE  SelectsTopP'
  <1>1. SUFFICES ASSUME pc' = "done" PROVE kernel' # "Sort" /\ SearchSelects'
    BY DEF SelectsTopP
  <1>2. /\ kernel = "TopPReturnMask" /\ pc = "narrow" /\ low' = Halves[1]
        /\ max_le_high - min_gt_low <= Eps /\ mask' = Above(row, low')
        /\ kernel' = kernel /\ row' = row /\ p' = p
    BY <1>1 DEF NarrowTopPReturnMask
  <1>3. Narrowed(Halves[1], Halves[2])
    BY <1>2, HalvesNarrow
  <1>4. PICK a, c : a = Halves[1] /\ c = Halves[2]
    OBVIOUS
  <1>5. max_le_high - min_gt_low <= Slack
    BY <1>2 DEF Slack
  <1>6. Chosen(row, p, Above(row, a), StartsFromMax, Slack)
    BY <1>2, <1>3, <1>4, <1>5, SearchEnds
  <1>7. StartsFromMax' = StartsFromMax /\ Slack' = Slack
    BY <1>2 DEF StartsFromMax, Slack
  <1>8. Chosen(row', p', mask', StartsFromMax', Slack')
    BY <1>2, <1>4, <1>6, <1>7
  <1> QED
    BY <1>2, <1>8, SelectsIsNext

\* The tokens that the sort keeps.
LEMMA SortSelectsStep ==
  ASSUME SearchInv, SortTopP
  PROVE  SelectsTopP'
  <1>1. kernel' = "Sort" /\ row' = row /\ p' = p
    BY DEF SortTopP
  <1>2. PICK order \in SetToSeqs(DOMAIN row) :
          /\ \A i, j \in DOMAIN order : i < j => row[order[i]] >= row[order[j]]
          /\ mask' = Kept(order)
    BY DEF SortTopP
  <1>3. PICK r, q, S : r = row /\ q = p /\ S = mask'
    OBVIOUS
  <1>4. r \in Rows /\ q \in Nat
    BY <1>3 DEF SearchInv
  <1>5. S = {order[k] : k \in {1} \cup {j \in DOMAIN order : Sum(r, First(order, j)) <= q}}
    <2>1. Kept(order)
            = {order[k] : k \in {1} \cup {j \in DOMAIN order : Sum(row, First(order, j)) <= p}}
      BY Zenon DEF Kept, MassOf, Sum, First
    <2> QED
      BY <1>2, <1>3, <2>1
  <1>6. \A i, j \in DOMAIN order : i < j => r[order[i]] >= r[order[j]]
    BY <1>2, <1>3
  <1>7. SortChosen(r, q, S)
    BY <1>2, <1>3, <1>4, <1>5, <1>6, SortChooses
  <1>8. SortChosen(row', p', mask')
    BY <1>1, <1>3, <1>7
  <1>9. SortSelects'
    BY <1>8, SelectsIsNext
  <1> QED
    BY <1>1, <1>9 DEF SelectsTopP

\* Whatever the row and the tolerance, the two searches and the sort select what they promise:
\* the searches the heavier tokens first, with mass p; from the maximum, the ternary search the
\* top-p set and the bisection no token more than eps below what is needed; the sort at most one
\* token less.
THEOREM SelectsTopPHolds == Spec => []SelectsTopP
  <1>1. Init => SelectInv
    BY InitSearch, InitSelects DEF SelectInv
  <1>2. SelectInv /\ [Next]_vars => SelectInv'
    <2>1. SUFFICES ASSUME SearchInv, SelectsTopP, [Next]_vars PROVE SelectInv'
      BY DEF SelectInv
    <2>2. SearchInv'
      BY <2>1, SearchStep
    <2>3. SelectsTopP'
      <3>1. CASE Scan
        <4>1. pc' # "done"
          BY <3>1 DEF Scan
        <4> QED
          BY <4>1 DEF SelectsTopP
      <3>2. CASE NarrowTopPMask
        BY <2>1, <3>2, TopPMaskSelects
      <3>3. CASE NarrowTopPReturnMask
        BY <2>1, <3>3, TopPReturnMaskSelects
      <3>4. CASE SortTopP
        BY <2>1, <3>4, SortSelectsStep
      <3>5. CASE UNCHANGED vars
        <4>1. kernel' = kernel /\ row' = row /\ p' = p /\ mask' = mask /\ pc' = pc
          BY <3>5 DEF vars
        <4>2. StartsFromMax' = StartsFromMax /\ Slack' = Slack
          BY <4>1 DEF StartsFromMax, Slack
        <4>3. SearchSelects => SearchSelects'
          BY <4>1, <4>2, SelectsIs, SelectsIsNext
        <4>4. SortSelects => SortSelects'
          BY <4>1, SelectsIs, SelectsIsNext
        <4> QED
          BY <2>1, <4>1, <4>3, <4>4 DEF SelectsTopP
      <3> QED
        BY <2>1, <3>1, <3>2, <3>3, <3>4, <3>5 DEF Next, Search, Return
    <2> QED
      BY <2>1, <2>2, <2>3 DEF SelectInv
  <1>3. SelectInv => SelectsTopP
    BY DEF SelectInv
  <1> QED
    BY <1>1, <1>2, <1>3, PTL DEF Spec
=============================================================================
