-------------------------- MODULE Scheduler_proofs --------------------------
(***************************************************************************)
(* The scheduler's queues, its block pool and its prefix cache agree, and  *)
(* what the worker reads and samples later is right, for every number of   *)
(* requests and blocks, every block size and every budget.                 *)
(***************************************************************************)
EXTENDS Scheduler, FiniteSetTheorems, SequenceTheorems, WellFoundedInduction, TLAPS

-----------------------------------------------------------------------------
(* Recursion over the places of a sequence *)

\* Induction on the natural numbers, for sets.
LEMMA SetInduction ==
  ASSUME NEW S, 0 \in S, \A n \in Nat : n \in S => n + 1 \in S
  PROVE  \A n \in Nat : n \in S
  <1> DEFINE T == Nat \ S
  <1> SUFFICES ASSUME T # {} PROVE FALSE
    OBVIOUS
  <1>0. T \subseteq Nat /\ T # {} /\ IsWellFoundedOn(OpToRel(<, Nat), Nat)
    BY NatLessThanWellFounded
  <1>1. PICK x \in T : \A y \in T : ~(<<y, x>> \in OpToRel(<, Nat))
    <2> DEFINE R == OpToRel(<, Nat)
    <2> HIDE DEF T, R
    <2>1. IsWellFoundedOn(R, Nat)
      BY <1>0 DEF R
    <2>2. \E x \in T : \A y \in T : ~(<<y, x>> \in R)
      BY <1>0, <2>1, WFMin
    <2> QED
      BY <2>2 DEF R
  <1>2. x # 0 /\ x - 1 \in Nat
    OBVIOUS
  <1>3. <<x - 1, x>> \in OpToRel(<, Nat)
    BY <1>1, <1>2 DEF OpToRel
  <1>4. x - 1 \in S
    BY <1>1, <1>2, <1>3
  <1> QED
    BY <1>2, <1>4

\* f goes from a in n steps, each given by st.
Iterates(f, X, n, a, st) ==
  /\ f \in [0 .. n -> X]
  /\ f[0] = a
  /\ \A i \in 1 .. n : f[i] = st[i][f[i - 1]]

\* Steps can be taken one after the other.
LEMMA IterationExists ==
  ASSUME NEW X, NEW N \in Nat, NEW a \in X, NEW st \in [1 .. N -> [X -> X]]
  PROVE  \E f : Iterates(f, X, N, a, st)
  <1> DEFINE S == {n \in Nat : n <= N => \E f : Iterates(f, X, n, a, st)}
  <1>1. 0 \in S
    <2> DEFINE z == [i \in 0 .. 0 |-> a]
    <2>1. z \in [0 .. 0 -> X] /\ z[0] = a /\ 1 .. 0 = {}
      OBVIOUS
    <2> HIDE DEF z
    <2>2. Iterates(z, X, 0, a, st)
      BY <2>1 DEF Iterates
    <2> QED
      BY <2>2
  <1>2. ASSUME NEW n \in Nat, n \in S, n + 1 <= N
        PROVE  \E g : Iterates(g, X, n + 1, a, st)
    <2>1. PICK f : Iterates(f, X, n, a, st)
      BY <1>2
    <2>2. f \in [0 .. n -> X] /\ f[0] = a /\ \A i \in 1 .. n : f[i] = st[i][f[i - 1]]
      BY <2>1 DEF Iterates
    <2> DEFINE y == st[n + 1][f[n]]
               g == [i \in 0 .. n + 1 |-> IF i = n + 1 THEN y ELSE f[i]]
    <2>3. y \in X
      BY <1>2, <2>2
    <2> HIDE DEF y
    <2>4. g \in [0 .. n + 1 -> X] /\ g[0] = a
      BY <2>2, <2>3
    <2>5. ASSUME NEW i \in 1 .. n + 1 PROVE g[i] = st[i][g[i - 1]]
      <3>1. CASE i = n + 1
        BY <3>1 DEF y
      <3>2. CASE i # n + 1
        BY <2>2, <3>2
      <3> QED
        BY <3>1, <3>2
    <2> HIDE DEF g
    <2>6. Iterates(g, X, n + 1, a, st)
      BY <2>4, <2>5 DEF Iterates
    <2> QED
      BY <2>6
  <1>3. \A n \in Nat : n \in S
    <2>1. \A n \in Nat : n \in S => n + 1 \in S
      BY <1>2
    <2> HIDE DEF S
    <2> QED
      BY <1>1, <2>1, SetInduction
  <1> QED
    BY <1>3

-----------------------------------------------------------------------------
(* Keep *)

\* t holds the members of S among the first n of s, in their order: f says where they come from.
Selects(t, f, s, S, n) ==
  /\ f \in [1 .. Len(t) -> 1 .. n]
  /\ \A i, j \in 1 .. Len(t) : i < j => f[i] < f[j]
  /\ \A i \in 1 .. Len(t) : t[i] = s[f[i]] /\ s[f[i]] \in S
  /\ \A m \in 1 .. n : s[m] \in S => \E i \in 1 .. Len(t) : f[i] = m

\* Keep selects.
LEMMA KeepSelects ==
  ASSUME NEW T, NEW s \in Seq(T), NEW S
  PROVE  Keep(s, S) \in Seq(T) /\ \E f : Selects(Keep(s, S), f, s, S, Len(s))
  <1> DEFINE N == Len(s)
             F(k) == [i \in 0 .. N |->
                        IF i = 0 THEN <<>>
                        ELSE IF s[i] \in S THEN Append(k[i - 1], s[i]) ELSE k[i - 1]]
             g == CHOOSE k : k = F(k)
             st == [i \in 1 .. N |-> [x \in Seq(T) |-> IF s[i] \in S THEN Append(x, s[i]) ELSE x]]
  <1>1. N \in Nat /\ \A i \in 1 .. N : s[i] \in T
    BY LenProperties, ElementOfSeq
  <1>2. <<>> \in Seq(T)
    BY EmptySeq
  <1>3. st \in [1 .. N -> [Seq(T) -> Seq(T)]]
    <2>1. ASSUME NEW i \in 1 .. N, NEW x \in Seq(T) PROVE Append(x, s[i]) \in Seq(T)
      BY <1>1, AppendProperties
    <2> HIDE DEF N
    <2> QED
      BY <2>1
  <1>4. PICK h : Iterates(h, Seq(T), N, <<>>, st)
    <2> HIDE DEF st, N
    <2> QED
      BY <1>1, <1>2, <1>3, IterationExists
  <1>5. h = F(h)
    <2>1. h \in [0 .. N -> Seq(T)] /\ h[0] = <<>> /\ \A i \in 1 .. N : h[i] = st[i][h[i - 1]]
      BY <1>4 DEF Iterates
    <2>2. ASSUME NEW i \in 1 .. N
          PROVE  h[i] = IF s[i] \in S THEN Append(h[i - 1], s[i]) ELSE h[i - 1]
      <3>1. h[i - 1] \in Seq(T)
        BY <1>1, <2>1, SMTT(30)
      <3> QED
        BY <2>1, <3>1
    <2> DEFINE Fh == F(h)
    <2>3. Fh = [i \in 0 .. N |-> Fh[i]] /\ h = [i \in 0 .. N |-> h[i]]
      BY <2>1
    <2>4. ASSUME NEW i \in 0 .. N PROVE h[i] = Fh[i]
      <3>1. CASE i = 0
        BY <2>1, <3>1
      <3>2. CASE i # 0
        <4>1. i \in 1 .. N
          BY <1>1, <3>2
        <4> QED
          BY <2>2, <3>2, <4>1
      <3> QED
        BY <3>1, <3>2
    <2> HIDE DEF Fh, N
    <2>5. h = Fh
      BY <2>3, <2>4, SMTT(30)
    <2> QED
      BY <2>5 DEF Fh
  <1>6. g = F(g)
    BY <1>5
  <1>7. Keep(s, S) = g[N]
    BY Zenon DEF Keep
  <1> HIDE DEF g
  <1> DEFINE Fg == F(g)
  <1>8. Fg[0] = <<>> /\ \A i \in 1 .. N : Fg[i] = IF s[i] \in S THEN Append(g[i - 1], s[i]) ELSE g[i - 1]
    BY <1>1
  <1>9. g[0] = <<>> /\ \A i \in 1 .. N : g[i] = IF s[i] \in S THEN Append(g[i - 1], s[i]) ELSE g[i - 1]
    <2> HIDE DEF Fg, F
    <2>1. g = Fg
      BY <1>6 DEF Fg
    <2> QED
      BY <1>8, <2>1
  <1> HIDE DEF F, N
  <1> DEFINE I == {n \in Nat : n <= N => g[n] \in Seq(T) /\ \E f : Selects(g[n], f, s, S, n)}
  <1>10. 0 \in I
    <2> DEFINE z == [i \in 1 .. 0 |-> 0]
    <2>1. Len(g[0]) = 0
      BY <1>9
    <2>2. Selects(g[0], z, s, S, 0)
      <3>1. 1 .. 0 = {} /\ z \in [1 .. 0 -> 1 .. 0]
        OBVIOUS
      <3> HIDE DEF z
      <3> QED
        BY <2>1, <3>1 DEF Selects
    <2> QED
      BY <1>2, <1>9, <2>2
  <1>11. ASSUME NEW n \in Nat, n \in I, n + 1 <= N
         PROVE  g[n + 1] \in Seq(T) /\ \E f : Selects(g[n + 1], f, s, S, n + 1)
    <2>1. PICK f : Selects(g[n], f, s, S, n)
      BY <1>1, <1>11
    <2> DEFINE t == g[n]
               y == s[n + 1]
    <2>2. t \in Seq(T) /\ n + 1 \in 1 .. N /\ y \in T /\ Len(t) \in Nat
      BY <1>1, <1>11, LenProperties
    <2>3. g[n + 1] = IF y \in S THEN Append(t, y) ELSE t
      BY <1>9, <2>2
    <2>4. /\ f \in [1 .. Len(t) -> 1 .. n]
          /\ \A i, j \in 1 .. Len(t) : i < j => f[i] < f[j]
          /\ \A i \in 1 .. Len(t) : t[i] = s[f[i]] /\ s[f[i]] \in S
          /\ \A m \in 1 .. n : s[m] \in S => \E i \in 1 .. Len(t) : f[i] = m
      BY <2>1 DEF Selects
    <2> HIDE DEF t
    <2>5. CASE y \notin S
      <3>1. \A m \in 1 .. n + 1 : s[m] \in S => \E i \in 1 .. Len(t) : f[i] = m
        BY <2>4, <2>5
      <3>2. f \in [1 .. Len(t) -> 1 .. n + 1]
        BY <2>4
      <3>3. Selects(t, f, s, S, n + 1)
        BY <2>4, <3>1, <3>2 DEF Selects
      <3> QED
        BY <2>2, <2>3, <2>5, <3>3
    <2>6. CASE y \in S
      <3> DEFINE u == Append(t, y)
                 e == [i \in 1 .. Len(t) + 1 |-> IF i = Len(t) + 1 THEN n + 1 ELSE f[i]]
      <3>1. /\ u \in Seq(T) /\ Len(u) = Len(t) + 1 /\ u[Len(t) + 1] = y
            /\ \A i \in 1 .. Len(t) : u[i] = t[i]
        BY <2>2, AppendProperties
      <3>2. /\ e[Len(t) + 1] = n + 1 /\ \A i \in 1 .. Len(t) : e[i] = f[i] /\ f[i] \in 1 .. n
        <4> DEFINE L == Len(t)
        <4>1. L \in Nat
          BY <2>2
        <4> HIDE DEF L
        <4> QED
          BY <2>4, <4>1 DEF L
      <3>3. e \in [1 .. Len(t) + 1 -> 1 .. n + 1]
        BY <2>2, <2>4
      <3> HIDE DEF u, e
      <3>4. ASSUME NEW i \in 1 .. Len(u), NEW j \in 1 .. Len(u), i < j PROVE e[i] < e[j]
        <4>1. CASE j = Len(t) + 1
          BY <2>2, <3>1, <3>2, <3>4, <4>1, SMTT(30)
        <4>2. CASE j # Len(t) + 1
          <5>1. i \in 1 .. Len(t) /\ j \in 1 .. Len(t)
            BY <2>2, <3>1, <3>4, <4>2
          <5> QED
            BY <2>4, <3>2, <3>4, <5>1
        <4> QED
          BY <4>1, <4>2
      <3>5. ASSUME NEW i \in 1 .. Len(u) PROVE u[i] = s[e[i]] /\ s[e[i]] \in S
        <4>1. CASE i = Len(t) + 1
          BY <2>6, <3>1, <3>2, <4>1
        <4>2. CASE i \in 1 .. Len(t)
          BY <2>4, <3>1, <3>2, <4>2
        <4> QED
          BY <2>2, <3>1, <4>1, <4>2
      <3>6. ASSUME NEW m \in 1 .. n + 1, s[m] \in S PROVE \E i \in 1 .. Len(u) : e[i] = m
        <4>1. CASE m = n + 1
          BY <2>2, <3>1, <3>2, <4>1
        <4>2. CASE m \in 1 .. n
          <5>1. PICK i \in 1 .. Len(t) : f[i] = m
            BY <2>4, <3>6, <4>2
          <5> QED
            BY <2>2, <3>1, <3>2, <5>1
        <4> QED
          BY <4>1, <4>2
      <3>7. Selects(u, e, s, S, n + 1)
        BY <3>1, <3>3, <3>4, <3>5, <3>6 DEF Selects
      <3> QED
        BY <2>3, <2>6, <3>1, <3>7 DEF u
    <2> QED
      BY <2>5, <2>6
  <1>12. \A n \in Nat : n \in I
    <2>1. \A n \in Nat : n \in I => n + 1 \in I
      BY <1>1, <1>11
    <2> HIDE DEF I
    <2> QED
      BY <1>10, <2>1, SetInduction
  <1> QED
    BY <1>1, <1>7, <1>12 DEF N

\* The members of a sequence.
LEMMA Members ==
  ASSUME NEW T, NEW s \in Seq(T)
  PROVE  /\ \A x : x \in ToSet(s) <=> \E i \in 1 .. Len(s) : s[i] = x
         /\ ToSet(s) \subseteq T
         /\ \A i \in 1 .. Len(s) : s[i] \in ToSet(s) /\ s[i] \in T
         /\ Len(s) \in Nat
  <1>1. DOMAIN s = 1 .. Len(s) /\ Len(s) \in Nat /\ \A i \in 1 .. Len(s) : s[i] \in T
    BY LenProperties, ElementOfSeq
  <1> QED
    BY <1>1 DEF ToSet

\* No member comes twice.
LEMMA Injective ==
  ASSUME NEW T, NEW s \in Seq(T)
  PROVE  IsInjective(s) <=> \A i, j \in 1 .. Len(s) : s[i] = s[j] => i = j
  <1>1. DOMAIN s = 1 .. Len(s)
    BY LenProperties
  <1> QED
    BY <1>1 DEF IsInjective

\* The empty sequence.
LEMMA NoMembers ==
  ToSet(<<>>) = {} /\ IsInjective(<<>>) /\ Len(<<>>) = 0
  BY DEF ToSet, IsInjective

\* s is in strictly increasing order.
Ascending(s) == \A i, j \in 1 .. Len(s) : i < j => s[i] < s[j]

\* Keep keeps the members of S, and what held of the order of s.
LEMMA KeepProperties ==
  ASSUME NEW T, NEW s \in Seq(T), NEW S
  PROVE  /\ Keep(s, S) \in Seq(T)
         /\ ToSet(Keep(s, S)) = ToSet(s) \cap S
         /\ IsInjective(s) => IsInjective(Keep(s, S))
         /\ Ascending(s) => Ascending(Keep(s, S))
  <1> DEFINE t == Keep(s, S)
  <1>1. t \in Seq(T)
    BY KeepSelects
  <1>2. PICK f : Selects(t, f, s, S, Len(s))
    BY KeepSelects
  <1> HIDE DEF t
  <1>3. /\ f \in [1 .. Len(t) -> 1 .. Len(s)]
        /\ \A i, j \in 1 .. Len(t) : i < j => f[i] < f[j]
        /\ \A i \in 1 .. Len(t) : t[i] = s[f[i]] /\ s[f[i]] \in S
        /\ \A m \in 1 .. Len(s) : s[m] \in S => \E i \in 1 .. Len(t) : f[i] = m
    BY <1>2 DEF Selects
  <1>4. /\ \A x : x \in ToSet(s) <=> \E i \in 1 .. Len(s) : s[i] = x
        /\ \A x : x \in ToSet(t) <=> \E i \in 1 .. Len(t) : t[i] = x
        /\ Len(s) \in Nat /\ Len(t) \in Nat
    BY <1>1, Members
  <1>5. ASSUME NEW x, x \in ToSet(t) PROVE x \in ToSet(s) \cap S
    BY <1>3, <1>4, <1>5
  <1>6. ASSUME NEW x, x \in ToSet(s), x \in S PROVE x \in ToSet(t)
    <2>1. PICK m \in 1 .. Len(s) : s[m] = x
      BY <1>4, <1>6
    <2>2. PICK i \in 1 .. Len(t) : f[i] = m
      BY <1>3, <1>6, <2>1
    <2> QED
      BY <1>3, <1>4, <2>1, <2>2
  <1>7. ToSet(t) = ToSet(s) \cap S
    BY <1>5, <1>6
  <1>8. ASSUME IsInjective(s) PROVE IsInjective(t)
    <2>1. ASSUME NEW i \in 1 .. Len(t), NEW j \in 1 .. Len(t), t[i] = t[j] PROVE i = j
      <3>1. f[i] = f[j] /\ f[i] \in 1 .. Len(s)
        <4>1. \A a, b \in 1 .. Len(s) : s[a] = s[b] => a = b
          BY <1>8, Injective
        <4> QED
          BY <1>3, <2>1, <4>1
      <3>2. ~(i < j) /\ ~(j < i)
        BY <1>3, <3>1
      <3> QED
        BY <1>4, <3>2
    <2> QED
      BY <1>1, <2>1, Injective
  <1>9. ASSUME Ascending(s) PROVE Ascending(t)
    <2>1. ASSUME NEW i \in 1 .. Len(t), NEW j \in 1 .. Len(t), i < j PROVE t[i] < t[j]
      <3>1. f[i] \in 1 .. Len(s) /\ f[j] \in 1 .. Len(s) /\ f[i] < f[j]
        BY <1>3, <2>1
      <3>2. s[f[i]] < s[f[j]]
        BY <1>9, <3>1 DEF Ascending
      <3> QED
        BY <1>3, <3>2
    <2> QED
      BY <2>1 DEF Ascending
  <1> QED
    BY <1>1, <1>7, <1>8, <1>9 DEF t

\* Two sequences without a common member, one after the other.
LEMMA ConcatMembers ==
  ASSUME NEW T, NEW s \in Seq(T), NEW t \in Seq(T)
  PROVE  /\ s \o t \in Seq(T)
         /\ Len(s \o t) = Len(s) + Len(t)
         /\ \A i \in 1 .. Len(s) : (s \o t)[i] = s[i]
         /\ \A i \in Len(s) + 1 .. Len(s) + Len(t) : (s \o t)[i] = t[i - Len(s)]
         /\ ToSet(s \o t) = ToSet(s) \cup ToSet(t)
         /\ IsInjective(s) /\ IsInjective(t) /\ ToSet(s) \cap ToSet(t) = {} => IsInjective(s \o t)
  <1> DEFINE u == s \o t
             m == Len(s)
             n == Len(t)
  <1>1. /\ u \in Seq(T) /\ Len(u) = m + n /\ m \in Nat /\ n \in Nat
        /\ \A i \in 1 .. m + n : u[i] = IF i <= m THEN s[i] ELSE t[i - m]
    BY ConcatProperties, LenProperties
  <1> HIDE DEF u
  <1>2. /\ \A x : x \in ToSet(s) <=> \E i \in 1 .. m : s[i] = x
        /\ \A x : x \in ToSet(t) <=> \E i \in 1 .. n : t[i] = x
        /\ \A x : x \in ToSet(u) <=> \E i \in 1 .. m + n : u[i] = x
    BY <1>1, Members
  <1>3. IsInjective(s) /\ IsInjective(t) =>
          /\ \A i, j \in 1 .. m : s[i] = s[j] => i = j
          /\ \A i, j \in 1 .. n : t[i] = t[j] => i = j
    BY Injective
  <1>4. IsInjective(u) <=> \A i, j \in 1 .. m + n : u[i] = u[j] => i = j
    BY <1>1, Injective
  <1> HIDE DEF m, n
  <1>5. /\ \A i \in 1 .. m : u[i] = s[i]
        /\ \A i \in m + 1 .. m + n : u[i] = t[i - m]
        /\ \A i \in 1 .. n : u[i + m] = t[i]
    BY <1>1
  <1>6. ASSUME NEW x PROVE x \in ToSet(u) <=> x \in ToSet(s) \cup ToSet(t)
    <2>1. ASSUME x \in ToSet(u) PROVE x \in ToSet(s) \cup ToSet(t)
      <3>1. PICK i \in 1 .. m + n : u[i] = x
        BY <1>2, <2>1
      <3>2. CASE i <= m
        BY <1>1, <1>2, <3>1, <3>2
      <3>3. CASE ~(i <= m)
        <4>1. i - m \in 1 .. n /\ t[i - m] = x
          BY <1>1, <3>1, <3>3
        <4> QED
          BY <1>2, <4>1
      <3> QED
        BY <3>2, <3>3
    <2>2. ASSUME x \in ToSet(s) PROVE x \in ToSet(u)
      <3>1. PICK i \in 1 .. m : s[i] = x
        BY <1>2, <2>2
      <3>2. i \in 1 .. m + n /\ u[i] = x
        BY <1>1, <1>5, <3>1
      <3> QED
        BY <1>2, <3>2
    <2>3. ASSUME x \in ToSet(t) PROVE x \in ToSet(u)
      <3>1. PICK i \in 1 .. n : t[i] = x
        BY <1>2, <2>3
      <3>2. i + m \in 1 .. m + n /\ u[i + m] = x
        BY <1>1, <1>5, <3>1
      <3> QED
        BY <1>2, <3>2
    <2> QED
      BY <2>1, <2>2, <2>3
  <1>7. ASSUME IsInjective(s), IsInjective(t), ToSet(s) \cap ToSet(t) = {},
               NEW i \in 1 .. m + n, NEW j \in 1 .. m + n, u[i] = u[j]
        PROVE  i = j
    <2>1. CASE i <= m /\ j <= m
      BY <1>1, <1>3, <1>7, <2>1
    <2>2. CASE ~(i <= m) /\ ~(j <= m)
      <3>1. i - m \in 1 .. n /\ j - m \in 1 .. n /\ t[i - m] = t[j - m]
        BY <1>1, <1>7, <2>2
      <3>2. i - m = j - m
        BY <1>3, <1>7, <3>1
      <3> QED
        BY <1>1, <3>2
    <2>3. CASE i <= m /\ ~(j <= m)
      <3>1. i \in 1 .. m /\ j - m \in 1 .. n /\ s[i] = t[j - m]
        BY <1>1, <1>7, <2>3
      <3> QED
        BY <1>2, <1>7, <3>1
    <2>4. CASE ~(i <= m) /\ j <= m
      <3>1. j \in 1 .. m /\ i - m \in 1 .. n /\ s[j] = t[i - m]
        BY <1>1, <1>7, <2>4
      <3> QED
        BY <1>2, <1>7, <3>1
    <2> QED
      BY <2>1, <2>2, <2>3, <2>4
  <1> QED
    BY <1>1, <1>4, <1>5, <1>6, <1>7 DEF u, m, n

\* u is s followed by t.
Joined(T, u, s, t) ==
  /\ u \in Seq(T)
  /\ Len(u) = Len(s) + Len(t)
  /\ \A i \in 1 .. Len(s) : u[i] = s[i]
  /\ \A i \in Len(s) + 1 .. Len(s) + Len(t) : u[i] = t[i - Len(s)]
  /\ ToSet(u) = ToSet(s) \cup ToSet(t)

\* Concatenation joins.
LEMMA ConcatJoins ==
  ASSUME NEW T, NEW s \in Seq(T), NEW t \in Seq(T)
  PROVE  Joined(T, s \o t, s, t)
  BY ConcatMembers DEF Joined

\* u is what s holds from behind the place a up to the place b.
PartOf(T, u, s, a, b) ==
  /\ u \in Seq(T)
  /\ Len(u) = b - a
  /\ \A i \in 1 .. b - a : u[i] = s[a + i]
  /\ \A x : x \in ToSet(u) <=> \E i \in a + 1 .. b : s[i] = x
  /\ IsInjective(s) => IsInjective(u)

\* SubSeq is a part.
LEMMA PartMembers ==
  ASSUME NEW T, NEW s \in Seq(T), NEW a \in Nat, NEW b \in Nat, a <= b, b <= Len(s)
  PROVE  PartOf(T, SubSeq(s, a + 1, b), s, a, b)
  <1> DEFINE u == SubSeq(s, a + 1, b)
  <1>1. Len(s) \in Nat /\ \A i \in 1 .. Len(s) : s[i] \in T
    BY Members
  <1>2. \A i \in a + 1 .. b : s[i] \in T
    BY <1>1
  <1>3. /\ u \in Seq(T)
        /\ Len(u) = IF a + 1 <= b THEN b - (a + 1) + 1 ELSE 0
        /\ \A i \in 1 .. b - (a + 1) + 1 : u[i] = s[a + 1 + i - 1]
    BY <1>2, SubSeqProperties, a + 1 \in Int, b \in Int
  <1> HIDE DEF u
  <1>4. Len(u) = b - a
    BY <1>3
  <1>5. ASSUME NEW i \in 1 .. b - a PROVE u[i] = s[a + i]
    <2>1. i \in 1 .. b - (a + 1) + 1 /\ a + 1 + i - 1 = a + i
      OBVIOUS
    <2> QED
      BY <1>3, <2>1
  <1>6. \A x : x \in ToSet(u) <=> \E i \in 1 .. b - a : u[i] = x
    BY <1>3, <1>4, Members
  <1>7. ASSUME NEW x PROVE x \in ToSet(u) <=> \E i \in a + 1 .. b : s[i] = x
    <2>1. ASSUME NEW i \in 1 .. b - a, u[i] = x PROVE \E k \in a + 1 .. b : s[k] = x
      <3>1. a + i \in a + 1 .. b /\ s[a + i] = x
        BY <1>5, <2>1
      <3> QED
        BY <3>1
    <2>2. ASSUME NEW k \in a + 1 .. b, s[k] = x PROVE \E i \in 1 .. b - a : u[i] = x
      <3>1. k - a \in 1 .. b - a /\ a + (k - a) = k
        OBVIOUS
      <3>2. u[k - a] = s[k]
        BY <1>5, <3>1
      <3> QED
        BY <2>2, <3>1, <3>2
    <2> QED
      BY <1>6, <2>1, <2>2
  <1>8. ASSUME IsInjective(s) PROVE IsInjective(u)
    <2>1. \A i, j \in 1 .. Len(s) : s[i] = s[j] => i = j
      BY <1>8, Injective
    <2>2. ASSUME NEW i \in 1 .. b - a, NEW j \in 1 .. b - a, u[i] = u[j] PROVE i = j
      <3>1. a + i \in 1 .. Len(s) /\ a + j \in 1 .. Len(s)
        BY <1>1
      <3>2. a + i = a + j
        BY <1>5, <2>1, <2>2, <3>1
      <3> QED
        BY <3>2
    <2> QED
      BY <1>3, <1>4, <2>2, Injective
  <1> QED
    BY <1>3, <1>4, <1>5, <1>7, <1>8 DEF u, PartOf

\* The first places of a sequence.
LEMMA FrontMembers ==
  ASSUME NEW T, NEW s \in Seq(T), NEW b \in Nat, b <= Len(s)
  PROVE  /\ SubSeq(s, 1, b) \in Seq(T)
         /\ Len(SubSeq(s, 1, b)) = b
         /\ \A i \in 1 .. b : SubSeq(s, 1, b)[i] = s[i]
         /\ \A x : x \in ToSet(SubSeq(s, 1, b)) <=> \E i \in 1 .. b : s[i] = x
         /\ IsInjective(s) => IsInjective(SubSeq(s, 1, b))
  <1>1. PICK a : a = 0
    OBVIOUS
  <1>2. a \in Nat /\ a <= b /\ a + 1 = 1 /\ b - a = b /\ \A i \in 1 .. b : a + i = i
    BY <1>1
  <1>3. /\ SubSeq(s, a + 1, b) \in Seq(T)
        /\ Len(SubSeq(s, a + 1, b)) = b - a
        /\ \A i \in 1 .. b - a : SubSeq(s, a + 1, b)[i] = s[a + i]
        /\ \A x : x \in ToSet(SubSeq(s, a + 1, b)) <=> \E i \in a + 1 .. b : s[i] = x
        /\ IsInjective(s) => IsInjective(SubSeq(s, a + 1, b))
    <2>1. PartOf(T, SubSeq(s, a + 1, b), s, a, b)
      BY <1>2, PartMembers, Zenon
    <2> QED
      BY <2>1, Zenon DEF PartOf
  <1> QED
    BY <1>2, <1>3

\* A sequence backwards.
LEMMA ReverseMembers ==
  ASSUME NEW T, NEW s \in Seq(T)
  PROVE  /\ Reverse(s) \in Seq(T)
         /\ ToSet(Reverse(s)) = ToSet(s)
         /\ IsInjective(s) => IsInjective(Reverse(s))
  <1> DEFINE n == Len(s)
             u == [i \in 1 .. n |-> s[(n - i) + 1]]
  <1>1. n \in Nat /\ \A i \in 1 .. n : s[i] \in T
    BY Members
  <1>2. \A i \in 1 .. n : s[(n - i) + 1] \in T
    BY <1>1
  <1>3. u \in Seq(T) /\ Len(u) = n
    <2> HIDE DEF n
    <2>1. u \in [1 .. n -> T]
      BY <1>2
    <2> QED
      BY <1>1, <2>1, SeqDef, LenProperties
  <1>4. \A i \in 1 .. n : u[i] = s[(n - i) + 1]
    OBVIOUS
  <1>5. u = Reverse(s)
    BY DEF Reverse
  <1> HIDE DEF u
  <1>6. /\ \A x : x \in ToSet(s) <=> \E i \in 1 .. n : s[i] = x
        /\ \A x : x \in ToSet(u) <=> \E i \in 1 .. n : u[i] = x
    BY <1>3, Members
  <1> DEFINE inj == IsInjective(s)
  <1>7. inj => \A i, j \in 1 .. n : s[i] = s[j] => i = j
    BY Injective
  <1>8. (\A i, j \in 1 .. n : u[i] = u[j] => i = j) => IsInjective(u)
    BY <1>3, Injective
  <1> HIDE DEF n, inj
  <1>9. ASSUME NEW x PROVE x \in ToSet(u) <=> x \in ToSet(s)
    <2>1. ASSUME NEW i \in 1 .. n, u[i] = x PROVE \E k \in 1 .. n : s[k] = x
      <3>1. (n - i) + 1 \in 1 .. n
        BY <1>1
      <3> QED
        BY <1>4, <2>1, <3>1
    <2>2. ASSUME NEW k \in 1 .. n, s[k] = x PROVE \E i \in 1 .. n : u[i] = x
      <3>1. (n - k) + 1 \in 1 .. n /\ (n - ((n - k) + 1)) + 1 = k
        BY <1>1
      <3> QED
        BY <1>4, <2>2, <3>1
    <2> QED
      BY <1>6, <2>1, <2>2
  <1>10. ASSUME inj, NEW i \in 1 .. n, NEW j \in 1 .. n, u[i] = u[j] PROVE i = j
    <2>1. (n - i) + 1 \in 1 .. n /\ (n - j) + 1 \in 1 .. n
      BY <1>1
    <2>2. (n - i) + 1 = (n - j) + 1
      BY <1>4, <1>7, <1>10, <2>1
    <2> QED
      BY <1>1, <2>2
  <1> QED
    BY <1>3, <1>5, <1>8, <1>9, <1>10 DEF inj

\* A sequence without repetition has as many members as places.
LEMMA MembersCount ==
  ASSUME NEW T, NEW s \in Seq(T), IsInjective(s)
  PROVE  IsFiniteSet(ToSet(s)) /\ Cardinality(ToSet(s)) = Len(s)
  <1>1. /\ Len(s) \in Nat /\ s \in [1 .. Len(s) -> T] /\ DOMAIN s = 1 .. Len(s)
        /\ \A x : x \in ToSet(s) <=> \E i \in 1 .. Len(s) : s[i] = x
    BY LenProperties, Members
  <1>2. s \in [1 .. Len(s) -> ToSet(s)]
    BY <1>1
  <1>3. s \in Bijection(1 .. Len(s), ToSet(s))
    BY <1>1, <1>2 DEF Bijection, Injection, Surjection
  <1>4. ExistsBijection(1 .. Len(s), ToSet(s))
    BY <1>3 DEF ExistsBijection
  <1>5. IsFiniteSet(1 .. Len(s))
    BY <1>1, FS_Interval
  <1> QED
    BY <1>1, <1>4, <1>5, FS_Bijection, FS_CountingElements

-----------------------------------------------------------------------------
(* Reference counts and the free list, for any table bl of the blocks held *)

\* What the pool's fields hold.
PoolType(p) ==
  /\ p = [ref |-> p.ref, free |-> p.free, hash |-> p.hash, cached |-> p.cached]
  /\ p.ref \in [Blocks -> Nat]
  /\ p.free \in Seq(Blocks)
  /\ p.hash \in [Blocks -> Seq(Nat)]
  /\ \A h \in DOMAIN p.cached : h # NoHash /\ p.cached[h] \in Seq(Blocks) /\ p.cached[h] # <<>>

Tables == [Requests -> Seq(Blocks)]

HoldersIn(bl, b) == {r \in Requests : b \in ToSet(bl[r])}

\* Each block is counted once for each holder.
Counted(ref, bl) == \A b \in Blocks : ref[b] = Cardinality(HoldersIn(bl, b))

\* The free list holds the blocks without a holder, once.
Listed(free, bl) ==
  /\ IsInjective(free)
  /\ ToSet(free) = {b \in Blocks : HoldersIn(bl, b) = {}}

\* The tables after a request gets more blocks, and after it gives all away.
Grown(bl, r, new) == [bl EXCEPT ![r] = bl[r] \o new]
Dropped(bl, r) == [bl EXCEPT ![r] = <<>>]

\* There are finitely many holders, and none exactly if they count 0.
LEMMA HoldersFinite ==
  ASSUME NEW bl, NEW b
  PROVE  /\ IsFiniteSet(HoldersIn(bl, b))
         /\ Cardinality(HoldersIn(bl, b)) \in Nat
         /\ Cardinality(HoldersIn(bl, b)) = 0 <=> HoldersIn(bl, b) = {}
  <1>1. IsFiniteSet(Requests)
    BY ServingAssumption, FS_Interval DEF Requests
  <1>2. HoldersIn(bl, b) \in SUBSET Requests
    BY DEF HoldersIn
  <1>3. IsFiniteSet(HoldersIn(bl, b))
    BY <1>1, <1>2, FS_Subset
  <1> QED
    BY <1>3, FS_CardinalityType, FS_EmptySet

\* Who holds what after a request gets blocks that it does not have.
LEMMA GrownHolders ==
  ASSUME NEW bl \in Tables, NEW r \in Requests, NEW new \in Seq(Blocks)
  PROVE  /\ Grown(bl, r, new) \in Tables
         /\ Grown(bl, r, new)[r] = bl[r] \o new
         /\ \A q \in Requests : q # r => Grown(bl, r, new)[q] = bl[q]
         /\ \A b : HoldersIn(Grown(bl, r, new), b)
                     = IF b \in ToSet(new) THEN HoldersIn(bl, b) \cup {r} ELSE HoldersIn(bl, b)
  <1> DEFINE g == Grown(bl, r, new)
  <1>1. bl[r] \in Seq(Blocks)
    BY DEF Tables
  <1>2. bl[r] \o new \in Seq(Blocks) /\ ToSet(bl[r] \o new) = ToSet(bl[r]) \cup ToSet(new)
    BY <1>1, ConcatMembers
  <1>3. g \in Tables /\ g[r] = bl[r] \o new /\ \A q \in Requests : q # r => g[q] = bl[q]
    BY <1>2 DEF Grown, Tables
  <1> HIDE DEF g
  <1>4. ASSUME NEW b
        PROVE  HoldersIn(g, b) = IF b \in ToSet(new) THEN HoldersIn(bl, b) \cup {r} ELSE HoldersIn(bl, b)
    <2>1. ASSUME NEW q \in Requests, q # r PROVE q \in HoldersIn(g, b) <=> q \in HoldersIn(bl, b)
      BY <1>3, <2>1 DEF HoldersIn
    <2>2. r \in HoldersIn(g, b) <=> r \in HoldersIn(bl, b) \/ b \in ToSet(new)
      BY <1>2, <1>3 DEF HoldersIn
    <2>3. HoldersIn(g, b) \subseteq Requests /\ HoldersIn(bl, b) \subseteq Requests
      BY DEF HoldersIn
    <2>4. CASE b \in ToSet(new)
      BY <2>1, <2>2, <2>3, <2>4
    <2>5. CASE b \notin ToSet(new)
      <3>1. \A q \in Requests : q \in HoldersIn(g, b) <=> q \in HoldersIn(bl, b)
        BY <2>1, <2>2, <2>5
      <3>2. HoldersIn(g, b) = HoldersIn(bl, b)
        BY <2>3, <3>1
      <3> QED
        BY <2>5, <3>2
    <2> QED
      BY <2>4, <2>5
  <1> QED
    BY <1>3, <1>4 DEF g

\* The counts follow.
LEMMA GrownCounted ==
  ASSUME NEW bl \in Tables, NEW r \in Requests, NEW new \in Seq(Blocks),
         ToSet(new) \cap ToSet(bl[r]) = {},
         NEW ref \in [Blocks -> Nat], Counted(ref, bl)
  PROVE  Counted([b \in Blocks |-> IF b \in ToSet(new) THEN ref[b] + 1 ELSE ref[b]], Grown(bl, r, new))
  <1> DEFINE g == Grown(bl, r, new)
             c == [b \in Blocks |-> IF b \in ToSet(new) THEN ref[b] + 1 ELSE ref[b]]
  <1>1. ASSUME NEW b \in Blocks PROVE c[b] = Cardinality(HoldersIn(g, b))
    <2>1. HoldersIn(g, b) = IF b \in ToSet(new) THEN HoldersIn(bl, b) \cup {r} ELSE HoldersIn(bl, b)
      BY GrownHolders
    <2>2. ref[b] = Cardinality(HoldersIn(bl, b))
      BY DEF Counted
    <2>3. c[b] = IF b \in ToSet(new) THEN ref[b] + 1 ELSE ref[b]
      OBVIOUS
    <2> HIDE DEF g, c
    <2>4. CASE b \in ToSet(new)
      <3>1. r \notin HoldersIn(bl, b)
        BY <2>4 DEF HoldersIn
      <3>2. Cardinality(HoldersIn(bl, b) \cup {r}) = Cardinality(HoldersIn(bl, b)) + 1
        BY <3>1, HoldersFinite, FS_AddElement
      <3> QED
        BY <2>1, <2>2, <2>3, <2>4, <3>2
    <2>5. CASE b \notin ToSet(new)
      BY <2>1, <2>2, <2>3, <2>5
    <2> QED
      BY <2>4, <2>5
  <1> QED
    BY <1>1 DEF Counted

\* Who holds what after a request gives its blocks away.
LEMMA DroppedHolders ==
  ASSUME NEW bl \in Tables, NEW r \in Requests
  PROVE  /\ Dropped(bl, r) \in Tables
         /\ Dropped(bl, r)[r] = <<>>
         /\ \A q \in Requests : q # r => Dropped(bl, r)[q] = bl[q]
         /\ \A b : HoldersIn(Dropped(bl, r), b) = HoldersIn(bl, b) \ {r}
  <1> DEFINE g == Dropped(bl, r)
  <1>1. <<>> \in Seq(Blocks)
    BY EmptySeq
  <1>2. g \in Tables /\ g[r] = <<>> /\ \A q \in Requests : q # r => g[q] = bl[q]
    BY <1>1 DEF Dropped, Tables
  <1> HIDE DEF g
  <1>3. ASSUME NEW b PROVE HoldersIn(g, b) = HoldersIn(bl, b) \ {r}
    <2>1. ASSUME NEW q \in Requests, q # r PROVE q \in HoldersIn(g, b) <=> q \in HoldersIn(bl, b)
      BY <1>2, <2>1 DEF HoldersIn
    <2>2. r \notin HoldersIn(g, b)
      BY <1>2, NoMembers DEF HoldersIn
    <2>3. HoldersIn(g, b) \subseteq Requests /\ HoldersIn(bl, b) \subseteq Requests
      BY DEF HoldersIn
    <2> QED
      BY <2>1, <2>2, <2>3
  <1> QED
    BY <1>2, <1>3 DEF g

\* The counts follow, and stay natural numbers.
LEMMA DroppedCounted ==
  ASSUME NEW bl \in Tables, NEW r \in Requests, NEW ref \in [Blocks -> Nat], Counted(ref, bl),
         NEW c, c = [b \in Blocks |-> IF b \in ToSet(bl[r]) THEN ref[b] - 1 ELSE ref[b]]
  PROVE  c \in [Blocks -> Nat] /\ Counted(c, Dropped(bl, r))
  <1> DEFINE g == Dropped(bl, r)
  <1>1. ASSUME NEW b \in Blocks PROVE c[b] \in Nat /\ c[b] = Cardinality(HoldersIn(g, b))
    <2>1. HoldersIn(g, b) = HoldersIn(bl, b) \ {r}
      BY DroppedHolders
    <2>2. ref[b] = Cardinality(HoldersIn(bl, b))
      BY DEF Counted
    <2>3. c[b] = IF b \in ToSet(bl[r]) THEN ref[b] - 1 ELSE ref[b]
      OBVIOUS
    <2>4. r \in HoldersIn(bl, b) <=> b \in ToSet(bl[r])
      BY DEF HoldersIn
    <2>5. Cardinality(HoldersIn(bl, b) \ {r})
            = IF r \in HoldersIn(bl, b) THEN Cardinality(HoldersIn(bl, b)) - 1
              ELSE Cardinality(HoldersIn(bl, b))
      BY HoldersFinite, FS_RemoveElement
    <2>6. Cardinality(HoldersIn(g, b)) \in Nat
      BY HoldersFinite
    <2> HIDE DEF g
    <2> QED
      BY <2>1, <2>2, <2>3, <2>4, <2>5, <2>6
  <1> QED
    BY <1>1 DEF Counted

-----------------------------------------------------------------------------
(* The operations of the pool, on the counts and the list *)

\* touch takes the hits from the list.
LEMMA TouchAgrees ==
  ASSUME NEW p, PoolType(p), NEW bl \in Tables, NEW r \in Requests,
         NEW hits \in Seq(Blocks), ToSet(hits) \cap ToSet(bl[r]) = {},
         Counted(p.ref, bl), Listed(p.free, bl)
  PROVE  /\ PoolType(Touch(p, hits))
         /\ Touch(p, hits).hash = p.hash /\ Touch(p, hits).cached = p.cached
         /\ Counted(Touch(p, hits).ref, Grown(bl, r, hits))
         /\ Listed(Touch(p, hits).free, Grown(bl, r, hits))
         /\ Len(Touch(p, hits).free)
              = Len(p.free) - Cardinality({b \in ToSet(hits) : p.ref[b] = 0})
  <1> DEFINE t == Touch(p, hits)
             X == {b \in Blocks : ~(b \in ToSet(hits) /\ p.ref[b] = 0)}
             c == [b \in Blocks |-> IF b \in ToSet(hits) THEN p.ref[b] + 1 ELSE p.ref[b]]
             g == Grown(bl, r, hits)
             Z == {b \in ToSet(hits) : p.ref[b] = 0}
  <1>1. /\ p.ref \in [Blocks -> Nat] /\ p.free \in Seq(Blocks) /\ p.hash \in [Blocks -> Seq(Nat)]
        /\ \A h \in DOMAIN p.cached : h # NoHash /\ p.cached[h] \in Seq(Blocks) /\ p.cached[h] # <<>>
    BY DEF PoolType
  <1>2. t = [ref |-> c, free |-> Keep(p.free, X), hash |-> p.hash, cached |-> p.cached]
    <2> DEFINE k == Keep(p.free, X)
    <2>1. t = [p EXCEPT !.free = k, !.ref = c]
      BY DEF Touch
    <2> HIDE DEF k, c, t
    <2> QED
      BY <2>1 DEF PoolType, k
  <1>3. c \in [Blocks -> Nat]
    BY <1>1
  <1>4. Counted(c, g)
    BY <1>1, GrownCounted
  <1>5. /\ Keep(p.free, X) \in Seq(Blocks)
        /\ ToSet(Keep(p.free, X)) = ToSet(p.free) \cap X
        /\ IsInjective(Keep(p.free, X))
    BY <1>1, KeepProperties DEF Listed
  <1>6. ToSet(p.free) = {b \in Blocks : HoldersIn(bl, b) = {}}
    BY DEF Listed
  <1>7. \A b \in Blocks : p.ref[b] = 0 <=> HoldersIn(bl, b) = {}
    BY HoldersFinite DEF Counted
  <1>8. ToSet(hits) \subseteq Blocks
    BY Members
  <1>9. \A b : HoldersIn(g, b) = IF b \in ToSet(hits) THEN HoldersIn(bl, b) \cup {r} ELSE HoldersIn(bl, b)
    BY GrownHolders
  <1>10. ToSet(Keep(p.free, X)) = {b \in Blocks : HoldersIn(g, b) = {}}
    <2> DEFINE K == ToSet(Keep(p.free, X))
    <2>1. K = ToSet(p.free) \cap X
      BY <1>5
    <2> HIDE DEF K, g
    <2>2. ASSUME NEW b \in Blocks PROVE b \in K <=> HoldersIn(g, b) = {}
      <3>1. b \in K <=> HoldersIn(bl, b) = {} /\ b \notin ToSet(hits)
        BY <1>6, <1>7, <2>1
      <3> QED
        BY <1>9, <3>1
    <2> QED
      BY <1>6, <2>1, <2>2 DEF K
  <1>11. Listed(Keep(p.free, X), g)
    BY <1>5, <1>10 DEF Listed
  <1>12. Len(Keep(p.free, X)) = Len(p.free) - Cardinality(Z)
    <2>1. ToSet(p.free) \cap X = ToSet(p.free) \ Z
      BY <1>6
    <2>2. Z \subseteq ToSet(p.free)
      BY <1>6, <1>7, <1>8
    <2>3. IsFiniteSet(ToSet(p.free)) /\ Cardinality(ToSet(p.free)) = Len(p.free)
      BY <1>1, MembersCount DEF Listed
    <2>4. Cardinality(ToSet(Keep(p.free, X))) = Len(Keep(p.free, X))
      BY <1>5, MembersCount
    <2> HIDE DEF X, Z
    <2> DEFINE F == ToSet(p.free)
    <2>5. IsFiniteSet(F)
      BY <2>3
    <2>6. F \cap Z = Z
      BY <2>2
    <2> HIDE DEF F
    <2>7. Cardinality(F \ Z) = Cardinality(F) - Cardinality(F \cap Z)
      BY <2>5, FS_Difference
    <2> QED
      BY <1>5, <2>1, <2>3, <2>4, <2>6, <2>7 DEF F
  <1> DEFINE k == Keep(p.free, X)
  <1>13. t.ref = c /\ t.free = k /\ t.hash = p.hash /\ t.cached = p.cached
    BY <1>2
  <1>14. t = [ref |-> t.ref, free |-> t.free, hash |-> t.hash, cached |-> t.cached]
    BY <1>2
  <1> HIDE DEF t, c, k, g, Z
  <1>15. PoolType(t)
    BY <1>1, <1>3, <1>5, <1>13, <1>14 DEF PoolType, k
  <1> QED
    BY <1>4, <1>11, <1>12, <1>13, <1>15 DEF t, g, k, Z

\* The hash index and the blocks agree.
Indexed(hash, cached) ==
  /\ \A h \in DOMAIN cached : ToSet(cached[h]) = {b \in Blocks : hash[b] = h}
  /\ \A b \in Blocks : hash[b] # NoHash => hash[b] \in DOMAIN cached

\* Eviction takes the hashes of bs, and bs from the index.
LEMMA EvictAgrees ==
  ASSUME NEW p, PoolType(p), Indexed(p.hash, p.cached), NEW bs \in SUBSET Blocks
  PROVE  /\ PoolType(Evict(p, bs))
         /\ Evict(p, bs).ref = p.ref /\ Evict(p, bs).free = p.free
         /\ Indexed(Evict(p, bs).hash, Evict(p, bs).cached)
         /\ \A b \in Blocks : Evict(p, bs).hash[b] = IF b \in bs THEN NoHash ELSE p.hash[b]
  <1> DEFINE Kept(h) == Keep(p.cached[h], Blocks \ bs)
             D == {g \in DOMAIN p.cached : Kept(g) # <<>>}
             c == [h \in D |-> Kept(h)]
             hash == [b \in Blocks |-> IF b \in bs THEN NoHash ELSE p.hash[b]]
             e == Evict(p, bs)
  <1>1. /\ p.ref \in [Blocks -> Nat] /\ p.free \in Seq(Blocks) /\ p.hash \in [Blocks -> Seq(Nat)]
        /\ \A h \in DOMAIN p.cached : h # NoHash /\ p.cached[h] \in Seq(Blocks) /\ p.cached[h] # <<>>
        /\ p = [ref |-> p.ref, free |-> p.free, hash |-> p.hash, cached |-> p.cached]
    BY DEF PoolType
  <1>2. e = [p EXCEPT !.hash = hash, !.cached = c]
    BY DEF Evict
  <1>3. NoHash \in Seq(Nat)
    BY EmptySeq DEF NoHash
  <1>4. hash \in [Blocks -> Seq(Nat)]
    BY <1>1, <1>3
  <1>5. \A b \in Blocks : hash[b] = IF b \in bs THEN NoHash ELSE p.hash[b]
    OBVIOUS
  <1>6. DOMAIN c = D /\ \A h \in D : c[h] = Kept(h)
    OBVIOUS
  <1>7. ASSUME NEW h \in DOMAIN p.cached
        PROVE  Kept(h) \in Seq(Blocks) /\ ToSet(Kept(h)) = {b \in Blocks : hash[b] = h}
    <2>1. p.cached[h] \in Seq(Blocks) /\ h # NoHash
      BY <1>1
    <2>2. Kept(h) \in Seq(Blocks) /\ ToSet(Kept(h)) = ToSet(p.cached[h]) \cap (Blocks \ bs)
      BY <2>1, KeepProperties
    <2>3. ToSet(p.cached[h]) = {b \in Blocks : p.hash[b] = h}
      BY DEF Indexed
    <2> HIDE DEF Kept, hash
    <2> QED
      BY <1>5, <2>1, <2>2, <2>3
  <1>8. ASSUME NEW b \in Blocks, hash[b] # NoHash PROVE hash[b] \in D
    <2>1. hash[b] = p.hash[b] /\ p.hash[b] \in DOMAIN p.cached
      BY <1>5, <1>8 DEF Indexed
    <2>2. b \in ToSet(Kept(hash[b]))
      BY <1>7, <2>1
    <2>3. Kept(hash[b]) # <<>>
      <3> HIDE DEF Kept
      <3> QED
        BY <2>2, NoMembers
    <2> QED
      BY <2>1, <2>3
  <1> HIDE DEF hash, c, e
  <1>9. /\ e = [ref |-> e.ref, free |-> e.free, hash |-> e.hash, cached |-> e.cached]
        /\ e.ref = p.ref /\ e.free = p.free /\ e.hash = hash /\ e.cached = c
    BY <1>1, <1>2
  <1>10. \A h \in DOMAIN c : h # NoHash /\ c[h] \in Seq(Blocks) /\ c[h] # <<>>
    BY <1>1, <1>6, <1>7
  <1>11. Indexed(hash, c)
    BY <1>6, <1>7, <1>8 DEF Indexed
  <1>12. PoolType(e)
    BY <1>1, <1>4, <1>9, <1>10 DEF PoolType
  <1> QED
    BY <1>5, <1>9, <1>11, <1>12 DEF e

\* get_new_blocks takes blocks from the front of the list.
LEMMA GetNewBlocksAgrees ==
  ASSUME NEW p, PoolType(p), NEW bl \in Tables, NEW r \in Requests,
         NEW n \in Nat, n <= Len(p.free),
         Counted(p.ref, bl), Listed(p.free, bl), Indexed(p.hash, p.cached)
  PROVE  /\ NewBlocks(p, n) \in Seq(Blocks) /\ Len(NewBlocks(p, n)) = n
         /\ IsInjective(NewBlocks(p, n))
         /\ \A b \in ToSet(NewBlocks(p, n)) : HoldersIn(bl, b) = {}
         /\ PoolType(GetNewBlocks(p, n))
         /\ Counted(GetNewBlocks(p, n).ref, Grown(bl, r, NewBlocks(p, n)))
         /\ Listed(GetNewBlocks(p, n).free, Grown(bl, r, NewBlocks(p, n)))
         /\ Indexed(GetNewBlocks(p, n).hash, GetNewBlocks(p, n).cached)
         /\ \A b \in Blocks : GetNewBlocks(p, n).hash[b]
                                = IF b \in ToSet(NewBlocks(p, n)) THEN NoHash ELSE p.hash[b]
  <1> DEFINE new == NewBlocks(p, n)
             bs == ToSet(new)
             e == Evict(p, bs)
             free == p.free
             rest == SubSeq(free, n + 1, Len(free))
             c == [b \in Blocks |-> IF b \in bs THEN p.ref[b] + 1 ELSE p.ref[b]]
             q == GetNewBlocks(p, n)
             g == Grown(bl, r, new)
             m == Len(free)
  <1>1. p.ref \in [Blocks -> Nat] /\ p.hash \in [Blocks -> Seq(Nat)]
    BY DEF PoolType
  <1>0. free \in Seq(Blocks) /\ n <= Len(free) /\ Listed(free, bl)
    BY DEF PoolType
  <1> HIDE DEF free
  <1>2. m \in Nat /\ IsInjective(free) /\ ToSet(free) = {b \in Blocks : HoldersIn(bl, b) = {}}
        /\ \A x : x \in ToSet(free) <=> \E i \in 1 .. m : free[i] = x
    BY <1>0, Members DEF Listed
  <1>3. /\ new \in Seq(Blocks) /\ Len(new) = n /\ IsInjective(new)
        /\ \A x : x \in bs <=> \E i \in 1 .. n : free[i] = x
    <2>1. new = SubSeq(free, 1, n)
      BY DEF NewBlocks, free
    <2> HIDE DEF new
    <2> QED
      BY <1>0, <1>2, <2>1, FrontMembers
  <1>4. /\ rest \in Seq(Blocks) /\ IsInjective(rest)
        /\ \A x : x \in ToSet(rest) <=> \E i \in n + 1 .. m : free[i] = x
    <2>1. PartOf(Blocks, rest, free, n, m)
      BY <1>0, <1>2, PartMembers, m <= m
    <2> HIDE DEF rest, m
    <2> QED
      BY <1>2, <2>1 DEF PartOf
  <1> HIDE DEF m, rest, new
  <1>5. \A x : x \in ToSet(free) <=> x \in bs \/ x \in ToSet(rest)
    BY <1>0, <1>2, <1>3, <1>4 DEF m
  <1>6. \A x : ~(x \in bs /\ x \in ToSet(rest))
    <2>1. \A i, j \in 1 .. m : free[i] = free[j] => i = j
      BY <1>0, <1>2, Injective DEF m
    <2> QED
      BY <1>0, <1>2, <1>3, <1>4, <2>1 DEF m
  <1>7. bs \in SUBSET Blocks
    BY <1>3, Members
  <1>8. /\ PoolType(e) /\ e.ref = p.ref /\ e.free = free /\ Indexed(e.hash, e.cached)
        /\ \A b \in Blocks : e.hash[b] = IF b \in bs THEN NoHash ELSE p.hash[b]
    BY <1>7, EvictAgrees DEF free
  <1>9. q = [e EXCEPT !.free = SubSeq(e.free, n + 1, Len(e.free)),
                      !.ref = [b \in Blocks |-> IF b \in bs THEN e.ref[b] + 1 ELSE e.ref[b]]]
    BY DEF GetNewBlocks, new
  <1> HIDE DEF e, bs, q
  <1>10. q = [e EXCEPT !.free = rest, !.ref = c]
    BY <1>8, <1>9 DEF rest, m
  <1>11. c \in [Blocks -> Nat]
    BY <1>1
  <1>12. \A b \in bs : HoldersIn(bl, b) = {}
    BY <1>2, <1>5
  <1>13. bs \cap ToSet(bl[r]) = {}
    BY <1>7, <1>12 DEF HoldersIn
  <1>14. Counted(c, g)
    BY <1>1, <1>3, <1>13, GrownCounted DEF bs
  <1>15. ToSet(rest) = {b \in Blocks : HoldersIn(g, b) = {}}
    <2>1. \A b : HoldersIn(g, b) = IF b \in bs THEN HoldersIn(bl, b) \cup {r} ELSE HoldersIn(bl, b)
      BY <1>3, GrownHolders DEF bs
    <2>2. ToSet(rest) \subseteq Blocks
      BY <1>4, Members
    <2> HIDE DEF g
    <2>3. ASSUME NEW b \in Blocks PROVE b \in ToSet(rest) <=> HoldersIn(g, b) = {}
      <3>1. CASE b \in bs
        BY <1>6, <2>1, <3>1
      <3>2. CASE b \notin bs
        BY <1>2, <1>5, <2>1, <3>2
      <3> QED
        BY <3>1, <3>2
    <2> QED
      BY <2>2, <2>3
  <1>16. Listed(rest, g)
    BY <1>4, <1>15 DEF Listed
  <1> HIDE DEF c, g
  <1>17. /\ q = [ref |-> q.ref, free |-> q.free, hash |-> q.hash, cached |-> q.cached]
         /\ q.ref = c /\ q.free = rest /\ q.hash = e.hash /\ q.cached = e.cached
    BY <1>8, <1>10 DEF PoolType
  <1>18. PoolType(q)
    BY <1>4, <1>8, <1>11, <1>17 DEF PoolType
  <1> QED
    BY <1>3, <1>8, <1>12, <1>14, <1>16, <1>17, <1>18 DEF bs, new, q, g

\* In x, other than in p, the blocks of new have the hashes given.
WithNewHashes(x, p, new, hashes) ==
  /\ PoolType(x) /\ x.ref = p.ref /\ x.free = p.free
  /\ Indexed(x.hash, x.cached)
  /\ \A i \in 1 .. Len(new) : x.hash[new[i]] = hashes[i]
  /\ \A b \in Blocks \ ToSet(new) : x.hash[b] = p.hash[b]

\* cache_full_blocks gives blocks without a hash their hashes.
LEMMA CacheAgrees ==
  ASSUME NEW p, PoolType(p), Indexed(p.hash, p.cached),
         NEW new \in Seq(Blocks), IsInjective(new), NEW hashes \in Seq(Seq(Nat)),
         Len(hashes) = Len(new),
         \A i \in 1 .. Len(new) : p.hash[new[i]] = NoHash /\ hashes[i] # NoHash
  PROVE  WithNewHashes(CacheFullBlocks(p, new, hashes), p, new, hashes)
  <1> DEFINE HashOf(b) == hashes[CHOOSE i \in DOMAIN new : new[i] = b]
             Old(h) == IF h \in DOMAIN p.cached THEN p.cached[h] ELSE <<>>
             Added(h) == Keep(new, {b \in ToSet(new) : HashOf(b) = h})
             D == DOMAIN p.cached \cup ToSet(hashes)
             c == [h \in D |-> Old(h) \o Added(h)]
             hash == [b \in Blocks |-> IF b \in ToSet(new) THEN HashOf(b) ELSE p.hash[b]]
             q == CacheFullBlocks(p, new, hashes)
  <1>1. /\ p.ref \in [Blocks -> Nat] /\ p.free \in Seq(Blocks) /\ p.hash \in [Blocks -> Seq(Nat)]
        /\ \A h \in DOMAIN p.cached : h # NoHash /\ p.cached[h] \in Seq(Blocks) /\ p.cached[h] # <<>>
        /\ p = [ref |-> p.ref, free |-> p.free, hash |-> p.hash, cached |-> p.cached]
    BY DEF PoolType
  <1>2. q = [p EXCEPT !.hash = hash, !.cached = c]
    BY DEF CacheFullBlocks
  <1>3. /\ DOMAIN new = 1 .. Len(new) /\ ToSet(new) \subseteq Blocks
        /\ \A x : x \in ToSet(new) <=> \E i \in 1 .. Len(new) : new[i] = x
        /\ \A i, j \in 1 .. Len(new) : new[i] = new[j] => i = j
    BY LenProperties, Members, Injective, ZenonT(60)
  <1>4. /\ \A x : x \in ToSet(hashes) <=> \E i \in 1 .. Len(new) : hashes[i] = x
        /\ \A i \in 1 .. Len(new) : hashes[i] \in Seq(Nat)
    BY Members
  <1>5. ASSUME NEW i \in 1 .. Len(new) PROVE HashOf(new[i]) = hashes[i]
    <2>1. (CHOOSE k \in DOMAIN new : new[k] = new[i]) = i
      BY <1>3
    <2> QED
      BY <2>1
  <1>6. \A b \in Blocks : hash[b] = IF b \in ToSet(new) THEN HashOf(b) ELSE p.hash[b]
    OBVIOUS
  <1>7. DOMAIN c = D /\ \A h \in D : c[h] = Old(h) \o Added(h)
    OBVIOUS
  <1>8. \A h : Added(h) \in Seq(Blocks) /\ ToSet(Added(h)) = {b \in ToSet(new) : HashOf(b) = h}
    <2>1. ASSUME NEW h PROVE Added(h) \in Seq(Blocks) /\ ToSet(Added(h)) = {b \in ToSet(new) : HashOf(b) = h}
      <3> DEFINE X == {b \in ToSet(new) : HashOf(b) = h}
      <3>1. Keep(new, X) \in Seq(Blocks) /\ ToSet(Keep(new, X)) = ToSet(new) \cap X
        BY KeepProperties
      <3>2. ToSet(new) \cap X = X
        OBVIOUS
      <3> QED
        BY <3>1, <3>2
    <2> QED
      BY <2>1
  <1> HIDE DEF HashOf, Added, c, hash
  <1>9. \A b \in ToSet(new) : HashOf(b) \in Seq(Nat) /\ HashOf(b) # NoHash /\ HashOf(b) \in ToSet(hashes)
                              /\ p.hash[b] = NoHash
    <2>1. ASSUME NEW b \in ToSet(new)
          PROVE  /\ HashOf(b) \in Seq(Nat) /\ HashOf(b) # NoHash /\ HashOf(b) \in ToSet(hashes)
                 /\ p.hash[b] = NoHash
      <3>1. PICK i \in 1 .. Len(new) : new[i] = b
        BY <1>3
      <3>2. HashOf(b) = hashes[i]
        BY <1>5, <3>1
      <3> QED
        BY <1>4, <3>1, <3>2
    <2> QED
      BY <2>1
  <1>10. hash \in [Blocks -> Seq(Nat)]
    BY <1>1, <1>9 DEF hash
  <1>11. ASSUME NEW h \in D
         PROVE  /\ h # NoHash /\ c[h] \in Seq(Blocks) /\ c[h] # <<>>
                /\ ToSet(c[h]) = {b \in Blocks : hash[b] = h}
    <2>1. h # NoHash
      BY <1>1, <1>4
    <2>2. Old(h) \in Seq(Blocks) /\ ToSet(Old(h)) = {b \in Blocks : p.hash[b] = h}
      <3>1. CASE h \in DOMAIN p.cached
        BY <1>1, <3>1 DEF Indexed
      <3>2. CASE h \notin DOMAIN p.cached
        <4>1. {b \in Blocks : p.hash[b] = h} = {}
          BY <2>1, <3>2 DEF Indexed
        <4> QED
          BY <3>2, <4>1, NoMembers, EmptySeq
      <3> QED
        BY <3>1, <3>2
    <2> HIDE DEF Old
    <2>3. c[h] \in Seq(Blocks) /\ ToSet(c[h]) = ToSet(Old(h)) \cup ToSet(Added(h))
      <3> DEFINE old == Old(h)
                 added == Added(h)
      <3>1. old \in Seq(Blocks) /\ added \in Seq(Blocks)
        BY <1>8, <2>2
      <3>2. c[h] = old \o added
        BY <1>7
      <3> HIDE DEF old, added
      <3>3. old \o added \in Seq(Blocks) /\ ToSet(old \o added) = ToSet(old) \cup ToSet(added)
        BY <3>1, ConcatMembers
      <3> QED
        BY <3>2, <3>3 DEF old, added
    <2>4. ASSUME NEW b \in Blocks PROVE b \in ToSet(c[h]) <=> hash[b] = h
      <3>1. CASE b \in ToSet(new)
        BY <1>6, <1>8, <1>9, <2>1, <2>2, <2>3, <3>1
      <3>2. CASE b \notin ToSet(new)
        BY <1>6, <1>8, <1>9, <2>1, <2>2, <2>3, <3>2
      <3> QED
        BY <3>1, <3>2
    <2>5. ToSet(c[h]) = {b \in Blocks : hash[b] = h}
      <3>1. ToSet(c[h]) \subseteq Blocks
        BY <2>3, Members
      <3> QED
        BY <2>4, <3>1
    <2>6. \E b \in Blocks : hash[b] = h
      <3>1. CASE h \in ToSet(hashes)
        <4>1. PICK i \in 1 .. Len(new) : hashes[i] = h
          BY <1>4, <3>1
        <4>2. new[i] \in ToSet(new) /\ new[i] \in Blocks
          BY <1>3
        <4> QED
          BY <1>5, <1>6, <4>1, <4>2
      <3>2. CASE h \in DOMAIN p.cached
        <4>1. p.cached[h] \in Seq(Blocks) /\ p.cached[h] # <<>>
          BY <1>1, <3>2
        <4>2. Len(p.cached[h]) \in Nat \ {0}
          BY <4>1, EmptySeq
        <4>3. p.cached[h][1] \in ToSet(p.cached[h])
          BY <4>1, <4>2, Members
        <4>4. p.cached[h][1] \in Blocks /\ p.hash[p.cached[h][1]] = h
          BY <3>2, <4>3 DEF Indexed
        <4>5. p.cached[h][1] \notin ToSet(new)
          BY <1>9, <2>1, <4>4
        <4> QED
          BY <1>6, <4>4, <4>5
      <3> QED
        BY <3>1, <3>2
    <2>7. c[h] # <<>>
      BY <2>5, <2>6, NoMembers
    <2> QED
      BY <2>1, <2>3, <2>5, <2>7
  <1>12. ASSUME NEW b \in Blocks, hash[b] # NoHash PROVE hash[b] \in D
    BY <1>6, <1>9, <1>12 DEF Indexed
  <1>13. Indexed(hash, c)
    <2> HIDE DEF D
    <2> QED
      BY <1>7, <1>11, <1>12 DEF Indexed
  <1>14. /\ q = [ref |-> q.ref, free |-> q.free, hash |-> q.hash, cached |-> q.cached]
         /\ q.ref = p.ref /\ q.free = p.free /\ q.hash = hash /\ q.cached = c
    <2> HIDE DEF q
    <2> QED
      BY <1>1, <1>2
  <1> HIDE DEF q, D, Old
  <1>15. PoolType(q)
    BY <1>1, <1>7, <1>10, <1>11, <1>14 DEF PoolType
  <1>16. \A i \in 1 .. Len(new) : hash[new[i]] = hashes[i]
    BY <1>3, <1>5, <1>6
  <1> QED
    BY <1>6, <1>13, <1>14, <1>15, <1>16 DEF q, WithNewHashes

\* free_blocks gives back what a request holds.
LEMMA FreeAgrees ==
  ASSUME NEW p, PoolType(p), NEW bl \in Tables, NEW r \in Requests, NEW ordered \in Seq(Blocks),
         IsInjective(ordered), ToSet(ordered) = ToSet(bl[r]),
         Counted(p.ref, bl), Listed(p.free, bl)
  PROVE  /\ PoolType(FreeBlocks(p, ordered))
         /\ FreeBlocks(p, ordered).hash = p.hash /\ FreeBlocks(p, ordered).cached = p.cached
         /\ Counted(FreeBlocks(p, ordered).ref, Dropped(bl, r))
         /\ Listed(FreeBlocks(p, ordered).free, Dropped(bl, r))
  <1> DEFINE q == FreeBlocks(p, ordered)
             c == [b \in Blocks |-> IF b \in ToSet(ordered) THEN p.ref[b] - 1 ELSE p.ref[b]]
             X == {b \in Blocks : p.ref[b] = 1}
             k == Keep(ordered, X)
             f == p.free \o k
             g == Dropped(bl, r)
  <1>1. /\ p.ref \in [Blocks -> Nat] /\ p.free \in Seq(Blocks) /\ p.hash \in [Blocks -> Seq(Nat)]
        /\ \A h \in DOMAIN p.cached : h # NoHash /\ p.cached[h] \in Seq(Blocks) /\ p.cached[h] # <<>>
        /\ p = [ref |-> p.ref, free |-> p.free, hash |-> p.hash, cached |-> p.cached]
    BY DEF PoolType
  <1>2. q = [p EXCEPT !.ref = c, !.free = f]
    BY DEF FreeBlocks
  <1>3. c = [b \in Blocks |-> IF b \in ToSet(bl[r]) THEN p.ref[b] - 1 ELSE p.ref[b]]
    OBVIOUS
  <1> HIDE DEF c
  <1>4. c \in [Blocks -> Nat] /\ Counted(c, g)
    BY <1>1, <1>3, DroppedCounted
  <1>5. k \in Seq(Blocks) /\ ToSet(k) = ToSet(ordered) \cap X /\ IsInjective(k)
    BY KeepProperties
  <1>6. ASSUME NEW b \in Blocks
        PROVE  /\ b \in ToSet(p.free) <=> HoldersIn(bl, b) = {}
               /\ b \in ToSet(k) <=> HoldersIn(bl, b) = {r}
    <2>1. b \in ToSet(p.free) <=> HoldersIn(bl, b) = {}
      BY DEF Listed
    <2>2. p.ref[b] = Cardinality(HoldersIn(bl, b)) /\ IsFiniteSet(HoldersIn(bl, b))
      BY HoldersFinite DEF Counted
    <2>3. ASSUME HoldersIn(bl, b) = {r} PROVE b \in ToSet(k)
      <3>1. Cardinality({r}) = 1
        BY FS_Singleton
      <3>2. b \in ToSet(bl[r])
        BY <2>3 DEF HoldersIn
      <3> QED
        BY <1>5, <2>2, <2>3, <3>1, <3>2
    <2>4. ASSUME b \in ToSet(k) PROVE HoldersIn(bl, b) = {r}
      <3>1. Cardinality(HoldersIn(bl, b)) = 1 /\ r \in HoldersIn(bl, b)
        BY <1>5, <2>2, <2>4 DEF HoldersIn
      <3>2. \E x : HoldersIn(bl, b) = {x}
        BY <2>2, <3>1, FS_Singleton
      <3> QED
        BY <3>1, <3>2
    <2> QED
      BY <2>1, <2>3, <2>4
  <1> HIDE DEF k, X
  <1>7. ToSet(p.free) \subseteq Blocks /\ ToSet(k) \subseteq Blocks /\ IsInjective(p.free)
    BY <1>1, <1>5, Members DEF Listed
  <1>8. ToSet(p.free) \cap ToSet(k) = {}
    BY <1>6, <1>7
  <1>9. f \in Seq(Blocks) /\ ToSet(f) = ToSet(p.free) \cup ToSet(k) /\ IsInjective(f)
    BY <1>1, <1>5, <1>7, <1>8, ConcatMembers
  <1>10. ToSet(f) = {b \in Blocks : HoldersIn(g, b) = {}}
    <2>1. \A b : HoldersIn(g, b) = HoldersIn(bl, b) \ {r}
      BY DroppedHolders
    <2> HIDE DEF g, f
    <2>2. ASSUME NEW b \in Blocks PROVE b \in ToSet(f) <=> HoldersIn(g, b) = {}
      BY <1>6, <1>9, <2>1
    <2> QED
      BY <1>7, <1>9, <2>2
  <1>11. Listed(f, g)
    BY <1>9, <1>10 DEF Listed
  <1> HIDE DEF f, g, q
  <1>12. /\ q = [ref |-> q.ref, free |-> q.free, hash |-> q.hash, cached |-> q.cached]
         /\ q.ref = c /\ q.free = f /\ q.hash = p.hash /\ q.cached = p.cached
    BY <1>1, <1>2
  <1>13. PoolType(q)
    BY <1>1, <1>4, <1>9, <1>12 DEF PoolType
  <1> QED
    BY <1>4, <1>11, <1>12, <1>13 DEF q, g

\* reset_prefix_cache empties the index, and does so only when nothing is held.
LEMMA ResetAgrees ==
  ASSUME NEW p, PoolType(p), NEW bl \in Tables,
         Counted(p.ref, bl), Listed(p.free, bl), Indexed(p.hash, p.cached)
  PROVE  /\ PoolType(ResetPrefixCache(p))
         /\ ResetPrefixCache(p).ref = p.ref /\ ResetPrefixCache(p).free = p.free
         /\ Indexed(ResetPrefixCache(p).hash, ResetPrefixCache(p).cached)
         /\ ResetPrefixCache(p) = p \/ \A b \in Blocks : HoldersIn(bl, b) = {}
  <1> DEFINE q == ResetPrefixCache(p)
             z == [b \in Blocks |-> NoHash]
  <1>1. /\ p.ref \in [Blocks -> Nat] /\ p.free \in Seq(Blocks) /\ p.hash \in [Blocks -> Seq(Nat)]
        /\ p = [ref |-> p.ref, free |-> p.free, hash |-> p.hash, cached |-> p.cached]
    BY DEF PoolType
  <1>2. CASE Len(p.free) # NumBlocks
    BY <1>2 DEF ResetPrefixCache
  <1>3. CASE Len(p.free) = NumBlocks
    <2>1. q = [p EXCEPT !.hash = z, !.cached = <<>>]
      BY <1>3 DEF ResetPrefixCache
    <2>2. z \in [Blocks -> Seq(Nat)] /\ \A b \in Blocks : z[b] = NoHash
      BY EmptySeq DEF NoHash
    <2> HIDE DEF z, q
    <2>3. /\ q = [ref |-> q.ref, free |-> q.free, hash |-> q.hash, cached |-> q.cached]
          /\ q.ref = p.ref /\ q.free = p.free /\ q.hash = z /\ q.cached = <<>>
      BY <1>1, <2>1
    <2>4. DOMAIN q.cached = {}
      BY <2>3
    <2>5. PoolType(q)
      BY <1>1, <2>2, <2>3, <2>4 DEF PoolType
    <2>6. Indexed(q.hash, q.cached)
      BY <2>2, <2>3, <2>4 DEF Indexed
    <2>7. Blocks = ToSet(p.free)
      <3>1. IsFiniteSet(Blocks) /\ Cardinality(Blocks) = NumBlocks
        BY PoolAssumption, FS_Interval DEF Blocks
      <3>2. Cardinality(ToSet(p.free)) = Len(p.free)
        BY <1>1, MembersCount DEF Listed
      <3>3. ToSet(p.free) \in SUBSET Blocks
        BY <1>1, Members
      <3> QED
        BY <1>3, <3>1, <3>2, <3>3, FS_Subset
    <2>8. \A b \in Blocks : HoldersIn(bl, b) = {}
      BY <2>7 DEF Listed
    <2> QED
      BY <2>3, <2>5, <2>6, <2>8 DEF q
  <1> QED
    BY <1>2, <1>3

-----------------------------------------------------------------------------
(* What a request's blocks have for a hash, and how allocate_slots keeps it so *)

\* Multiples of the block size are in the order of their factors.
LEMMA TimesOrder ==
  ASSUME NEW a \in Nat, NEW b \in Nat
  PROVE  /\ a * BlockSize \in Nat
         /\ a <= b => a * BlockSize <= b * BlockSize
         /\ a < b => a * BlockSize < b * BlockSize
         /\ a > 0 => a * BlockSize > 0
  <1> DEFINE M == BlockSize
  <1>1. M \in Nat /\ M > 0
    BY PoolAssumption
  <1> HIDE DEF M
  <1>2. a * M \in Nat /\ b * M \in Nat
    BY <1>1
  <1>3. ASSUME a < b PROVE a * M < b * M
    <2>1. PICK d \in Nat : b = a + d /\ d > 0
      <3>1. b - a \in Nat /\ b = a + (b - a) /\ b - a > 0
        BY <1>3
      <3> QED
        BY <3>1
    <2>2. (a + d) * M = a * M + d * M
      BY <1>1
    <2>3. d * M > 0
      BY <1>1, <2>1
    <2>4. b * M = (a + d) * M
      BY <2>1
    <2>5. d * M \in Nat
      BY <1>1
    <2> QED
      BY <1>2, <2>2, <2>3, <2>4, <2>5
  <1>4. ASSUME a > 0 PROVE a * M > 0
    BY <1>1, <1>4
  <1>5. a <= b => a * M <= b * M
    <2>1. CASE a = b
      BY <1>2, <2>1
    <2>2. CASE a # b
      BY <1>2, <1>3, <2>2
    <2> QED
      BY <2>1, <2>2
  <1> QED
    BY <1>2, <1>3, <1>4, <1>5 DEF M

\* Whole blocks in a number of tokens.
LEMMA WholeBlocks ==
  ASSUME NEW m \in Nat
  PROVE  /\ m \div BlockSize \in Nat
         /\ (m \div BlockSize) * BlockSize <= m
         /\ \A a \in Nat : a * BlockSize <= m => a <= m \div BlockSize
  <1> DEFINE M == BlockSize
             q == m \div M
  <1>1. M \in Nat /\ M > 0
    BY PoolAssumption
  <1> HIDE DEF M
  <1>2. q \in Int /\ m = M * q + (m % M) /\ m % M \in 0 .. M - 1
    BY <1>1
  <1> HIDE DEF q
  <1>3. q >= 0
    <2>1. q <= -1 => M * q <= -M
      BY <1>1, <1>2
    <2>2. M * q \in Int
      BY <1>1, <1>2
    <2> QED
      BY <1>1, <1>2, <2>1, <2>2
  <1>4. M * q = q * M /\ M * q \in Int
    BY <1>1, <1>2
  <1>5. ASSUME NEW a \in Nat, a * M <= m PROVE a <= q
    <2>1. ASSUME a > q PROVE FALSE
      <3>1. q + 1 \in Nat /\ q + 1 <= a
        BY <1>2, <1>3, <2>1
      <3>2. (q + 1) * M <= a * M
        BY <3>1, TimesOrder DEF M
      <3>3. (q + 1) * M = q * M + M /\ a * M \in Nat
        BY <1>1, <1>2
      <3> QED
        BY <1>1, <1>2, <1>4, <1>5, <3>2, <3>3
    <2> QED
      BY <1>2, <2>1
  <1> QED
    BY <1>2, <1>3, <1>4, <1>5 DEF q, M

\* The whole blocks of m tokens are among the blocks that n tokens need.
LEMMA WithinRequired ==
  ASSUME NEW m \in Nat, NEW n \in Nat, m <= n
  PROVE  CDiv(n, BlockSize) \in Nat /\ m \div BlockSize <= CDiv(n, BlockSize)
  <1> DEFINE M == BlockSize
             x == n + M - 1
  <1>1. M \in Nat /\ M > 0
    BY PoolAssumption
  <1>2. x \in Nat /\ m <= x
    BY <1>1
  <1>3. CDiv(n, M) = x \div M
    BY DEF CDiv
  <1> HIDE DEF x
  <1>4. m \div BlockSize \in Nat /\ (m \div BlockSize) * BlockSize <= m
    BY WholeBlocks
  <1>5. x \div BlockSize \in Nat /\ \A a \in Nat : a * BlockSize <= x => a <= x \div BlockSize
    BY <1>2, WholeBlocks
  <1>6. (m \div BlockSize) * BlockSize <= x
    <2>1. (m \div BlockSize) * BlockSize \in Nat
      BY <1>4, TimesOrder
    <2> DEFINE y == (m \div BlockSize) * BlockSize
    <2> HIDE DEF y
    <2> QED
      BY <1>2, <1>4, <2>1 DEF y
  <1> QED
    BY <1>3, <1>4, <1>5, <1>6

\* The hash of a prefix tells where it ends.
LEMMA PrefixHash ==
  ASSUME NEW toks \in Seq(Nat), NEW i \in Nat, i * BlockSize <= Len(toks)
  PROVE  /\ Prefix(toks, i * BlockSize) \in Seq(Nat)
         /\ Len(Prefix(toks, i * BlockSize)) = i * BlockSize
         /\ i > 0 => Prefix(toks, i * BlockSize) # NoHash
  <1> DEFINE m == i * BlockSize
  <1>1. m \in Nat /\ (i > 0 => m > 0) /\ m <= Len(toks)
    BY TimesOrder
  <1> HIDE DEF m
  <1>2. SubSeq(toks, 1, m) \in Seq(Nat) /\ Len(SubSeq(toks, 1, m)) = m
    BY <1>1, FrontMembers
  <1> QED
    BY <1>1, <1>2 DEF Prefix, NoHash, m

\* The first n blocks of tb have the hashes of the prefixes of toks, the others none.
Own(hash, tb, n, toks) ==
  /\ IsInjective(tb)
  /\ n <= Len(tb)
  /\ \A i \in 1 .. Len(tb) :
       hash[tb[i]] = IF i <= n THEN Prefix(toks, i * BlockSize) ELSE NoHash

\* Only blocks with a hash are shared.
Private(hash, bl) ==
  \A r, q \in Requests : r # q =>
    \A b \in ToSet(bl[r]) \cap ToSet(bl[q]) : hash[b] # NoHash

\* The pool and the tables agree.
PoolInv(p, bl) ==
  /\ PoolType(p)
  /\ Counted(p.ref, bl)
  /\ Listed(p.free, bl)
  /\ Indexed(p.hash, p.cached)
  /\ Private(p.hash, bl)

\* Own looks at the hashes of the table only.
LEMMA OwnStays ==
  ASSUME NEW hash, NEW g, NEW tb \in Seq(Blocks), NEW n, NEW toks,
         Own(hash, tb, n, toks), \A b \in ToSet(tb) : g[b] = hash[b]
  PROVE  Own(g, tb, n, toks)
  <1>1. \A i \in 1 .. Len(tb) : tb[i] \in ToSet(tb)
    BY Members
  <1> QED
    BY <1>1 DEF Own

\* t is the pool p after request r took hits.
AfterHits(t, p, bl, r, hits) ==
  /\ PoolInv(t, Grown(bl, r, hits))
  /\ t.hash = p.hash
  /\ Len(t.free) = Len(p.free) - Cardinality({b \in ToSet(hits) : p.ref[b] = 0})

\* A request takes hits, which all have a hash.
LEMMA TakeHits ==
  ASSUME NEW p, NEW bl \in Tables, NEW r \in Requests, PoolInv(p, bl),
         NEW hits \in Seq(Blocks), ToSet(hits) \cap ToSet(bl[r]) = {},
         \A b \in ToSet(hits) : p.hash[b] # NoHash
  PROVE  AfterHits(Touch(p, hits), p, bl, r, hits)
  <1> DEFINE t == Touch(p, hits)
             g == Grown(bl, r, hits)
  <1>1. /\ PoolType(p) /\ Counted(p.ref, bl) /\ Listed(p.free, bl)
        /\ Indexed(p.hash, p.cached) /\ Private(p.hash, bl)
    BY DEF PoolInv
  <1>2. /\ PoolType(t) /\ t.hash = p.hash /\ t.cached = p.cached
        /\ Counted(t.ref, g) /\ Listed(t.free, g)
        /\ Len(t.free) = Len(p.free) - Cardinality({b \in ToSet(hits) : p.ref[b] = 0})
    BY <1>1, TouchAgrees
  <1> HIDE DEF t
  <1>3. g[r] = bl[r] \o hits /\ \A q \in Requests : q # r => g[q] = bl[q]
    BY GrownHolders
  <1>4. ToSet(g[r]) = ToSet(bl[r]) \cup ToSet(hits)
    BY <1>3, ConcatMembers DEF Tables
  <1> HIDE DEF g
  <1>5. Private(p.hash, g)
    <2>1. ASSUME NEW q \in Requests, q # r, NEW b, b \in ToSet(g[r]), b \in ToSet(g[q])
          PROVE  p.hash[b] # NoHash
      <3>1. CASE b \in ToSet(hits)
        BY <3>1
      <3>2. CASE b \in ToSet(bl[r])
        BY <1>1, <1>3, <2>1, <3>2 DEF Private
      <3> QED
        BY <1>4, <2>1, <3>1, <3>2
    <2>2. ASSUME NEW q \in Requests, NEW s \in Requests, q # s, NEW b \in ToSet(g[q]) \cap ToSet(g[s])
          PROVE  p.hash[b] # NoHash
      <3>1. CASE q = r
        BY <2>1, <2>2, <3>1
      <3>2. CASE s = r
        BY <2>1, <2>2, <3>2
      <3>3. CASE q # r /\ s # r
        BY <1>1, <1>3, <2>2, <3>3 DEF Private
      <3> QED
        BY <3>1, <3>2, <3>3
    <2> QED
      BY <2>2 DEF Private
  <1> QED
    BY <1>1, <1>2, <1>5 DEF PoolInv, AfterHits, t, g

\* x is the pool p after request r took the blocks new.
AfterNew(x, new, p, bl, r, n, m, toks) ==
  /\ new \in Seq(Blocks) /\ Len(new) = n
  /\ PoolInv(x, Grown(bl, r, new))
  /\ Own(x.hash, bl[r] \o new, m, toks)
  /\ \A q \in Requests \ {r} : \A b \in ToSet(bl[q]) : x.hash[b] = p.hash[b]

\* A request takes n new blocks.
LEMMA TakeNew ==
  ASSUME NEW p, NEW bl \in Tables, NEW r \in Requests, PoolInv(p, bl),
         NEW n \in Nat, n <= Len(p.free), NEW m \in Nat, NEW toks, Own(p.hash, bl[r], m, toks)
  PROVE  AfterNew(GetNewBlocks(p, n), NewBlocks(p, n), p, bl, r, n, m, toks)
  <1> DEFINE new == NewBlocks(p, n)
             x == GetNewBlocks(p, n)
             g == Grown(bl, r, new)
  <1>1. /\ PoolType(p) /\ Counted(p.ref, bl) /\ Listed(p.free, bl)
        /\ Indexed(p.hash, p.cached) /\ Private(p.hash, bl)
    BY DEF PoolInv
  <1>2. /\ new \in Seq(Blocks) /\ Len(new) = n /\ IsInjective(new)
        /\ \A b \in ToSet(new) : HoldersIn(bl, b) = {}
        /\ PoolType(x) /\ Counted(x.ref, g) /\ Listed(x.free, g) /\ Indexed(x.hash, x.cached)
        /\ \A b \in Blocks : x.hash[b] = IF b \in ToSet(new) THEN NoHash ELSE p.hash[b]
    BY <1>1, GetNewBlocksAgrees
  <1> HIDE DEF new, x
  <1>3. g[r] = bl[r] \o new /\ \A q \in Requests : q # r => g[q] = bl[q]
    BY <1>2, GrownHolders, ZenonT(60)
  <1> HIDE DEF g
  <1>4. \A q \in Requests : bl[q] \in Seq(Blocks) /\ ToSet(bl[q]) \subseteq Blocks
    BY Members DEF Tables
  <1>5. \A q \in Requests : ToSet(bl[q]) \cap ToSet(new) = {}
    BY <1>2 DEF HoldersIn
  <1>6. \A q \in Requests : \A b \in ToSet(bl[q]) : x.hash[b] = p.hash[b]
    BY <1>2, <1>4, <1>5
  <1> DEFINE tb == bl[r]
             now == tb \o new
             l == Len(tb)
  <1>7. tb \in Seq(Blocks)
    BY <1>4
  <1>8. Own(p.hash, tb, m, toks) /\ ToSet(tb) \cap ToSet(new) = {}
        /\ \A b \in ToSet(tb) : x.hash[b] = p.hash[b]
    BY <1>5, <1>6
  <1> HIDE DEF tb
  <1>9. IsInjective(tb) /\ m <= l /\ l \in Nat
        /\ \A i \in 1 .. l : p.hash[tb[i]] = IF i <= m THEN Prefix(toks, i * BlockSize) ELSE NoHash
    BY <1>7, <1>8, Members DEF Own
  <1>10. /\ Len(now) = l + n /\ \A i \in 1 .. l : now[i] = tb[i]
         /\ \A i \in l + 1 .. l + n : now[i] = new[i - l]
         /\ ToSet(now) = ToSet(tb) \cup ToSet(new)
         /\ IsInjective(now)
    <2>1. new \in Seq(Blocks) /\ IsInjective(new) /\ IsInjective(tb) /\ ToSet(tb) \cap ToSet(new) = {}
      BY <1>2, <1>8, <1>9
    <2>2. /\ Len(now) = l + Len(new) /\ \A i \in 1 .. l : now[i] = tb[i]
          /\ \A i \in l + 1 .. l + Len(new) : now[i] = new[i - l]
          /\ ToSet(now) = ToSet(tb) \cup ToSet(new)
          /\ IsInjective(now)
      BY <1>7, <2>1, ConcatMembers
    <2> HIDE DEF now, l
    <2> QED
      BY <1>2, <2>2
  <1> HIDE DEF now, l
  <1>11. ASSUME NEW i \in 1 .. l + n
         PROVE  x.hash[now[i]] = IF i <= m THEN Prefix(toks, i * BlockSize) ELSE NoHash
    <2>1. CASE i <= l
      <3>1. i \in 1 .. l
        BY <1>9, <2>1
      <3>2. now[i] = tb[i] /\ tb[i] \in ToSet(tb)
        BY <1>7, <1>10, <3>1, Members DEF l
      <3> QED
        BY <1>8, <1>9, <3>1, <3>2
    <2>2. CASE ~(i <= l)
      <3>1. i \in l + 1 .. l + n /\ i - l \in 1 .. n /\ ~(i <= m)
        BY <1>9, <2>2
      <3>2. now[i] = new[i - l]
        BY <1>10, <3>1
      <3>3. new[i - l] \in ToSet(new) /\ new[i - l] \in Blocks
        BY <1>2, <3>1, Members
      <3> QED
        BY <1>2, <3>1, <3>2, <3>3
    <2> QED
      BY <2>1, <2>2
  <1>12. Own(x.hash, now, m, toks)
    BY <1>9, <1>10, <1>11 DEF Own
  <1>13. Private(x.hash, g)
    <2>1. ASSUME NEW q \in Requests, q # r, NEW b, b \in ToSet(g[r]), b \in ToSet(g[q])
          PROVE  x.hash[b] # NoHash
      <3>1. b \in ToSet(bl[q]) /\ b \in ToSet(bl[r])
        BY <1>3, <1>5, <1>10, <2>1 DEF now, tb
      <3> QED
        BY <1>1, <1>6, <2>1, <3>1 DEF Private
    <2>2. ASSUME NEW q \in Requests, NEW s \in Requests, q # s, NEW b \in ToSet(g[q]) \cap ToSet(g[s])
          PROVE  x.hash[b] # NoHash
      <3>1. CASE q = r
        BY <2>1, <2>2, <3>1
      <3>2. CASE s = r
        BY <2>1, <2>2, <3>2
      <3>3. CASE q # r /\ s # r
        BY <1>1, <1>3, <1>6, <2>2, <3>3 DEF Private
      <3> QED
        BY <3>1, <3>2, <3>3
    <2> QED
      BY <2>2 DEF Private
  <1> QED
    BY <1>1, <1>2, <1>6, <1>12, <1>13 DEF PoolInv, AfterNew, x, new, g, now, tb

\* There are tokens for n blocks.
Covers(toks, n) == n * BlockSize <= Len(toks)

\* The pool after the blocks of tb behind the a-th get hashes, up to the b-th.
WithHashes(p, tb, a, b, toks) ==
  CacheFullBlocks(p, SubSeq(tb, a + 1, b), [j \in 1 .. b - a |-> Prefix(toks, (a + j) * BlockSize)])

\* z is the pool p after request r got the table f[r] and hashes for its first b blocks.
AfterHashes(z, f, p, bl, r, b, toks) ==
  /\ PoolInv(z, f)
  /\ Own(z.hash, f[r], b, toks)
  /\ \A q \in Requests \ {r} : \A c \in ToSet(bl[q]) : z.hash[c] = p.hash[c]

\* A request gets hashes for its blocks behind the a-th, up to the b-th.
LEMMA GiveHashes ==
  ASSUME NEW p, NEW bl \in Tables, NEW r \in Requests, PoolInv(p, bl),
         NEW toks \in Seq(Nat), NEW a \in Nat, NEW b \in Nat, a < b, b <= Len(bl[r]),
         Covers(toks, b), Own(p.hash, bl[r], a, toks), NEW x, x = WithHashes(p, bl[r], a, b, toks)
  PROVE  AfterHashes(x, bl, p, bl, r, b, toks)
  <1> DEFINE tb == bl[r]
             part == SubSeq(tb, a + 1, b)
             hashes == [j \in 1 .. b - a |-> Prefix(toks, (a + j) * BlockSize)]
  <1>1. /\ PoolType(p) /\ Counted(p.ref, bl) /\ Listed(p.free, bl)
        /\ Indexed(p.hash, p.cached) /\ Private(p.hash, bl)
    BY DEF PoolInv
  <1>2. tb \in Seq(Blocks) /\ Own(p.hash, tb, a, toks) /\ b <= Len(tb)
    BY DEF Tables
  <1>3. x = CacheFullBlocks(p, part, hashes)
    BY DEF WithHashes
  <1> HIDE DEF tb, hashes
  <1>4. /\ part \in Seq(Blocks) /\ Len(part) = b - a
        /\ \A i \in 1 .. b - a : part[i] = tb[a + i]
        /\ \A c : c \in ToSet(part) <=> \E i \in a + 1 .. b : tb[i] = c
        /\ IsInjective(part)
    <2>1. IsInjective(tb) /\ a <= b
      BY <1>2 DEF Own
    <2>2. PartOf(Blocks, part, tb, a, b)
      BY <1>2, <2>1, PartMembers, Zenon
    <2> HIDE DEF part
    <2> QED
      BY <2>1, <2>2, Zenon DEF PartOf
  <1> HIDE DEF part
  <1>5. ASSUME NEW i \in 1 .. b
        PROVE  /\ Prefix(toks, i * BlockSize) \in Seq(Nat)
               /\ Prefix(toks, i * BlockSize) # NoHash
    <2>1. i \in Nat /\ i > 0 /\ i <= b
      OBVIOUS
    <2>2. i * BlockSize <= b * BlockSize /\ i * BlockSize \in Nat /\ b * BlockSize \in Nat
      BY <2>1, TimesOrder
    <2>3. Len(toks) \in Nat
      BY LenProperties
    <2>4. i * BlockSize <= Len(toks)
      <3> DEFINE u == i * BlockSize
                 v == b * BlockSize
      <3>1. u \in Nat /\ v \in Nat /\ u <= v /\ v <= Len(toks)
        BY <2>2 DEF Covers
      <3> HIDE DEF u, v
      <3>2. u <= Len(toks)
        BY <2>3, <3>1
      <3> QED
        BY <3>2 DEF u
    <2> QED
      BY <2>1, <2>4, PrefixHash
  <1>6. \A j \in 1 .. b - a : a + j \in 1 .. b /\ hashes[j] = Prefix(toks, (a + j) * BlockSize)
    BY DEF hashes
  <1>7. hashes \in Seq(Seq(Nat)) /\ Len(hashes) = b - a
    <2> DEFINE S == Seq(Nat)
               H(j) == Prefix(toks, (a + j) * BlockSize)
    <2>1. \A j \in 1 .. b - a : H(j) \in S
      BY <1>5
    <2>0. hashes = [j \in 1 .. b - a |-> H(j)]
      BY DEF hashes
    <2> HIDE DEF S, H
    <2>2. hashes \in [1 .. b - a -> S] /\ b - a \in Nat
      BY <2>0, <2>1
    <2>3. hashes \in Seq(S)
      BY <2>2, SeqDef
    <2>4. DOMAIN hashes = 1 .. b - a /\ DOMAIN hashes = 1 .. Len(hashes) /\ Len(hashes) \in Nat
      BY <2>2, <2>3, LenProperties
    <2>5. Len(hashes) = b - a
      <3> DEFINE d == b - a
                 e == Len(hashes)
      <3>1. d \in Nat /\ e \in Nat /\ 1 .. d = 1 .. e
        BY <2>2, <2>4, Zenon
      <3> HIDE DEF d, e
      <3>2. d = e
        BY <3>1
      <3> QED
        BY <3>2, Zenon DEF d, e
    <2> QED
      BY <2>3, <2>5, Zenon DEF S
  <1>8. /\ IsInjective(tb) /\ Len(tb) \in Nat
        /\ \A i \in 1 .. Len(tb) : p.hash[tb[i]] = IF i <= a THEN Prefix(toks, i * BlockSize) ELSE NoHash
        /\ \A i \in 1 .. Len(tb) : tb[i] \in ToSet(tb)
    BY <1>2, Members DEF Own
  <1>9. \A i \in a + 1 .. b : i \in 1 .. Len(tb) /\ p.hash[tb[i]] = NoHash
    BY <1>2, <1>8
  <1>10. \A i \in 1 .. Len(part) : p.hash[part[i]] = NoHash /\ hashes[i] # NoHash
    <2>1. ASSUME NEW i \in 1 .. b - a PROVE p.hash[part[i]] = NoHash /\ hashes[i] # NoHash
      <3>1. a + i \in a + 1 .. b
        OBVIOUS
      <3>2. p.hash[part[i]] = NoHash
        BY <1>4, <1>9, <3>1
      <3>3. hashes[i] # NoHash
        BY <1>5, <1>6, Zenon
      <3> QED
        BY <3>2, <3>3
    <2> QED
      BY <1>4, <2>1
  <1>11. /\ PoolType(x) /\ x.ref = p.ref /\ x.free = p.free /\ Indexed(x.hash, x.cached)
         /\ \A i \in 1 .. Len(part) : x.hash[part[i]] = hashes[i]
         /\ \A c \in Blocks \ ToSet(part) : x.hash[c] = p.hash[c]
    <2>1. Len(hashes) = Len(part)
      BY <1>4, <1>7
    <2> DEFINE y == CacheFullBlocks(p, part, hashes)
    <2>2. WithNewHashes(y, p, part, hashes)
      BY <1>1, <1>4, <1>7, <1>10, <2>1, CacheAgrees, Zenon
    <2> QED
      BY <1>3, <2>2, Zenon DEF WithNewHashes
  <1>12. \A c \in ToSet(part) : p.hash[c] = NoHash /\ x.hash[c] # NoHash /\ c \in ToSet(tb)
    <2>1. ASSUME NEW c \in ToSet(part) PROVE p.hash[c] = NoHash /\ x.hash[c] # NoHash /\ c \in ToSet(tb)
      <3>1. PICK i \in a + 1 .. b : tb[i] = c
        BY <1>4
      <3>2. i - a \in 1 .. Len(part) /\ a + (i - a) = i
        BY <1>4
      <3>3. part[i - a] = c
        BY <1>4, <3>1, <3>2
      <3>4. x.hash[c] = hashes[i - a] /\ hashes[i - a] # NoHash /\ p.hash[c] = NoHash
        BY <1>10, <1>11, <3>2, <3>3, Zenon
      <3>5. c \in ToSet(tb)
        BY <1>8, <1>9, <3>1, Zenon
      <3> QED
        BY <3>4, <3>5
    <2> QED
      BY <2>1
  <1>13. ASSUME NEW q \in Requests, q # r, NEW c \in ToSet(bl[q])
         PROVE  c \in Blocks /\ c \notin ToSet(part) /\ x.hash[c] = p.hash[c]
    <2>1. c \in Blocks
      BY Members DEF Tables
    <2>2. c \notin ToSet(part)
      <3>1. c \in ToSet(bl[r]) => p.hash[c] # NoHash
        BY <1>1, <1>13 DEF Private
      <3> QED
        BY <1>12, <3>1 DEF tb
    <2> QED
      BY <1>11, <2>1, <2>2
  <1>14. ASSUME NEW i \in 1 .. Len(tb)
         PROVE  x.hash[tb[i]] = IF i <= b THEN Prefix(toks, i * BlockSize) ELSE NoHash
    <2>1. CASE i \in a + 1 .. b
      <3>1. i - a \in 1 .. b - a /\ a + (i - a) = i
        BY <2>1
      <3>2. part[i - a] = tb[i] /\ hashes[i - a] = Prefix(toks, i * BlockSize)
        BY <1>4, <1>6, <3>1
      <3> QED
        BY <1>4, <1>11, <2>1, <3>1, <3>2
    <2>2. CASE i \notin a + 1 .. b
      <3>1. tb[i] \notin ToSet(part)
        <4>1. \A j \in 1 .. Len(tb) : tb[i] = tb[j] => i = j
          BY <1>2, <1>8, Injective
        <4> QED
          BY <1>4, <1>9, <2>2, <4>1
      <3>2. tb[i] \in Blocks
        BY <1>2, Members
      <3>3. x.hash[tb[i]] = p.hash[tb[i]]
        BY <1>11, <3>1, <3>2
      <3>4. i <= a <=> i <= b
        BY <1>8, <2>2
      <3> QED
        BY <1>8, <3>3, <3>4
    <2> QED
      BY <2>1, <2>2
  <1>15. Own(x.hash, tb, b, toks)
    BY <1>2, <1>8, <1>14 DEF Own
  <1>16. Private(x.hash, bl)
    <2>1. ASSUME NEW q \in Requests, NEW s \in Requests, q # s, NEW c \in ToSet(bl[q]) \cap ToSet(bl[s])
          PROVE  x.hash[c] # NoHash
      <3>1. p.hash[c] # NoHash
        BY <1>1, <2>1 DEF Private
      <3>2. CASE q # r
        BY <1>13, <2>1, <3>1, <3>2
      <3>3. CASE s # r
        BY <1>13, <2>1, <3>1, <3>3
      <3> QED
        BY <2>1, <3>2, <3>3
    <2> QED
      BY <2>1 DEF Private
  <1> QED
    BY <1>1, <1>11, <1>13, <1>15, <1>16 DEF PoolInv, AfterHashes, tb

\* The pool after allocate_slots: request r takes hits and k more blocks, and gets hashes
\* for its blocks up to the one numbered upto.
Allocated(p, tb, hits, k, from, upto, toks) ==
  LET touched == Touch(p, hits)
      grown == IF k > 0 THEN GetNewBlocks(touched, k) ELSE touched
  IN  IF from >= upto THEN grown ELSE WithHashes(grown, tb, from, upto, toks)

\* The request's table after it.
Enlarged(p, held, hits, k) == held \o (IF k > 0 THEN NewBlocks(Touch(p, hits), k) ELSE <<>>)

\* allocate_slots keeps the pool and the tables in agreement.
LEMMA AllocateAgrees ==
  ASSUME NEW p, NEW bl \in Tables, NEW r \in Requests, PoolInv(p, bl),
         NEW hits \in Seq(Blocks), ToSet(hits) \cap ToSet(bl[r]) = {},
         \A b \in ToSet(hits) : p.hash[b] # NoHash,
         NEW k \in Int, k <= Len(p.free) - Cardinality({b \in ToSet(hits) : p.ref[b] = 0}),
         NEW toks \in Seq(Nat), NEW from \in Nat, NEW upto \in Nat, from <= upto,
         Own(p.hash, bl[r] \o hits, from, toks), Covers(toks, upto),
         upto <= Len(bl[r] \o hits) \/ upto <= Len(bl[r] \o hits) + k,
         NEW now, now = Enlarged(p, bl[r] \o hits, hits, k)
  PROVE  /\ now \in Seq(Blocks)
         /\ upto <= Len(now)
         /\ AfterHashes(Allocated(p, now, hits, k, from, upto, toks), [bl EXCEPT ![r] = now],
                        p, bl, r, upto, toks)
  <1> DEFINE t == Touch(p, hits)
             held == bl[r] \o hits
             g == Grown(bl, r, hits)
  <1>1. /\ PoolInv(t, g) /\ t.hash = p.hash
        /\ Len(t.free) = Len(p.free) - Cardinality({b \in ToSet(hits) : p.ref[b] = 0})
    <2>1. AfterHits(t, p, bl, r, hits)
      BY TakeHits, Zenon
    <2> HIDE DEF t
    <2> QED
      BY <2>1, Zenon DEF AfterHits
  <1>2. /\ g \in Tables /\ g[r] = held /\ held \in Seq(Blocks) /\ Len(held) \in Nat
        /\ \A q \in Requests : q # r => g[q] = bl[q]
    <2>1. /\ g \in Tables /\ g[r] = held
          /\ \A q \in Requests : q # r => g[q] = bl[q]
      BY GrownHolders, ZenonT(60)
    <2>2. bl[r] \in Seq(Blocks)
      BY DEF Tables
    <2>3. held \in Seq(Blocks)
      BY <2>2, ConcatProperties, Zenon
    <2>4. Len(held) \in Nat
      BY <2>3, LenProperties
    <2> QED
      BY <2>1, <2>3, <2>4
  <1>3. Own(t.hash, g[r], from, toks)
    BY <1>1, <1>2
  <1>4. [bl EXCEPT ![r] = now] = [g EXCEPT ![r] = now]
    BY DEF Grown
  <1>5. ASSUME NEW y, NEW f, f = [bl EXCEPT ![r] = now], f \in Tables, f[r] = now,
               now \in Seq(Blocks), upto <= Len(now), PoolInv(y, f), Own(y.hash, now, from, toks),
               \A q \in Requests \ {r} : \A b \in ToSet(bl[q]) : y.hash[b] = p.hash[b],
               NEW z, z = IF from >= upto THEN y ELSE WithHashes(y, now, from, upto, toks)
        PROVE  AfterHashes(z, f, p, bl, r, upto, toks)
    <2>1. CASE from >= upto
      <3>1. from = upto /\ z = y
        BY <1>5, <2>1
      <3> QED
        BY <1>5, <3>1 DEF AfterHashes
    <2>2. CASE ~(from >= upto)
      <3>1. z = WithHashes(y, f[r], from, upto, toks)
        BY <1>5, <2>2
      <3>2. from < upto /\ upto <= Len(f[r]) /\ Own(y.hash, f[r], from, toks)
        BY <1>5, <2>2
      <3>3. /\ PoolInv(z, f) /\ Own(z.hash, f[r], upto, toks)
            /\ \A q \in Requests \ {r} : \A c \in ToSet(f[q]) : z.hash[c] = y.hash[c]
        <4>1. AfterHashes(z, f, y, f, r, upto, toks)
          BY <1>5, <3>1, <3>2, GiveHashes, Zenon
        <4> QED
          BY <4>1, Zenon DEF AfterHashes
      <3>4. \A q \in Requests \ {r} : f[q] = bl[q]
        BY <1>5
      <3> QED
        BY <1>5, <3>3, <3>4, ZenonT(60) DEF AfterHashes
    <2> QED
      BY <2>1, <2>2
  <1> DEFINE f == [bl EXCEPT ![r] = now]
             z == Allocated(p, now, hits, k, from, upto, toks)
             y == IF k > 0 THEN GetNewBlocks(t, k) ELSE t
  <1>6. z = IF from >= upto THEN y ELSE WithHashes(y, now, from, upto, toks)
    BY DEF Allocated
  <1>7. now = held \o (IF k > 0 THEN NewBlocks(t, k) ELSE <<>>)
    BY DEF Enlarged
  <1> HIDE DEF z, t, g, held
  <1>8. /\ f \in Tables /\ f[r] = now /\ now \in Seq(Blocks) /\ upto <= Len(now)
        /\ PoolInv(y, f) /\ Own(y.hash, now, from, toks)
        /\ \A q \in Requests \ {r} : \A b \in ToSet(bl[q]) : y.hash[b] = p.hash[b]
    <2>1. CASE k > 0
      <3> DEFINE new == NewBlocks(t, k)
      <3>1. k \in Nat /\ k <= Len(t.free)
        BY <1>1, <2>1
      <3>2. /\ new \in Seq(Blocks) /\ Len(new) = k
            /\ PoolInv(GetNewBlocks(t, k), Grown(g, r, new))
            /\ Own(GetNewBlocks(t, k).hash, g[r] \o new, from, toks)
            /\ \A q \in Requests \ {r} : \A b \in ToSet(g[q]) : GetNewBlocks(t, k).hash[b] = t.hash[b]
        <4>1. AfterNew(GetNewBlocks(t, k), new, t, g, r, k, from, toks)
          BY <1>1, <1>2, <1>3, <3>1, TakeNew, Zenon
        <4> HIDE DEF new
        <4> QED
          BY <4>1, Zenon DEF AfterNew
      <3>3. y = GetNewBlocks(t, k) /\ now = g[r] \o new
        BY <1>2, <1>7, <2>1
      <3> HIDE DEF new, y
      <3>4. f = Grown(g, r, new)
        BY <1>4, <3>3 DEF Grown
      <3>5. f \in Tables /\ f[r] = now
        <4>1. Grown(g, r, new) \in Tables /\ Grown(g, r, new)[r] = g[r] \o new
          <5>1. g[r] \o new \in Seq(Blocks)
            BY <1>2, <3>2, ConcatProperties, Zenon
          <5> QED
            BY <1>2, <5>1 DEF Grown, Tables
        <4> QED
          BY <3>3, <3>4, <4>1, Zenon
      <3>6. now \in Seq(Blocks) /\ Len(now) = Len(held) + k
        BY <1>2, <3>2, <3>3, ConcatProperties, ZenonT(60)
      <3>7. upto <= Len(now)
        <4>1. upto <= Len(held) \/ upto <= Len(held) + k
          BY DEF held
        <4> QED
          BY <1>2, <3>1, <3>6, <4>1
      <3>8. \A q \in Requests \ {r} : \A b \in ToSet(bl[q]) : y.hash[b] = p.hash[b]
        BY <1>1, <1>2, <3>2, <3>3
      <3> HIDE DEF f
      <3> QED
        BY <3>2, <3>3, <3>4, <3>5, <3>6, <3>7, <3>8
    <2>2. CASE ~(k > 0)
      <3>1. y = t
        BY <2>2
      <3>2. now = held \o <<>>
        BY <1>7, <2>2
      <3>3. now = held
        BY <1>2, <3>2, ConcatEmptySeq
      <3>4. f = g
        BY <1>2, <1>4, <3>3 DEF Tables
      <3>5. upto <= Len(now)
        <4>1. upto <= Len(held) \/ upto <= Len(held) + k
          BY DEF held
        <4> QED
          BY <1>2, <2>2, <3>3, <4>1
      <3> HIDE DEF f, y
      <3> QED
        BY <1>1, <1>2, <1>3, <3>1, <3>3, <3>4, <3>5
    <2> QED
      BY <2>1, <2>2
  <1> HIDE DEF y
  <1>9. AfterHashes(z, f, p, bl, r, upto, toks)
    <2>1. f = [bl EXCEPT ![r] = now]
      OBVIOUS
    <2> HIDE DEF f
    <2> QED
      BY <1>5, <1>6, <1>8, <2>1, Zenon
  <1> QED
    BY <1>8, <1>9, Zenon DEF z

-----------------------------------------------------------------------------
(* The line: the running requests and then the waiting ones, oldest first *)

Reqs == [status : Statuses, tokens : Seq(Nat), computed : Nat]

\* Oldest first, with the statuses that the two lists stand for; requests arrive in order.
InLine(run, wait, rq) ==
  /\ Ascending(run) /\ Ascending(wait)
  /\ \A r \in ToSet(run) : \A q \in ToSet(wait) : r < q
  /\ \A r \in ToSet(run) : rq[r].status = "running"
  /\ \A r \in ToSet(wait) : rq[r].status \in {"waiting", "preempted"}
  /\ \A r, q \in Requests : r < q /\ rq[r].status = "absent" => rq[q].status = "absent"

\* An ascending sequence has no member twice, and its last member is the greatest.
LEMMA AscendingMembers ==
  ASSUME NEW s \in Seq(Requests), Ascending(s)
  PROVE  /\ IsInjective(s)
         /\ \A i, j \in 1 .. Len(s) : s[i] = s[j] => i = j
  <1>1. \A i \in 1 .. Len(s) : s[i] \in Nat
    BY Members, ServingAssumption DEF Requests
  <1>2. ASSUME NEW i \in 1 .. Len(s), NEW j \in 1 .. Len(s), s[i] = s[j] PROVE i = j
    <2>1. ~(i < j) /\ ~(j < i)
      BY <1>1, <1>2 DEF Ascending
    <2> QED
      BY <2>1
  <1> QED
    BY <1>2, Injective

\* A request joins at the end.
LEMMA LineAppend ==
  ASSUME NEW s \in Seq(Requests), NEW r \in Requests, Ascending(s), \A q \in ToSet(s) : q < r
  PROVE  /\ Append(s, r) \in Seq(Requests)
         /\ Ascending(Append(s, r)) /\ ToSet(Append(s, r)) = ToSet(s) \cup {r}
  <1> DEFINE u == Append(s, r)
             n == Len(s)
  <1>1. /\ u \in Seq(Requests) /\ Len(u) = n + 1 /\ u[n + 1] = r /\ n \in Nat
        /\ \A i \in 1 .. n : u[i] = s[i]
    BY AppendProperties, LenProperties
  <1>2. /\ \A x : x \in ToSet(s) <=> \E i \in 1 .. n : s[i] = x
        /\ \A x : x \in ToSet(u) <=> \E i \in 1 .. Len(u) : u[i] = x
    BY <1>1, Members
  <1>3. \A i, j \in 1 .. n : i < j => s[i] < s[j]
    BY DEF Ascending
  <1> HIDE DEF u, n
  <1>4. ASSUME NEW i \in 1 .. n + 1, NEW j \in 1 .. n + 1, i < j PROVE u[i] < u[j]
    <2>1. i \in 1 .. n
      BY <1>1, <1>4
    <2>2. CASE j = n + 1
      BY <1>1, <1>2, <2>1, <2>2
    <2>3. CASE j # n + 1
      <3>1. j \in 1 .. n
        BY <1>1, <2>3
      <3> QED
        BY <1>1, <1>3, <1>4, <2>1, <3>1
    <2> QED
      BY <2>2, <2>3
  <1>5. ASSUME NEW x PROVE x \in ToSet(u) <=> x \in ToSet(s) \cup {r}
    <2>1. ASSUME NEW i \in 1 .. n + 1, u[i] = x PROVE x \in ToSet(s) \cup {r}
      <3>1. CASE i = n + 1
        BY <1>1, <2>1, <3>1
      <3>2. CASE i # n + 1
        <4>1. i \in 1 .. n
          BY <1>1, <3>2
        <4> QED
          BY <1>1, <1>2, <2>1, <4>1
      <3> QED
        BY <3>1, <3>2
    <2>2. ASSUME NEW i \in 1 .. n, s[i] = x PROVE x \in ToSet(u)
      <3>1. i \in 1 .. Len(u) /\ u[i] = x
        BY <1>1, <2>2
      <3> QED
        BY <1>2, <3>1
    <2>3. r \in ToSet(u)
      <3>1. n + 1 \in 1 .. Len(u)
        BY <1>1
      <3> QED
        BY <1>1, <1>2, <3>1
    <2> QED
      BY <1>1, <1>2, <2>1, <2>2, <2>3
  <1> QED
    BY <1>1, <1>4, <1>5 DEF Ascending, u

\* The first of an ascending sequence.
LEMMA LineHead ==
  ASSUME NEW s \in Seq(Requests), Ascending(s), s # <<>>
  PROVE  /\ Head(s) \in Requests /\ Head(s) \in ToSet(s)
         /\ Tail(s) \in Seq(Requests) /\ Ascending(Tail(s))
         /\ ToSet(Tail(s)) \subseteq ToSet(s)
         /\ \A q \in ToSet(Tail(s)) : Head(s) < q
  <1> DEFINE u == Tail(s)
             n == Len(s)
  <1>1. /\ Head(s) \in Requests /\ u \in Seq(Requests) /\ Len(u) = n - 1
        /\ \A i \in 1 .. Len(u) : u[i] = s[i + 1]
    BY HeadTailProperties
  <1>2. n \in Nat \ {0} /\ Head(s) = s[1]
    BY EmptySeq
  <1>3. /\ \A x : x \in ToSet(s) <=> \E i \in 1 .. n : s[i] = x
        /\ \A x : x \in ToSet(u) <=> \E i \in 1 .. Len(u) : u[i] = x
    BY <1>1, Members
  <1>4. \A i, j \in 1 .. n : i < j => s[i] < s[j]
    BY DEF Ascending
  <1> HIDE DEF u, n
  <1>5. \A i \in 1 .. n - 1 : i + 1 \in 1 .. n /\ u[i] = s[i + 1] /\ s[1] < s[i + 1]
    BY <1>1, <1>2, <1>4
  <1>6. ASSUME NEW i \in 1 .. n - 1, NEW j \in 1 .. n - 1, i < j PROVE u[i] < u[j]
    <2>1. i + 1 \in 1 .. n /\ j + 1 \in 1 .. n /\ i + 1 < j + 1
      BY <1>2, <1>6
    <2> QED
      BY <1>4, <1>5, <2>1
  <1>7. \A x \in ToSet(u) : x \in ToSet(s) /\ s[1] < x
    BY <1>1, <1>3, <1>5
  <1>8. s[1] \in ToSet(s)
    BY <1>2, <1>3
  <1> QED
    BY <1>1, <1>2, <1>6, <1>7, <1>8 DEF Ascending, u

\* The last of an ascending sequence.
LEMMA LineLast ==
  ASSUME NEW s \in Seq(Requests), Ascending(s), s # <<>>
  PROVE  /\ Len(s) \in Nat \ {0}
         /\ Last(s) \in Requests /\ Last(s) \in ToSet(s)
         /\ Front(s) \in Seq(Requests) /\ Ascending(Front(s))
         /\ Len(Front(s)) = Len(s) - 1
         /\ \A i \in 1 .. Len(s) - 1 : Front(s)[i] = s[i]
         /\ ToSet(Front(s)) \subseteq ToSet(s)
         /\ \A q \in ToSet(Front(s)) : q < Last(s)
  <1> DEFINE n == Len(s)
             m == n - 1
             u == SubSeq(s, 1, m)
  <1>1. n \in Nat \ {0} /\ m \in Nat /\ m <= n
    BY EmptySeq
  <1>2. /\ u \in Seq(Requests) /\ Len(u) = m /\ \A i \in 1 .. m : u[i] = s[i]
        /\ \A x : x \in ToSet(u) <=> \E i \in 1 .. m : s[i] = x
    <2> HIDE DEF m
    <2> QED
      BY <1>1, FrontMembers
  <1>3. /\ \A x : x \in ToSet(s) <=> \E i \in 1 .. n : s[i] = x
        /\ \A i \in 1 .. n : s[i] \in Requests /\ s[i] \in ToSet(s)
    BY Members
  <1>4. \A i, j \in 1 .. n : i < j => s[i] < s[j]
    BY DEF Ascending
  <1>5. Front(s) = u /\ Last(s) = s[n]
    BY DEF Front, Last
  <1> HIDE DEF u
  <1>6. Ascending(u)
    BY <1>1, <1>2, <1>4, SMTT(30) DEF Ascending
  <1>7. \A x \in ToSet(u) : x \in ToSet(s) /\ x < s[n]
    BY <1>1, <1>2, <1>3, <1>4
  <1> QED
    BY <1>1, <1>2, <1>3, <1>5, <1>6, <1>7

\* A request joins at the front.
LEMMA LinePrepend ==
  ASSUME NEW s \in Seq(Requests), NEW r \in Requests, Ascending(s), \A q \in ToSet(s) : r < q
  PROVE  /\ <<r>> \o s \in Seq(Requests)
         /\ Ascending(<<r>> \o s) /\ ToSet(<<r>> \o s) = ToSet(s) \cup {r}
  <1> DEFINE h == <<r>>
             u == h \o s
             n == Len(s)
  <1>1. h \in Seq(Requests) /\ Len(h) = 1 /\ h[1] = r /\ ToSet(h) = {r}
    <2>1. h \in Seq(Requests) /\ Len(h) = 1 /\ h[1] = r
      OBVIOUS
    <2> HIDE DEF h
    <2>2. \A x : x \in ToSet(h) <=> \E i \in 1 .. Len(h) : h[i] = x
      BY <2>1, Members, Zenon
    <2>3. \A x : x \in ToSet(h) <=> x = r
      BY <2>1, <2>2
    <2> QED
      BY <2>1, <2>3
  <1> HIDE DEF h
  <1>2. /\ u \in Seq(Requests) /\ Len(u) = Len(h) + n /\ n \in Nat
        /\ \A i \in 1 .. Len(h) : u[i] = h[i]
        /\ \A i \in Len(h) + 1 .. Len(h) + n : u[i] = s[i - Len(h)]
        /\ ToSet(u) = ToSet(h) \cup ToSet(s)
    <2>1. Joined(Requests, u, h, s)
      BY <1>1, ConcatJoins, Zenon
    <2>2. n \in Nat
      BY LenProperties
    <2> HIDE DEF u
    <2> QED
      BY <2>1, <2>2, Zenon DEF Joined
  <1> HIDE DEF u, n
  <1>3. Len(u) = n + 1 /\ u[1] = r /\ \A i \in 2 .. n + 1 : u[i] = s[i - 1]
    BY <1>1, <1>2
  <1>4. /\ \A i, j \in 1 .. n : i < j => s[i] < s[j]
        /\ \A i \in 1 .. n : s[i] \in ToSet(s)
    BY Members DEF Ascending, n
  <1>5. ASSUME NEW i \in 1 .. n + 1, NEW j \in 1 .. n + 1, i < j PROVE u[i] < u[j]
    <2>1. j \in 2 .. n + 1 /\ j - 1 \in 1 .. n /\ u[j] = s[j - 1]
      BY <1>2, <1>3, <1>5
    <2>2. CASE i = 1
      BY <1>3, <1>4, <2>1, <2>2
    <2>3. CASE i # 1
      <3>1. i \in 2 .. n + 1 /\ i - 1 \in 1 .. n /\ i - 1 < j - 1
        BY <1>2, <1>5, <2>3
      <3> QED
        BY <1>3, <1>4, <2>1, <3>1
    <2> QED
      BY <2>2, <2>3
  <1> QED
    BY <1>1, <1>2, <1>3, <1>5 DEF Ascending, u, h

\* The line is in order of arrival.
LEMMA LineOrder ==
  ASSUME running \in Seq(Requests), waiting \in Seq(Requests), InLine(running, waiting, req)
  PROVE  ArrivalOrder
  <1> DEFINE line == running \o waiting
             m == Len(running)
             n == Len(waiting)
  <1>1. /\ line \in Seq(Requests) /\ Len(line) = m + n
        /\ \A i \in 1 .. m : line[i] = running[i]
        /\ \A i \in m + 1 .. m + n : line[i] = waiting[i - m]
    BY ConcatMembers
  <1>2. DOMAIN line = 1 .. m + n /\ m \in Nat /\ n \in Nat
    BY <1>1, LenProperties
  <1>3. /\ \A i, j \in 1 .. m : i < j => running[i] < running[j]
        /\ \A i, j \in 1 .. n : i < j => waiting[i] < waiting[j]
        /\ \A i \in 1 .. m : running[i] \in ToSet(running)
        /\ \A i \in 1 .. n : waiting[i] \in ToSet(waiting)
    BY Members DEF InLine, Ascending
  <1>4. \A r \in ToSet(running) : \A q \in ToSet(waiting) : r < q
    BY DEF InLine
  <1> HIDE DEF line, m, n
  <1>5. ASSUME NEW i \in 1 .. m + n, NEW j \in 1 .. m + n, i < j PROVE line[i] < line[j]
    <2>1. CASE j <= m
      <3>1. i \in 1 .. m /\ j \in 1 .. m
        BY <1>2, <1>5, <2>1
      <3> QED
        BY <1>1, <1>3, <1>5, <3>1
    <2>2. CASE ~(j <= m)
      <3>1. j \in m + 1 .. m + n /\ j - m \in 1 .. n /\ line[j] = waiting[j - m]
        BY <1>1, <1>2, <2>2
      <3>2. CASE i <= m
        <4>1. i \in 1 .. m /\ line[i] = running[i]
          BY <1>1, <1>2, <3>2
        <4> QED
          BY <1>3, <1>4, <3>1, <4>1
      <3>3. CASE ~(i <= m)
        <4>1. i \in m + 1 .. m + n /\ i - m \in 1 .. n /\ line[i] = waiting[i - m] /\ i - m < j - m
          BY <1>1, <1>2, <1>5, <3>3
        <4> QED
          BY <1>3, <3>1, <4>1
      <3> QED
        BY <3>2, <3>3
    <2> QED
      BY <2>1, <2>2
  <1> QED
    BY <1>2, <1>5 DEF ArrivalOrder, line

\* add_request: the newest request joins the waiting ones.
LEMMA LineAdded ==
  ASSUME NEW run \in Seq(Requests), NEW wait \in Seq(Requests), NEW rq, NEW next, NEW r \in Requests,
         InLine(run, wait, rq), rq[r].status = "absent",
         \A q \in 1 .. r - 1 : rq[q].status # "absent",
         next[r].status = "waiting", \A q \in Requests : q # r => next[q].status = rq[q].status
  PROVE  Append(wait, r) \in Seq(Requests) /\ InLine(run, Append(wait, r), next)
  <1>1. r \in Nat /\ \A q \in Requests : q \in Nat /\ q >= 1
    BY ServingAssumption DEF Requests
  <1>2. ToSet(run) \subseteq Requests /\ ToSet(wait) \subseteq Requests
    BY Members
  <1>3. \A q \in Requests : rq[q].status # "absent" => q < r
    BY <1>1 DEF InLine
  <1>4. \A q \in ToSet(run) \cup ToSet(wait) : q < r
    BY <1>2, <1>3 DEF InLine
  <1>5. /\ Append(wait, r) \in Seq(Requests)
        /\ Ascending(Append(wait, r)) /\ ToSet(Append(wait, r)) = ToSet(wait) \cup {r}
    BY <1>4, LineAppend DEF InLine
  <1>6. ASSUME NEW a \in Requests, NEW b \in Requests, a < b, next[a].status = "absent"
        PROVE  next[b].status = "absent"
    <2>1. a # r /\ rq[a].status = "absent"
      BY <1>6
    <2>2. ~(a < r)
      BY <1>1, <2>1
    <2>3. b # r
      BY <1>1, <1>6, <2>2
    <2> QED
      BY <1>6, <2>1, <2>3 DEF InLine
  <1> QED
    BY <1>2, <1>4, <1>5, <1>6 DEF InLine

\* finish_requests and update_from_output: requests leave the line.
LEMMA LineKept ==
  ASSUME NEW run \in Seq(Requests), NEW wait \in Seq(Requests), NEW rq, NEW next, NEW S,
         InLine(run, wait, rq),
         \A q \in Requests \cap S : next[q].status = rq[q].status,
         \A q \in Requests : next[q].status = "absent" <=> rq[q].status = "absent"
  PROVE  /\ Keep(run, S) \in Seq(Requests) /\ Keep(wait, S) \in Seq(Requests)
         /\ InLine(Keep(run, S), Keep(wait, S), next)
  <1>1. ToSet(run) \subseteq Requests /\ ToSet(wait) \subseteq Requests
    BY Members
  <1>2. /\ Keep(run, S) \in Seq(Requests) /\ ToSet(Keep(run, S)) = ToSet(run) \cap S
        /\ Ascending(Keep(run, S))
    BY KeepProperties DEF InLine
  <1>3. /\ Keep(wait, S) \in Seq(Requests) /\ ToSet(Keep(wait, S)) = ToSet(wait) \cap S
        /\ Ascending(Keep(wait, S))
    BY KeepProperties DEF InLine
  <1> QED
    BY <1>1, <1>2, <1>3 DEF InLine

\* A preemption: the last of the running requests becomes the first waiting one.
LEMMA LinePreempted ==
  ASSUME NEW run \in Seq(Requests), NEW wait \in Seq(Requests), NEW rq, NEW next,
         InLine(run, wait, rq), run # <<>>, next[Last(run)].status = "preempted",
         \A q \in Requests : q # Last(run) => next[q].status = rq[q].status
  PROVE  <<Last(run)>> \o wait \in Seq(Requests) /\ InLine(Front(run), <<Last(run)>> \o wait, next)
  <1> DEFINE v == Last(run)
             f == Front(run)
             w == <<v>> \o wait
  <1>1. /\ Ascending(run) /\ Ascending(wait)
        /\ \A r \in ToSet(run) : \A q \in ToSet(wait) : r < q
        /\ \A r \in ToSet(run) : rq[r].status = "running"
        /\ \A r \in ToSet(wait) : rq[r].status \in {"waiting", "preempted"}
        /\ \A r, q \in Requests : r < q /\ rq[r].status = "absent" => rq[q].status = "absent"
    BY DEF InLine
  <1>2. /\ v \in Requests /\ v \in ToSet(run) /\ f \in Seq(Requests) /\ Ascending(f)
        /\ ToSet(f) \subseteq ToSet(run) /\ \A q \in ToSet(f) : q < v
    BY <1>1, LineLast
  <1> HIDE DEF v, f
  <1>3. w \in Seq(Requests) /\ Ascending(w) /\ ToSet(w) = ToSet(wait) \cup {v}
    BY <1>1, <1>2, LinePrepend
  <1> HIDE DEF w
  <1>4. ToSet(run) \subseteq Requests /\ ToSet(wait) \subseteq Requests /\ Requests \subseteq Int
    <2>1. Requests \subseteq Int
      BY DEF Requests
    <2> QED
      BY <2>1, Members
  <1>5. next[v].status = "preempted" /\ \A q \in Requests : q # v => next[q].status = rq[q].status
    BY DEF v
  <1>6. \A q \in ToSet(f) : q # v
    BY <1>2, <1>4
  <1>7. rq[v].status = "running"
    BY <1>1, <1>2
  <1>8. \A r \in ToSet(f) : next[r].status = "running"
    BY <1>1, <1>2, <1>4, <1>5, <1>6
  <1>9. \A r \in ToSet(w) : next[r].status \in {"waiting", "preempted"}
    BY <1>1, <1>3, <1>4, <1>5, <1>7
  <1>10. \A r \in ToSet(f) : \A q \in ToSet(w) : r < q
    BY <1>1, <1>2, <1>3
  <1>11. \A r, q \in Requests : r < q /\ next[r].status = "absent" => next[q].status = "absent"
    BY <1>1, <1>5, <1>7
  <1> QED
    BY <1>2, <1>3, <1>8, <1>9, <1>10, <1>11 DEF InLine, v, f, w

\* An admission: the first waiting request becomes the last running one.
LEMMA LineAdmitted ==
  ASSUME NEW run \in Seq(Requests), NEW wait \in Seq(Requests), NEW rq, NEW next,
         InLine(run, wait, rq), wait # <<>>, next[Head(wait)].status = "running",
         \A q \in Requests : q # Head(wait) => next[q].status = rq[q].status
  PROVE  /\ Append(run, Head(wait)) \in Seq(Requests) /\ Tail(wait) \in Seq(Requests)
         /\ InLine(Append(run, Head(wait)), Tail(wait), next)
  <1> DEFINE r == Head(wait)
             u == Append(run, r)
             w == Tail(wait)
  <1>1. /\ Ascending(run) /\ Ascending(wait)
        /\ \A a \in ToSet(run) : \A q \in ToSet(wait) : a < q
        /\ \A a \in ToSet(run) : rq[a].status = "running"
        /\ \A a \in ToSet(wait) : rq[a].status \in {"waiting", "preempted"}
        /\ \A a, q \in Requests : a < q /\ rq[a].status = "absent" => rq[q].status = "absent"
    BY DEF InLine
  <1>2. /\ r \in Requests /\ r \in ToSet(wait) /\ w \in Seq(Requests) /\ Ascending(w)
        /\ ToSet(w) \subseteq ToSet(wait) /\ \A q \in ToSet(w) : r < q
    BY <1>1, LineHead
  <1>3. u \in Seq(Requests) /\ Ascending(u) /\ ToSet(u) = ToSet(run) \cup {r}
    BY <1>1, <1>2, LineAppend
  <1>4. ToSet(run) \subseteq Requests /\ ToSet(wait) \subseteq Requests /\ Requests \subseteq Int
    <2>1. Requests \subseteq Int
      BY DEF Requests
    <2> QED
      BY <2>1, Members
  <1>5. next[r].status = "running" /\ \A q \in Requests : q # r => next[q].status = rq[q].status
    OBVIOUS
  <1> HIDE DEF r, u, w
  <1>6. \A q \in ToSet(w) : q # r
    BY <1>2, <1>4
  <1>7. rq[r].status # "absent"
    BY <1>1, <1>2
  <1>8. \A a \in ToSet(u) : next[a].status = "running"
    BY <1>1, <1>3, <1>4, <1>5
  <1>9. \A a \in ToSet(w) : next[a].status \in {"waiting", "preempted"}
    BY <1>1, <1>2, <1>4, <1>5, <1>6
  <1>10. \A a \in ToSet(u) : \A q \in ToSet(w) : a < q
    BY <1>1, <1>2, <1>3
  <1>11. \A a, q \in Requests : a < q /\ next[a].status = "absent" => next[q].status = "absent"
    BY <1>1, <1>5, <1>7
  <1> QED
    BY <1>2, <1>3, <1>8, <1>9, <1>10, <1>11 DEF InLine, u, w, r

-----------------------------------------------------------------------------
(* The output under construction and those with the worker *)

Entries == [r : Requests, n : Nat, start : Nat, kind : {"new", "resumed", "running"},
            ids : Seq(Blocks), tokens : Seq(Nat)]

Outs == [entries : Seq(Entries), finished : SUBSET Requests, done : BOOLEAN]

\* No request is scheduled twice in one output.
Distinct(es) == \A i, j \in 1 .. Len(es) : es[i].r = es[j].r => i = j

\* Every request scheduled so far is running, before req_index while that loop runs.
InBatch(bt, ph, ix, run) ==
  /\ Distinct(bt)
  /\ ph \in {"input", "update"} => bt = <<>>
  /\ ph = "running" => ix <= Len(run) + 1
  /\ \A i \in 1 .. Len(bt) : \E j \in 1 .. Len(run) :
       run[j] = bt[i].r /\ (ph = "running" => j < ix)

\* The outputs with the worker never exceed the queue.
InQueue(qu, ph) ==
  /\ \A k \in 1 .. Len(qu) : Distinct(qu[k].entries)
  /\ Len(qu) <= QueueSize
  /\ ph \notin {"update", "failed"} => Len(qu) < QueueSize

\* The tokens that the batch bt has for r: Advance, of any batch.
AdvanceIn(bt, r) ==
  LET of == {e \in ToSet(bt) : e.r = r}
  IN  IF of = {} THEN 0 ELSE (CHOOSE e \in of : TRUE).n

\* Nothing is advanced outside of the batch.
LEMMA AdvanceZero ==
  ASSUME NEW bt \in Seq(Entries), NEW r, \A i \in 1 .. Len(bt) : bt[i].r # r
  PROVE  AdvanceIn(bt, r) = 0
  <1>1. \A x : x \in ToSet(bt) <=> \E i \in 1 .. Len(bt) : bt[i] = x
    BY Members, Zenon
  <1>2. {e \in ToSet(bt) : e.r = r} = {}
    BY <1>1
  <1> QED
    BY <1>2 DEF AdvanceIn

\* An empty batch advances nothing.
LEMMA AdvanceEmpty ==
  ASSUME NEW r
  PROVE  AdvanceIn(<<>>, r) = 0
  <1>1. {e \in ToSet(<<>>) : e.r = r} = {}
    BY NoMembers
  <1> QED
    BY <1>1 DEF AdvanceIn

\* Numbers of tokens are natural numbers.
LEMMA AdvanceType ==
  ASSUME NEW bt \in Seq(Entries), NEW r
  PROVE  AdvanceIn(bt, r) \in Nat
  <1> DEFINE of == {e \in ToSet(bt) : e.r = r}
  <1>1. of \subseteq Entries
    <2>1. ToSet(bt) \subseteq Entries
      BY Members, Zenon
    <2> QED
      BY <2>1
  <1>2. \A e \in Entries : e.n \in Nat
    BY DEF Entries
  <1> HIDE DEF of
  <1>3. CASE of = {}
    BY <1>3 DEF AdvanceIn, of
  <1>4. CASE of # {}
    <2> DEFINE e == CHOOSE x \in of : TRUE
    <2>1. e \in of
      BY <1>4
    <2>2. AdvanceIn(bt, r) = e.n
      BY <1>4 DEF AdvanceIn, of
    <2> HIDE DEF e
    <2> QED
      BY <1>1, <1>2, <2>1, <2>2
  <1> QED
    BY <1>3, <1>4

\* u is the batch bt with e on top.
Extended(u, bt, e) ==
  /\ u \in Seq(Entries)
  /\ Len(u) = Len(bt) + 1
  /\ \A i \in 1 .. Len(bt) : u[i] = bt[i]
  /\ u[Len(bt) + 1] = e
  /\ Distinct(u)
  /\ AdvanceIn(u, e.r) = e.n
  /\ \A q : q # e.r => AdvanceIn(u, q) = AdvanceIn(bt, q)

\* One more request is scheduled.
LEMMA BatchAppend ==
  ASSUME NEW bt \in Seq(Entries), NEW e \in Entries, Distinct(bt),
         \A i \in 1 .. Len(bt) : bt[i].r # e.r
  PROVE  Extended(Append(bt, e), bt, e)
  <1> DEFINE u == Append(bt, e)
             n == Len(bt)
             E == Entries
  <1>0. bt \in Seq(E) /\ e \in E
    OBVIOUS
  <1> HIDE DEF E
  <1>1. /\ u \in Seq(E) /\ Len(u) = n + 1 /\ u[n + 1] = e /\ n \in Nat
        /\ \A i \in 1 .. n : u[i] = bt[i]
    BY <1>0, AppendProperties, LenProperties
  <1> HIDE DEF u, n
  <1>2. \A x : x \in ToSet(bt) <=> \E i \in 1 .. n : bt[i] = x
    BY <1>0, Members, Zenon DEF n
  <1>3. \A x : x \in ToSet(u) <=> \E i \in 1 .. n + 1 : u[i] = x
    <2>1. \A x : x \in ToSet(u) <=> \E i \in 1 .. Len(u) : u[i] = x
      BY <1>1, Members, Zenon
    <2> QED
      BY <1>1, <2>1
  <1>4. ASSUME NEW x PROVE x \in ToSet(u) <=> x \in ToSet(bt) \cup {e}
    <2>1. ASSUME NEW i \in 1 .. n + 1, u[i] = x PROVE x \in ToSet(bt) \cup {e}
      <3>1. CASE i = n + 1
        BY <1>1, <2>1, <3>1
      <3>2. CASE i \in 1 .. n
        BY <1>1, <1>2, <2>1, <3>2
      <3> QED
        BY <1>1, <3>1, <3>2
    <2>2. ASSUME NEW i \in 1 .. n, bt[i] = x PROVE \E j \in 1 .. n + 1 : u[j] = x
      <3>1. i \in 1 .. n + 1 /\ u[i] = x
        BY <1>1, <2>2
      <3> QED
        BY <3>1
    <2>3. n + 1 \in 1 .. n + 1 /\ u[n + 1] = e
      BY <1>1
    <2> QED
      BY <1>2, <1>3, <2>1, <2>2, <2>3
  <1>5. \A i \in 1 .. n : bt[i].r # e.r
    BY DEF n
  <1>6. \A i, j \in 1 .. n : bt[i].r = bt[j].r => i = j
    BY DEF n, Distinct
  <1>7. ASSUME NEW i \in 1 .. n + 1, NEW j \in 1 .. n + 1, u[i].r = u[j].r PROVE i = j
    <2>1. CASE i = n + 1 /\ j = n + 1
      BY <2>1
    <2>2. CASE i = n + 1 /\ j \in 1 .. n
      BY <1>1, <1>5, <1>7, <2>2
    <2>3. CASE i \in 1 .. n /\ j = n + 1
      BY <1>1, <1>5, <1>7, <2>3
    <2>4. CASE i \in 1 .. n /\ j \in 1 .. n
      BY <1>1, <1>6, <1>7, <2>4
    <2> QED
      BY <1>1, <2>1, <2>2, <2>3, <2>4
  <1>8. \A x \in ToSet(bt) : x.r # e.r
    BY <1>2, <1>5
  <1>9. AdvanceIn(u, e.r) = e.n
    <2> DEFINE of == {x \in ToSet(u) : x.r = e.r}
    <2>1. of = {e}
      BY <1>4, <1>8
    <2>2. (CHOOSE x \in {e} : TRUE) = e
      OBVIOUS
    <2> HIDE DEF of
    <2> QED
      BY <2>1, <2>2 DEF AdvanceIn, of
  <1>10. ASSUME NEW q, q # e.r PROVE AdvanceIn(u, q) = AdvanceIn(bt, q)
    <2> DEFINE A == {x \in ToSet(u) : x.r = q}
               B == {x \in ToSet(bt) : x.r = q}
    <2>1. A = B
      BY <1>4, <1>10
    <2>2. AdvanceIn(u, q) = IF A = {} THEN 0 ELSE (CHOOSE x \in A : TRUE).n
      BY DEF AdvanceIn
    <2>3. AdvanceIn(bt, q) = IF B = {} THEN 0 ELSE (CHOOSE x \in B : TRUE).n
      BY DEF AdvanceIn
    <2> HIDE DEF A, B
    <2> QED
      BY <2>1, <2>2, <2>3
  <1> QED
    BY <1>1, <1>7, <1>9, <1>10 DEF Extended, Distinct, u, n, E

-----------------------------------------------------------------------------
(* The invariant *)

\* What the scheduler's variables hold.
SchedType ==
  /\ req \in [Requests -> Reqs]
  /\ blocks \in Tables
  /\ ncached \in [Requests -> Int]
  /\ running \in Seq(Requests) /\ waiting \in Seq(Requests)
  /\ finished \in SUBSET Requests
  /\ phase \in {"input", "running", "waiting", "send", "update", "failed"}
  /\ idx \in Nat \ {0}
  /\ budget \in 0 .. MaxScheduledTokens
  /\ batch \in Seq(Entries)
  /\ queue \in Seq(Outs)

\* A request is never scheduled for tokens it does not have, nor has more than fit.
Bounded(rec, more) ==
  /\ Len(rec.tokens) \in 1 .. MaxModelLen
  /\ rec.computed + more <= Len(rec.tokens)
  /\ rec.status \in {"absent", "waiting", "preempted"} => rec.computed = 0

Lengths(rq, bt) == \A r \in Requests : Bounded(rq[r], AdvanceIn(bt, r))

\* m tokens fill n blocks.
Filled(n, m) == n * BlockSize <= m

\* A request holds blocks only while it runs, those that are full have their hashes, and
\* they are full once what is scheduled is computed.
HeldBy(hash, tb, n, rec, more) ==
  /\ rec.status # "running" => tb = <<>> /\ n = NoEntry
  /\ rec.status = "running" => n \in Nat /\ Filled(n, rec.computed + more)
  /\ Own(hash, tb, n, rec.tokens)

Held(hash, bl, nc, rq, bt) ==
  \A r \in Requests : HeldBy(hash, bl[r], nc[r], rq[r], AdvanceIn(bt, r))

SchedInv ==
  /\ SchedType
  /\ InLine(running, waiting, req)
  /\ InBatch(batch, phase, idx, running)
  /\ InQueue(queue, phase)
  /\ Lengths(req, batch)
  /\ PoolInv(pool, blocks)
  /\ Held(pool.hash, blocks, ncached, req, batch)

\* A request is at least as long as its prompt, and only a prompt fills max_model_len while
\* its request is not finished: what the assertion in the model runner tells apart.
Fills(rec, r) ==
  /\ Len(rec.tokens) >= Len(Prompt[r])
  /\ rec.status # "finished" /\ Len(rec.tokens) >= MaxModelLen => Len(Prompt[r]) >= MaxModelLen

\* The entries es are for their requests' prompts at least.
Whole(es) == \A i \in 1 .. Len(es) : Len(es[i].tokens) >= Len(Prompt[es[i].r])

FullInv ==
  /\ \A r \in Requests : Fills(req[r], r)
  /\ Whole(batch)
  /\ \A k \in 1 .. Len(queue) : Whole(queue[k].entries)

\* An output nothing was scheduled for yet.
LEMMA EmptyBatch ==
  ASSUME NEW ph, NEW ix, NEW run, ph = "running" => ix <= Len(run) + 1
  PROVE  InBatch(<<>>, ph, ix, run)
  <1>1. Len(<<>>) = 0 /\ 1 .. 0 = {}
    OBVIOUS
  <1> QED
    BY <1>1 DEF InBatch, Distinct

\* x is the pool p and g the tables after some requests gave back all their blocks.
AfterDrop(x, g, p, bl) ==
  /\ PoolInv(x, g)
  /\ x.hash = p.hash
  /\ g \in Tables

\* KVCacheManager.free of one request.
LEMMA DropAgrees ==
  ASSUME NEW p, NEW bl \in Tables, NEW r \in Requests, PoolInv(p, bl), IsInjective(bl[r])
  PROVE  AfterDrop(FreeBlocks(p, Reverse(bl[r])), Dropped(bl, r), p, bl)
  <1> DEFINE ordered == Reverse(bl[r])
             x == FreeBlocks(p, ordered)
             g == Dropped(bl, r)
  <1>1. bl[r] \in Seq(Blocks)
    BY DEF Tables
  <1>2. ordered \in Seq(Blocks) /\ IsInjective(ordered) /\ ToSet(ordered) = ToSet(bl[r])
    BY <1>1, ReverseMembers
  <1>3. /\ PoolType(p) /\ Counted(p.ref, bl) /\ Listed(p.free, bl)
        /\ Indexed(p.hash, p.cached) /\ Private(p.hash, bl)
    BY DEF PoolInv
  <1> HIDE DEF ordered
  <1>4. /\ PoolType(x) /\ x.hash = p.hash /\ x.cached = p.cached
        /\ Counted(x.ref, g) /\ Listed(x.free, g)
    BY <1>2, <1>3, FreeAgrees
  <1> HIDE DEF x
  <1>5. g \in Tables /\ \A q \in Requests : ToSet(g[q]) \subseteq ToSet(bl[q])
    <2>1. g \in Tables /\ \A q \in Requests : g[q] = IF q = r THEN <<>> ELSE bl[q]
      BY DEF Tables, Dropped
    <2> QED
      BY <2>1, NoMembers
  <1> HIDE DEF g
  <1>6. Private(x.hash, g)
    BY <1>3, <1>4, <1>5 DEF Private
  <1> QED
    BY <1>3, <1>4, <1>5, <1>6 DEF AfterDrop, PoolInv, x, g, ordered

-----------------------------------------------------------------------------
(* The first state, and the front end *)

\* Nothing is held, cached or scheduled to begin with.
LEMMA InitSchedInv ==
  Init => SchedInv
  <1> SUFFICES ASSUME Init PROVE SchedInv
    OBVIOUS
  <1>1. /\ pool = InitPool
        /\ req = [r \in Requests |-> [status |-> "absent", tokens |-> Prompt[r], computed |-> 0]]
        /\ blocks = [r \in Requests |-> <<>>]
        /\ ncached = [r \in Requests |-> NoEntry]
        /\ running = <<>> /\ waiting = <<>> /\ finished = {}
        /\ phase = "input" /\ idx = 1 /\ budget = MaxScheduledTokens
        /\ batch = <<>> /\ queue = <<>>
    BY DEF Init
  <1>2. /\ \A r \in Requests : Prompt[r] \in Seq(Nat) /\ Len(Prompt[r]) \in 1 .. MaxModelLen
        /\ MaxScheduledTokens \in Nat /\ QueueSize \in Nat /\ QueueSize > 0 /\ MaxModelLen \in Nat
    BY ServingAssumption
  <1>3. \A r \in Requests : /\ req[r].status = "absent" /\ req[r].tokens = Prompt[r]
                            /\ req[r].computed = 0
                            /\ blocks[r] = <<>> /\ ncached[r] = NoEntry
    BY <1>1
  <1>4. SchedType
    <2>1. req \in [Requests -> Reqs]
      BY <1>1, <1>2 DEF Reqs, Statuses
    <2>2. blocks \in Tables /\ ncached \in [Requests -> Int]
      BY <1>1 DEF Tables, NoEntry
    <2> QED
      BY <1>1, <1>2, <2>1, <2>2 DEF SchedType
  <1>5. InLine(running, waiting, req)
    <2>1. Len(<<>>) = 0 /\ 1 .. 0 = {} /\ ToSet(<<>>) = {}
      BY NoMembers
    <2> QED
      BY <1>1, <1>3, <2>1 DEF InLine, Ascending
  <1>6. InBatch(batch, phase, idx, running)
    BY <1>1, EmptyBatch
  <1>7. InQueue(queue, phase)
    <2>1. Len(<<>>) = 0 /\ 1 .. 0 = {}
      OBVIOUS
    <2> QED
      BY <1>1, <1>2, <2>1 DEF InQueue
  <1>8. \A r \in Requests : AdvanceIn(batch, r) = 0
    BY <1>1, AdvanceEmpty
  <1>9. Lengths(req, batch)
    BY <1>2, <1>3, <1>8 DEF Lengths, Bounded
  <1>10. PoolInv(pool, blocks)
    <2> DEFINE z == [b \in Blocks |-> 0]
               f == [i \in 1 .. NumBlocks |-> i]
               e == [b \in Blocks |-> NoHash]
    <2>1. /\ pool = [ref |-> z, free |-> f, hash |-> e, cached |-> <<>>]
          /\ NumBlocks \in Nat /\ Blocks = 1 .. NumBlocks
      BY <1>1, PoolAssumption DEF InitPool, Blocks
    <2>2. /\ z \in [Blocks -> Nat] /\ \A b \in Blocks : z[b] = 0
          /\ f \in Seq(Blocks) /\ Len(f) = NumBlocks /\ \A i \in 1 .. NumBlocks : f[i] = i
          /\ e \in [Blocks -> Seq(Nat)] /\ \A b \in Blocks : e[b] = NoHash
          /\ DOMAIN <<>> = {}
      BY <2>1 DEF NoHash
    <2> HIDE DEF z, f, e
    <2>3. PoolType(pool)
      BY <2>1, <2>2 DEF PoolType
    <2>4. \A r \in Requests : ToSet(blocks[r]) = {}
      BY <1>3, NoMembers
    <2>5. \A b : HoldersIn(blocks, b) = {}
      BY <2>4 DEF HoldersIn
    <2>6. Counted(pool.ref, blocks)
      BY <2>1, <2>2, <2>5, FS_EmptySet DEF Counted
    <2>7. Listed(pool.free, blocks)
      <3>1. IsInjective(f)
        BY <2>2, Injective
      <3>2. \A b : b \in ToSet(f) <=> \E i \in 1 .. NumBlocks : f[i] = b
        BY <2>2, Members
      <3>3. ToSet(f) = Blocks
        <4>1. ASSUME NEW b PROVE b \in ToSet(f) <=> b \in 1 .. NumBlocks
          BY <2>2, <3>2
        <4> QED
          BY <2>1, <4>1
      <3> QED
        BY <2>1, <2>5, <3>1, <3>3 DEF Listed
    <2>8. Indexed(pool.hash, pool.cached)
      BY <2>1, <2>2 DEF Indexed
    <2>9. Private(pool.hash, blocks)
      BY <2>4 DEF Private
    <2> QED
      BY <2>3, <2>6, <2>7, <2>8, <2>9 DEF PoolInv
  <1>11. Held(pool.hash, blocks, ncached, req, batch)
    <2>1. ASSUME NEW r \in Requests
          PROVE  Own(pool.hash, blocks[r], ncached[r], req[r].tokens)
      <3>1. blocks[r] = <<>> /\ IsInjective(<<>>) /\ Len(<<>>) = 0 /\ 1 .. 0 = {}
        BY <1>3, NoMembers
      <3>2. ncached[r] <= 0
        BY <1>3 DEF NoEntry
      <3> QED
        BY <3>1, <3>2 DEF Own
    <2> QED
      BY <1>3, <2>1 DEF Held, HeldBy
  <1> QED
    BY <1>4, <1>5, <1>6, <1>7, <1>9, <1>10, <1>11 DEF SchedInv

\* add_request only appends to the waiting requests.
LEMMA AddRequestKeeps ==
  ASSUME SchedInv, NEW r \in Requests, AddRequest(r)
  PROVE  SchedInv'
  <1>1. /\ phase = "input" /\ req[r].status = "absent"
        /\ \A q \in 1 .. r - 1 : req[q].status # "absent"
        /\ req' = [req EXCEPT ![r].status = "waiting"]
        /\ waiting' = Append(waiting, r)
        /\ pool' = pool /\ blocks' = blocks /\ ncached' = ncached /\ running' = running
        /\ finished' = finished /\ phase' = phase /\ idx' = idx /\ budget' = budget
        /\ batch' = batch /\ queue' = queue
    BY DEF AddRequest, loopVars
  <1>2. /\ SchedType /\ InLine(running, waiting, req) /\ InBatch(batch, phase, idx, running)
        /\ InQueue(queue, phase) /\ Lengths(req, batch) /\ PoolInv(pool, blocks)
        /\ Held(pool.hash, blocks, ncached, req, batch)
    BY DEF SchedInv
  <1>3. req \in [Requests -> Reqs] /\ running \in Seq(Requests) /\ waiting \in Seq(Requests)
    BY <1>2 DEF SchedType
  <1>4. PICK next : next = req'
    OBVIOUS
  <1>5. /\ next \in [Requests -> Reqs]
        /\ next[r].status = "waiting" /\ next[r].tokens = req[r].tokens
        /\ next[r].computed = req[r].computed
        /\ \A q \in Requests : q # r => next[q] = req[q]
    BY <1>1, <1>3, <1>4 DEF Reqs, Statuses
  <1>6. Append(waiting, r) \in Seq(Requests) /\ InLine(running, Append(waiting, r), next)
    BY <1>1, <1>2, <1>3, <1>5, LineAdded
  <1>7. SchedType'
    BY <1>1, <1>2, <1>4, <1>5, <1>6 DEF SchedType
  <1>8. Lengths(next, batch)
    BY <1>1, <1>2, <1>5 DEF Lengths, Bounded
  <1>9. Held(pool.hash, blocks, ncached, next, batch)
    <2>1. ASSUME NEW q \in Requests
          PROVE  HeldBy(pool.hash, blocks[q], ncached[q], next[q], AdvanceIn(batch, q))
      <3>1. HeldBy(pool.hash, blocks[q], ncached[q], req[q], AdvanceIn(batch, q))
        BY <1>2 DEF Held
      <3> QED
        BY <1>1, <1>5, <3>1 DEF HeldBy
    <2> QED
      BY <2>1 DEF Held
  <1> QED
    BY <1>1, <1>2, <1>4, <1>6, <1>7, <1>8, <1>9 DEF SchedInv

\* finish_requests for an abort: the blocks go back, the batch is empty by then.
LEMMA AbortKeeps ==
  ASSUME SchedInv, NEW r \in Requests, Abort(r)
  PROVE  SchedInv'
  <1>1. /\ phase = "input" /\ Unfinished(r)
        /\ running' = Keep(running, Requests \ {r}) /\ waiting' = Keep(waiting, Requests \ {r})
        /\ req' = [req EXCEPT ![r].status = "finished"]
        /\ finished' = finished \cup {r}
        /\ pool' = FreeBlocks(pool, Reverse(blocks[r]))
        /\ blocks' = Dropped(blocks, r)
        /\ ncached' = [ncached EXCEPT ![r] = NoEntry]
        /\ phase' = phase /\ idx' = idx /\ budget' = budget
        /\ batch' = batch /\ queue' = queue
    BY DEF Abort, loopVars, FreeOf, Dropped
  <1>2. /\ SchedType /\ InLine(running, waiting, req) /\ InBatch(batch, phase, idx, running)
        /\ InQueue(queue, phase) /\ Lengths(req, batch) /\ PoolInv(pool, blocks)
        /\ Held(pool.hash, blocks, ncached, req, batch)
    BY DEF SchedInv
  <1>3. /\ req \in [Requests -> Reqs] /\ running \in Seq(Requests) /\ waiting \in Seq(Requests)
        /\ blocks \in Tables /\ ncached \in [Requests -> Int]
    BY <1>2 DEF SchedType
  <1>4. PICK next, p, g : next = req' /\ p = pool' /\ g = blocks'
    OBVIOUS
  <1>5. /\ next \in [Requests -> Reqs]
        /\ next[r].status = "finished" /\ next[r].tokens = req[r].tokens
        /\ next[r].computed = req[r].computed
        /\ \A q \in Requests : q # r => next[q] = req[q]
    BY <1>1, <1>3, <1>4 DEF Reqs, Statuses
  <1>6. /\ running' \in Seq(Requests) /\ waiting' \in Seq(Requests)
        /\ InLine(running', waiting', next)
    <2> DEFINE S == Requests \ {r}
    <2>1. \A q \in Requests \cap S : next[q].status = req[q].status
      BY <1>5
    <2>2. \A q \in Requests : next[q].status = "absent" <=> req[q].status = "absent"
      BY <1>1, <1>5 DEF Unfinished
    <2> HIDE DEF S
    <2>3. /\ Keep(running, S) \in Seq(Requests) /\ Keep(waiting, S) \in Seq(Requests)
          /\ InLine(Keep(running, S), Keep(waiting, S), next)
      BY <1>2, <1>3, <2>1, <2>2, LineKept
    <2> QED
      BY <1>1, <2>3 DEF S
  <1>7. batch = <<>> /\ InBatch(batch', phase', idx', running')
    <2>1. batch = <<>> /\ phase' # "running"
      BY <1>1, <1>2 DEF InBatch
    <2> QED
      BY <1>1, <2>1, EmptyBatch
  <1>8. Lengths(next, batch)
    BY <1>1, <1>2, <1>5 DEF Lengths, Bounded, Unfinished
  <1>9. \A q \in Requests : HeldBy(pool.hash, blocks[q], ncached[q], req[q], AdvanceIn(batch, q))
    BY <1>2 DEF Held
  <1>10. PoolInv(p, g) /\ p.hash = pool.hash /\ g \in Tables
    <2>1. IsInjective(blocks[r])
      BY <1>9 DEF HeldBy, Own
    <2>2. AfterDrop(p, g, pool, blocks)
      BY <1>1, <1>2, <1>3, <1>4, <2>1, DropAgrees
    <2> QED
      BY <2>2 DEF AfterDrop
  <1>11. Held(p.hash, g, ncached', next, batch)
    <2>1. ASSUME NEW q \in Requests
          PROVE  HeldBy(p.hash, g[q], ncached'[q], next[q], AdvanceIn(batch, q))
      <3>1. CASE q = r
        <4>1. g[r] = <<>> /\ ncached'[r] = NoEntry
          BY <1>1, <1>3, <1>4 DEF Tables, Dropped
        <4>2. IsInjective(<<>>) /\ Len(<<>>) = 0 /\ 1 .. 0 = {} /\ NoEntry <= 0
          BY NoMembers DEF NoEntry
        <4> QED
          BY <1>5, <3>1, <4>1, <4>2 DEF HeldBy, Own
      <3>2. CASE q # r
        <4>1. g[q] = blocks[q] /\ ncached'[q] = ncached[q] /\ next[q] = req[q]
          BY <1>1, <1>3, <1>4, <1>5, <3>2 DEF Tables, Dropped
        <4> QED
          BY <1>9, <1>10, <4>1
      <3> QED
        BY <3>1, <3>2
    <2> QED
      BY <2>1 DEF Held
  <1>12. SchedType'
    BY <1>1, <1>2, <1>3, <1>4, <1>5, <1>6, <1>10 DEF SchedType, NoEntry
  <1> QED
    BY <1>1, <1>2, <1>4, <1>6, <1>7, <1>8, <1>10, <1>11, <1>12 DEF SchedInv

\* reset_prefix_cache takes hashes only when no request holds a block.
LEMMA ResetCacheKeeps ==
  ASSUME SchedInv, ResetCache
  PROVE  SchedInv'
  <1>1. /\ pool' = ResetPrefixCache(pool)
        /\ req' = req /\ blocks' = blocks /\ ncached' = ncached /\ running' = running
        /\ waiting' = waiting /\ finished' = finished /\ phase' = phase /\ idx' = idx
        /\ budget' = budget /\ batch' = batch /\ queue' = queue
    BY DEF ResetCache, schedVars, loopVars
  <1>2. /\ SchedType /\ InLine(running, waiting, req) /\ InBatch(batch, phase, idx, running)
        /\ InQueue(queue, phase) /\ Lengths(req, batch) /\ PoolInv(pool, blocks)
        /\ Held(pool.hash, blocks, ncached, req, batch)
    BY DEF SchedInv
  <1>3. blocks \in Tables /\ \A q \in Requests : blocks[q] \in Seq(Blocks)
    BY <1>2 DEF SchedType, Tables
  <1>4. /\ PoolType(pool) /\ Counted(pool.ref, blocks) /\ Listed(pool.free, blocks)
        /\ Indexed(pool.hash, pool.cached) /\ Private(pool.hash, blocks)
    BY <1>2 DEF PoolInv
  <1>5. PICK p : p = ResetPrefixCache(pool)
    OBVIOUS
  <1>6. /\ PoolType(p) /\ p.ref = pool.ref /\ p.free = pool.free /\ Indexed(p.hash, p.cached)
        /\ p = pool \/ \A b \in Blocks : HoldersIn(blocks, b) = {}
    BY <1>3, <1>4, <1>5, ResetAgrees
  <1>7. \A q \in Requests : \A b \in ToSet(blocks[q]) : p.hash[b] = pool.hash[b]
    <2>1. CASE p = pool
      BY <2>1
    <2>2. CASE \A b \in Blocks : HoldersIn(blocks, b) = {}
      <3>1. ASSUME NEW q \in Requests, NEW b \in ToSet(blocks[q]) PROVE FALSE
        <4>1. b \in Blocks
          BY <1>3, <3>1, Members
        <4> QED
          BY <2>2, <3>1, <4>1 DEF HoldersIn
      <3> QED
        BY <3>1
    <2> QED
      BY <1>6, <2>1, <2>2
  <1>8. PoolInv(p, blocks)
    <2>1. Private(p.hash, blocks)
      BY <1>4, <1>7 DEF Private
    <2> QED
      BY <1>4, <1>6, <2>1 DEF PoolInv
  <1>9. Held(p.hash, blocks, ncached, req, batch)
    <2>1. ASSUME NEW q \in Requests
          PROVE  HeldBy(p.hash, blocks[q], ncached[q], req[q], AdvanceIn(batch, q))
      <3>1. HeldBy(pool.hash, blocks[q], ncached[q], req[q], AdvanceIn(batch, q))
        BY <1>2 DEF Held
      <3>2. Own(pool.hash, blocks[q], ncached[q], req[q].tokens)
        BY <3>1 DEF HeldBy
      <3>3. Own(p.hash, blocks[q], ncached[q], req[q].tokens)
        BY <1>3, <1>7, <3>2, OwnStays
      <3> QED
        BY <3>1, <3>3 DEF HeldBy
    <2> QED
      BY <2>1 DEF Held
  <1>10. SchedType'
    BY <1>1, <1>2 DEF SchedType
  <1> QED
    BY <1>1, <1>2, <1>5, <1>8, <1>9, <1>10 DEF SchedInv

-----------------------------------------------------------------------------
(* The steps of the engine that allocate nothing *)

\* The steps that only move the loop: a new step, the next request, the other loop, the end.
LEMMA LoopKeeps ==
  ASSUME SchedInv, BeginStep \/ SkipRunning \/ EndRunning \/ EngineFails
  PROVE  SchedInv'
  <1>1. /\ pool' = pool /\ req' = req /\ blocks' = blocks /\ ncached' = ncached
        /\ running' = running /\ waiting' = waiting /\ finished' = finished
        /\ batch' = batch /\ queue' = queue
    BY DEF BeginStep, SkipRunning, EndRunning, EngineFails, schedVars
  <1>2. /\ SchedType /\ InLine(running, waiting, req) /\ InBatch(batch, phase, idx, running)
        /\ InQueue(queue, phase) /\ Lengths(req, batch) /\ PoolInv(pool, blocks)
        /\ Held(pool.hash, blocks, ncached, req, batch)
    BY DEF SchedInv
  <1>3. /\ idx \in Nat \ {0} /\ budget \in 0 .. MaxScheduledTokens /\ Len(running) \in Nat
        /\ MaxScheduledTokens \in Nat
    BY <1>2, ServingAssumption, LenProperties DEF SchedType
  <1>4. /\ phase' \in {"input", "running", "waiting", "send", "update", "failed"}
        /\ idx' \in Nat \ {0} /\ budget' \in 0 .. MaxScheduledTokens
        /\ InBatch(batch, phase', idx', running)
        /\ phase' \notin {"update", "failed"} => phase \notin {"update", "failed"}
    <2>1. CASE BeginStep
      <3>1. batch = <<>>
        BY <1>2, <2>1 DEF BeginStep, InBatch
      <3>2. CASE running # <<>> \/ waiting # <<>> \/ finished # {}
        <4>1. phase' = "running" /\ idx' = 1 /\ budget' = MaxScheduledTokens /\ phase = "input"
          BY <2>1, <3>2 DEF BeginStep
        <4>2. InBatch(<<>>, phase', idx', running)
          BY <1>3, <4>1, EmptyBatch
        <4> QED
          BY <1>3, <3>1, <4>1, <4>2
      <3>3. CASE ~(running # <<>> \/ waiting # <<>> \/ finished # {})
        <4>1. phase' = "update" /\ idx' = idx /\ budget' = budget
          BY <2>1, <3>3 DEF BeginStep
        <4>2. InBatch(<<>>, phase', idx', running)
          BY <4>1, EmptyBatch
        <4> QED
          BY <1>3, <3>1, <4>1, <4>2
      <3> QED
        BY <3>2, <3>3
    <2>2. CASE SkipRunning
      <3>1. /\ phase = "running" /\ idx <= Len(running) /\ idx' = idx + 1
            /\ phase' = phase /\ budget' = budget
        BY <2>2 DEF SkipRunning, InRunningLoop
      <3>2. \A j \in 1 .. Len(running) : j < idx => j < idx + 1
        BY <1>3
      <3>3. InBatch(batch, "running", idx + 1, running)
        BY <1>2, <1>3, <3>1, <3>2 DEF InBatch
      <3> QED
        BY <1>3, <3>1, <3>3
    <2>3. CASE EndRunning
      <3>1. phase = "running" /\ phase' = "waiting" /\ idx' = idx /\ budget' = budget
        BY <2>3 DEF EndRunning
      <3>2. InBatch(batch, "waiting", idx, running)
        BY <1>2, <3>1 DEF InBatch
      <3> QED
        BY <1>3, <3>1, <3>2
    <2>4. CASE EngineFails
      <3>1. phase' = "failed" /\ idx' = idx /\ budget' = budget
        BY <2>4 DEF EngineFails
      <3>2. InBatch(batch, "failed", idx, running)
        BY <1>2 DEF InBatch
      <3> QED
        BY <1>3, <3>1, <3>2
    <2> QED
      BY <2>1, <2>2, <2>3, <2>4
  <1>5. InQueue(queue, phase')
    BY <1>2, <1>4 DEF InQueue
  <1>6. SchedType'
    BY <1>1, <1>2, <1>4, SMTT(30) DEF SchedType
  <1> QED
    BY <1>1, <1>2, <1>4, <1>5, <1>6 DEF SchedInv

\* Of the scheduler's state the worker only sets done in an output.
LEMMA ExecuteKeeps ==
  ASSUME SchedInv, Execute
  PROVE  SchedInv'
  <1>1. /\ pool' = pool /\ req' = req /\ blocks' = blocks /\ ncached' = ncached
        /\ running' = running /\ waiting' = waiting /\ finished' = finished
        /\ phase' = phase /\ idx' = idx /\ budget' = budget /\ batch' = batch
        /\ \E k \in DOMAIN queue : queue' = [queue EXCEPT ![k].done = TRUE]
    BY DEF Execute, schedVars, loopVars
  <1>2. /\ SchedType /\ InLine(running, waiting, req) /\ InBatch(batch, phase, idx, running)
        /\ InQueue(queue, phase) /\ Lengths(req, batch) /\ PoolInv(pool, blocks)
        /\ Held(pool.hash, blocks, ncached, req, batch)
    BY DEF SchedInv
  <1>3. PICK k \in DOMAIN queue : queue' = [queue EXCEPT ![k].done = TRUE]
    BY <1>1
  <1>4. PICK q, n : q = queue /\ n = Len(queue)
    OBVIOUS
  <1>5. q \in Seq(Outs) /\ n \in Nat /\ DOMAIN q = 1 .. n /\ q \in [1 .. n -> Outs]
    BY <1>2, <1>4, LenProperties DEF SchedType
  <1>6. PICK u : u = queue'
    OBVIOUS
  <1>7. /\ u \in [1 .. n -> Outs]
        /\ \A i \in 1 .. n : u[i].entries = q[i].entries
    BY <1>3, <1>4, <1>5, <1>6, ZenonT(60) DEF Outs
  <1>8. u \in Seq(Outs) /\ Len(u) = n
    BY <1>5, <1>7, SeqDef, LenProperties
  <1>9. InQueue(u, phase)
    BY <1>2, <1>4, <1>7, <1>8 DEF InQueue
  <1>10. SchedType'
    BY <1>1, <1>2, <1>6, <1>8 DEF SchedType
  <1> QED
    BY <1>1, <1>2, <1>6, <1>9, <1>10 DEF SchedInv

\* A preemption: the last of the running requests has nothing scheduled in this step.
LEMMA PreemptKeeps ==
  ASSUME SchedInv, Preempt
  PROVE  SchedInv'
  <1>1. PICK v : v = Last(running)
    OBVIOUS
  <1>2. /\ phase = "running" /\ idx <= Len(running)
        /\ running' = Front(running) /\ waiting' = <<v>> \o waiting
        /\ req' = [req EXCEPT ![v].status = "preempted", ![v].computed = 0]
        /\ pool' = FreeBlocks(pool, Reverse(blocks[v]))
        /\ blocks' = Dropped(blocks, v)
        /\ ncached' = [ncached EXCEPT ![v] = NoEntry]
        /\ phase' = IF v = running[idx] THEN "send" ELSE phase
        /\ finished' = finished /\ idx' = idx /\ budget' = budget
        /\ batch' = batch /\ queue' = queue
    BY <1>1 DEF Preempt, InRunningLoop, PrependRequest, FreeOf, Dropped
  <1>3. /\ SchedType /\ InLine(running, waiting, req) /\ InBatch(batch, phase, idx, running)
        /\ InQueue(queue, phase) /\ Lengths(req, batch) /\ PoolInv(pool, blocks)
        /\ Held(pool.hash, blocks, ncached, req, batch)
    BY DEF SchedInv
  <1>4. /\ req \in [Requests -> Reqs] /\ running \in Seq(Requests) /\ waiting \in Seq(Requests)
        /\ blocks \in Tables /\ ncached \in [Requests -> Int] /\ idx \in Nat \ {0}
        /\ batch \in Seq(Entries)
    BY <1>3 DEF SchedType
  <1>5. PICK n \in Nat : n = Len(running)
    BY <1>4, LenProperties
  <1>6. n > 0 /\ running # <<>> /\ v = running[n] /\ v \in Requests /\ v \in ToSet(running)
    <2>1. n > 0 /\ v = running[n] /\ n \in 1 .. n
      BY <1>1, <1>2, <1>4, <1>5 DEF Last
    <2> QED
      BY <1>4, <1>5, <2>1, Members
  <1>7. PICK next, p, g, f : next = req' /\ p = pool' /\ g = blocks' /\ f = Front(running)
    OBVIOUS
  <1>8. /\ next \in [Requests -> Reqs]
        /\ next[v].status = "preempted" /\ next[v].tokens = req[v].tokens
        /\ next[v].computed = 0
        /\ \A q \in Requests : q # v => next[q] = req[q]
    BY <1>2, <1>4, <1>6, <1>7 DEF Reqs, Statuses
  <1>9. waiting' \in Seq(Requests) /\ InLine(f, waiting', next)
    <2>1. next[Last(running)].status = "preempted"
      BY <1>1, <1>8
    <2>2. \A q \in Requests : q # Last(running) => next[q].status = req[q].status
      BY <1>1, <1>8
    <2>3. <<Last(running)>> \o waiting \in Seq(Requests)
          /\ InLine(Front(running), <<Last(running)>> \o waiting, next)
      BY <1>3, <1>4, <1>6, <2>1, <2>2, LinePreempted
    <2> QED
      BY <1>1, <1>2, <1>7, <2>3
  <1>10. /\ f \in Seq(Requests) /\ Len(f) = n - 1
         /\ \A j \in 1 .. n - 1 : f[j] = running[j]
    <2>1. f = SubSeq(running, 1, n - 1) /\ n - 1 \in Nat /\ n - 1 <= n
      BY <1>5, <1>6, <1>7 DEF Front
    <2> QED
      BY <1>4, <1>5, <2>1, FrontMembers
  <1>11. \A i \in 1 .. Len(batch) : \E j \in 1 .. n : running[j] = batch[i].r /\ j < idx
    BY <1>2, <1>3, <1>5 DEF InBatch
  <1>12. \A i \in 1 .. Len(batch) : \E j \in 1 .. n - 1 : running[j] = batch[i].r /\ j < idx
    BY <1>2, <1>4, <1>5, <1>11
  <1>13. \A i \in 1 .. Len(batch) : batch[i].r # v
    <2>1. \A i, j \in 1 .. n : running[i] = running[j] => i = j
      BY <1>3, <1>4, <1>5, AscendingMembers DEF InLine
    <2>2. \A j \in 1 .. n - 1 : running[j] # running[n]
      BY <1>5, <1>6, <2>1
    <2> QED
      BY <1>6, <1>12, <2>2
  <1>14. InBatch(batch, phase', idx, f)
    <2>1. \A i \in 1 .. Len(batch) : \E j \in 1 .. Len(f) : f[j] = batch[i].r /\ j < idx
      BY <1>10, <1>12
    <2>2. Distinct(batch)
      BY <1>3 DEF InBatch
    <2>3. phase' \in {"running", "send"}
      BY <1>2
    <2>4. idx <= Len(f) + 1
      BY <1>2, <1>4, <1>5, <1>10
    <2> QED
      BY <2>1, <2>2, <2>3, <2>4 DEF InBatch
  <1>15. AdvanceIn(batch, v) = 0
    BY <1>4, <1>13, AdvanceZero
  <1>16. \A q \in Requests : HeldBy(pool.hash, blocks[q], ncached[q], req[q], AdvanceIn(batch, q))
    BY <1>3 DEF Held
  <1>17. Lengths(next, batch)
    <2>1. ASSUME NEW q \in Requests PROVE Bounded(next[q], AdvanceIn(batch, q))
      <3>1. Bounded(req[q], AdvanceIn(batch, q))
        BY <1>3 DEF Lengths
      <3>2. CASE q # v
        BY <1>8, <3>1, <3>2
      <3>3. CASE q = v
        <4>1. req[v].status = "running"
          BY <1>3, <1>6 DEF InLine
        <4>2. Len(req[v].tokens) \in 1 .. MaxModelLen
          BY <3>1, <3>3 DEF Bounded
        <4>3. MaxModelLen \in Nat
          BY ServingAssumption
        <4> QED
          BY <1>8, <1>15, <3>3, <4>1, <4>2, <4>3 DEF Bounded
      <3> QED
        BY <3>2, <3>3
    <2> QED
      BY <2>1 DEF Lengths
  <1>18. PoolInv(p, g) /\ p.hash = pool.hash /\ g \in Tables
    <2>1. IsInjective(blocks[v])
      BY <1>6, <1>16 DEF HeldBy, Own
    <2>2. AfterDrop(p, g, pool, blocks)
      BY <1>2, <1>3, <1>4, <1>6, <1>7, <2>1, DropAgrees
    <2> QED
      BY <2>2 DEF AfterDrop
  <1>19. Held(p.hash, g, ncached', next, batch)
    <2>1. ASSUME NEW q \in Requests
          PROVE  HeldBy(p.hash, g[q], ncached'[q], next[q], AdvanceIn(batch, q))
      <3>1. CASE q = v
        <4>1. g[v] = <<>> /\ ncached'[v] = NoEntry
          BY <1>2, <1>4, <1>6, <1>7 DEF Tables, Dropped
        <4>2. IsInjective(<<>>) /\ Len(<<>>) = 0 /\ 1 .. 0 = {} /\ NoEntry <= 0
          BY NoMembers DEF NoEntry
        <4> QED
          BY <1>8, <3>1, <4>1, <4>2 DEF HeldBy, Own
      <3>2. CASE q # v
        <4>1. g[q] = blocks[q] /\ ncached'[q] = ncached[q] /\ next[q] = req[q]
          BY <1>2, <1>4, <1>7, <1>8, <3>2 DEF Tables, Dropped
        <4> QED
          BY <1>16, <1>18, <4>1
      <3> QED
        BY <3>1, <3>2
    <2> QED
      BY <2>1 DEF Held
  <1>20. InQueue(queue, phase')
    BY <1>2, <1>3 DEF InQueue
  <1>21. SchedType'
    <2>1. phase' \in {"input", "running", "waiting", "send", "update", "failed"}
      BY <1>2
    <2> QED
      BY <1>2, <1>3, <1>4, <1>7, <1>8, <1>9, <1>10, <1>18, <2>1, SMTT(30) DEF SchedType, NoEntry
  <1> QED
    BY <1>2, <1>3, <1>7, <1>9, <1>14, <1>17, <1>18, <1>19, <1>20, <1>21 DEF SchedInv

-----------------------------------------------------------------------------
(* Positions of tokens, the blocks they are in, and what a slot should hold *)

\* The place of the block of position i in its request's table, and the place in the block.
Page(i) == (i \div BlockSize) + 1
Offset(i) == (i % BlockSize) + 1

Slots == Blocks \X (1 .. BlockSize)

\* A position is behind n full blocks exactly if it is not in one of them.
LEMMA Positions ==
  ASSUME NEW i \in Nat
  PROVE  /\ Page(i) \in Nat \ {0} /\ Offset(i) \in 1 .. BlockSize
         /\ \A n \in Nat : Page(i) <= n <=> ~Filled(n, i)
         /\ (Page(i) * BlockSize - BlockSize) + Offset(i) = i + 1
         /\ \A t : Slot(t, i) = <<t[Page(i)], Offset(i)>>
  <1> DEFINE q == i \div BlockSize
             o == i % BlockSize
  <1>1. BlockSize \in Nat /\ BlockSize > 0
    BY PoolAssumption
  <1>2. q \in Nat /\ q * BlockSize <= i /\ \A a \in Nat : a * BlockSize <= i => a <= q
    BY WholeBlocks
  <1>3. i = BlockSize * q + o /\ o \in 0 .. BlockSize - 1
    BY <1>1
  <1>4. Page(i) = q + 1 /\ Offset(i) = o + 1 /\ \A t : Slot(t, i) = <<t[q + 1], o + 1>>
    BY Zenon DEF Page, Offset, Slot
  <1> HIDE DEF q, o
  <1>5. PICK w \in Nat : w = q * BlockSize /\ w = BlockSize * q
    <2>1. q * BlockSize \in Nat /\ q * BlockSize = BlockSize * q
      BY <1>1, <1>2
    <2> QED
      BY <2>1
  <1>6. (q + 1) * BlockSize = w + BlockSize
    BY <1>1, <1>2, <1>5
  <1>7. (q + 1) * BlockSize - BlockSize + (o + 1) = i + 1
    BY <1>1, <1>3, <1>5, <1>6
  <1>8. ASSUME NEW n \in Nat PROVE q + 1 <= n <=> ~Filled(n, i)
    <2>1. PICK v \in Nat : v = n * BlockSize
      BY TimesOrder
    <2>2. CASE q + 1 <= n
      <3>1. (q + 1) * BlockSize <= n * BlockSize
        BY <1>2, <2>2, TimesOrder
      <3>2. i < v
        BY <1>1, <1>3, <1>5, <1>6, <2>1, <3>1
      <3> QED
        BY <2>1, <2>2, <3>2 DEF Filled
    <2>3. CASE ~(q + 1 <= n)
      <3>1. n <= q
        BY <1>2, <2>3
      <3>2. n * BlockSize <= q * BlockSize
        BY <1>2, <3>1, TimesOrder
      <3>3. v <= i
        BY <1>2, <1>5, <2>1, <3>2
      <3> QED
        BY <2>1, <2>3, <3>3 DEF Filled
    <2> QED
      BY <2>2, <2>3
  <1>9. q + 1 \in Nat \ {0} /\ o + 1 \in 1 .. BlockSize
    BY <1>1, <1>2, <1>3
  <1> QED
    BY <1>4, <1>7, <1>8, <1>9

\* No two positions share a place in the table and in the block.
LEMMA OnePosition ==
  ASSUME NEW i \in Nat, NEW j \in Nat, Page(i) = Page(j), Offset(i) = Offset(j)
  PROVE  i = j
  <1>1. /\ (Page(i) * BlockSize - BlockSize) + Offset(i) = i + 1
        /\ (Page(j) * BlockSize - BlockSize) + Offset(j) = j + 1
    BY Positions
  <1> QED
    BY <1>1

\* Every place of every block is one of a position.
LEMMA PositionAt ==
  ASSUME NEW k \in Nat \ {0}, NEW o \in 1 .. BlockSize
  PROVE  \E i \in Nat : Page(i) = k /\ Offset(i) = o
  <1>1. BlockSize \in Nat /\ BlockSize > 0
    BY PoolAssumption
  <1>2. PICK a \in Nat : a = k - 1
    OBVIOUS
  <1>3. PICK w \in Nat : w = a * BlockSize
    BY TimesOrder
  <1>4. PICK i \in Nat : i = w + (o - 1)
    BY <1>1, <1>3
  <1>5. (a + 1) * BlockSize = w + BlockSize
    BY <1>1, <1>3
  <1>6. Filled(a, i) /\ ~Filled(a + 1, i)
    BY <1>1, <1>3, <1>4, <1>5 DEF Filled
  <1>7. PICK p \in Nat \ {0} : p = Page(i)
    BY Positions
  <1>8. ~(p <= a) /\ p <= a + 1
    BY <1>6, <1>7, Positions
  <1>9. p = k
    BY <1>2, <1>7, <1>8
  <1>10. (Page(i) * BlockSize - BlockSize) + Offset(i) = i + 1 /\ Offset(i) \in 1 .. BlockSize
    BY Positions
  <1>11. Page(i) * BlockSize = w + BlockSize
    BY <1>2, <1>5, <1>7, <1>9
  <1>12. Offset(i) = o
    BY <1>1, <1>4, <1>10, <1>11
  <1> QED
    BY <1>7, <1>9, <1>12

\* Slots of a table that are slots.
LEMMA SlotOfTable ==
  ASSUME NEW tb \in Seq(Blocks), NEW i \in Nat, Page(i) \in 1 .. Len(tb)
  PROVE  Slot(tb, i) \in Slots
  <1>1. Slot(tb, i) = <<tb[Page(i)], Offset(i)>> /\ Offset(i) \in 1 .. BlockSize
    BY Positions
  <1>2. tb[Page(i)] \in Blocks
    BY Members
  <1> QED
    BY <1>1, <1>2 DEF Slots

\* K has, for a request with the table tb, its first m tokens.
Written(K, tb, m, toks) == \A i \in 0 .. m - 1 : K[Slot(tb, i)] = Prefix(toks, i + 1)

\* K has in block b what the hash h stands for.
HashWritten(K, b, h) == \A o \in 1 .. BlockSize : K[<<b, o>>] = Prefix(h, (Len(h) - BlockSize) + o)

\* The table tb is long enough for m tokens.
Reaches(tb, m) == \A i \in 0 .. m - 1 : Page(i) \in 1 .. Len(tb)

\* A prefix of a prefix.
LEMMA PrefixPrefix ==
  ASSUME NEW toks \in Seq(Nat), NEW m \in Nat, NEW n \in Nat, n <= m, m <= Len(toks)
  PROVE  Prefix(Prefix(toks, m), n) = Prefix(toks, n)
  <1>1. PICK u, v, w : u = SubSeq(toks, 1, m) /\ v = SubSeq(u, 1, n) /\ w = SubSeq(toks, 1, n)
    OBVIOUS
  <1>2. u \in Seq(Nat) /\ Len(u) = m /\ \A i \in 1 .. m : u[i] = toks[i]
    BY <1>1, FrontMembers
  <1>3. v \in Seq(Nat) /\ Len(v) = n /\ \A i \in 1 .. n : v[i] = u[i]
    BY <1>1, <1>2, FrontMembers
  <1>4. n <= Len(toks)
    BY LenProperties
  <1>5. w \in Seq(Nat) /\ Len(w) = n /\ \A i \in 1 .. n : w[i] = toks[i]
    BY <1>1, <1>4, FrontMembers
  <1>6. ASSUME NEW i \in 1 .. n PROVE v[i] = w[i]
    <2>1. i \in 1 .. m
      OBVIOUS
    <2> QED
      BY <1>2, <1>3, <1>5, <2>1
  <1>7. v = w
    <2>1. Len(v) = Len(w) /\ \A i \in 1 .. Len(v) : v[i] = w[i]
      BY <1>3, <1>5, <1>6
    <2> QED
      BY <1>3, <1>5, <2>1, SeqEqual
  <1> QED
    BY <1>1, <1>7 DEF Prefix

\* Another token changes no prefix.
LEMMA PrefixAppend ==
  ASSUME NEW toks \in Seq(Nat), NEW t \in Nat, NEW n \in Nat, n <= Len(toks)
  PROVE  Prefix(Append(toks, t), n) = Prefix(toks, n)
  <1>1. PICK u : u = Append(toks, t)
    OBVIOUS
  <1>2. PICK len \in Nat : len = Len(toks)
    BY LenProperties
  <1>3. u \in Seq(Nat) /\ Len(u) = len + 1 /\ \A i \in 1 .. len : u[i] = toks[i]
    BY <1>1, <1>2, AppendProperties
  <1>4. PICK v, w : v = SubSeq(u, 1, n) /\ w = SubSeq(toks, 1, n)
    OBVIOUS
  <1>5. n <= Len(u)
    BY <1>2, <1>3
  <1>6. v \in Seq(Nat) /\ Len(v) = n /\ \A i \in 1 .. n : v[i] = u[i]
    BY <1>3, <1>4, <1>5, FrontMembers, SMTT(30)
  <1>7. w \in Seq(Nat) /\ Len(w) = n /\ \A i \in 1 .. n : w[i] = toks[i]
    BY <1>4, FrontMembers
  <1>8. ASSUME NEW i \in 1 .. n PROVE v[i] = w[i]
    <2>1. i \in 1 .. len
      BY <1>2
    <2> QED
      BY <1>3, <1>6, <1>7, <2>1
  <1>9. v = w
    <2>1. Len(v) = Len(w) /\ \A i \in 1 .. Len(v) : v[i] = w[i]
      BY <1>6, <1>7, <1>8
    <2> QED
      BY <1>6, <1>7, <2>1, SeqEqual
  <1> QED
    BY <1>1, <1>4, <1>9 DEF Prefix

\* The hash of the k-th block of toks stands for the prefixes that end in it.
LEMMA HashPrefix ==
  ASSUME NEW toks \in Seq(Nat), NEW i \in Nat, NEW h, h = Prefix(toks, Page(i) * BlockSize),
         Filled(Page(i), Len(toks))
  PROVE  Prefix(h, (Len(h) - BlockSize) + Offset(i)) = Prefix(toks, i + 1)
  <1>1. /\ Page(i) \in Nat \ {0} /\ Offset(i) \in 1 .. BlockSize
        /\ Page(i) <= Page(i) <=> ~Filled(Page(i), i)
        /\ (Page(i) * BlockSize - BlockSize) + Offset(i) = i + 1
    BY Positions
  <1>2. PICK m \in Nat : m = Page(i) * BlockSize
    BY <1>1, TimesOrder
  <1>3. m <= Len(toks) /\ Len(h) = m
    <2>1. Page(i) * BlockSize <= Len(toks)
      BY DEF Filled
    <2> QED
      BY <1>1, <1>2, <2>1, PrefixHash
  <1>4. i + 1 <= m
    <2>1. ~(m <= i)
      BY <1>1, <1>2 DEF Filled
    <2> QED
      BY <2>1
  <1>5. (Len(h) - BlockSize) + Offset(i) = i + 1
    BY <1>1, <1>2, <1>3
  <1>6. Prefix(h, i + 1) = Prefix(toks, i + 1)
    BY <1>2, <1>3, <1>4, PrefixPrefix
  <1> QED
    BY <1>5, <1>6

-----------------------------------------------------------------------------
(* The steps of the engine that allocate *)

\* The blocks that m tokens need hold them.
LEMMA RequiredReaches ==
  ASSUME NEW m \in Nat, NEW tb, Len(tb) \in Nat, CDiv(m, BlockSize) <= Len(tb)
  PROVE  Reaches(tb, m)
  <1>1. BlockSize \in Nat /\ BlockSize > 0
    BY PoolAssumption
  <1>2. PICK x \in Nat : x = m + BlockSize - 1
    BY <1>1
  <1>3. PICK d \in Nat : d = CDiv(m, BlockSize)
    BY WithinRequired
  <1>4. Page(x) = d + 1
    BY <1>2, <1>3 DEF Page, CDiv
  <1>5. ASSUME NEW i \in 0 .. m - 1 PROVE Page(i) \in 1 .. Len(tb)
    <2>1. i \in Nat /\ i < m
      OBVIOUS
    <2>2. PICK w \in Nat : w = d * BlockSize
      BY TimesOrder
    <2>3. (d + 1) * BlockSize = w + BlockSize
      BY <1>1, <2>2
    <2>4. ~Filled(d + 1, x)
      BY <1>4, Positions
    <2>5. x < w + BlockSize
      BY <1>1, <2>2, <2>3, <2>4 DEF Filled
    <2>6. ~Filled(d, i)
      BY <1>1, <1>2, <2>1, <2>2, <2>5 DEF Filled
    <2>7. Page(i) \in Nat \ {0} /\ Page(i) <= d
      BY <2>1, <2>6, Positions
    <2> QED
      BY <1>3, <2>7
  <1> QED
    BY <1>5 DEF Reaches

\* In the table tb, which begins with held, the blocks behind the place a are nobody else's;
\* the hashes of blocks outside of it stay.
OwnBlocks(z, tb, held, p, bl, r, a) ==
  /\ \A b \in Blocks \ ToSet(tb) : z.hash[b] = p.hash[b]
  /\ \A i \in 1 .. Len(held) : i \in 1 .. Len(tb) /\ tb[i] = held[i]
  /\ \A i \in 1 .. Len(tb) : i > a => \A q \in Requests \ {r} : tb[i] \notin ToSet(bl[q])

\* A block without a hash has no other holder.
LEMMA NotShared ==
  ASSUME NEW hash, NEW bl \in Tables, Private(hash, bl), NEW r \in Requests, NEW b \in ToSet(bl[r]),
         hash[b] = NoHash, NEW q \in Requests \ {r}
  PROVE  b \notin ToSet(bl[q])
  BY DEF Private

\* New blocks are nobody's, and a request's blocks without a hash are its own.
LEMMA AllocateOwn ==
  ASSUME NEW p, NEW bl \in Tables, NEW r \in Requests, PoolInv(p, bl),
         NEW hits \in Seq(Blocks), ToSet(hits) \cap ToSet(bl[r]) = {},
         \A b \in ToSet(hits) : p.hash[b] # NoHash,
         NEW k \in Int, k <= Len(p.free) - Cardinality({b \in ToSet(hits) : p.ref[b] = 0}),
         NEW toks, NEW from \in Nat, NEW upto \in Nat, from <= upto,
         Own(p.hash, bl[r] \o hits, from, toks),
         NEW now, now = Enlarged(p, bl[r] \o hits, hits, k), now \in Seq(Blocks), upto <= Len(now),
         NEW z, z = Allocated(p, now, hits, k, from, upto, toks)
  PROVE  /\ OwnBlocks(z, now, bl[r] \o hits, p, bl, r, from)
         /\ Len(bl[r] \o hits) \in Nat /\ Len(now) >= Len(bl[r] \o hits) + k
  <1> DEFINE t == Touch(p, hits)
             g == Grown(bl, r, hits)
             new == IF k > 0 THEN NewBlocks(t, k) ELSE <<>>
             x == IF k > 0 THEN GetNewBlocks(t, k) ELSE t
  <1>1. PICK held : held = bl[r] \o hits
    OBVIOUS
  <1>2. /\ PoolInv(t, g) /\ t.hash = p.hash
        /\ Len(t.free) = Len(p.free) - Cardinality({b \in ToSet(hits) : p.ref[b] = 0})
    <2>1. AfterHits(t, p, bl, r, hits)
      BY TakeHits, Zenon
    <2> HIDE DEF t
    <2> QED
      BY <2>1, Zenon DEF AfterHits
  <1>3. /\ g \in Tables /\ g[r] = held /\ \A q \in Requests : q # r => g[q] = bl[q]
    BY <1>1, GrownHolders, ZenonT(60)
  <1>4. bl[r] \in Seq(Blocks) /\ held \in Seq(Blocks)
    BY <1>3 DEF Tables
  <1>5. now = held \o new
    BY <1>1, Zenon DEF Enlarged
  <1>6. z = IF from >= upto THEN x ELSE WithHashes(x, now, from, upto, toks)
    BY Zenon DEF Allocated
  <1> HIDE DEF t, g
  <1>7. PICK n \in Nat : n = IF k > 0 THEN k ELSE 0
    OBVIOUS
  <1>8. /\ new \in Seq(Blocks) /\ Len(new) = n
        /\ \A b \in ToSet(new) : HoldersIn(g, b) = {}
        /\ PoolType(x)
        /\ \A b \in Blocks : b \notin ToSet(new) => x.hash[b] = p.hash[b]
    <2>1. CASE k > 0
      <3>1. k \in Nat /\ k <= Len(t.free)
        BY <1>2, <2>1
      <3>2. PoolType(t) /\ Counted(t.ref, g) /\ Listed(t.free, g) /\ Indexed(t.hash, t.cached)
        BY <1>2 DEF PoolInv
      <3>3. /\ NewBlocks(t, k) \in Seq(Blocks) /\ Len(NewBlocks(t, k)) = k
            /\ \A b \in ToSet(NewBlocks(t, k)) : HoldersIn(g, b) = {}
            /\ PoolType(GetNewBlocks(t, k))
            /\ \A b \in Blocks : GetNewBlocks(t, k).hash[b]
                                   = IF b \in ToSet(NewBlocks(t, k)) THEN NoHash ELSE t.hash[b]
        BY <1>3, <3>1, <3>2, GetNewBlocksAgrees
      <3>4. new = NewBlocks(t, k) /\ x = GetNewBlocks(t, k)
        BY <2>1
      <3> HIDE DEF new, x
      <3> QED
        BY <1>2, <1>7, <2>1, <3>3, <3>4
    <2>2. CASE ~(k > 0)
      <3>1. new = <<>> /\ x = t
        BY <2>2
      <3>2. PoolType(t)
        BY <1>2 DEF PoolInv
      <3> HIDE DEF new, x
      <3> QED
        BY <1>2, <1>7, <2>2, <3>1, <3>2, NoMembers
    <2> QED
      BY <2>1, <2>2
  <1> HIDE DEF new, x
  <1>9. Joined(Blocks, now, held, new)
    BY <1>4, <1>5, <1>8, ConcatJoins
  <1>10. PICK a, b \in Nat : a = Len(held) /\ b = Len(now) /\ b = a + n
    BY <1>4, <1>7, <1>8, <1>9, LenProperties DEF Joined
  <1>11. /\ \A i \in 1 .. a : now[i] = held[i]
         /\ \A i \in a + 1 .. b : now[i] \in ToSet(new)
         /\ ToSet(new) \subseteq ToSet(now)
    <2>1. ASSUME NEW i \in a + 1 .. b PROVE now[i] \in ToSet(new)
      <3>1. now[i] = new[i - a] /\ i - a \in 1 .. n
        BY <1>8, <1>9, <1>10 DEF Joined
      <3> QED
        BY <1>8, <3>1, Members
    <2> QED
      BY <1>9, <1>10, <2>1 DEF Joined
  <1>12. ASSUME NEW c \in Blocks \ ToSet(now) PROVE z.hash[c] = p.hash[c]
    <2>1. x.hash[c] = p.hash[c]
      BY <1>8, <1>11
    <2>2. CASE from >= upto
      BY <1>6, <2>1, <2>2
    <2>3. CASE ~(from >= upto)
      <3> DEFINE part == SubSeq(now, from + 1, upto)
                 hashes == [j \in 1 .. upto - from |-> Prefix(toks, (from + j) * BlockSize)]
      <3>1. z = CacheFullBlocks(x, part, hashes)
        BY <1>6, <2>3, Zenon DEF WithHashes
      <3>2. \A y : y \in ToSet(part) <=> \E i \in from + 1 .. upto : now[i] = y
        <4>1. PartOf(Blocks, part, now, from, upto)
          BY PartMembers
        <4> HIDE DEF part
        <4> QED
          BY <4>1 DEF PartOf
      <3> HIDE DEF part, hashes
      <3>3. c \notin ToSet(part)
        <4>1. \A i \in from + 1 .. upto : now[i] \in ToSet(now)
          <5>1. \A i \in from + 1 .. upto : i \in 1 .. Len(now)
            BY <1>10
          <5> QED
            BY <5>1, Members
        <4> QED
          BY <3>2, <4>1
      <3>4. z.hash[c] = x.hash[c]
        <4> DEFINE H(y) == hashes[CHOOSE i \in DOMAIN part : part[i] = y]
        <4>1. x = [ref |-> x.ref, free |-> x.free, hash |-> x.hash, cached |-> x.cached]
          BY <1>8 DEF PoolType
        <4>2. z.hash = [y \in Blocks |-> IF y \in ToSet(part) THEN H(y) ELSE x.hash[y]]
          BY <3>1, <4>1 DEF CacheFullBlocks
        <4> HIDE DEF H
        <4> QED
          BY <3>3, <4>2
      <3> QED
        BY <2>1, <3>4
    <2> QED
      BY <2>2, <2>3
  <1>13. ASSUME NEW i \in 1 .. b, i > from, NEW q \in Requests \ {r} PROVE now[i] \notin ToSet(bl[q])
    <2>1. CASE i \in a + 1 .. b
      <3>1. now[i] \in ToSet(new)
        BY <1>11, <2>1
      <3>2. HoldersIn(g, now[i]) = {}
        BY <1>8, <3>1
      <3>3. now[i] \notin ToSet(g[q])
        BY <3>2 DEF HoldersIn
      <3> QED
        BY <1>3, <3>3
    <2>2. CASE i \in 1 .. a
      <3>1. now[i] = held[i] /\ held[i] \in ToSet(held) /\ p.hash[held[i]] = NoHash
        <4>1. p.hash[held[i]] = NoHash
          BY <1>1, <1>10, <1>13, <2>2, SMTT(30) DEF Own
        <4>2. held[i] \in ToSet(held)
          BY <1>4, <1>10, <2>2, Members
        <4> QED
          BY <1>11, <2>2, <4>1, <4>2
      <3>2. held[i] \in ToSet(bl[r])
        <4>1. ToSet(held) = ToSet(bl[r]) \cup ToSet(hits)
          BY <1>1, <1>4, ConcatMembers
        <4> QED
          BY <3>1, <4>1
      <3>3. Private(p.hash, bl)
        BY DEF PoolInv
      <3> QED
        BY <3>1, <3>2, <3>3, NotShared
    <2> QED
      BY <1>10, <2>1, <2>2
  <1>14. \A i \in 1 .. a : i \in 1 .. b /\ now[i] = held[i]
    BY <1>10, <1>11
  <1>15. OwnBlocks(z, now, held, p, bl, r, from)
    BY <1>10, <1>12, <1>13, <1>14 DEF OwnBlocks
  <1>16. Len(held) \in Nat /\ Len(now) >= Len(held) + k
    BY <1>7, <1>10
  <1> QED
    BY <1>1, <1>15, <1>16

\* z, f and nc are the pool, the tables and the numbers of cached blocks after request r
\* got blocks for its first m tokens.
Given(z, f, nc, p, bl, old, r, m, toks) ==
  /\ f \in Tables
  /\ \A q \in Requests : q # r => f[q] = bl[q]
  /\ \E b \in Nat : /\ nc = [old EXCEPT ![r] = b]
                    /\ Filled(b, m)
                    /\ AfterHashes(z, f, p, bl, r, b, toks)

\* The tokens a request has once it has the hits, and n tokens on top are computed.
Reached(r, n, hits) == req[r].computed + Len(hits) * BlockSize + n

\* The pool is finite.
LEMMA BlocksFinite ==
  IsFiniteSet(Blocks)
  BY PoolAssumption, FS_Interval DEF Blocks

\* Enough free blocks for what a request still needs, in numbers: it needs a, has x and
\* gets y as hits, c of which are themselves free.
LEMMA RoomLeft ==
  ASSUME NEW a \in Nat, NEW b \in Nat, NEW c \in Nat, NEW x \in Nat, NEW y \in Nat, NEW w \in Nat,
         a - y - x + c <= w, b <= a
  PROVE  a - (x + y) \in Int /\ a - (x + y) <= w - c /\ b <= (x + y) + (a - (x + y))
  OBVIOUS

\* allocate_slots for tokens that the request has: the free list is long enough, the
\* blocks it gets reach as far as those it fills, and m tokens fill as many as get a hash.
LEMMA AllocateGives ==
  ASSUME SchedInv, NEW r \in Requests, NEW n \in Nat, NEW hits \in Seq(Blocks), NEW from \in Nat,
         Fits(r, n, hits), Allocate(r, n, hits),
         from = IF ncached[r] = NoEntry THEN Len(hits) ELSE ncached[r],
         ToSet(hits) \cap ToSet(blocks[r]) = {},
         \A b \in ToSet(hits) : pool.hash[b] # NoHash,
         Own(pool.hash, blocks[r] \o hits, from, req[r].tokens),
         NEW m \in Nat, m = Reached(r, n, hits),
         m <= Len(req[r].tokens), Filled(from, m)
  PROVE  /\ Given(pool', blocks', ncached', pool, blocks, ncached, r, m, req[r].tokens)
         /\ OwnBlocks(pool', blocks'[r], blocks[r] \o hits, pool, blocks, r, from)
         /\ Reaches(blocks'[r], m)
  <1>1. /\ SchedType /\ Lengths(req, batch) /\ PoolInv(pool, blocks)
    BY DEF SchedInv
  <1>2. /\ req \in [Requests -> Reqs] /\ blocks \in Tables /\ ncached \in [Requests -> Int]
    BY <1>1 DEF SchedType
  <1>3. PICK toks : toks = req[r].tokens
    OBVIOUS
  <1>4. toks \in Seq(Nat) /\ Len(toks) \in Nat /\ Len(toks) <= MaxModelLen /\ MaxModelLen \in Nat
    <2>1. toks \in Seq(Nat)
      BY <1>2, <1>3 DEF Reqs
    <2>2. Len(toks) \in 1 .. MaxModelLen
      BY <1>1, <1>3 DEF Lengths, Bounded
    <2> QED
      BY <2>1, <2>2, ServingAssumption
  <1> DEFINE held == blocks[r] \o hits
             k == Required(r, n, hits) - Len(held)
             upto == MinOf(req[r].computed + Len(hits) * BlockSize + n, Len(req[r].tokens))
                       \div BlockSize
             now == Enlarged(pool, held, hits, k)
  <1>5. /\ pool' = Allocated(pool, now, hits, k, from, upto, toks)
        /\ blocks' = [blocks EXCEPT ![r] = now]
        /\ ncached' = [ncached EXCEPT ![r] = upto]
    BY <1>3, Zenon DEF Allocate, Allocated, Enlarged, WithHashes
  <1>6. upto = m \div BlockSize
    BY <1>3, <1>4 DEF MinOf, Reached
  <1>7. Required(r, n, hits) = CDiv(m, BlockSize)
    <2>1. MinOf(m, MaxModelLen) = m
      BY <1>3, <1>4 DEF MinOf
    <2> QED
      BY <2>1 DEF Required, Reached
  <1>8. /\ CDiv(m, BlockSize) \in Nat /\ m \div BlockSize \in Nat
        /\ m \div BlockSize <= CDiv(m, BlockSize)
        /\ (m \div BlockSize) * BlockSize <= m
        /\ from <= m \div BlockSize
    <2>1. CDiv(m, BlockSize) \in Nat /\ m \div BlockSize <= CDiv(m, BlockSize)
      BY WithinRequired
    <2>2. /\ m \div BlockSize \in Nat /\ (m \div BlockSize) * BlockSize <= m
          /\ \A a \in Nat : a * BlockSize <= m => a <= m \div BlockSize
      BY WholeBlocks
    <2>3. from <= m \div BlockSize
      BY <2>2, Zenon DEF Filled
    <2> QED
      BY <2>1, <2>2, <2>3
  <1>9. Len(held) = Len(blocks[r]) + Len(hits) /\ Len(blocks[r]) \in Nat /\ Len(hits) \in Nat
    <2>1. blocks[r] \in Seq(Blocks)
      BY <1>2 DEF Tables
    <2> QED
      BY <2>1, ConcatProperties, LenProperties
  <1> DEFINE c == Cardinality({b \in ToSet(hits) : pool.ref[b] = 0})
  <1>10. c \in Nat /\ Len(pool.free) \in Nat
    <2>1. ToSet(hits) \subseteq Blocks
      BY Members
    <2>3. IsFiniteSet({b \in ToSet(hits) : pool.ref[b] = 0})
      BY <2>1, BlocksFinite, FS_Subset
    <2>4. pool.free \in Seq(Blocks)
      BY <1>1 DEF PoolInv, PoolType
    <2> QED
      BY <2>3, <2>4, FS_CardinalityType, LenProperties
  <1>11. Required(r, n, hits) - Len(hits) - Len(blocks[r]) + c <= Len(pool.free)
    BY DEF Fits
  <1> HIDE DEF held, upto, c
  <1>12. k \in Int /\ k <= Len(pool.free) - c /\ m \div BlockSize <= Len(held) + k
    <2>1. PICK a, b \in Nat : a = Required(r, n, hits) /\ b = m \div BlockSize /\ a \in Nat /\ b <= a
      BY <1>7, <1>8
    <2>2. PICK x, y, w \in Nat : x = Len(blocks[r]) /\ y = Len(hits) /\ w = Len(pool.free)
                                 /\ x \in Nat /\ y \in Nat /\ Len(held) = x + y
      BY <1>9, <1>10
    <2>3. a - y - x + c <= w
      BY <1>11, <2>1, <2>2
    <2>4. a - (x + y) \in Int /\ a - (x + y) <= w - c /\ b <= (x + y) + (a - (x + y))
      BY <1>10, <2>1, <2>3, RoomLeft
    <2> QED
      BY <2>1, <2>2, <2>4
  <1> HIDE DEF k
  <1>13. Covers(toks, m \div BlockSize)
    <2> DEFINE d == (m \div BlockSize) * BlockSize
    <2>1. d \in Nat /\ d <= m
      BY <1>8, TimesOrder
    <2> HIDE DEF d
    <2>2. d <= Len(toks)
      BY <1>3, <1>4, <2>1
    <2> QED
      BY <2>2 DEF Covers, d
  <1>14. PICK u \in Nat : u = upto /\ from <= u /\ Covers(toks, u) /\ u <= Len(held) + k /\ Filled(u, m)
    BY <1>6, <1>8, <1>12, <1>13 DEF Filled
  <1>15. /\ now \in Seq(Blocks)
         /\ AfterHashes(Allocated(pool, now, hits, k, from, u, toks), [blocks EXCEPT ![r] = now],
                        pool, blocks, r, u, toks)
         /\ OwnBlocks(Allocated(pool, now, hits, k, from, u, toks), now, held, pool, blocks, r, from)
         /\ Len(now) >= Len(held) + k
    <2>1. Own(pool.hash, held, from, toks)
      BY <1>3 DEF held
    <2>2. now = Enlarged(pool, held, hits, k)
      OBVIOUS
    <2>3. PICK p, bl, w : p = pool /\ bl = blocks /\ w = now
      OBVIOUS
    <2> HIDE DEF now
    <2>4. /\ bl \in Tables /\ PoolInv(p, bl) /\ ToSet(hits) \cap ToSet(bl[r]) = {}
          /\ \A b \in ToSet(hits) : p.hash[b] # NoHash
      BY <1>1, <1>2, <2>3
    <2>5. k <= Len(p.free) - Cardinality({b \in ToSet(hits) : p.ref[b] = 0})
      BY <1>12, <2>3 DEF c
    <2>6. /\ Own(p.hash, bl[r] \o hits, from, toks) /\ w = Enlarged(p, bl[r] \o hits, hits, k)
          /\ u <= Len(bl[r] \o hits) \/ u <= Len(bl[r] \o hits) + k
      BY <1>14, <2>1, <2>2, <2>3 DEF held
    <2>7. k \in Int /\ toks \in Seq(Nat) /\ from <= u /\ Covers(toks, u)
      BY <1>4, <1>12, <1>14
    <2>8. /\ w \in Seq(Blocks) /\ u <= Len(w)
          /\ AfterHashes(Allocated(p, w, hits, k, from, u, toks), [bl EXCEPT ![r] = w], p, bl, r, u, toks)
      BY <2>4, <2>5, <2>6, <2>7, AllocateAgrees, ZenonT(90)
    <2>9. PICK z : z = Allocated(p, w, hits, k, from, u, toks)
      OBVIOUS
    <2>10. /\ OwnBlocks(z, w, bl[r] \o hits, p, bl, r, from)
           /\ Len(bl[r] \o hits) \in Nat /\ Len(w) >= Len(bl[r] \o hits) + k
      BY <2>4, <2>5, <2>6, <2>7, <2>8, <2>9, AllocateOwn
    <2> QED
      BY <2>3, <2>8, <2>9, <2>10 DEF held
  <1> HIDE DEF now
  <1>16. AfterHashes(pool', blocks', pool, blocks, r, u, toks) /\ ncached' = [ncached EXCEPT ![r] = u]
    BY <1>5, <1>14, <1>15, Zenon
  <1>17. blocks' \in Tables /\ \A q \in Requests : q # r => blocks'[q] = blocks[q]
    BY <1>2, <1>5, <1>15 DEF Tables
  <1>18. blocks'[r] = now
    BY <1>2, <1>5 DEF Tables
  <1>19. OwnBlocks(pool', blocks'[r], held, pool, blocks, r, from)
    BY <1>5, <1>14, <1>15, <1>18, Zenon
  <1>20. Reaches(blocks'[r], m)
    <2>1. PICK a, b \in Nat : a = Len(held) /\ b = CDiv(m, BlockSize)
      BY <1>8, <1>9
    <2>2. k = b - a
      BY <1>7, <2>1 DEF k
    <2>3. Len(now) \in Nat
      BY <1>15, LenProperties
    <2>4. CDiv(m, BlockSize) <= Len(now)
      BY <1>15, <2>1, <2>2, <2>3
    <2> QED
      BY <1>18, <2>3, <2>4, RequiredReaches
  <1> QED
    BY <1>3, <1>14, <1>16, <1>17, <1>19, <1>20 DEF Given, held

\* The pool z and the tables f agree with each other and with the requests.
Holding(z, f, nc, rq, bt) ==
  /\ f \in Tables /\ nc \in [Requests -> Int]
  /\ PoolInv(z, f)
  /\ Held(z.hash, f, nc, rq, bt)

\* Requests and batch are as before, but for request r, which has m tokens with this step.
Advanced(next, rq, b2, bt, r, m) ==
  /\ \A q \in Requests : q # r => next[q] = rq[q] /\ AdvanceIn(b2, q) = AdvanceIn(bt, q)
  /\ next[r].status = "running" /\ next[r].tokens = rq[r].tokens
  /\ next[r].computed + AdvanceIn(b2, r) = m

\* Only the request that is scheduled sees its blocks change.
LEMMA GivenHolds ==
  ASSUME NEW z, NEW f, NEW nc, NEW p, NEW bl \in Tables, NEW old \in [Requests -> Int],
         NEW r \in Requests, NEW m \in Nat, NEW rq, NEW next, NEW bt, NEW b2,
         Given(z, f, nc, p, bl, old, r, m, rq[r].tokens),
         Held(p.hash, bl, old, rq, bt),
         Advanced(next, rq, b2, bt, r, m)
  PROVE  Holding(z, f, nc, next, b2)
  <1>1. /\ f \in Tables /\ \A q \in Requests : q # r => f[q] = bl[q]
    BY DEF Given
  <1>0. /\ \A q \in Requests : q # r => next[q] = rq[q] /\ AdvanceIn(b2, q) = AdvanceIn(bt, q)
        /\ next[r].status = "running" /\ next[r].tokens = rq[r].tokens
        /\ next[r].computed + AdvanceIn(b2, r) = m
    BY DEF Advanced
  <1>2. PICK b \in Nat : /\ nc = [old EXCEPT ![r] = b]
                         /\ Filled(b, m)
                         /\ AfterHashes(z, f, p, bl, r, b, rq[r].tokens)
    BY DEF Given
  <1>3. /\ PoolInv(z, f) /\ Own(z.hash, f[r], b, rq[r].tokens)
        /\ \A q \in Requests \ {r} : \A c \in ToSet(bl[q]) : z.hash[c] = p.hash[c]
    BY <1>2, Zenon DEF AfterHashes
  <1>4. nc \in [Requests -> Int] /\ nc[r] = b /\ \A q \in Requests : q # r => nc[q] = old[q]
    BY <1>2
  <1>5. ASSUME NEW q \in Requests
        PROVE  HeldBy(z.hash, f[q], nc[q], next[q], AdvanceIn(b2, q))
    <2>1. CASE q = r
      <3>1. Filled(b, next[r].computed + AdvanceIn(b2, r))
        BY <1>0, <1>2
      <3> QED
        BY <1>0, <1>3, <1>4, <2>1, <3>1 DEF HeldBy
    <2>2. CASE q # r
      <3>1. HeldBy(p.hash, bl[q], old[q], rq[q], AdvanceIn(bt, q))
        BY DEF Held
      <3>2. f[q] = bl[q] /\ nc[q] = old[q] /\ next[q] = rq[q] /\ AdvanceIn(b2, q) = AdvanceIn(bt, q)
        BY <1>0, <1>1, <1>4, <2>2
      <3>3. bl[q] \in Seq(Blocks) /\ \A c \in ToSet(bl[q]) : z.hash[c] = p.hash[c]
        BY <1>3, <2>2 DEF Tables
      <3>4. Own(p.hash, bl[q], old[q], rq[q].tokens)
        BY <3>1 DEF HeldBy
      <3>5. Own(z.hash, bl[q], old[q], rq[q].tokens)
        BY <3>3, <3>4, OwnStays, Zenon
      <3> QED
        BY <3>1, <3>2, <3>5 DEF HeldBy
    <2> QED
      BY <2>1, <2>2
  <1> QED
    BY <1>1, <1>3, <1>4, <1>5 DEF Held, Holding

\* The end of a sequence, whatever the place.
LEMMA EndMembers ==
  ASSUME NEW T, NEW s \in Seq(T), NEW a \in Nat
  PROVE  SubSeq(s, a + 1, Len(s)) \in Seq(T)
  <1>1. Len(s) \in Nat
    BY LenProperties
  <1>2. CASE a <= Len(s)
    <2>1. PartOf(T, SubSeq(s, a + 1, Len(s)), s, a, Len(s))
      BY <1>1, <1>2, PartMembers
    <2> QED
      BY <2>1 DEF PartOf
  <1>3. CASE ~(a <= Len(s))
    BY <1>1, <1>3
  <1> QED
    BY <1>2, <1>3

\* What a step may schedule of a request: MinOf and Capped only ever take less.
LEMMA AtMost ==
  ASSUME NEW x \in Int, NEW y \in Int
  PROVE  MinOf(x, y) \in Int /\ MinOf(x, y) <= x /\ MinOf(x, y) <= y
  BY DEF MinOf

LEMMA CappedAtMost ==
  ASSUME NEW x \in Int
  PROVE  Capped(x) \in Int /\ Capped(x) <= x
  <1>1. LongPrefill \in Nat
    BY ServingAssumption
  <1> QED
    BY <1>1 DEF Capped

\* The entry e is put on top of the batch bt, for tokens that its request has; the request
\* gets the table f[e.r], which begins with held, and what e writes is behind its a-th block.
EntryMade(e, held, a, rq, next, bt, b2, bl, f, p, z) ==
  /\ e \in Entries
  /\ b2 = Append(bt, e) /\ Extended(b2, bt, e)
  /\ \A i \in 1 .. Len(bt) : bt[i].r # e.r
  /\ e.tokens = rq[e.r].tokens /\ e.start = next[e.r].computed
  /\ e.start + e.n <= Len(e.tokens)
  /\ a \in Nat /\ Filled(a, e.start)
  /\ OwnBlocks(z, f[e.r], held, p, bl, e.r, a)
  /\ Reaches(f[e.r], e.start + e.n)
  /\ f \in Tables /\ \A q \in Requests : q # e.r => f[q] = bl[q]
  /\ \E c \in Nat : Filled(c, e.start + e.n) /\ Own(z.hash, f[e.r], c, e.tokens)
  /\ Advanced(next, rq, b2, bt, e.r, e.start + e.n)

\* hits are blocks with the hashes of the first prefixes of toks, and leave a token over.
Found(hits, hash, toks) ==
  /\ hits \in Seq(Blocks) /\ IsInjective(hits)
  /\ Filled(Len(hits), Len(toks) - 1)
  /\ \A i \in 1 .. Len(hits) : hash[hits[i]] = Prefix(toks, i * BlockSize)
  /\ \A b \in ToSet(hits) : hash[b] # NoHash

\* What ScheduleRunning and AdmitWaiting put into the batch.
RunningEntry ==
  \E e, a :
    /\ EntryMade(e, blocks[e.r], a, req, req', batch, batch', blocks, blocks', pool, pool')
    /\ e.kind = "running" /\ req[e.r].status = "running" /\ AdvanceIn(batch, e.r) = 0
    /\ e.ids = SubSeq(blocks'[e.r], Len(blocks[e.r]) + 1, Len(blocks'[e.r]))

FirstEntry ==
  \E e, hits :
    /\ EntryMade(e, hits, Len(hits), req, req', batch, batch', blocks, blocks', pool, pool')
    /\ e.kind # "running" /\ e.ids = blocks'[e.r]
    /\ Found(hits, pool.hash, e.tokens) /\ e.start = Len(hits) * BlockSize

\* schedule(), a running request: no hits, and more tokens for the blocks it has.
LEMMA ScheduleRunningKeeps ==
  ASSUME SchedInv, ScheduleRunning
  PROVE  SchedInv' /\ RunningEntry
  <1>1. PICK r, n, ids : /\ r = running[idx] /\ n = NumNew(r)
                         /\ ids = SubSeq(blocks'[r], Len(blocks[r]) + 1, Len(blocks'[r]))
    OBVIOUS
  <1>2. /\ phase = "running" /\ idx <= Len(running)
        /\ n > 0 /\ Fits(r, n, <<>>) /\ Allocate(r, n, <<>>)
        /\ batch' = Append(batch, Entry(r, n, req[r].computed, "running", ids))
        /\ budget' = budget - n /\ idx' = idx + 1
        /\ req' = req /\ running' = running /\ waiting' = waiting /\ finished' = finished
        /\ phase' = phase /\ queue' = queue
    BY <1>1 DEF ScheduleRunning, InRunningLoop
  <1>3. /\ SchedType /\ InLine(running, waiting, req) /\ InBatch(batch, phase, idx, running)
        /\ InQueue(queue, phase) /\ Lengths(req, batch) /\ PoolInv(pool, blocks)
        /\ Held(pool.hash, blocks, ncached, req, batch)
    BY DEF SchedInv
  <1>4. /\ req \in [Requests -> Reqs] /\ running \in Seq(Requests) /\ blocks \in Tables
        /\ ncached \in [Requests -> Int] /\ idx \in Nat \ {0} /\ batch \in Seq(Entries)
        /\ budget \in 0 .. MaxScheduledTokens /\ MaxScheduledTokens \in Nat /\ MaxModelLen \in Nat
    BY <1>3, ServingAssumption DEF SchedType
  <1>5. PICK len \in Nat : len = Len(running) /\ idx \in 1 .. len
    BY <1>2, <1>4, LenProperties
  <1>6. r \in Requests /\ r \in ToSet(running) /\ req[r].status = "running"
    <2>1. r \in Requests /\ r \in ToSet(running)
      BY <1>1, <1>4, <1>5, Members
    <2> QED
      BY <1>3, <2>1 DEF InLine
  <1>7. PICK toks, done : toks = req[r].tokens /\ done = req[r].computed
    OBVIOUS
  <1>8. toks \in Seq(Nat) /\ done \in Nat /\ Len(toks) \in Nat
    BY <1>4, <1>6, <1>7, LenProperties DEF Reqs
  <1>9. n \in Nat /\ n <= Len(toks) - done /\ n <= budget
    <2> DEFINE x == Capped(Len(toks) - done)
    <2>1. x \in Int /\ x <= Len(toks) - done
      BY <1>8, CappedAtMost
    <2>2. n = MinOf(MinOf(x, budget), MaxModelLen - 1 - done)
      BY <1>1, <1>7 DEF NumNew
    <2> HIDE DEF x
    <2>3. PICK y : y = MinOf(x, budget)
      OBVIOUS
    <2>4. y \in Int /\ y <= x /\ y <= budget
      BY <1>4, <2>1, <2>3, AtMost
    <2>5. n \in Int /\ n <= y
      BY <1>4, <1>8, <2>2, <2>3, <2>4, AtMost
    <2> QED
      BY <1>2, <1>4, <1>8, <2>1, <2>4, <2>5
  <1>10. /\ \A i \in 1 .. Len(batch) : \E j \in 1 .. len : running[j] = batch[i].r /\ j < idx
         /\ Distinct(batch) /\ Len(batch) \in Nat
    BY <1>2, <1>3, <1>4, <1>5, LenProperties DEF InBatch
  <1>11. \A i \in 1 .. Len(batch) : batch[i].r # r
    <2>1. \A i, j \in 1 .. len : running[i] = running[j] => i = j
      BY <1>3, <1>4, <1>5, AscendingMembers DEF InLine
    <2>2. \A j \in 1 .. len : j < idx => running[j] # r
      BY <1>1, <1>4, <1>5, <2>1
    <2> QED
      BY <1>10, <2>2
  <1>12. AdvanceIn(batch, r) = 0
    BY <1>4, <1>11, AdvanceZero
  <1>13. HeldBy(pool.hash, blocks[r], ncached[r], req[r], 0)
    BY <1>3, <1>6, <1>12 DEF Held
  <1>14. PICK from \in Nat : from = ncached[r] /\ Filled(from, done)
    <2>1. ncached[r] \in Nat /\ Filled(ncached[r], done + 0)
      BY <1>6, <1>7, <1>13 DEF HeldBy
    <2>2. done + 0 = done
      BY <1>8
    <2> QED
      BY <2>1, <2>2
  <1>15. /\ Given(pool', blocks', ncached', pool, blocks, ncached, r, done + n, toks)
         /\ OwnBlocks(pool', blocks'[r], blocks[r], pool, blocks, r, from)
         /\ Reaches(blocks'[r], done + n)
    <2>1. PICK m \in Nat : m = done + n
      BY <1>8, <1>9
    <2>2. m = Reached(r, n, <<>>)
      <3>1. Len(<<>>) * BlockSize = 0
        BY PoolAssumption
      <3> QED
        BY <1>7, <1>8, <1>9, <2>1, <3>1 DEF Reached
    <2>3. m <= Len(req[r].tokens)
      BY <1>7, <1>8, <1>9, <2>1
    <2>4. Filled(from, m)
      <3>1. from * BlockSize \in Nat
        BY TimesOrder
      <3>2. from * BlockSize <= done
        BY <1>14 DEF Filled
      <3>3. from * BlockSize <= m
        <4> DEFINE w == from * BlockSize
        <4> HIDE DEF w
        <4> QED
          BY <1>8, <1>9, <2>1, <3>1, <3>2 DEF w
      <3> QED
        BY <3>3 DEF Filled
    <2>5. from = IF ncached[r] = NoEntry THEN Len(<<>>) ELSE ncached[r]
      BY <1>14 DEF NoEntry
    <2>6. <<>> \in Seq(Blocks) /\ ToSet(<<>>) = {}
      BY NoMembers
    <2>7. blocks[r] \o <<>> = blocks[r]
      BY <1>4, <1>6, ConcatEmptySeq DEF Tables
    <2>8. Own(pool.hash, blocks[r] \o <<>>, from, req[r].tokens)
      BY <1>13, <1>14, <2>7 DEF HeldBy
    <2>9. PICK hits : hits = <<>>
      OBVIOUS
    <2>10. /\ Given(pool', blocks', ncached', pool, blocks, ncached, r, m, req[r].tokens)
           /\ OwnBlocks(pool', blocks'[r], blocks[r] \o hits, pool, blocks, r, from)
           /\ Reaches(blocks'[r], m)
      <3>1. hits \in Seq(Blocks) /\ ToSet(hits) = {} /\ m = Reached(r, n, hits)
        BY <2>2, <2>6, <2>9
      <3>2. Fits(r, n, hits) /\ Allocate(r, n, hits)
        BY <1>2, <2>9
      <3>3. /\ from = IF ncached[r] = NoEntry THEN Len(hits) ELSE ncached[r]
            /\ Own(pool.hash, blocks[r] \o hits, from, req[r].tokens)
        BY <2>5, <2>8, <2>9
      <3> QED
        BY <1>6, <1>9, <2>3, <2>4, <3>1, <3>2, <3>3, AllocateGives
    <2> QED
      BY <1>7, <2>1, <2>7, <2>9, <2>10
  <1>16. PICK e, b2 : e = Entry(r, n, done, "running", ids) /\ b2 = Append(batch, e)
    OBVIOUS
  <1>17. blocks' \in Tables
    BY <1>15 DEF Given
  <1>18. /\ e \in Entries /\ e.r = r /\ e.n = n
         /\ e.start = done /\ e.kind = "running" /\ e.ids = ids /\ e.tokens = toks
    <2>1. blocks'[r] \in Seq(Blocks) /\ Len(blocks[r]) \in Nat
      BY <1>4, <1>6, <1>17, LenProperties DEF Tables
    <2>2. ids \in Seq(Blocks)
      BY <1>1, <2>1, EndMembers
    <2>3. e = [r |-> r, n |-> n, start |-> done, kind |-> "running", ids |-> ids, tokens |-> toks]
      BY <1>7, <1>16 DEF Entry
    <2> QED
      BY <1>6, <1>8, <1>9, <2>2, <2>3 DEF Entries
  <1>19. /\ b2 \in Seq(Entries) /\ Len(b2) = Len(batch) + 1
         /\ \A i \in 1 .. Len(batch) : b2[i] = batch[i]
         /\ b2[Len(batch) + 1] = e /\ Distinct(b2) /\ AdvanceIn(b2, r) = n /\ Extended(b2, batch, e)
         /\ \A q : q # r => AdvanceIn(b2, q) = AdvanceIn(batch, q)
    <2>1. \A i \in 1 .. Len(batch) : batch[i].r # e.r
      BY <1>11, <1>18
    <2>2. Extended(b2, batch, e)
      BY <1>4, <1>10, <1>16, <1>18, <2>1, BatchAppend, Zenon
    <2> QED
      BY <1>18, <2>2 DEF Extended
  <1>20. batch' = b2
    BY <1>2, <1>7, <1>16
  <1>21. InBatch(b2, "running", idx + 1, running)
    <2>1. ASSUME NEW i \in 1 .. Len(batch) + 1
          PROVE  \E j \in 1 .. len : running[j] = b2[i].r /\ j < idx + 1
      <3>1. CASE i = Len(batch) + 1
        BY <1>1, <1>4, <1>5, <1>18, <1>19, <3>1
      <3>2. CASE i \in 1 .. Len(batch)
        <4>1. PICK j \in 1 .. len : running[j] = batch[i].r /\ j < idx
          BY <1>10, <3>2
        <4>2. running[j] = b2[i].r /\ j < idx + 1
          BY <1>4, <1>19, <3>2, <4>1
        <4> QED
          BY <4>2
      <3> QED
        BY <1>10, <3>1, <3>2
    <2>2. idx + 1 <= Len(running) + 1
      BY <1>4, <1>5
    <2> QED
      BY <1>5, <1>19, <2>1, <2>2 DEF InBatch
  <1>22. Lengths(req, b2)
    <2>1. ASSUME NEW q \in Requests PROVE Bounded(req[q], AdvanceIn(b2, q))
      <3>1. Bounded(req[q], AdvanceIn(batch, q))
        BY <1>3 DEF Lengths
      <3>2. CASE q = r
        <4>1. req[r].computed + n <= Len(req[r].tokens)
          BY <1>7, <1>8, <1>9
        <4> QED
          BY <1>19, <3>1, <3>2, <4>1 DEF Bounded
      <3>3. CASE q # r
        BY <1>19, <3>1, <3>3
      <3> QED
        BY <3>2, <3>3
    <2> QED
      BY <2>1 DEF Lengths
  <1>23. /\ blocks' \in Tables /\ ncached' \in [Requests -> Int]
         /\ PoolInv(pool', blocks') /\ Held(pool'.hash, blocks', ncached', req, b2)
    <2>1. PICK z, f, nc : z = pool' /\ f = blocks' /\ nc = ncached'
      OBVIOUS
    <2>2. PICK m \in Nat : m = done + n
      BY <1>8, <1>9
    <2>3. Given(z, f, nc, pool, blocks, ncached, r, m, req[r].tokens)
      BY <1>7, <1>15, <2>1, <2>2
    <2>4. req[r].computed + AdvanceIn(b2, r) = m
      BY <1>7, <1>19, <2>2
    <2>5. \A q \in Requests : q # r => req[q] = req[q] /\ AdvanceIn(b2, q) = AdvanceIn(batch, q)
      BY <1>19
    <2>6. PICK p, bl, old, rq, bt : /\ p = pool /\ bl = blocks /\ old = ncached
                                     /\ rq = req /\ bt = batch
      OBVIOUS
    <2>7. /\ Given(z, f, nc, p, bl, old, r, m, rq[r].tokens) /\ Held(p.hash, bl, old, rq, bt)
          /\ bl \in Tables /\ old \in [Requests -> Int] /\ Advanced(rq, rq, b2, bt, r, m)
      BY <1>3, <1>4, <1>6, <2>3, <2>4, <2>5, <2>6 DEF Advanced
    <2>8. Holding(z, f, nc, rq, b2)
      BY <1>6, <2>7, GivenHolds, Zenon
    <2> QED
      BY <2>1, <2>6, <2>8 DEF Holding
  <1>24. SchedType'
    <2>1. budget - n \in 0 .. MaxScheduledTokens /\ idx + 1 \in Nat \ {0}
      BY <1>4, <1>9
    <2> QED
      BY <1>2, <1>3, <1>19, <1>20, <1>23, <2>1 DEF SchedType
  <1>25. RunningEntry
    <2>1. PICK f, z, nc, b1 : f = blocks' /\ z = pool' /\ nc = ncached' /\ b1 = batch
      OBVIOUS
    <2>2. /\ Given(z, f, nc, pool, blocks, ncached, r, done + n, toks)
          /\ OwnBlocks(z, f[r], blocks[r], pool, blocks, r, from) /\ Reaches(f[r], done + n)
      BY <1>15, <2>1
    <2>3. \E c \in Nat : Filled(c, done + n) /\ Own(z.hash, f[r], c, toks)
      BY <2>2 DEF Given, AfterHashes
    <2>4. f \in Tables /\ \A q \in Requests : q # r => f[q] = blocks[q]
      BY <2>2 DEF Given
    <2>5. Advanced(req, req, b2, b1, r, done + n)
      BY <1>6, <1>7, <1>19, <2>1 DEF Advanced
    <2>6. done + n <= Len(toks)
      BY <1>8, <1>9
    <2>7. EntryMade(e, blocks[r], from, req, req, b1, b2, blocks, f, pool, z)
      <3>1. /\ b2 = Append(b1, e) /\ Extended(b2, b1, e) /\ \A i \in 1 .. Len(b1) : b1[i].r # r
        BY <1>11, <1>16, <1>19, <2>1
      <3> QED
        BY <1>7, <1>14, <1>18, <2>2, <2>3, <2>4, <2>5, <2>6, <3>1, Zenon DEF EntryMade
    <2>8. EntryMade(e, blocks[e.r], from, req, req', batch, batch', blocks, blocks', pool, pool')
      BY <1>2, <1>18, <1>20, <2>1, <2>7, Zenon
    <2>9. /\ e.kind = "running" /\ req[e.r].status = "running" /\ AdvanceIn(batch, e.r) = 0
          /\ e.ids = SubSeq(blocks'[e.r], Len(blocks[e.r]) + 1, Len(blocks'[e.r]))
      BY <1>1, <1>6, <1>12, <1>18, Zenon
    <2> QED
      BY <2>8, <2>9, Zenon DEF RunningEntry
  <1> QED
    BY <1>2, <1>3, <1>20, <1>21, <1>22, <1>23, <1>24, <1>25 DEF SchedInv

\* Somewhere up to N a set that starts at 0 comes to its first end.
LEMMA LongestExists ==
  ASSUME NEW N \in Nat, NEW H, 0 \in H
  PROVE  \E n \in 0 .. N : n \in H /\ (n = N \/ n + 1 \notin H)
  <1> SUFFICES ASSUME \A n \in 0 .. N : n \in H => n # N /\ n + 1 \in H PROVE FALSE
    OBVIOUS
  <1> DEFINE S == {n \in Nat : n <= N => n \in H}
  <1>1. 0 \in S
    OBVIOUS
  <1>2. ASSUME NEW n \in Nat, n \in S PROVE n + 1 \in S
    <2>1. CASE n + 1 <= N
      <3>1. n \in 0 .. N /\ n \in H
        BY <1>2, <2>1
      <3> QED
        BY <2>1, <3>1
    <2>2. CASE ~(n + 1 <= N)
      BY <2>2
    <2> QED
      BY <2>1, <2>2
  <1> HIDE DEF S
  <1>3. \A n \in Nat : n \in S
    BY <1>1, <1>2, SetInduction
  <1>4. N \in H
    BY <1>3 DEF S
  <1> QED
    BY <1>4

\* find_longest_cache_hit returns such blocks: the index leads to blocks with the hash that
\* was looked up.
LEMMA HitsFound ==
  ASSUME NEW r, PoolType(pool), Indexed(pool.hash, pool.cached),
         req[r].tokens \in Seq(Nat), Len(req[r].tokens) \in Nat \ {0}
  PROVE  Found(LongestHit(r), pool.hash, req[r].tokens)
  <1>1. PICK toks, hash, cached : toks = req[r].tokens /\ hash = pool.hash /\ cached = pool.cached
    OBVIOUS
  <1>2. PICK len \in Nat \ {0} : len = Len(toks)
    BY <1>1
  <1> DEFINE N == (len - 1) \div BlockSize
             H == {n \in Nat : \A i \in 1 .. n : Prefix(toks, i * BlockSize) \in DOMAIN cached}
             Good(n) == n \in H /\ (n = N \/ n + 1 \notin H)
  <1>3. len - 1 \in Nat /\ N \in Nat /\ N * BlockSize <= len - 1
    BY WholeBlocks, SMTT(30)
  <1>4. 0 \in H
    <2>1. 1 .. 0 = {}
      OBVIOUS
    <2> QED
      BY <2>1
  <1> DEFINE Hit(k) == \A i \in 1 .. k : Prefix(toks, i * BlockSize) \in DOMAIN cached
             k == CHOOSE n \in 0 .. N : Hit(n) /\ (n = N \/ ~Hit(n + 1))
  <1>5. LongestHit(r) = [i \in 1 .. k |-> Head(cached[Prefix(toks, i * BlockSize)])]
    BY <1>1, <1>2, Zenon DEF LongestHit, GetCachedBlock
  <1>6. k \in 0 .. N /\ Hit(k)
    <2>1. PICK n \in 0 .. N : n \in H /\ (n = N \/ n + 1 \notin H)
      <3> HIDE DEF H, N
      <3> QED
        BY <1>3, <1>4, LongestExists
    <2>2. Hit(n) /\ (n = N \/ ~Hit(n + 1))
      <3>1. n \in Nat /\ n + 1 \in Nat
        BY <1>3
      <3> QED
        BY <2>1, <3>1, Zenon
    <2> HIDE DEF N
    <2> QED
      BY <2>2, Zenon
  <1>7. k \in Nat /\ k <= N
    BY <1>3, <1>6
  <1> HIDE DEF k, N, H
  <1>8. PICK hits : hits = LongestHit(r)
    OBVIOUS
  <1>9. ASSUME NEW i \in 1 .. k
        PROVE  /\ i \in Nat /\ i > 0 /\ i * BlockSize <= len
               /\ hits[i] \in Blocks /\ hash[hits[i]] = Prefix(toks, i * BlockSize)
    <2>1. i \in Nat /\ i <= N /\ i > 0
      BY <1>3, <1>7
    <2>2. i * BlockSize \in Nat /\ i * BlockSize <= N * BlockSize /\ N * BlockSize \in Nat
      BY <1>3, <2>1, TimesOrder
    <2>3. i * BlockSize <= len
      <3>1. PICK x, y : x = i * BlockSize /\ y = N * BlockSize
        OBVIOUS
      <3>2. x <= len
        BY <1>2, <1>3, <2>2, <3>1
      <3> QED
        BY <3>1, <3>2
    <2>4. PICK h : h = Prefix(toks, i * BlockSize)
      OBVIOUS
    <2>5. h \in DOMAIN cached
      BY <1>6, <2>4
    <2>6. cached[h] \in Seq(Blocks) /\ cached[h] # <<>>
      BY <1>1, <2>5 DEF PoolType
    <2>7. Head(cached[h]) \in ToSet(cached[h]) /\ Head(cached[h]) \in Blocks
      <3>1. PICK c : c = cached[h]
        OBVIOUS
      <3>2. Len(c) \in Nat /\ Len(c) # 0
        BY <2>6, <3>1, LenProperties, EmptySeq
      <3>3. 1 \in 1 .. Len(c) /\ Head(c) = c[1]
        BY <2>6, <3>1, <3>2
      <3> QED
        BY <2>6, <3>1, <3>3, Members
    <2>8. ToSet(cached[h]) = {b \in Blocks : hash[b] = h}
      BY <1>1, <2>5 DEF Indexed
    <2>9. hits[i] = Head(cached[h])
      BY <1>5, <1>8, <2>4
    <2> QED
      BY <2>1, <2>3, <2>4, <2>7, <2>8, <2>9
  <1>10. hits \in Seq(Blocks) /\ Len(hits) = k
    <2>1. hits \in [1 .. k -> Blocks]
      <3>1. hits = [i \in 1 .. k |-> Head(cached[Prefix(toks, i * BlockSize)])]
        BY <1>5, <1>8
      <3>2. \A i \in 1 .. k : hits[i] \in Blocks
        BY <1>9
      <3> QED
        BY <3>1, <3>2
    <2> QED
      BY <1>7, <2>1, SeqDef, LenProperties
  <1>11. ASSUME NEW i \in 1 .. k
         PROVE  /\ Len(hash[hits[i]]) = i * BlockSize /\ hash[hits[i]] # NoHash
    <2>1. toks \in Seq(Nat) /\ i * BlockSize <= Len(toks)
      BY <1>1, <1>2, <1>9
    <2>2. /\ Len(Prefix(toks, i * BlockSize)) = i * BlockSize
          /\ Prefix(toks, i * BlockSize) # NoHash
      BY <1>9, <2>1, PrefixHash
    <2> QED
      BY <1>9, <2>2
  <1>12. IsInjective(hits)
    <2>1. ASSUME NEW i \in 1 .. k, NEW j \in 1 .. k, hits[i] = hits[j] PROVE i = j
      <3>1. i * BlockSize = j * BlockSize
        BY <1>11, <2>1
      <3>2. /\ i < j => i * BlockSize < j * BlockSize
            /\ j < i => j * BlockSize < i * BlockSize
            /\ i * BlockSize \in Nat
        BY <1>9, TimesOrder
      <3>3. ~(i < j) /\ ~(j < i)
        <4>1. PICK x \in Nat : x = i * BlockSize
          BY <3>2
        <4> QED
          BY <3>1, <3>2, <4>1
      <3> QED
        BY <1>9, <3>3
    <2> QED
      BY <1>10, <2>1, Injective
  <1>13. Filled(Len(hits), Len(toks) - 1)
    <2>1. k * BlockSize <= N * BlockSize /\ k * BlockSize \in Nat /\ N * BlockSize \in Nat
      BY <1>3, <1>7, TimesOrder
    <2>2. PICK x, y : x = k * BlockSize /\ y = N * BlockSize
      OBVIOUS
    <2>3. x <= len - 1
      BY <1>2, <1>3, <2>1, <2>2
    <2> QED
      BY <1>2, <1>10, <2>2, <2>3 DEF Filled
  <1>14. \A b \in ToSet(hits) : hash[b] # NoHash
    <2>1. \A b : b \in ToSet(hits) <=> \E i \in 1 .. k : hits[i] = b
      BY <1>10, Members
    <2> QED
      BY <1>11, <2>1
  <1> QED
    BY <1>1, <1>8, <1>9, <1>10, <1>12, <1>13, <1>14 DEF Found

\* schedule(), the first waiting request: it holds nothing yet, so the hits are all it has,
\* and they are cached up to the last of them.
LEMMA AdmitWaitingKeeps ==
  ASSUME SchedInv, AdmitWaiting
  PROVE  SchedInv' /\ FirstEntry
  <1>1. PICK r, hits, n, kind : /\ r = Head(waiting) /\ hits = LongestHit(r) /\ n = NumFirst(r, hits)
                                /\ kind = IF req[r].status = "waiting" THEN "new" ELSE "resumed"
    OBVIOUS
  <1>2. PICK start : start = Len(hits) * BlockSize
    OBVIOUS
  <1>3. /\ phase = "waiting" /\ waiting # <<>>
        /\ n > 0 /\ Fits(r, n, hits) /\ Allocate(r, n, hits)
        /\ batch' = Append(batch, Entry(r, n, start, kind, blocks'[r]))
        /\ req' = [req EXCEPT ![r].status = "running", ![r].computed = start]
        /\ running' = Append(running, r) /\ waiting' = Tail(waiting)
        /\ budget' = budget - n /\ idx' = idx
        /\ finished' = finished /\ phase' = phase /\ queue' = queue
    BY <1>1, <1>2 DEF AdmitWaiting, CanAdmit
  <1>4. /\ SchedType /\ InLine(running, waiting, req) /\ InBatch(batch, phase, idx, running)
        /\ InQueue(queue, phase) /\ Lengths(req, batch) /\ PoolInv(pool, blocks)
        /\ Held(pool.hash, blocks, ncached, req, batch)
    BY DEF SchedInv
  <1>5. /\ req \in [Requests -> Reqs] /\ running \in Seq(Requests) /\ waiting \in Seq(Requests)
        /\ blocks \in Tables /\ ncached \in [Requests -> Int] /\ batch \in Seq(Entries)
        /\ idx \in Nat \ {0}
        /\ budget \in 0 .. MaxScheduledTokens /\ MaxScheduledTokens \in Nat /\ MaxModelLen \in Nat
    BY <1>4, ServingAssumption DEF SchedType
  <1>6. r \in Requests /\ r \in ToSet(waiting) /\ req[r].status \in {"waiting", "preempted"}
    <2>1. r \in Requests /\ r \in ToSet(waiting)
      BY <1>1, <1>3, <1>4, <1>5, LineHead DEF InLine
    <2> QED
      BY <1>4, <2>1 DEF InLine
  <1>7. PICK toks : toks = req[r].tokens
    OBVIOUS
  <1>8. /\ toks \in Seq(Nat) /\ Len(toks) \in Nat \ {0} /\ req[r].computed = 0
        /\ Len(toks) <= MaxModelLen
    <2>1. toks \in Seq(Nat)
      BY <1>5, <1>6, <1>7 DEF Reqs
    <2>2. Bounded(req[r], AdvanceIn(batch, r))
      BY <1>4, <1>6 DEF Lengths
    <2> QED
      BY <1>5, <1>6, <1>7, <2>1, <2>2 DEF Bounded
  <1>9. Found(hits, pool.hash, toks)
    <2>1. PoolType(pool) /\ Indexed(pool.hash, pool.cached)
      BY <1>4 DEF PoolInv
    <2> QED
      BY <1>1, <1>7, <1>8, <2>1, HitsFound
  <1>10. /\ hits \in Seq(Blocks) /\ Len(hits) \in Nat /\ start \in Nat /\ start <= Len(toks) - 1
    <2>1. hits \in Seq(Blocks) /\ Filled(Len(hits), Len(toks) - 1)
      BY <1>9 DEF Found
    <2>2. Len(hits) \in Nat
      BY <2>1, LenProperties
    <2>3. start \in Nat
      BY <1>2, <2>2, TimesOrder
    <2>4. start <= Len(toks) - 1
      BY <1>2, <2>1 DEF Filled
    <2> QED
      BY <2>1, <2>2, <2>3, <2>4
  <1>11. n \in Nat /\ n <= Len(toks) - start /\ n <= budget
    <2>1. PICK x : x = Capped(Len(toks) - start)
      OBVIOUS
    <2>2. x \in Int /\ x <= Len(toks) - start
      BY <1>8, <1>10, <2>1, CappedAtMost
    <2>3. n = MinOf(x, budget)
      BY <1>1, <1>2, <1>7, <2>1 DEF NumFirst
    <2>4. n \in Int /\ n <= x /\ n <= budget
      BY <1>5, <2>2, <2>3, AtMost
    <2> QED
      <3>1. n > 0 /\ budget \in Int
        BY <1>3, <1>5
      <3> QED
        BY <1>8, <1>10, <2>2, <2>4, <3>1
  <1>12. PICK m \in Nat : m = start + n /\ m <= Len(toks)
    BY <1>8, <1>10, <1>11
  <1>13. /\ \A i \in 1 .. Len(batch) : \E j \in 1 .. Len(running) : running[j] = batch[i].r
         /\ Distinct(batch) /\ Len(batch) \in Nat /\ Len(running) \in Nat
    BY <1>4, <1>5, LenProperties DEF InBatch
  <1>14. \A i \in 1 .. Len(batch) : batch[i].r # r
    <2>1. \A j \in 1 .. Len(running) : running[j] \in ToSet(running)
      BY <1>5, Members
    <2>2. \A q \in ToSet(running) : req[q].status = "running"
      BY <1>4 DEF InLine
    <2> QED
      BY <1>6, <1>13, <2>1, <2>2
  <1>15. blocks[r] = <<>> /\ ncached[r] = NoEntry
    BY <1>4, <1>6 DEF Held, HeldBy
  <1>16. /\ Given(pool', blocks', ncached', pool, blocks, ncached, r, m, toks)
         /\ OwnBlocks(pool', blocks'[r], hits, pool, blocks, r, Len(hits))
         /\ Reaches(blocks'[r], m)
    <2>1. blocks[r] \o hits = hits
      BY <1>10, <1>15, ConcatEmptySeq
    <2>2. Own(pool.hash, blocks[r] \o hits, Len(hits), toks)
      <3>1. Own(pool.hash, hits, Len(hits), toks)
        BY <1>9, <1>10 DEF Found, Own
      <3> QED
        BY <2>1, <3>1
    <2>3. m = Reached(r, n, hits)
      <3>1. 0 + start + n = start + n
        BY <1>10, <1>11
      <3> QED
        BY <1>2, <1>8, <1>12, <3>1 DEF Reached
    <2>4. Filled(Len(hits), m)
      <3>1. start <= m
        BY <1>10, <1>11, <1>12
      <3> QED
        BY <1>2, <3>1 DEF Filled
    <2>5. ToSet(hits) \cap ToSet(blocks[r]) = {}
      BY <1>15, NoMembers
    <2>6. \A b \in ToSet(hits) : pool.hash[b] # NoHash
      BY <1>9 DEF Found
    <2>7. PICK from \in Nat : from = Len(hits)
      BY <1>10
    <2>8. from = IF ncached[r] = NoEntry THEN Len(hits) ELSE ncached[r]
      BY <1>15, <2>7
    <2>9. /\ Own(pool.hash, blocks[r] \o hits, from, req[r].tokens) /\ Filled(from, m)
          /\ m <= Len(req[r].tokens)
      BY <1>7, <1>12, <2>2, <2>4, <2>7
    <2>10. /\ Given(pool', blocks', ncached', pool, blocks, ncached, r, m, req[r].tokens)
           /\ OwnBlocks(pool', blocks'[r], blocks[r] \o hits, pool, blocks, r, from)
           /\ Reaches(blocks'[r], m)
      BY <1>3, <1>6, <1>10, <1>11, <2>3, <2>5, <2>6, <2>8, <2>9, AllocateGives
    <2> QED
      BY <1>7, <2>1, <2>7, <2>10
  <1>17. PICK next, ids : next = req' /\ ids = blocks'[r]
    OBVIOUS
  <1>18. /\ next \in [Requests -> Reqs]
         /\ next[r].status = "running" /\ next[r].tokens = toks /\ next[r].computed = start
         /\ \A q \in Requests : q # r => next[q] = req[q]
    BY <1>3, <1>5, <1>6, <1>7, <1>10, <1>17 DEF Reqs, Statuses
  <1>19. PICK e, b2 : e = Entry(r, n, start, kind, ids) /\ b2 = Append(batch, e)
    OBVIOUS
  <1>20. blocks' \in Tables
    BY <1>16 DEF Given
  <1>21. /\ e \in Entries /\ e.r = r /\ e.n = n
         /\ e.start = start /\ e.kind # "running" /\ e.ids = ids /\ e.tokens = toks
    <2>1. ids \in Seq(Blocks)
      BY <1>6, <1>17, <1>20 DEF Tables
    <2>2. e = [r |-> r, n |-> n, start |-> start, kind |-> kind, ids |-> ids, tokens |-> toks]
      BY <1>7, <1>19 DEF Entry
    <2>3. kind \in {"new", "resumed"}
      BY <1>1
    <2> QED
      BY <1>6, <1>8, <1>10, <1>11, <2>1, <2>2, <2>3 DEF Entries
  <1>22. /\ b2 \in Seq(Entries) /\ Len(b2) = Len(batch) + 1
         /\ \A i \in 1 .. Len(batch) : b2[i] = batch[i]
         /\ b2[Len(batch) + 1] = e /\ Distinct(b2) /\ AdvanceIn(b2, r) = n /\ Extended(b2, batch, e)
         /\ \A q : q # r => AdvanceIn(b2, q) = AdvanceIn(batch, q)
    <2>1. \A i \in 1 .. Len(batch) : batch[i].r # e.r
      BY <1>14, <1>21
    <2>2. Extended(b2, batch, e)
      BY <1>5, <1>13, <1>19, <1>21, <2>1, BatchAppend, Zenon
    <2> QED
      BY <1>21, <2>2 DEF Extended
  <1>23. batch' = b2
    BY <1>3, <1>17, <1>19
  <1>24. /\ running' \in Seq(Requests) /\ waiting' \in Seq(Requests)
         /\ InLine(running', waiting', next)
    <2>1. next[Head(waiting)].status = "running"
      BY <1>1, <1>18
    <2>2. \A q \in Requests : q # Head(waiting) => next[q].status = req[q].status
      BY <1>1, <1>18
    <2>3. /\ Append(running, Head(waiting)) \in Seq(Requests) /\ Tail(waiting) \in Seq(Requests)
          /\ InLine(Append(running, Head(waiting)), Tail(waiting), next)
      BY <1>3, <1>4, <1>5, <2>1, <2>2, LineAdmitted
    <2> QED
      BY <1>1, <1>3, <2>3
  <1>25. InBatch(b2, "waiting", idx, running')
    <2>1. PICK u : u = running'
      OBVIOUS
    <2>2. /\ Len(u) = Len(running) + 1 /\ u[Len(running) + 1] = r
          /\ \A j \in 1 .. Len(running) : u[j] = running[j]
      BY <1>3, <1>5, <1>6, <2>1, AppendProperties
    <2>3. ASSUME NEW i \in 1 .. Len(batch) + 1
          PROVE  \E j \in 1 .. Len(running) + 1 : u[j] = b2[i].r
      <3>1. CASE i = Len(batch) + 1
        <4>1. Len(running) + 1 \in 1 .. Len(running) + 1
          BY <1>13
        <4> QED
          BY <1>21, <1>22, <2>2, <3>1, <4>1
      <3>2. CASE i \in 1 .. Len(batch)
        <4>1. PICK j \in 1 .. Len(running) : running[j] = batch[i].r
          BY <1>13, <3>2
        <4>2. j \in 1 .. Len(running) + 1 /\ u[j] = b2[i].r
          BY <1>13, <1>22, <2>2, <3>2, <4>1
        <4> QED
          BY <4>2
      <3> QED
        BY <1>13, <3>1, <3>2
    <2> QED
      BY <1>22, <2>1, <2>2, <2>3 DEF InBatch
  <1>26. Lengths(next, b2)
    <2>1. ASSUME NEW q \in Requests PROVE Bounded(next[q], AdvanceIn(b2, q))
      <3>1. Bounded(req[q], AdvanceIn(batch, q))
        BY <1>4 DEF Lengths
      <3>2. CASE q = r
        <4>1. start + n <= Len(toks) /\ Len(toks) \in 1 .. MaxModelLen
          BY <1>5, <1>8, <1>12
        <4> QED
          BY <1>8, <1>18, <1>22, <3>2, <4>1 DEF Bounded
      <3>3. CASE q # r
        BY <1>18, <1>22, <3>1, <3>3
      <3> QED
        BY <3>2, <3>3
    <2> QED
      BY <2>1 DEF Lengths
  <1>27. /\ blocks' \in Tables /\ ncached' \in [Requests -> Int]
         /\ PoolInv(pool', blocks') /\ Held(pool'.hash, blocks', ncached', next, b2)
    <2>1. PICK z, f, nc : z = pool' /\ f = blocks' /\ nc = ncached'
      OBVIOUS
    <2>2. PICK p, bl, old, rq, bt : /\ p = pool /\ bl = blocks /\ old = ncached
                                     /\ rq = req /\ bt = batch
      OBVIOUS
    <2>3. /\ Given(z, f, nc, p, bl, old, r, m, rq[r].tokens) /\ Held(p.hash, bl, old, rq, bt)
          /\ bl \in Tables /\ old \in [Requests -> Int] /\ Advanced(next, rq, b2, bt, r, m)
      BY <1>4, <1>5, <1>7, <1>12, <1>16, <1>18, <1>22, <2>1, <2>2 DEF Advanced
    <2>4. Holding(z, f, nc, next, b2)
      BY <1>6, <2>3, GivenHolds, Zenon
    <2> QED
      BY <2>1, <2>4 DEF Holding
  <1>28. SchedType'
    <2>1. budget - n \in 0 .. MaxScheduledTokens
      BY <1>5, <1>11
    <2> QED
      BY <1>3, <1>4, <1>17, <1>18, <1>22, <1>23, <1>24, <1>27, <2>1 DEF SchedType
  <1>29. FirstEntry
    <2>1. PICK f, z, nc, b1, rq : f = blocks' /\ z = pool' /\ nc = ncached' /\ b1 = batch /\ rq = req
      OBVIOUS
    <2>2. /\ Given(z, f, nc, pool, blocks, ncached, r, m, toks)
          /\ OwnBlocks(z, f[r], hits, pool, blocks, r, Len(hits)) /\ Reaches(f[r], m)
      BY <1>16, <2>1
    <2>3. \E c \in Nat : Filled(c, m) /\ Own(z.hash, f[r], c, toks)
      BY <2>2 DEF Given, AfterHashes
    <2>4. f \in Tables /\ \A q \in Requests : q # r => f[q] = blocks[q]
      BY <2>2 DEF Given
    <2>5. Advanced(next, rq, b2, b1, r, m)
      BY <1>7, <1>12, <1>18, <1>22, <2>1 DEF Advanced
    <2>6. EntryMade(e, hits, Len(hits), rq, next, b1, b2, blocks, f, pool, z)
      <3>1. /\ b2 = Append(b1, e) /\ Extended(b2, b1, e) /\ \A i \in 1 .. Len(b1) : b1[i].r # r
        BY <1>14, <1>19, <1>22, <2>1
      <3>2. e.start + e.n = m /\ m <= Len(toks) /\ e.start = next[r].computed /\ toks = rq[r].tokens
        BY <1>7, <1>12, <1>18, <1>21, <2>1
      <3>3. Filled(Len(hits), e.start) /\ Len(hits) \in Nat
        <4>1. start <= start
          BY <1>10
        <4> QED
          BY <1>2, <1>10, <1>21, <4>1, Zenon DEF Filled
      <3> QED
        BY <1>21, <2>2, <2>3, <2>4, <2>5, <3>1, <3>2, <3>3, Zenon DEF EntryMade
    <2>7. EntryMade(e, hits, Len(hits), req, req', batch, batch', blocks, blocks', pool, pool')
      BY <1>17, <1>23, <2>1, <2>6, Zenon
    <2>8. /\ e.kind # "running" /\ e.ids = blocks'[e.r]
          /\ Found(hits, pool.hash, e.tokens) /\ e.start = Len(hits) * BlockSize
      BY <1>2, <1>9, <1>17, <1>21, Zenon
    <2> QED
      BY <2>7, <2>8, Zenon DEF FirstEntry
  <1> QED
    BY <1>3, <1>4, <1>17, <1>23, <1>24, <1>25, <1>26, <1>27, <1>28, <1>29 DEF SchedInv

\* _update_after_schedule: what was scheduled counts as computed, for running requests only,
\* and the queue has room for the output.
LEMMA SendKeeps ==
  ASSUME SchedInv, Send
  PROVE  SchedInv'
  <1>1. PICK out, q : out = [entries |-> batch, finished |-> finished, done |-> FALSE]
                      /\ q = Append(queue, out)
    OBVIOUS
  <1>2. /\ phase \in {"send", "running", "waiting"}
        /\ req' = [r \in Requests |-> [req[r] EXCEPT !.computed = @ + AdvanceIn(batch, r)]]
        /\ finished' = {} /\ queue' = q
        /\ phase' = IF batch # <<>> /\ Len(q) < QueueSize /\ ~Head(q).done
                    THEN "input" ELSE "update"
        /\ batch' = <<>> /\ idx' = 1 /\ budget' = MaxScheduledTokens
        /\ pool' = pool /\ blocks' = blocks /\ ncached' = ncached
        /\ running' = running /\ waiting' = waiting
    <2>1. phase \in {"send", "running", "waiting"}
      BY DEF Send, Scheduled
    <2>2. \A r : Advance(r) = AdvanceIn(batch, r)
      BY Zenon DEF Advance, AdvanceIn
    <2> QED
      BY <1>1, <2>1, <2>2 DEF Send
  <1>3. /\ SchedType /\ InLine(running, waiting, req) /\ InBatch(batch, phase, idx, running)
        /\ InQueue(queue, phase) /\ Lengths(req, batch) /\ PoolInv(pool, blocks)
        /\ Held(pool.hash, blocks, ncached, req, batch)
    BY DEF SchedInv
  <1>4. /\ req \in [Requests -> Reqs] /\ running \in Seq(Requests) /\ batch \in Seq(Entries)
        /\ finished \in SUBSET Requests /\ queue \in Seq(Outs)
        /\ MaxScheduledTokens \in Nat /\ QueueSize \in Nat
    BY <1>3, ServingAssumption DEF SchedType
  <1>5. PICK next : next = req'
    OBVIOUS
  <1>6. \A r \in Requests : AdvanceIn(batch, r) \in Nat /\ req[r].computed \in Nat
    <2>1. \A r \in Requests : req[r].computed \in Nat
      BY <1>4 DEF Reqs
    <2> QED
      BY <1>4, <2>1, AdvanceType
  <1>7. /\ next \in [Requests -> Reqs]
        /\ \A r \in Requests : /\ next[r].status = req[r].status /\ next[r].tokens = req[r].tokens
                               /\ next[r].computed = req[r].computed + AdvanceIn(batch, r)
    <2>1. \A r \in Requests : req[r].computed + AdvanceIn(batch, r) \in Nat
      BY <1>6
    <2> QED
      BY <1>2, <1>4, <1>5, <2>1 DEF Reqs
  <1>8. \A r : AdvanceIn(<<>>, r) = 0
    BY AdvanceEmpty
  <1>9. ASSUME NEW r \in Requests, req[r].status # "running" PROVE AdvanceIn(batch, r) = 0
    <2>1. \A i \in 1 .. Len(batch) : \E j \in 1 .. Len(running) : running[j] = batch[i].r
      BY <1>3 DEF InBatch
    <2>2. \A j \in 1 .. Len(running) : running[j] \in ToSet(running)
      BY <1>4, Members
    <2>3. \A a \in ToSet(running) : req[a].status = "running"
      BY <1>3 DEF InLine
    <2>4. \A i \in 1 .. Len(batch) : batch[i].r # r
      BY <1>9, <2>1, <2>2, <2>3
    <2> QED
      BY <1>4, <2>4, AdvanceZero
  <1>10. Lengths(next, <<>>)
    <2>1. ASSUME NEW r \in Requests PROVE Bounded(next[r], 0)
      <3>1. Bounded(req[r], AdvanceIn(batch, r))
        BY <1>3 DEF Lengths
      <3>2. next[r].computed + 0 = req[r].computed + AdvanceIn(batch, r)
        BY <1>6, <1>7
      <3>3. req[r].status \in {"absent", "waiting", "preempted"} => next[r].computed = 0
        BY <1>6, <1>7, <1>9, <3>1 DEF Bounded
      <3> QED
        BY <1>7, <3>1, <3>2, <3>3 DEF Bounded
    <2> QED
      BY <1>8, <2>1 DEF Lengths
  <1>11. Held(pool.hash, blocks, ncached, next, <<>>)
    <2>1. ASSUME NEW r \in Requests
          PROVE  HeldBy(pool.hash, blocks[r], ncached[r], next[r], 0)
      <3>1. HeldBy(pool.hash, blocks[r], ncached[r], req[r], AdvanceIn(batch, r))
        BY <1>3 DEF Held
      <3>2. next[r].computed + 0 = req[r].computed + AdvanceIn(batch, r)
        BY <1>6, <1>7
      <3> QED
        BY <1>7, <3>1, <3>2 DEF HeldBy
    <2> QED
      BY <1>8, <2>1 DEF Held
  <1>12. InLine(running, waiting, next)
    <2>1. \A r \in ToSet(running) \cup ToSet(waiting) : r \in Requests
      <3>1. waiting \in Seq(Requests)
        BY <1>3 DEF SchedType
      <3> QED
        BY <1>4, <3>1, Members
    <2> QED
      BY <1>3, <1>7, <2>1 DEF InLine
  <1>13. q \in Seq(Outs) /\ InQueue(q, phase')
    <2>1. out \in Outs /\ out.entries = batch
      BY <1>1, <1>4 DEF Outs
    <2>2. Distinct(batch)
      BY <1>3 DEF InBatch
    <2>3. PICK n \in Nat : n = Len(queue)
      BY <1>4, LenProperties
    <2>4. /\ q \in Seq(Outs) /\ Len(q) = n + 1 /\ q[n + 1] = out
          /\ \A k \in 1 .. n : q[k] = queue[k]
      <3> DEFINE O == Outs
      <3>1. queue \in Seq(O) /\ out \in O
        BY <1>4, <2>1
      <3> HIDE DEF O
      <3>2. q \in Seq(O) /\ Len(q) = n + 1 /\ q[n + 1] = out /\ \A k \in 1 .. n : q[k] = queue[k]
        BY <1>1, <2>3, <3>1, AppendProperties
      <3> QED
        BY <3>2 DEF O
    <2>5. /\ \A k \in 1 .. n : Distinct(queue[k].entries)
          /\ n < QueueSize
      BY <1>2, <1>3, <2>3 DEF InQueue
    <2>6. ASSUME NEW k \in 1 .. n + 1 PROVE Distinct(q[k].entries)
      <3>1. CASE k = n + 1
        BY <2>1, <2>2, <2>4, <3>1
      <3>2. CASE k \in 1 .. n
        BY <2>4, <2>5, <3>2
      <3> QED
        BY <3>1, <3>2
    <2>7. n + 1 <= QueueSize
      BY <1>4, <2>5
    <2>8. phase' \notin {"update", "failed"} => Len(q) < QueueSize
      BY <1>2
    <2> QED
      BY <2>4, <2>6, <2>7, <2>8 DEF InQueue
  <1>14. phase' \in {"input", "update"} /\ InBatch(<<>>, phase', idx', running)
    <2>1. phase' \in {"input", "update"}
      BY <1>2
    <2> QED
      BY <2>1, EmptyBatch
  <1>15. SchedType'
    <2>1. <<>> \in Seq(Entries) /\ 1 \in Nat \ {0} /\ {} \in SUBSET Requests
      OBVIOUS
    <2>2. MaxScheduledTokens \in 0 .. MaxScheduledTokens
      BY <1>4
    <2> QED
      BY <1>2, <1>3, <1>5, <1>7, <1>13, <1>14, <2>1, <2>2 DEF SchedType
  <1> QED
    BY <1>2, <1>3, <1>5, <1>10, <1>11, <1>12, <1>13, <1>14, <1>15 DEF SchedInv

-----------------------------------------------------------------------------
(* update_from_output *)

\* Pools that differ from p in their reference counts and free list only.
Pools(p) == [ref : [Blocks -> Int], free : Seq(Blocks), hash : {p.hash}, cached : {p.cached}]

\* Freeing leads from such a pool to such a pool.
LEMMA FreeStaysIn ==
  ASSUME NEW p, NEW x \in Pools(p), NEW ordered \in Seq(Blocks)
  PROVE  FreeBlocks(x, ordered) \in Pools(p)
  <1> DEFINE c == [b \in Blocks |-> IF b \in ToSet(ordered) THEN x.ref[b] - 1 ELSE x.ref[b]]
             k == Keep(ordered, {b \in Blocks : x.ref[b] = 1})
             f == x.free \o k
  <1>1. /\ x = [ref |-> x.ref, free |-> x.free, hash |-> x.hash, cached |-> x.cached]
        /\ x.ref \in [Blocks -> Int] /\ x.free \in Seq(Blocks)
        /\ x.hash = p.hash /\ x.cached = p.cached
    BY DEF Pools
  <1>2. FreeBlocks(x, ordered) = [x EXCEPT !.ref = c, !.free = f]
    BY DEF FreeBlocks
  <1>3. k \in Seq(Blocks)
    BY KeepProperties
  <1> HIDE DEF k
  <1>4. c \in [Blocks -> Int] /\ f \in Seq(Blocks)
    <2>1. c \in [Blocks -> Int]
      BY <1>1
    <2>2. f \in Seq(Blocks)
      BY <1>1, <1>3, ConcatMembers
    <2> QED
      BY <2>1, <2>2
  <1> HIDE DEF c, f
  <1>5. FreeBlocks(x, ordered) = [ref |-> c, free |-> f, hash |-> p.hash, cached |-> p.cached]
    BY <1>1, <1>2
  <1> QED
    BY <1>4, <1>5 DEF Pools

\* The tables once those of the first n entries that are in S are given back.
Left(bl, es, S, n) ==
  [r \in Requests |-> IF r \in S /\ \E j \in 1 .. n : es[j].r = r THEN <<>> ELSE bl[r]]

\* One more entry.
LEMMA LeftNext ==
  ASSUME NEW bl \in Tables, NEW es \in Seq(Entries), Distinct(es), NEW S, NEW n \in Nat, n + 1 <= Len(es)
  PROVE  /\ es[n + 1].r \in Requests
         /\ Left(bl, es, S, n) \in Tables
         /\ Left(bl, es, S, n)[es[n + 1].r] = bl[es[n + 1].r]
         /\ es[n + 1].r \in S => Left(bl, es, S, n + 1) = Dropped(Left(bl, es, S, n), es[n + 1].r)
         /\ es[n + 1].r \notin S => Left(bl, es, S, n + 1) = Left(bl, es, S, n)
  <1>1. PICK len \in Nat : len = Len(es) /\ n + 1 \in 1 .. len
    BY LenProperties
  <1>2. PICK q : q = es[n + 1].r
    OBVIOUS
  <1>3. q \in Requests
    <2> DEFINE E == Entries
    <2>1. \A e \in E : e.r \in Requests
      BY DEF Entries
    <2>2. es \in Seq(E)
      OBVIOUS
    <2> HIDE DEF E
    <2> QED
      BY <1>1, <1>2, <2>1, <2>2, Members
  <1>4. \A j \in 1 .. n : es[j].r # q
    BY <1>1, <1>2 DEF Distinct
  <1> DEFINE A == Left(bl, es, S, n)
             B == Left(bl, es, S, n + 1)
  <1>5. A \in Tables
    BY DEF Left, Tables
  <1>6. \A r \in Requests : A[r] = IF r \in S /\ \E j \in 1 .. n : es[j].r = r THEN <<>> ELSE bl[r]
    BY DEF Left
  <1>7. \A r \in Requests : B[r] = IF r \in S /\ \E j \in 1 .. n + 1 : es[j].r = r THEN <<>> ELSE bl[r]
    BY DEF Left
  <1>8. B = [r \in Requests |-> B[r]] /\ A = [r \in Requests |-> A[r]]
    BY DEF Left
  <1>9. ASSUME NEW r PROVE (\E j \in 1 .. n + 1 : es[j].r = r) <=> r = q \/ \E j \in 1 .. n : es[j].r = r
    BY <1>2
  <1> HIDE DEF A, B
  <1>10. A[q] = bl[q]
    BY <1>3, <1>4, <1>6
  <1>11. ASSUME q \in S PROVE B = Dropped(A, q)
    <2>1. \A r \in Requests : B[r] = IF r = q THEN <<>> ELSE A[r]
      BY <1>6, <1>7, <1>9, <1>11, ZenonT(30)
    <2>2. Dropped(A, q) = [r \in Requests |-> IF r = q THEN <<>> ELSE A[r]]
      BY <1>3, <1>8 DEF Dropped
    <2> QED
      BY <1>8, <2>1, <2>2
  <1>12. ASSUME q \notin S PROVE B = A
    <2>1. \A r \in Requests : B[r] = A[r]
      BY <1>6, <1>7, <1>9, <1>12
    <2> QED
      BY <1>8, <2>1
  <1> QED
    BY <1>2, <1>3, <1>5, <1>10, <1>11, <1>12 DEF A, B

\* The requests that stop are freed one after the other, each of them once.
LEMMA StoppedFreed ==
  ASSUME blocks \in Tables, PoolInv(pool, blocks), \A r \in Requests : IsInjective(blocks[r]),
         NEW es \in Seq(Entries), Distinct(es), NEW S,
         \A r \in S : \E i \in 1 .. Len(es) : es[i].r = r
  PROVE  AfterDrop(FreeStopped(es, S), [r \in Requests |-> IF r \in S THEN <<>> ELSE blocks[r]],
                   pool, blocks)
  <1>1. PICK p, bl : p = pool /\ bl = blocks
    OBVIOUS
  <1>2. bl \in Tables /\ PoolInv(p, bl) /\ \A r \in Requests : IsInjective(bl[r])
    BY <1>1
  <1> DEFINE N == Len(es)
             F(k) == [i \in 0 .. N |->
                        IF i = 0 THEN p
                        ELSE IF es[i].r \in S THEN FreeBlocks(k[i - 1], Reverse(bl[es[i].r]))
                        ELSE k[i - 1]]
             g == CHOOSE k : k = F(k)
             X == Pools(p)
             st == [i \in 1 .. N |-> [x \in X |-> IF es[i].r \in S
                                                   THEN FreeBlocks(x, Reverse(bl[es[i].r])) ELSE x]]
  <1>3. N \in Nat /\ \A i \in 1 .. N : es[i].r \in Requests
    <2> DEFINE E == Entries
    <2>1. \A e \in E : e.r \in Requests
      BY DEF Entries
    <2>2. es \in Seq(E)
      OBVIOUS
    <2> HIDE DEF E
    <2> QED
      BY <2>1, <2>2, Members
  <1>4. \A i \in 1 .. N : Reverse(bl[es[i].r]) \in Seq(Blocks)
    <2>1. \A r \in Requests : bl[r] \in Seq(Blocks)
      BY <1>2 DEF Tables
    <2> QED
      BY <1>3, <2>1, ReverseMembers
  <1>5. p \in X
    <2>1. /\ p = [ref |-> p.ref, free |-> p.free, hash |-> p.hash, cached |-> p.cached]
          /\ p.ref \in [Blocks -> Nat] /\ p.free \in Seq(Blocks)
      BY <1>2 DEF PoolInv, PoolType
    <2>2. p.ref \in [Blocks -> Int]
      BY <2>1
    <2> QED
      BY <2>1, <2>2 DEF Pools
  <1>6. st \in [1 .. N -> [X -> X]]
    <2>1. ASSUME NEW i \in 1 .. N, NEW x \in X PROVE FreeBlocks(x, Reverse(bl[es[i].r])) \in X
      BY <1>4, FreeStaysIn
    <2> HIDE DEF N, X
    <2> QED
      BY <2>1
  <1>7. PICK h : Iterates(h, X, N, p, st)
    <2> HIDE DEF st, N, X
    <2> QED
      BY <1>3, <1>5, <1>6, IterationExists
  <1>8. h = F(h)
    <2>1. h \in [0 .. N -> X] /\ h[0] = p /\ \A i \in 1 .. N : h[i] = st[i][h[i - 1]]
      BY <1>7 DEF Iterates
    <2>2. ASSUME NEW i \in 1 .. N
          PROVE  h[i] = IF es[i].r \in S THEN FreeBlocks(h[i - 1], Reverse(bl[es[i].r])) ELSE h[i - 1]
      <3> HIDE DEF X
      <3>1. h[i - 1] \in X
        BY <1>3, <2>1
      <3> QED
        BY <2>1, <3>1
    <2> DEFINE Fh == F(h)
    <2>3. Fh = [i \in 0 .. N |-> Fh[i]] /\ h = [i \in 0 .. N |-> h[i]]
      BY <2>1
    <2>4. ASSUME NEW i \in 0 .. N PROVE h[i] = Fh[i]
      <3>1. CASE i = 0
        BY <2>1, <3>1
      <3>2. CASE i # 0
        <4>1. i \in 1 .. N
          BY <1>3, <3>2
        <4> QED
          BY <2>2, <3>2, <4>1
      <3> QED
        BY <3>1, <3>2
    <2> HIDE DEF Fh, N
    <2>5. h = Fh
      BY <2>3, <2>4
    <2> QED
      BY <2>5 DEF Fh
  <1>9. g = F(g)
    BY <1>8
  <1>10. FreeStopped(es, S) = g[N]
    BY <1>1, ZenonT(60) DEF FreeStopped, FreeOf
  <1> HIDE DEF g
  <1> DEFINE Fg == F(g)
  <1>11. /\ Fg[0] = p
         /\ \A i \in 1 .. N : Fg[i] = IF es[i].r \in S THEN FreeBlocks(g[i - 1], Reverse(bl[es[i].r]))
                                      ELSE g[i - 1]
    BY <1>3
  <1>12. /\ g[0] = p
         /\ \A i \in 1 .. N : g[i] = IF es[i].r \in S THEN FreeBlocks(g[i - 1], Reverse(bl[es[i].r]))
                                     ELSE g[i - 1]
    <2> HIDE DEF Fg, F
    <2>1. g = Fg
      BY <1>9 DEF Fg
    <2> QED
      BY <1>11, <2>1
  <1> HIDE DEF F, N, X, st
  <1> DEFINE I == {n \in Nat : n <= N => AfterDrop(g[n], Left(bl, es, S, n), p, bl)}
  <1>13. 0 \in I
    <2>1. Left(bl, es, S, 0) = bl
      <3>1. 1 .. 0 = {} /\ bl = [r \in Requests |-> bl[r]]
        BY <1>2 DEF Tables
      <3> QED
        BY <3>1 DEF Left
    <2>2. AfterDrop(g[0], Left(bl, es, S, 0), p, bl)
      BY <1>2, <1>12, <2>1 DEF AfterDrop
    <2> QED
      BY <2>2
  <1>14. ASSUME NEW n \in Nat, n \in I, n + 1 <= N
         PROVE  AfterDrop(g[n + 1], Left(bl, es, S, n + 1), p, bl)
    <2>1. AfterDrop(g[n], Left(bl, es, S, n), p, bl) /\ n + 1 \in 1 .. N
      BY <1>3, <1>14
    <2>2. PICK A, B, q, x : /\ A = Left(bl, es, S, n) /\ B = Left(bl, es, S, n + 1)
                            /\ q = es[n + 1].r /\ x = g[n]
      OBVIOUS
    <2>3. /\ q \in Requests /\ A \in Tables /\ A[q] = bl[q]
          /\ q \in S => B = Dropped(A, q)
          /\ q \notin S => B = A
      BY <1>2, <1>14, <2>2, LeftNext DEF N
    <2>4. PoolInv(x, A) /\ x.hash = p.hash
      BY <2>1, <2>2 DEF AfterDrop
    <2>5. g[n + 1] = IF q \in S THEN FreeBlocks(x, Reverse(A[q])) ELSE x
      <3>1. (n + 1) - 1 = n
        OBVIOUS
      <3> QED
        BY <1>12, <2>1, <2>2, <2>3, <3>1
    <2>6. CASE q \in S
      <3>1. AfterDrop(FreeBlocks(x, Reverse(A[q])), Dropped(A, q), x, A)
        BY <1>2, <2>3, <2>4, DropAgrees
      <3> QED
        BY <2>2, <2>3, <2>4, <2>5, <2>6, <3>1 DEF AfterDrop
    <2>7. CASE q \notin S
      BY <2>1, <2>2, <2>3, <2>5, <2>7
    <2> QED
      BY <2>6, <2>7
  <1>15. \A n \in Nat : n \in I
    <2>1. ASSUME NEW n \in Nat, n \in I PROVE n + 1 \in I
      <3>1. n + 1 <= N => AfterDrop(g[n + 1], Left(bl, es, S, n + 1), p, bl)
        <4> HIDE DEF I
        <4> QED
          BY <1>14, <2>1, Zenon
      <3> QED
        BY <3>1
    <2> HIDE DEF I
    <2> QED
      BY <1>13, <2>1, SetInduction
  <1>16. AfterDrop(g[N], Left(bl, es, S, N), p, bl)
    BY <1>3, <1>15
  <1>17. Left(bl, es, S, N) = [r \in Requests |-> IF r \in S THEN <<>> ELSE bl[r]]
    BY DEF Left, N
  <1> QED
    BY <1>1, <1>10, <1>16, <1>17

\* The hashes of full blocks do not change when a token is appended.
LEMMA OwnAppended ==
  ASSUME NEW hash, NEW tb \in Seq(Blocks), NEW n \in Int, NEW toks \in Seq(Nat), NEW t \in Nat,
         Own(hash, tb, n, toks), n \in Nat => Filled(n, Len(toks))
  PROVE  Own(hash, tb, n, Append(toks, t))
  <1>1. PICK u : u = Append(toks, t)
    OBVIOUS
  <1>2. PICK len \in Nat : len = Len(toks)
    BY LenProperties
  <1>3. u \in Seq(Nat) /\ Len(u) = len + 1 /\ \A i \in 1 .. len : u[i] = toks[i]
    BY <1>1, <1>2, AppendProperties
  <1>4. ASSUME NEW m \in Nat, m <= len PROVE Prefix(u, m) = Prefix(toks, m)
    <2>1. PICK a, b : a = SubSeq(u, 1, m) /\ b = SubSeq(toks, 1, m)
      OBVIOUS
    <2>2. m <= Len(u) /\ m <= Len(toks)
      BY <1>2, <1>3, <1>4
    <2>3. a \in Seq(Nat) /\ Len(a) = m /\ \A i \in 1 .. m : a[i] = u[i]
      BY <1>3, <2>1, <2>2, FrontMembers
    <2>4. b \in Seq(Nat) /\ Len(b) = m /\ \A i \in 1 .. m : b[i] = toks[i]
      BY <2>1, <2>2, FrontMembers
    <2>5. ASSUME NEW i \in 1 .. m PROVE a[i] = b[i]
      <3>1. i \in 1 .. len
        BY <1>4
      <3> QED
        BY <1>3, <2>3, <2>4, <3>1
    <2>6. a = b
      BY <2>3, <2>4, <2>5, SeqEqual
    <2> QED
      BY <2>1, <2>6 DEF Prefix
  <1>5. ASSUME NEW i \in 1 .. Len(tb), i <= n PROVE Prefix(u, i * BlockSize) = Prefix(toks, i * BlockSize)
    <2>1. i \in Nat /\ n \in Nat /\ i <= n
      BY <1>5
    <2>2. i * BlockSize \in Nat /\ i * BlockSize <= n * BlockSize /\ n * BlockSize \in Nat
      BY <2>1, TimesOrder
    <2>3. n * BlockSize <= len
      BY <1>2, <2>1 DEF Filled
    <2>4. PICK x, y : x = i * BlockSize /\ y = n * BlockSize
      OBVIOUS
    <2>5. x \in Nat /\ x <= len
      BY <1>2, <2>2, <2>3, <2>4
    <2> QED
      BY <1>4, <2>4, <2>5
  <1> QED
    BY <1>1, <1>5 DEF Own

\* What update_from_output makes of a request: a token more, if one was sampled, and then it
\* stops if it has to.
Updated(new, rec, stop) ==
  \/ new = rec /\ ~stop
  \/ /\ rec.status \in {"waiting", "running", "preempted"}
     /\ Len(rec.tokens) < MaxModelLen
     /\ \E t \in Nat : new.tokens = Append(rec.tokens, t)
     /\ new.computed = rec.computed
     /\ new.status = IF stop THEN "finished" ELSE rec.status
     /\ ~stop => Len(new.tokens) < MaxModelLen

\* A token more keeps a request within its bounds, and its blocks as they are.
LEMMA UpdatedFits ==
  ASSUME NEW rec \in Reqs, NEW new \in Reqs, NEW stop \in BOOLEAN, Updated(new, rec, stop),
         Bounded(rec, 0), NEW hash, NEW tb \in Seq(Blocks), NEW n \in Int, HeldBy(hash, tb, n, rec, 0)
  PROVE  /\ Bounded(new, 0)
         /\ HeldBy(hash, IF stop THEN <<>> ELSE tb, IF stop THEN NoEntry ELSE n, new, 0)
  <1>1. CASE new = rec /\ ~stop
    BY <1>1
  <1>2. CASE ~(new = rec /\ ~stop)
    <2>1. PICK t \in Nat : /\ rec.status \in {"waiting", "running", "preempted"}
                           /\ Len(rec.tokens) < MaxModelLen
                           /\ new.tokens = Append(rec.tokens, t)
                           /\ new.computed = rec.computed
                           /\ new.status = IF stop THEN "finished" ELSE rec.status
                           /\ ~stop => Len(new.tokens) < MaxModelLen
      BY <1>2 DEF Updated
    <2>2. PICK toks, len, done : toks = rec.tokens /\ len = Len(toks) /\ done = rec.computed
      OBVIOUS
    <2>3. toks \in Seq(Nat) /\ len \in Nat /\ done \in Nat /\ MaxModelLen \in Nat
      BY <2>2, LenProperties, ServingAssumption DEF Reqs
    <2>4. /\ len >= 1 /\ len < MaxModelLen /\ done <= len
          /\ rec.status \in {"absent", "waiting", "preempted"} => done = 0
      BY <2>1, <2>2, <2>3 DEF Bounded
    <2>5. Len(new.tokens) = len + 1
      BY <2>1, <2>2, <2>3, AppendProperties
    <2>6. Bounded(new, 0)
      <3>1. Len(new.tokens) \in 1 .. MaxModelLen
        BY <2>3, <2>4, <2>5
      <3>2. new.computed + 0 <= Len(new.tokens)
        BY <2>1, <2>2, <2>3, <2>4, <2>5
      <3>3. new.status \in {"absent", "waiting", "preempted"} => new.computed = 0
        BY <2>1, <2>2, <2>4
      <3> QED
        BY <3>1, <3>2, <3>3 DEF Bounded
    <2>7. CASE stop
      <3>1. new.status = "finished"
        BY <2>1, <2>7
      <3>2. IsInjective(<<>>) /\ Len(<<>>) = 0 /\ 1 .. 0 = {} /\ NoEntry <= 0
        BY NoMembers DEF NoEntry
      <3>3. HeldBy(hash, <<>>, NoEntry, new, 0)
        BY <3>1, <3>2 DEF HeldBy, Own
      <3> QED
        BY <2>6, <2>7, <3>3
    <2>8. CASE ~stop
      <3>1. new.status = rec.status /\ new.computed = rec.computed
        BY <2>1, <2>8
      <3>2. n \in Nat => Filled(n, len)
        <4>1. ASSUME n \in Nat PROVE Filled(n, len)
          <5>1. rec.status = "running"
            BY <4>1 DEF HeldBy, NoEntry
          <5>2. Filled(n, done + 0)
            BY <2>2, <5>1 DEF HeldBy
          <5>3. n * BlockSize \in Nat /\ n * BlockSize <= done + 0
            BY <4>1, <5>2, TimesOrder DEF Filled
          <5>4. PICK x : x = n * BlockSize
            OBVIOUS
          <5>5. x <= len
            BY <2>3, <2>4, <5>3, <5>4
          <5> QED
            BY <5>4, <5>5 DEF Filled
        <4> QED
          BY <4>1
      <3>3. Own(hash, tb, n, rec.tokens)
        BY DEF HeldBy
      <3>4. Own(hash, tb, n, Append(toks, t))
        BY <2>2, <2>3, <3>2, <3>3, OwnAppended
      <3>5. HeldBy(hash, tb, n, new, 0)
        BY <2>1, <2>2, <3>1, <3>4 DEF HeldBy
      <3> QED
        BY <2>6, <2>8, <3>5
    <2> QED
      BY <2>7, <2>8
  <1> QED
    BY <1>1, <1>2

\* The requests of the entries es that stop, and what becomes of all requests: live[i] says
\* that a token was sampled for the i-th entry and its request is still there.
StoppedIn(rq, es, live, sampled) ==
  {es[i].r : i \in {j \in DOMAIN es :
     live[j] /\ Stops(es[j].r, Append(rq[es[j].r].tokens, sampled[j]))}}

UpdateOf(rq, es, live, sampled, S) ==
  [r \in Requests |->
     LET New == {i \in DOMAIN es : es[i].r = r /\ live[i]}
         c == CHOOSE i \in New : TRUE
     IN  IF New = {} THEN rq[r]
         ELSE [rq[r] EXCEPT !.tokens = Append(rq[es[c].r].tokens, sampled[c]),
                            !.status = IF r \in S THEN "finished" ELSE @]]

\* What update_from_output does, entry by entry, to the requests.
LEMMA UpdatedRequests ==
  ASSUME NEW rq \in [Requests -> Reqs], NEW es \in Seq(Entries), NEW live, NEW S, NEW next,
         NEW sampled \in [DOMAIN es -> Vocab],
         \A i \in DOMAIN es : live[i] => rq[es[i].r].status \in {"waiting", "running", "preempted"},
         \A i \in DOMAIN es : live[i] => Len(rq[es[i].r].tokens) < MaxModelLen,
         S = StoppedIn(rq, es, live, sampled), next = UpdateOf(rq, es, live, sampled, S)
  PROVE  \A r \in Requests : next[r] \in Reqs /\ Updated(next[r], rq[r], r \in S)
  <1> SUFFICES ASSUME NEW r \in Requests
               PROVE  next[r] \in Reqs /\ Updated(next[r], rq[r], r \in S)
    OBVIOUS
  <1> DEFINE New == {i \in DOMAIN es : es[i].r = r /\ live[i]}
             c == CHOOSE i \in New : TRUE
  <1>1. next[r] = IF New = {} THEN rq[r]
                  ELSE [rq[r] EXCEPT !.tokens = Append(rq[es[c].r].tokens, sampled[c]),
                                     !.status = IF r \in S THEN "finished" ELSE @]
    BY Zenon DEF UpdateOf
  <1>2. /\ rq[r] \in Reqs /\ rq[r].tokens \in Seq(Nat) /\ rq[r].status \in Statuses
        /\ rq[r].computed \in Nat
    BY DEF Reqs
  <1>3. ASSUME r \in S PROVE New # {}
    BY <1>3, SMTT(30) DEF StoppedIn
  <1>4. CASE New = {}
    BY <1>1, <1>2, <1>3, <1>4 DEF Updated
  <1>5. CASE New # {}
    <2>1. c \in New
      BY <1>5
    <2>2. c \in DOMAIN es /\ es[c].r = r /\ live[c]
      BY <2>1
    <2> HIDE DEF c, New
    <2>3. PICK t : t = sampled[c]
      OBVIOUS
    <2>4. t \in Nat
      BY <2>2, <2>3, ServingAssumption
    <2>5. PICK toks : toks = Append(rq[r].tokens, t)
      OBVIOUS
    <2>6. toks \in Seq(Nat)
      BY <1>2, <2>4, <2>5, AppendProperties
    <2>7. PICK status : status = IF r \in S THEN "finished" ELSE rq[r].status
      OBVIOUS
    <2>8. next[r] = [rq[r] EXCEPT !.tokens = toks, !.status = status]
      BY <1>1, <1>5, <2>2, <2>3, <2>5, <2>7
    <2>9. status \in Statuses
      BY <1>2, <2>7 DEF Statuses
    <2>10. /\ next[r] \in Reqs /\ next[r].tokens = toks /\ next[r].status = status
           /\ next[r].computed = rq[r].computed
      BY <1>2, <2>6, <2>8, <2>9 DEF Reqs
    <2>11. ASSUME r \notin S PROVE Len(toks) < MaxModelLen
      <3>1. ~Stops(r, toks)
        BY <2>2, <2>3, <2>5, <2>11 DEF StoppedIn
      <3>2. Len(toks) \in Nat /\ MaxModelLen \in Nat
        BY <2>6, LenProperties, ServingAssumption
      <3>3. ~(Len(toks) >= MaxModelLen)
        BY <3>1 DEF Stops
      <3> QED
        BY <3>2, <3>3
    <2>12. rq[r].status \in {"waiting", "running", "preempted"} /\ Len(rq[r].tokens) < MaxModelLen
      BY <2>2
    <2> QED
      BY <2>4, <2>5, <2>7, <2>10, <2>11, <2>12 DEF Updated
  <1> QED
    BY <1>4, <1>5

\* What becomes of the requests, of which those in S stop: only one that an entry of the output
\* sampled a token for changes.
UpdateMade ==
  \E S \in SUBSET Requests :
    /\ \A r \in Requests : Updated(req'[r], req[r], r \in S)
    /\ \A r \in Requests : req'[r] # req[r] =>
         \E i \in DOMAIN Head(queue).entries :
           Head(queue).entries[i].r = r /\ Samples(Head(queue).entries[i])
    /\ \A r \in Requests \ S : blocks'[r] = blocks[r]
    /\ pool'.hash = pool.hash
    /\ finished' = finished \cup S

\* update_from_output: tokens are appended, what stops is freed and leaves the line.
LEMMA UpdateFromOutputKeeps ==
  ASSUME SchedInv, FullInv, UpdateFromOutput
  PROVE  SchedInv' /\ UpdateMade
  <1> DEFINE es == Head(queue).entries
  <1>1. PICK sampled \in [DOMAIN es -> Vocab] :
          LET Live(i) == Unfinished(es[i].r) /\ Samples(es[i])
              Tokens(i) == Append(req[es[i].r].tokens, sampled[i])
              Stopped(i) == Live(i) /\ Stops(es[i].r, Tokens(i))
              stopped == {es[i].r : i \in {j \in DOMAIN es : Stopped(j)}}
              New(r) == {i \in DOMAIN es : es[i].r = r /\ Live(i)}
          IN  /\ req' = [r \in Requests |->
                          IF New(r) = {} THEN req[r]
                          ELSE [req[r] EXCEPT !.tokens = Tokens(CHOOSE i \in New(r) : TRUE),
                                              !.status = IF r \in stopped THEN "finished" ELSE @]]
              /\ pool' = FreeStopped(es, stopped)
              /\ blocks' = [r \in Requests |-> IF r \in stopped THEN <<>> ELSE blocks[r]]
              /\ ncached' = [r \in Requests |-> IF r \in stopped THEN NoEntry ELSE ncached[r]]
              /\ finished' = finished \cup stopped
              /\ running' = Keep(running, Requests \ stopped)
              /\ waiting' = Keep(waiting, Requests \ stopped)
    BY ZenonT(60) DEF UpdateFromOutput
  <1>2. /\ phase = "update" /\ queue # <<>> /\ queue' = Tail(queue) /\ phase' = "input"
        /\ idx' = idx /\ budget' = budget /\ batch' = batch
        /\ \A i \in DOMAIN es : ~Overruns(es[i])
    BY DEF UpdateFromOutput
  <1> HIDE DEF es
  <1> DEFINE live == [i \in DOMAIN es |-> Unfinished(es[i].r) /\ Samples(es[i])]
             stopped == {es[i].r : i \in {j \in DOMAIN es :
                           /\ Unfinished(es[j].r) /\ Samples(es[j])
                           /\ Stops(es[j].r, Append(req[es[j].r].tokens, sampled[j]))}}
  <1>3. stopped = StoppedIn(req, es, live, sampled)
    BY DEF StoppedIn
  <1>4. req' = UpdateOf(req, es, live, sampled, stopped)
    <2>1. \A r : {i \in DOMAIN es : es[i].r = r /\ live[i]}
                 = {i \in DOMAIN es : es[i].r = r /\ (Unfinished(es[i].r) /\ Samples(es[i]))}
      OBVIOUS
    <2> DEFINE New(r) == {i \in DOMAIN es : es[i].r = r /\ (Unfinished(es[i].r) /\ Samples(es[i]))}
    <2>2. UpdateOf(req, es, live, sampled, stopped)
          = [r \in Requests |->
               IF New(r) = {} THEN req[r]
               ELSE [req[r] EXCEPT !.tokens = Append(req[es[CHOOSE i \in New(r) : TRUE].r].tokens,
                                                     sampled[CHOOSE i \in New(r) : TRUE]),
                                   !.status = IF r \in stopped THEN "finished" ELSE @]]
      <3> HIDE DEF live, stopped
      <3> QED
        BY <2>1 DEF UpdateOf
    <2> QED
      BY <1>1, <2>2, Zenon
  <1>5. /\ pool' = FreeStopped(es, stopped)
        /\ blocks' = [r \in Requests |-> IF r \in stopped THEN <<>> ELSE blocks[r]]
        /\ ncached' = [r \in Requests |-> IF r \in stopped THEN NoEntry ELSE ncached[r]]
        /\ finished' = finished \cup stopped
        /\ running' = Keep(running, Requests \ stopped)
        /\ waiting' = Keep(waiting, Requests \ stopped)
    BY <1>1, Zenon
  <1>6. \A i \in DOMAIN es : live[i] => req[es[i].r].status \in {"waiting", "running", "preempted"}
    BY DEF Unfinished
  <1> HIDE DEF live, stopped
  <1>7. /\ SchedType /\ InLine(running, waiting, req) /\ InBatch(batch, phase, idx, running)
        /\ InQueue(queue, phase) /\ Lengths(req, batch) /\ PoolInv(pool, blocks)
        /\ Held(pool.hash, blocks, ncached, req, batch)
    BY DEF SchedInv
  <1>8. /\ req \in [Requests -> Reqs] /\ running \in Seq(Requests) /\ waiting \in Seq(Requests)
        /\ blocks \in Tables /\ ncached \in [Requests -> Int] /\ queue \in Seq(Outs)
    BY <1>7 DEF SchedType
  <1>9. batch = <<>> /\ InBatch(batch', phase', idx', running') /\ \A r : AdvanceIn(batch, r) = 0
    <2>1. batch = <<>>
      BY <1>2, <1>7 DEF InBatch
    <2>2. phase' # "running"
      BY <1>2
    <2> QED
      BY <1>2, <2>1, <2>2, EmptyBatch, AdvanceEmpty
  <1>10. PICK n \in Nat : n = Len(queue) /\ n > 0
    BY <1>2, <1>8, LenProperties, EmptySeq
  <1>11. \A k \in 1 .. n : queue[k] \in Outs /\ Distinct(queue[k].entries)
    <2> DEFINE O == Outs
    <2>1. queue \in Seq(O)
      BY <1>8
    <2> HIDE DEF O
    <2>2. \A k \in 1 .. n : queue[k] \in O
      BY <1>10, <2>1, Members
    <2> QED
      BY <1>7, <1>10, <2>2 DEF InQueue, O
  <1>12. es \in Seq(Entries) /\ Distinct(es)
    <2>1. 1 \in 1 .. n /\ Head(queue) = queue[1]
      BY <1>2, <1>8, <1>10
    <2>2. Head(queue) \in Outs /\ Distinct(Head(queue).entries)
      BY <1>11, <2>1
    <2> QED
      BY <2>2 DEF es, Outs
  <1>13. \A i \in DOMAIN es : live[i] => Len(req[es[i].r].tokens) < MaxModelLen
    <2>1. ASSUME NEW i \in DOMAIN es, live[i] PROVE Len(req[es[i].r].tokens) < MaxModelLen
      <3>1. DOMAIN es = 1 .. Len(es)
        BY <1>12, LenProperties
      <3>2. PICK e, rec : e = es[i] /\ rec = req[es[i].r]
        OBVIOUS
      <3>3. e \in Entries /\ e.r \in Requests /\ e.tokens \in Seq(Nat)
        <4> DEFINE E == Entries
        <4>1. es \in Seq(E)
          BY <1>12
        <4> HIDE DEF E
        <4>2. es[i] \in E
          BY <3>1, <4>1, Members
        <4> QED
          BY <3>2, <4>2 DEF E, Entries
      <3>4. Unfinished(e.r) /\ Samples(e) /\ ~Overruns(e)
        BY <1>2, <2>1, <3>2 DEF live
      <3>5. Len(e.tokens) >= Len(Prompt[e.r])
        <4>1. 1 \in 1 .. n /\ Head(queue) = queue[1]
          BY <1>2, <1>8, <1>10
        <4>2. Whole(es)
          BY <1>10, <4>1 DEF FullInv, es
        <4> QED
          BY <3>1, <3>2, <4>2 DEF Whole
      <3>6. rec.status # "finished" /\ Fills(rec, e.r) /\ rec \in Reqs
        BY <1>8, <3>2, <3>3, <3>4 DEF FullInv, Unfinished
      <3>7. /\ Len(e.tokens) \in Nat /\ Len(rec.tokens) \in Nat /\ Len(Prompt[e.r]) \in Nat
            /\ MaxModelLen \in Nat
        BY <3>3, <3>6, LenProperties, ServingAssumption DEF Reqs
      <3>8. ~(Len(e.tokens) >= MaxModelLen)
        BY <3>4 DEF Overruns
      <3>9. Len(rec.tokens) >= MaxModelLen => Len(Prompt[e.r]) >= MaxModelLen
        BY <3>6 DEF Fills
      <3>10. Len(rec.tokens) < MaxModelLen
        BY <3>5, <3>7, <3>8, <3>9
      <3> QED
        BY <3>2, <3>10
    <2> QED
      BY <2>1
  <1>14. queue' \in Seq(Outs) /\ InQueue(queue', phase')
    <2> DEFINE O == Outs
    <2>1. queue \in Seq(O)
      BY <1>8
    <2> HIDE DEF O
    <2>2. PICK u : u = Tail(queue)
      OBVIOUS
    <2>3. u \in Seq(O) /\ Len(u) = n - 1 /\ \A k \in 1 .. n - 1 : u[k] = queue[k + 1]
      BY <1>2, <1>10, <2>1, <2>2, HeadTailProperties
    <2>4. ASSUME NEW k \in 1 .. n - 1 PROVE Distinct(u[k].entries)
      <3>1. k + 1 \in 1 .. n
        BY <1>10
      <3> QED
        BY <1>11, <2>3, <3>1
    <2>5. n <= QueueSize /\ QueueSize \in Nat
      BY <1>7, <1>10, ServingAssumption DEF InQueue
    <2>6. n - 1 <= QueueSize /\ n - 1 < QueueSize
      BY <1>10, <2>5
    <2> QED
      BY <1>2, <2>2, <2>3, <2>4, <2>6 DEF InQueue, O
  <1>15. PICK next, nl, S : next = req' /\ nl = live /\ S = stopped
    OBVIOUS
  <1>16. \A r \in Requests : next[r] \in Reqs /\ Updated(next[r], req[r], r \in S)
    <2>1. PICK rq, e : rq = req /\ e = es
      OBVIOUS
    <2>2. /\ rq \in [Requests -> Reqs] /\ e \in Seq(Entries) /\ sampled \in [DOMAIN e -> Vocab]
          /\ \A i \in DOMAIN e : nl[i] => rq[e[i].r].status \in {"waiting", "running", "preempted"}
          /\ \A i \in DOMAIN e : nl[i] => Len(rq[e[i].r].tokens) < MaxModelLen
          /\ S = StoppedIn(rq, e, nl, sampled) /\ next = UpdateOf(rq, e, nl, sampled, S)
      BY <1>3, <1>4, <1>6, <1>8, <1>12, <1>13, <1>15, <2>1
    <2>3. \A r \in Requests : next[r] \in Reqs /\ Updated(next[r], rq[r], r \in S)
      BY <2>2, UpdatedRequests, ZenonT(60)
    <2> QED
      BY <2>1, <2>3
  <1>17. next \in [Requests -> Reqs]
    <2>1. next = [r \in Requests |-> next[r]]
      BY <1>4, <1>15 DEF UpdateOf
    <2> QED
      BY <1>16, <2>1
  <1>18. \A r \in S : \E i \in 1 .. Len(es) : es[i].r = r
    <2>1. DOMAIN es = 1 .. Len(es)
      BY <1>12, LenProperties
    <2> QED
      BY <1>15, <2>1 DEF stopped
  <1>19. S \subseteq Requests
    <2> DEFINE E == Entries
    <2>1. \A e \in E : e.r \in Requests
      BY DEF Entries
    <2>2. es \in Seq(E)
      BY <1>12
    <2> HIDE DEF E
    <2>3. \A i \in 1 .. Len(es) : es[i].r \in Requests
      BY <2>1, <2>2, Members
    <2> QED
      BY <1>18, <2>3
  <1>20. ASSUME NEW r \in Requests
         PROVE  /\ Bounded(req[r], 0)
                /\ HeldBy(pool.hash, blocks[r], ncached[r], req[r], 0)
    BY <1>7, <1>9 DEF Lengths, Held
  <1>21. PICK p, g, nc : p = pool' /\ g = blocks' /\ nc = ncached'
    OBVIOUS
  <1>22. g = [r \in Requests |-> IF r \in S THEN <<>> ELSE blocks[r]]
         /\ nc = [r \in Requests |-> IF r \in S THEN NoEntry ELSE ncached[r]]
    BY <1>5, <1>15, <1>21
  <1>23. PoolInv(p, g) /\ p.hash = pool.hash /\ g \in Tables
    <2>1. \A r \in Requests : IsInjective(blocks[r])
      BY <1>20 DEF HeldBy, Own
    <2>2. AfterDrop(FreeStopped(es, S), [r \in Requests |-> IF r \in S THEN <<>> ELSE blocks[r]],
                    pool, blocks)
      BY <1>7, <1>8, <1>12, <1>18, <2>1, StoppedFreed
    <2>3. AfterDrop(p, g, pool, blocks)
      BY <1>5, <1>15, <1>21, <1>22, <2>2
    <2> QED
      BY <2>3 DEF AfterDrop
  <1>24. nc \in [Requests -> Int]
    BY <1>8, <1>22 DEF NoEntry
  <1>25. Lengths(next, batch) /\ Held(p.hash, g, nc, next, batch)
    <2>1. ASSUME NEW r \in Requests
          PROVE  Bounded(next[r], 0) /\ HeldBy(p.hash, g[r], nc[r], next[r], 0)
      <3>1. PICK stop \in BOOLEAN : stop <=> r \in S
        OBVIOUS
      <3>2. /\ g[r] = IF stop THEN <<>> ELSE blocks[r]
            /\ nc[r] = IF stop THEN NoEntry ELSE ncached[r]
        BY <1>22, <3>1
      <3>3. /\ req[r] \in Reqs /\ next[r] \in Reqs /\ blocks[r] \in Seq(Blocks) /\ ncached[r] \in Int
        BY <1>8, <1>16 DEF Tables
      <3>4. Updated(next[r], req[r], stop)
        BY <1>16, <3>1 DEF Updated
      <3>5. PICK hash, tb, k, rec, new : /\ hash = pool.hash /\ tb = blocks[r] /\ k = ncached[r]
                                         /\ rec = req[r] /\ new = next[r]
        OBVIOUS
      <3>6. /\ Bounded(new, 0)
            /\ HeldBy(hash, IF stop THEN <<>> ELSE tb, IF stop THEN NoEntry ELSE k, new, 0)
        <4>1. /\ Bounded(rec, 0) /\ HeldBy(hash, tb, k, rec, 0) /\ Updated(new, rec, stop)
              /\ rec \in Reqs /\ new \in Reqs /\ tb \in Seq(Blocks) /\ k \in Int
          BY <1>20, <3>3, <3>4, <3>5
        <4> QED
          BY <4>1, UpdatedFits, Zenon
      <3> QED
        BY <1>23, <3>2, <3>5, <3>6
    <2> QED
      BY <1>9, <2>1 DEF Lengths, Held
  <1>26. /\ running' \in Seq(Requests) /\ waiting' \in Seq(Requests)
         /\ InLine(running', waiting', next)
    <2> DEFINE K == Requests \ S
    <2>1. \A q \in Requests \cap K : next[q].status = req[q].status
      BY <1>16 DEF Updated
    <2>2. \A q \in Requests : next[q].status = "absent" <=> req[q].status = "absent"
      BY <1>16 DEF Updated
    <2>3. running' = Keep(running, K) /\ waiting' = Keep(waiting, K)
      BY <1>5, <1>15
    <2> HIDE DEF K
    <2>4. /\ Keep(running, K) \in Seq(Requests) /\ Keep(waiting, K) \in Seq(Requests)
          /\ InLine(Keep(running, K), Keep(waiting, K), next)
      BY <1>7, <1>8, <2>1, <2>2, LineKept
    <2> QED
      BY <2>3, <2>4
  <1>27. SchedType'
    <2>1. finished' \in SUBSET Requests
      BY <1>5, <1>7, <1>15, <1>19 DEF SchedType
    <2> QED
      BY <1>2, <1>7, <1>14, <1>15, <1>17, <1>21, <1>23, <1>24, <1>26, <2>1 DEF SchedType
  <1>28. UpdateMade
    <2>1. ASSUME NEW r \in Requests, next[r] # req[r]
          PROVE  \E i \in DOMAIN es : es[i].r = r /\ Samples(es[i])
      <3> DEFINE New == {i \in DOMAIN es : es[i].r = r /\ nl[i]}
      <3>1. New # {}
        <4>1. PICK d : d = CHOOSE i \in New : TRUE
          OBVIOUS
        <4>2. UpdateOf(req, es, nl, sampled, S)[r]
                = IF New = {} THEN req[r]
                  ELSE [req[r] EXCEPT !.tokens = Append(req[es[d].r].tokens, sampled[d]),
                                      !.status = IF r \in S THEN "finished" ELSE @]
          BY <4>1, Zenon DEF UpdateOf
        <4>3. next[r] = UpdateOf(req, es, nl, sampled, S)[r]
          BY <1>4, <1>15
        <4> QED
          BY <2>1, <4>2, <4>3
      <3>2. PICK i \in DOMAIN es : es[i].r = r /\ live[i]
        BY <1>15, <3>1
      <3>3. Samples(es[i])
        BY <3>2 DEF live
      <3> QED
        BY <3>2, <3>3
    <2>2. \A r \in Requests : next[r] # req[r] =>
            \E i \in DOMAIN Head(queue).entries :
              Head(queue).entries[i].r = r /\ Samples(Head(queue).entries[i])
      BY <2>1 DEF es
    <2>3. \A r \in Requests \ S : g[r] = blocks[r]
      BY <1>22
    <2>4. finished' = finished \cup S
      BY <1>5, <1>15
    <2>5. \A r \in Requests : Updated(next[r], req[r], r \in S)
      BY <1>16
    <2> QED
      BY <1>15, <1>19, <1>21, <1>23, <2>2, <2>3, <2>4, <2>5 DEF UpdateMade
  <1> QED
    BY <1>2, <1>7, <1>9, <1>14, <1>15, <1>21, <1>23, <1>25, <1>26, <1>27, <1>28 DEF SchedInv

-----------------------------------------------------------------------------
(* Only a prompt fills the model's length *)

\* What is appended comes last.
LEMMA AppendedMembers ==
  ASSUME NEW T, NEW s \in Seq(T), NEW x
  PROVE  \A i \in 1 .. Len(Append(s, x)) :
           Append(s, x)[i] = x \/ \E j \in 1 .. Len(s) : Append(s, x)[i] = s[j]
  <1>1. PICK n \in Nat : s \in [1 .. n -> T]
    BY SeqDef
  <1>2. s \in [1 .. n -> T \cup {x}]
    BY <1>1
  <1>3. PICK X : s \in Seq(X) /\ x \in X
    <2>1. s \in Seq(T \cup {x})
      BY <1>2, SeqDef
    <2> QED
      BY <2>1
  <1>4. PICK u, m : u = Append(s, x) /\ m = Len(s)
    OBVIOUS
  <1>5. m \in Nat /\ Len(u) = m + 1 /\ u[m + 1] = x /\ \A j \in 1 .. m : u[j] = s[j]
    BY <1>3, <1>4, AppendProperties, LenProperties
  <1>6. ASSUME NEW i \in 1 .. m + 1 PROVE u[i] = x \/ \E j \in 1 .. m : u[i] = s[j]
    <2>1. i \in 1 .. m \/ i = m + 1
      BY <1>5
    <2> QED
      BY <1>5, <2>1
  <1> QED
    BY <1>4, <1>5, <1>6

\* Before anyone arrives, requests are their prompts.
LEMMA InitFull ==
  Init => FullInv
  <1> SUFFICES ASSUME Init PROVE FullInv
    OBVIOUS
  <1>1. /\ req = [r \in Requests |-> [status |-> "absent", tokens |-> Prompt[r], computed |-> 0]]
        /\ batch = <<>> /\ queue = <<>>
    BY DEF Init
  <1>2. \A r \in Requests : Len(Prompt[r]) \in Nat
    BY ServingAssumption
  <1>3. \A r \in Requests : req[r].tokens = Prompt[r]
    BY <1>1
  <1>4. Len(<<>>) = 0 /\ 1 .. 0 = {}
    OBVIOUS
  <1> QED
    BY <1>1, <1>2, <1>3, <1>4 DEF FullInv, Fills, Whole

\* Nobody's tokens change, and nobody who is finished comes back.
KeepsTokens(next, rq) ==
  \A r \in Requests :
    /\ next[r].tokens = rq[r].tokens
    /\ rq[r].status = "finished" => next[r].status = "finished"

\* It is enough to look at what is new in the batch and in the queue.
LEMMA FullStays ==
  ASSUME FullInv, KeepsTokens(req', req), Whole(batch'),
         \A k \in 1 .. Len(queue') : Whole(queue'[k].entries)
  PROVE  FullInv'
  <1>1. \A r \in Requests : Fills(req[r], r)
    BY DEF FullInv
  <1>2. PICK next, rq : next = req' /\ rq = req
    OBVIOUS
  <1>3. \A r \in Requests : Fills(next[r], r)
    BY <1>1, <1>2 DEF Fills, KeepsTokens
  <1>4. (\A r \in Requests : Fills(req[r], r))'
    BY <1>2, <1>3
  <1> QED
    BY <1>4 DEF FullInv

\* An entry more in the batch, with the tokens its request has.
LEMMA FullAppended ==
  ASSUME SchedInv, FullInv, NEW e \in Entries, batch' = Append(batch, e), queue' = queue,
         e.tokens = req[e.r].tokens, KeepsTokens(req', req)
  PROVE  FullInv'
  <1>1. PICK bt, b2 : bt = batch /\ b2 = batch'
    OBVIOUS
  <1>2. bt \in Seq(Entries) /\ Whole(bt) /\ b2 = Append(bt, e)
    BY <1>1 DEF SchedInv, SchedType, FullInv
  <1>3. e.r \in Requests
    BY DEF Entries
  <1>4. Len(e.tokens) >= Len(Prompt[e.r])
    BY <1>3 DEF FullInv, Fills
  <1>5. ASSUME NEW i \in 1 .. Len(b2) PROVE Len(b2[i].tokens) >= Len(Prompt[b2[i].r])
    <2> DEFINE E == Entries
    <2>1. bt \in Seq(E)
      BY <1>2
    <2> HIDE DEF E
    <2>2. b2[i] = e \/ \E j \in 1 .. Len(bt) : b2[i] = bt[j]
      BY <1>2, <2>1, AppendedMembers
    <2> QED
      BY <1>2, <1>4, <2>2 DEF Whole
  <1>6. Whole(b2)
    BY <1>5 DEF Whole
  <1>7. \A k \in 1 .. Len(queue') : Whole(queue'[k].entries)
    BY DEF FullInv
  <1> QED
    BY <1>1, <1>6, <1>7, FullStays

\* Every step that appends no token.
LEMMA StepFull ==
  ASSUME SchedInv, FullInv, [Next]_vars, ~UpdateFromOutput
  PROVE  FullInv'
  <1>1. /\ req \in [Requests -> Reqs] /\ running \in Seq(Requests) /\ waiting \in Seq(Requests)
        /\ batch \in Seq(Entries) /\ queue \in Seq(Outs) /\ idx \in Nat \ {0}
        /\ InLine(running, waiting, req)
    BY DEF SchedInv, SchedType
  <1>2. Whole(batch) /\ \A k \in 1 .. Len(queue) : Whole(queue[k].entries)
    BY DEF FullInv
  <1>3. PICK next, rq : next = req' /\ rq = req
    OBVIOUS
  <1>4. ASSUME NEW r \in Requests, AddRequest(r) \/ Abort(r) PROVE FullInv'
    <2>1. /\ batch' = batch /\ queue' = queue
          /\ \/ req' = [req EXCEPT ![r].status = "waiting"] /\ req[r].status = "absent"
             \/ req' = [req EXCEPT ![r].status = "finished"]
      BY <1>4 DEF AddRequest, Abort, loopVars
    <2>2. ASSUME NEW q \in Requests
          PROVE  /\ next[q].tokens = rq[q].tokens
                 /\ rq[q].status = "finished" => next[q].status = "finished"
      <3>1. CASE q = r
        <4>1. PICK st : /\ next[r] = [rq[r] EXCEPT !.status = st]
                        /\ rq[r].status = "finished" => st = "finished"
          BY <1>1, <1>3, <2>1, Zenon
        <4>2. rq[r] \in Reqs
          BY <1>1, <1>3
        <4> QED
          BY <3>1, <4>1, <4>2 DEF Reqs
      <3>2. CASE q # r
        BY <1>1, <1>3, <2>1, <3>2
      <3> QED
        BY <3>1, <3>2
    <2>3. KeepsTokens(next, rq)
      BY <2>2 DEF KeepsTokens
    <2> QED
      BY <1>2, <1>3, <2>1, <2>3, FullStays
  <1>5. CASE ResetCache \/ BeginStep \/ SkipRunning \/ EndRunning \/ EngineFails \/ UNCHANGED vars
    <2>1. batch' = batch /\ queue' = queue /\ req' = req
      BY <1>5 DEF ResetCache, BeginStep, SkipRunning, EndRunning, EngineFails, vars, schedVars, loopVars
    <2>2. KeepsTokens(next, rq)
      BY <1>3, <2>1 DEF KeepsTokens
    <2> QED
      BY <1>2, <1>3, <2>1, <2>2, FullStays
  <1>6. CASE Preempt
    <2>1. PICK v : v = Last(running)
      OBVIOUS
    <2>2. /\ idx <= Len(running) /\ batch' = batch /\ queue' = queue
          /\ req' = [req EXCEPT ![v].status = "preempted", ![v].computed = 0]
      BY <1>6, <2>1 DEF Preempt, InRunningLoop
    <2>3. v \in Requests /\ req[v].status = "running"
      <3>1. PICK n \in Nat : n = Len(running)
        BY <1>1, LenProperties
      <3>2. v = running[n] /\ n \in 1 .. n
        BY <1>1, <2>1, <2>2, <3>1 DEF Last
      <3>3. v \in Requests /\ v \in ToSet(running)
        BY <1>1, <3>1, <3>2, Members
      <3> QED
        BY <1>1, <3>3 DEF InLine
    <2>4. KeepsTokens(next, rq)
      BY <1>1, <1>3, <2>2, <2>3 DEF KeepsTokens, Reqs
    <2> QED
      BY <1>2, <1>3, <2>2, <2>4, FullStays
  <1>7. CASE ScheduleRunning
    <2>1. req' = req /\ queue' = queue
      BY <1>7 DEF ScheduleRunning
    <2>2. PICK e \in Entries : batch' = Append(batch, e) /\ e.tokens = req[e.r].tokens
      BY <1>7, ScheduleRunningKeeps, Zenon DEF RunningEntry, EntryMade
    <2>3. KeepsTokens(next, rq)
      BY <1>3, <2>1 DEF KeepsTokens
    <2> QED
      BY <1>3, <2>1, <2>2, <2>3, FullAppended
  <1>8. CASE AdmitWaiting
    <2>1. PICK r, start : r = Head(waiting) /\ start = Len(LongestHit(r)) * BlockSize
      OBVIOUS
    <2>2. /\ waiting # <<>> /\ queue' = queue
          /\ req' = [req EXCEPT ![r].status = "running", ![r].computed = start]
      BY <1>8, <2>1 DEF AdmitWaiting, CanAdmit
    <2>3. PICK e \in Entries : batch' = Append(batch, e) /\ e.tokens = req[e.r].tokens
      BY <1>8, AdmitWaitingKeeps, Zenon DEF FirstEntry, EntryMade
    <2>4. r \in Requests /\ req[r].status \in {"waiting", "preempted"}
      <3>1. r \in Requests /\ r \in ToSet(waiting)
        BY <1>1, <2>1, <2>2, LineHead DEF InLine
      <3> QED
        BY <1>1, <3>1 DEF InLine
    <2>5. KeepsTokens(next, rq)
      BY <1>1, <1>3, <2>2, <2>4 DEF KeepsTokens, Reqs
    <2> QED
      BY <1>3, <2>2, <2>3, <2>5, FullAppended
  <1>9. CASE Send
    <2>1. PICK out, u : /\ out = [entries |-> batch, finished |-> finished, done |-> FALSE]
                        /\ u = Append(queue, out)
      OBVIOUS
    <2>2. /\ queue' = u /\ batch' = <<>>
          /\ req' = [r \in Requests |-> [req[r] EXCEPT !.computed = @ + Advance(r)]]
      BY <1>9, <2>1 DEF Send
    <2>3. KeepsTokens(next, rq)
      BY <1>1, <1>3, <2>2 DEF KeepsTokens, Reqs
    <2>4. ASSUME NEW k \in 1 .. Len(u) PROVE Whole(u[k].entries)
      <3> DEFINE O == Outs
      <3>1. queue \in Seq(O)
        BY <1>1
      <3> HIDE DEF O
      <3>2. u[k] = out \/ \E j \in 1 .. Len(queue) : u[k] = queue[j]
        BY <2>1, <3>1, AppendedMembers
      <3>3. out.entries = batch
        BY <2>1
      <3> QED
        BY <1>2, <3>2, <3>3
    <2>5. Whole(<<>>)
      <3>1. Len(<<>>) = 0 /\ 1 .. 0 = {}
        OBVIOUS
      <3> QED
        BY <3>1 DEF Whole
    <2> QED
      BY <1>3, <2>2, <2>3, <2>4, <2>5, FullStays
  <1>10. CASE Execute
    <2>1. /\ req' = req /\ batch' = batch
          /\ \E k \in DOMAIN queue : queue' = [queue EXCEPT ![k].done = TRUE]
      BY <1>10 DEF Execute, schedVars, loopVars
    <2>2. PICK k \in DOMAIN queue : queue' = [queue EXCEPT ![k].done = TRUE]
      BY <2>1
    <2>3. PICK q, u, n : q = queue /\ u = queue' /\ n = Len(queue)
      OBVIOUS
    <2>4. q \in Seq(Outs) /\ n \in Nat /\ DOMAIN q = 1 .. n /\ q \in [1 .. n -> Outs]
      BY <1>1, <2>3, LenProperties
    <2>5. u \in [1 .. n -> Outs] /\ \A i \in 1 .. n : u[i].entries = q[i].entries
      BY <2>2, <2>3, <2>4, ZenonT(60) DEF Outs
    <2>6. Len(u) = n
      BY <2>4, <2>5, SeqDef, LenProperties
    <2>7. \A i \in 1 .. Len(u) : Whole(u[i].entries)
      BY <1>2, <2>3, <2>5, <2>6
    <2>8. KeepsTokens(next, rq)
      BY <1>3, <2>1 DEF KeepsTokens
    <2> QED
      BY <1>2, <1>3, <2>1, <2>3, <2>7, <2>8, FullStays
  <1> QED
    BY <1>4, <1>5, <1>6, <1>7, <1>8, <1>9, <1>10 DEF Next, Engine

\* update_from_output: a token is appended only where it fits, and what then fills the
\* model's length is finished.
LEMMA UpdateFull ==
  ASSUME SchedInv, FullInv, UpdateFromOutput
  PROVE  FullInv'
  <1>1. SchedInv /\ req \in [Requests -> Reqs] /\ queue \in Seq(Outs)
    BY DEF SchedInv, SchedType
  <1>2. queue # <<>> /\ queue' = Tail(queue) /\ batch' = batch
    BY DEF UpdateFromOutput
  <1>3. PICK S \in SUBSET Requests : \A r \in Requests : Updated(req'[r], req[r], r \in S)
    BY UpdateFromOutputKeeps DEF UpdateMade
  <1>4. PICK next, rq, qu, u : next = req' /\ rq = req /\ qu = queue /\ u = queue'
    OBVIOUS
  <1>5. ASSUME NEW r \in Requests PROVE Fills(next[r], r)
    <2>1. PICK new, rec, stop : new = next[r] /\ rec = rq[r] /\ stop = (r \in S)
      OBVIOUS
    <2>2. Updated(new, rec, stop) /\ Fills(rec, r) /\ rec \in Reqs
      BY <1>1, <1>3, <1>4, <2>1 DEF FullInv
    <2>3. CASE new = rec
      BY <2>1, <2>2, <2>3
    <2>4. CASE new # rec
      <3>1. PICK t \in Nat : /\ new.tokens = Append(rec.tokens, t)
                             /\ new.status = IF stop THEN "finished" ELSE rec.status
                             /\ ~stop => Len(new.tokens) < MaxModelLen
        BY <2>2, <2>4 DEF Updated
      <3>2. PICK toks : toks = rec.tokens /\ toks \in Seq(Nat) /\ Len(toks) \in Nat
        BY <2>2, LenProperties DEF Reqs
      <3>3. Len(new.tokens) = Len(toks) + 1
        BY <3>1, <3>2, AppendProperties
      <3>4. Len(toks) >= Len(Prompt[r]) /\ Len(Prompt[r]) \in Nat /\ MaxModelLen \in Nat
        BY <2>2, <3>2, ServingAssumption DEF Fills
      <3>5. Len(new.tokens) >= Len(Prompt[r])
        BY <3>2, <3>3, <3>4
      <3>6. new.status # "finished" => ~(Len(new.tokens) >= MaxModelLen)
        BY <3>1, <3>2, <3>3, <3>4
      <3> QED
        BY <2>1, <3>5, <3>6 DEF Fills
    <2> QED
      BY <2>3, <2>4
  <1>6. ASSUME NEW k \in 1 .. Len(u) PROVE Whole(u[k].entries)
    <2> DEFINE O == Outs
    <2>1. qu \in Seq(O) /\ qu # <<>> /\ u = Tail(qu)
      BY <1>1, <1>2, <1>4
    <2> HIDE DEF O
    <2>2. PICK n \in Nat : n = Len(qu) /\ n > 0
      BY <2>1, LenProperties, EmptySeq
    <2>3. Len(u) = n - 1 /\ \A j \in 1 .. n - 1 : u[j] = qu[j + 1]
      BY <2>1, <2>2, HeadTailProperties
    <2>4. k + 1 \in 1 .. n /\ u[k] = qu[k + 1]
      BY <2>2, <2>3
    <2> QED
      BY <1>4, <2>2, <2>4 DEF FullInv
  <1>7. (\A r \in Requests : Fills(req[r], r))'
    BY <1>4, <1>5
  <1> QED
    BY <1>2, <1>4, <1>6, <1>7 DEF FullInv

\* Every step keeps it.
LEMMA NextFull ==
  ASSUME SchedInv, FullInv, [Next]_vars
  PROVE  FullInv'
  BY StepFull, UpdateFull

-----------------------------------------------------------------------------
(* The theorems *)

\* Every step of the engine, the front end and the worker keeps the invariant.
LEMMA NextKeeps ==
  ASSUME SchedInv, FullInv, [Next]_vars
  PROVE  SchedInv'
  <1>1. CASE \E r \in Requests : AddRequest(r) \/ Abort(r)
    BY <1>1, AddRequestKeeps, AbortKeeps
  <1>2. CASE ResetCache
    BY <1>2, ResetCacheKeeps
  <1>3. CASE Engine
    BY <1>3, LoopKeeps, ScheduleRunningKeeps, PreemptKeeps, AdmitWaitingKeeps, SendKeeps,
       UpdateFromOutputKeeps DEF Engine
  <1>4. CASE Execute
    BY <1>4, ExecuteKeeps
  <1>5. CASE UNCHANGED vars
    <2>1. /\ pool' = pool /\ req' = req /\ blocks' = blocks /\ ncached' = ncached
          /\ running' = running /\ waiting' = waiting /\ finished' = finished
          /\ phase' = phase /\ idx' = idx /\ budget' = budget /\ batch' = batch /\ queue' = queue
      BY <1>5 DEF vars, schedVars, loopVars
    <2> QED
      BY <2>1 DEF SchedInv, SchedType
  <1> QED
    BY <1>1, <1>2, <1>3, <1>4, <1>5 DEF Next

\* The invariant holds in every reachable state.
THEOREM SchedInvHolds ==
  Spec => [](SchedInv /\ FullInv)
  <1>1. Init => SchedInv /\ FullInv
    BY InitSchedInv, InitFull
  <1>2. SchedInv /\ FullInv /\ [Next]_vars => SchedInv' /\ FullInv'
    BY NextKeeps, NextFull
  <1> QED
    BY <1>1, <1>2, PTL DEF Spec

\* A prefix of a sequence, taken out of it, is a prefix of it.
LEMMA PrefixIsPrefix ==
  ASSUME NEW toks \in Seq(Nat), NEW m \in Nat, m <= Len(toks)
  PROVE  IsPrefix(Prefix(toks, m), toks)
  <1>1. PICK h : h = SubSeq(toks, 1, m)
    OBVIOUS
  <1>2. h \in Seq(Nat) /\ Len(h) = m /\ \A i \in 1 .. m : h[i] = toks[i]
    BY <1>1, FrontMembers
  <1>3. PICK k : k = SubSeq(h, 1, m)
    OBVIOUS
  <1>4. k \in Seq(Nat) /\ Len(k) = m /\ \A i \in 1 .. m : k[i] = h[i]
    <2>1. m <= Len(h)
      BY <1>2
    <2> QED
      BY <1>2, <1>3, <2>1, FrontMembers
  <1>5. k = h
    BY <1>2, <1>4, SeqEqual
  <1> QED
    BY <1>1, <1>2, <1>3, <1>5 DEF IsPrefix, Prefix

\* The types follow from the invariant, with the bounds on tokens, blocks and outputs.
LEMMA InvTypes ==
  SchedInv => TypeOK
  <1> SUFFICES ASSUME SchedInv PROVE TypeOK
    OBVIOUS
  <1>1. /\ SchedType /\ InQueue(queue, phase) /\ Lengths(req, batch) /\ PoolInv(pool, blocks)
        /\ Held(pool.hash, blocks, ncached, req, batch)
    BY DEF SchedInv
  <1>2. PoolTypeOK(pool)
    <2>1. PoolType(pool)
      BY <1>1 DEF PoolInv
    <2>2. /\ pool = [ref |-> pool.ref, free |-> pool.free, hash |-> pool.hash, cached |-> pool.cached]
          /\ pool.ref \in [Blocks -> Nat] /\ pool.free \in Seq(Blocks)
          /\ pool.hash \in [Blocks -> Seq(Nat)]
          /\ \A h \in DOMAIN pool.cached : h # NoHash /\ pool.cached[h] \in Seq(Blocks)
                                          /\ pool.cached[h] # <<>>
      BY <2>1 DEF PoolType
    <2>3. DOMAIN pool = {"ref", "free", "hash", "cached"}
      BY <2>2
    <2>4. DOMAIN pool.hash = Blocks
      BY <2>2
    <2> QED
      BY <2>2, <2>3, <2>4 DEF PoolTypeOK
  <1>3. ASSUME NEW r \in Requests
        PROVE  /\ req[r].status \in Statuses
               /\ req[r].computed \in 0 .. MaxModelLen
               /\ Len(req[r].tokens) <= MaxModelLen
               /\ blocks[r] \in Seq(Blocks) /\ IsInjective(blocks[r])
               /\ ncached[r] \in {NoEntry} \cup 0 .. Len(blocks[r])
    <2>1. /\ req[r] \in Reqs /\ blocks[r] \in Seq(Blocks) /\ batch \in Seq(Entries)
      BY <1>1 DEF SchedType, Tables
    <2>2. req[r].status \in Statuses /\ req[r].computed \in Nat /\ MaxModelLen \in Nat
      BY <2>1, ServingAssumption DEF Reqs
    <2>3. PICK more \in Nat : more = AdvanceIn(batch, r)
      BY <2>1, AdvanceType
    <2>4. Bounded(req[r], more) /\ HeldBy(pool.hash, blocks[r], ncached[r], req[r], more)
      BY <1>1, <2>3 DEF Lengths, Held
    <2>5. Len(req[r].tokens) \in 1 .. MaxModelLen /\ req[r].computed + more <= Len(req[r].tokens)
      BY <2>4 DEF Bounded
    <2>6. req[r].computed \in 0 .. MaxModelLen /\ Len(req[r].tokens) <= MaxModelLen
      BY <2>2, <2>5
    <2>7. IsInjective(blocks[r]) /\ ncached[r] <= Len(blocks[r])
      BY <2>4 DEF HeldBy, Own
    <2>8. ncached[r] = NoEntry \/ ncached[r] \in Nat
      BY <2>4 DEF HeldBy
    <2>9. Len(blocks[r]) \in Nat
      BY <2>1, LenProperties
    <2>10. ncached[r] \in {NoEntry} \cup 0 .. Len(blocks[r])
      <3>1. PICK x, y : x = ncached[r] /\ y = Len(blocks[r])
        OBVIOUS
      <3>2. x \in {NoEntry} \cup 0 .. y
        BY <2>7, <2>8, <2>9, <3>1
      <3> QED
        BY <3>1, <3>2
    <2> QED
      BY <2>1, <2>2, <2>6, <2>7, <2>10
  <1>4. /\ running \in Seq(Requests) /\ waiting \in Seq(Requests)
        /\ phase \in {"input", "running", "waiting", "send", "update", "failed"}
        /\ budget \in 0 .. MaxScheduledTokens
        /\ Len(queue) <= QueueSize
    BY <1>1 DEF SchedType, InQueue
  <1> QED
    BY <1>2, <1>3, <1>4 DEF TypeOK

\* The index and the hashes of held blocks follow from the invariant.
LEMMA InvIndex ==
  SchedInv => CacheIndexAgrees
  <1> SUFFICES ASSUME SchedInv PROVE CacheIndexAgrees
    OBVIOUS
  <1>1. /\ SchedType /\ Lengths(req, batch) /\ PoolInv(pool, blocks)
        /\ Held(pool.hash, blocks, ncached, req, batch)
    BY DEF SchedInv
  <1>2. Indexed(pool.hash, pool.cached)
    BY <1>1 DEF PoolInv
  <1>3. ASSUME NEW r \in Requests, NEW i \in DOMAIN blocks[r], pool.hash[blocks[r][i]] # NoHash
        PROVE  /\ Len(pool.hash[blocks[r][i]]) = i * BlockSize
               /\ IsPrefix(pool.hash[blocks[r][i]], req[r].tokens)
    <2>1. /\ req[r] \in Reqs /\ blocks[r] \in Seq(Blocks) /\ batch \in Seq(Entries)
      BY <1>1 DEF SchedType, Tables
    <2>2. PICK more \in Nat : more = AdvanceIn(batch, r)
      BY <2>1, AdvanceType
    <2>3. Bounded(req[r], more) /\ HeldBy(pool.hash, blocks[r], ncached[r], req[r], more)
      BY <1>1, <2>2 DEF Lengths, Held
    <2>4. PICK toks, done, n : toks = req[r].tokens /\ done = req[r].computed /\ n = ncached[r]
      OBVIOUS
    <2>5. toks \in Seq(Nat) /\ done \in Nat /\ done + more <= Len(toks) /\ Len(toks) \in Nat
      BY <2>1, <2>3, <2>4, LenProperties DEF Bounded, Reqs
    <2>6. i \in 1 .. Len(blocks[r]) /\ Len(blocks[r]) \in Nat
      BY <2>1, LenProperties
    <2>7. /\ n <= Len(blocks[r])
          /\ pool.hash[blocks[r][i]] = IF i <= n THEN Prefix(toks, i * BlockSize) ELSE NoHash
      BY <2>3, <2>4, <2>6 DEF HeldBy, Own
    <2>8. i <= n /\ pool.hash[blocks[r][i]] = Prefix(toks, i * BlockSize)
      BY <1>3, <2>7
    <2>9. n \in Nat /\ Filled(n, done + more) /\ i \in Nat
      <3>1. req[r].status = "running"
        <4>1. req[r].status # "running" => blocks[r] = <<>>
          BY <2>3 DEF HeldBy
        <4>2. blocks[r] # <<>>
          BY <2>6
        <4> QED
          BY <4>1, <4>2
      <3> QED
        BY <2>3, <2>4, <2>6, <3>1 DEF HeldBy
    <2>10. i * BlockSize \in Nat /\ i * BlockSize <= Len(toks)
      <3>1. i * BlockSize \in Nat /\ i * BlockSize <= n * BlockSize /\ n * BlockSize \in Nat
        BY <2>8, <2>9, TimesOrder
      <3>2. n * BlockSize <= done + more
        BY <2>9 DEF Filled
      <3>3. PICK x, y : x = i * BlockSize /\ y = n * BlockSize
        OBVIOUS
      <3>4. x \in Nat /\ x <= Len(toks)
        BY <2>5, <3>1, <3>2, <3>3
      <3> QED
        BY <3>3, <3>4
    <2>11. Len(Prefix(toks, i * BlockSize)) = i * BlockSize
      BY <2>5, <2>9, <2>10, PrefixHash
    <2>12. IsPrefix(Prefix(toks, i * BlockSize), toks)
      BY <2>5, <2>10, PrefixIsPrefix
    <2> QED
      BY <2>4, <2>8, <2>11, <2>12
  <1> QED
    BY <1>2, <1>3 DEF CacheIndexAgrees, Indexed

\* The types hold: no request grows beyond max_model_len or is scheduled beyond its tokens,
\* the token budget and the batch queue are never exceeded, no request holds a block twice.
THEOREM TypesHold ==
  Spec => []TypeOK
  <1> QED
    BY SchedInvHolds, InvTypes, PTL

\* Reference counts and free list agree with the requests' block tables, through all of
\* touch, get_new_blocks, free_blocks, preemption, abort and update_from_output.
THEOREM RefCountsHold ==
  Spec => []RefCountsAgree
  <1>1. SchedInv => RefCountsAgree
    <2> SUFFICES ASSUME SchedInv PROVE RefCountsAgree
      OBVIOUS
    <2>1. Counted(pool.ref, blocks) /\ Listed(pool.free, blocks)
      BY DEF SchedInv, PoolInv
    <2>2. \A b : Holders(b) = HoldersIn(blocks, b)
      BY DEF Holders, HoldersIn
    <2> QED
      BY <2>1, <2>2 DEF Counted, Listed, RefCountsAgree
  <1> QED
    BY <1>1, SchedInvHolds, PTL

\* The prefix cache's index and the blocks agree, and a held block with a hash has the hash
\* of its holder's tokens up to its end (cache_full_blocks, _maybe_evict_cached_block).
THEOREM CacheIndexHolds ==
  Spec => []CacheIndexAgrees
  <1> QED
    BY SchedInvHolds, InvIndex, PTL

\* Requests are served first come first served: preemption pops the last running request
\* and prepends it, admission takes the first waiting one, and nothing overtakes.
THEOREM ArrivalOrderHolds ==
  Spec => []ArrivalOrder
  <1>1. SchedInv => ArrivalOrder
    BY LineOrder DEF SchedInv, SchedType
  <1> QED
    BY <1>1, SchedInvHolds, PTL

-----------------------------------------------------------------------------
(* The tables and the cache after the worker ran the entries es *)

\* TableAfter and the cache after Execute, from any tables t and cache m.
TableOf(t, es, fin) ==
  LET Of(r) == {e \in ToSet(es) : e.r = r}
      After(r, e) == IF e.kind = "running" THEN t[r] \o e.ids ELSE e.ids
  IN  [r \in Requests |-> IF Of(r) # {} THEN After(r, CHOOSE e \in Of(r) : TRUE)
                          ELSE IF r \in fin THEN <<>> ELSE t[r]]

WritesTo(T, es, s) ==
  {x \in ToSet(es) \X (0 .. MaxModelLen - 1) :
     /\ x[2] \in x[1].start .. x[1].start + x[1].n - 1
     /\ Slot(T[x[1].r], x[2]) = s}

CacheOf(T, m, es) ==
  [s \in Slots |-> IF WritesTo(T, es, s) = {} THEN m[s]
                   ELSE LET w == CHOOSE x \in WritesTo(T, es, s) : TRUE
                        IN  Prefix(w[1].tokens, w[2] + 1)]

\* A request that is scheduled gets the blocks its entry has for it.
LEMMA TableOfEntry ==
  ASSUME NEW t, NEW fin, NEW es \in Seq(Entries), Distinct(es), NEW i \in 1 .. Len(es)
  PROVE  TableOf(t, es, fin)[es[i].r]
           = IF es[i].kind = "running" THEN t[es[i].r] \o es[i].ids ELSE es[i].ids
  <1>1. PICK r, e : r = es[i].r /\ e = es[i]
    OBVIOUS
  <1> DEFINE E == Entries
             Of == {x \in ToSet(es) : x.r = r}
             c == CHOOSE x \in Of : TRUE
  <1>2. e \in Entries /\ e \in ToSet(es) /\ \A x : x \in ToSet(es) <=> \E j \in 1 .. Len(es) : es[j] = x
    <2>1. es \in Seq(E)
      OBVIOUS
    <2> HIDE DEF E
    <2>2. e \in E /\ e \in ToSet(es) /\ \A x : x \in ToSet(es) <=> \E j \in 1 .. Len(es) : es[j] = x
      BY <1>1, <2>1, Members
    <2> QED
      BY <2>2 DEF E
  <1>3. r \in Requests
    BY <1>1, <1>2 DEF Entries
  <1>4. ASSUME NEW x \in Of PROVE x = e
    <2>1. PICK j \in 1 .. Len(es) : es[j] = x
      BY <1>2
    <2>2. es[j].r = es[i].r
      BY <1>1, <2>1
    <2>3. j = i
      BY <2>2 DEF Distinct
    <2> QED
      BY <1>1, <2>1, <2>3
  <1>5. e \in Of /\ Of # {}
    BY <1>1, <1>2
  <1>6. c \in Of
    BY <1>5
  <1>7. c = e
    BY <1>4, <1>6
  <1>8. TableOf(t, es, fin)[r] = IF Of # {} THEN IF c.kind = "running" THEN t[r] \o c.ids ELSE c.ids
                                 ELSE IF r \in fin THEN <<>> ELSE t[r]
    BY <1>3, Zenon DEF TableOf
  <1> HIDE DEF Of, c
  <1>9. TableOf(t, es, fin)[r] = IF e.kind = "running" THEN t[r] \o e.ids ELSE e.ids
    BY <1>5, <1>7, <1>8
  <1> QED
    BY <1>1, <1>9

\* One that is not keeps its table, unless it has finished.
LEMMA TableOfOther ==
  ASSUME NEW t, NEW fin, NEW es \in Seq(Entries), NEW r \in Requests, \A i \in 1 .. Len(es) : es[i].r # r
  PROVE  TableOf(t, es, fin)[r] = IF r \in fin THEN <<>> ELSE t[r]
  <1> DEFINE Of == {x \in ToSet(es) : x.r = r}
             c == CHOOSE x \in Of : TRUE
  <1>1. \A x : x \in ToSet(es) <=> \E j \in 1 .. Len(es) : es[j] = x
    BY Members, Zenon
  <1>2. Of = {}
    BY <1>1
  <1>3. TableOf(t, es, fin)[r] = IF Of # {} THEN IF c.kind = "running" THEN t[r] \o c.ids ELSE c.ids
                                 ELSE IF r \in fin THEN <<>> ELSE t[r]
    BY Zenon DEF TableOf
  <1> HIDE DEF Of, c
  <1> QED
    BY <1>2, <1>3

\* What is written where.
LEMMA WritesMembers ==
  ASSUME NEW T, NEW es, NEW s, NEW x
  PROVE  x \in WritesTo(T, es, s)
           <=> \E e \in ToSet(es) : \E p \in 0 .. MaxModelLen - 1 :
                 /\ x = <<e, p>>
                 /\ p \in e.start .. e.start + e.n - 1
                 /\ Slot(T[e.r], p) = s
  BY DEF WritesTo

\* T2 and K2 are the tables and the cache after the batch b2, the batch bt with e on top,
\* T and K those after bt.
Grows(T, K, T2, K2, m, bt, b2, e) ==
  /\ K = CacheOf(T, m, bt) /\ K2 = CacheOf(T2, m, b2)
  /\ b2 = Append(bt, e)
  /\ \A q \in Requests : q # e.r => T2[q] = T[q]
  /\ \A i \in 1 .. Len(bt) : bt[i].r # e.r

\* The positions that an entry writes.
Span(e) == e.start .. e.start + e.n - 1

\* The members of a batch.
LEMMA BatchMembers ==
  ASSUME NEW bt \in Seq(Entries), NEW e \in Entries
  PROVE  /\ ToSet(Append(bt, e)) = ToSet(bt) \cup {e}
         /\ \A x : x \in ToSet(bt) <=> \E i \in 1 .. Len(bt) : bt[i] = x
         /\ ToSet(bt) \subseteq Entries
  <1> DEFINE E == Entries
             u == Append(bt, e)
  <1>1. bt \in Seq(E) /\ e \in E
    OBVIOUS
  <1> HIDE DEF E
  <1>2. u \in Seq(E) /\ Len(u) = Len(bt) + 1 /\ u[Len(bt) + 1] = e /\ Len(bt) \in Nat
        /\ \A i \in 1 .. Len(bt) : u[i] = bt[i]
    BY <1>1, AppendProperties, LenProperties
  <1> HIDE DEF u
  <1>3. /\ \A x : x \in ToSet(bt) <=> \E i \in 1 .. Len(bt) : bt[i] = x
        /\ ToSet(bt) \subseteq E
    BY <1>1, Members
  <1>4. \A x : x \in ToSet(u) <=> \E i \in 1 .. Len(u) : u[i] = x
    BY <1>2, Members
  <1>5. ASSUME NEW x PROVE x \in ToSet(u) <=> x \in ToSet(bt) \cup {e}
    <2>1. ASSUME NEW i \in 1 .. Len(u), u[i] = x PROVE x \in ToSet(bt) \cup {e}
      <3>1. CASE i = Len(bt) + 1
        BY <1>2, <2>1, <3>1
      <3>2. CASE i # Len(bt) + 1
        <4>1. i \in 1 .. Len(bt)
          BY <1>2, <3>2
        <4> QED
          BY <1>2, <1>3, <2>1, <4>1
      <3> QED
        BY <3>1, <3>2
    <2>2. ASSUME NEW i \in 1 .. Len(bt), bt[i] = x PROVE x \in ToSet(u)
      <3>1. i \in 1 .. Len(u) /\ u[i] = x
        BY <1>2, <2>2
      <3> QED
        BY <1>4, <3>1
    <2>3. e \in ToSet(u)
      <3>1. Len(bt) + 1 \in 1 .. Len(u) /\ u[Len(bt) + 1] = e
        BY <1>2
      <3> QED
        BY <1>4, <3>1
    <2> QED
      BY <1>3, <1>4, <2>1, <2>2, <2>3
  <1>6. ToSet(u) = ToSet(bt) \cup {e}
    BY <1>5
  <1> QED
    BY <1>3, <1>6 DEF u, E

\* A slot that the new entry does not write keeps what it has.
LEMMA CacheKept ==
  ASSUME NEW T, NEW K, NEW T2, NEW K2, NEW m, NEW bt \in Seq(Entries), NEW b2, NEW e \in Entries,
         Grows(T, K, T2, K2, m, bt, b2, e),
         NEW s \in Slots, \A p \in Span(e) : Slot(T2[e.r], p) # s
  PROVE  K2[s] = K[s]
  <1>1. /\ K = CacheOf(T, m, bt) /\ K2 = CacheOf(T2, m, b2)
        /\ b2 = Append(bt, e)
        /\ \A q \in Requests : q # e.r => T2[q] = T[q]
        /\ \A i \in 1 .. Len(bt) : bt[i].r # e.r
    BY DEF Grows
  <1>2. /\ ToSet(b2) = ToSet(bt) \cup {e} /\ ToSet(bt) \subseteq Entries
        /\ \A x : x \in ToSet(bt) <=> \E i \in 1 .. Len(bt) : bt[i] = x
    BY <1>1, BatchMembers
  <1>3. \A y \in ToSet(bt) : y.r \in Requests /\ y.r # e.r
    <2>1. \A y \in Entries : y.r \in Requests
      BY DEF Entries
    <2> QED
      BY <1>1, <1>2, <2>1
  <1>4. \A y \in ToSet(bt) : T2[y.r] = T[y.r]
    BY <1>1, <1>3
  <1> DEFINE A == WritesTo(T, bt, s)
             B == WritesTo(T2, b2, s)
  <1>5. ASSUME NEW x PROVE x \in A <=> x \in B
    <2>1. ASSUME x \in A PROVE x \in B
      <3>1. PICK y \in ToSet(bt), p \in 0 .. MaxModelLen - 1 :
               x = <<y, p>> /\ p \in y.start .. y.start + y.n - 1 /\ Slot(T[y.r], p) = s
        BY <2>1, WritesMembers
      <3>2. y \in ToSet(b2) /\ Slot(T2[y.r], p) = s
        BY <1>2, <1>4, <3>1
      <3> QED
        BY <3>1, <3>2, WritesMembers
    <2>2. ASSUME x \in B PROVE x \in A
      <3>1. PICK y \in ToSet(b2), p \in 0 .. MaxModelLen - 1 :
               x = <<y, p>> /\ p \in y.start .. y.start + y.n - 1 /\ Slot(T2[y.r], p) = s
        BY <2>2, WritesMembers
      <3>2. y # e
        BY <3>1 DEF Span
      <3>3. y \in ToSet(bt) /\ Slot(T[y.r], p) = s
        BY <1>2, <1>4, <3>1, <3>2
      <3> QED
        BY <3>1, <3>3, WritesMembers
    <2> QED
      BY <2>1, <2>2
  <1>6. A = B
    BY <1>5
  <1> HIDE DEF A, B
  <1>7. CacheOf(T, m, bt)[s] = IF A = {} THEN m[s]
                               ELSE LET w == CHOOSE x \in A : TRUE IN Prefix(w[1].tokens, w[2] + 1)
    BY Zenon DEF CacheOf, A
  <1>8. CacheOf(T2, m, b2)[s] = IF B = {} THEN m[s]
                                ELSE LET w == CHOOSE x \in B : TRUE IN Prefix(w[1].tokens, w[2] + 1)
    BY Zenon DEF CacheOf, B
  <1> QED
    BY <1>1, <1>6, <1>7, <1>8

\* A slot that one entry writes, and only for one position, has what belongs there.
LEMMA CacheSet ==
  ASSUME NEW T, NEW m, NEW es, NEW e \in ToSet(es), NEW p \in Span(e), p \in 0 .. MaxModelLen - 1,
         NEW s \in Slots, Slot(T[e.r], p) = s,
         \A x \in ToSet(es) : \A q \in Span(x) : Slot(T[x.r], q) = s => x = e /\ q = p
  PROVE  CacheOf(T, m, es)[s] = Prefix(e.tokens, p + 1)
  <1> DEFINE B == WritesTo(T, es, s)
             w == CHOOSE x \in B : TRUE
  <1>1. <<e, p>> \in B
    BY WritesMembers DEF Span
  <1>2. ASSUME NEW x \in B PROVE x = <<e, p>>
    <2>1. PICK y \in ToSet(es), q \in 0 .. MaxModelLen - 1 :
             x = <<y, q>> /\ q \in y.start .. y.start + y.n - 1 /\ Slot(T[y.r], q) = s
      BY <1>2, WritesMembers
    <2> QED
      BY <2>1 DEF Span
  <1>3. w \in B
    BY <1>1
  <1>4. w = <<e, p>>
    BY <1>2, <1>3
  <1>5. CacheOf(T, m, es)[s] = IF B = {} THEN m[s] ELSE Prefix(w[1].tokens, w[2] + 1)
    BY Zenon DEF CacheOf
  <1> HIDE DEF B, w
  <1> QED
    BY <1>1, <1>4, <1>5

\* Without entries only finished requests lose their tables.
LEMMA NothingRuns ==
  ASSUME NEW t, NEW fin, NEW m, NEW T
  PROVE  /\ \A r \in Requests : r \notin fin => TableOf(t, <<>>, fin)[r] = t[r]
         /\ \A s \in Slots : CacheOf(T, m, <<>>)[s] = m[s]
  <1>1. <<>> \in Seq(Entries) /\ Len(<<>>) = 0 /\ ToSet(<<>>) = {}
    BY NoMembers
  <1>2. ASSUME NEW r \in Requests, r \notin fin PROVE TableOf(t, <<>>, fin)[r] = t[r]
    <2>1. \A i \in 1 .. Len(<<>>) : <<>>[i].r # r
      <3>1. 1 .. Len(<<>>) = {}
        OBVIOUS
      <3> QED
        BY <3>1, Zenon
    <2>2. PICK es : es = <<>>
      OBVIOUS
    <2>3. es \in Seq(Entries) /\ \A i \in 1 .. Len(es) : es[i].r # r
      BY <1>1, <2>1, <2>2, Zenon
    <2>4. TableOf(t, es, fin)[r] = IF r \in fin THEN <<>> ELSE t[r]
      BY <2>3, TableOfOther
    <2>5. TableOf(t, es, fin)[r] = t[r]
      BY <1>2, <2>4
    <2> QED
      BY <2>2, <2>5
  <1>3. ASSUME NEW s \in Slots PROVE CacheOf(T, m, <<>>)[s] = m[s]
    <2> DEFINE B == WritesTo(T, <<>>, s)
    <2>1. B = {}
      BY <1>1, WritesMembers
    <2>2. CacheOf(T, m, <<>>)[s] = IF B = {} THEN m[s]
                                 ELSE LET w == CHOOSE x \in B : TRUE IN Prefix(w[1].tokens, w[2] + 1)
      BY Zenon DEF CacheOf
    <2> HIDE DEF B
    <2> QED
      BY <2>1, <2>2
  <1> QED
    BY <1>2, <1>3

\* The scheduler's books describe the tables T and the cache K: those the worker will have
\* once it has run all it was sent and the batch bt.
DescribedFor(T, K, bl, rq, bt, r) ==
  /\ T[r] = bl[r]
  /\ Written(K, bl[r], rq[r].computed + AdvanceIn(bt, r), rq[r].tokens)

Described(T, K, bl, rq, bt) ==
  \A r \in Requests : rq[r].status = "running" => DescribedFor(T, K, bl, rq, bt, r)

Hashed(K, hash) == \A b \in Blocks : hash[b] # NoHash => HashWritten(K, b, hash[b])

\* Running requests have blocks for all their tokens.
Reaching(bl, rq, bt) ==
  \A r \in Requests : rq[r].status = "running" => Reaches(bl[r], rq[r].computed + AdvanceIn(bt, r))

\* An entry is about the tokens its request has, from the first one not computed.
EntryFits(e, rq, bt) ==
  /\ rq[e.r].status = "running"
  /\ e.tokens = rq[e.r].tokens
  /\ e.start = rq[e.r].computed
  /\ e.n = AdvanceIn(bt, e.r)

EntriesFit(bt, rq) == \A i \in 1 .. Len(bt) : EntryFits(bt[i], rq, bt)

\* Request e.r gets the table tb, in which what e writes is in blocks of its own.
Fresh(tb, bl, e) ==
  /\ tb \in Seq(Blocks) /\ IsInjective(tb)
  /\ Reaches(tb, e.start + e.n)
  /\ \A p \in Span(e) : \A q \in Requests \ {e.r} : tb[Page(p)] \notin ToSet(bl[q])

\* Two positions of a table without repetition are in different slots.
LEMMA OneSlot ==
  ASSUME NEW tb \in Seq(Blocks), IsInjective(tb), NEW i \in Nat, NEW j \in Nat,
         Page(i) \in 1 .. Len(tb), Page(j) \in 1 .. Len(tb), Slot(tb, i) = Slot(tb, j)
  PROVE  i = j
  <1>1. /\ Slot(tb, i) = <<tb[Page(i)], Offset(i)>> /\ Slot(tb, j) = <<tb[Page(j)], Offset(j)>>
    BY Positions
  <1>0. tb[Page(i)] = tb[Page(j)] /\ Offset(i) = Offset(j)
    <2>1. \A a, b, c, d : <<a, b>> = <<c, d>> => a = c /\ b = d
      OBVIOUS
    <2>2. <<tb[Page(i)], Offset(i)>> = <<tb[Page(j)], Offset(j)>>
      BY <1>1, Zenon
    <2> QED
      BY <2>1, <2>2, Zenon
  <1>2. Page(i) = Page(j)
    <2>1. \A a, b \in 1 .. Len(tb) : tb[a] = tb[b] => a = b
      BY Injective
    <2> QED
      BY <1>0, <2>1
  <1>3. Offset(i) = Offset(j)
    BY <1>0
  <1> QED
    BY <1>2, <1>3, OnePosition

\* What the new entry writes is nowhere in another request's table, as far as it reaches.
LEMMA WritesApart ==
  ASSUME NEW tb, NEW bl \in Tables, NEW e \in Entries, Fresh(tb, bl, e),
         NEW q \in Requests, q # e.r, NEW m \in Nat, Reaches(bl[q], m),
         NEW i \in 0 .. m - 1, NEW p \in Span(e)
  PROVE  Slot(tb, p) # Slot(bl[q], i)
  <1>1. i \in Nat /\ p \in Nat
    <2>1. e.start \in Nat /\ e.n \in Nat
      BY DEF Entries
    <2> QED
      BY <2>1 DEF Span
  <1>2. /\ Slot(tb, p) = <<tb[Page(p)], Offset(p)>> /\ Slot(bl[q], i) = <<bl[q][Page(i)], Offset(i)>>
    BY <1>1, Positions
  <1>3. bl[q][Page(i)] \in ToSet(bl[q])
    <2>1. Page(i) \in 1 .. Len(bl[q]) /\ bl[q] \in Seq(Blocks)
      BY DEF Reaches, Tables
    <2> QED
      BY <2>1, Members
  <1>4. tb[Page(p)] \notin ToSet(bl[q])
    BY DEF Fresh
  <1> QED
    BY <1>2, <1>3, <1>4

\* The request that is scheduled finds all its tokens.
LEMMA OwnWritten ==
  ASSUME NEW T, NEW K, NEW T2, NEW K2, NEW m, NEW bt \in Seq(Entries), NEW b2, NEW e \in Entries,
         NEW bl \in Tables, NEW rq \in [Requests -> Reqs],
         Grows(T, K, T2, K2, m, bt, b2, e), Described(T, K, bl, rq, bt),
         EntriesFit(bt, rq), Reaching(bl, rq, bt), Fresh(T2[e.r], bl, e),
         e.start + e.n <= MaxModelLen, Written(K, T2[e.r], e.start, e.tokens)
  PROVE  Written(K2, T2[e.r], e.start + e.n, e.tokens)
  <1>1. /\ K2 = CacheOf(T2, m, b2) /\ b2 = Append(bt, e)
        /\ \A q \in Requests : q # e.r => T2[q] = T[q]
        /\ \A i \in 1 .. Len(bt) : bt[i].r # e.r
    BY DEF Grows
  <1>2. /\ ToSet(b2) = ToSet(bt) \cup {e} /\ ToSet(bt) \subseteq Entries
        /\ \A x : x \in ToSet(bt) <=> \E i \in 1 .. Len(bt) : bt[i] = x
    BY <1>1, BatchMembers
  <1>3. PICK tb : tb = T2[e.r]
    OBVIOUS
  <1>4. PICK a, n \in Nat : a = e.start /\ n = e.n
    BY DEF Entries
  <1>5. /\ tb \in Seq(Blocks) /\ IsInjective(tb) /\ \A i \in 0 .. a + n - 1 : Page(i) \in 1 .. Len(tb)
    BY <1>3, <1>4 DEF Fresh, Reaches
  <1>6. Span(e) = a .. a + n - 1
    BY <1>4 DEF Span
  <1>7. MaxModelLen \in Nat
    BY ServingAssumption
  <1>8. ASSUME NEW i \in 0 .. a + n - 1 PROVE K2[Slot(tb, i)] = Prefix(e.tokens, i + 1)
    <2>1. i \in Nat /\ Page(i) \in 1 .. Len(tb)
      BY <1>4, <1>5
    <2>2. Slot(tb, i) \in Slots
      BY <1>5, <2>1, SlotOfTable
    <2>3. ASSUME NEW p \in Span(e), Slot(tb, p) = Slot(tb, i) PROVE p = i
      <3>1. p \in Nat /\ Page(p) \in 1 .. Len(tb)
        BY <1>4, <1>5, <1>6
      <3> QED
        BY <1>5, <2>1, <2>3, <3>1, OneSlot
    <2>4. CASE i < a
      <3>1. \A p \in Span(e) : Slot(T2[e.r], p) # Slot(tb, i)
        BY <1>3, <1>4, <1>6, <2>3, <2>4
      <3>2. K2[Slot(tb, i)] = K[Slot(tb, i)]
        BY <2>2, <3>1, CacheKept
      <3>3. i \in 0 .. a - 1
        BY <1>4, <2>1, <2>4
      <3>4. K[Slot(tb, i)] = Prefix(e.tokens, i + 1)
        BY <1>3, <1>4, <3>3 DEF Written
      <3> QED
        BY <3>2, <3>4
    <2>5. CASE a <= i
      <3>1. i \in Span(e) /\ i \in 0 .. MaxModelLen - 1 /\ e \in ToSet(b2)
        BY <1>2, <1>4, <1>6, <1>7, <2>5
      <3>2. ASSUME NEW x \in ToSet(bt), NEW q \in Span(x) PROVE Slot(T2[x.r], q) # Slot(tb, i)
        <4>1. PICK k \in 1 .. Len(bt) : bt[k] = x
          BY <1>2
        <4>2. /\ x \in Entries /\ x.r # e.r /\ EntryFits(x, rq, bt)
          BY <1>1, <1>2, <4>1 DEF EntriesFit
        <4>3. x.r \in Requests /\ x.start \in Nat /\ x.n \in Nat
          BY <4>2 DEF Entries
        <4>4. /\ rq[x.r].status = "running" /\ rq[x.r].computed + AdvanceIn(bt, x.r) = x.start + x.n
          BY <4>2 DEF EntryFits
        <4>5. T2[x.r] = bl[x.r]
          BY <1>1, <4>2, <4>3, <4>4 DEF Described, DescribedFor
        <4>6. PICK w \in Nat : w = x.start + x.n
          BY <4>3
        <4>7. Reaches(bl[x.r], w)
          BY <4>3, <4>4, <4>6 DEF Reaching
        <4>8. q \in 0 .. w - 1
          BY <4>3, <4>6 DEF Span
        <4>9. Fresh(tb, bl, e)
          BY <1>3
        <4>10. Slot(tb, i) # Slot(bl[x.r], q)
          BY <3>1, <4>2, <4>3, <4>7, <4>8, <4>9, WritesApart
        <4> QED
          BY <4>5, <4>10
      <3>3. \A x \in ToSet(b2) : \A q \in Span(x) : Slot(T2[x.r], q) = Slot(tb, i) => x = e /\ q = i
        BY <1>2, <1>3, <2>3, <3>2
      <3>4. CacheOf(T2, m, b2)[Slot(tb, i)] = Prefix(e.tokens, i + 1)
        <4>1. PICK s : s = Slot(tb, i)
          OBVIOUS
        <4>2. s \in Slots /\ Slot(T2[e.r], i) = s
          BY <1>3, <2>2, <4>1
        <4>3. \A x \in ToSet(b2) : \A q \in Span(x) : Slot(T2[x.r], q) = s => x = e /\ q = i
          BY <3>3, <4>1
        <4>4. CacheOf(T2, m, b2)[s] = Prefix(e.tokens, i + 1)
          BY <3>1, <4>2, <4>3, CacheSet
        <4> QED
          BY <4>1, <4>4
      <3> QED
        BY <1>1, <3>4
    <2> QED
      BY <1>4, <2>1, <2>4, <2>5
  <1> QED
    BY <1>3, <1>4, <1>8 DEF Written

\* The other requests still find theirs.
LEMMA OthersWritten ==
  ASSUME NEW T, NEW K, NEW T2, NEW K2, NEW m, NEW bt \in Seq(Entries), NEW b2, NEW e \in Entries,
         NEW bl \in Tables, NEW rq \in [Requests -> Reqs],
         Grows(T, K, T2, K2, m, bt, b2, e), Described(T, K, bl, rq, bt), Reaching(bl, rq, bt),
         Fresh(T2[e.r], bl, e), NEW q \in Requests, q # e.r, rq[q].status = "running"
  PROVE  DescribedFor(T2, K2, bl, rq, bt, q)
  <1>1. /\ T2[q] = T[q] /\ T[q] = bl[q]
        /\ Written(K, bl[q], rq[q].computed + AdvanceIn(bt, q), rq[q].tokens)
        /\ Reaches(bl[q], rq[q].computed + AdvanceIn(bt, q))
    BY DEF Grows, Described, DescribedFor, Reaching
  <1>2. PICK w \in Nat : w = rq[q].computed + AdvanceIn(bt, q)
    <2>1. rq[q].computed \in Nat
      BY DEF Reqs
    <2>2. AdvanceIn(bt, q) \in Nat
      BY AdvanceType
    <2> QED
      BY <2>1, <2>2
  <1>3. bl[q] \in Seq(Blocks)
    BY DEF Tables
  <1>4. ASSUME NEW i \in 0 .. w - 1 PROVE K2[Slot(bl[q], i)] = Prefix(rq[q].tokens, i + 1)
    <2>1. i \in Nat /\ Page(i) \in 1 .. Len(bl[q])
      BY <1>1, <1>2 DEF Reaches
    <2>2. Slot(bl[q], i) \in Slots
      BY <1>3, <2>1, SlotOfTable
    <2>3. Reaches(bl[q], w)
      BY <1>1, <1>2
    <2>4. \A p \in Span(e) : Slot(T2[e.r], p) # Slot(bl[q], i)
      BY <2>3, WritesApart
    <2>5. K2[Slot(bl[q], i)] = K[Slot(bl[q], i)]
      BY <2>2, <2>4, CacheKept
    <2>6. K[Slot(bl[q], i)] = Prefix(rq[q].tokens, i + 1)
      BY <1>1, <1>2 DEF Written
    <2> QED
      BY <2>5, <2>6
  <1> QED
    BY <1>1, <1>2, <1>4 DEF Written, DescribedFor

\* The hashes after a request got the table tb and hashes for its first c blocks, which m
\* tokens fill.
Renamed(hash2, hash, tb, c, m, toks) ==
  /\ Own(hash2, tb, c, toks)
  /\ Filled(c, m)
  /\ \A b \in Blocks \ ToSet(tb) : hash2[b] = hash[b]

\* The cached blocks have what their hashes stand for, those of the new entry included:
\* they will be full once it has run.
LEMMA HashesWritten ==
  ASSUME NEW T, NEW K, NEW T2, NEW K2, NEW m, NEW bt \in Seq(Entries), NEW b2, NEW e \in Entries,
         NEW bl \in Tables, NEW hash, NEW hash2, NEW c \in Nat,
         Grows(T, K, T2, K2, m, bt, b2, e), Hashed(K, hash), Fresh(T2[e.r], bl, e),
         Renamed(hash2, hash, T2[e.r], c, e.start + e.n, e.tokens), e.start + e.n <= Len(e.tokens),
         Written(K2, T2[e.r], e.start + e.n, e.tokens)
  PROVE  Hashed(K2, hash2)
  <1>1. PICK tb, toks : tb = T2[e.r] /\ toks = e.tokens
    OBVIOUS
  <1>2. toks \in Seq(Nat) /\ Len(toks) \in Nat
    BY <1>1, LenProperties DEF Entries
  <1>3. PICK w \in Nat : w = e.start + e.n
    BY DEF Entries
  <1>4. tb \in Seq(Blocks) /\ Reaches(tb, w)
    BY <1>1, <1>3 DEF Fresh
  <1>5. /\ Own(hash2, tb, c, toks) /\ Filled(c, w)
        /\ \A b \in Blocks \ ToSet(tb) : hash2[b] = hash[b]
    BY <1>1, <1>3 DEF Renamed
  <1>6. c * BlockSize \in Nat /\ c * BlockSize <= w
    BY <1>5, TimesOrder DEF Filled
  <1>7. ASSUME NEW b \in Blocks, hash2[b] # NoHash PROVE HashWritten(K2, b, hash2[b])
    <2>1. CASE b \in ToSet(tb)
      <3>1. PICK k \in 1 .. Len(tb) : tb[k] = b
        BY <1>4, <2>1, Members
      <3>2. k \in Nat \ {0} /\ k <= c /\ hash2[b] = Prefix(toks, k * BlockSize)
        BY <1>5, <1>7, <3>1 DEF Own
      <3>3. PICK h : h = hash2[b]
        OBVIOUS
      <3>4. ASSUME NEW o \in 1 .. BlockSize
            PROVE  K2[<<b, o>>] = Prefix(h, (Len(h) - BlockSize) + o)
        <4>1. PICK i \in Nat : Page(i) = k /\ Offset(i) = o
          BY <3>2, PositionAt
        <4>2. ~Filled(c, i) /\ Slot(tb, i) = <<b, o>>
          BY <3>1, <3>2, <4>1, Positions
        <4>3. i \in 0 .. w - 1
          <5>1. ~(c * BlockSize <= i)
            BY <4>2 DEF Filled
          <5>2. i < w
            BY <1>6, <5>1
          <5> QED
            BY <5>2
        <4>4. K2[Slot(tb, i)] = Prefix(toks, i + 1)
          BY <1>1, <1>3, <4>3 DEF Written
        <4>5. Filled(Page(i), Len(toks))
          <5>1. k * BlockSize <= c * BlockSize /\ k * BlockSize \in Nat
            BY <3>2, TimesOrder
          <5>2. w <= Len(toks)
            BY <1>1, <1>3
          <5>3. k * BlockSize <= Len(toks)
            BY <1>2, <1>6, <5>1, <5>2
          <5> QED
            BY <4>1, <5>3 DEF Filled
        <4>6. Prefix(h, (Len(h) - BlockSize) + Offset(i)) = Prefix(toks, i + 1)
          <5>1. h = Prefix(toks, Page(i) * BlockSize)
            BY <3>2, <3>3, <4>1
          <5> QED
            BY <1>2, <4>5, <5>1, HashPrefix
        <4> QED
          BY <4>1, <4>2, <4>4, <4>6
      <3> QED
        BY <3>3, <3>4 DEF HashWritten
    <2>2. CASE b \notin ToSet(tb)
      <3>1. hash2[b] = hash[b] /\ HashWritten(K, b, hash2[b])
        BY <1>5, <1>7, <2>2 DEF Hashed
      <3>2. ASSUME NEW o \in 1 .. BlockSize PROVE K2[<<b, o>>] = K[<<b, o>>]
        <4>1. <<b, o>> \in Slots
          BY DEF Slots
        <4>2. ASSUME NEW p \in Span(e) PROVE Slot(tb, p) # <<b, o>>
          <5>1. p \in 0 .. w - 1 /\ p \in Nat
            <6>1. e.start \in Nat /\ e.n \in Nat
              BY DEF Entries
            <6> QED
              BY <1>3, <6>1, SMTT(30) DEF Span
          <5>2. tb[Page(p)] \in ToSet(tb)
            BY <1>4, <5>1, Members DEF Reaches
          <5>3. Slot(tb, p) = <<tb[Page(p)], Offset(p)>>
            BY <5>1, Positions
          <5> QED
            BY <2>2, <5>2, <5>3
        <4>3. PICK s : s = <<b, o>>
          OBVIOUS
        <4>4. s \in Slots /\ \A p \in Span(e) : Slot(T2[e.r], p) # s
          BY <1>1, <4>1, <4>2, <4>3, Zenon
        <4>5. K2[s] = K[s]
          BY <4>4, CacheKept
        <4> QED
          BY <4>3, <4>5, Zenon
      <3> QED
        BY <3>1, <3>2 DEF HashWritten
    <2> QED
      BY <2>1, <2>2
  <1> QED
    BY <1>7 DEF Hashed

\* The books with the entry e describe T2 and K2; so do the tokens of e itself.
DescribedWith(T2, K2, f, next, b2, e) ==
  /\ Described(T2, K2, f, next, b2)
  /\ Reaching(f, next, b2)
  /\ Written(K2, T2[e.r], e.start + e.n, e.tokens)

\* f is the tables bl but for request r.
Replaces(f, bl, r) == \A q \in Requests : q # r => f[q] = bl[q]

\* One more entry: tables and cache after it are what the books after it describe.
LEMMA EntryDescribed ==
  ASSUME NEW T, NEW K, NEW T2, NEW K2, NEW m, NEW bt \in Seq(Entries), NEW b2, NEW e \in Entries,
         NEW bl \in Tables, NEW rq \in [Requests -> Reqs], NEW f, NEW next,
         Grows(T, K, T2, K2, m, bt, b2, e), Described(T, K, bl, rq, bt),
         EntriesFit(bt, rq), Reaching(bl, rq, bt), Fresh(T2[e.r], bl, e),
         e.start + e.n <= MaxModelLen, Written(K, T2[e.r], e.start, e.tokens),
         T2[e.r] = f[e.r], Replaces(f, bl, e.r),
         Advanced(next, rq, b2, bt, e.r, e.start + e.n), e.tokens = rq[e.r].tokens
  PROVE  DescribedWith(T2, K2, f, next, b2, e)
  <1>0. PICK r : r = e.r /\ T2[r] = f[r] /\ \A q \in Requests : q # r => f[q] = bl[q]
    BY DEF Replaces
  <1>1. Written(K2, T2[r], e.start + e.n, e.tokens)
    <2>1. Written(K2, T2[e.r], e.start + e.n, e.tokens)
      BY OwnWritten
    <2> QED
      BY <1>0, <2>1
  <1>2. /\ \A q \in Requests : q # r => next[q] = rq[q] /\ AdvanceIn(b2, q) = AdvanceIn(bt, q)
        /\ next[r].tokens = rq[r].tokens /\ next[r].computed + AdvanceIn(b2, r) = e.start + e.n
    BY <1>0 DEF Advanced
  <1>3. ASSUME NEW q \in Requests, next[q].status = "running"
        PROVE  /\ T2[q] = f[q]
               /\ Written(K2, f[q], next[q].computed + AdvanceIn(b2, q), next[q].tokens)
               /\ Reaches(f[q], next[q].computed + AdvanceIn(b2, q))
    <2>1. CASE q = r
      <3>1. Reaches(f[r], e.start + e.n)
        BY <1>0 DEF Fresh
      <3> QED
        BY <1>0, <1>1, <1>2, <2>1, <3>1
    <2>2. CASE q # r
      <3>1. rq[q].status = "running" /\ f[q] = bl[q] /\ next[q] = rq[q]
            /\ AdvanceIn(b2, q) = AdvanceIn(bt, q)
        BY <1>0, <1>2, <1>3, <2>2
      <3>2. DescribedFor(T2, K2, bl, rq, bt, q)
        <4>1. q # e.r /\ Fresh(T2[e.r], bl, e) /\ rq[q].status = "running"
          BY <1>0, <2>2, <3>1, Zenon
        <4> QED
          BY <4>1, OthersWritten, Zenon
      <3>3. Reaches(bl[q], rq[q].computed + AdvanceIn(bt, q))
        BY <3>1 DEF Reaching
      <3> QED
        BY <3>1, <3>2, <3>3 DEF DescribedFor
    <2> QED
      BY <2>1, <2>2
  <1> QED
    BY <1>0, <1>1, <1>3 DEF Described, DescribedFor, Reaching, DescribedWith

\* One more entry changes the table of its own request only.
LEMMA TableGrows ==
  ASSUME NEW t, NEW fin, NEW bt \in Seq(Entries), NEW b2, NEW e \in Entries, Extended(b2, bt, e),
         \A i \in 1 .. Len(bt) : bt[i].r # e.r
  PROVE  /\ \A q \in Requests : q # e.r => TableOf(t, b2, fin)[q] = TableOf(t, bt, fin)[q]
         /\ TableOf(t, b2, fin)[e.r] = IF e.kind = "running" THEN t[e.r] \o e.ids ELSE e.ids
  <1>1. PICK n \in Nat : n = Len(bt)
    BY LenProperties
  <1>2. /\ b2 \in Seq(Entries) /\ Len(b2) = n + 1 /\ b2[n + 1] = e /\ Distinct(b2)
        /\ \A i \in 1 .. n : b2[i] = bt[i]
    BY <1>1 DEF Extended
  <1>3. Distinct(bt)
    <2>1. \A i, j \in 1 .. n : i \in 1 .. n + 1 /\ j \in 1 .. n + 1
      OBVIOUS
    <2>2. \A i, j \in 1 .. n + 1 : b2[i].r = b2[j].r => i = j
      BY <1>2 DEF Distinct
    <2>3. \A i, j \in 1 .. n : bt[i].r = bt[j].r => i = j
      BY <1>2, <2>1, <2>2
    <2> QED
      BY <1>1, <2>3 DEF Distinct
  <1>4. TableOf(t, b2, fin)[e.r] = IF e.kind = "running" THEN t[e.r] \o e.ids ELSE e.ids
    <2>1. n + 1 \in 1 .. Len(b2)
      BY <1>2
    <2>2. TableOf(t, b2, fin)[b2[n + 1].r]
            = IF b2[n + 1].kind = "running" THEN t[b2[n + 1].r] \o b2[n + 1].ids ELSE b2[n + 1].ids
      BY <1>2, <2>1, TableOfEntry
    <2> QED
      BY <1>2, <2>2
  <1>5. ASSUME NEW q \in Requests, q # e.r PROVE TableOf(t, b2, fin)[q] = TableOf(t, bt, fin)[q]
    <2>1. CASE \E i \in 1 .. n : bt[i].r = q
      <3>1. PICK i \in 1 .. n : bt[i].r = q
        BY <2>1
      <3>2. i \in 1 .. Len(b2) /\ i \in 1 .. Len(bt) /\ b2[i] = bt[i]
        BY <1>1, <1>2
      <3>3. TableOf(t, b2, fin)[b2[i].r]
              = IF b2[i].kind = "running" THEN t[b2[i].r] \o b2[i].ids ELSE b2[i].ids
        BY <1>2, <3>2, TableOfEntry
      <3>4. TableOf(t, bt, fin)[bt[i].r]
              = IF bt[i].kind = "running" THEN t[bt[i].r] \o bt[i].ids ELSE bt[i].ids
        BY <1>3, <3>2, TableOfEntry
      <3> QED
        BY <3>1, <3>2, <3>3, <3>4
    <2>2. CASE ~\E i \in 1 .. n : bt[i].r = q
      <3>1. \A i \in 1 .. Len(bt) : bt[i].r # q
        BY <1>1, <2>2
      <3>2. ASSUME NEW i \in 1 .. Len(b2) PROVE b2[i].r # q
        <4>1. CASE i = n + 1
          BY <1>2, <1>5, <4>1
        <4>2. CASE i # n + 1
          <5>1. i \in 1 .. n
            BY <1>2, <4>2
          <5> QED
            BY <1>1, <1>2, <3>1, <5>1
        <4> QED
          BY <4>1, <4>2
      <3>3. TableOf(t, b2, fin)[q] = IF q \in fin THEN <<>> ELSE t[q]
        BY <1>2, <3>2, TableOfOther
      <3>4. TableOf(t, bt, fin)[q] = IF q \in fin THEN <<>> ELSE t[q]
        BY <3>1, TableOfOther
      <3> QED
        BY <3>3, <3>4
    <2> QED
      BY <2>1, <2>2
  <1> QED
    BY <1>4, <1>5

\* What the books say of the worker, which has the tables t and the cache m, once it has run
\* the batch bt.
Foreseen(t, m, bt, fin, bl, rq, hash) ==
  LET T == TableOf(t, bt, fin)
      K == CacheOf(T, m, bt)
  IN  Described(T, K, bl, rq, bt) /\ Hashed(K, hash)

\* What e writes is in blocks of its request alone.
LEMMA MadeFresh ==
  ASSUME NEW e, NEW held, NEW a, NEW rq, NEW next, NEW bt, NEW b2, NEW bl \in Tables, NEW f, NEW p, NEW z,
         EntryMade(e, held, a, rq, next, bt, b2, bl, f, p, z)
  PROVE  Fresh(f[e.r], bl, e)
  <1>1. /\ e \in Entries /\ a \in Nat /\ Filled(a, e.start)
        /\ OwnBlocks(z, f[e.r], held, p, bl, e.r, a) /\ Reaches(f[e.r], e.start + e.n)
        /\ f \in Tables
    BY DEF EntryMade
  <1>2. e.r \in Requests /\ e.start \in Nat /\ e.n \in Nat
    BY <1>1 DEF Entries
  <1>3. PICK tb : tb = f[e.r] /\ tb \in Seq(Blocks) /\ Len(tb) \in Nat
    BY <1>1, <1>2, LenProperties DEF Tables
  <1>4. IsInjective(tb)
    BY <1>3 DEF EntryMade, Own
  <1>5. ASSUME NEW i \in Span(e), NEW q \in Requests \ {e.r} PROVE tb[Page(i)] \notin ToSet(bl[q])
    <2>1. i \in Nat /\ e.start <= i /\ i \in 0 .. e.start + e.n - 1
      BY <1>2 DEF Span
    <2>2. Filled(a, i)
      <3>1. a * BlockSize \in Nat /\ a * BlockSize <= e.start
        BY <1>1, TimesOrder DEF Filled
      <3>2. a * BlockSize <= i
        BY <1>2, <2>1, <3>1
      <3> QED
        BY <3>2 DEF Filled
    <2>3. ~(Page(i) <= a) /\ Page(i) \in Nat
      BY <1>1, <2>1, <2>2, Positions
    <2>4. Page(i) \in 1 .. Len(tb) /\ Page(i) > a
      <3>1. Reaches(tb, e.start + e.n)
        BY <1>1, <1>3
      <3>2. Page(i) \in 1 .. Len(tb)
        BY <1>2, <2>1, <3>1 DEF Reaches
      <3>3. a \in Nat
        BY <1>1
      <3> QED
        BY <2>3, <3>2, <3>3
    <2> QED
      BY <1>1, <1>3, <2>4 DEF OwnBlocks
  <1> QED
    BY <1>1, <1>3, <1>4, <1>5 DEF Fresh

\* The batch with the new entry fits the requests.
LEMMA MadeFits ==
  ASSUME NEW e, NEW held, NEW a, NEW rq, NEW next, NEW bt \in Seq(Entries), NEW b2, NEW bl, NEW f, NEW p,
         NEW z, EntryMade(e, held, a, rq, next, bt, b2, bl, f, p, z), EntriesFit(bt, rq)
  PROVE  EntriesFit(b2, next)
  <1>1. PICK n \in Nat : n = Len(bt)
    BY LenProperties
  <1>2. /\ e \in Entries /\ Extended(b2, bt, e)
        /\ e.tokens = rq[e.r].tokens /\ e.start = next[e.r].computed
        /\ Advanced(next, rq, b2, bt, e.r, e.start + e.n)
        /\ \A i \in 1 .. n : bt[i].r # e.r
    BY <1>1 DEF EntryMade
  <1>3. /\ Len(b2) = n + 1 /\ b2[n + 1] = e /\ AdvanceIn(b2, e.r) = e.n
        /\ \A i \in 1 .. n : b2[i] = bt[i]
    BY <1>1, <1>2 DEF Extended
  <1>4. /\ \A q \in Requests : q # e.r => next[q] = rq[q] /\ AdvanceIn(b2, q) = AdvanceIn(bt, q)
        /\ next[e.r].status = "running" /\ next[e.r].tokens = rq[e.r].tokens
    BY <1>2 DEF Advanced
  <1>5. ASSUME NEW i \in 1 .. n PROVE bt[i].r \in Requests
    <2> DEFINE E == Entries
    <2>1. bt \in Seq(E)
      OBVIOUS
    <2> HIDE DEF E
    <2>2. bt[i] \in E
      BY <1>1, <2>1, Members
    <2> QED
      BY <2>2 DEF E, Entries
  <1>6. ASSUME NEW i \in 1 .. n + 1 PROVE EntryFits(b2[i], next, b2)
    <2>1. CASE i = n + 1
      BY <1>2, <1>3, <1>4, <2>1 DEF EntryFits
    <2>2. CASE i # n + 1
      <3>1. i \in 1 .. n
        BY <2>2
      <3>2. PICK x : x = bt[i] /\ x = b2[i]
        BY <1>3, <3>1
      <3>3. x.r \in Requests /\ x.r # e.r /\ EntryFits(x, rq, bt)
        BY <1>1, <1>2, <1>5, <3>1, <3>2 DEF EntriesFit
      <3>4. next[x.r] = rq[x.r] /\ AdvanceIn(b2, x.r) = AdvanceIn(bt, x.r)
        BY <1>4, <3>3
      <3>5. EntryFits(x, next, b2)
        BY <3>3, <3>4 DEF EntryFits
      <3> QED
        BY <3>2, <3>5
    <2> QED
      BY <2>1, <2>2
  <1> QED
    BY <1>3, <1>6 DEF EntriesFit

\* A new entry, for a request that finds the tokens before it: the books still describe what
\* the worker will have.
LEMMA MadeForeseen ==
  ASSUME NEW t, NEW m, NEW fin, NEW e, NEW held, NEW a, NEW rq \in [Requests -> Reqs], NEW next,
         NEW bt \in Seq(Entries), NEW b2, NEW bl \in Tables, NEW f, NEW p, NEW z,
         EntryMade(e, held, a, rq, next, bt, b2, bl, f, p, z),
         Foreseen(t, m, bt, fin, bl, rq, p.hash), EntriesFit(bt, rq), Reaching(bl, rq, bt),
         Len(e.tokens) <= MaxModelLen, TableOf(t, b2, fin)[e.r] = f[e.r],
         Written(CacheOf(TableOf(t, bt, fin), m, bt), f[e.r], e.start, e.tokens)
  PROVE  Foreseen(t, m, b2, fin, f, next, z.hash) /\ Reaching(f, next, b2)
  <1>1. PICK T, K, T2, K2 : /\ T = TableOf(t, bt, fin) /\ K = CacheOf(T, m, bt)
                            /\ T2 = TableOf(t, b2, fin) /\ K2 = CacheOf(T2, m, b2)
    OBVIOUS
  <1>2. /\ e \in Entries /\ b2 = Append(bt, e) /\ Extended(b2, bt, e)
        /\ \A i \in 1 .. Len(bt) : bt[i].r # e.r
        /\ e.tokens = rq[e.r].tokens /\ e.start + e.n <= Len(e.tokens)
        /\ OwnBlocks(z, f[e.r], held, p, bl, e.r, a)
        /\ \A q \in Requests : q # e.r => f[q] = bl[q]
        /\ Advanced(next, rq, b2, bt, e.r, e.start + e.n)
    BY DEF EntryMade
  <1>3. PICK c \in Nat : Filled(c, e.start + e.n) /\ Own(z.hash, f[e.r], c, e.tokens)
    BY DEF EntryMade
  <1>4. e.start \in Nat /\ e.n \in Nat /\ Len(e.tokens) \in Nat /\ MaxModelLen \in Nat
    BY <1>2, LenProperties, ServingAssumption DEF Entries
  <1>5. e.start + e.n <= MaxModelLen
    BY <1>2, <1>4
  <1>6. Described(T, K, bl, rq, bt) /\ Hashed(K, p.hash)
    BY <1>1, Zenon DEF Foreseen
  <1>7. \A q \in Requests : q # e.r => T2[q] = T[q]
    BY <1>1, <1>2, TableGrows
  <1>8. Grows(T, K, T2, K2, m, bt, b2, e)
    BY <1>1, <1>2, <1>7, Zenon DEF Grows
  <1>9. T2[e.r] = f[e.r] /\ Written(K, T2[e.r], e.start, e.tokens)
    BY <1>1, Zenon
  <1>10. Fresh(T2[e.r], bl, e)
    <2>1. Fresh(f[e.r], bl, e)
      BY MadeFresh
    <2> QED
      BY <1>9, <2>1
  <1>11. /\ Described(T2, K2, f, next, b2) /\ Reaching(f, next, b2)
         /\ Written(K2, T2[e.r], e.start + e.n, e.tokens)
    <2>1. Replaces(f, bl, e.r)
      BY <1>2 DEF Replaces
    <2>2. e \in Entries /\ Advanced(next, rq, b2, bt, e.r, e.start + e.n) /\ e.tokens = rq[e.r].tokens
      BY <1>2
    <2>3. DescribedWith(T2, K2, f, next, b2, e)
      BY <1>5, <1>6, <1>8, <1>9, <1>10, <2>1, <2>2, EntryDescribed, ZenonT(60)
    <2> QED
      BY <2>3 DEF DescribedWith
  <1>12. Renamed(z.hash, p.hash, T2[e.r], c, e.start + e.n, e.tokens)
    BY <1>2, <1>3, <1>9 DEF Renamed, OwnBlocks
  <1>13. Hashed(K2, z.hash)
    BY <1>2, <1>6, <1>8, <1>10, <1>11, <1>12, HashesWritten
  <1> QED
    BY <1>1, <1>11, <1>13, Zenon DEF Foreseen

\* The first n prefixes of u and v are the same.
SamePrefixes(u, v, n) == \A i \in 0 .. n - 1 : Prefix(u, i + 1) = Prefix(v, i + 1)

\* Of the requests that run in next, rq and the tables have nothing else, but that tokens may
\* be added; no hash is new.
Shrinks(next, rq, bl2, bl, hash2, hash, bt) ==
  /\ \A r \in Requests : next[r].status = "running" =>
       /\ rq[r].status = "running" /\ bl2[r] = bl[r] /\ next[r].computed = rq[r].computed
       /\ SamePrefixes(next[r].tokens, rq[r].tokens, rq[r].computed + AdvanceIn(bt, r))
  /\ \A b \in Blocks : hash2[b] \in {hash[b], NoHash}

FinishedGone(fin, rq) == \A r \in fin : rq[r].status = "finished"

\* Requests that leave, and hashes that are forgotten, take nothing away from the others.
LEMMA ForeseenStays ==
  ASSUME NEW t, NEW m, NEW bt \in Seq(Entries), NEW fin, NEW fin2, NEW bl \in Tables, NEW bl2,
         NEW rq \in [Requests -> Reqs], NEW next, NEW hash, NEW hash2,
         Foreseen(t, m, bt, fin, bl, rq, hash), Reaching(bl, rq, bt),
         Shrinks(next, rq, bl2, bl, hash2, hash, bt),
         FinishedGone(fin, rq), FinishedGone(fin2, next), fin2 = fin \/ bt = <<>>
  PROVE  Foreseen(t, m, bt, fin2, bl2, next, hash2)
  <1>1. PICK T, K, T2, K2 : /\ T = TableOf(t, bt, fin) /\ K = CacheOf(T, m, bt)
                            /\ T2 = TableOf(t, bt, fin2) /\ K2 = CacheOf(T2, m, bt)
    OBVIOUS
  <1>2. Described(T, K, bl, rq, bt) /\ Hashed(K, hash)
    BY <1>1, Zenon DEF Foreseen
  <1>3. /\ \A r \in Requests : r \notin fin /\ r \notin fin2 => T2[r] = T[r]
        /\ \A s \in Slots : K2[s] = K[s]
    <2>1. CASE fin2 = fin
      BY <1>1, <2>1
    <2>2. CASE bt = <<>>
      <3>1. /\ \A r \in Requests : r \notin fin => TableOf(t, <<>>, fin)[r] = t[r]
            /\ \A r \in Requests : r \notin fin2 => TableOf(t, <<>>, fin2)[r] = t[r]
            /\ \A s \in Slots : CacheOf(T, m, <<>>)[s] = m[s]
            /\ \A s \in Slots : CacheOf(T2, m, <<>>)[s] = m[s]
        BY NothingRuns, Zenon
      <3>2. T = TableOf(t, <<>>, fin) /\ T2 = TableOf(t, <<>>, fin2)
            /\ K = CacheOf(T, m, <<>>) /\ K2 = CacheOf(T2, m, <<>>)
        BY <1>1, <2>2, Zenon
      <3> QED
        BY <3>1, <3>2
    <2> QED
      BY <2>1, <2>2
  <1>4. ASSUME NEW r \in Requests, next[r].status = "running" PROVE DescribedFor(T2, K2, bl2, next, bt, r)
    <2>1. PICK w \in Nat : w = rq[r].computed + AdvanceIn(bt, r)
      <3>1. rq[r].computed \in Nat
        BY DEF Reqs
      <3>2. AdvanceIn(bt, r) \in Nat
        BY AdvanceType
      <3> QED
        BY <3>1, <3>2
    <2>2. /\ rq[r].status = "running" /\ bl2[r] = bl[r] /\ next[r].computed = rq[r].computed
          /\ SamePrefixes(next[r].tokens, rq[r].tokens, w)
      BY <1>4, <2>1 DEF Shrinks
    <2>3. r \notin fin /\ r \notin fin2
      BY <1>4, <2>2 DEF FinishedGone
    <2>4. /\ T[r] = bl[r] /\ Written(K, bl[r], w, rq[r].tokens)
      BY <1>2, <2>1, <2>2 DEF Described, DescribedFor
    <2>5. Reaches(bl[r], w) /\ bl[r] \in Seq(Blocks)
      BY <2>1, <2>2 DEF Reaching, Tables
    <2>6. ASSUME NEW i \in 0 .. w - 1 PROVE K2[Slot(bl2[r], i)] = Prefix(next[r].tokens, i + 1)
      <3>1. Slot(bl[r], i) \in Slots
        <4>1. Page(i) \in 1 .. Len(bl[r]) /\ i \in Nat
          BY <2>5 DEF Reaches
        <4> QED
          BY <2>5, <4>1, SlotOfTable
      <3>2. K[Slot(bl[r], i)] = Prefix(rq[r].tokens, i + 1)
        BY <2>4 DEF Written
      <3>3. Prefix(next[r].tokens, i + 1) = Prefix(rq[r].tokens, i + 1)
        BY <2>2 DEF SamePrefixes
      <3> QED
        BY <1>3, <2>2, <3>1, <3>2, <3>3
    <2>7. Written(K2, bl2[r], w, next[r].tokens)
      BY <2>6 DEF Written
    <2>8. T2[r] = bl2[r]
      BY <1>3, <2>2, <2>3, <2>4
    <2> QED
      BY <2>1, <2>2, <2>7, <2>8 DEF DescribedFor
  <1>5. ASSUME NEW b \in Blocks, hash2[b] # NoHash PROVE HashWritten(K2, b, hash2[b])
    <2>1. hash2[b] = hash[b]
      BY <1>5 DEF Shrinks
    <2>2. HashWritten(K, b, hash[b])
      BY <1>2, <1>5, <2>1 DEF Hashed
    <2>3. \A o \in 1 .. BlockSize : <<b, o>> \in Slots
      BY DEF Slots
    <2> QED
      BY <1>3, <2>1, <2>2, <2>3 DEF HashWritten
  <1>6. Described(T2, K2, bl2, next, bt) /\ Hashed(K2, hash2)
    BY <1>4, <1>5 DEF Described, Hashed
  <1> QED
    BY <1>1, <1>6, Zenon DEF Foreseen

-----------------------------------------------------------------------------
(* The outputs with the worker *)

\* The entry e reads its own tokens.
ReadsOwn(e, T, K) == Written(K, T[e.r], e.start + e.n, e.tokens)

\* tt and kk are the tables and the caches that the worker had or will have after each of the
\* outputs qu, from t and m on, and every entry still to run will read its own tokens.
Runs(tt, kk, out, j) ==
  /\ tt[j] = TableOf(tt[j - 1], out.entries, out.finished)
  /\ kk[j] = CacheOf(tt[j], kk[j - 1], out.entries)
  /\ \A i \in 1 .. Len(out.entries) : ReadsOwn(out.entries[i], tt[j], kk[j])

Chain(tt, kk, qu, t, m) ==
  /\ tt[0] = t /\ kk[0] = m
  /\ \A j \in 1 .. Len(qu) :
       /\ qu[j].done => tt[j] = t /\ kk[j] = m
       /\ ~qu[j].done => Runs(tt, kk, qu[j], j)

\* Once they have all run, the books describe what the worker has.
Coming(qu, t, m, bt, fin, bl, rq, hash) ==
  \E tt, kk : /\ Chain(tt, kk, qu, t, m)
              /\ Foreseen(tt[Len(qu)], kk[Len(qu)], bt, fin, bl, rq, hash)

DoneFirst(qu) == \A i, j \in 1 .. Len(qu) : i < j /\ qu[j].done => qu[i].done

BooksInv ==
  /\ FinishedGone(finished, req)
  /\ EntriesFit(batch, req)
  /\ Reaching(blocks, req, batch)
  /\ Coming(queue, table, kv, batch, finished, blocks, req, pool.hash)

ReadInv ==
  /\ SchedInv /\ FullInv
  /\ BooksInv
  /\ DoneFirst(queue)
  /\ DOMAIN kv = Slots
  /\ ReadsOwnPrefix

\* Nothing is with the worker to begin with.
LEMMA InitReads ==
  Init => ReadInv
  <1> SUFFICES ASSUME Init PROVE ReadInv
    OBVIOUS
  <1>1. SchedInv /\ FullInv
    BY InitSchedInv, InitFull
  <1>2. /\ req = [r \in Requests |-> [status |-> "absent", tokens |-> Prompt[r], computed |-> 0]]
        /\ pool = InitPool /\ finished = {} /\ batch = <<>> /\ queue = <<>> /\ reads = {}
        /\ kv = [s \in Blocks \X (1 .. BlockSize) |-> Empty]
    BY DEF Init
  <1>3. DOMAIN kv = Slots
    BY <1>2 DEF Slots
  <1>4. \A r \in Requests : req[r].status # "running"
    BY <1>2
  <1>5. Len(batch) = 0 /\ Len(queue) = 0 /\ 1 .. 0 = {}
    BY <1>2
  <1>6. FinishedGone(finished, req) /\ EntriesFit(batch, req) /\ Reaching(blocks, req, batch) /\ DoneFirst(queue)
    BY <1>2, <1>4, <1>5 DEF FinishedGone, EntriesFit, Reaching, DoneFirst
  <1>7. Coming(queue, table, kv, batch, finished, blocks, req, pool.hash)
    <2> DEFINE tt == [j \in {0} |-> table]
               kk == [j \in {0} |-> kv]
    <2>1. tt[0] = table /\ kk[0] = kv
      OBVIOUS
    <2>2. Chain(tt, kk, queue, table, kv)
      BY <1>5, <2>1 DEF Chain
    <2>3. \A b \in Blocks : pool.hash[b] = NoHash
      BY <1>2 DEF InitPool
    <2>4. \A T, K : Described(T, K, blocks, req, batch) /\ Hashed(K, pool.hash)
      BY <1>4, <2>3 DEF Described, Hashed
    <2>5. Foreseen(tt[Len(queue)], kk[Len(queue)], batch, finished, blocks, req, pool.hash)
      BY <2>4, Zenon DEF Foreseen
    <2> HIDE DEF tt, kk
    <2> QED
      BY <2>2, <2>5, Zenon DEF Coming
  <1>8. ReadsOwnPrefix
    BY <1>2 DEF ReadsOwnPrefix
  <1> QED
    BY <1>1, <1>3, <1>6, <1>7, <1>8 DEF ReadInv, BooksInv

\* The requests of a batch run.
LEMMA BatchRuns ==
  ASSUME NEW bt \in Seq(Entries), NEW ph, NEW ix, NEW run \in Seq(Requests), NEW wait, NEW rq,
         InBatch(bt, ph, ix, run), InLine(run, wait, rq), NEW i \in 1 .. Len(bt)
  PROVE  bt[i].r \in Requests /\ rq[bt[i].r].status = "running"
  <1>1. PICK j \in 1 .. Len(run) : run[j] = bt[i].r
    BY DEF InBatch
  <1>2. run[j] \in ToSet(run) /\ run[j] \in Requests
    BY Members
  <1> QED
    BY <1>1, <1>2 DEF InLine

\* The tokens of the running requests are the same, or nothing is scheduled yet.
SameTokens(next, rq, bt) ==
  bt = <<>> \/ \A r \in Requests : next[r].status = "running" => next[r].tokens = rq[r].tokens

\* The books stay right when requests leave.
LEMMA BooksShrink ==
  ASSUME NEW qu, NEW t, NEW m, NEW bt \in Seq(Entries), NEW fin, NEW fin2, NEW bl \in Tables, NEW bl2,
         NEW rq \in [Requests -> Reqs], NEW next, NEW hash, NEW hash2,
         Coming(qu, t, m, bt, fin, bl, rq, hash), EntriesFit(bt, rq), Reaching(bl, rq, bt),
         Shrinks(next, rq, bl2, bl, hash2, hash, bt), SameTokens(next, rq, bt),
         FinishedGone(fin, rq), FinishedGone(fin2, next), fin2 = fin \/ bt = <<>>,
         \A i \in 1 .. Len(bt) : bt[i].r \in Requests /\ next[bt[i].r].status = "running"
  PROVE  /\ Coming(qu, t, m, bt, fin2, bl2, next, hash2)
         /\ EntriesFit(bt, next) /\ Reaching(bl2, next, bt)
  <1>1. PICK tt, kk : /\ Chain(tt, kk, qu, t, m)
                      /\ Foreseen(tt[Len(qu)], kk[Len(qu)], bt, fin, bl, rq, hash)
    BY Zenon DEF Coming
  <1>2. Foreseen(tt[Len(qu)], kk[Len(qu)], bt, fin2, bl2, next, hash2)
    BY <1>1, ForeseenStays
  <1>3. Coming(qu, t, m, bt, fin2, bl2, next, hash2)
    BY <1>1, <1>2, Zenon DEF Coming
  <1>4. \A r \in Requests : next[r].status = "running" =>
          rq[r].status = "running" /\ bl2[r] = bl[r] /\ next[r].computed = rq[r].computed
    BY DEF Shrinks
  <1>5. EntriesFit(bt, next)
    <2>1. CASE bt = <<>>
      <3>1. 1 .. Len(bt) = {}
        BY <2>1
      <3> QED
        BY <3>1 DEF EntriesFit
    <2>2. CASE bt # <<>>
      <3>1. ASSUME NEW i \in 1 .. Len(bt) PROVE EntryFits(bt[i], next, bt)
        <4>1. PICK x : x = bt[i]
          OBVIOUS
        <4>2. x.r \in Requests /\ next[x.r].status = "running" /\ EntryFits(x, rq, bt)
          BY <4>1 DEF EntriesFit
        <4>3. next[x.r].computed = rq[x.r].computed /\ next[x.r].tokens = rq[x.r].tokens
          BY <1>4, <2>2, <4>2 DEF SameTokens
        <4> QED
          BY <4>1, <4>2, <4>3 DEF EntryFits
      <3> QED
        BY <3>1 DEF EntriesFit
    <2> QED
      BY <2>1, <2>2
  <1>6. Reaching(bl2, next, bt)
    BY <1>4 DEF Reaching
  <1> QED
    BY <1>3, <1>5, <1>6

\* A step of the engine or the front end that leaves the worker alone and schedules nothing.
Leaves ==
  /\ queue' = queue /\ table' = table /\ kv' = kv /\ reads' = reads /\ batch' = batch
  /\ finished' = finished \/ batch = <<>>
  /\ FinishedGone(finished', req')
  /\ Shrinks(req', req, blocks', blocks, pool'.hash, pool.hash, batch)
  /\ SameTokens(req', req, batch)

\* Such a step keeps the invariant.
LEMMA LeavesKeeps ==
  ASSUME ReadInv, SchedInv', FullInv', Leaves
  PROVE  ReadInv'
  <1>1. /\ queue' = queue /\ table' = table /\ kv' = kv /\ reads' = reads /\ batch' = batch
        /\ finished' = finished \/ batch = <<>>
        /\ FinishedGone(finished', req')
        /\ Shrinks(req', req, blocks', blocks, pool'.hash, pool.hash, batch)
        /\ SameTokens(req', req, batch)
    BY DEF Leaves
  <1>2. /\ SchedInv /\ FinishedGone(finished, req) /\ EntriesFit(batch, req)
        /\ Reaching(blocks, req, batch) /\ DoneFirst(queue) /\ DOMAIN kv = Slots /\ ReadsOwnPrefix
        /\ Coming(queue, table, kv, batch, finished, blocks, req, pool.hash)
    BY DEF ReadInv, BooksInv
  <1>3. batch \in Seq(Entries) /\ blocks \in Tables /\ req \in [Requests -> Reqs]
    BY <1>2 DEF SchedInv, SchedType
  <1>4. PICK f2, b2, q2, h2, run, ph, ix, wait :
           /\ f2 = finished' /\ b2 = blocks' /\ q2 = req' /\ h2 = pool'.hash
           /\ run = running' /\ ph = phase' /\ ix = idx' /\ wait = waiting'
    OBVIOUS
  <1>5. /\ run \in Seq(Requests) /\ InBatch(batch, ph, ix, run) /\ InLine(run, wait, q2)
    BY <1>1, <1>4 DEF SchedInv, SchedType
  <1>6. \A i \in 1 .. Len(batch) : batch[i].r \in Requests /\ q2[batch[i].r].status = "running"
    BY <1>3, <1>5, BatchRuns
  <1>7. /\ f2 = finished \/ batch = <<>>
        /\ FinishedGone(f2, q2) /\ Shrinks(q2, req, b2, blocks, h2, pool.hash, batch)
        /\ SameTokens(q2, req, batch)
    BY <1>1, <1>4
  <1>8. PICK qu, t, m, bt, fin, bl, rq, hash :
           /\ qu = queue /\ t = table /\ m = kv /\ bt = batch /\ fin = finished
           /\ bl = blocks /\ rq = req /\ hash = pool.hash
    OBVIOUS
  <1>9. /\ Coming(qu, t, m, bt, f2, b2, q2, h2) /\ EntriesFit(bt, q2) /\ Reaching(b2, q2, bt)
    <2>1. /\ bt \in Seq(Entries) /\ bl \in Tables /\ rq \in [Requests -> Reqs]
          /\ Coming(qu, t, m, bt, fin, bl, rq, hash) /\ EntriesFit(bt, rq) /\ Reaching(bl, rq, bt)
          /\ FinishedGone(fin, rq)
      BY <1>2, <1>3, <1>8
    <2>2. /\ f2 = fin \/ bt = <<>>
          /\ FinishedGone(f2, q2) /\ Shrinks(q2, rq, b2, bl, h2, hash, bt) /\ SameTokens(q2, rq, bt)
      BY <1>7, <1>8
    <2>3. \A i \in 1 .. Len(bt) : bt[i].r \in Requests /\ q2[bt[i].r].status = "running"
      BY <1>6, <1>8
    <2> QED
      BY <2>1, <2>2, <2>3, BooksShrink, ZenonT(60)
  <1>10. BooksInv'
    BY <1>1, <1>4, <1>7, <1>8, <1>9, Zenon DEF BooksInv
  <1>11. DoneFirst(queue)' /\ (DOMAIN kv = Slots)' /\ ReadsOwnPrefix'
    BY <1>1, <1>2 DEF DoneFirst, ReadsOwnPrefix
  <1> QED
    BY <1>10, <1>11 DEF ReadInv

\* Some requests stop running or had not run, the others stay as they are.
Halts(next, rq, bl2, bl) ==
  \A q \in Requests : next[q].status = "running" => next[q] = rq[q] /\ bl2[q] = bl[q]

\* Then nothing is added.
LEMMA HaltsShrinks ==
  ASSUME NEW next, NEW rq, NEW bl2, NEW bl, NEW hash2, NEW hash, NEW bt, Halts(next, rq, bl2, bl),
         \A b \in Blocks : hash2[b] \in {hash[b], NoHash}
  PROVE  Shrinks(next, rq, bl2, bl, hash2, hash, bt) /\ SameTokens(next, rq, bt)
  <1>1. \A q \in Requests : next[q].status = "running" => next[q] = rq[q] /\ bl2[q] = bl[q]
    BY DEF Halts
  <1>2. \A u, n : SamePrefixes(u, u, n)
    BY DEF SamePrefixes
  <1> QED
    BY <1>1, <1>2 DEF Shrinks, SameTokens

\* The front end: add_request, abort and reset_prefix_cache.
LEMMA FrontEndLeaves ==
  ASSUME ReadInv, NEW r \in Requests, AddRequest(r) \/ Abort(r) \/ ResetCache
  PROVE  Leaves
  <1>1. /\ SchedInv /\ FinishedGone(finished, req)
    BY DEF ReadInv, BooksInv
  <1>2. /\ req \in [Requests -> Reqs] /\ blocks \in Tables /\ InBatch(batch, phase, idx, running)
        /\ PoolInv(pool, blocks) /\ Held(pool.hash, blocks, ncached, req, batch)
        /\ finished \in SUBSET Requests
    BY <1>1 DEF SchedInv, SchedType
  <1>3. /\ queue' = queue /\ table' = table /\ kv' = kv /\ reads' = reads /\ batch' = batch
        /\ phase = "input"
    BY DEF AddRequest, Abort, ResetCache, loopVars, workVars
  <1>4. batch = <<>>
    BY <1>2, <1>3 DEF InBatch
  <1>5. PICK next, b2, h2, f2 : next = req' /\ b2 = blocks' /\ h2 = pool'.hash /\ f2 = finished'
    OBVIOUS
  <1>6. /\ Halts(next, req, b2, blocks) /\ FinishedGone(f2, next)
        /\ \A b \in Blocks : h2[b] \in {pool.hash[b], NoHash}
    <2>1. CASE AddRequest(r)
      <3>1. /\ req' = [req EXCEPT ![r].status = "waiting"] /\ req[r].status = "absent"
            /\ pool' = pool /\ blocks' = blocks /\ finished' = finished
        BY <2>1 DEF AddRequest
      <3>2. next[r].status = "waiting" /\ \A q \in Requests : q # r => next[q] = req[q]
        BY <1>2, <1>5, <3>1 DEF Reqs
      <3>3. Halts(next, req, b2, blocks)
        BY <1>5, <3>1, <3>2 DEF Halts
      <3>4. FinishedGone(f2, next)
        BY <1>1, <1>2, <1>5, <3>1, <3>2 DEF FinishedGone
      <3> QED
        BY <1>5, <3>1, <3>3, <3>4
    <2>2. CASE Abort(r)
      <3>1. /\ req' = [req EXCEPT ![r].status = "finished"] /\ finished' = finished \cup {r}
            /\ pool' = FreeBlocks(pool, Reverse(blocks[r])) /\ blocks' = Dropped(blocks, r)
        BY <2>2 DEF Abort, FreeOf, Dropped
      <3>2. next[r].status = "finished" /\ \A q \in Requests : q # r => next[q] = req[q]
        BY <1>2, <1>5, <3>1 DEF Reqs
      <3>3. \A q \in Requests : q # r => b2[q] = blocks[q]
        BY <1>2, <1>5, <3>1 DEF Dropped, Tables
      <3>4. Halts(next, req, b2, blocks)
        BY <3>2, <3>3 DEF Halts
      <3>5. FinishedGone(f2, next)
        BY <1>1, <1>2, <1>5, <3>1, <3>2 DEF FinishedGone
      <3>6. h2 = pool.hash
        <4>1. IsInjective(blocks[r])
          BY <1>2 DEF Held, HeldBy, Own
        <4>2. PICK p : p = pool
          OBVIOUS
        <4>3. AfterDrop(FreeBlocks(p, Reverse(blocks[r])), Dropped(blocks, r), p, blocks)
          BY <1>2, <4>1, <4>2, DropAgrees
        <4> QED
          BY <1>5, <3>1, <4>2, <4>3 DEF AfterDrop
      <3> QED
        BY <3>4, <3>5, <3>6
    <2>3. CASE ResetCache
      <3>1. /\ req' = req /\ blocks' = blocks /\ finished' = finished /\ pool' = ResetPrefixCache(pool)
        BY <2>3 DEF ResetCache, schedVars
      <3>2. \A b \in Blocks : ResetPrefixCache(pool).hash[b] \in {pool.hash[b], NoHash}
        BY <1>2 DEF ResetPrefixCache, PoolInv, PoolType
      <3> QED
        BY <1>1, <1>5, <3>1, <3>2 DEF Halts, FinishedGone
    <2> QED
      BY <2>1, <2>2, <2>3
  <1>7. Shrinks(next, req, b2, blocks, h2, pool.hash, batch) /\ SameTokens(next, req, batch)
    BY <1>6, HaltsShrinks
  <1> QED
    BY <1>3, <1>4, <1>5, <1>6, <1>7 DEF Leaves

\* The loops of schedule() where they schedule nothing, and a preemption.
LEMMA LoopLeaves ==
  ASSUME ReadInv, BeginStep \/ SkipRunning \/ EndRunning \/ EngineFails \/ Preempt
  PROVE  Leaves
  <1>1. /\ SchedInv /\ FinishedGone(finished, req)
    BY DEF ReadInv, BooksInv
  <1>2. /\ req \in [Requests -> Reqs] /\ blocks \in Tables /\ running \in Seq(Requests)
        /\ PoolInv(pool, blocks) /\ Held(pool.hash, blocks, ncached, req, batch)
        /\ finished \in SUBSET Requests /\ InLine(running, waiting, req) /\ idx \in Nat \ {0}
    BY <1>1 DEF SchedInv, SchedType
  <1>3. /\ queue' = queue /\ table' = table /\ kv' = kv /\ reads' = reads /\ batch' = batch
        /\ finished' = finished
    BY DEF BeginStep, SkipRunning, EndRunning, EngineFails, Preempt, schedVars, workVars
  <1>4. PICK next, b2, h2 : next = req' /\ b2 = blocks' /\ h2 = pool'.hash
    OBVIOUS
  <1>5. /\ Halts(next, req, b2, blocks) /\ FinishedGone(finished, next) /\ h2 = pool.hash
    <2>1. CASE BeginStep \/ SkipRunning \/ EndRunning \/ EngineFails
      <3>1. req' = req /\ blocks' = blocks /\ pool' = pool
        BY <2>1 DEF BeginStep, SkipRunning, EndRunning, EngineFails, schedVars
      <3> QED
        BY <1>1, <1>4, <3>1 DEF Halts
    <2>2. CASE Preempt
      <3>1. PICK v : v = Last(running)
        OBVIOUS
      <3>2. /\ idx <= Len(running)
            /\ req' = [req EXCEPT ![v].status = "preempted", ![v].computed = 0]
            /\ pool' = FreeBlocks(pool, Reverse(blocks[v])) /\ blocks' = Dropped(blocks, v)
        BY <2>2, <3>1 DEF Preempt, InRunningLoop, FreeOf, Dropped
      <3>3. v \in Requests /\ req[v].status = "running"
        <4>1. PICK n \in Nat : n = Len(running)
          BY <1>2, LenProperties
        <4>2. v = running[n] /\ n \in 1 .. n
          BY <1>2, <3>1, <3>2, <4>1 DEF Last
        <4>3. v \in Requests /\ v \in ToSet(running)
          BY <1>2, <4>1, <4>2, Members
        <4> QED
          BY <1>2, <4>3 DEF InLine
      <3>4. next[v].status = "preempted" /\ \A q \in Requests : q # v => next[q] = req[q]
        BY <1>2, <1>4, <3>2, <3>3 DEF Reqs
      <3>5. \A q \in Requests : q # v => b2[q] = blocks[q]
        BY <1>2, <1>4, <3>2 DEF Dropped, Tables
      <3>6. Halts(next, req, b2, blocks)
        BY <3>3, <3>4, <3>5 DEF Halts
      <3>7. FinishedGone(finished, next)
        BY <1>1, <1>2, <3>3, <3>4 DEF FinishedGone
      <3>8. h2 = pool.hash
        <4>1. IsInjective(blocks[v])
          BY <1>2, <3>3 DEF Held, HeldBy, Own
        <4>2. PICK p : p = pool
          OBVIOUS
        <4>3. AfterDrop(FreeBlocks(p, Reverse(blocks[v])), Dropped(blocks, v), p, blocks)
          BY <1>2, <3>3, <4>1, <4>2, DropAgrees
        <4> QED
          BY <1>4, <3>2, <4>2, <4>3 DEF AfterDrop
      <3> QED
        BY <3>6, <3>7, <3>8
    <2> QED
      BY <2>1, <2>2
  <1>6. Shrinks(next, req, b2, blocks, h2, pool.hash, batch) /\ SameTokens(next, req, batch)
    <2>1. \A b \in Blocks : h2[b] \in {pool.hash[b], NoHash}
      BY <1>5
    <2> QED
      BY <1>5, <2>1, HaltsShrinks
  <1> QED
    BY <1>3, <1>4, <1>5, <1>6 DEF Leaves

-----------------------------------------------------------------------------
(* The steps that schedule a request *)

\* A table that begins with s is s and the rest.
LEMMA RestOfTable ==
  ASSUME NEW s \in Seq(Blocks), NEW u \in Seq(Blocks),
         \A i \in 1 .. Len(s) : i \in 1 .. Len(u) /\ u[i] = s[i]
  PROVE  s \o SubSeq(u, Len(s) + 1, Len(u)) = u
  <1>1. PICK a, b \in Nat : a = Len(s) /\ b = Len(u)
    BY LenProperties
  <1>2. a <= b
    <2>1. CASE a = 0
      BY <1>1, <2>1
    <2>2. CASE a # 0
      <3>1. a \in 1 .. a
        BY <1>1, <2>2
      <3> QED
        BY <1>1, <3>1
    <2> QED
      BY <2>1, <2>2
  <1>3. PICK w : w = SubSeq(u, a + 1, b)
    OBVIOUS
  <1>4. w \in Seq(Blocks) /\ Len(w) = b - a /\ \A i \in 1 .. b - a : w[i] = u[a + i]
    BY <1>1, <1>2, <1>3, PartMembers DEF PartOf
  <1>5. PICK v : v = s \o w
    OBVIOUS
  <1>6. Joined(Blocks, v, s, w)
    BY <1>4, <1>5, ConcatJoins
  <1>7. /\ v \in Seq(Blocks) /\ Len(v) = b /\ \A i \in 1 .. a : v[i] = s[i]
        /\ \A i \in a + 1 .. b : v[i] = w[i - a]
    BY <1>1, <1>2, <1>4, <1>6 DEF Joined
  <1>8. ASSUME NEW i \in 1 .. b PROVE v[i] = u[i]
    <2>1. CASE i <= a
      BY <1>1, <1>7, <2>1
    <2>2. CASE i > a
      <3>1. PICK j \in 1 .. b - a : i = a + j
        <4>1. i - a \in 1 .. b - a /\ i = a + (i - a)
          BY <1>1, <2>2
        <4> QED
          BY <4>1
      <3>2. i - a = j /\ i \in a + 1 .. b
        BY <1>1, <2>2, <3>1
      <3> QED
        BY <1>4, <1>7, <3>1, <3>2
    <2> QED
      BY <1>1, <2>1, <2>2
  <1>9. v = u
    BY <1>1, <1>7, <1>8, SeqEqual
  <1> QED
    BY <1>1, <1>3, <1>5, <1>9

\* A running request finds its tokens in the table it had, which the new one begins with.
LEMMA RunningWritten ==
  ASSUME NEW K, NEW s \in Seq(Blocks), NEW u \in Seq(Blocks), NEW n \in Nat, NEW toks,
         \A i \in 1 .. Len(s) : i \in 1 .. Len(u) /\ u[i] = s[i],
         Written(K, s, n, toks), Reaches(s, n)
  PROVE  Written(K, u, n, toks)
  <1>1. ASSUME NEW i \in 0 .. n - 1 PROVE K[Slot(u, i)] = Prefix(toks, i + 1)
    <2>1. i \in Nat /\ Page(i) \in 1 .. Len(s)
      BY DEF Reaches
    <2>2. u[Page(i)] = s[Page(i)]
      BY <2>1
    <2>3. Slot(u, i) = <<u[Page(i)], Offset(i)>> /\ Slot(s, i) = <<s[Page(i)], Offset(i)>>
      BY <2>1, Positions
    <2>4. K[Slot(s, i)] = Prefix(toks, i + 1)
      BY DEF Written
    <2> QED
      BY <2>2, <2>3, <2>4
  <1> QED
    BY <1>1 DEF Written

\* A waiting request finds the tokens of its hits in them: their hashes say so.
LEMMA HitsWritten ==
  ASSUME NEW K, NEW hash, NEW hits, NEW u \in Seq(Blocks), NEW toks \in Seq(Nat),
         Found(hits, hash, toks), Hashed(K, hash), Len(toks) > 0,
         \A i \in 1 .. Len(hits) : i \in 1 .. Len(u) /\ u[i] = hits[i]
  PROVE  Written(K, u, Len(hits) * BlockSize, toks)
  <1>1. /\ hits \in Seq(Blocks) /\ Filled(Len(hits), Len(toks) - 1)
        /\ \A i \in 1 .. Len(hits) : hash[hits[i]] = Prefix(toks, i * BlockSize)
        /\ \A b \in ToSet(hits) : hash[b] # NoHash
    BY DEF Found
  <1>2. PICK n \in Nat : n = Len(hits)
    BY <1>1, LenProperties
  <1>3. PICK w \in Nat : w = n * BlockSize
    BY <1>2, TimesOrder
  <1>4. PICK len \in Nat : len = Len(toks)
    BY LenProperties
  <1>5. w <= len
    BY <1>1, <1>2, <1>3, <1>4 DEF Filled
  <1>6. ASSUME NEW i \in 0 .. w - 1 PROVE K[Slot(u, i)] = Prefix(toks, i + 1)
    <2>1. i \in Nat /\ ~Filled(n, i)
      BY <1>3 DEF Filled
    <2>2. PICK k \in Nat \ {0}, o \in 1 .. BlockSize : k = Page(i) /\ o = Offset(i)
      BY <2>1, Positions
    <2>3. k \in 1 .. n
      <3>1. Page(i) <= n
        BY <1>2, <2>1, Positions
      <3> QED
        BY <1>2, <2>2, <3>1
    <2>4. PICK b : b = hits[k]
      OBVIOUS
    <2>5. b \in Blocks /\ b \in ToSet(hits)
      BY <1>1, <1>2, <2>3, <2>4, Members
    <2>6. PICK h : h = hash[b]
      OBVIOUS
    <2>7. h = Prefix(toks, k * BlockSize) /\ h # NoHash
      BY <1>1, <1>2, <2>3, <2>4, <2>5, <2>6
    <2>8. Filled(k, len)
      <3>1. k * BlockSize <= n * BlockSize /\ k * BlockSize \in Nat
        BY <1>2, <2>3, TimesOrder
      <3> QED
        BY <1>3, <1>4, <1>5, <3>1 DEF Filled
    <2>9. Prefix(h, (Len(h) - BlockSize) + o) = Prefix(toks, i + 1)
      BY <1>4, <2>1, <2>2, <2>7, <2>8, HashPrefix
    <2>10. K[<<b, o>>] = Prefix(h, (Len(h) - BlockSize) + o)
      BY <2>5, <2>6, <2>7 DEF Hashed, HashWritten
    <2>11. Slot(u, i) = <<b, o>>
      <3>1. Slot(u, i) = <<u[Page(i)], Offset(i)>>
        BY <2>1, Positions
      <3>2. u[k] = b
        BY <1>2, <2>3, <2>4
      <3> QED
        BY <2>2, <3>1, <3>2
    <2> QED
      BY <2>9, <2>10, <2>11
  <1> QED
    BY <1>2, <1>3, <1>6 DEF Written

\* A running request gets its new blocks behind those it has.
LEMMA RunningGrows ==
  ASSUME NEW t, NEW fin, NEW bt \in Seq(Entries), NEW b2, NEW e \in Entries, Extended(b2, bt, e),
         \A i \in 1 .. Len(bt) : bt[i].r # e.r, e.kind = "running"
  PROVE  TableOf(t, b2, fin)[e.r] = t[e.r] \o e.ids
  <1>1. PICK k : k = Len(bt) + 1
    OBVIOUS
  <1>2. b2 \in Seq(Entries) /\ k \in 1 .. Len(b2) /\ b2[k] = e /\ Distinct(b2)
    <2>1. Len(bt) \in Nat
      BY LenProperties
    <2> QED
      BY <1>1, <2>1 DEF Extended
  <1>3. TableOf(t, b2, fin)[b2[k].r] = IF b2[k].kind = "running" THEN t[b2[k].r] \o b2[k].ids ELSE b2[k].ids
    BY <1>2, TableOfEntry
  <1> QED
    BY <1>2, <1>3

\* What ScheduleRunning does to what the books foresee.
LEMMA RunningForeseen ==
  ASSUME NEW t, NEW m, NEW fin, NEW e, NEW a, NEW rq \in [Requests -> Reqs], NEW next,
         NEW bt \in Seq(Entries), NEW b2, NEW bl \in Tables, NEW f, NEW p, NEW z,
         EntryMade(e, bl[e.r], a, rq, next, bt, b2, bl, f, p, z), next = rq,
         Foreseen(t, m, bt, fin, bl, rq, p.hash), EntriesFit(bt, rq), Reaching(bl, rq, bt),
         FinishedGone(fin, rq), Lengths(rq, bt),
         e.kind = "running", rq[e.r].status = "running", AdvanceIn(bt, e.r) = 0,
         e.ids = SubSeq(f[e.r], Len(bl[e.r]) + 1, Len(f[e.r]))
  PROVE  Foreseen(t, m, b2, fin, f, next, z.hash) /\ Reaching(f, next, b2)
  <1>1. PICK r, T, K : r = e.r /\ T = TableOf(t, bt, fin) /\ K = CacheOf(T, m, bt)
    OBVIOUS
  <1>2. /\ e \in Entries /\ Extended(b2, bt, e) /\ \A i \in 1 .. Len(bt) : bt[i].r # r
        /\ e.tokens = rq[r].tokens /\ e.start = rq[r].computed
        /\ OwnBlocks(z, f[r], bl[r], p, bl, r, a) /\ f \in Tables
    BY <1>1 DEF EntryMade
  <1>3. r \in Requests /\ e.start \in Nat
    BY <1>1, <1>2 DEF Entries
  <1>4. PICK u, v : u = f[r] /\ v = bl[r] /\ u \in Seq(Blocks) /\ v \in Seq(Blocks)
    BY <1>2, <1>3 DEF Tables
  <1>5. \A i \in 1 .. Len(v) : i \in 1 .. Len(u) /\ u[i] = v[i]
    BY <1>2, <1>4 DEF OwnBlocks
  <1>6. r \notin fin
    BY <1>1 DEF FinishedGone
  <1>7. T[r] = t[r]
    <2>1. TableOf(t, bt, fin)[r] = IF r \in fin THEN <<>> ELSE t[r]
      BY <1>2, <1>3, TableOfOther
    <2> QED
      BY <1>1, <1>6, <2>1
  <1>8. Described(T, K, bl, rq, bt) /\ Hashed(K, p.hash)
    BY <1>1, Zenon DEF Foreseen
  <1>9. T[r] = v /\ Written(K, v, rq[r].computed + AdvanceIn(bt, r), rq[r].tokens)
    BY <1>1, <1>3, <1>4, <1>8 DEF Described, DescribedFor
  <1>10. rq[r].computed + AdvanceIn(bt, r) = e.start
    BY <1>1, <1>2, <1>3
  <1>11. Written(K, v, e.start, e.tokens) /\ Reaches(v, e.start)
    BY <1>1, <1>2, <1>3, <1>4, <1>9, <1>10 DEF Reaching
  <1>12. Written(K, u, e.start, e.tokens)
    BY <1>3, <1>4, <1>5, <1>11, RunningWritten
  <1>13. TableOf(t, b2, fin)[r] = u
    <2>5. e \in Entries /\ Extended(b2, bt, e) /\ \A i \in 1 .. Len(bt) : bt[i].r # e.r
      BY <1>1, <1>2
    <2>1. TableOf(t, b2, fin)[e.r] = t[e.r] \o e.ids
      BY <2>5, RunningGrows
    <2>4. e.ids = SubSeq(u, Len(v) + 1, Len(u)) /\ t[r] = v
      BY <1>1, <1>4, <1>7, <1>9, Zenon
    <2>2. TableOf(t, b2, fin)[r] = v \o SubSeq(u, Len(v) + 1, Len(u))
      BY <1>1, <2>1, <2>4, Zenon
    <2>3. v \o SubSeq(u, Len(v) + 1, Len(u)) = u
      BY <1>4, <1>5, RestOfTable
    <2> QED
      BY <2>2, <2>3
  <1>14. Len(e.tokens) <= MaxModelLen
    BY <1>2, <1>3 DEF Lengths, Bounded
  <1>15. PICK held : held = bl[e.r] /\ EntryMade(e, held, a, rq, next, bt, b2, bl, f, p, z)
    OBVIOUS
  <1>16. /\ TableOf(t, b2, fin)[e.r] = f[e.r]
         /\ Written(CacheOf(TableOf(t, bt, fin), m, bt), f[e.r], e.start, e.tokens)
    BY <1>1, <1>4, <1>12, <1>13
  <1> QED
    BY <1>14, <1>15, <1>16, MadeForeseen

\* What AdmitWaiting does to what the books foresee.
LEMMA FirstForeseen ==
  ASSUME NEW t, NEW m, NEW fin, NEW e, NEW hits, NEW a, NEW rq \in [Requests -> Reqs], NEW next,
         NEW bt \in Seq(Entries), NEW b2, NEW bl \in Tables, NEW f, NEW p, NEW z,
         EntryMade(e, hits, a, rq, next, bt, b2, bl, f, p, z),
         Foreseen(t, m, bt, fin, bl, rq, p.hash), EntriesFit(bt, rq), Reaching(bl, rq, bt),
         Lengths(rq, bt), e.kind # "running", e.ids = f[e.r],
         Found(hits, p.hash, e.tokens), e.start = Len(hits) * BlockSize
  PROVE  Foreseen(t, m, b2, fin, f, next, z.hash) /\ Reaching(f, next, b2)
  <1>1. PICK r, T, K : r = e.r /\ T = TableOf(t, bt, fin) /\ K = CacheOf(T, m, bt)
    OBVIOUS
  <1>2. /\ e \in Entries /\ Extended(b2, bt, e) /\ \A i \in 1 .. Len(bt) : bt[i].r # r
        /\ e.tokens = rq[r].tokens
        /\ OwnBlocks(z, f[r], hits, p, bl, r, a) /\ f \in Tables
    BY <1>1 DEF EntryMade
  <1>3. r \in Requests /\ e.start \in Nat /\ e.tokens \in Seq(Nat)
    BY <1>1, <1>2 DEF Entries
  <1>4. PICK u : u = f[r] /\ u \in Seq(Blocks)
    BY <1>2, <1>3 DEF Tables
  <1>5. \A i \in 1 .. Len(hits) : i \in 1 .. Len(u) /\ u[i] = hits[i]
    BY <1>2, <1>4 DEF OwnBlocks
  <1>6. Hashed(K, p.hash)
    BY <1>1, Zenon DEF Foreseen
  <1>7. Len(e.tokens) <= MaxModelLen /\ Len(e.tokens) > 0
    BY <1>2, <1>3, ServingAssumption DEF Lengths, Bounded
  <1>8. Written(K, u, Len(hits) * BlockSize, e.tokens)
    BY <1>3, <1>4, <1>5, <1>6, <1>7, HitsWritten
  <1>9. TableOf(t, b2, fin)[e.r] = u
    <2>1. TableOf(t, b2, fin)[e.r] = IF e.kind = "running" THEN t[e.r] \o e.ids ELSE e.ids
      BY <1>1, <1>2, TableGrows
    <2> QED
      BY <1>1, <1>4, <2>1
  <1>10. /\ TableOf(t, b2, fin)[e.r] = f[e.r]
         /\ Written(CacheOf(TableOf(t, bt, fin), m, bt), f[e.r], e.start, e.tokens)
    BY <1>1, <1>4, <1>8, <1>9
  <1> QED
    BY <1>7, <1>10, MadeForeseen

\* The batch gets an entry with which the books still foresee what the worker will have.
Makes ==
  /\ queue' = queue /\ table' = table /\ kv' = kv /\ reads' = reads /\ finished' = finished
  /\ FinishedGone(finished, req')
  /\ EntriesFit(batch', req')
  /\ \A t, m : Foreseen(t, m, batch, finished, blocks, req, pool.hash) =>
       Foreseen(t, m, batch', finished, blocks', req', pool'.hash) /\ Reaching(blocks', req', batch')

\* Such a step keeps the invariant.
LEMMA MakesKeeps ==
  ASSUME ReadInv, SchedInv', FullInv', Makes
  PROVE  ReadInv'
  <1>1. /\ DoneFirst(queue) /\ DOMAIN kv = Slots /\ ReadsOwnPrefix
        /\ Coming(queue, table, kv, batch, finished, blocks, req, pool.hash)
    BY DEF ReadInv, BooksInv
  <1>2. PICK qu, t, m : qu = queue /\ t = table /\ m = kv
    OBVIOUS
  <1>3. PICK tt, kk : /\ Chain(tt, kk, qu, t, m)
                      /\ Foreseen(tt[Len(qu)], kk[Len(qu)], batch, finished, blocks, req, pool.hash)
    BY <1>1, <1>2, Zenon DEF Coming
  <1>4. PICK fin, b2, f, next, h2 :
          fin = finished' /\ b2 = batch' /\ f = blocks' /\ next = req' /\ h2 = pool'.hash
    OBVIOUS
  <1>5. /\ Foreseen(tt[Len(qu)], kk[Len(qu)], b2, fin, f, next, h2) /\ Reaching(f, next, b2)
        /\ FinishedGone(fin, next) /\ EntriesFit(b2, next)
    BY <1>3, <1>4, Zenon DEF Makes
  <1>6. Coming(qu, t, m, b2, fin, f, next, h2)
    BY <1>3, <1>5, Zenon DEF Coming
  <1>7. /\ queue' = queue /\ table' = table /\ kv' = kv /\ reads' = reads
    BY DEF Makes
  <1>8. BooksInv'
    BY <1>2, <1>4, <1>5, <1>6, <1>7, Zenon DEF BooksInv
  <1>9. DoneFirst(queue)' /\ (DOMAIN kv = Slots)' /\ ReadsOwnPrefix'
    BY <1>1, <1>7 DEF DoneFirst, ReadsOwnPrefix
  <1> QED
    BY <1>8, <1>9 DEF ReadInv

\* ScheduleRunning is such a step.
LEMMA ScheduleRunningMakes ==
  ASSUME ReadInv, ScheduleRunning
  PROVE  Makes
  <1>1. /\ SchedInv /\ FinishedGone(finished, req) /\ EntriesFit(batch, req)
        /\ Reaching(blocks, req, batch)
    BY DEF ReadInv, BooksInv
  <1>2. /\ req \in [Requests -> Reqs] /\ blocks \in Tables /\ batch \in Seq(Entries)
        /\ Lengths(req, batch)
    BY <1>1 DEF SchedInv, SchedType
  <1>3. /\ queue' = queue /\ table' = table /\ kv' = kv /\ reads' = reads /\ finished' = finished
        /\ req' = req
    BY DEF ScheduleRunning, workVars
  <1>4. RunningEntry
    BY <1>1, ScheduleRunningKeeps
  <1>5. PICK b2, f, next, p, z, bt, bl, rq, fin :
          /\ b2 = batch' /\ f = blocks' /\ next = req' /\ p = pool /\ z = pool'
          /\ bt = batch /\ bl = blocks /\ rq = req /\ fin = finished
    OBVIOUS
  <1>6. PICK e, a : /\ EntryMade(e, bl[e.r], a, rq, next, bt, b2, bl, f, p, z)
                    /\ e.kind = "running" /\ rq[e.r].status = "running" /\ AdvanceIn(bt, e.r) = 0
                    /\ e.ids = SubSeq(f[e.r], Len(bl[e.r]) + 1, Len(f[e.r]))
    BY <1>4, <1>5, Zenon DEF RunningEntry
  <1>7. /\ rq \in [Requests -> Reqs] /\ bl \in Tables /\ bt \in Seq(Entries) /\ Lengths(rq, bt)
        /\ FinishedGone(fin, rq) /\ EntriesFit(bt, rq) /\ Reaching(bl, rq, bt) /\ next = rq
    BY <1>1, <1>2, <1>3, <1>5
  <1>8. EntriesFit(b2, next)
    BY <1>6, <1>7, MadeFits
  <1>9. ASSUME NEW t, NEW m, Foreseen(t, m, bt, fin, bl, rq, p.hash)
        PROVE  Foreseen(t, m, b2, fin, f, next, z.hash) /\ Reaching(f, next, b2)
    BY <1>6, <1>7, <1>9, RunningForeseen
  <1>10. /\ FinishedGone(finished, req') /\ EntriesFit(batch', req')
         /\ \A t, m : Foreseen(t, m, batch, finished, blocks, req, pool.hash) =>
              Foreseen(t, m, batch', finished, blocks', req', pool'.hash) /\ Reaching(blocks', req', batch')
    BY <1>5, <1>7, <1>8, <1>9, Zenon
  <1> QED
    BY <1>3, <1>10, Zenon DEF Makes

\* AdmitWaiting is such a step.
LEMMA AdmitWaitingMakes ==
  ASSUME ReadInv, AdmitWaiting
  PROVE  Makes
  <1>1. /\ SchedInv /\ FinishedGone(finished, req) /\ EntriesFit(batch, req)
        /\ Reaching(blocks, req, batch)
    BY DEF ReadInv, BooksInv
  <1>2. /\ req \in [Requests -> Reqs] /\ blocks \in Tables /\ batch \in Seq(Entries)
        /\ Lengths(req, batch) /\ waiting \in Seq(Requests) /\ InLine(running, waiting, req)
        /\ finished \in SUBSET Requests
    BY <1>1 DEF SchedInv, SchedType
  <1>3. /\ queue' = queue /\ table' = table /\ kv' = kv /\ reads' = reads /\ finished' = finished
        /\ waiting # <<>>
    BY DEF AdmitWaiting, CanAdmit, workVars
  <1>4. FirstEntry
    BY <1>1, AdmitWaitingKeeps
  <1>5. PICK b2, f, next, p, z, bt, bl, rq, fin :
          /\ b2 = batch' /\ f = blocks' /\ next = req' /\ p = pool /\ z = pool'
          /\ bt = batch /\ bl = blocks /\ rq = req /\ fin = finished
    OBVIOUS
  <1>6. PICK e, hits : /\ EntryMade(e, hits, Len(hits), rq, next, bt, b2, bl, f, p, z)
                       /\ e.kind # "running" /\ e.ids = f[e.r]
                       /\ Found(hits, p.hash, e.tokens) /\ e.start = Len(hits) * BlockSize
    BY <1>4, <1>5, Zenon DEF FirstEntry
  <1>7. /\ rq \in [Requests -> Reqs] /\ bl \in Tables /\ bt \in Seq(Entries) /\ Lengths(rq, bt)
        /\ FinishedGone(fin, rq) /\ EntriesFit(bt, rq) /\ Reaching(bl, rq, bt)
    BY <1>1, <1>2, <1>5
  <1>8. EntriesFit(b2, next)
    BY <1>6, <1>7, MadeFits
  <1>9. ASSUME NEW t, NEW m, Foreseen(t, m, bt, fin, bl, rq, p.hash)
        PROVE  Foreseen(t, m, b2, fin, f, next, z.hash) /\ Reaching(f, next, b2)
    <2>1. PICK a : a = Len(hits)
      OBVIOUS
    <2>2. EntryMade(e, hits, a, rq, next, bt, b2, bl, f, p, z)
      BY <1>6, <2>1
    <2> QED
      BY <1>6, <1>7, <1>9, <2>2, FirstForeseen, ZenonT(60)
  <1>10. FinishedGone(fin, next)
    <2>1. PICK r : r = Head(waiting)
      OBVIOUS
    <2>2. r \in Requests /\ req[r].status \in {"waiting", "preempted"}
      <3>1. r \in Requests /\ r \in ToSet(waiting)
        BY <1>2, <1>3, <2>1, LineHead DEF InLine
      <3> QED
        BY <1>2, <3>1 DEF InLine
    <2>3. PICK start : req' = [req EXCEPT ![r].status = "running", ![r].computed = start]
      BY <2>1 DEF AdmitWaiting
    <2>4. \A q \in Requests : q # r => next[q] = req[q]
      BY <1>2, <1>5, <2>2, <2>3
    <2> QED
      BY <1>1, <1>2, <1>5, <2>2, <2>4 DEF FinishedGone
  <1>11. /\ FinishedGone(finished, req') /\ EntriesFit(batch', req')
         /\ \A t, m : Foreseen(t, m, batch, finished, blocks, req, pool.hash) =>
              Foreseen(t, m, batch', finished, blocks', req', pool'.hash) /\ Reaching(blocks', req', batch')
    BY <1>5, <1>8, <1>9, <1>10, Zenon
  <1> QED
    BY <1>3, <1>11, Zenon DEF Makes

-----------------------------------------------------------------------------
(* The output goes to the worker *)

\* The tokens scheduled count as computed.
Counts(next, rq, bt) ==
  \A r \in Requests : /\ next[r].status = rq[r].status /\ next[r].tokens = rq[r].tokens
                      /\ next[r].computed = rq[r].computed + AdvanceIn(bt, r)

\* The books describe what the worker will have after the batch, as they did with it.
LEMMA SentForeseen ==
  ASSUME NEW t, NEW m, NEW bt \in Seq(Entries), NEW fin, NEW bl \in Tables,
         NEW rq \in [Requests -> Reqs], NEW next, NEW hash, NEW T, NEW K, NEW es, es = <<>>,
         Foreseen(t, m, bt, fin, bl, rq, hash), Reaching(bl, rq, bt), Counts(next, rq, bt),
         T = TableOf(t, bt, fin), K = CacheOf(T, m, bt)
  PROVE  Foreseen(T, K, es, {}, bl, next, hash) /\ Reaching(bl, next, es)
  <1>1. PICK T2, K2 : T2 = TableOf(T, es, {}) /\ K2 = CacheOf(T2, K, es)
    OBVIOUS
  <1>2. Described(T, K, bl, rq, bt) /\ Hashed(K, hash)
    BY Zenon DEF Foreseen
  <1>3. (\A r \in Requests : T2[r] = T[r]) /\ \A s \in Slots : K2[s] = K[s]
    <2>1. /\ \A r \in Requests : r \notin {} => TableOf(T, <<>>, {})[r] = T[r]
          /\ \A s \in Slots : CacheOf(T2, K, <<>>)[s] = K[s]
      BY NothingRuns, ZenonT(60)
    <2> QED
      BY <1>1, <2>1
  <1>4. \A r : AdvanceIn(es, r) = 0
    BY AdvanceEmpty
  <1>5. ASSUME NEW r \in Requests, next[r].status = "running"
        PROVE  DescribedFor(T2, K2, bl, next, es, r) /\ Reaches(bl[r], next[r].computed + AdvanceIn(es, r))
    <2>1. PICK w \in Nat : w = rq[r].computed + AdvanceIn(bt, r)
      <3>1. rq[r].computed \in Nat
        BY DEF Reqs
      <3>2. AdvanceIn(bt, r) \in Nat
        BY AdvanceType
      <3> QED
        BY <3>1, <3>2
    <2>2. /\ rq[r].status = "running" /\ next[r].tokens = rq[r].tokens
          /\ next[r].computed + AdvanceIn(es, r) = w
      BY <1>4, <1>5, <2>1 DEF Counts
    <2>3. /\ T[r] = bl[r] /\ Written(K, bl[r], w, rq[r].tokens)
      BY <1>2, <2>1, <2>2 DEF Described, DescribedFor
    <2>4. Reaches(bl[r], w) /\ bl[r] \in Seq(Blocks)
      BY <2>1, <2>2 DEF Reaching, Tables
    <2>5. ASSUME NEW i \in 0 .. w - 1 PROVE K2[Slot(bl[r], i)] = Prefix(next[r].tokens, i + 1)
      <3>1. Slot(bl[r], i) \in Slots
        <4>1. Page(i) \in 1 .. Len(bl[r]) /\ i \in Nat
          BY <2>4 DEF Reaches
        <4> QED
          BY <2>4, <4>1, SlotOfTable
      <3>2. K[Slot(bl[r], i)] = Prefix(rq[r].tokens, i + 1)
        BY <2>3 DEF Written
      <3> QED
        BY <1>3, <2>2, <3>1, <3>2
    <2>6. Written(K2, bl[r], w, next[r].tokens)
      BY <2>5 DEF Written
    <2> QED
      BY <1>3, <2>2, <2>3, <2>4, <2>6 DEF DescribedFor
  <1>6. ASSUME NEW b \in Blocks, hash[b] # NoHash PROVE HashWritten(K2, b, hash[b])
    <2>1. HashWritten(K, b, hash[b])
      BY <1>2, <1>6 DEF Hashed
    <2>2. \A o \in 1 .. BlockSize : <<b, o>> \in Slots
      BY DEF Slots
    <2> QED
      BY <1>3, <2>1, <2>2 DEF HashWritten
  <1>7. Described(T2, K2, bl, next, es) /\ Hashed(K2, hash) /\ Reaching(bl, next, es)
    BY <1>5, <1>6 DEF Described, Hashed, Reaching
  <1> QED
    BY <1>1, <1>7, Zenon DEF Foreseen

\* Every entry of the batch will read its own tokens.
LEMMA BatchReadsOwn ==
  ASSUME NEW bt \in Seq(Entries), NEW T, NEW K, NEW bl, NEW rq, Described(T, K, bl, rq, bt),
         EntriesFit(bt, rq), NEW i \in 1 .. Len(bt)
  PROVE  ReadsOwn(bt[i], T, K)
  <1>1. PICK e : e = bt[i]
    OBVIOUS
  <1>2. e \in Entries
    <2> DEFINE E == Entries
    <2>1. bt \in Seq(E)
      OBVIOUS
    <2> HIDE DEF E
    <2>2. e \in E
      BY <1>1, <2>1, Members
    <2> QED
      BY <2>2 DEF E
  <1>3. e.r \in Requests /\ e.start \in Nat /\ e.n \in Nat
    BY <1>2 DEF Entries
  <1>4. /\ rq[e.r].status = "running" /\ e.tokens = rq[e.r].tokens
        /\ rq[e.r].computed + AdvanceIn(bt, e.r) = e.start + e.n
    BY <1>1, <1>3 DEF EntriesFit, EntryFits
  <1>5. T[e.r] = bl[e.r] /\ Written(K, bl[e.r], e.start + e.n, e.tokens)
    BY <1>3, <1>4 DEF Described, DescribedFor
  <1> QED
    BY <1>1, <1>5 DEF ReadsOwn

\* u is the queue qu with the output o on top, which is still to run.
Queued(u, qu, o) ==
  /\ Len(u) = Len(qu) + 1 /\ u[Len(qu) + 1] = o /\ ~o.done
  /\ \A j \in 1 .. Len(qu) : u[j] = qu[j]

\* The worker gets from t and m to T and K.
ChainTo(qu, t, m, T, K) ==
  \E tt, kk : Chain(tt, kk, qu, t, m) /\ tt[Len(qu)] = T /\ kk[Len(qu)] = K

\* The outputs with the worker run as before, and then the new one.
LEMMA ChainGrows ==
  ASSUME NEW tt, NEW kk, NEW qu \in Seq(Outs), NEW t, NEW m, Chain(tt, kk, qu, t, m),
         NEW u, NEW o, Queued(u, qu, o), NEW T, NEW K,
         T = TableOf(tt[Len(qu)], o.entries, o.finished), K = CacheOf(T, kk[Len(qu)], o.entries),
         \A i \in 1 .. Len(o.entries) : ReadsOwn(o.entries[i], T, K)
  PROVE  ChainTo(u, t, m, T, K)
  <1>1. PICK n \in Nat : n = Len(qu)
    BY LenProperties
  <1> DEFINE t2 == [j \in 0 .. n + 1 |-> IF j = n + 1 THEN T ELSE tt[j]]
             k2 == [j \in 0 .. n + 1 |-> IF j = n + 1 THEN K ELSE kk[j]]
  <1>2. /\ t2[n + 1] = T /\ k2[n + 1] = K /\ \A j \in 0 .. n : t2[j] = tt[j] /\ k2[j] = kk[j]
    BY <1>1
  <1> HIDE DEF t2, k2
  <1>3. /\ Len(u) = n + 1 /\ u[n + 1] = o /\ ~o.done /\ \A j \in 1 .. n : u[j] = qu[j]
    BY <1>1 DEF Queued
  <1>4. t2[0] = t /\ k2[0] = m
    BY <1>1, <1>2 DEF Chain
  <1>5. ASSUME NEW j \in 1 .. n
        PROVE  /\ u[j].done => t2[j] = t /\ k2[j] = m
               /\ ~u[j].done => Runs(t2, k2, u[j], j)
    <2>1. /\ qu[j].done => tt[j] = t /\ kk[j] = m
          /\ ~qu[j].done => Runs(tt, kk, qu[j], j)
      BY <1>1 DEF Chain
    <2>2. j \in 0 .. n /\ j - 1 \in 0 .. n
      BY <1>1
    <2>3. t2[j] = tt[j] /\ k2[j] = kk[j] /\ t2[j - 1] = tt[j - 1] /\ k2[j - 1] = kk[j - 1]
      BY <1>2, <2>2
    <2>4. Runs(tt, kk, qu[j], j) => Runs(t2, k2, qu[j], j)
      BY <2>3, Zenon DEF Runs
    <2> QED
      BY <1>3, <2>1, <2>3, <2>4
  <1>6. Runs(t2, k2, o, n + 1)
    <2>1. t2[(n + 1) - 1] = tt[n] /\ k2[(n + 1) - 1] = kk[n]
      BY <1>1, <1>2
    <2>2. /\ T = TableOf(tt[n], o.entries, o.finished) /\ K = CacheOf(T, kk[n], o.entries)
      BY <1>1
    <2> QED
      BY <1>2, <2>1, <2>2, Zenon DEF Runs
  <1>7. ASSUME NEW j \in 1 .. n + 1
        PROVE  /\ u[j].done => t2[j] = t /\ k2[j] = m
               /\ ~u[j].done => Runs(t2, k2, u[j], j)
    <2>1. CASE j = n + 1
      BY <1>3, <1>6, <2>1
    <2>2. CASE j # n + 1
      <3>1. j \in 1 .. n
        BY <1>1, <2>2
      <3> QED
        BY <1>5, <3>1
    <2> QED
      BY <2>1, <2>2
  <1>8. Chain(t2, k2, u, t, m)
    BY <1>3, <1>4, <1>7 DEF Chain
  <1>9. t2[Len(u)] = T /\ k2[Len(u)] = K
    BY <1>2, <1>3
  <1> QED
    BY <1>8, <1>9 DEF ChainTo

\* Send: the books are about what the worker will have after one output more.
LEMMA SendReads ==
  ASSUME ReadInv, FullInv', Send
  PROVE  ReadInv'
  <1>1. /\ SchedInv /\ FinishedGone(finished, req) /\ EntriesFit(batch, req)
        /\ Reaching(blocks, req, batch) /\ DoneFirst(queue) /\ DOMAIN kv = Slots /\ ReadsOwnPrefix
        /\ Coming(queue, table, kv, batch, finished, blocks, req, pool.hash)
    BY DEF ReadInv, BooksInv
  <1>2. /\ req \in [Requests -> Reqs] /\ blocks \in Tables /\ batch \in Seq(Entries)
        /\ queue \in Seq(Outs)
    BY <1>1 DEF SchedInv, SchedType
  <1>3. PICK o, u : o = [entries |-> batch, finished |-> finished, done |-> FALSE]
                    /\ u = Append(queue, o)
    OBVIOUS
  <1>4. /\ req' = [r \in Requests |-> [req[r] EXCEPT !.computed = @ + AdvanceIn(batch, r)]]
        /\ finished' = {} /\ queue' = u /\ batch' = <<>>
        /\ pool' = pool /\ blocks' = blocks /\ table' = table /\ kv' = kv /\ reads' = reads
    <2>1. \A r : Advance(r) = AdvanceIn(batch, r)
      BY Zenon DEF Advance, AdvanceIn
    <2> QED
      BY <1>3, <2>1 DEF Send, workVars
  <1>5. PICK next, es, bt, fin, bl, rq, hash, qu, t, m :
          /\ next = req' /\ es = batch' /\ bt = batch /\ fin = finished /\ bl = blocks /\ rq = req
          /\ hash = pool.hash /\ qu = queue /\ t = table /\ m = kv
    OBVIOUS
  <1>6. Counts(next, rq, bt)
    BY <1>2, <1>4, <1>5 DEF Counts, Reqs
  <1>7. o.entries = bt /\ o.finished = fin /\ ~o.done
    BY <1>3, <1>5
  <1>8. Queued(u, qu, o)
    <2>1. /\ Len(u) = Len(qu) + 1 /\ u[Len(qu) + 1] = o /\ \A j \in 1 .. Len(qu) : u[j] = qu[j]
      <3>1. PICK X : qu \in Seq(X) /\ o \in X
        <4>1. qu \in Seq(Outs \cup {o})
          <5>1. PICK n \in Nat : qu \in [1 .. n -> Outs]
            BY <1>2, <1>5, SeqDef
          <5>2. qu \in [1 .. n -> Outs \cup {o}]
            BY <5>1
          <5> QED
            BY <5>1, <5>2, SeqDef
        <4> QED
          BY <4>1
      <3> QED
        BY <1>3, <1>5, <3>1, AppendProperties
    <2> QED
      BY <1>7, <2>1 DEF Queued
  <1>9. PICK tt, kk : /\ Chain(tt, kk, qu, t, m)
                      /\ Foreseen(tt[Len(qu)], kk[Len(qu)], bt, fin, bl, rq, hash)
    BY <1>1, <1>5, Zenon DEF Coming
  <1>10. PICK T, K : T = TableOf(tt[Len(qu)], bt, fin) /\ K = CacheOf(T, kk[Len(qu)], bt)
    OBVIOUS
  <1>11. Described(T, K, bl, rq, bt)
    BY <1>9, <1>10, Zenon DEF Foreseen
  <1>12. /\ rq \in [Requests -> Reqs] /\ bl \in Tables /\ bt \in Seq(Entries) /\ qu \in Seq(Outs)
         /\ EntriesFit(bt, rq) /\ Reaching(bl, rq, bt)
    BY <1>1, <1>2, <1>5
  <1>13. \A i \in 1 .. Len(bt) : ReadsOwn(bt[i], T, K)
    BY <1>11, <1>12, BatchReadsOwn
  <1>14. PICK t2, k2 : Chain(t2, k2, u, t, m) /\ t2[Len(u)] = T /\ k2[Len(u)] = K
    <2>1. /\ T = TableOf(tt[Len(qu)], o.entries, o.finished) /\ K = CacheOf(T, kk[Len(qu)], o.entries)
          /\ \A i \in 1 .. Len(o.entries) : ReadsOwn(o.entries[i], T, K)
      BY <1>7, <1>10, <1>13
    <2>2. ChainTo(u, t, m, T, K)
      BY <1>8, <1>9, <1>12, <2>1, ChainGrows
    <2> QED
      BY <2>2 DEF ChainTo
  <1>15. Foreseen(T, K, es, {}, bl, next, hash) /\ Reaching(bl, next, es)
    <2>1. PICK tl, ml : tl = tt[Len(qu)] /\ ml = kk[Len(qu)]
      OBVIOUS
    <2>2. /\ Foreseen(tl, ml, bt, fin, bl, rq, hash) /\ T = TableOf(tl, bt, fin) /\ K = CacheOf(T, ml, bt)
      BY <1>9, <1>10, <2>1
    <2>3. es = <<>>
      BY <1>4, <1>5
    <2> QED
      BY <1>6, <1>12, <2>2, <2>3, SentForeseen
  <1>16. Coming(u, t, m, es, {}, bl, next, hash)
    <2>1. Foreseen(t2[Len(u)], k2[Len(u)], es, {}, bl, next, hash)
      BY <1>14, <1>15
    <2> QED
      BY <1>14, <2>1, Zenon DEF Coming
  <1>17. FinishedGone({}, next)
    BY DEF FinishedGone
  <1>18. EntriesFit(es, next)
    <2>1. 1 .. Len(es) = {}
      BY <1>4, <1>5
    <2> QED
      BY <2>1 DEF EntriesFit
  <1>19. BooksInv'
    BY <1>4, <1>5, <1>15, <1>16, <1>17, <1>18, Zenon DEF BooksInv
  <1>20. DoneFirst(u)
    <2>1. PICK n \in Nat : n = Len(qu)
      BY <1>12, LenProperties
    <2>2. /\ Len(u) = n + 1 /\ ~u[n + 1].done /\ \A j \in 1 .. n : u[j] = qu[j]
      BY <1>8, <2>1 DEF Queued
    <2>3. ASSUME NEW i \in 1 .. n + 1, NEW j \in 1 .. n + 1, i < j, u[j].done PROVE u[i].done
      <3>1. i \in 1 .. n /\ j \in 1 .. n
        BY <2>1, <2>2, <2>3
      <3> QED
        BY <1>1, <1>5, <2>1, <2>2, <2>3, <3>1 DEF DoneFirst
    <2> QED
      BY <2>2, <2>3 DEF DoneFirst
  <1>21. DoneFirst(queue)' /\ (DOMAIN kv = Slots)' /\ ReadsOwnPrefix'
    BY <1>1, <1>4, <1>20 DEF DoneFirst, ReadsOwnPrefix
  <1>22. SchedInv'
    BY <1>1, SendKeeps
  <1> QED
    BY <1>19, <1>21, <1>22 DEF ReadInv

-----------------------------------------------------------------------------
(* The worker runs an output *)

\* u is the queue qu once its k-th output, the first that was not, is done.
Done(u, qu, k) ==
  /\ k \in 1 .. Len(qu) /\ Len(u) = Len(qu)
  /\ ~qu[k].done /\ \A j \in 1 .. k - 1 : qu[j].done
  /\ u[k].done /\ u[k].entries = qu[k].entries
  /\ \A j \in 1 .. Len(qu) : j # k => u[j] = qu[j]

\* From t and m the worker gets to T and K by the output o, whose entries read their own tokens.
Step(T, K, t, m, o) ==
  /\ T = TableOf(t, o.entries, o.finished)
  /\ K = CacheOf(T, m, o.entries)
  /\ \A i \in 1 .. Len(o.entries) : ReadsOwn(o.entries[i], T, K)

\* The output that the worker runs next is the first of those still to run.
LEMMA NextRuns ==
  ASSUME NEW tt, NEW kk, NEW qu, NEW t, NEW m, Chain(tt, kk, qu, t, m), NEW u, NEW k, Done(u, qu, k),
         Len(qu) \in Nat
  PROVE  Step(tt[k], kk[k], t, m, qu[k])
  <1>1. k \in 1 .. Len(qu) /\ ~qu[k].done /\ \A j \in 1 .. k - 1 : qu[j].done
    BY DEF Done
  <1>2. tt[k - 1] = t /\ kk[k - 1] = m
    <2>1. CASE k = 1
      BY <2>1 DEF Chain
    <2>2. CASE k # 1
      <3>1. k - 1 \in 1 .. k - 1 /\ k - 1 \in 1 .. Len(qu)
        BY <1>1, <2>2
      <3> QED
        BY <1>1, <3>1 DEF Chain
    <2> QED
      BY <2>1, <2>2
  <1>3. Runs(tt, kk, qu[k], k)
    BY <1>1 DEF Chain
  <1> QED
    BY <1>2, <1>3, Zenon DEF Runs, Step

\* The outputs behind it run as before.
LEMMA ChainRuns ==
  ASSUME NEW tt, NEW kk, NEW qu, NEW t, NEW m, Chain(tt, kk, qu, t, m), NEW u, NEW k, Done(u, qu, k),
         NEW n \in Nat, n = Len(qu), DoneFirst(qu), NEW T, NEW K, T = tt[k], K = kk[k]
  PROVE  ChainTo(u, T, K, tt[n], kk[n])
  <1>1. /\ k \in 1 .. n /\ Len(u) = n /\ ~qu[k].done /\ u[k].done
        /\ \A j \in 1 .. n : j # k => u[j] = qu[j]
        /\ \A j \in 1 .. k - 1 : qu[j].done
    BY DEF Done
  <1> DEFINE t2 == [j \in 0 .. n |-> IF j <= k THEN T ELSE tt[j]]
             k2 == [j \in 0 .. n |-> IF j <= k THEN K ELSE kk[j]]
  <1>2. /\ \A j \in 0 .. k : t2[j] = T /\ k2[j] = K
        /\ \A j \in k .. n : t2[j] = tt[j] /\ k2[j] = kk[j]
    BY <1>1
  <1> HIDE DEF t2, k2
  <1>3. ASSUME NEW j \in 1 .. n
        PROVE  /\ u[j].done => t2[j] = T /\ k2[j] = K
               /\ ~u[j].done => Runs(t2, k2, u[j], j)
    <2>1. CASE j < k
      <3>1. u[j].done /\ j \in 0 .. k
        BY <1>1, <2>1
      <3> QED
        BY <1>2, <3>1
    <2>2. CASE j = k
      <3>1. u[j].done /\ j \in 0 .. k
        BY <1>1, <2>2
      <3> QED
        BY <1>2, <3>1
    <2>3. CASE j > k
      <3>1. u[j] = qu[j] /\ j \in k .. n /\ j - 1 \in k .. n
        BY <1>1, <2>3
      <3>2. ~qu[j].done
        BY <1>1, <2>3 DEF DoneFirst
      <3>3. Runs(tt, kk, qu[j], j)
        BY <3>2 DEF Chain
      <3>4. t2[j] = tt[j] /\ k2[j] = kk[j] /\ t2[j - 1] = tt[j - 1] /\ k2[j - 1] = kk[j - 1]
        BY <1>2, <3>1
      <3>5. Runs(t2, k2, qu[j], j)
        BY <3>3, <3>4, Zenon DEF Runs
      <3> QED
        BY <3>1, <3>2, <3>5
    <2> QED
      BY <1>1, <2>1, <2>2, <2>3
  <1>4. t2[0] = T /\ k2[0] = K /\ t2[n] = tt[n] /\ k2[n] = kk[n]
    BY <1>1, <1>2
  <1>5. Chain(t2, k2, u, T, K)
    BY <1>1, <1>3, <1>4 DEF Chain
  <1> QED
    BY <1>1, <1>4, <1>5 DEF ChainTo

\* What the entries read, from the tables T and the cache K.
ReadOf(es, T, K) ==
  {[tokens |-> e.tokens, read |-> [i \in 1 .. e.start + e.n |-> K[Slot(T[e.r], i - 1)]]] : e \in ToSet(es)}

\* It is their own tokens.
LEMMA ReadOwn ==
  ASSUME NEW es \in Seq(Entries), NEW T, NEW K, \A i \in 1 .. Len(es) : ReadsOwn(es[i], T, K),
         NEW x \in ReadOf(es, T, K), NEW i \in DOMAIN x.read
  PROVE  x.read[i] = Prefix(x.tokens, i)
  <1>1. PICK e \in ToSet(es) :
          x = [tokens |-> e.tokens, read |-> [j \in 1 .. e.start + e.n |-> K[Slot(T[e.r], j - 1)]]]
    BY DEF ReadOf
  <1>2. e \in Entries /\ \E j \in 1 .. Len(es) : es[j] = e
    <2> DEFINE E == Entries
    <2>1. es \in Seq(E)
      OBVIOUS
    <2> HIDE DEF E
    <2>2. e \in E /\ \E j \in 1 .. Len(es) : es[j] = e
      BY <2>1, Members
    <2> QED
      BY <2>2 DEF E
  <1>3. ReadsOwn(e, T, K)
    BY <1>2
  <1>4. PICK w \in Nat : w = e.start + e.n
    BY <1>2 DEF Entries
  <1>5. i \in 1 .. w /\ x.tokens = e.tokens /\ x.read[i] = K[Slot(T[e.r], i - 1)]
    BY <1>1, <1>4
  <1>6. PICK j : j = i - 1 /\ j \in 0 .. w - 1 /\ j + 1 = i
    <2>1. i - 1 \in 0 .. w - 1 /\ (i - 1) + 1 = i
      BY <1>4, <1>5
    <2> QED
      BY <2>1
  <1>7. K[Slot(T[e.r], j)] = Prefix(e.tokens, j + 1)
    BY <1>3, <1>4, <1>6 DEF ReadsOwn, Written
  <1> QED
    BY <1>5, <1>6, <1>7

\* What Execute does, in these words.
LEMMA ExecuteRuns ==
  ASSUME SchedInv, Execute, DOMAIN kv = Slots
  PROVE  \E k : /\ Done(queue', queue, k)
                /\ table' = TableOf(table, queue[k].entries, queue[k].finished)
                /\ kv' = CacheOf(table', kv, queue[k].entries)
                /\ reads' = ReadOf(queue[k].entries, table', kv')
  <1>1. queue \in Seq(Outs)
    BY DEF SchedInv, SchedType
  <1>0. PICK qu : qu = queue
    OBVIOUS
  <1>2. PICK n \in Nat : qu = queue /\ n = Len(qu) /\ DOMAIN qu = 1 .. n /\ qu \in [1 .. n -> Outs]
    BY <1>0, <1>1, LenProperties
  <1>3. PICK k \in DOMAIN queue :
          /\ ~queue[k].done /\ \A j \in 1 .. k - 1 : queue[j].done
          /\ LET out == queue[k]
                 t == TableAfter(out)
                 Writes(s) == {x \in ToSet(out.entries) \X (0 .. MaxModelLen - 1) :
                                 /\ x[2] \in x[1].start .. x[1].start + x[1].n - 1
                                 /\ Slot(t[x[1].r], x[2]) = s}
                 Content(s) == IF Writes(s) = {} THEN kv[s]
                               ELSE LET w == CHOOSE x \in Writes(s) : TRUE
                                    IN  Prefix(w[1].tokens, w[2] + 1)
             IN  /\ table' = t
                 /\ kv' = [s \in DOMAIN kv |-> Content(s)]
                 /\ reads' = {[tokens |-> e.tokens,
                               read |-> [i \in 1 .. e.start + e.n |-> kv'[Slot(t[e.r], i - 1)]]] :
                                e \in ToSet(out.entries)}
          /\ queue' = [queue EXCEPT ![k].done = TRUE]
    BY Zenon DEF Execute
  <1>4. PICK o, es, T, m : o = queue[k] /\ es = o.entries /\ T = TableAfter(queue[k]) /\ m = kv
    OBVIOUS
  <1>5. table' = T /\ T = TableOf(table, es, o.finished)
    <2>1. table' = T
      BY <1>3, <1>4, Zenon
    <2>2. TableAfter(o) = TableOf(table, o.entries, o.finished)
      BY Zenon DEF TableAfter, TableOf
    <2> QED
      BY <1>4, <2>1, <2>2
  <1>6. kv' = CacheOf(T, m, es)
    <2>1. kv' = [s \in DOMAIN kv |-> IF WritesTo(TableAfter(queue[k]), queue[k].entries, s) = {} THEN kv[s]
                   ELSE LET w == CHOOSE x \in WritesTo(TableAfter(queue[k]), queue[k].entries, s) : TRUE
                        IN  Prefix(w[1].tokens, w[2] + 1)]
      BY <1>3, Zenon DEF WritesTo
    <2>2. kv' = CacheOf(TableAfter(queue[k]), kv, queue[k].entries)
      BY <2>1, Zenon DEF CacheOf
    <2> QED
      BY <1>4, <2>2
  <1>7. reads' = ReadOf(es, T, kv')
    <2>1. reads' = {[tokens |-> e.tokens,
                     read |-> [i \in 1 .. e.start + e.n |-> kv'[Slot(TableAfter(queue[k])[e.r], i - 1)]]] :
                      e \in ToSet(queue[k].entries)}
      BY <1>3, Zenon
    <2>2. reads' = {[tokens |-> e.tokens, read |-> [i \in 1 .. e.start + e.n |-> kv'[Slot(T[e.r], i - 1)]]] :
                      e \in ToSet(es)}
      BY <1>4, <2>1, ZenonT(60)
    <2> QED
      BY <2>2, Zenon DEF ReadOf
  <1>8. Done(queue', queue, k)
    <2>1. PICK u : u = queue'
      OBVIOUS
    <2>2. /\ u \in [1 .. n -> Outs] /\ u[k].done /\ u[k].entries = qu[k].entries
          /\ \A j \in 1 .. n : j # k => u[j] = qu[j]
      BY <1>2, <1>3, <2>1, ZenonT(60) DEF Outs
    <2>3. Len(u) = n
      BY <1>2, <2>2, SeqDef, LenProperties
    <2> QED
      BY <1>2, <1>3, <2>1, <2>2, <2>3 DEF Done
  <1> QED
    BY <1>4, <1>5, <1>6, <1>7, <1>8, Zenon

\* Execute: the worker gets where the books expect it.
LEMMA ExecuteReads ==
  ASSUME ReadInv, FullInv', Execute
  PROVE  ReadInv'
  <1>1. /\ SchedInv /\ FinishedGone(finished, req) /\ EntriesFit(batch, req)
        /\ Reaching(blocks, req, batch) /\ DoneFirst(queue) /\ DOMAIN kv = Slots
        /\ Coming(queue, table, kv, batch, finished, blocks, req, pool.hash)
    BY DEF ReadInv, BooksInv
  <1>2. /\ pool' = pool /\ req' = req /\ blocks' = blocks /\ finished' = finished /\ batch' = batch
    BY DEF Execute, schedVars, loopVars
  <1>3. PICK qu, u, t, m, T, K : /\ qu = queue /\ u = queue' /\ t = table /\ m = kv
                                 /\ T = table' /\ K = kv'
    OBVIOUS
  <1>4. PICK k : /\ Done(u, qu, k)
                 /\ T = TableOf(t, qu[k].entries, qu[k].finished)
                 /\ K = CacheOf(T, m, qu[k].entries)
                 /\ reads' = ReadOf(qu[k].entries, T, K)
    BY <1>1, <1>3, ExecuteRuns, Zenon
  <1>5. PICK tt, kk : /\ Chain(tt, kk, qu, t, m)
                      /\ Foreseen(tt[Len(qu)], kk[Len(qu)], batch, finished, blocks, req, pool.hash)
    BY <1>1, <1>3, Zenon DEF Coming
  <1>6. qu \in Seq(Outs) /\ Len(qu) \in Nat /\ k \in 1 .. Len(qu)
    <2>1. qu \in Seq(Outs)
      BY <1>1, <1>3 DEF SchedInv, SchedType
    <2> QED
      BY <1>4, <2>1, LenProperties DEF Done
  <1>7. Step(tt[k], kk[k], t, m, qu[k])
    BY <1>4, <1>5, <1>6, NextRuns
  <1>8. T = tt[k] /\ K = kk[k] /\ \A i \in 1 .. Len(qu[k].entries) : ReadsOwn(qu[k].entries[i], T, K)
    BY <1>4, <1>7 DEF Step
  <1>9. PICK n \in Nat : n = Len(qu)
    BY <1>6
  <1>10. ChainTo(u, T, K, tt[n], kk[n])
    <2>1. DoneFirst(qu)
      BY <1>1, <1>3
    <2> QED
      BY <1>4, <1>5, <1>8, <1>9, <2>1, ChainRuns
  <1>11. Coming(u, T, K, batch, finished, blocks, req, pool.hash)
    <2>1. PICK t2, k2 : Chain(t2, k2, u, T, K) /\ t2[Len(u)] = tt[n] /\ k2[Len(u)] = kk[n]
      BY <1>10 DEF ChainTo
    <2>2. Foreseen(t2[Len(u)], k2[Len(u)], batch, finished, blocks, req, pool.hash)
      BY <1>5, <1>9, <2>1
    <2> QED
      BY <2>1, <2>2, Zenon DEF Coming
  <1>12. BooksInv'
    BY <1>1, <1>2, <1>3, <1>11, Zenon DEF BooksInv
  <1>13. DoneFirst(u)
    <2>1. /\ Len(u) = n /\ u[k].done /\ \A j \in 1 .. n : j # k => u[j] = qu[j]
          /\ \A j \in 1 .. k - 1 : qu[j].done
      BY <1>4, <1>9 DEF Done
    <2>2. ASSUME NEW i \in 1 .. n, NEW j \in 1 .. n, i < j, u[j].done PROVE u[i].done
      <3>1. CASE i = k
        BY <2>1, <3>1
      <3>2. CASE i # k /\ j = k
        <4>1. i \in 1 .. k - 1
          BY <1>6, <2>2, <3>2
        <4> QED
          BY <2>1, <3>2, <4>1
      <3>3. CASE i # k /\ j # k
        BY <1>1, <1>3, <1>9, <2>1, <2>2, <3>3 DEF DoneFirst
      <3> QED
        BY <3>1, <3>2, <3>3
    <2> QED
      BY <2>1, <2>2 DEF DoneFirst
  <1>14. (DOMAIN kv = Slots)'
    <2>1. DOMAIN K = Slots
      BY <1>4 DEF CacheOf
    <2> QED
      BY <1>3, <2>1
  <1>15. ReadsOwnPrefix'
    <2>1. PICK es : es = qu[k].entries
      OBVIOUS
    <2>2. es \in Seq(Entries)
      <3>1. qu[k] \in Outs
        BY <1>6, LenProperties
      <3> QED
        BY <2>1, <3>1 DEF Outs
    <2>3. \A i \in 1 .. Len(es) : ReadsOwn(es[i], T, K)
      BY <1>8, <2>1
    <2>4. ASSUME NEW x \in ReadOf(es, T, K), NEW i \in DOMAIN x.read PROVE x.read[i] = Prefix(x.tokens, i)
      BY <2>2, <2>3, ReadOwn
    <2>5. reads' = ReadOf(es, T, K)
      BY <1>4, <2>1
    <2> QED
      BY <2>4, <2>5, Zenon DEF ReadsOwnPrefix
  <1>16. SchedInv'
    BY <1>1, ExecuteKeeps
  <1>17. DoneFirst(queue)'
    BY <1>3, <1>13
  <1> QED
    BY <1>12, <1>14, <1>15, <1>16, <1>17 DEF ReadInv

-----------------------------------------------------------------------------
(* The output comes back *)

\* u is the queue qu without its first output, which is done.
Behind(u, qu) ==
  /\ Len(qu) > 0 /\ Len(u) = Len(qu) - 1 /\ qu[1].done
  /\ \A j \in 1 .. Len(qu) - 1 : u[j] = qu[j + 1]

\* The outputs behind it run as before.
LEMMA ChainBehind ==
  ASSUME NEW tt, NEW kk, NEW qu, NEW t, NEW m, Chain(tt, kk, qu, t, m), NEW u, Behind(u, qu),
         NEW n \in Nat, n = Len(qu)
  PROVE  ChainTo(u, t, m, tt[n], kk[n])
  <1>1. n > 0 /\ Len(u) = n - 1 /\ qu[1].done /\ \A j \in 1 .. n - 1 : u[j] = qu[j + 1]
    BY DEF Behind
  <1> DEFINE t2 == [j \in 0 .. n - 1 |-> tt[j + 1]]
             k2 == [j \in 0 .. n - 1 |-> kk[j + 1]]
  <1>2. \A j \in 0 .. n - 1 : t2[j] = tt[j + 1] /\ k2[j] = kk[j + 1]
    OBVIOUS
  <1> HIDE DEF t2, k2
  <1>3. t2[0] = t /\ k2[0] = m
    <2>1. 1 \in 1 .. n /\ 0 \in 0 .. n - 1 /\ 0 + 1 = 1
      BY <1>1
    <2>2. tt[1] = t /\ kk[1] = m
      BY <1>1, <2>1 DEF Chain
    <2> QED
      BY <1>2, <2>1, <2>2
  <1>4. t2[n - 1] = tt[n] /\ k2[n - 1] = kk[n]
    BY <1>1, <1>2
  <1>5. ASSUME NEW j \in 1 .. n - 1
        PROVE  /\ u[j].done => t2[j] = t /\ k2[j] = m
               /\ ~u[j].done => Runs(t2, k2, u[j], j)
    <2>1. PICK i : i = j + 1
      OBVIOUS
    <2>2. i \in 1 .. n /\ j \in 0 .. n - 1 /\ j - 1 \in 0 .. n - 1 /\ i - 1 = (j - 1) + 1
      BY <1>1, <2>1
    <2>3. t2[j] = tt[i] /\ k2[j] = kk[i] /\ t2[j - 1] = tt[i - 1] /\ k2[j - 1] = kk[i - 1]
      BY <1>2, <2>1, <2>2
    <2>4. /\ qu[i].done => tt[i] = t /\ kk[i] = m
          /\ ~qu[i].done => Runs(tt, kk, qu[i], i)
      BY <2>2 DEF Chain
    <2>5. Runs(tt, kk, qu[i], i) => Runs(t2, k2, qu[i], j)
      BY <2>3, Zenon DEF Runs
    <2>6. u[j] = qu[i]
      BY <1>1, <2>1
    <2> QED
      BY <2>3, <2>4, <2>5, <2>6
  <1>6. Chain(t2, k2, u, t, m)
    BY <1>1, <1>3, <1>5 DEF Chain
  <1> QED
    BY <1>1, <1>4, <1>6 DEF ChainTo

\* Of the requests that go on, the prefixes that were computed stay.
LEMMA UpdatedPrefixes ==
  ASSUME NEW rec \in Reqs, NEW new, NEW stop \in BOOLEAN, Updated(new, rec, stop), Bounded(rec, 0),
         new.status = "running"
  PROVE  /\ ~stop /\ rec.status = "running" /\ new.computed = rec.computed
         /\ SamePrefixes(new.tokens, rec.tokens, rec.computed + 0)
  <1>1. CASE new = rec /\ ~stop
    BY <1>1 DEF SamePrefixes
  <1>2. CASE ~(new = rec /\ ~stop)
    <2>1. /\ \E x \in Nat : new.tokens = Append(rec.tokens, x)
          /\ new.computed = rec.computed /\ new.status = IF stop THEN "finished" ELSE rec.status
      BY <1>2 DEF Updated
    <2>2. PICK x \in Nat : new.tokens = Append(rec.tokens, x)
      BY <2>1
    <2>3. ~stop /\ rec.status = "running"
      BY <2>1
    <2>4. PICK toks : toks = rec.tokens /\ toks \in Seq(Nat) /\ Len(toks) \in Nat
      BY LenProperties DEF Reqs
    <2>5. PICK c \in Nat : c = rec.computed /\ c = rec.computed + 0
      BY DEF Reqs
    <2>6. c <= Len(toks)
      BY <2>4, <2>5 DEF Bounded
    <2>7. ASSUME NEW i \in 0 .. c - 1 PROVE Prefix(Append(toks, x), i + 1) = Prefix(toks, i + 1)
      <3>1. i + 1 \in Nat /\ i + 1 <= Len(toks)
        BY <2>4, <2>6
      <3> QED
        BY <2>4, <3>1, PrefixAppend
    <2>8. SamePrefixes(new.tokens, rec.tokens, c)
      BY <2>2, <2>4, <2>7 DEF SamePrefixes
    <2> QED
      BY <2>1, <2>3, <2>5, <2>8
  <1> QED
    BY <1>1, <1>2

\* Requests that stop leave, the others get a token at most.
LEMMA UpdateShrinks ==
  ASSUME NEW rq \in [Requests -> Reqs], NEW next, NEW bl, NEW bl2, NEW hash, NEW S, NEW bt, bt = <<>>,
         Lengths(rq, bt), \A r \in Requests : Updated(next[r], rq[r], r \in S),
         \A r \in Requests \ S : bl2[r] = bl[r]
  PROVE  Shrinks(next, rq, bl2, bl, hash, hash, bt)
  <1>1. \A r : AdvanceIn(bt, r) = 0
    BY AdvanceEmpty
  <1>2. ASSUME NEW r \in Requests, next[r].status = "running"
        PROVE  /\ rq[r].status = "running" /\ bl2[r] = bl[r] /\ next[r].computed = rq[r].computed
               /\ SamePrefixes(next[r].tokens, rq[r].tokens, rq[r].computed + AdvanceIn(bt, r))
    <2>0. PICK stop \in BOOLEAN : stop <=> r \in S
      OBVIOUS
    <2>1. PICK new, rec : new = next[r] /\ rec = rq[r] /\ (stop <=> r \in S)
      BY <2>0
    <2>2. rec \in Reqs /\ new.status = "running" /\ Bounded(rec, 0)
      BY <1>1, <1>2, <2>1 DEF Lengths
    <2>3. Updated(new, rec, stop)
      BY <2>1 DEF Updated
    <2>4. /\ ~stop /\ rec.status = "running" /\ new.computed = rec.computed
          /\ SamePrefixes(new.tokens, rec.tokens, rec.computed + 0)
      BY <2>2, <2>3, UpdatedPrefixes
    <2> QED
      BY <1>1, <2>1, <2>4
  <1> QED
    BY <1>2 DEF Shrinks

\* UpdateFromOutput: nobody else's tokens are touched.
LEMMA UpdateReads ==
  ASSUME ReadInv, FullInv', UpdateFromOutput
  PROVE  ReadInv'
  <1>1. /\ SchedInv /\ FullInv /\ FinishedGone(finished, req) /\ EntriesFit(batch, req)
        /\ Reaching(blocks, req, batch) /\ DoneFirst(queue) /\ DOMAIN kv = Slots
        /\ Coming(queue, table, kv, batch, finished, blocks, req, pool.hash)
    BY DEF ReadInv, BooksInv
  <1>2. /\ req \in [Requests -> Reqs] /\ blocks \in Tables /\ queue \in Seq(Outs)
        /\ InBatch(batch, phase, idx, running) /\ Lengths(req, batch) /\ finished \in SUBSET Requests
    BY <1>1, SMTT(30) DEF SchedInv, SchedType
  <1>3. /\ phase = "update" /\ queue # <<>> /\ Head(queue).done /\ queue' = Tail(queue)
        /\ batch' = batch /\ table' = table /\ kv' = kv /\ reads' = {}
    BY DEF UpdateFromOutput
  <1>4. SchedInv' /\ UpdateMade
    BY <1>1, UpdateFromOutputKeeps
  <1>5. PICK S \in SUBSET Requests :
          /\ \A r \in Requests : Updated(req'[r], req[r], r \in S)
          /\ \A r \in Requests \ S : blocks'[r] = blocks[r]
          /\ pool'.hash = pool.hash /\ finished' = finished \cup S
    BY <1>4 DEF UpdateMade
  <1>6. PICK next, bl2, bt, fin, fin2, bl, rq, hash, qu, u, t, m :
          /\ next = req' /\ bl2 = blocks' /\ bt = batch /\ fin = finished /\ fin2 = finished' /\ bl = blocks
          /\ rq = req /\ hash = pool.hash /\ qu = queue /\ u = queue' /\ t = table /\ m = kv
    OBVIOUS
  <1>7. /\ rq \in [Requests -> Reqs] /\ bl \in Tables /\ bt = <<>> /\ bt \in Seq(Entries)
        /\ EntriesFit(bt, rq) /\ Reaching(bl, rq, bt) /\ Lengths(rq, bt) /\ FinishedGone(fin, rq)
    BY <1>1, <1>2, <1>3, <1>6 DEF InBatch
  <1>8. Shrinks(next, rq, bl2, bl, hash, hash, bt)
    BY <1>5, <1>6, <1>7, UpdateShrinks
  <1>9. FinishedGone(fin2, next)
    <2>1. ASSUME NEW r \in fin2 PROVE next[r].status = "finished"
      <3>1. r \in Requests /\ (r \in fin \/ r \in S) /\ Updated(next[r], rq[r], r \in S)
        BY <1>2, <1>5, <1>6
      <3>2. CASE r \in S
        BY <3>1, <3>2 DEF Updated
      <3>3. CASE r \in fin
        <4>1. rq[r].status = "finished"
          BY <1>7, <3>3 DEF FinishedGone
        <4> QED
          BY <3>1, <4>1 DEF Updated
      <3> QED
        BY <3>1, <3>2, <3>3
    <2> QED
      BY <2>1 DEF FinishedGone
  <1>10. PICK n \in Nat : n = Len(qu) /\ n > 0
    BY <1>2, <1>3, <1>6, LenProperties, EmptySeq
  <1>11. Behind(u, qu)
    <2> DEFINE O == Outs
    <2>1. qu \in Seq(O) /\ qu # <<>> /\ u = Tail(qu)
      BY <1>2, <1>3, <1>6
    <2> HIDE DEF O
    <2>2. Len(u) = n - 1 /\ \A j \in 1 .. n - 1 : u[j] = qu[j + 1]
      BY <1>10, <2>1, HeadTailProperties
    <2>3. Head(qu) = qu[1]
      BY <2>1
    <2> QED
      BY <1>3, <1>6, <1>10, <2>2, <2>3 DEF Behind
  <1>12. Coming(u, t, m, bt, fin, bl, rq, hash)
    <2>1. PICK tt, kk : Chain(tt, kk, qu, t, m) /\ Foreseen(tt[Len(qu)], kk[Len(qu)], bt, fin, bl, rq, hash)
      BY <1>1, <1>6, Zenon DEF Coming
    <2>2. ChainTo(u, t, m, tt[n], kk[n])
      BY <1>10, <1>11, <2>1, ChainBehind
    <2>3. PICK t2, k2 : Chain(t2, k2, u, t, m) /\ t2[Len(u)] = tt[n] /\ k2[Len(u)] = kk[n]
      BY <2>2 DEF ChainTo
    <2>4. Foreseen(t2[Len(u)], k2[Len(u)], bt, fin, bl, rq, hash)
      BY <1>10, <2>1, <2>3
    <2> QED
      BY <2>3, <2>4, Zenon DEF Coming
  <1>13. /\ Coming(u, t, m, bt, fin2, bl2, next, hash)
         /\ EntriesFit(bt, next) /\ Reaching(bl2, next, bt)
    <2>1. \A i \in 1 .. Len(bt) : bt[i].r \in Requests /\ next[bt[i].r].status = "running"
      <3>1. 1 .. Len(bt) = {}
        BY <1>7
      <3> QED
        BY <3>1
    <2>2. SameTokens(next, rq, bt) /\ (fin2 = fin \/ bt = <<>>)
      BY <1>7 DEF SameTokens
    <2> QED
      BY <1>7, <1>8, <1>9, <1>12, <2>1, <2>2, BooksShrink, ZenonT(60)
  <1>14. BooksInv'
    BY <1>3, <1>5, <1>6, <1>9, <1>13, Zenon DEF BooksInv
  <1>15. DoneFirst(u)
    <2>1. Len(u) = n - 1 /\ \A j \in 1 .. n - 1 : u[j] = qu[j + 1]
      BY <1>10, <1>11 DEF Behind
    <2>2. ASSUME NEW i \in 1 .. n - 1, NEW j \in 1 .. n - 1, i < j, u[j].done PROVE u[i].done
      <3>1. i + 1 \in 1 .. n /\ j + 1 \in 1 .. n /\ i + 1 < j + 1 /\ qu[j + 1].done
        BY <1>10, <2>1, <2>2
      <3>2. qu[i + 1].done
        BY <1>1, <1>6, <1>10, <3>1 DEF DoneFirst
      <3> QED
        BY <2>1, <3>2
    <2> QED
      BY <2>1, <2>2 DEF DoneFirst
  <1>16. DoneFirst(queue)' /\ (DOMAIN kv = Slots)' /\ ReadsOwnPrefix'
    BY <1>1, <1>3, <1>6, <1>15 DEF ReadsOwnPrefix
  <1> QED
    BY <1>4, <1>14, <1>16 DEF ReadInv

-----------------------------------------------------------------------------
(* What the attention reads *)

\* Every step of the engine, the front end and the worker keeps the invariant.
LEMMA NextReads ==
  ASSUME ReadInv, [Next]_vars
  PROVE  ReadInv'
  <1>0. SchedInv' /\ FullInv' /\ Requests # {}
    <2>1. SchedInv /\ FullInv
      BY DEF ReadInv
    <2>2. SchedInv' /\ FullInv'
      BY <2>1, NextKeeps, NextFull
    <2>3. 1 \in Requests
      BY ServingAssumption DEF Requests
    <2> QED
      BY <2>2, <2>3
  <1>1. CASE (\E r \in Requests : AddRequest(r) \/ Abort(r)) \/ ResetCache
    <2>1. PICK r \in Requests : AddRequest(r) \/ Abort(r) \/ ResetCache
      BY <1>0, <1>1
    <2> QED
      BY <1>0, <2>1, FrontEndLeaves, LeavesKeeps
  <1>2. CASE BeginStep \/ SkipRunning \/ EndRunning \/ EngineFails \/ Preempt
    BY <1>0, <1>2, LoopLeaves, LeavesKeeps
  <1>3. CASE ScheduleRunning
    BY <1>0, <1>3, ScheduleRunningMakes, MakesKeeps
  <1>4. CASE AdmitWaiting
    BY <1>0, <1>4, AdmitWaitingMakes, MakesKeeps
  <1>5. CASE Send
    BY <1>0, <1>5, SendReads
  <1>6. CASE UpdateFromOutput
    BY <1>0, <1>6, UpdateReads
  <1>7. CASE Execute
    BY <1>0, <1>7, ExecuteReads
  <1>8. CASE UNCHANGED vars
    <2>1. /\ pool' = pool /\ req' = req /\ blocks' = blocks /\ finished' = finished
          /\ batch' = batch /\ queue' = queue /\ table' = table /\ kv' = kv /\ reads' = reads
      BY <1>8 DEF vars, schedVars, loopVars, workVars
    <2>2. BooksInv'
      BY <2>1, Zenon DEF ReadInv, BooksInv
    <2>3. DoneFirst(queue)' /\ (DOMAIN kv = Slots)' /\ ReadsOwnPrefix'
      BY <2>1 DEF ReadInv, ReadsOwnPrefix
    <2> QED
      BY <1>0, <2>2, <2>3 DEF ReadInv
  <1> QED
    BY <1>1, <1>2, <1>3, <1>4, <1>5, <1>6, <1>7, <1>8 DEF Next, Engine

\* The scheduler's books describe the worker's cache ahead of time, in every reachable state.
THEOREM ReadInvHolds ==
  Spec => []ReadInv
  <1>1. ReadInv /\ [Next]_vars => ReadInv'
    BY NextReads
  <1> QED
    BY <1>1, InitReads, PTL DEF Spec

\* ReadsOwnPrefix: the attention of every request reads K/V of its own tokens, although
\* blocks are cached before they are computed, shared, evicted, and freed under batches that
\* are still with the worker.
THEOREM ReadsOwnPrefixHolds ==
  Spec => []ReadsOwnPrefix
  <1>1. ReadInv => ReadsOwnPrefix
    BY DEF ReadInv
  <1> QED
    BY <1>1, ReadInvHolds, PTL

-----------------------------------------------------------------------------
(* The token that is to come back *)

\* The entry e of the k-th output will bring a token: it was sampled after all the tokens its
\* request has, and while the request runs it is neither short of tokens nor in the batch.  If
\* the request was preempted since, e is in the oldest output, and is taken before
\* anyone is admitted again.
Sampled(e, k, rq, bt, ph, pre) ==
  Samples(e) =>
    /\ rq[e.r].status # "absent"
    /\ rq[e.r].status # "finished" => e.tokens = rq[e.r].tokens
    /\ rq[e.r].status = "running" =>
         e.start + e.n = rq[e.r].computed /\ \A i \in 1 .. Len(bt) : bt[i].r # e.r
    /\ rq[e.r].status \in {"waiting", "preempted"} =>
         k = 1 /\ (ph \in {"send", "update", "failed"} \/ pre)

AllSampled(qu, rq, bt, ph, pre) ==
  \A k \in 1 .. Len(qu) : \A i \in 1 .. Len(qu[k].entries) :
    Sampled(qu[k].entries[i], k, rq, bt, ph, pre)

\* At most one token of a request is on its way.
OneSample(qu) ==
  \A k, j \in 1 .. Len(qu) : k # j =>
    \A i \in 1 .. Len(qu[k].entries) : \A l \in 1 .. Len(qu[j].entries) :
      Samples(qu[k].entries[i]) /\ Samples(qu[j].entries[l])
        => qu[k].entries[i].r # qu[j].entries[l].r

SampleInv ==
  /\ ReadInv
  /\ QueueSize <= 2
  /\ phase \in {"input", "waiting", "update"} => ~preempted
  /\ AllSampled(queue, req, batch, phase, preempted)
  /\ OneSample(queue)

\* The entries of the outputs with the worker are entries.
LEMMA QueueEntries ==
  ASSUME NEW qu \in Seq(Outs), NEW k \in 1 .. Len(qu)
  PROVE  /\ qu[k].entries \in Seq(Entries)
         /\ \A i \in 1 .. Len(qu[k].entries) :
              qu[k].entries[i] \in Entries /\ qu[k].entries[i].r \in Requests
  <1>1. qu[k] \in Outs
    BY ElementOfSeq
  <1>2. PICK es : es = qu[k].entries
    OBVIOUS
  <1>3. es \in Seq(Entries)
    BY <1>1, <1>2 DEF Outs
  <1>4. \A i \in 1 .. Len(es) : es[i] \in Entries
    <2> DEFINE E == Entries
    <2>1. es \in Seq(E)
      BY <1>3
    <2> HIDE DEF E
    <2>2. \A i \in 1 .. Len(es) : es[i] \in E
      BY <2>1, Members
    <2> QED
      BY <2>2 DEF E
  <1>5. \A i \in 1 .. Len(es) : es[i].r \in Requests
    BY <1>4 DEF Entries
  <1> QED
    BY <1>2, <1>3, <1>4, <1>5

\* A step that leaves the outputs with the worker alone: it is enough to look at one entry.
LEMMA SampledStays ==
  ASSUME NEW qu \in Seq(Outs), NEW rq, NEW bt, NEW ph, NEW pre, NEW next, NEW b2, NEW ph2, NEW pre2,
         AllSampled(qu, rq, bt, ph, pre),
         \A k \in 1 .. Len(qu) : \A e \in Entries :
           e.r \in Requests /\ Sampled(e, k, rq, bt, ph, pre) => Sampled(e, k, next, b2, ph2, pre2)
  PROVE  AllSampled(qu, next, b2, ph2, pre2)
  <1>1. ASSUME NEW k \in 1 .. Len(qu), NEW i \in 1 .. Len(qu[k].entries)
        PROVE  Sampled(qu[k].entries[i], k, next, b2, ph2, pre2)
    <2>1. qu[k].entries[i] \in Entries /\ qu[k].entries[i].r \in Requests
      BY QueueEntries
    <2>2. Sampled(qu[k].entries[i], k, rq, bt, ph, pre)
      BY DEF AllSampled
    <2> QED
      BY <2>1, <2>2, Zenon
  <1> QED
    BY <1>1 DEF AllSampled

\* Nothing is with the worker at the start.
LEMMA InitSamples ==
  ASSUME Init, QueueSize <= 2
  PROVE  SampleInv
  <1>1. ReadInv
    BY InitReads
  <1>2. queue = <<>> /\ preempted = FALSE
    BY DEF Init
  <1>3. 1 .. Len(queue) = {}
    BY <1>2
  <1>4. AllSampled(queue, req, batch, phase, preempted) /\ OneSample(queue)
    BY <1>3 DEF AllSampled, OneSample
  <1> QED
    BY <1>1, <1>2, <1>4 DEF SampleInv

\* The front end: a request is added that had no output yet, or leaves.
LEMMA FrontEndSamples ==
  ASSUME SampleInv, ReadInv', NEW r \in Requests, AddRequest(r) \/ Abort(r) \/ ResetCache
  PROVE  SampleInv'
  <1>1. /\ QueueSize <= 2 /\ (phase \in {"input", "waiting", "update"} => ~preempted)
        /\ AllSampled(queue, req, batch, phase, preempted) /\ OneSample(queue)
    BY DEF SampleInv
  <1>2. req \in [Requests -> Reqs] /\ queue \in Seq(Outs)
    BY DEF SampleInv, ReadInv, SchedInv, SchedType
  <1>3. /\ queue' = queue /\ batch' = batch /\ phase' = phase /\ preempted' = preempted
        /\ phase = "input"
    BY DEF AddRequest, Abort, ResetCache, loopVars, workVars
  <1>4. PICK next, rq, qu, bt, ph, pre : /\ next = req' /\ rq = req /\ qu = queue /\ bt = batch
                                         /\ ph = phase /\ pre = preempted
    OBVIOUS
  <1>5. \A q \in Requests :
          \/ next[q] = rq[q]
          \/ next[q].status = "finished"
          \/ rq[q].status = "absent"
    <2>1. CASE AddRequest(r)
      <3>1. /\ req' = [req EXCEPT ![r].status = "waiting"] /\ req[r].status = "absent"
        BY <2>1 DEF AddRequest
      <3> QED
        BY <1>2, <1>4, <3>1 DEF Reqs
    <2>2. CASE Abort(r)
      <3>1. req' = [req EXCEPT ![r].status = "finished"]
        BY <2>2 DEF Abort
      <3> QED
        BY <1>2, <1>4, <3>1 DEF Reqs
    <2>3. CASE ResetCache
      BY <1>4, <2>3 DEF ResetCache, schedVars
    <2> QED
      BY <2>1, <2>2, <2>3
  <1>6. AllSampled(qu, next, bt, ph, pre)
    <2>1. ASSUME NEW k \in 1 .. Len(qu), NEW e \in Entries, e.r \in Requests,
                 Sampled(e, k, rq, bt, ph, pre)
          PROVE  Sampled(e, k, next, bt, ph, pre)
      BY <1>5, <2>1 DEF Sampled
    <2> QED
      BY <1>1, <1>2, <1>4, <2>1, SampledStays
  <1> QED
    BY <1>1, <1>3, <1>4, <1>6 DEF SampleInv

\* The loops of schedule() where they schedule nothing: nobody waits whose token is to come, when
\* they begin, nor when the loop over the running requests ends without a preemption.
LEMMA LoopSamples ==
  ASSUME SampleInv, ReadInv', BeginStep \/ SkipRunning \/ EndRunning \/ EngineFails
  PROVE  SampleInv'
  <1>1. /\ QueueSize <= 2 /\ (phase \in {"input", "waiting", "update"} => ~preempted)
        /\ AllSampled(queue, req, batch, phase, preempted) /\ OneSample(queue)
    BY DEF SampleInv
  <1>2. queue \in Seq(Outs)
    BY DEF SampleInv, ReadInv, SchedInv, SchedType
  <1>3. queue' = queue /\ batch' = batch /\ req' = req /\ preempted' = preempted
    BY DEF BeginStep, SkipRunning, EndRunning, EngineFails, schedVars
  <1>4. /\ phase \in {"send", "update", "failed"} => phase' \in {"send", "update", "failed"}
        /\ phase' \in {"input", "waiting", "update"} => ~preempted
    BY <1>1 DEF BeginStep, SkipRunning, EndRunning, EngineFails, InRunningLoop
  <1>5. PICK rq, qu, bt, ph, pre, ph2 : /\ rq = req /\ qu = queue /\ bt = batch /\ ph = phase
                                        /\ pre = preempted /\ ph2 = phase'
    OBVIOUS
  <1>6. AllSampled(qu, rq, bt, ph2, pre)
    <2>1. ASSUME NEW k \in 1 .. Len(qu), NEW e \in Entries, e.r \in Requests,
                 Sampled(e, k, rq, bt, ph, pre)
          PROVE  Sampled(e, k, rq, bt, ph2, pre)
      BY <1>4, <1>5, <2>1 DEF Sampled
    <2> QED
      BY <1>1, <1>2, <1>5, <2>1, SampledStays
  <1> QED
    BY <1>1, <1>3, <1>4, <1>5, <1>6 DEF SampleInv

\* A preemption: with two outputs at the most only one is with the worker while schedule() runs, so
\* the token of the request that gives way is in the oldest one.
LEMMA PreemptSamples ==
  ASSUME SampleInv, ReadInv', Preempt
  PROVE  SampleInv'
  <1>1. /\ QueueSize <= 2 /\ AllSampled(queue, req, batch, phase, preempted) /\ OneSample(queue)
    BY DEF SampleInv
  <1>2. /\ req \in [Requests -> Reqs] /\ queue \in Seq(Outs) /\ running \in Seq(Requests)
        /\ InQueue(queue, phase) /\ InLine(running, waiting, req) /\ QueueSize \in Nat /\ idx \in Nat \ {0}
    BY ServingAssumption DEF SampleInv, ReadInv, SchedInv, SchedType
  <1>3. PICK v : v = Last(running)
    OBVIOUS
  <1>4. /\ queue' = queue /\ batch' = batch /\ preempted' = TRUE /\ phase = "running"
        /\ phase' \in {"running", "send"} /\ idx <= Len(running)
        /\ req' = [req EXCEPT ![v].status = "preempted", ![v].computed = 0]
    BY <1>3 DEF Preempt, InRunningLoop
  <1>5. v \in Requests /\ req[v].status = "running"
    <2>1. PICK n \in Nat : n = Len(running)
      BY <1>2, LenProperties
    <2>2. v = running[n] /\ n \in 1 .. n
      BY <1>2, <1>3, <1>4, <2>1 DEF Last
    <2>3. v \in Requests /\ v \in ToSet(running)
      BY <1>2, <2>1, <2>2, Members
    <2> QED
      BY <1>2, <2>3 DEF InLine
  <1>6. PICK rq, qu, bt, ph, pre, ph2, next :
          /\ rq = req /\ qu = queue /\ bt = batch /\ ph = phase
          /\ pre = preempted /\ ph2 = phase' /\ next = req'
    OBVIOUS
  <1>7. \A q \in Requests : \/ next[q] = rq[q]
                            \/ next[q].status = "preempted" /\ next[q].tokens = rq[q].tokens
    BY <1>2, <1>4, <1>6 DEF Reqs
  <1>8. \A k \in 1 .. Len(qu) : k = 1
    <2>1. PICK n \in Nat : n = Len(qu)
      BY <1>2, <1>6, LenProperties
    <2>2. n < QueueSize
      BY <1>2, <1>4, <1>6, <2>1 DEF InQueue
    <2>3. n <= 1
      BY <1>1, <1>2, <2>1, <2>2
    <2> QED
      BY <2>1, <2>3
  <1>9. v \in Requests /\ rq[v].status = "running"
    BY <1>5, <1>6
  <1>10. \A q \in Requests : next[q] = rq[q] \/ q = v
    BY <1>2, <1>4, <1>6
  <1>11. AllSampled(qu, next, bt, ph2, TRUE)
    <2>1. ASSUME NEW k \in 1 .. Len(qu), NEW e \in Entries, e.r \in Requests,
                 Sampled(e, k, rq, bt, ph, pre)
          PROVE  Sampled(e, k, next, bt, ph2, TRUE)
      <3>1. CASE next[e.r] = rq[e.r]
        BY <1>8, <2>1, <3>1 DEF Sampled
      <3>2. CASE e.r = v /\ next[v].status = "preempted" /\ next[v].tokens = rq[v].tokens
        BY <1>8, <1>9, <2>1, <3>2 DEF Sampled
      <3> QED
        BY <1>7, <1>10, <2>1, <3>1, <3>2
    <2> QED
      BY <1>1, <1>2, <1>6, <2>1, SampledStays
  <1>12. AllSampled(queue, req, batch, phase, preempted)'
    BY <1>4, <1>6, <1>11
  <1>13. (phase \in {"input", "waiting", "update"} => ~preempted)'
    BY <1>4
  <1> QED
    BY <1>1, <1>4, <1>12, <1>13 DEF SampleInv

\* What is scheduled: nothing is known of a token to come for a request that is short of tokens.
LEMMA ScheduleRunningSamples ==
  ASSUME SampleInv, ReadInv', ScheduleRunning
  PROVE  SampleInv'
  <1>1. /\ QueueSize <= 2 /\ (phase \in {"input", "waiting", "update"} => ~preempted)
        /\ AllSampled(queue, req, batch, phase, preempted) /\ OneSample(queue)
    BY DEF SampleInv
  <1>2. /\ req \in [Requests -> Reqs] /\ queue \in Seq(Outs) /\ batch \in Seq(Entries)
        /\ running \in Seq(Requests) /\ InLine(running, waiting, req) /\ idx \in Nat \ {0}
        /\ budget \in 0 .. MaxScheduledTokens /\ SchedInv
    BY DEF SampleInv, ReadInv, SchedInv, SchedType
  <1>3. PICK r : r = running[idx]
    OBVIOUS
  <1>4. /\ queue' = queue /\ req' = req /\ phase' = phase /\ preempted' = preempted
        /\ idx <= Len(running) /\ NumNew(r) > 0
    BY <1>3 DEF ScheduleRunning, InRunningLoop
  <1>5. r \in Requests /\ req[r].status = "running"
    <2>1. idx \in 1 .. Len(running)
      BY <1>2, <1>4, LenProperties
    <2>2. r \in Requests /\ r \in ToSet(running)
      BY <1>2, <1>3, <2>1, Members
    <2> QED
      BY <1>2, <2>2 DEF InLine
  <1>6. req[r].computed < Len(req[r].tokens)
    <2>1. PICK c, l, b, m : /\ c = req[r].computed /\ l = Len(req[r].tokens) /\ b = budget
                            /\ m = MaxModelLen
      OBVIOUS
    <2>2. c \in Int /\ l \in Int /\ b \in Int /\ m \in Int
      BY <1>2, <1>5, <2>1, ServingAssumption, LenProperties DEF Reqs
    <2>3. PICK d : d = Capped(l - c)
      OBVIOUS
    <2>4. d \in Int /\ d <= l - c
      BY <2>2, <2>3, CappedAtMost
    <2>5. PICK g : g = MinOf(d, b)
      OBVIOUS
    <2>6. g \in Int /\ g <= d
      BY <2>2, <2>4, <2>5, AtMost
    <2>7. PICK h : h = MinOf(g, m - 1 - c)
      OBVIOUS
    <2>8. h \in Int /\ h <= g
      <3>1. m - 1 - c \in Int
        BY <2>2
      <3> QED
        BY <2>6, <2>7, <3>1, AtMost
    <2>9. NumNew(r) = h
      BY <2>1, <2>3, <2>5, <2>7 DEF NumNew
    <2> QED
      BY <1>4, <2>1, <2>2, <2>4, <2>6, <2>8, <2>9
  <1>7. PICK x : batch' = Append(batch, x) /\ x.r = r
    <2>1. PICK n, ids : batch' = Append(batch, Entry(r, n, req[r].computed, "running", ids))
      BY <1>3 DEF ScheduleRunning
    <2>2. Entry(r, n, req[r].computed, "running", ids).r = r
      BY DEF Entry
    <2> QED
      BY <2>1, <2>2
  <1>8. PICK rq, qu, bt, ph, pre, b2 : /\ rq = req /\ qu = queue /\ bt = batch /\ ph = phase
                                       /\ pre = preempted /\ b2 = batch'
    OBVIOUS
  <1>9. \A i \in 1 .. Len(b2) : b2[i].r = r \/ \E j \in 1 .. Len(bt) : b2[i].r = bt[j].r
    <2>1. \A i \in 1 .. Len(b2) : b2[i] = x \/ \E j \in 1 .. Len(bt) : b2[i] = bt[j]
      BY <1>2, <1>7, <1>8, AppendedMembers
    <2> QED
      BY <1>7, <2>1
  <1>10. AllSampled(qu, rq, b2, ph, pre)
    <2>1. ASSUME NEW k \in 1 .. Len(qu), NEW e \in Entries, e.r \in Requests,
                 Sampled(e, k, rq, bt, ph, pre)
          PROVE  Sampled(e, k, rq, b2, ph, pre)
      <3>1. ASSUME e.r = r PROVE ~Samples(e)
        <4>1. SUFFICES ASSUME Samples(e) PROVE FALSE
          OBVIOUS
        <4>2. e.tokens = rq[r].tokens /\ e.start + e.n = rq[r].computed
          BY <1>5, <1>8, <2>1, <3>1, <4>1 DEF Sampled
        <4>3. rq[r].computed = Len(rq[r].tokens)
          BY <4>1, <4>2 DEF Samples
        <4>4. rq[r].computed \in Nat
          BY <1>2, <1>5, <1>8 DEF Reqs
        <4> QED
          BY <1>6, <1>8, <4>3, <4>4
      <3>2. CASE e.r = r
        BY <3>1, <3>2 DEF Sampled
      <3>3. CASE e.r # r
        BY <1>9, <2>1, <3>3 DEF Sampled
      <3> QED
        BY <3>2, <3>3
    <2> QED
      BY <1>1, <1>2, <1>8, <2>1, SampledStays
  <1> QED
    BY <1>1, <1>4, <1>8, <1>10 DEF SampleInv

\* A request is admitted only when no token is to come for it: nobody was preempted in this
\* schedule(), and the outputs of earlier ones were taken.
LEMMA AdmitWaitingSamples ==
  ASSUME SampleInv, ReadInv', AdmitWaiting
  PROVE  SampleInv'
  <1>1. /\ QueueSize <= 2 /\ (phase \in {"input", "waiting", "update"} => ~preempted)
        /\ AllSampled(queue, req, batch, phase, preempted) /\ OneSample(queue)
    BY DEF SampleInv
  <1>2. /\ req \in [Requests -> Reqs] /\ queue \in Seq(Outs) /\ batch \in Seq(Entries)
        /\ waiting \in Seq(Requests) /\ InLine(running, waiting, req)
    BY DEF SampleInv, ReadInv, SchedInv, SchedType
  <1>3. PICK r : r = Head(waiting)
    OBVIOUS
  <1>4. /\ queue' = queue /\ phase' = phase /\ preempted' = preempted
        /\ phase = "waiting" /\ waiting # <<>>
    BY DEF AdmitWaiting, CanAdmit
  <1>5. r \in Requests /\ req[r].status \in {"waiting", "preempted"}
    <2>1. r \in Requests /\ r \in ToSet(waiting)
      BY <1>2, <1>3, <1>4, LineHead DEF InLine
    <2> QED
      BY <1>2, <2>1 DEF InLine
  <1>6. PICK start : req' = [req EXCEPT ![r].status = "running", ![r].computed = start]
    BY <1>3 DEF AdmitWaiting
  <1>7. PICK x : batch' = Append(batch, x) /\ x.r = r
    BY <1>3 DEF AdmitWaiting, Entry
  <1>8. PICK rq, qu, bt, ph, pre, b2, next :
          /\ rq = req /\ qu = queue /\ bt = batch /\ ph = phase
          /\ pre = preempted /\ b2 = batch' /\ next = req'
    OBVIOUS
  <1>9. \A i \in 1 .. Len(b2) : b2[i].r = r \/ \E j \in 1 .. Len(bt) : b2[i].r = bt[j].r
    <2>1. \A i \in 1 .. Len(b2) : b2[i] = x \/ \E j \in 1 .. Len(bt) : b2[i] = bt[j]
      BY <1>2, <1>7, <1>8, AppendedMembers
    <2> QED
      BY <1>7, <2>1
  <1>10. \A q \in Requests : q # r => next[q] = rq[q]
    BY <1>2, <1>5, <1>6, <1>8
  <1>11. AllSampled(qu, next, b2, ph, pre)
    <2>1. ASSUME NEW k \in 1 .. Len(qu), NEW e \in Entries, e.r \in Requests,
                 Sampled(e, k, rq, bt, ph, pre)
          PROVE  Sampled(e, k, next, b2, ph, pre)
      <3>1. ASSUME e.r = r PROVE ~Samples(e)
        BY <1>1, <1>4, <1>5, <1>8, <2>1, <3>1 DEF Sampled
      <3>2. CASE e.r = r
        BY <3>1, <3>2 DEF Sampled
      <3>3. CASE e.r # r
        BY <1>9, <1>10, <2>1, <3>3 DEF Sampled
      <3> QED
        BY <3>2, <3>3
    <2> QED
      BY <1>1, <1>2, <1>8, <2>1, SampledStays
  <1> QED
    BY <1>1, <1>4, <1>8, <1>11 DEF SampleInv

\* The output goes to the worker: its requests run, and none had a token to come.  When
\* an older output has the token of a preempted request, the queue is now full.
LEMMA SendSamples ==
  ASSUME SampleInv, ReadInv', Send
  PROVE  SampleInv'
  <1>1. /\ QueueSize <= 2 /\ AllSampled(queue, req, batch, phase, preempted) /\ OneSample(queue)
    BY DEF SampleInv
  <1>2. /\ req \in [Requests -> Reqs] /\ queue \in Seq(Outs) /\ batch \in Seq(Entries)
        /\ EntriesFit(batch, req) /\ QueueSize \in Nat
    BY ServingAssumption DEF SampleInv, ReadInv, BooksInv, SchedInv, SchedType
  <1>3. PICK o, u : o = [entries |-> batch, finished |-> finished, done |-> FALSE]
                    /\ u = Append(queue, o)
    OBVIOUS
  <1>4. /\ req' = [r \in Requests |-> [req[r] EXCEPT !.computed = @ + AdvanceIn(batch, r)]]
        /\ queue' = u /\ batch' = <<>> /\ preempted' = FALSE
        /\ phase' = IF batch # <<>> /\ Len(u) < QueueSize /\ ~Head(u).done THEN "input" ELSE "update"
    <2>1. \A r : Advance(r) = AdvanceIn(batch, r)
      BY Zenon DEF Advance, AdvanceIn
    <2> QED
      BY <1>3, <2>1 DEF Send
  <1>5. PICK next, bt, rq, qu, ph, pre, ph2, b2 :
          /\ next = req' /\ bt = batch /\ rq = req /\ qu = queue /\ ph = phase /\ pre = preempted
          /\ ph2 = phase' /\ b2 = batch'
    OBVIOUS
  <1>6. Counts(next, rq, bt)
    BY <1>2, <1>4, <1>5 DEF Counts, Reqs
  <1>7. PICK n \in Nat : n = Len(qu)
    BY <1>2, <1>5, LenProperties
  <1>8. /\ Len(u) = n + 1 /\ u[n + 1] = o /\ \A j \in 1 .. n : u[j] = qu[j]
    <2>1. PICK X : qu \in Seq(X) /\ o \in X
      <3>1. qu \in [1 .. n -> Outs]
        BY <1>2, <1>5, <1>7, LenProperties
      <3>2. qu \in [1 .. n -> Outs \cup {o}]
        BY <3>1
      <3>3. qu \in Seq(Outs \cup {o})
        BY <3>2, SeqDef
      <3> QED
        BY <3>3
    <2> QED
      BY <1>3, <1>5, <1>7, <2>1, AppendProperties
  <1>9. o.entries = bt
    BY <1>3, <1>5
  <1>10. ph2 \in {"input", "update"} /\ (n >= 1 => ph2 = "update")
    BY <1>1, <1>2, <1>4, <1>5, <1>7, <1>8
  <1>11. \A i \in 1 .. Len(bt) : bt[i] \in Entries /\ bt[i].r \in Requests
    <2> DEFINE E == Entries
    <2>1. bt \in Seq(E)
      BY <1>2, <1>5
    <2> HIDE DEF E
    <2>2. \A i \in 1 .. Len(bt) : bt[i] \in E
      BY <2>1, Members
    <2>3. \A e \in E : e.r \in Requests
      BY DEF E, Entries
    <2> QED
      BY <2>2, <2>3 DEF E
  <1>12. Len(b2) = 0
    BY <1>4, <1>5
  <1>13. ASSUME NEW k \in 1 .. n, NEW i \in 1 .. Len(qu[k].entries)
         PROVE  Sampled(qu[k].entries[i], k, next, b2, ph2, FALSE)
    <2>1. PICK e : e = qu[k].entries[i]
      OBVIOUS
    <2>2. e.r \in Requests
      BY <1>2, <1>5, <1>7, <1>13, <2>1, QueueEntries
    <2>3. Sampled(e, k, rq, bt, ph, pre)
      BY <1>1, <1>5, <1>7, <1>13, <2>1, Zenon DEF AllSampled
    <2>4. /\ next[e.r].status = rq[e.r].status /\ next[e.r].tokens = rq[e.r].tokens
          /\ next[e.r].computed = rq[e.r].computed + AdvanceIn(bt, e.r)
      BY <1>6, <2>2 DEF Counts
    <2>5. ASSUME \A j \in 1 .. Len(bt) : bt[j].r # e.r PROVE next[e.r].computed = rq[e.r].computed
      <3>1. AdvanceIn(bt, e.r) = 0
        BY <1>2, <1>5, <2>2, <2>5, AdvanceZero
      <3>2. rq[e.r].computed \in Nat
        BY <1>2, <1>5, <2>2 DEF Reqs
      <3> QED
        BY <2>4, <3>1, <3>2
    <2>6. \A j \in 1 .. Len(b2) : b2[j].r # e.r
      BY <1>12
    <2>7. k >= 1 /\ n >= 1
      OBVIOUS
    <2>8. Sampled(e, k, next, b2, ph2, FALSE)
      BY <1>10, <2>3, <2>4, <2>5, <2>6, <2>7 DEF Sampled
    <2> QED
      BY <2>1, <2>8
  <1>14. ASSUME NEW i \in 1 .. Len(bt) PROVE Sampled(bt[i], n + 1, next, b2, ph2, FALSE)
    <2>1. PICK e : e = bt[i]
      OBVIOUS
    <2>2. e.r \in Requests
      BY <1>11, <2>1
    <2>3. /\ rq[e.r].status = "running" /\ e.tokens = rq[e.r].tokens
          /\ e.start = rq[e.r].computed /\ e.n = AdvanceIn(bt, e.r)
      BY <1>2, <1>5, <2>1 DEF EntriesFit, EntryFits
    <2>4. /\ next[e.r].status = rq[e.r].status /\ next[e.r].tokens = rq[e.r].tokens
          /\ next[e.r].computed = rq[e.r].computed + AdvanceIn(bt, e.r)
      BY <1>6, <2>2 DEF Counts
    <2>5. \A j \in 1 .. Len(b2) : b2[j].r # e.r
      BY <1>12
    <2>6. Sampled(e, n + 1, next, b2, ph2, FALSE)
      BY <2>3, <2>4, <2>5 DEF Sampled
    <2> QED
      BY <2>1, <2>6
  <1>15. AllSampled(u, next, b2, ph2, FALSE)
    <2>1. ASSUME NEW k \in 1 .. n + 1, NEW i \in 1 .. Len(u[k].entries)
          PROVE  Sampled(u[k].entries[i], k, next, b2, ph2, FALSE)
      <3>1. CASE k = n + 1
        <4>1. u[k].entries = bt
          BY <1>8, <1>9, <3>1
        <4>2. i \in 1 .. Len(bt)
          BY <2>1, <4>1
        <4>3. Sampled(bt[i], n + 1, next, b2, ph2, FALSE)
          BY <1>14, <4>2
        <4> QED
          BY <3>1, <4>1, <4>3
      <3>2. CASE k \in 1 .. n
        <4>1. u[k] = qu[k]
          BY <1>8, <3>2
        <4>2. i \in 1 .. Len(qu[k].entries)
          BY <2>1, <4>1
        <4>3. Sampled(qu[k].entries[i], k, next, b2, ph2, FALSE)
          BY <1>13, <3>2, <4>2
        <4> QED
          BY <4>1, <4>3
      <3>3. k = n + 1 \/ k \in 1 .. n
        OBVIOUS
      <3> QED
        BY <3>1, <3>2, <3>3, Zenon
    <2> QED
      BY <1>8, <2>1 DEF AllSampled
  <1>16. ASSUME NEW k \in 1 .. n, NEW i \in 1 .. Len(qu[k].entries), NEW l \in 1 .. Len(bt),
                Samples(qu[k].entries[i])
         PROVE  qu[k].entries[i].r # bt[l].r
    <2>1. PICK e : e = qu[k].entries[i]
      OBVIOUS
    <2>2. Sampled(e, k, rq, bt, ph, pre)
      BY <1>1, <1>5, <1>7, <1>16, <2>1, Zenon DEF AllSampled
    <2>3. rq[bt[l].r].status = "running"
      BY <1>2, <1>5 DEF EntriesFit, EntryFits
    <2> QED
      BY <1>16, <2>1, <2>2, <2>3 DEF Sampled
  <1>17. OneSample(u)
    <2>1. ASSUME NEW k \in 1 .. Len(u), NEW j \in 1 .. Len(u), k # j,
                 NEW i \in 1 .. Len(u[k].entries), NEW l \in 1 .. Len(u[j].entries),
                 Samples(u[k].entries[i]), Samples(u[j].entries[l])
          PROVE  u[k].entries[i].r # u[j].entries[l].r
      <3>1. CASE k \in 1 .. n /\ j \in 1 .. n
        <4>1. u[k] = qu[k] /\ u[j] = qu[j] /\ OneSample(qu)
          BY <1>1, <1>5, <1>8, <3>1
        <4> QED
          BY <1>7, <2>1, <3>1, <4>1, ZenonT(60) DEF OneSample
      <3>2. CASE k = n + 1 /\ j \in 1 .. n
        <4>1. u[k].entries = bt /\ u[j] = qu[j]
          BY <1>8, <1>9, <3>2
        <4> QED
          BY <1>16, <2>1, <3>2, <4>1
      <3>3. CASE k \in 1 .. n /\ j = n + 1
        <4>1. u[j].entries = bt /\ u[k] = qu[k]
          BY <1>8, <1>9, <3>3
        <4> QED
          BY <1>16, <2>1, <3>3, <4>1
      <3>4. \/ k \in 1 .. n /\ j \in 1 .. n
            \/ k = n + 1 /\ j \in 1 .. n
            \/ k \in 1 .. n /\ j = n + 1
        BY <1>8, <2>1
      <3> QED
        BY <3>1, <3>2, <3>3, <3>4, Zenon
    <2> QED
      BY <2>1, Zenon DEF OneSample
  <1>18. AllSampled(queue, req, batch, phase, preempted)' /\ OneSample(queue)'
    BY <1>4, <1>5, <1>15, <1>17
  <1>19. (phase \in {"input", "waiting", "update"} => ~preempted)'
    BY <1>4
  <1> QED
    BY <1>1, <1>18, <1>19 DEF SampleInv

\* The worker runs an output: its entries are the same.
LEMMA ExecuteSamples ==
  ASSUME SampleInv, ReadInv', Execute
  PROVE  SampleInv'
  <1>1. /\ QueueSize <= 2 /\ (phase \in {"input", "waiting", "update"} => ~preempted)
        /\ AllSampled(queue, req, batch, phase, preempted) /\ OneSample(queue)
        /\ SchedInv /\ DOMAIN kv = Slots
    BY SMTT(30) DEF SampleInv, ReadInv
  <1>2. req' = req /\ batch' = batch /\ phase' = phase /\ preempted' = preempted
    BY DEF Execute, schedVars, loopVars
  <1>3. PICK u, qu : u = queue' /\ qu = queue
    OBVIOUS
  <1>4. PICK k : Done(u, qu, k)
    BY <1>1, <1>3, ExecuteRuns, Zenon
  <1>5. Len(u) = Len(qu) /\ \A j \in 1 .. Len(qu) : u[j].entries = qu[j].entries
    <2>1. Len(u) = Len(qu)
      BY <1>4, Zenon DEF Done
    <2>2. ASSUME NEW j \in 1 .. Len(qu) PROVE u[j].entries = qu[j].entries
      BY <1>4 DEF Done
    <2> QED
      BY <2>1, <2>2
  <1>6. AllSampled(u, req, batch, phase, preempted)
    <2>1. ASSUME NEW j \in 1 .. Len(u), NEW i \in 1 .. Len(u[j].entries)
          PROVE  Sampled(u[j].entries[i], j, req, batch, phase, preempted)
      <3>1. j \in 1 .. Len(qu) /\ u[j].entries = qu[j].entries
        BY <1>5
      <3>2. Sampled(qu[j].entries[i], j, req, batch, phase, preempted)
        BY <1>1, <1>3, <3>1, Zenon DEF AllSampled
      <3> QED
        BY <3>1, <3>2, Zenon
    <2> QED
      BY <2>1, Zenon DEF AllSampled
  <1>7. OneSample(u)
    <2>1. ASSUME NEW k2 \in 1 .. Len(u), NEW j \in 1 .. Len(u), k2 # j,
                 NEW i \in 1 .. Len(u[k2].entries), NEW l \in 1 .. Len(u[j].entries),
                 Samples(u[k2].entries[i]), Samples(u[j].entries[l])
          PROVE  u[k2].entries[i].r # u[j].entries[l].r
      <3>1. /\ j \in 1 .. Len(qu) /\ u[j].entries = qu[j].entries
            /\ k2 \in 1 .. Len(qu) /\ u[k2].entries = qu[k2].entries
        BY <1>5
      <3>2. OneSample(qu)
        BY <1>1, <1>3
      <3> QED
        BY <2>1, <3>1, <3>2, ZenonT(60) DEF OneSample
    <2> QED
      BY <2>1, Zenon DEF OneSample
  <1> QED
    BY <1>1, <1>2, <1>3, <1>6, <1>7, Zenon DEF SampleInv

\* The oldest output is taken: nobody whose token is in another one changes, and none of them waits.
LEMMA UpdateSamples ==
  ASSUME SampleInv, ReadInv', UpdateFromOutput
  PROVE  SampleInv'
  <1>1. /\ QueueSize <= 2 /\ (phase \in {"input", "waiting", "update"} => ~preempted)
        /\ AllSampled(queue, req, batch, phase, preempted) /\ OneSample(queue)
        /\ SchedInv /\ FullInv
    BY DEF SampleInv, ReadInv
  <1>2. req \in [Requests -> Reqs] /\ queue \in Seq(Outs)
    BY <1>1 DEF SchedInv, SchedType
  <1>3. /\ phase = "update" /\ phase' = "input" /\ queue # <<>> /\ queue' = Tail(queue)
        /\ batch' = batch /\ preempted' = preempted
    BY DEF UpdateFromOutput
  <1>4. UpdateMade
    BY <1>1, UpdateFromOutputKeeps
  <1>5. PICK next, rq, bt, ph, pre, qu, u, es :
          /\ next = req' /\ rq = req /\ bt = batch /\ ph = phase /\ pre = preempted
          /\ qu = queue /\ u = queue' /\ es = Head(queue).entries
    OBVIOUS
  <1>6. \A r \in Requests : next[r] # rq[r] => \E i \in DOMAIN es : es[i].r = r /\ Samples(es[i])
    BY <1>4, <1>5, Zenon DEF UpdateMade
  <1>7. PICK n \in Nat : n = Len(qu) /\ n > 0
    BY <1>2, <1>3, <1>5, LenProperties, EmptySeq
  <1>8. /\ Len(u) = n - 1 /\ es = qu[1].entries /\ \A j \in 1 .. n - 1 : u[j] = qu[j + 1]
    <2> DEFINE O == Outs
    <2>1. qu \in Seq(O) /\ qu # <<>> /\ u = Tail(qu)
      BY <1>2, <1>3, <1>5
    <2> HIDE DEF O
    <2>2. Len(u) = n - 1 /\ \A j \in 1 .. n - 1 : u[j] = qu[j + 1]
      BY <1>7, <2>1, HeadTailProperties
    <2>3. Head(qu) = qu[1]
      BY <2>1
    <2> QED
      BY <1>5, <2>2, <2>3
  <1>9. ASSUME NEW j \in 1 .. n - 1, NEW i \in 1 .. Len(u[j].entries), Samples(u[j].entries[i])
        PROVE  /\ u[j].entries[i].r \in Requests
               /\ next[u[j].entries[i].r] = rq[u[j].entries[i].r]
               /\ Sampled(u[j].entries[i], j + 1, rq, bt, ph, pre)
    <2>1. j + 1 \in 1 .. n /\ 1 \in 1 .. n /\ j + 1 # 1 /\ u[j] = qu[j + 1]
      BY <1>7, <1>8
    <2>2. PICK k : k = j + 1
      OBVIOUS
    <2>3. PICK e : e = u[j].entries[i]
      OBVIOUS
    <2>4. k \in 1 .. Len(qu) /\ i \in 1 .. Len(qu[k].entries) /\ e = qu[k].entries[i] /\ 1 \in 1 .. Len(qu)
          /\ k # 1
      BY <1>7, <1>9, <2>1, <2>2, <2>3
    <2>5. e.r \in Requests
      BY <1>2, <1>5, <2>4, QueueEntries
    <2>6. Sampled(e, k, rq, bt, ph, pre)
      BY <1>1, <1>5, <2>4, Zenon DEF AllSampled
    <2>7. DOMAIN es = 1 .. Len(es)
      <3>1. es \in Seq(Entries)
        BY <1>2, <1>5, <1>8, <2>4, QueueEntries
      <3> QED
        BY <3>1, LenProperties
    <2>8. ASSUME NEW l \in DOMAIN es, es[l].r = e.r, Samples(es[l]) PROVE FALSE
      <3>1. l \in 1 .. Len(qu[1].entries) /\ es = qu[1].entries
        BY <1>8, <2>7, <2>8
      <3>2. OneSample(qu) /\ Samples(qu[k].entries[i])
        BY <1>1, <1>5, <1>9, <2>3, <2>4
      <3>3. qu[k].entries[i].r # qu[1].entries[l].r
        BY <2>4, <2>8, <3>1, <3>2, Zenon DEF OneSample
      <3> QED
        BY <2>4, <2>8, <3>1, <3>3
    <2>9. next[e.r] = rq[e.r]
      BY <1>6, <2>5, <2>8
    <2> QED
      BY <2>2, <2>3, <2>5, <2>6, <2>9
  <1>10. AllSampled(u, next, bt, "input", pre)
    <2>1. ASSUME NEW j \in 1 .. Len(u), NEW i \in 1 .. Len(u[j].entries)
          PROVE  Sampled(u[j].entries[i], j, next, bt, "input", pre)
      <3>1. CASE ~Samples(u[j].entries[i])
        BY <3>1 DEF Sampled
      <3>2. CASE Samples(u[j].entries[i])
        <4>1. PICK e : e = u[j].entries[i]
          OBVIOUS
        <4>2. j \in 1 .. n - 1
          BY <1>8
        <4>3. e.r \in Requests /\ next[e.r] = rq[e.r] /\ Sampled(e, j + 1, rq, bt, ph, pre)
          BY <1>9, <3>2, <4>1, <4>2
        <4>4. j + 1 # 1
          BY <1>7, <4>2
        <4>5. Sampled(e, j, next, bt, "input", pre)
          BY <4>3, <4>4 DEF Sampled
        <4> QED
          BY <4>1, <4>5
      <3> QED
        BY <3>1, <3>2
    <2> QED
      BY <2>1, Zenon DEF AllSampled
  <1>11. OneSample(u)
    <2>1. ASSUME NEW k \in 1 .. Len(u), NEW j \in 1 .. Len(u), k # j,
                 NEW i \in 1 .. Len(u[k].entries), NEW l \in 1 .. Len(u[j].entries),
                 Samples(u[k].entries[i]), Samples(u[j].entries[l])
          PROVE  u[k].entries[i].r # u[j].entries[l].r
      <3>1. PICK k2, j2 : k2 = k + 1 /\ j2 = j + 1
        OBVIOUS
      <3>2. /\ k2 \in 1 .. Len(qu) /\ j2 \in 1 .. Len(qu) /\ k2 # j2 /\ u[k] = qu[k2] /\ u[j] = qu[j2]
        BY <1>7, <1>8, <2>1, <3>1, SMTT(30)
      <3>3. OneSample(qu)
        BY <1>1, <1>5
      <3> QED
        BY <2>1, <3>2, <3>3, ZenonT(60) DEF OneSample
    <2> QED
      BY <2>1, Zenon DEF OneSample
  <1>12. AllSampled(queue, req, batch, phase, preempted)' /\ OneSample(queue)'
    <2>1. queue' = u /\ req' = next /\ batch' = bt /\ phase' = "input" /\ preempted' = pre
      BY <1>3, <1>5
    <2>2. AllSampled(queue', req', batch', phase', preempted') /\ OneSample(queue')
      BY <1>10, <1>11, <2>1
    <2> QED
      BY <2>2
  <1>13. (phase \in {"input", "waiting", "update"} => ~preempted)'
    BY <1>1, <1>3
  <1> QED
    BY <1>1, <1>12, <1>13 DEF SampleInv

\* Every step keeps the invariant.
LEMMA NextSamples ==
  ASSUME SampleInv, [Next]_vars
  PROVE  SampleInv'
  <1>0. ReadInv' /\ Requests # {}
    <2>1. ReadInv
      BY DEF SampleInv
    <2>2. ReadInv'
      BY <2>1, NextReads
    <2>3. 1 \in Requests
      BY ServingAssumption DEF Requests
    <2> QED
      BY <2>2, <2>3
  <1>1. CASE (\E r \in Requests : AddRequest(r) \/ Abort(r)) \/ ResetCache
    <2>1. PICK r \in Requests : AddRequest(r) \/ Abort(r) \/ ResetCache
      BY <1>0, <1>1
    <2> QED
      BY <1>0, <2>1, FrontEndSamples
  <1>2. CASE BeginStep \/ SkipRunning \/ EndRunning \/ EngineFails
    BY <1>0, <1>2, LoopSamples
  <1>3. CASE Preempt
    BY <1>0, <1>3, PreemptSamples
  <1>4. CASE ScheduleRunning
    BY <1>0, <1>4, ScheduleRunningSamples
  <1>5. CASE AdmitWaiting
    BY <1>0, <1>5, AdmitWaitingSamples
  <1>6. CASE Send
    BY <1>0, <1>6, SendSamples
  <1>7. CASE UpdateFromOutput
    BY <1>0, <1>7, UpdateSamples
  <1>8. CASE Execute
    BY <1>0, <1>8, ExecuteSamples
  <1>9. CASE UNCHANGED vars
    <2>1. /\ req' = req /\ batch' = batch /\ queue' = queue /\ phase' = phase /\ preempted' = preempted
      BY <1>9 DEF vars, schedVars, loopVars
    <2> QED
      BY <1>0, <2>1, Zenon DEF SampleInv
  <1> QED
    BY <1>1, <1>2, <1>3, <1>4, <1>5, <1>6, <1>7, <1>8, <1>9 DEF Next, Engine

\* The invariant says more than SamplesStayCurrent.
LEMMA InvSamples ==
  ASSUME SampleInv
  PROVE  SamplesStayCurrent
  <1>1. queue \in Seq(Outs) /\ req \in [Requests -> Reqs]
    BY DEF SampleInv, ReadInv, SchedInv, SchedType
  <1>2. AllSampled(queue, req, batch, phase, preempted) /\ OneSample(queue)
    BY DEF SampleInv
  <1>3. DOMAIN queue = 1 .. Len(queue)
    BY <1>1, LenProperties
  <1>4. \A k \in 1 .. Len(queue) : DOMAIN queue[k].entries = 1 .. Len(queue[k].entries)
    BY <1>1, QueueEntries, LenProperties
  <1>5. ASSUME NEW k \in DOMAIN queue, NEW i \in DOMAIN queue[k].entries,
               Samples(queue[k].entries[i]), Unfinished(queue[k].entries[i].r)
        PROVE  /\ queue[k].entries[i].tokens = req[queue[k].entries[i].r].tokens
               /\ \A j \in DOMAIN queue \ {k} : \A x \in ToSet(queue[j].entries) :
                    x.r = queue[k].entries[i].r => ~Samples(x)
    <2>1. k \in 1 .. Len(queue) /\ i \in 1 .. Len(queue[k].entries)
      BY <1>3, <1>4
    <2>2. PICK e : e = queue[k].entries[i]
      OBVIOUS
    <2>3. Sampled(e, k, req, batch, phase, preempted)
      BY <1>2, <2>1, <2>2, Zenon DEF AllSampled
    <2>4. e.tokens = req[e.r].tokens
      BY <1>5, <2>2, <2>3 DEF Sampled, Unfinished
    <2>5. ASSUME NEW j \in DOMAIN queue \ {k}, NEW x \in ToSet(queue[j].entries), x.r = e.r, Samples(x)
          PROVE  FALSE
      <3>1. j \in 1 .. Len(queue) /\ k # j
        BY <1>3
      <3>2. queue[j].entries \in Seq(Entries)
        BY <1>1, <3>1, QueueEntries
      <3>3. PICK l \in 1 .. Len(queue[j].entries) : queue[j].entries[l] = x
        BY <2>5, <3>2, Members
      <3>4. queue[k].entries[i].r # queue[j].entries[l].r
        BY <1>2, <1>5, <2>1, <2>5, <3>1, <3>3, Zenon DEF OneSample
      <3> QED
        BY <2>2, <2>5, <3>3, <3>4
    <2> QED
      BY <2>2, <2>4, <2>5
  <1> QED
    BY <1>5, Zenon DEF SamplesStayCurrent

\* SamplesStayCurrent: with at most two outputs on their way (step(), or a pipeline of two stages),
\* no token comes back that was sampled after other tokens than its request has by then, and no
\* position gets two, although requests are preempted and resumed under the outputs that have them.
THEOREM SamplesStayCurrentHolds ==
  QueueSize <= 2 /\ Spec => []SamplesStayCurrent
  <1>1. QueueSize <= 2 /\ Init => SampleInv
    BY InitSamples
  <1>2. SampleInv /\ [Next]_vars => SampleInv'
    BY NextSamples
  <1>3. SampleInv => SamplesStayCurrent
    BY InvSamples
  <1> QED
    BY <1>1, <1>2, <1>3, PTL DEF Spec
=============================================================================
