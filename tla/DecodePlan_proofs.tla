-------------------------- MODULE DecodePlan_proofs --------------------------
(***************************************************************************)
(* A plan that plan_direct keeps divides the pages of its batch exactly as *)
(* long as none of its requests was preempted since it was made,           *)
(* for every number of requests, page size and length.                     *)
(***************************************************************************)
EXTENDS DecodePlan, WellFoundedInduction, TLAPS

-----------------------------------------------------------------------------
(* Sums *)

\* Induction on the natural numbers, for sets.
LEMMA SetInduction ==
  ASSUME NEW S, 0 \in S, \A n \in Nat : n \in S => n + 1 \in S
  PROVE  \A n \in Nat : n \in S
  <1> DEFINE T == Nat \ S
  <1> SUFFICES ASSUME T # {} PROVE FALSE
    OBVIOUS
  <1>0. T \subseteq Nat /\ T # {} /\ IsWellFoundedOn(OpToRel(<, Nat), Nat)
    BY NatLessThanWellFounded
  <1>1. PICK x \in T : \A y \in T : ~(<<y, x>> \in OpToRel(<, Nat))
    <2> DEFINE R == OpToRel(<, Nat)
    <2> HIDE DEF T, R
    <2>1. IsWellFoundedOn(R, Nat)
      BY <1>0 DEF R
    <2>2. \E x \in T : \A y \in T : ~(<<y, x>> \in R)
      BY <1>0, <2>1, WFMin
    <2> QED
      BY <2>2 DEF R
  <1>2. x # 0 /\ x - 1 \in Nat
    OBVIOUS
  <1>3. <<x - 1, x>> \in OpToRel(<, Nat)
    BY <1>1, <1>2 DEF OpToRel
  <1>4. x - 1 \in S
    BY <1>1, <1>2, <1>3
  <1> QED
    BY <1>2, <1>4

\* The running totals of a sequence.
IsIndptr(f, ps) ==
  /\ f \in [0 .. Len(ps) -> Int]
  /\ f[0] = 0 /\ \A i \in 1 .. Len(ps) : f[i] = f[i - 1] + ps[i]

\* kv_indptr exists, for every number of rows.
LEMMA IndptrExists ==
  ASSUME NEW ps \in Seq(Int)
  PROVE  \E f : IsIndptr(f, ps)
  <1> DEFINE Sums(n) == {f \in [0 .. n -> Int] :
                           f[0] = 0 /\ \A i \in 1 .. n : f[i] = f[i - 1] + ps[i]}
             S == {n \in Nat : n <= Len(ps) => \E f : f \in Sums(n)}
  <1>1. 0 \in S
    <2> DEFINE z == [i \in 0 .. 0 |-> 0]
    <2>1. z \in [0 .. 0 -> Int] /\ z[0] = 0 /\ 1 .. 0 = {}
      OBVIOUS
    <2> HIDE DEF z
    <2>2. z \in Sums(0)
      BY <2>1
    <2> HIDE DEF Sums
    <2> QED
      BY <2>2
  <1>2. ASSUME NEW n \in Nat, n \in S, n + 1 <= Len(ps)
        PROVE  \E g : g \in Sums(n + 1)
    <2>1. PICK f : f \in Sums(n)
      <3> HIDE DEF Sums
      <3> QED
        BY <1>2
    <2> DEFINE g == [i \in 0 .. n + 1 |-> IF i = n + 1 THEN f[n] + ps[n + 1] ELSE f[i]]
    <2>2. f[n] + ps[n + 1] \in Int
      BY <1>2, <2>1
    <2>3. g \in [0 .. n + 1 -> Int] /\ g[0] = 0
      BY <2>1, <2>2
    <2>4. ASSUME NEW i \in 1 .. n + 1 PROVE g[i] = g[i - 1] + ps[i]
      BY <2>1
    <2> HIDE DEF g
    <2>5. g \in Sums(n + 1)
      BY <2>3, <2>4
    <2> HIDE DEF Sums
    <2> QED
      BY <2>5
  <1>3. \A n \in Nat : n \in S
    <2> HIDE DEF Sums
    <2>1. \A n \in Nat : n \in S => n + 1 \in S
      BY <1>2
    <2> HIDE DEF S
    <2> QED
      BY <1>1, <2>1, SetInduction
  <1>4. PICK f : f \in Sums(Len(ps))
    <2> HIDE DEF Sums
    <2> QED
      BY <1>3
  <1>5. IsIndptr(f, ps)
    BY <1>4 DEF IsIndptr
  <1> QED
    BY <1>5

\* The last of them is the number of indices.
LEMMA IndptrIsNumIndices ==
  ASSUME NEW ps \in Seq(Int)
  PROVE  \E f : IsIndptr(f, ps) /\ NumIndices(ps) = f[Len(ps)]
  <1> DEFINE F(f) == [i \in 0 .. Len(ps) |-> IF i = 0 THEN 0 ELSE f[i - 1] + ps[i]]
             g == CHOOSE f : f = F(f)
  <1>1. PICK h : IsIndptr(h, ps)
    BY IndptrExists
  <1>2. h = F(h)
    BY <1>1 DEF IsIndptr
  <1>3. g = F(g)
    BY <1>2
  <1>4. NumIndices(ps) = g[Len(ps)]
    BY Zenon DEF NumIndices
  <1> HIDE DEF g
  <1> DEFINE Fg == F(g)
  <1>5. Fg[0] = 0 /\ \A i \in 1 .. Len(ps) : Fg[i] = g[i - 1] + ps[i]
    OBVIOUS
  <1>6. g[0] = 0 /\ \A i \in 1 .. Len(ps) : g[i] = g[i - 1] + ps[i]
    <2> HIDE DEF Fg, F
    <2>1. g = Fg
      BY <1>3 DEF Fg
    <2> QED
      BY <1>5, <2>1
  <1>7. \A n \in Nat : n \in {m \in Nat : m <= Len(ps) => g[m] = h[m]}
    <2> DEFINE S == {n \in Nat : n <= Len(ps) => g[n] = h[n]}
    <2>1. 0 \in S
      BY <1>1, <1>6 DEF IsIndptr
    <2>2. \A n \in Nat : n \in S => n + 1 \in S
      BY <1>1, <1>6 DEF IsIndptr
    <2> HIDE DEF S
    <2>3. \A n \in Nat : n \in S
      BY <2>1, <2>2, SetInduction
    <2> QED
      BY <2>3 DEF S
  <1>8. NumIndices(ps) = h[Len(ps)]
    BY <1>4, <1>7
  <1> QED
    BY <1>1, <1>8

\* Totals hide nothing when no row shrinks: rows that only grew and have the same
\* total are the same rows.
LEMMA SumsEqual ==
  ASSUME NEW ps \in Seq(Int), NEW qs \in Seq(Int), Len(ps) = Len(qs),
         \A i \in 1 .. Len(ps) : ps[i] <= qs[i],
         NumIndices(ps) = NumIndices(qs)
  PROVE  ps = qs
  <1>1. PICK f : IsIndptr(f, ps) /\ NumIndices(ps) = f[Len(ps)]
    BY IndptrIsNumIndices
  <1>2. PICK g : IsIndptr(g, qs) /\ NumIndices(qs) = g[Len(qs)]
    BY IndptrIsNumIndices
  <1> DEFINE S == {n \in Nat : n <= Len(ps) =>
                     /\ f[n] <= g[n]
                     /\ f[n] = g[n] => \A i \in 1 .. n : ps[i] = qs[i]}
  <1>3. 0 \in S
    BY <1>1, <1>2 DEF IsIndptr
  <1>4. ASSUME NEW n \in Nat, n \in S, n + 1 <= Len(ps) PROVE n + 1 \in S
    <2>0. n \in 0 .. Len(ps) /\ n + 1 \in 1 .. Len(ps) /\ (n + 1) - 1 = n
      BY <1>4
    <2>1. /\ f[n] \in Int /\ g[n] \in Int /\ ps[n + 1] \in Int /\ qs[n + 1] \in Int
          /\ f[n + 1] = f[n] + ps[n + 1] /\ g[n + 1] = g[n] + qs[n + 1]
      <3> HIDE DEF S
      <3>1. f[n] \in Int /\ f[n + 1] = f[(n + 1) - 1] + ps[n + 1]
        BY <1>1, <2>0 DEF IsIndptr
      <3>2. g[n] \in Int /\ g[n + 1] = g[(n + 1) - 1] + qs[n + 1]
        BY <1>2, <2>0 DEF IsIndptr
      <3> QED
        BY <2>0, <3>1, <3>2
    <2>2. ps[n + 1] <= qs[n + 1] /\ f[n] <= g[n]
      BY <1>4
    <2>3. f[n + 1] = g[n + 1] => f[n] = g[n] /\ ps[n + 1] = qs[n + 1]
      BY <2>1, <2>2, SMTT(30)
    <2>4. f[n + 1] <= g[n + 1]
      BY <2>1, <2>2
    <2> QED
      BY <1>4, <2>3, <2>4
  <1>5. \A n \in Nat : n \in S => n + 1 \in S
    BY <1>4
  <1>6. \A n \in Nat : n \in S
    <2> HIDE DEF S
    <2> QED
      BY <1>3, <1>5, SetInduction
  <1>7. \A i \in 1 .. Len(ps) : ps[i] = qs[i]
    <2>1. Len(ps) \in S /\ Len(ps) \in Nat
      BY <1>6
    <2>2. f[Len(ps)] = g[Len(ps)]
      BY <1>1, <1>2
    <2> QED
      BY <2>1, <2>2
  <1> QED
    BY <1>7

-----------------------------------------------------------------------------
(* Pages *)

\* More tokens never need fewer pages.
LEMMA PagesGrow ==
  ASSUME NEW m \in Nat, NEW n \in Nat, m <= n
  PROVE  PagesOf(m) \in Int /\ PagesOf(n) \in Int /\ PagesOf(m) <= PagesOf(n)
  <1> DEFINE a == PagesOf(m)
             b == PagesOf(n)
  <1>1. a \in Int /\ b \in Int
    BY PlanAssumption DEF PagesOf
  <1>2. PageSize * a <= m + PageSize - 1 /\ n + PageSize - 1 < PageSize * b + PageSize
    BY PlanAssumption DEF PagesOf
  <1> HIDE DEF a, b
  <1>3. PageSize * a < PageSize * (b + 1)
    BY <1>1, <1>2, PlanAssumption
  <1>4. a < b + 1
    BY <1>1, <1>3, PlanAssumption
  <1> QED
    BY <1>1, <1>4 DEF a, b

-----------------------------------------------------------------------------
(* The inductive invariant *)

\* No request of the plan has fewer pages now, unless one was preempted since.
RowsGrow ==
  ~shrunk => \A i \in 1 .. Len(planned) : plan.pages[i] <= PagesOf(len[planned[i]])

\* A plan describes the batch it was made for.
PlanDescribesItsBatch ==
  /\ planned \in Seq(Reqs) /\ plan.pages \in Seq(Int)
  /\ Len(plan.pages) = Len(planned)
  /\ plan.batch_size = Len(planned)
  /\ plan.num_indices = NumIndices(plan.pages)
  /\ RowsGrow

PlanInv ==
  /\ len \in [Reqs -> Nat]
  /\ plan = NoPlan => roster = <<>>
  /\ plan # NoPlan => PlanDescribesItsBatch
  /\ PlanFitsItsBatch

\* The rows of a batch that can be decoded, and their pages.
LEMMA Rows ==
  ASSUME NEW b \in Batches, len \in [Reqs -> Nat]
  PROVE  /\ b \in Seq(Reqs) /\ RowPages(b) \in Seq(Int)
         /\ Len(b) \in Nat \ {0} /\ DOMAIN b = 1 .. Len(b)
         /\ Len(RowPages(b)) = Len(b)
         /\ \A i \in 1 .. Len(b) :
              /\ b[i] \in Reqs
              /\ RowPages(b)[i] = PagesOf(len[b[i]] + 1)
  <1>1. PICK k \in 1 .. MaxSeqs + 1 : b \in [1 .. k -> Reqs]
    BY DEF Batches
  <1>2. /\ b \in Seq(Reqs) /\ Len(b) = k /\ k \in Nat \ {0} /\ DOMAIN b = 1 .. k
    BY <1>1, PlanAssumption
  <1>3. ASSUME NEW i \in 1 .. k
        PROVE  b[i] \in Reqs /\ PagesOf(len[b[i]] + 1) \in Int
    BY <1>1, PagesGrow
  <1>4. RowPages(b) \in [1 .. k -> Int]
    BY <1>2, <1>3 DEF RowPages
  <1>5. RowPages(b) \in Seq(Int) /\ Len(RowPages(b)) = k
    BY <1>2, <1>4
  <1> QED
    BY <1>2, <1>3, <1>5 DEF RowPages

\* Steps that leave the buffers and the plan alone.
LEMMA GrowStep ==
  ASSUME PlanInv, UNCHANGED buffers, len' \in [Reqs -> Nat],
         plan # NoPlan /\ ~shrunk' =>
           ~shrunk /\ \A i \in 1 .. Len(planned) : len[planned[i]] <= len'[planned[i]]
  PROVE  PlanInv'
  <1>1. UNCHANGED <<pages, roster, plan, planned>>
    BY DEF buffers
  <1>2. ASSUME plan # NoPlan PROVE PlanDescribesItsBatch'
    <2>1. PlanDescribesItsBatch
      BY <1>2 DEF PlanInv
    <2>2. ASSUME ~shrunk', NEW i \in 1 .. Len(planned)
          PROVE  plan.pages[i] <= PagesOf(len'[planned[i]])
      <3>1. planned[i] \in Reqs /\ plan.pages[i] \in Int
        BY <2>1 DEF PlanDescribesItsBatch
      <3>2. /\ plan.pages[i] <= PagesOf(len[planned[i]])
            /\ len[planned[i]] <= len'[planned[i]]
        BY <1>2, <2>1, <2>2 DEF PlanDescribesItsBatch, RowsGrow
      <3>3. PICK m \in Nat, n \in Nat : m = len[planned[i]] /\ n = len'[planned[i]]
        BY <3>1 DEF PlanInv
      <3>4. PagesOf(m) \in Int /\ PagesOf(n) \in Int /\ PagesOf(m) <= PagesOf(n)
        BY <3>2, <3>3, PagesGrow
      <3> QED
        BY <3>1, <3>2, <3>3, <3>4
    <2>3. RowsGrow'
      BY <1>1, <2>2 DEF RowsGrow
    <2> QED
      BY <1>1, <2>1, <2>3 DEF PlanDescribesItsBatch
  <1>3. PlanFitsItsBatch'
    <2> SUFFICES ASSUME roster # <<>>, roster = planned, ~shrunk' PROVE plan.pages = pages
      BY <1>1 DEF PlanFitsItsBatch
    <2>1. plan # NoPlan
      BY DEF PlanInv
    <2> QED
      BY <2>1 DEF PlanInv, PlanFitsItsBatch
  <1> QED
    BY <1>1, <1>2, <1>3 DEF PlanInv

\* What the scheduler does to the lengths.
LEMMA SchedulerSteps ==
  ASSUME PlanInv, NEW r \in Reqs,
         \/ \E n \in 1 .. MaxPrompt : Arrive(r, n)
         \/ \E n \in 1 .. MaxLen : Advance(r, n)
         \/ Preempt(r)
  PROVE  PlanInv'
  <1>1. len \in [Reqs -> Nat]
    BY DEF PlanInv
  <1>2. plan # NoPlan => planned \in Seq(Reqs) /\ \A i \in 1 .. Len(planned) : planned[i] \in Reqs
    BY DEF PlanInv, PlanDescribesItsBatch
  <1>3. ASSUME NEW n \in 1 .. MaxPrompt, Arrive(r, n) PROVE PlanInv'
    <2>1. UNCHANGED buffers /\ len' = len /\ shrunk' = shrunk
      BY <1>3 DEF Arrive
    <2>2. plan # NoPlan => \A i \in 1 .. Len(planned) : len[planned[i]] <= len[planned[i]]
      BY <1>1, <1>2
    <2> QED
      BY <1>1, <2>1, <2>2, GrowStep
  <1>4. ASSUME NEW n \in 1 .. MaxLen, Advance(r, n) PROVE PlanInv'
    <2>1. UNCHANGED buffers /\ shrunk' = shrunk /\ len' = [len EXCEPT ![r] = n]
      BY <1>4 DEF Advance
    <2>2. n \in Nat /\ len[r] \in Nat
      BY <1>1, PlanAssumption
    <2>3. len[r] <= n
      BY <1>4, <2>2 DEF Advance
    <2>4. len' \in [Reqs -> Nat] /\ \A q \in Reqs : len[q] <= len'[q]
      BY <1>1, <2>1, <2>2, <2>3
    <2>5. plan # NoPlan => \A i \in 1 .. Len(planned) : len[planned[i]] <= len'[planned[i]]
      BY <1>2, <2>4
    <2> QED
      BY <2>1, <2>4, <2>5, GrowStep
  <1>5. CASE Preempt(r)
    <2>1. /\ UNCHANGED buffers /\ len' = [len EXCEPT ![r] = 0]
          /\ shrunk' = (shrunk \/ \E i \in DOMAIN planned : planned[i] = r)
      BY <1>5 DEF Preempt
    <2>2. len' \in [Reqs -> Nat] /\ \A q \in Reqs : q # r => len'[q] = len[q]
      BY <1>1, <2>1
    <2>3. ASSUME plan # NoPlan, ~shrunk'
          PROVE  ~shrunk /\ \A i \in 1 .. Len(planned) : len[planned[i]] <= len'[planned[i]]
      <3>1. ~shrunk /\ \A i \in DOMAIN planned : planned[i] # r
        BY <2>1, <2>3
      <3>2. DOMAIN planned = 1 .. Len(planned)
        BY <1>2, <2>3
      <3>3. ASSUME NEW i \in 1 .. Len(planned) PROVE len[planned[i]] <= len'[planned[i]]
        <4>1. planned[i] \in Reqs /\ planned[i] # r
          BY <1>2, <2>3, <3>1, <3>2
        <4>2. len'[planned[i]] = len[planned[i]] /\ len[planned[i]] \in Nat
          BY <1>1, <2>2, <4>1
        <4> QED
          BY <4>2
      <3> QED
        BY <3>1, <3>3
    <2> QED
      BY <2>1, <2>2, <2>3, GrowStep
  <1> QED
    BY <1>3, <1>4, <1>5

\* The invariant holds in every state.
LEMMA PlanInvHolds == Spec => []PlanInv
  <1>1. Init => PlanInv
    BY DEF Init, PlanInv, PlanFitsItsBatch
  <1>2. PlanInv /\ [Next]_vars => PlanInv'
    <2> SUFFICES ASSUME PlanInv, [Next]_vars PROVE PlanInv'
      OBVIOUS
    <2>0. UNCHANGED <<len, buffers, shrunk>> => PlanInv'
      <3>1. len \in [Reqs -> Nat] /\ \A q \in Reqs : len[q] <= len[q]
        BY DEF PlanInv
      <3>2. plan # NoPlan => \A i \in 1 .. Len(planned) : planned[i] \in Reqs
        BY DEF PlanInv, PlanDescribesItsBatch
      <3> QED
        BY <3>1, <3>2, GrowStep
    <2>1. ASSUME NEW r \in Reqs,
                 \/ \E n \in 1 .. MaxPrompt : Arrive(r, n)
                 \/ \E n \in 1 .. MaxLen : Advance(r, n)
                 \/ Preempt(r)
          PROVE  PlanInv'
      BY <2>1, SchedulerSteps
    <2>2. ASSUME NEW b \in Batches, BuildRaises(b) PROVE PlanInv'
      BY <2>0, <2>2 DEF BuildRaises
    <2>3. ASSUME NEW b \in Batches, Step(b) PROVE PlanInv'
      <3> DEFINE ps == RowPages(b)
      <3>0. len \in [Reqs -> Nat]
        BY DEF PlanInv
      <3>1. /\ b \in Seq(Reqs) /\ ps \in Seq(Int)
            /\ Len(b) \in Nat \ {0} /\ DOMAIN b = 1 .. Len(b) /\ Len(ps) = Len(b)
            /\ \A i \in 1 .. Len(b) :
                 b[i] \in Reqs /\ ps[i] = PagesOf(len[b[i]] + 1)
        BY <3>0, Rows
      <3> HIDE DEF ps
      <3>2. /\ len' = [r \in Reqs |-> IF \E i \in DOMAIN b : b[i] = r
                                      THEN len[r] + 1 ELSE len[r]]
            /\ pages' = ps /\ roster' = b
            /\ \/ Reuses(ps) /\ UNCHANGED <<plan, planned, shrunk>>
               \/ /\ plan' = [batch_size |-> Len(b), num_indices |-> NumIndices(ps),
                              pages |-> ps]
                  /\ planned' = b
        BY <2>3 DEF Step, ps
      <3>3. /\ len' \in [Reqs -> Nat]
            /\ \A q \in Reqs : len[q] <= len'[q]
            /\ \A i \in 1 .. Len(b) : len'[b[i]] = len[b[i]] + 1
        <4>1. ASSUME NEW q \in Reqs
              PROVE  len'[q] = IF \E i \in 1 .. Len(b) : b[i] = q THEN len[q] + 1 ELSE len[q]
          BY <3>1, <3>2
        <4>2. ASSUME NEW q \in Reqs PROVE len[q] \in Nat /\ len'[q] \in Nat /\ len[q] <= len'[q]
          BY <3>0, <4>1
        <4>3. ASSUME NEW i \in 1 .. Len(b) PROVE len'[b[i]] = len[b[i]] + 1
          BY <3>1, <4>1
        <4>4. DOMAIN len' = Reqs
          BY <3>2
        <4> QED
          BY <3>2, <4>2, <4>3, <4>4
      <3>4. b # <<>>
        BY <3>1
      <3>5. CASE Reuses(ps) /\ UNCHANGED <<plan, planned, shrunk>>
        <4>1. plan # NoPlan /\ PlanDescribesItsBatch /\ plan' = plan /\ planned' = planned /\ shrunk' = shrunk
          BY <3>5 DEF Reuses, PlanInv
        <4>2. ASSUME ~shrunk, NEW i \in 1 .. Len(planned)
              PROVE  /\ plan.pages[i] <= PagesOf(len'[planned[i]])
                     /\ plan.pages[i] <= PagesOf(len[planned[i]] + 1)
          <5>1. planned[i] \in Reqs /\ plan.pages[i] \in Int
                /\ plan.pages[i] <= PagesOf(len[planned[i]])
            BY <4>1, <4>2 DEF PlanDescribesItsBatch, RowsGrow
          <5>2. len[planned[i]] \in Nat /\ len'[planned[i]] \in Nat
                /\ len[planned[i]] <= len'[planned[i]]
            BY <3>0, <3>3, <5>1
          <5> QED
            BY <5>1, <5>2, PagesGrow, SMTT(30)
        <4>3. PlanDescribesItsBatch'
          BY <4>1, <4>2 DEF PlanDescribesItsBatch, RowsGrow
        <4>4. ASSUME b = planned, ~shrunk PROVE plan.pages = ps
          <5>1. plan.pages \in Seq(Int) /\ Len(plan.pages) = Len(ps)
            BY <3>1, <4>1, <4>4 DEF PlanDescribesItsBatch
          <5>2. NumIndices(plan.pages) = NumIndices(ps)
            BY <3>5, <4>1 DEF Reuses, PlanDescribesItsBatch
          <5>3. \A i \in 1 .. Len(plan.pages) : plan.pages[i] <= ps[i]
            BY <3>1, <4>2, <4>4, <5>1
          <5> QED
            BY <3>1, <5>1, <5>2, <5>3, SumsEqual
        <4> QED
          BY <3>2, <3>3, <4>1, <4>3, <4>4 DEF PlanInv, PlanFitsItsBatch
      <3>6. CASE /\ plan' = [batch_size |-> Len(b), num_indices |-> NumIndices(ps),
                             pages |-> ps]
                 /\ planned' = b
        <4>1. \A i \in 1 .. Len(b) : ps[i] <= PagesOf(len'[b[i]])
          BY <3>0, <3>1, <3>3, PagesGrow
        <4>2. PlanDescribesItsBatch'
          BY <3>1, <3>6, <4>1 DEF PlanDescribesItsBatch, RowsGrow
        <4>3. plan' # NoPlan
          BY <3>1, <3>6 DEF NoPlan
        <4> QED
          BY <3>2, <3>3, <3>6, <4>2, <4>3 DEF PlanInv, PlanFitsItsBatch
      <3> QED
        BY <3>2, <3>5, <3>6
    <2>4. CASE UNCHANGED vars
      BY <2>0, <2>4 DEF vars
    <2> QED
      BY <2>1, <2>2, <2>3, <2>4 DEF Next
  <1> QED
    BY <1>1, <1>2, PTL DEF Spec

\* A plan that plan_direct keeps for the requests it was made for, none of them preempted
\* since, divides exactly the pages of this step's rows (rabitq_flashinfer_ops.py), for
\* every number of requests, page size and length: comparing the total is enough as long as
\* rows only grow.
THEOREM PlanFits == Spec => []PlanFitsItsBatch
  <1>1. PlanInv => PlanFitsItsBatch
    BY DEF PlanInv
  <1> QED
    BY <1>1, PlanInvHolds, PTL
=============================================================================
