----------------------------- MODULE TopPSearch -----------------------------
(***************************************************************************)
(* The two kernels that search for the threshold above which the           *)
(* probabilities of a row add up to p: TopPMaskKernel of the backend       *)
(* (csrc/rabitq_int4_binary.cu), a ternary search from the maximum, and    *)
(* TopPReturnMaskKernel of the evaluation (csrc/include/sampling.cuh), a   *)
(* bisection that starts from the probability of the first token, the      *)
(* attention sink, and stops within eps.  A reduction across the threads   *)
(* of the block is part of the pass it ends.  The selector in Python       *)
(* (pyimpl/rabitq.py) sorts the row instead.                               *)
(***************************************************************************)
EXTENDS TopP, SequencesExt

CONSTANT Eps  \* the tolerance eps of the bisection, in threshold parts

ASSUME EpsAssumption == Eps \in Nat

VARIABLES
  kernel,                   \* "TopPMask", "TopPReturnMask" or "Sort"
  row, p,                   \* the row and the mass to reach (in units)
  low, high,                \* the search interval
  min_gt_low, max_le_high,  \* smallest and largest probability inside it
  pc,                       \* "scan", "narrow" or "done"
  mask                      \* the selected tokens, once done

vars == <<kernel, row, p, low, high, min_gt_low, max_le_high, pc, mask>>

\* "Fast-path: when p >= 1.0, all tokens are selected".  The row comes from a
\* softmax in floating point, so its sum may fall short of one.
StartTopPMask(r, q, one) ==
  /\ kernel = "TopPMask"
  /\ row = r /\ p = q
  /\ low = 0 /\ high = MaxValue(r)
  /\ min_gt_low = 0 /\ max_le_high = 0
  /\ \/ q >= one /\ pc = "done" /\ mask = DOMAIN r
     \/ q < one /\ pc = "scan" /\ mask = {}

\* "load attention sink": high = probs[0].
StartTopPReturnMask(r, q) ==
  /\ kernel = "TopPReturnMask"
  /\ row = r /\ p = q
  /\ low = 0 /\ high = r[1] * Scale
  /\ min_gt_low = 0 /\ max_le_high = 0
  /\ pc = "scan" /\ mask = {}

StartSort(r, q) ==
  /\ kernel = "Sort"
  /\ row = r /\ p = q
  /\ low = 0 /\ high = 0 /\ min_gt_low = 0 /\ max_le_high = 0
  /\ pc = "scan" /\ mask = {}

\* One pass over the row, the same in both kernels.
Scan ==
  /\ pc = "scan" /\ kernel # "Sort"
  /\ min_gt_low' = MinAbove(row, low, high)
  /\ max_le_high' = MaxUpTo(row, low, high)
  /\ pc' = "narrow"
  /\ UNCHANGED <<kernel, row, p, low, high, mask>>

---------------------------------------------------------------------------
(* TopPMaskKernel *)

pivot_0 == (high + 2 * low) \div 3
pivot_1 == (2 * high + low) \div 3

\* Mutant: a mass equal to p does not count.
Thirds_Strict ==
  CASE Mass(row, pivot_1) > p -> <<pivot_1, high>>
    [] Mass(row, pivot_0) > p -> <<pivot_0, Min({pivot_1, max_le_high})>>
    [] OTHER -> <<low, Min({pivot_0, max_le_high})>>

\* low and high after a pass; the kernel tests the larger pivot first.
Thirds ==
  CASE Mass(row, pivot_1) >= p -> <<pivot_1, high>>
    [] Mass(row, pivot_1) < p /\ Mass(row, pivot_0) >= p ->
         <<pivot_0, Min({pivot_1, max_le_high})>>
    [] OTHER -> <<low, Min({pivot_0, max_le_high})>>

\* while (min_gt_low != max_le_high), then the mask is written.
NarrowTopPMask ==
  /\ kernel = "TopPMask" /\ pc = "narrow"
  /\ low' = Thirds[1] /\ high' = Thirds[2]
  /\ \/ min_gt_low # max_le_high /\ pc' = "scan" /\ UNCHANGED mask
     \/ min_gt_low = max_le_high /\ pc' = "done" /\ mask' = Above(row, low')
  /\ UNCHANGED <<kernel, row, p, min_gt_low, max_le_high>>

---------------------------------------------------------------------------
(* TopPReturnMaskKernel *)

mid == (low + high) \div 2

\* Mutant: a mass equal to p does not count.
Halves_Strict ==
  IF Mass(row, mid) > p THEN <<mid, high>>
                        ELSE <<low, Min({mid, max_le_high})>>

\* Mutant: the upper bound stays where it is.
Halves_Stuck == IF Mass(row, mid) >= p THEN <<mid, high>> ELSE <<low, high>>

\* low and high after a pass.
Halves ==
  IF Mass(row, mid) >= p THEN <<mid, high>>
                         ELSE <<low, Min({mid, max_le_high})>>

\* while (max_le_high - min_gt_low > eps), then the mask is written.
NarrowTopPReturnMask ==
  /\ kernel = "TopPReturnMask" /\ pc = "narrow"
  /\ low' = Halves[1] /\ high' = Halves[2]
  /\ \/ max_le_high - min_gt_low > Eps /\ pc' = "scan" /\ UNCHANGED mask
     \/ /\ max_le_high - min_gt_low <= Eps
        /\ pc' = "done"
        /\ mask' = Above(row, low')
  /\ UNCHANGED <<kernel, row, p, min_gt_low, max_le_high>>

---------------------------------------------------------------------------
(* The sort of the Python selector *)

MassOf(sel) == MapThenSumSet(LAMBDA i : row[i], sel)

\* Tokens up to which the cumulative sum is at most p, and the first one.
Kept(order) ==
  {order[k] : k \in {1} \cup {j \in DOMAIN order : MassOf({order[i] : i \in 1 .. j}) <= p}}

\* sort, cumsum, scatter: equal probabilities may come in any order.
SortTopP ==
  /\ kernel = "Sort" /\ pc = "scan"
  /\ \E order \in SetToSeqs(DOMAIN row) :
       /\ \A i, j \in DOMAIN order : i < j => row[order[i]] >= row[order[j]]
       /\ mask' = Kept(order)
  /\ pc' = "done"
  /\ UNCHANGED <<kernel, row, p, low, high, min_gt_low, max_le_high>>

---------------------------------------------------------------------------
\* The kernel ends.
Return == pc = "done" /\ UNCHANGED vars

\* What the mass of a row may lack to one because of rounding, in units.
Shortfall == {0, 2}

Init ==
  \E r \in Rows, short \in Shortfall :
    \E q \in 1 .. Total(r) + short :
      StartTopPMask(r, q, Total(r) + short) \/ StartTopPReturnMask(r, q) \/ StartSort(r, q)

Search == Scan \/ NarrowTopPMask \/ NarrowTopPReturnMask \/ SortTopP

Next == Search \/ Return

\* The block's threads run until they return.
Spec == Init /\ [][Next]_vars /\ WF_vars(Search)

---------------------------------------------------------------------------
(* Properties *)

\* The upper bound is an upper bound: always in TopPMaskKernel, and in
\* TopPReturnMaskKernel if the first token carries the largest probability.
StartsFromMax == kernel = "TopPReturnMask" => row[1] * Scale = MaxValue(row)

\* The comment of both kernels, "loop invariant: f(low) >= p, f(high) < p;
\* f(low) > f(min_gt_low) >= f(max_le_high) == f(high)", where the second part
\* is about the pass that has just been made.
LoopInvariant ==
  kernel # "Sort" /\ pc # "done" /\ p <= Total(row) /\ StartsFromMax =>
    /\ Mass(row, low) >= p /\ Mass(row, high) < p
    /\ pc = "narrow" =>
         /\ Mass(row, low) > Mass(row, min_gt_low)
         /\ Mass(row, min_gt_low) >= Mass(row, max_le_high)
         /\ Mass(row, max_le_high) = Mass(row, high)

\* Within which a search does not tell probabilities apart: "while (max_le_high -
\* min_gt_low > eps)" of the bisection, "while (min_gt_low != max_le_high)" of
\* the ternary search.
Slack == IF kernel = "TopPReturnMask" THEN Eps ELSE 0

\* The mask of a search prefers the heavier token and keeps ties together, and
\* its mass reaches p.  If the search starts from the maximum, then it has
\* nothing superfluous but tokens without mass and, in the bisection, tokens
\* within eps of one that is needed: the ternary search selects the top-p set,
\* the bisection a set around it.  A row whose mass falls short of p keeps all
\* its mass.
SearchSelects ==
  IF p <= Total(row)
  THEN LET sel == {i \in mask : row[i] > 0}
       IN  /\ \A i \in sel, j \in DOMAIN row \ mask : row[i] > row[j]
           /\ MassOf(sel) >= p
           /\ StartsFromMax => IsTopP(row, sel, p, Slack)
  ELSE Above(row, 0) \subseteq mask

\* The mask of the sort prefers the heavier token too, but stops before the one that makes
\* it reach p: it exceeds p only if it is a single token, and lacks at most one to reach it.
SortSelects ==
  /\ mask # {}
  /\ \A i \in mask, j \in DOMAIN row \ mask : row[i] >= row[j]
  /\ MassOf(mask) <= p \/ \E i \in mask : mask = {i}
  /\ p <= Total(row) => \E i \in DOMAIN row : MassOf(mask \cup {i}) >= p

\* What each of the three implementations of top-p selects, on every row, also
\* on one whose probabilities lie closer together than eps.
SelectsTopP == pc = "done" => IF kernel = "Sort" THEN SortSelects ELSE SearchSelects

\* Both searches end on every row: with ties, with a sink that weighs nothing,
\* and when the row falls short of p, so that no pivot ever satisfies it.
Terminates == <>(pc = "done")
=============================================================================
