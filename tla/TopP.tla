-------------------------------- MODULE TopP --------------------------------
(***************************************************************************)
(* Top-p selection over a row of probabilities, as both searching kernels  *)
(* (rabitq_int4_binary.cu and sampling.cuh) define it.  Probabilities are  *)
(* whole units; thresholds are counted in parts of a unit, Scale of them,  *)
(* so that the pivots of the searches are exact.                           *)
(***************************************************************************)
EXTENDS Integers, Sequences, FiniteSetsExt, Folds

CONSTANTS
  MaxTokens,  \* longest row (d)
  MaxUnits,   \* largest probability of a token, in units
  Scale       \* threshold parts per unit

ASSUME TopPAssumption ==
  MaxTokens \in Nat \ {0} /\ MaxUnits \in Nat \ {0} /\ Scale \in Nat \ {0}

\* Rows with some probability mass.
Rows ==
  {row \in UNION {[1 .. d -> 0 .. MaxUnits] : d \in 1 .. MaxTokens} :
     \E i \in DOMAIN row : row[i] > 0}

Above(row, x) == {i \in DOMAIN row : row[i] * Scale > x}

\* "f(x) = sum(probs[probs > x]), f(x) is non-increasing"
Mass(row, x) == MapThenSumSet(LAMBDA i : row[i], Above(row, x))

Total(row) == Mass(row, 0)

MaxValue(row) == Scale * Max({row[i] : i \in DOMAIN row})

\* "min_gt_low = min{p \in probs | p > low}", starting from high.
MinAbove(row, low, high) ==
  Min({high} \cup {row[i] * Scale : i \in Above(row, low)})

\* "max_le_high = max{p \in probs | p <= high}", starting from low.
MaxUpTo(row, low, high) ==
  Max({low} \cup {row[i] * Scale : i \in DOMAIN row \ Above(row, high)})

\* Reference: the tokens of the largest probabilities whose mass reaches p,
\* equal probabilities together, and no probability more than needed: what
\* outweighs a selected token, by more than a tolerance of slack, falls short
\* of p.  The top-p set itself is the one without slack.
IsTopP(row, sel, p, slack) ==
  /\ \A i \in sel, j \in DOMAIN row \ sel : row[i] > row[j]
  /\ MapThenSumSet(LAMBDA i : row[i], sel) >= p
  /\ \A k \in sel :
       MapThenSumSet(LAMBDA i : row[i], {i \in sel : row[i] * Scale > row[k] * Scale + slack}) < p
=============================================================================
