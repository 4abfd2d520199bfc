----------------------------- MODULE Statistics -----------------------------
(***************************************************************************)
(* The statistics of core/stats.rs as far as bad_input_task uses them:     *)
(* which inputs of a frame sk_fisher_chi2 finds suspicious, and the moving *)
(* average of the result.                                                  *)
(*                                                                         *)
(* A row holds one value per input, for one frequency.  The logarithms and *)
(* the two distribution functions are abstracted to what they tell apart:  *)
(* whether an input's p-value is below 1, and whether its likelihood is    *)
(* positive.  A positive likelihood is at most 1 and counts as Unit.       *)
(* Values are finite numbers, and nothing underflows: a sum so small that  *)
(* gamma_lr rounds its likelihood to zero, or a row in which a NaN makes   *)
(* the variance one, has fewer suspicious inputs in the code than here.    *)
(***************************************************************************)
EXTENDS Integers, Sequences, FiniteSets

CONSTANTS
  Inputs,     \* positions in a row
  Unit,       \* one, in the units the average is kept in
  Lookback,   \* N, BAD_INPUT_LIKELIHOOD_LOOKBACK
  NoAverage   \* no sample yet

Row          == [Inputs -> Int]
FrameContent == [rows : Seq(Row), received : SUBSET Nat]

ASSUME InputsAssumption   == IsFiniteSet(Inputs) /\ Inputs = 1 .. Cardinality(Inputs)
ASSUME AverageAssumption  == Unit \in Nat \ {0} /\ Lookback \in Nat \ {0}
ASSUME NoAverageAssumption == NoAverage \notin [Inputs -> Nat]

-----------------------------------------------------------------------------
\* One row.

Below(row, v)   == {i \in Inputs : row[i] < v}
NotAbove(row, v) == {i \in Inputs : row[i] <= v}

\* The element at position n, counted from 0, once the row is sorted.
Nth(row, n) ==
  CHOOSE v \in {row[i] : i \in Inputs} :
    Cardinality(Below(row, v)) <= n /\ n < Cardinality(NotAbove(row, v))

Mid == Cardinality(Inputs) \div 2

\* The median of an even number of values is between two of them, so it is
\* kept as twice its value.
TwiceMedian(row) ==
  IF Cardinality(Inputs) = 0 THEN 0
  ELSE IF Cardinality(Inputs) % 2 = 0 THEN Nth(row, Mid - 1) + Nth(row, Mid)
  ELSE 2 * Nth(row, Mid)

\* The inputs that differ from the median.  If there is none the row has no
\* variance.
Deviating(row) == {i \in Inputs : 2 * row[i] # TwiceMedian(row)}

\* Defect: the check of std_coeff is gone.
NeverSkipped(deviating) == FALSE

\* std_coeff is infinite: the row does not take part.
Skipped(deviating) == deviating = {}

\* The inputs with a p-value below 1.  It is 1 at the median of a row with a
\* variance; without one it would be that of NaN, which max makes 1e-50.
Suspicious(deviating) == IF deviating = {} THEN Inputs ELSE deviating

\* The inputs to whose Fisher sum the row adds something.
Suspects(row) ==
  IF Skipped(Deviating(row)) THEN {} ELSE Suspicious(Deviating(row))

-----------------------------------------------------------------------------
\* One frame.

\* gamma_lr(k, x) is an error, which becomes 0, for k = 0 and for x = 0.
Likelihood(content) ==
  [i \in Inputs |->
     IF content.received # {} /\ (\E n \in DOMAIN content.rows : i \in Suspects(content.rows[n]))
     THEN Unit ELSE 0]

-----------------------------------------------------------------------------
\* The moving average, with alpha = 2 / (N + 1).

\* Defect: the average starts from zero.
AverageFromZero(average, sample) ==
  LET old == IF average = NoAverage THEN [i \in Inputs |-> 0] ELSE average
  IN  [i \in Inputs |-> ((Lookback - 1) * old[i] + 2 * sample[i]) \div (Lookback + 1)]

\* The first sample is the first average.
NextAverage(average, sample) ==
  IF average = NoAverage THEN sample
  ELSE [i \in Inputs |->
          ((Lookback - 1) * average[i] + 2 * sample[i]) \div (Lookback + 1)]

=============================================================================
