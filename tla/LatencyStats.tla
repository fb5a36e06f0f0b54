----------------------------- MODULE LatencyStats -----------------------------
(***************************************************************************)
(* The statistics block that LatencyProfiler::Compute derives from a       *)
(* non-empty window of samples (src/src/profiler.hpp).  Samples are        *)
(* naturals, fractions are percent and a percentile is given in hundredths *)
(* of a sample, so that every value is an exact integer; the square roots  *)
(* and the display conversions are left out.                               *)
(***************************************************************************)
EXTENDS Integers, Sequences, FiniteSets, FiniteSetsExt

(***************************************************************************)
(* Sorting puts a sample where its rank says: after the smaller ones and,  *)
(* of the equal ones, after those that come before it.                     *)
(***************************************************************************)
Rank(w, i) == Cardinality({j \in DOMAIN w : w[j] < w[i] \/ (w[j] = w[i] /\ j <= i)})

Ranked(w, k) == CHOOSE i \in DOMAIN w : Rank(w, i) = k

Sorted(w) == [k \in DOMAIN w |-> w[Ranked(w, k)]]

(***************************************************************************)
(* 100 times the percentile q (in percent) of the sorted samples s, by     *)
(* linear interpolation between the two nearest ranks.                     *)
(***************************************************************************)
PercentileOfCount(s, q) ==
  LET n    == Len(s)
      pos  == q * n
      i    == pos \div 100
      frac == pos % 100
  IN  IF i + 1 >= n THEN 100 * s[n]
                    ELSE 100 * s[i + 1] + frac * (s[i + 2] - s[i + 1])

Percentile(s, q) ==
  LET n    == Len(s)
      pos  == q * (n - 1)
      i    == pos \div 100
      frac == pos % 100
  IN  IF i + 1 >= n THEN 100 * s[n]
                    ELSE 100 * s[i + 1] + frac * (s[i + 2] - s[i + 1])

(***************************************************************************)
(* How many samples the trim drops: the ceiling of the fraction, but never *)
(* so many that fewer than two remain.                                     *)
(***************************************************************************)
DropAll(n, trim) ==
  IF trim > 0 /\ n >= 3 THEN (trim * n + 99) \div 100 ELSE 0

Drop(n, trim) ==
  IF trim > 0 /\ n >= 3 THEN Min({(trim * n + 99) \div 100, n - 2}) ELSE 0

SumOver(f, S) == MapThenSumSet(LAMBDA i : f[i], S)

Sum(s) == SumOver(s, DOMAIN s)

(***************************************************************************)
(* The squared deviations of s from the mean sum / n, added up and         *)
(* multiplied by n^2.  The sample variance is this over n^2 (n - 1).       *)
(***************************************************************************)
Deviation(s, sum, n) ==
  IF n < 2 THEN 0
  ELSE Sum([i \in DOMAIN s |-> (n * s[i] - sum) * (n * s[i] - sum)])

(***************************************************************************)
(* A mean is the pair of a sum and a count.                                *)
(***************************************************************************)
Compute(w, trim) ==
  LET s    == Sorted(w)
      n    == Len(w)
      drop == Drop(n, trim)
      kept == SubSeq(s, 1, n - drop)
  IN  [n |-> n, dropped |-> drop, trimmed |-> n - drop,
       min |-> s[1], max |-> s[n],
       median |-> Percentile(s, 50), p95 |-> Percentile(s, 95), p99 |-> Percentile(s, 99),
       sum |-> Sum(s), trimmed_sum |-> Sum(kept),
       deviation |-> Deviation(s, Sum(s), n),
       trimmed_deviation |-> Deviation(kept, Sum(kept), n - drop)]
-----------------------------------------------------------------------------
(***************************************************************************)
(* The statistics c of a window w by their definitions, counted on the     *)
(* unsorted window.                                                        *)
(***************************************************************************)
AtMost(w, v)  == Cardinality({i \in DOMAIN w : 100 * w[i] <= v})
AtLeast(w, v) == Cardinality({i \in DOMAIN w : 100 * w[i] >= v})

(***************************************************************************)
(* The percentiles are what their names say: at least the stated share of  *)
(* the gaps between samples lies on each side, and they come in order      *)
(* between the extremes ("Linear-interpolated percentile",                 *)
(* src/src/profiler.hpp:168).                                              *)
(***************************************************************************)
PercentilesFit(w, c) ==
  LET n == Len(w)
  IN  /\ \A q \in {<<50, c.median>>, <<95, c.p95>>, <<99, c.p99>>} :
           /\ 100 * AtMost(w, q[2]) >= q[1] * (n - 1)
           /\ 100 * AtLeast(w, q[2]) >= (100 - q[1]) * (n - 1)
      /\ 2 * AtMost(w, c.median) >= n
      /\ 2 * AtLeast(w, c.median) >= n
      /\ 100 * c.min <= c.median /\ c.median <= c.p95
      /\ c.p95 <= c.p99 /\ c.p99 <= 100 * c.max

(***************************************************************************)
(* The squared differences of all pairs of samples.                        *)
(***************************************************************************)
DifferencesTo(s, j) ==
  SumOver([i \in 1..(j - 1) |-> (s[i] - s[j]) * (s[i] - s[j])], 1..(j - 1))

PairDifferences(s) == Sum([j \in DOMAIN s |-> DifferencesTo(s, j)])

DeviationFits(w, c) ==
  /\ c.deviation = Len(w) * PairDifferences(w)
  /\ c.trimmed_deviation = c.trimmed * PairDifferences(SubSeq(Sorted(w), 1, c.trimmed))

Slowest(w, i) == \A j \in DOMAIN w : w[j] <= w[i]

TrimFits(w, trim, c) ==
  /\ c.trimmed + c.dropped = Len(w)
  /\ Len(w) >= 2 => c.trimmed >= 2
  /\ c.trimmed_sum * Len(w) <= c.sum * c.trimmed
  /\ c.dropped > 0 => \A i \in DOMAIN w :
       Slowest(w, i) => Compute([w EXCEPT ![i] = 10 * @], trim).trimmed_sum = c.trimmed_sum
=============================================================================
