------------------------------- MODULE Figures -------------------------------
(* The arithmetic of the benchmark reports (bench/loadtest.py,               *)
(* bench/run_all.py): order statistics and relative changes of integers, as  *)
(* hundredths of the unit of the code's floats.  No figure depends on the    *)
(* order of its samples: `values` is a function of any finite domain, of     *)
(* which a sequence is one.                                                  *)
EXTENDS Integers, Sequences, FiniteSets

Samples(values)  == Cardinality(DOMAIN values)
Below(values, v) == {j \in DOMAIN values : values[j] < v}
UpTo(values, v)  == {j \in DOMAIN values : values[j] <= v}

\* ordered[i - 1], for ordered = sorted(values)
Nth(values, i) ==
  CHOOSE v \in {values[j] : j \in DOMAIN values} :
    Cardinality(Below(values, v)) < i /\ i <= Cardinality(UpTo(values, v))

Highest(values) == IF Samples(values) = 0 THEN 0 ELSE Nth(values, Samples(values))

\* pct: linear interpolation between the two neighbours of rank (n - 1) * p / 100.
PctUpperFirst(values, lo) == Nth(values, 1)
PctUpper(values, lo) == Nth(values, IF lo < Samples(values) THEN lo + 1 ELSE lo)
Pct(values, p) ==
  LET k  == (Samples(values) - 1) * p
      lo == k \div 100 + 1
  IN IF Samples(values) = 0 THEN 0
     ELSE 100 * Nth(values, lo) + (PctUpper(values, lo) - Nth(values, lo)) * (k % 100)

\* statistics.median
Median(values) ==
  LET n == Samples(values) IN
  IF n % 2 = 1 THEN 100 * Nth(values, n \div 2 + 1)
  ELSE 50 * (Nth(values, n \div 2) + Nth(values, n \div 2 + 1))

\* drop: the reduction in percent; the code has None where `before` is 0.
DropSwapped(before, after) == (100 * (after - before)) \div before
Drop(before, after) == (100 * (before - after)) \div before
=============================================================================
