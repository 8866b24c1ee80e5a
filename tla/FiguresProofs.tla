---------------------------- MODULE FiguresProofs ----------------------------
(* Lemmas about the order statistics of the benchmark reports, for any finite *)
(* family of integers.  The first of them take the place of inductions over   *)
(* the samples: a set of naturals has a least element, a finite set of        *)
(* samples a greatest one.                                                    *)
EXTENDS Figures, FiniteSetTheorems, WellFoundedInduction, TLAPS

LEMMA LeastNat ==
  ASSUME NEW S \in SUBSET Nat, S # {}
  PROVE  \E m \in S : \A k \in S : m <= k
<1>1. PICK m \in S : \A k \in S : ~(<<k, m>> \in OpToRel(<, Nat))
  BY NatLessThanWellFounded, WFMin
<1>2. \A k \in S : ~(k < m)
  BY <1>1 DEF OpToRel
<1> QED
  BY <1>2

\* What a family of integers is, to the lemmas below.
Family(values) ==
  /\ IsFiniteSet(DOMAIN values)
  /\ values \in [DOMAIN values -> Int]

LEMMA SampleSets ==
  ASSUME NEW values, Family(values), NEW S \in SUBSET DOMAIN values
  PROVE  IsFiniteSet(S) /\ Cardinality(S) \in Nat /\ Cardinality(S) <= Samples(values)
BY FS_Subset, FS_CardinalityType DEF Family, Samples

\* A set that is part of another one, and not all of it, has fewer samples.
LEMMA FewerSamples ==
  ASSUME NEW values, Family(values), NEW T \in SUBSET DOMAIN values,
         NEW S \in SUBSET T
  PROVE  /\ Cardinality(S) <= Cardinality(T)
         /\ S # T => Cardinality(S) < Cardinality(T)
BY SampleSets, FS_Subset

LEMMA GreatestSample ==
  ASSUME NEW values, Family(values), NEW B \in SUBSET DOMAIN values, B # {}
  PROVE  \E j \in B : \A l \in B : values[l] <= values[j]
<1> DEFINE Above(j) == {l \in B : values[l] > values[j]}
           Sizes == {Cardinality(Above(j)) : j \in B}
<1>1. \A j \in B : Above(j) \in SUBSET DOMAIN values
  OBVIOUS
<1>2. Sizes \in SUBSET Nat /\ Sizes # {}
  BY <1>1, SampleSets
<1>3. PICK j \in B : \A l \in B : Cardinality(Above(j)) <= Cardinality(Above(l))
  <2>1. PICK m \in Sizes : \A k \in Sizes : m <= k
    BY <1>2, LeastNat
  <2> QED
    BY <2>1
<1>4. ASSUME NEW l \in B, ~(values[l] <= values[j]) PROVE FALSE
  <2>1. values[l] \in Int /\ values[j] \in Int /\ values[l] > values[j]
    BY <1>4 DEF Family
  <2>2. Above(l) \subseteq Above(j) /\ l \in Above(j) /\ l \notin Above(l)
    BY <2>1 DEF Family
  <2>3. Cardinality(Above(l)) < Cardinality(Above(j))
    BY <1>1, <2>2, FewerSamples
  <2> QED
    BY <1>1, <1>3, <2>3, SampleSets
<1> QED
  BY <1>4
-----------------------------------------------------------------------------
(* Ranks.                                                                   *)

Ranked(values, v, i) ==
  /\ v \in {values[j] : j \in DOMAIN values}
  /\ Cardinality(Below(values, v)) < i /\ i <= Cardinality(UpTo(values, v))

\* Every rank is taken.
LEMMA RankTaken ==
  ASSUME NEW values, Family(values), NEW i \in 1..Samples(values)
  PROVE  \E v : Ranked(values, v, i)
<1> DEFINE Reach(j) == Cardinality(UpTo(values, values[j]))
           Enough == {j \in DOMAIN values : i <= Reach(j)}
<1>0. /\ \A v : UpTo(values, v) \in SUBSET DOMAIN values
      /\ \A v : Below(values, v) \in SUBSET DOMAIN values
      /\ \A j \in DOMAIN values : Reach(j) \in Nat
  <2>1. \A v : UpTo(values, v) \in SUBSET DOMAIN values /\ Below(values, v) \in SUBSET DOMAIN values
    BY DEF UpTo, Below
  <2> QED
    BY <2>1, SampleSets
<1>1. Enough # {}
  <2>1. DOMAIN values # {}
    BY FS_EmptySet DEF Samples
  <2>2. PICK j \in DOMAIN values : \A l \in DOMAIN values : values[l] <= values[j]
    BY <2>1, GreatestSample
  <2>3. UpTo(values, values[j]) = DOMAIN values
    BY <2>2 DEF UpTo
  <2> QED
    BY <2>3 DEF Samples
<1>2. PICK j \in Enough : \A l \in Enough : Reach(j) <= Reach(l)
  <2>1. {Reach(l) : l \in Enough} \in SUBSET Nat /\ {Reach(l) : l \in Enough} # {}
    BY <1>0, <1>1
  <2>2. PICK m \in {Reach(l) : l \in Enough} : \A k \in {Reach(l) : l \in Enough} : m <= k
    BY <2>1, LeastNat
  <2> QED
    BY <2>2
<1>3. Cardinality(Below(values, values[j])) < i
  <2>1. CASE Below(values, values[j]) = {}
    BY <2>1, FS_EmptySet
  <2>2. CASE Below(values, values[j]) # {}
    <3>1. PICK k \in Below(values, values[j]) :
            \A l \in Below(values, values[j]) : values[l] <= values[k]
      BY <1>0, <2>2, GreatestSample
    <3>2. k \in DOMAIN values /\ values[k] < values[j] /\ values[k] \in Int /\ values[j] \in Int
      BY <1>0, <3>1 DEF Below, Family
    <3>3. UpTo(values, values[k]) = Below(values, values[j])
      BY <3>1, <3>2 DEF UpTo, Below, Family
    <3>4. Below(values, values[j]) \subseteq UpTo(values, values[j])
          /\ j \in UpTo(values, values[j]) /\ j \notin Below(values, values[j])
      BY <3>2 DEF UpTo, Below, Family
    <3>5. Reach(k) < Reach(j)
      BY <1>0, <3>3, <3>4, FewerSamples
    <3>6. ~(i <= Reach(k))
      BY <1>0, <1>2, <3>2, <3>5
    <3> QED
      BY <1>0, <3>2, <3>3, <3>6
  <2> QED
    BY <2>1, <2>2
<1> QED
  BY <1>2, <1>3 DEF Ranked

LEMMA NthRanked ==
  ASSUME NEW values, Family(values), NEW i \in 1..Samples(values)
  PROVE  /\ Ranked(values, Nth(values, i), i)
         /\ Nth(values, i) \in Int
<1>1. Nth(values, i) = CHOOSE v \in {values[j] : j \in DOMAIN values} : Ranked(values, v, i)
  BY DEF Nth, Ranked
<1>2. \E v \in {values[j] : j \in DOMAIN values} : Ranked(values, v, i)
  BY RankTaken DEF Ranked
<1>3. Ranked(values, Nth(values, i), i)
  BY <1>1, <1>2
<1> QED
  BY <1>3 DEF Ranked, Family

\* sorted(values) is sorted.
LEMMA NthMonotone ==
  ASSUME NEW values, Family(values), NEW i \in 1..Samples(values),
         NEW k \in 1..Samples(values), i <= k
  PROVE  Nth(values, i) <= Nth(values, k)
<1> DEFINE v == Nth(values, i)
           w == Nth(values, k)
<1>1. v \in Int /\ w \in Int /\ Ranked(values, v, i) /\ Ranked(values, w, k)
  BY NthRanked
<1>2. ASSUME w < v PROVE FALSE
  <2>1. UpTo(values, w) \subseteq Below(values, v) /\ Below(values, v) \in SUBSET DOMAIN values
    BY <1>1, <1>2 DEF UpTo, Below, Family
  <2>2. Cardinality(UpTo(values, w)) <= Cardinality(Below(values, v))
    BY <2>1, FewerSamples
  <2>3. Cardinality(UpTo(values, w)) \in Nat /\ Cardinality(Below(values, v)) \in Nat
    BY <2>1, SampleSets
  <2> QED
    BY <1>1, <2>2, <2>3 DEF Ranked
<1> QED
  BY <1>1, <1>2

\* Every rank is a sample's.
LEMMA NthIsSample ==
  ASSUME NEW values, Family(values), NEW i \in 1..Samples(values)
  PROVE  \E j \in DOMAIN values : Nth(values, i) = values[j]
BY NthRanked DEF Ranked
-----------------------------------------------------------------------------
(* Percentiles.                                                             *)

LEMMA Product ==
  ASSUME NEW d \in Nat, NEW f \in Int, NEW g \in Int, f <= g
  PROVE  d * f \in Int /\ d * g \in Int /\ d * f <= d * g
<1>1. d * (g - f) >= 0
  OBVIOUS
<1>2. d * (g - f) = d * g - d * f
  OBVIOUS
<1> QED
  BY <1>1, <1>2

\* The rank below the p-th percentile, and the share of the way to the next one.
Rank(values, p)  == ((Samples(values) - 1) * p) \div 100 + 1
Share(values, p) == ((Samples(values) - 1) * p) % 100

LEMMA RankFacts ==
  ASSUME NEW values, Family(values), Samples(values) # 0, NEW p \in 0..100
  PROVE  /\ Samples(values) \in Nat \ {0}
         /\ Rank(values, p) \in 1..Samples(values) /\ Share(values, p) \in 0..99
         /\ (Samples(values) - 1) * p = 100 * (Rank(values, p) - 1) + Share(values, p)
         /\ Rank(values, p) = Samples(values) => Share(values, p) = 0
<1> DEFINE n == Samples(values)
           k == (n - 1) * p
<1>1. n \in Nat \ {0}
  BY FS_CardinalityType DEF Samples, Family
<1>2. k \in Nat /\ k <= (n - 1) * 100
  <2>1. n - 1 \in Nat /\ 0 <= p /\ p <= 100 /\ p \in Int
    BY <1>1
  <2>2. (n - 1) * 0 <= (n - 1) * p /\ (n - 1) * p <= (n - 1) * 100 /\ k \in Int
    BY <2>1, Product
  <2> QED
    BY <1>1, <2>1, <2>2
<1> HIDE DEF k
<1>3. k \div 100 \in Nat /\ k % 100 \in 0..99 /\ k = 100 * (k \div 100) + (k % 100)
  BY <1>2
<1>4. Rank(values, p) = k \div 100 + 1 /\ Share(values, p) = k % 100
  BY DEF Rank, Share, k
<1>5. k = 100 * (Rank(values, p) - 1) + Share(values, p)
  BY <1>3, <1>4
<1>6. Rank(values, p) \in 1..n /\ Share(values, p) \in 0..99
  BY <1>1, <1>2, <1>3, <1>4
<1>7. Rank(values, p) = n => Share(values, p) = 0
  BY <1>1, <1>2, <1>5, <1>6
<1> QED
  BY <1>1, <1>5, <1>6, <1>7 DEF k

LEMMA PctFacts ==
  ASSUME NEW values, Family(values), Samples(values) # 0, NEW p \in 0..100
  PROVE  LET v == Nth(values, Rank(values, p))
             w == PctUpper(values, Rank(values, p))
         IN /\ v \in Int /\ w \in Int /\ v <= w
            /\ Pct(values, p) = 100 * v + (w - v) * Share(values, p)
            /\ Pct(values, p) \in Int
            /\ 100 * v <= Pct(values, p) /\ Pct(values, p) <= 100 * w
            /\ Share(values, p) = 0 => Pct(values, p) = 100 * v
<1> DEFINE lo == Rank(values, p)
           hi == IF lo < Samples(values) THEN lo + 1 ELSE lo
           v == Nth(values, lo)
           w == PctUpper(values, lo)
           f == Share(values, p)
<1>1. lo \in 1..Samples(values) /\ hi \in 1..Samples(values) /\ lo <= hi /\ f \in 0..99
  <2>1. Samples(values) \in Nat /\ lo \in 1..Samples(values) /\ f \in 0..99
    BY RankFacts
  <2> HIDE DEF lo
  <2> QED
    BY <2>1
<1>2. v \in Int /\ w \in Int /\ v <= w
  <2>1. w = Nth(values, hi)
    BY DEF PctUpper
  <2> HIDE DEF lo, hi
  <2> QED
    BY <1>1, <2>1, NthRanked, NthMonotone
<1>3. Pct(values, p) = 100 * v + (w - v) * f
  BY DEF Pct, Rank, Share
<1> HIDE DEF v, w, f
<1>4. (w - v) * 0 <= (w - v) * f /\ (w - v) * f <= (w - v) * 100 /\ (w - v) * f \in Int
  <2>1. w - v \in Nat /\ f \in Int /\ 0 <= f /\ f <= 100
    BY <1>1, <1>2
  <2> QED
    BY <2>1, Product
<1>5. Pct(values, p) \in Int /\ 100 * v <= Pct(values, p) /\ Pct(values, p) <= 100 * w
  BY <1>2, <1>3, <1>4
<1>6. f = 0 => Pct(values, p) = 100 * v
  BY <1>2, <1>3
<1> QED
  BY <1>2, <1>3, <1>5, <1>6 DEF v, w, f

LEMMA PctMonotone ==
  ASSUME NEW values, Family(values), Samples(values) # 0,
         NEW p \in 0..100, NEW q \in 0..100, p <= q
  PROVE  Pct(values, p) <= Pct(values, q)
<1> DEFINE lo == Rank(values, p)
           lo2 == Rank(values, q)
           v == Nth(values, lo)
           w == PctUpper(values, lo)
           f == Share(values, p)
           g == Share(values, q)
           n == Samples(values)
<1>1. /\ n \in Nat \ {0} /\ lo \in 1..n /\ lo2 \in 1..n /\ f \in 0..99 /\ g \in 0..99
  BY RankFacts
<1>2. (n - 1) * p <= (n - 1) * q /\ (n - 1) * p \in Int /\ (n - 1) * q \in Int
  <2>1. n - 1 \in Nat /\ p \in Int /\ q \in Int
    BY <1>1
  <2> QED
    BY <2>1, Product
<1>3. lo < lo2 \/ (lo = lo2 /\ f <= g)
  <2> DEFINE x == (n - 1) * p
             y == (n - 1) * q
  <2>1. x <= y /\ x = 100 * (lo - 1) + f /\ y = 100 * (lo2 - 1) + g
    BY <1>2, RankFacts
  <2> HIDE DEF x, y, lo, lo2, f, g
  <2> QED
    BY <1>1, <2>1
<1>4. CASE lo = lo2 /\ f <= g
  <2>1. v \in Int /\ w \in Int /\ v <= w
    BY PctFacts
  <2>2. w - v \in Nat /\ f \in Int /\ g \in Int
    BY <1>1, <2>1
  <2>3. (w - v) * f <= (w - v) * g /\ (w - v) * f \in Int /\ (w - v) * g \in Int
    BY <1>4, <2>2, Product
  <2>4. /\ Pct(values, p) = 100 * v + (w - v) * f
        /\ Pct(values, q) = 100 * v + (w - v) * g
    BY <1>4, PctFacts
  <2> HIDE DEF v, w, f, g
  <2> QED
    BY <2>1, <2>3, <2>4
<1>5. CASE lo < lo2
  <2>1. w = Nth(values, lo + 1) /\ lo + 1 \in 1..n /\ lo + 1 <= lo2
    BY <1>1, <1>5 DEF PctUpper
  <2>2. w <= Nth(values, lo2) /\ w \in Int /\ Nth(values, lo2) \in Int
    BY <1>1, <2>1, NthMonotone, NthRanked
  <2>3. /\ Pct(values, p) \in Int /\ Pct(values, p) <= 100 * w
        /\ Pct(values, q) \in Int /\ 100 * Nth(values, lo2) <= Pct(values, q)
    BY PctFacts
  <2> HIDE DEF w, lo2
  <2> QED
    BY <2>2, <2>3
<1> QED
  BY <1>3, <1>4, <1>5

LEMMA PctEnds ==
  ASSUME NEW values, Family(values), Samples(values) # 0
  PROVE  /\ Pct(values, 0) = 100 * Nth(values, 1)
         /\ Pct(values, 100) = 100 * Highest(values)
<1> DEFINE n == Samples(values)
<1>1. n \in Nat \ {0}
  BY RankFacts
<1>2. Rank(values, 0) = 1 /\ Share(values, 0) = 0
  <2>1. (n - 1) * 0 = 0
    BY <1>1
  <2> QED
    BY <2>1 DEF Rank, Share
<1>3. Rank(values, 100) = n /\ Share(values, 100) = 0
  BY <1>1 DEF Rank, Share
<1> QED
  BY <1>2, <1>3, PctFacts DEF Highest

LEMMA PctOfHalf ==
  ASSUME NEW values, Family(values), Samples(values) # 0
  PROVE  Pct(values, 50) = Median(values)
<1> DEFINE n == Samples(values)
           m == n \div 2
<1>1. n \in Nat \ {0}
  BY RankFacts
<1>2. CASE n % 2 = 1
  <2>1. Rank(values, 50) = m + 1 /\ Share(values, 50) = 0
    BY <1>1, <1>2 DEF Rank, Share
  <2> QED
    BY <1>2, <2>1, PctFacts DEF Median
<1>3. CASE n % 2 # 1
  <2>0. m \in Nat /\ n = 2 * m /\ m >= 1
    BY <1>1, <1>3
  <2>1. Rank(values, 50) = m /\ Share(values, 50) = 50 /\ m < n /\ m \in Int
    <3>1. (n - 1) * 50 = 100 * (m - 1) + 50
      BY <2>0
    <3>2. ((n - 1) * 50) \div 100 = m - 1 /\ ((n - 1) * 50) % 100 = 50
      BY <2>0, <3>1
    <3> QED
      BY <2>0, <3>2 DEF Rank, Share
  <2>2. PctUpper(values, m) = Nth(values, m + 1)
    BY <2>1 DEF PctUpper
  <2>3. /\ Nth(values, m) \in Int /\ Nth(values, m + 1) \in Int
        /\ Pct(values, 50) = 100 * Nth(values, m) + (Nth(values, m + 1) - Nth(values, m)) * 50
    BY <2>1, <2>2, PctFacts
  <2>4. Median(values) = 50 * (Nth(values, m) + Nth(values, m + 1))
    BY <1>3 DEF Median
  <2> HIDE DEF m
  <2> QED
    BY <2>3, <2>4
<1> QED
  BY <1>2, <1>3

\* What the report of any latencies says of them: the percentiles are ordered and
\* lie between the least and the greatest sample, and the 50th is the median.
LEMMA PercentilesOf ==
  ASSUME NEW values, Family(values), Samples(values) # 0
  PROVE  /\ 100 * Nth(values, 1) <= Pct(values, 50)
         /\ Pct(values, 50) <= Pct(values, 95)
         /\ Pct(values, 95) <= Pct(values, 99)
         /\ Pct(values, 99) <= 100 * Highest(values)
         /\ Pct(values, 50) = Median(values)
<1>1. /\ Pct(values, 0) <= Pct(values, 50) /\ Pct(values, 50) <= Pct(values, 95)
      /\ Pct(values, 95) <= Pct(values, 99) /\ Pct(values, 99) <= Pct(values, 100)
  BY PctMonotone
<1> QED
  BY <1>1, PctEnds, PctOfHalf

\* A median lies between two of the samples, the least and the greatest.
LEMMA MedianBetween ==
  ASSUME NEW values, Family(values), Samples(values) # 0
  PROVE  /\ 100 * Nth(values, 1) <= Median(values)
         /\ Median(values) <= 100 * Highest(values)
         /\ Median(values) \in Int
         /\ \E j \in DOMAIN values : Nth(values, 1) = values[j]
         /\ \E j \in DOMAIN values : Highest(values) = values[j]
<1>1. 1 \in 1..Samples(values) /\ Samples(values) \in 1..Samples(values)
  BY RankFacts
<1>2. /\ \E j \in DOMAIN values : Nth(values, 1) = values[j]
      /\ \E j \in DOMAIN values : Highest(values) = values[j]
  BY <1>1, NthIsSample DEF Highest
<1>3. Pct(values, 50) <= Pct(values, 100)
  BY PctMonotone
<1>4. Pct(values, 50) \in Int
  BY PctFacts
<1> QED
  BY <1>2, <1>3, <1>4, PercentilesOf, PctEnds, PctOfHalf
-----------------------------------------------------------------------------
(* Relative changes.                                                        *)

\* A reduction has the sign of what it reports.
LEMMA DropSign ==
  ASSUME NEW before \in Nat \ {0}, NEW after \in Nat
  PROVE  /\ Drop(before, after) \in Int
         /\ Drop(before, after) > 0 => after < before
         /\ Drop(before, after) < 0 => after > before
<1> DEFINE x == 100 * (before - after)
<1>1. x \in Int /\ x \div before \in Int
  OBVIOUS
<1>2. /\ before * (x \div before) <= x
      /\ x < before * (x \div before) + before
  BY <1>1
<1>3. /\ x \div before > 0 => x > 0
      /\ x \div before < 0 => x < 0
  BY <1>1, <1>2
<1> QED
  BY <1>1, <1>3 DEF Drop
=============================================================================
