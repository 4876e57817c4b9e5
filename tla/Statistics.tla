----------------------------- MODULE Statistics -----------------------------
(***************************************************************************)
(* The statistics the analytics page shows of one metric                   *)
(* (services/control_plane/app/api/routes/sources.py:204-243, 316-345),    *)
(* over integers.  Ratios are compared by cross-multiplication; the        *)
(* rounding of floating point is left out.                                 *)
(***************************************************************************)
EXTENDS Integers, Sequences, FiniteSets

CONSTANTS Values,   \* readings a metric may take
          Recent    \* the latest readings the analytics look at, 500 in the code

ASSUME ReadingsAssumption == Values \subseteq Int /\ Recent \in Nat \ {0}

VARIABLE values     \* the latest readings, oldest first

\* sum.
Total(s) == LET sum[i \in 0 .. Len(s)] ==
                  IF i = 0 THEN 0 ELSE sum[i - 1] + s[i]
            IN sum[Len(s)]

\* sorted: a reading goes after the smaller ones and after its equals before it.
Place(s, i) ==
  Cardinality({j \in DOMAIN s : s[j] < s[i] \/ (s[j] = s[i] /\ j <= i)})

Sorted(s) == [k \in DOMAIN s |-> s[CHOOSE i \in DOMAIN s : Place(s, i) = k]]

-----------------------------------------------------------------------------
(* calculate_iqr_anomalies. *)

\* Mutation: the quartiles of the readings as they came.
UnsortedQuartiles(s) ==
  LET n == Len(s) IN
  [q1 |-> s[(n \div 4) + 1], q3 |-> s[((3 * n) \div 4) + 1]]

Quartiles(s) ==
  LET sorted == Sorted(s)  n == Len(s) IN
  [q1 |-> sorted[(n \div 4) + 1], q3 |-> sorted[((3 * n) \div 4) + 1]]

\* Further than one and a half interquartile ranges from the quartiles.
Outlying(v, q) == \/ 2 * v < 2 * q.q1 - 3 * (q.q3 - q.q1)
                  \/ 2 * v > 2 * q.q3 + 3 * (q.q3 - q.q1)

Anomalies(s) ==
  IF Len(s) < 4 THEN 0
  ELSE LET q == Quartiles(s)
       IN Cardinality({i \in DOMAIN s : Outlying(s[i], q)})

-----------------------------------------------------------------------------
(* calculate_trend. *)

Half(s) == Len(s) \div 2
Earlier(s) == SubSeq(s, 1, Half(s))
Later(s) == SubSeq(s, Half(s) + 1, Len(s))

\* The change of the average, as a fraction: above is the numerator, below
\* the denominator of (avg_second - avg_first) / avg_first.
Change(s) == LET first == Total(Earlier(s)) * Len(Later(s))
                 second == Total(Later(s)) * Len(Earlier(s))
             IN [above |-> second - first, below |-> first]

\* Mutation: the sums of the halves are compared, not their averages.
TrendOfSums(s) ==
  IF Len(s) < 4 \/ Total(Earlier(s)) = 0 THEN "Stable"
  ELSE IF 100 * (Total(Later(s)) - Total(Earlier(s))) > Total(Earlier(s)) THEN "Increasing"
  ELSE IF 100 * (Total(Later(s)) - Total(Earlier(s))) < -Total(Earlier(s)) THEN "Decreasing"
  ELSE "Stable"

\* More than one percent up or down.
Trend(s) ==
  IF Len(s) < 4 \/ Total(Earlier(s)) = 0 THEN "Stable"
  ELSE LET c == Change(s)
           percent == IF c.below > 0 THEN 100 * c.above ELSE -100 * c.above
           size == IF c.below > 0 THEN c.below ELSE -c.below
       IN IF percent > size THEN "Increasing"
          ELSE IF percent < -size THEN "Decreasing"
          ELSE "Stable"

-----------------------------------------------------------------------------
ReadingsInit == values = <<>>

\* A record is processed: the window of the analytics moves on.
Arrive(v) == values' = IF Len(values) < Recent THEN Append(values, v)
                       ELSE Append(Tail(values), v)

ReadingsNext == \E v \in Values : Arrive(v)

ReadingsSpec == ReadingsInit /\ [][ReadingsNext]_values

-----------------------------------------------------------------------------
(* Properties. *)

\* v has the rank k among the readings: no more than k are below it, and
\* more than k are not above it.
HasRank(s, v, k) == /\ Cardinality({i \in DOMAIN s : s[i] < v}) <= k
                    /\ Cardinality({i \in DOMAIN s : s[i] <= v}) > k

\* The quartiles are readings of the rank the definition asks for, however
\* the readings are ordered, so the number of anomalies is a fact about the
\* readings and not about their order; and fewer than half of the readings are
\* anomalies, also when the middle of them are all equal and the interquartile
\* range is zero (sources.py:207-219).
AnomaliesByRank ==
  LET n == Len(values)  q == Quartiles(values) IN
  IF n < 4 THEN Anomalies(values) = 0
  ELSE /\ HasRank(values, q.q1, n \div 4)
       /\ HasRank(values, q.q3, (3 * n) \div 4)
       /\ Anomalies(values) <= (n \div 4) + (n - 1 - ((3 * n) \div 4))

Rises(s) == Change(s).above > 0
Falls(s) == Change(s).above < 0

\* When the earlier readings are positive on average, the trend has the
\* direction of the averages, halves of different length included
\* (sources.py:224-241).
TrendFollowsAverages ==
  Len(values) >= 4 /\ Total(Earlier(values)) > 0 =>
    /\ Trend(values) = "Increasing" => Rises(values)
    /\ Trend(values) = "Decreasing" => Falls(values)
    /\ Total(Later(values)) < 0 => Trend(values) = "Decreasing"
=============================================================================
