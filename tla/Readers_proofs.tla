--------------------------- MODULE Readers_proofs ---------------------------
(***************************************************************************)
(* Proofs about the parts that read the tables: the daily summary, for any *)
(* number of sources, days, counts and cleared tasks; the freshness gate,  *)
(* for any records, limits, periods, retentions and clock skews; the       *)
(* figures of a source, for any records and any limit; the pages of a      *)
(* client, for any rows and any page size; the records made of a response, *)
(* for any responses; and the statistics of a metric, for any integers.    *)
(***************************************************************************)
EXTENDS DailySummary, QualityGate, SourceFigures, ServingPages, Payloads,
        Statistics, FiniteSetTheorems, WellFoundedInduction, TLAPS

-----------------------------------------------------------------------------
(* The daily summary. *)

\* A row of the summary was made from at least one record of its source and
\* day, and from no more than there are now.
IInv ==
  /\ today \in Days
  /\ aggregated \in [Days -> [Sources -> Nat]]
  /\ summary \in [Days -> [source : Sources, total : Nat] \cup {Null}]
  /\ \A d \in Days : summary[d] # Null =>
       /\ summary[d] \in [source : Sources, total : Nat]
       /\ 0 < summary[d].total
       /\ summary[d].total <= aggregated[d][summary[d].source]

LEMMA InitInv == Init => IInv
  BY DailyAssumption DEF Init, IInv, Days

LEMMA CountStep ==
  ASSUME IInv, NEW d \in Days, NEW s \in Sources, Count(d, s)
  PROVE  IInv' /\ UNCHANGED summary
<1>1. /\ aggregated' \in [Days -> [Sources -> Nat]]
      /\ \A e \in Days, r \in Sources : aggregated[e][r] <= aggregated'[e][r]
  BY DEF IInv, Count
<1>. QED
  BY <1>1 DEF IInv, Count

\* A set of one source at most.
LEMMA OnlyOne ==
  ASSUME NEW S, IsFiniteSet(S), Cardinality(S) <= 1, NEW x \in S, NEW y \in S
  PROVE  x = y
<1>1. Cardinality(S) \in Nat /\ Cardinality(S) # 0
  BY FS_CardinalityType, FS_EmptySet
<1>2. Cardinality(S) = 1
  BY <1>1
<1>3. \E z : S = {z}
  BY <1>2, FS_Singleton
<1>. QED
  BY <1>3

\* A conflict finds the row of the one source there is, and of no other.
LEMMA SummarizeStep ==
  ASSUME IInv, Summarize
  PROVE  /\ IInv'
         /\ \A d \in Days : summary[d] # Null =>
              /\ summary'[d].source = summary[d].source
              /\ summary'[d].total >= summary[d].total
<1>1. today \in Days /\ UNCHANGED <<today, aggregated>>
  BY DEF IInv, Summarize
<1>2. CASE UNCHANGED summary
  BY <1>1, <1>2 DEF IInv
<1>3. ASSUME NEW s \in Groups, summary' = Upserted(RowOf(s))
      PROVE  /\ IInv'
             /\ \A d \in Days : summary[d] # Null =>
                  /\ summary'[d].source = summary[d].source
                  /\ summary'[d].total >= summary[d].total
  <2>1. /\ s \in Sources /\ aggregated[today][s] \in Nat /\ aggregated[today][s] > 0
        /\ RowOf(s) = [source |-> s, total |-> aggregated[today][s]]
    BY <1>1 DEF IInv, Groups, RowOf
  <2>2. RowOf(s) \in [source : Sources, total : Nat]
    BY <2>1
  <2>3. ASSUME summary[today] # Null
        PROVE  /\ summary[today] \in [source : Sources, total : Nat]
               /\ summary[today].source = s
               /\ aggregated[today][s] >= summary[today].total
    <3>1. /\ summary[today] \in [source : Sources, total : Nat]
          /\ summary[today].source \in Sources /\ summary[today].total \in Nat
          /\ 0 < summary[today].total
          /\ summary[today].total <= aggregated[today][summary[today].source]
      BY <1>1, <2>3 DEF IInv
    <3>2. aggregated[today][summary[today].source] \in Nat
      BY <1>1, <3>1 DEF IInv
    <3>3. summary[today].source \in Groups
      BY <3>1, <3>2 DEF Groups
    <3>4. IsFiniteSet(Groups) /\ Cardinality(Groups) <= 1
      BY DailyAssumption, FS_Subset DEF Summarize, Groups
    <3>5. summary[today].source = s
      BY <3>3, <3>4, OnlyOne
    <3>. QED
      BY <3>1, <3>5
  <2>4. (IF summary[today] = Null THEN RowOf(s)
         ELSE [summary[today] EXCEPT !.total = RowOf(s).total]) = RowOf(s)
    BY <2>1, <2>3
  <2>5. \A d \in Days : summary'[d] = IF d = today THEN RowOf(s) ELSE summary[d]
    BY <1>1, <1>3, <2>4 DEF Upserted, IInv
  <2>6. summary' \in [Days -> [source : Sources, total : Nat] \cup {Null}]
    BY <1>3, <2>2, <2>4 DEF IInv, Upserted
  <2>7. IInv'
    BY <1>1, <2>1, <2>2, <2>5, <2>6 DEF IInv
  <2>8. \A d \in Days : summary[d] # Null => summary[d].total \in Nat
    BY DEF IInv
  <2>. QED
    BY <1>1, <2>1, <2>3, <2>5, <2>7, <2>8
<1>. QED
  BY <1>2, <1>3 DEF Summarize

LEMMA InvStep ==
  ASSUME IInv, [Next]_vars
  PROVE  /\ IInv'
         /\ \A d \in Days : summary[d] # Null =>
              /\ summary'[d].source = summary[d].source
              /\ summary'[d].total >= summary[d].total
<1>1. \A d \in Days : summary[d] # Null => summary[d].total \in Nat
  BY DEF IInv
<1>2. CASE UNCHANGED <<today, aggregated, summary>>
  BY <1>1, <1>2 DEF IInv
<1>3. CASE Midnight
  BY <1>1, <1>3, DailyAssumption DEF Midnight, IInv, Days
<1>4. CASE \E d \in Days, s \in Sources : Count(d, s)
  BY <1>1, <1>4, CountStep
<1>5. CASE Summarize
  BY <1>5, SummarizeStep
<1>. QED
  BY <1>2, <1>3, <1>4, <1>5 DEF Next, Clear, SummarizeFails, vars

LEMMA Invariance == Spec => []IInv
  BY InitInv, InvStep, PTL DEF Spec

\* A day's summary never says more than the aggregates of its source, however
\* often the task runs (streamo_daily_aggregation.py:27-46).
THEOREM NeverAhead == Spec => []SummaryNeverAhead
<1>1. IInv => SummaryNeverAhead
  BY DEF IInv, SummaryNeverAhead
<1>. QED
  BY <1>1, Invariance, PTL

\* Running the task again never lowers a total nor gives the day to another
\* source (streamo_daily_aggregation.py:40-45).
THEOREM OnlyGrows == Spec => SummaryOnlyGrows
<1>1. IInv /\ [Next]_vars =>
        [\A d \in Days : summary[d] # Null =>
           /\ summary'[d].source = summary[d].source
           /\ summary'[d].total >= summary[d].total]_vars
  BY InvStep
<1>. QED
  BY <1>1, Invariance, PTL DEF Spec, SummaryOnlyGrows

-----------------------------------------------------------------------------
(* The freshness gate: arithmetic of the clock. *)

\* A number between two neighbouring multiples.
LEMMA NoMultipleBetween ==
  ASSUME NEW p \in Int, p > 0, NEW d \in Int, -p < p * d, p * d < p
  PROVE  d = 0
<1>1. d >= 1 => p * d >= p
  OBVIOUS
<1>2. d <= -1 => p * d <= -p
  OBVIOUS
<1>. QED
  BY <1>1, <1>2

LEMMA Division ==
  ASSUME NEW n \in Int, NEW p \in Int, p > 0
  PROVE  /\ n % p \in 0 .. p - 1 /\ n \div p \in Int
         /\ n = p * (n \div p) + (n % p)
<1>1. n = p * (n \div p) + (n % p)
  BY SMTT(30)
<1>. QED
  BY <1>1

\* The start of the period that n is in.
StartOf(n) == n - (n % Period)

\* It is never in the future, nor a period ago.
LEMMA StartRecent ==
  ASSUME NEW n \in Nat
  PROVE  StartOf(n) \in Int /\ StartOf(n) <= n /\ n < StartOf(n) + Period
<1>1. Period \in Int /\ Period > 0
  BY GateAssumption
<1>2. n % Period \in 0 .. Period - 1
  BY <1>1, Division
<1>. QED
  BY <1>1, <1>2 DEF StartOf

\* A tick that begins no period stays in the one before.
LEMMA SamePeriod ==
  ASSUME NEW n \in Nat, (n + 1) % Period # 0
  PROVE  StartOf(n + 1) = StartOf(n)
<1>. DEFINE p == Period
<1>1. p \in Int /\ p > 0
  BY GateAssumption
<1>. HIDE DEF p
<1>2. PICK q \in Int, r \in 0 .. p - 1 : n = p * q + r /\ n % p = r
  BY <1>1, Division
<1>3. PICK u \in Int, s \in 0 .. p - 1 : n + 1 = p * u + s /\ (n + 1) % p = s
  <2>1. n + 1 \in Int
    OBVIOUS
  <2>. QED
    BY <1>1, <2>1, Division
<1>4. s > 0
  <2>1. (n + 1) % p # 0
    BY DEF p
  <2>. QED
    BY <2>1, <1>3
<1>5. p * (u - q) = 1 + r - s
  BY <1>1, <1>2, <1>3
<1>6. u - q = 0
  <2>1. u - q \in Int /\ -p < p * (u - q) /\ p * (u - q) < p
    BY <1>1, <1>2, <1>3, <1>4, <1>5
  <2>. QED
    BY <2>1, <1>1, NoMultipleBetween
<1>7. s = r + 1
  BY <1>1, <1>2, <1>3, <1>5, <1>6
<1>8. (n + 1) - ((n + 1) % p) = n - (n % p)
  BY <1>2, <1>3, <1>7
<1>. QED
  BY <1>8 DEF StartOf, p

-----------------------------------------------------------------------------
(* The freshness gate: the row that was processed last. *)

\* A set of numbers below a bound has a greatest one, if it is not empty.
LEMMA GreatestExists ==
  ASSUME NEW S, S \subseteq Nat, S # {}, NEW top \in Nat, \A x \in S : x <= top
  PROVE  \E x \in S : \A y \in S : x >= y
<1>1. PICK R : /\ IsWellFoundedOn(R, Nat)
               /\ \A x, y \in Nat : x < y => <<x, y>> \in R
  <2>1. IsWellFoundedOn(OpToRel(<, Nat), Nat)
    BY NatLessThanWellFounded
  <2>2. \A x, y \in Nat : x < y => <<x, y>> \in OpToRel(<, Nat)
    BY DEF OpToRel
  <2>. QED
    BY <2>1, <2>2, Zenon
<1>. DEFINE T == {top - x : x \in S}
<1>2. T \subseteq Nat /\ T # {}
  <2>1. \A x \in S : top - x \in Nat
    OBVIOUS
  <2>2. PICK x \in S : TRUE
    OBVIOUS
  <2>3. top - x \in T
    BY <2>2
  <2>. QED
    BY <2>1, <2>3
<1>3. IsWellFoundedOn(R, Nat)
  BY <1>1
<1>4. \E t \in T : \A v \in T : ~ (<<v, t>> \in R)
  <2>. HIDE DEF T
  <2>. QED
    BY ONLY <1>2, <1>3, WFMin
<1>5. PICK t \in T : \A v \in T : ~ (<<v, t>> \in R)
  BY <1>4
<1>6. ASSUME NEW v \in T PROVE ~ (v < t)
  <2>. HIDE DEF T
  <2>. QED
    BY <1>1, <1>2, <1>5, Zenon
<1>7. PICK x \in S : t = top - x
  OBVIOUS
<1>8. ASSUME NEW y \in S PROVE x >= y
  <2>1. top - y \in T
    OBVIOUS
  <2>. QED
    BY <2>1, <1>6, <1>7
<1>. QED
  BY <1>8

-----------------------------------------------------------------------------
(* The freshness gate: the invariant. *)

GateType ==
  /\ now \in Nat
  /\ processedAt \in Nat \cup {Null}
  /\ gate \in [check : {"freshness", "quality"},
               status : {"due", "passed", "failed", "retry"},
               attempt : {1, 2}, at : Int]
  /\ gate.at <= now

\* No row was processed after the last one, whatever has been purged.
RowsInv ==
  \A i \in Recorded : /\ processedAt \in Nat /\ processedAt <= now
                      /\ rows[i].at \in Nat /\ rows[i].at <= processedAt

\* The run of this period has got past the freshness check only over a table
\* that was fresh when the period began, or without records.
RunInv ==
  gate.check = "quality" /\ Recorded # {} => processedAt >= StartOf(now) - Fresh

GateInv == GateType /\ RowsInv /\ RunInv /\ FreshMeansProcessed

LEMMA GateInitially == GateInit => GateInv
<1>. SUFFICES ASSUME GateInit PROVE GateInv
  OBVIOUS
<1>1. Recorded = {}
  BY DEF GateInit, Recorded
<1>2. GateType
  BY DEF GateInit, GateType
<1>. QED
  BY <1>1, <1>2 DEF GateInv, RowsInv, RunInv, FreshMeansProcessed

\* A check that passes over a table with rows has seen a fresh one.
LEMMA PassMeansFresh ==
  ASSUME GateInv, ~Stale, Recorded # {}
  PROVE  processedAt \in Nat /\ processedAt >= now - Fresh
<1>1. /\ now \in Nat /\ Fresh \in Nat /\ Null \notin Int
      /\ \A i \in Recorded : /\ processedAt \in Nat /\ processedAt <= now
                             /\ rows[i].at \in Nat /\ rows[i].at <= processedAt
  BY GateAssumption DEF GateInv, GateType, RowsInv
<1>2. \E i \in Recorded : \A j \in Recorded : rows[i].at >= rows[j].at
  <2>. DEFINE S == {rows[i].at : i \in Recorded}
  <2>1. S \subseteq Nat /\ S # {} /\ \A x \in S : x <= now
    BY <1>1
  <2>2. PICK x \in S : \A y \in S : x >= y
    <3>. HIDE DEF S
    <3>. QED
      BY <1>1, <2>1, GreatestExists
  <2>. QED
    BY <2>2
<1>3. PICK i \in Recorded : Latest = rows[i].at
  <2>. DEFINE i == CHOOSE i \in Recorded : \A j \in Recorded : rows[i].at >= rows[j].at
  <2>1. i \in Recorded
    BY <1>2
  <2>2. Latest = rows[i].at
    BY DEF Latest
  <2>. QED
    BY <2>1, <2>2
<1>4. Latest # Null /\ Latest >= now - Fresh
  BY <1>1, <1>3 DEF Stale
<1>. QED
  BY <1>1, <1>3, <1>4

LEMMA ProcessStep ==
  ASSUME GateInv, NEW i \in RecordIds, NEW skew \in Skews, Process(i, skew)
  PROVE  GateInv'
<1>1. /\ processedAt' = now /\ now' = now /\ gate' = gate /\ now \in Nat
      /\ Fresh \in Nat /\ Null \notin Int
  BY GateAssumption DEF Process, GateInv, GateType
<1>2. \A j \in Recorded' : \/ rows'[j].at = now
                           \/ j \in Recorded /\ rows'[j] = rows[j]
  BY DEF Process, Recorded
<1>3. GateType'
  BY <1>1 DEF GateInv, GateType
<1>4. RowsInv'
  BY <1>1, <1>2 DEF GateInv, RowsInv
<1>5. RunInv'
  BY <1>1, StartRecent DEF RunInv
<1>6. FreshMeansProcessed'
  BY <1>1 DEF FreshMeansProcessed, ProcessedWithin
<1>. QED
  BY <1>3, <1>4, <1>5, <1>6 DEF GateInv

LEMMA TickStep == ASSUME GateInv, Tick PROVE GateInv'
<1>1. /\ now' = now + 1 /\ now \in Nat /\ processedAt' = processedAt
      /\ rows' = rows /\ Recorded' = Recorded
  BY DEF Tick, Recorded, GateInv, GateType
<1>2. \/ /\ (now + 1) % Period = 0
         /\ gate' = [check |-> "freshness", status |-> "due", attempt |-> 1, at |-> now + 1]
      \/ (now + 1) % Period # 0 /\ gate' = gate
  BY DEF Tick
<1>3. GateType'
  BY <1>1, <1>2 DEF GateInv, GateType
<1>4. RowsInv'
  BY <1>1 DEF GateInv, RowsInv
<1>5. RunInv'
  <2>1. CASE gate'.check = "freshness"
    BY <2>1 DEF RunInv
  <2>2. CASE (now + 1) % Period # 0 /\ gate' = gate
    BY <1>1, <2>2, SamePeriod DEF GateInv, RunInv
  <2>. QED
    BY <1>2, <2>1, <2>2
<1>6. FreshMeansProcessed'
  <2>1. ~FoundFresh'
    BY <1>1, <1>2 DEF FoundFresh, GateInv, GateType
  <2>. QED
    BY <2>1 DEF FreshMeansProcessed
<1>. QED
  BY <1>3, <1>4, <1>5, <1>6 DEF GateInv

LEMMA CheckStep == ASSUME GateInv, Check PROVE GateInv'
<1>1. /\ now' = now /\ now \in Nat /\ processedAt' = processedAt
      /\ rows' = rows /\ Recorded' = Recorded /\ Fresh \in Nat /\ Null \notin Int
  BY GateAssumption DEF Check, Recorded, GateInv, GateType
<1>2. \/ gate' = QualityNext /\ gate.check = "freshness" /\ ~Stale
      \/ \E status \in {"retry", "failed", "passed"} : gate' = Outcome(status)
  BY DEF Check, Breached
<1>3. GateType'
  <2>1. CASE gate' = QualityNext
    BY <1>1, <2>1 DEF QualityNext, GateInv, GateType
  <2>2. ASSUME NEW status \in {"retry", "failed", "passed"}, gate' = Outcome(status)
        PROVE  GateType'
    <3>1. gate' = [gate EXCEPT !.status = status, !.at = now]
      BY <2>2 DEF Outcome
    <3>2. status \in {"due", "passed", "failed", "retry"} /\ now \in Int
      BY <1>1
    <3>3. gate \in [check : {"freshness", "quality"},
                    status : {"due", "passed", "failed", "retry"},
                    attempt : {1, 2}, at : Int]
      BY DEF GateInv, GateType
    <3>4. /\ gate' \in [check : {"freshness", "quality"},
                        status : {"due", "passed", "failed", "retry"},
                        attempt : {1, 2}, at : Int]
          /\ gate'.at = now
      BY <3>1, <3>2, <3>3
    <3>. QED
      BY <1>1, <3>4 DEF GateInv, GateType
  <2>. QED
    BY <1>2, <2>1, <2>2
<1>4. RowsInv'
  BY <1>1 DEF GateInv, RowsInv
<1>5. CASE gate' = QualityNext /\ ~Stale
  <2>1. Recorded # {} => processedAt \in Nat /\ processedAt >= now - Fresh
    BY <1>5, PassMeansFresh
  <2>2. RunInv'
    BY <1>1, <2>1, StartRecent DEF RunInv
  <2>3. FreshMeansProcessed'
    BY <1>1, <2>1 DEF FreshMeansProcessed, ProcessedWithin
  <2>. QED
    BY <1>3, <1>4, <2>2, <2>3 DEF GateInv
<1>6. ASSUME NEW status \in {"retry", "failed", "passed"}, gate' = Outcome(status)
      PROVE  GateInv'
  <2>1. gate'.check = gate.check /\ gate'.status = status
    BY <1>6 DEF Outcome, GateInv, GateType
  <2>2. RunInv'
    BY <1>1, <2>1 DEF GateInv, RunInv
  <2>3. FreshMeansProcessed'
    BY <2>1 DEF FreshMeansProcessed, FoundFresh
  <2>. QED
    BY <1>3, <1>4, <2>2, <2>3 DEF GateInv
<1>. QED
  BY <1>2, <1>5, <1>6

LEMMA RetryStep == ASSUME GateInv, Retry PROVE GateInv'
<1>1. /\ now' = now /\ processedAt' = processedAt /\ rows' = rows
      /\ Recorded' = Recorded
      /\ gate' = [gate EXCEPT !.status = "due", !.attempt = 2]
  BY DEF Retry, Recorded
<1>2. GateType' /\ gate'.check = gate.check /\ gate'.attempt = 2
  BY <1>1 DEF GateInv, GateType
<1>3. RowsInv' /\ RunInv' /\ FreshMeansProcessed'
  BY <1>1, <1>2 DEF GateInv, RowsInv, RunInv, FreshMeansProcessed
<1>. QED
  BY <1>2, <1>3 DEF GateInv

LEMMA PurgeStep == ASSUME GateInv, PurgeOldRecords PROVE GateInv'
<1>1. /\ now' = now /\ processedAt' = processedAt /\ gate' = gate
      /\ \A i \in Recorded' : i \in Recorded /\ rows'[i] = rows[i]
  BY DEF PurgeOldRecords, Recorded
<1>2. Recorded' # {} => Recorded # {}
  BY <1>1
<1>3. GateType' /\ RowsInv'
  BY <1>1 DEF GateInv, GateType, RowsInv
<1>4. RunInv' /\ FreshMeansProcessed'
  BY <1>1, <1>2
  DEF GateInv, RunInv, FreshMeansProcessed, FoundFresh, ProcessedWithin
<1>. QED
  BY <1>3, <1>4 DEF GateInv

LEMMA GateNextInv == GateInv /\ [GateNext]_gateVars => GateInv'
<1>. SUFFICES ASSUME GateInv, [GateNext]_gateVars PROVE GateInv'
  OBVIOUS
<1>1. ASSUME NEW rate \in Rates, Measure(rate) PROVE GateInv'
  BY <1>1 DEF Measure, GateInv, GateType, RowsInv, RunInv, FreshMeansProcessed,
              FoundFresh, ProcessedWithin, Recorded
<1>2. CASE UNCHANGED gateVars
  BY <1>2 DEF gateVars, GateInv, GateType, RowsInv, RunInv, FreshMeansProcessed,
              FoundFresh, ProcessedWithin, Recorded
<1>. QED
  BY <1>1, <1>2, TickStep, ProcessStep, CheckStep, RetryStep, PurgeStep DEF GateNext

LEMMA GateInvariance == GateSpec => []GateInv
  BY GateInitially, GateNextInv, PTL DEF GateSpec

-----------------------------------------------------------------------------
(* The freshness gate: theorems. *)

\* The freshness check never passes over records none of which was processed
\* in time (streamo_data_quality.py:25-41).
THEOREM NotDeceived == GateSpec => []FreshMeansProcessed
<1>1. GateInv => FreshMeansProcessed
  BY DEF GateInv
<1>. QED
  BY <1>1, GateInvariance, PTL

\* A run that passed does not outlive the freshness of the records by more
\* than a period, whatever was retried (streamo_data_quality.py:10-21).
THEOREM Noticed == GateSpec => []StaleIsNoticed
<1>1. GateInv => StaleIsNoticed
  <2>. SUFFICES ASSUME GateInv, Recorded # {}, gate.check = "quality"
                PROVE  ProcessedWithin(Fresh + Period)
    BY DEF StaleIsNoticed, GateInv, GateType
  <2>1. /\ processedAt \in Nat /\ now \in Nat
        /\ processedAt >= StartOf(now) - Fresh
    BY DEF GateInv, GateType, RowsInv, RunInv
  <2>2. Fresh \in Nat /\ Period \in Nat /\ Null \notin Int
    BY GateAssumption
  <2>3. processedAt >= now - (Fresh + Period)
    BY <2>1, <2>2, StartRecent
  <2>. QED
    BY <2>1, <2>2, <2>3 DEF ProcessedWithin
<1>. QED
  BY <1>1, GateInvariance, PTL

-----------------------------------------------------------------------------
(* The figures of a source. *)

WindowCounts == [total : Nat, valid : Nat, invalid : Nat]
TableRow == [at : Nat, time : Times]
Plans == {AnalyticsReads, QualityReads}
Statements == {"rows", "count", "metrics"}
Request == [reads : Plans, left : Seq(Statements),
            data : Seq(TableRow), total : Nat,
            window : WindowCounts \cup {Null}, begun : Nat,
            totals : SUBSET Nat, purged : BOOLEAN, renewed : BOOLEAN]

FiguresType ==
  /\ processed \in [Ids -> TableRow \cup {Null}]
  /\ batches \in Nat
  /\ window \in WindowCounts \cup {Null}
  /\ request \in Request \cup {Null}

\* Rows are of batches that were upserted.
RowsOfBatches == \A i \in Stored : processed[i].at <= batches

\* The statements a request has to make.
Remaining(r) == r.left \in {AnalyticsReads, QualityReads, <<"metrics">>, <<>>}

\* What a request has read is covered by the table until the rows are counted,
\* and by their number after that.
DataCovered(r) ==
  ~r.purged => /\ Len(r.data) <= Cardinality(Stored)
               /\ r.left \in {<<"metrics">>, <<>>} => Len(r.data) <= r.total

\* A row of the newest batch at the beginning, or of a later one, is there,
\* and no older one is the last that was read.
DataFresh(r) ==
  ~r.purged => /\ r.begun > 0 => \E i \in Stored : processed[i].at >= r.begun
               /\ r.data # <<>> => r.data[Len(r.data)].at >= r.begun

\* What the quality page will add up: before the counters are read, no more
\* than what is in the tables, and while the window lasts no less than what was
\* in them at a statement; afterwards it is between two such sums.
Sum(r) == r.total + (IF r.window = Null THEN 0 ELSE r.window.invalid)

SumBounded(r) ==
  ~r.purged =>
    /\ r.left = <<"metrics">> =>
         /\ r.total <= Cardinality(Stored)
         /\ ~r.renewed => \E t \in r.totals : r.total + Invalid >= t
    /\ r.left = <<>> =>
         /\ \E t \in r.totals : Sum(r) <= t
         /\ ~r.renewed => \E t \in r.totals : Sum(r) >= t

RequestInv == request # Null => /\ Remaining(request)
                                /\ DataCovered(request) /\ DataFresh(request)
                                /\ SumBounded(request)

FiguresInv == /\ FiguresType /\ RowsOfBatches /\ RequestInv
              /\ TotalCoversData /\ NotStale /\ QualityTotalOfAMoment

LEMMA StoredFinite ==
  ASSUME NEW table \in [Ids -> TableRow \cup {Null}]
  PROVE  LET S == {i \in Ids : table[i] # Null} IN
         /\ IsFiniteSet(S) /\ Cardinality(S) \in Nat
         /\ \A i \in S : table[i] \in TableRow /\ table[i].at \in Nat
<1>. DEFINE S == {i \in Ids : table[i] # Null}
<1>1. IsFiniteSet(S)
  BY FiguresAssumption, FS_Subset
<1>2. \A i \in S : table[i] \in TableRow
  OBVIOUS
<1>. QED
  BY <1>1, <1>2, FS_CardinalityType DEF TableRow

LEMMA StoredRows ==
  ASSUME FiguresType
  PROVE  /\ IsFiniteSet(Stored) /\ Cardinality(Stored) \in Nat
         /\ \A i \in Stored : processed[i] \in TableRow /\ processed[i].at \in Nat
<1>1. processed \in [Ids -> TableRow \cup {Null}]
  BY DEF FiguresType
<1>. QED
  BY <1>1, StoredFinite DEF Stored

\* Without a purge the table only grows, and its rows only get younger.
LEMMA GrowthKeeps ==
  ASSUME FiguresType, FiguresType', RequestInv,
         UNCHANGED <<request, window>>, Stored \subseteq Stored',
         \A i \in Stored : processed'[i].at >= processed[i].at
  PROVE  RequestInv'
<1>. SUFFICES ASSUME request # Null
              PROVE  /\ DataCovered(request)' /\ DataFresh(request)'
                     /\ SumBounded(request)'
  BY DEF RequestInv, Remaining
<1>1. /\ IsFiniteSet(Stored') /\ Cardinality(Stored') \in Nat
      /\ \A i \in Stored' : processed'[i].at \in Nat
  <2>1. processed' \in [Ids -> TableRow \cup {Null}]
    BY DEF FiguresType
  <2>. QED
    BY <2>1, StoredFinite DEF Stored
<1>2. Cardinality(Stored) \in Nat /\ Cardinality(Stored) <= Cardinality(Stored')
  BY <1>1, StoredRows, FS_Subset
<1>3. request \in Request /\ Len(request.data) \in Nat /\ request.begun \in Nat
  BY DEF FiguresType, Request
<1>4. DataCovered(request)'
  BY <1>1, <1>2, <1>3 DEF RequestInv, DataCovered
<1>5. DataFresh(request)'
  <2>1. ASSUME NEW i \in Stored, processed[i].at >= request.begun
        PROVE  i \in Stored' /\ processed'[i].at >= request.begun
    <3>1. processed[i].at \in Nat /\ processed'[i].at \in Nat
      BY <1>1, StoredRows
    <3>. QED
      BY <1>3, <2>1, <3>1
  <2>. QED
    BY <2>1 DEF RequestInv, DataFresh
<1>6. SumBounded(request)'
  <2>1. request.total \in Nat /\ Invalid' = Invalid
    BY <1>3 DEF Request, Invalid
  <2>2. SumBounded(request) /\ request' = request
    BY DEF RequestInv
  <2>. QED
    BY <1>1, <1>2, <2>1, <2>2 DEF SumBounded, Sum
<1>. QED
  BY <1>4, <1>5, <1>6

LEMMA InvalidIsNat ==
  ASSUME FiguresType
  PROVE  Invalid \in Nat /\ TableTotal \in Nat
<1>1. Cardinality(Stored) \in Nat
  BY StoredRows
<1>2. Invalid \in Nat
  BY DEF FiguresType, Invalid, WindowCounts
<1>. QED
  BY <1>1, <1>2 DEF TableTotal

LEMMA UpsertRecordsStep ==
  ASSUME FiguresInv, NEW ids \in SUBSET Ids, UpsertRecords(ids)
  PROVE  FiguresInv'
<1>1. PICK time \in [ids -> Times] :
        processed' = [i \in Ids |->
          IF i \in ids THEN [at   |-> batches + 1,
                             time |-> IF processed[i] = Null THEN time[i]
                                      ELSE processed[i].time]
          ELSE processed[i]]
  BY DEF UpsertRecords
<1>2. /\ batches' = batches + 1 /\ UNCHANGED <<window, request, shown>>
      /\ batches \in Nat
  BY DEF UpsertRecords, FiguresInv, FiguresType
<1>3. \A i \in ids : /\ processed'[i] \in TableRow
                     /\ processed'[i].at = batches + 1
  <2>. SUFFICES ASSUME NEW i \in ids
                PROVE  processed'[i] \in TableRow /\ processed'[i].at = batches + 1
    OBVIOUS
  <2>. DEFINE t == IF processed[i] = Null THEN time[i] ELSE processed[i].time
  <2>1. t \in Times
    BY DEF FiguresInv, FiguresType, TableRow
  <2>2. processed'[i] = [at |-> batches + 1, time |-> t]
    BY <1>1
  <2>. HIDE DEF t
  <2>. QED
    BY <1>2, <2>1, <2>2 DEF TableRow
<1>4. \A i \in Ids \ ids : processed'[i] = processed[i]
  BY <1>1
<1>5. FiguresType'
  <2>1. \A i \in Ids : processed'[i] \in TableRow \cup {Null}
    BY <1>3, <1>4 DEF FiguresInv, FiguresType
  <2>. QED
    BY <1>1, <1>2, <2>1 DEF FiguresInv, FiguresType
<1>6. Stored' = Stored \cup ids
  BY <1>3, <1>4, FiguresAssumption DEF Stored, TableRow
<1>7. \A i \in Stored : processed[i].at \in Nat /\ processed[i].at <= batches
  BY StoredRows DEF FiguresInv, RowsOfBatches
<1>8. \A i \in Stored' : i \in ids \/ (i \in Stored /\ processed'[i] = processed[i])
  BY <1>4, <1>6 DEF Stored
<1>9. RowsOfBatches'
  BY <1>2, <1>3, <1>7, <1>8 DEF RowsOfBatches
<1>10. \A i \in Stored : processed'[i].at >= processed[i].at
  BY <1>2, <1>3, <1>4, <1>7 DEF Stored
<1>11. RequestInv'
  BY <1>2, <1>5, <1>6, <1>10, GrowthKeeps DEF FiguresInv
<1>. QED
  BY <1>2, <1>5, <1>9, <1>11
     DEF FiguresInv, TotalCoversData, NotStale, QualityTotalOfAMoment, Shows

LEMMA UpsertMetricsStep ==
  ASSUME FiguresInv, NEW outcome, UpsertMetrics(outcome)
  PROVE  FiguresInv'
<1>. DEFINE One(b) == IF b THEN 1 ELSE 0
            AfterOne(w) == [total   |-> w.total + 1,
                            valid   |-> w.valid + One(outcome = "valid"),
                            invalid |-> w.invalid + One(outcome = "invalid")]
<1>1. UNCHANGED <<processed, batches, shown>> /\ Stored' = Stored
  BY DEF UpsertMetrics, Stored
<1>2. \/ /\ window' = AfterOne(NoEvents)
         /\ request' = IF request = Null THEN Null
                       ELSE [request EXCEPT !.renewed = TRUE]
      \/ /\ window # Null /\ window' = AfterOne(window)
         /\ request' = request
  BY DEF UpsertMetrics
<1>3. \A w \in WindowCounts : /\ AfterOne(w) \in WindowCounts
                              /\ AfterOne(w).invalid >= w.invalid
  <2>1. \A b : One(b) \in Nat
    OBVIOUS
  <2>. HIDE DEF One
  <2>. QED
    BY <2>1 DEF WindowCounts
<1>4. NoEvents \in WindowCounts
  BY DEF NoEvents, WindowCounts
<1>. HIDE DEF AfterOne
<1>5. /\ window' \in WindowCounts
      /\ window \in WindowCounts \cup {Null}
      /\ request \in Request \cup {Null}
  BY <1>2, <1>3, <1>4 DEF FiguresInv, FiguresType
<1>6. /\ request' \in Request \cup {Null}
      /\ request' # Null => request # Null
  BY <1>2, <1>5 DEF Request
<1>7. FiguresType' /\ RowsOfBatches'
  BY <1>1, <1>5, <1>6 DEF FiguresInv, FiguresType, RowsOfBatches
<1>8. Invalid \in Nat /\ Invalid' \in Nat
  BY <1>5 DEF Invalid, WindowCounts
<1>9. CASE request' = request /\ Invalid' >= Invalid
  <2>1. request # Null => /\ SumBounded(request) /\ request.totals \subseteq Nat
                          /\ request.total \in Nat
    BY <1>5 DEF FiguresInv, RequestInv, Request
  <2>2. request # Null => SumBounded(request)'
    BY <1>1, <1>8, <1>9, <2>1 DEF SumBounded, Sum
  <2>3. RequestInv'
    BY <1>1, <1>9, <2>2
       DEF FiguresInv, RequestInv, Remaining, DataCovered, DataFresh
  <2>. QED
    BY <1>1, <1>7, <2>3
       DEF FiguresInv, TotalCoversData, NotStale, QualityTotalOfAMoment, Shows
<1>10. CASE request # Null /\ request' = [request EXCEPT !.renewed = TRUE]
  <2>1. /\ request'.left = request.left /\ request'.data = request.data
        /\ request'.total = request.total /\ request'.window = request.window
        /\ request'.begun = request.begun /\ request'.purged = request.purged
        /\ request'.totals = request.totals /\ request'.renewed
    BY <1>5, <1>10 DEF Request
  <2>2. SumBounded(request)'
    BY <1>1, <1>10, <2>1 DEF FiguresInv, RequestInv, SumBounded, Sum
  <2>3. RequestInv'
    BY <1>1, <1>10, <2>1, <2>2
       DEF FiguresInv, RequestInv, Remaining, DataCovered, DataFresh
  <2>. QED
    BY <1>1, <1>7, <2>3
       DEF FiguresInv, TotalCoversData, NotStale, QualityTotalOfAMoment, Shows
<1>11. CASE request' = Null
  BY <1>1, <1>7, <1>11
     DEF FiguresInv, RequestInv, TotalCoversData, NotStale,
         QualityTotalOfAMoment, Shows
<1>12. ASSUME window # Null, window' = AfterOne(window)
       PROVE  Invalid' >= Invalid
  <2>1. window \in WindowCounts /\ window' # Null
    BY <1>5, <1>12, FiguresAssumption DEF WindowCounts
  <2>. QED
    BY <1>3, <1>12, <2>1 DEF Invalid
<1>. QED
  BY <1>2, <1>9, <1>10, <1>11, <1>12

LEMMA PurgeProcessedStep ==
  ASSUME FiguresInv, NEW t \in Times, PurgeProcessed(t)
  PROVE  FiguresInv'
<1>1. /\ UNCHANGED <<batches, window, shown>>
      /\ \A i \in Ids : processed'[i] \in {Null, processed[i]}
      /\ processed' \in [Ids -> TableRow \cup {Null}]
  BY DEF PurgeProcessed, FiguresInv, FiguresType
<1>2. /\ request' \in Request \cup {Null}
      /\ request' # Null => /\ request'.purged /\ request'.left = request.left
                            /\ request # Null
  BY DEF PurgeProcessed, FiguresInv, FiguresType, Request
<1>3. FiguresType'
  BY <1>1, <1>2 DEF FiguresInv, FiguresType
<1>4. RowsOfBatches'
  BY <1>1 DEF FiguresInv, RowsOfBatches, Stored
<1>5. RequestInv'
  BY <1>2 DEF FiguresInv, RequestInv, Remaining, DataCovered, DataFresh, SumBounded
<1>. QED
  BY <1>1, <1>3, <1>4, <1>5
     DEF FiguresInv, TotalCoversData, NotStale, QualityTotalOfAMoment, Shows

LEMMA Newest ==
  ASSUME FiguresType, RowsOfBatches
  PROVE  /\ NewestBatch \in Nat
         /\ NewestBatch > 0 => \E i \in Stored : processed[i].at >= NewestBatch
<1>. DEFINE Is(b) == /\ \A i \in Stored : processed[i].at <= b
                     /\ b > 0 => \E i \in Stored : processed[i].at = b
            S == {processed[i].at : i \in Stored}
<1>1. /\ \A i \in Stored : processed[i].at \in Nat /\ processed[i].at <= batches
      /\ batches \in Nat
  BY StoredRows DEF FiguresType, RowsOfBatches
<1>2. \E b \in 0 .. batches : Is(b)
  <2>1. CASE Stored = {}
    <3>1. 0 \in 0 .. batches /\ Is(0)
      BY <1>1, <2>1
    <3>. QED
      BY <3>1
  <2>2. CASE Stored # {}
    <3>1. S \subseteq Nat /\ S # {} /\ \A x \in S : x <= batches
      BY <1>1, <2>2
    <3>2. PICK x \in S : \A y \in S : x >= y
      <4>. HIDE DEF S
      <4>. QED
        BY <1>1, <3>1, GreatestExists
    <3>3. x \in 0 .. batches /\ Is(x)
      BY <1>1, <3>1, <3>2
    <3>. QED
      BY <3>3
  <2>. QED
    BY <2>1, <2>2
<1>3. NewestBatch = CHOOSE b \in 0 .. batches : Is(b)
  BY DEF NewestBatch
<1>4. NewestBatch \in 0 .. batches /\ Is(NewestBatch)
  <2>. HIDE DEF Is
  <2>. QED
    BY <1>2, <1>3
<1>. QED
  BY <1>1, <1>4

\* The rows the analytics read: no more than there are, none of them after the
\* last one processed before a row that the limit cuts off.
LEMMA LatestRead ==
  ASSUME FiguresType, NEW data \in LatestRows
  PROVE  /\ data \in Seq(TableRow) /\ Len(data) \in Nat
         /\ Len(data) <= Cardinality(Stored)
         /\ data # <<>> =>
              \A i \in Stored : data[Len(data)].at >= processed[i].at
<1>1. PICK S \in Windowfuls :
        /\ \A i \in S, j \in Stored \ S : processed[i].at >= processed[j].at
        /\ data \in RowsOf(S) /\ Ascending(data)
  BY DEF LatestRows
<1>2. PICK s \in Enumerations(S) : data = [a \in DOMAIN s |-> processed[s[a]]]
  BY <1>1 DEF RowsOf
<1>3. /\ S \subseteq Stored /\ IsFiniteSet(S) /\ Cardinality(S) \in Nat
      /\ Cardinality(S) <= Cardinality(Stored)
  BY StoredRows, FS_Subset, FS_CardinalityType DEF Windowfuls
<1>. DEFINE n == Cardinality(S)
<1>4. s \in [1 .. n -> S] /\ \A i \in S : \E a \in 1 .. n : s[a] = i
  BY DEF Enumerations
<1>. HIDE DEF n
<1>5. n \in Nat /\ n <= Cardinality(Stored)
  BY <1>3 DEF n
<1>6. /\ \A a \in 1 .. n : data[a] = processed[s[a]] /\ data[a] \in TableRow
      /\ DOMAIN data = 1 .. n /\ data \in [1 .. n -> TableRow]
  BY <1>2, <1>3, <1>4, StoredRows
<1>7. data \in Seq(TableRow) /\ Len(data) = n
  BY <1>5, <1>6
<1>8. ASSUME data # <<>>, NEW i \in Stored
      PROVE  data[Len(data)].at >= processed[i].at
  <2>1. n # 0 /\ n \in 1 .. n
    BY <1>5, <1>6, <1>7, <1>8
  <2>2. s[n] \in S /\ data[n] = processed[s[n]]
    BY <1>4, <1>6, <2>1
  <2>3. processed[i].at \in Nat
    BY StoredRows
  <2>4. CASE i \in S
    <3>1. PICK a \in 1 .. n : s[a] = i
      BY <1>4, <2>4
    <3>2. CASE a = n
      BY <1>7, <2>2, <2>3, <3>1, <3>2
    <3>3. CASE a < n
      <4>1. data[a].at <= data[n].at
        BY <1>1, <1>6, <2>1, <3>3 DEF Ascending
      <4>2. data[n].at \in Nat
        BY <1>6, <2>1 DEF TableRow
      <4>. QED
        BY <1>6, <1>7, <2>3, <3>1, <4>1, <4>2
    <3>. QED
      BY <1>5, <3>2, <3>3
  <2>5. CASE i \notin S
    BY <1>1, <1>7, <2>2, <2>5
  <2>. QED
    BY <2>4, <2>5
<1>. QED
  BY <1>5, <1>7, <1>8

LEMMA TablesKept ==
  ASSUME FiguresInv, UNCHANGED <<processed, batches, window>>, request' \in Request
  PROVE  FiguresType' /\ RowsOfBatches' /\ Stored' = Stored /\ Invalid' = Invalid
  BY DEF FiguresInv, FiguresType, RowsOfBatches, Stored, Invalid

LEMMA ReadsAreSequences ==
  /\ AnalyticsReads \in Seq(Statements) /\ QualityReads \in Seq(Statements)
  /\ <<"metrics">> \in Seq(Statements) /\ <<>> \in Seq(Statements)
<1>1. \A a, b, c \in Statements : /\ <<a, b, c>> \in Seq(Statements)
                                  /\ <<b, c>> \in Seq(Statements)
                                  /\ <<c>> \in Seq(Statements)
  OBVIOUS
<1>2. "rows" \in Statements /\ "count" \in Statements /\ "metrics" \in Statements
  BY DEF Statements
<1>. QED
  BY <1>1, <1>2 DEF AnalyticsReads, QualityReads

LEMMA AskStep ==
  ASSUME FiguresInv, NEW reads \in Plans, Ask(reads)
  PROVE  FiguresInv'
<1>1. /\ UNCHANGED <<processed, batches, window>> /\ shown' = Null
      /\ request' = [reads |-> reads, left |-> reads, data |-> <<>>, total |-> 0,
                     window |-> Null, begun |-> NewestBatch, totals |-> {},
                     purged |-> FALSE, renewed |-> FALSE]
  BY DEF Ask, tables
<1>2. /\ NewestBatch \in Nat
      /\ NewestBatch > 0 => \E i \in Stored : processed[i].at >= NewestBatch
  BY Newest DEF FiguresInv
<1>3. reads \in Seq(Statements)
  BY ReadsAreSequences DEF Plans
<1>4. request' \in Request
  BY <1>1, <1>2, <1>3 DEF Request
<1>5. FiguresType' /\ RowsOfBatches' /\ Stored' = Stored
  BY <1>1, <1>4, TablesKept
<1>6. Remaining(request')
  BY <1>1 DEF Remaining, Plans
<1>7. DataCovered(request)'
  BY <1>1, <1>5, StoredRows DEF FiguresInv, DataCovered
<1>8. DataFresh(request)'
  BY <1>1, <1>2, <1>5 DEF DataFresh
<1>9. SumBounded(request)'
  <2>1. reads \notin {<<"metrics">>, <<>>}
    BY DEF Plans, AnalyticsReads, QualityReads
  <2>. QED
    BY <1>1, <2>1 DEF SumBounded
<1>10. RequestInv'
  BY <1>6, <1>7, <1>8, <1>9 DEF RequestInv, Remaining
<1>. QED
  BY <1>1, <1>5, <1>10
     DEF FiguresInv, TotalCoversData, NotStale, QualityTotalOfAMoment, Shows

\* What is left of a request whose next statement is known.
LEMMA NextRead ==
  ASSUME NEW r, Remaining(r), r.left # <<>>
  PROVE  /\ Head(r.left) = "rows"    => Tail(r.left) = QualityReads
         /\ Head(r.left) = "count"   => Tail(r.left) = <<"metrics">>
         /\ Head(r.left) = "metrics" => Tail(r.left) = <<>>
<1>1. \A a, b, c : /\ Head(<<a, b, c>>) = a /\ Tail(<<a, b, c>>) = <<b, c>>
                   /\ Head(<<b, c>>) = b /\ Tail(<<b, c>>) = <<c>>
                   /\ Head(<<c>>) = c /\ Tail(<<c>>) = <<>>
  OBVIOUS
<1>2. r.left \in {<<"rows", "count", "metrics">>, <<"count", "metrics">>, <<"metrics">>}
  BY DEF Remaining, AnalyticsReads, QualityReads
<1>3. CASE r.left = <<"rows", "count", "metrics">>
  BY <1>1, <1>3 DEF QualityReads
<1>4. CASE r.left = <<"count", "metrics">>
  BY <1>1, <1>4
<1>5. CASE r.left = <<"metrics">>
  BY <1>1, <1>5
<1>. QED
  BY <1>2, <1>3, <1>4, <1>5

LEMMA ReadRowsStep ==
  ASSUME FiguresInv, ReadRows
  PROVE  FiguresInv'
<1>1. PICK data \in LatestRows :
        /\ request' = [request EXCEPT !.left = Tail(@), !.data = data]
        /\ UNCHANGED <<processed, batches, window, shown>>
        /\ request # Null /\ request.left # <<>> /\ Head(request.left) = "rows"
  BY DEF ReadRows, Reading, tables
<1>2. /\ request \in Request /\ Remaining(request) /\ DataFresh(request)
      /\ FiguresType
  BY <1>1 DEF FiguresInv, FiguresType, RequestInv
<1>3. Tail(request.left) = QualityReads
  BY <1>1, <1>2, NextRead
<1>4. /\ data \in Seq(TableRow) /\ Len(data) \in Nat
      /\ Len(data) <= Cardinality(Stored)
      /\ data # <<>> => \A i \in Stored : data[Len(data)].at >= processed[i].at
  BY <1>2, LatestRead
<1>5. /\ request' = [request EXCEPT !.left = QualityReads, !.data = data]
      /\ QualityReads \in Seq(Statements)
  BY <1>1, <1>3, ReadsAreSequences
<1>6. /\ request' \in Request
      /\ request'.left = QualityReads /\ request'.data = data
      /\ request'.begun = request.begun /\ request'.purged = request.purged
      /\ request.begun \in Nat
  <2>. HIDE DEF QualityReads
  <2>. QED
    BY <1>2, <1>4, <1>5 DEF Request
<1>7. FiguresType' /\ RowsOfBatches' /\ Stored' = Stored
  BY <1>1, <1>6, TablesKept
<1>8. Remaining(request')
  BY <1>6 DEF Remaining
<1>9. DataCovered(request)'
  <2>1. QualityReads \notin {<<"metrics">>, <<>>}
    BY DEF QualityReads
  <2>. QED
    BY <1>4, <1>6, <1>7, <2>1 DEF DataCovered
<1>10. DataFresh(request)'
  <2>1. ASSUME ~request.purged, data # <<>>
        PROVE  data[Len(data)].at >= request.begun
    <3>1. data[Len(data)].at \in Nat
      <4>1. Len(data) \in 1 .. Len(data)
        BY <1>4, <2>1
      <4>2. data[Len(data)] \in TableRow
        BY <1>4, <4>1
      <4>. QED
        BY <4>2 DEF TableRow
    <3>2. CASE request.begun > 0
      <4>1. PICK i \in Stored : processed[i].at >= request.begun
        BY <1>2, <2>1, <3>2 DEF DataFresh
      <4>2. processed[i].at \in Nat /\ data[Len(data)].at >= processed[i].at
        BY <1>2, <1>4, <2>1, StoredRows
      <4>. QED
        BY <1>6, <3>1, <4>1, <4>2
    <3>. QED
      BY <1>6, <3>1, <3>2
  <2>. QED
    BY <1>1, <1>2, <1>6, <1>7, <2>1 DEF DataFresh
<1>11. SumBounded(request)'
  <2>1. QualityReads \notin {<<"metrics">>, <<>>}
    BY DEF QualityReads
  <2>. QED
    BY <1>6, <2>1 DEF SumBounded
<1>12. RequestInv'
  BY <1>8, <1>9, <1>10, <1>11 DEF RequestInv, Remaining
<1>. QED
  BY <1>1, <1>7, <1>12
     DEF FiguresInv, TotalCoversData, NotStale, QualityTotalOfAMoment, Shows

LEMMA CountRowsStep ==
  ASSUME FiguresInv, CountRows
  PROVE  FiguresInv'
<1>1. /\ request' = [request EXCEPT !.left = Tail(@), !.total = Cardinality(Stored),
                                     !.totals = @ \cup {TableTotal}]
      /\ UNCHANGED <<processed, batches, window, shown>>
      /\ request # Null /\ request.left # <<>> /\ Head(request.left) = "count"
  BY DEF CountRows, Reading, tables
<1>2. /\ request \in Request /\ Remaining(request)
      /\ DataFresh(request) /\ DataCovered(request)
  BY <1>1 DEF FiguresInv, FiguresType, RequestInv
<1>3. Tail(request.left) = <<"metrics">>
  BY <1>1, <1>2, NextRead
<1>4. Cardinality(Stored) \in Nat /\ Invalid \in Nat /\ TableTotal \in Nat
  BY StoredRows, InvalidIsNat DEF FiguresInv
<1>5. /\ request' \in Request
      /\ request'.left = <<"metrics">> /\ request'.total = Cardinality(Stored)
      /\ request'.data = request.data /\ TableTotal \in request'.totals
      /\ request'.begun = request.begun /\ request'.purged = request.purged
  BY <1>1, <1>2, <1>3, <1>4, ReadsAreSequences DEF Request
<1>6. FiguresType' /\ RowsOfBatches' /\ Stored' = Stored /\ Invalid' = Invalid
  BY <1>1, <1>5, TablesKept
<1>7. Remaining(request')
  BY <1>5 DEF Remaining
<1>8. DataCovered(request)'
  BY <1>2, <1>5, <1>6 DEF DataCovered
<1>9. DataFresh(request)'
  BY <1>1, <1>2, <1>5, <1>6 DEF DataFresh
<1>10. SumBounded(request)'
  <2>1. request'.total + Invalid' >= TableTotal
    BY <1>4, <1>5, <1>6 DEF TableTotal
  <2>2. request'.total <= Cardinality(Stored')
    BY <1>4, <1>5, <1>6
  <2>3. request'.left # <<>>
    BY <1>5
  <2>. QED
    BY <1>5, <2>1, <2>2, <2>3 DEF SumBounded
<1>11. RequestInv'
  BY <1>7, <1>8, <1>9, <1>10 DEF RequestInv, Remaining
<1>. QED
  BY <1>1, <1>6, <1>11
     DEF FiguresInv, TotalCoversData, NotStale, QualityTotalOfAMoment, Shows

LEMMA ReadMetricsStep ==
  ASSUME FiguresInv, ReadMetrics
  PROVE  FiguresInv'
<1>1. /\ request' = [request EXCEPT !.left = Tail(@), !.window = window,
                                     !.totals = @ \cup {TableTotal}]
      /\ UNCHANGED <<processed, batches, window, shown>>
      /\ request # Null /\ request.left # <<>> /\ Head(request.left) = "metrics"
  BY DEF ReadMetrics, Reading, tables
<1>2. /\ request \in Request /\ Remaining(request)
      /\ DataFresh(request) /\ DataCovered(request) /\ SumBounded(request)
  BY <1>1 DEF FiguresInv, FiguresType, RequestInv
<1>3. Tail(request.left) = <<>> /\ request.left = <<"metrics">>
  BY <1>1, <1>2, NextRead DEF Remaining, AnalyticsReads, QualityReads
<1>4. /\ window \in WindowCounts \cup {Null}
      /\ Cardinality(Stored) \in Nat /\ Invalid \in Nat /\ TableTotal \in Nat
  BY StoredRows, InvalidIsNat DEF FiguresInv, FiguresType
<1>5. /\ request' \in Request
      /\ request'.left = <<>> /\ request'.total = request.total
      /\ request'.data = request.data /\ request'.window = window
      /\ request'.totals = request.totals \cup {TableTotal}
      /\ request'.renewed = request.renewed
      /\ request'.begun = request.begun /\ request'.purged = request.purged
  BY <1>1, <1>2, <1>3, <1>4, ReadsAreSequences DEF Request
<1>6. FiguresType' /\ RowsOfBatches' /\ Stored' = Stored /\ Invalid' = Invalid
  BY <1>1, <1>5, TablesKept
<1>7. Remaining(request')
  BY <1>5 DEF Remaining
<1>8. DataCovered(request)'
  BY <1>2, <1>3, <1>5, <1>6 DEF DataCovered
<1>9. DataFresh(request)'
  BY <1>1, <1>2, <1>5, <1>6 DEF DataFresh
<1>10. SumBounded(request)'
  <2>1. Sum(request') = request.total + Invalid
    BY <1>5 DEF Sum, Invalid
  <2>2. request.total \in Nat /\ request.totals \subseteq Nat
    BY <1>2 DEF Request
  <2>3. ASSUME ~request.purged PROVE Sum(request') <= TableTotal
    BY <1>2, <1>3, <1>4, <2>1, <2>2, <2>3 DEF SumBounded, TableTotal
  <2>4. ASSUME ~request.purged, ~request.renewed
        PROVE  \E t \in request.totals : Sum(request') >= t
    BY <1>2, <1>3, <2>1, <2>4 DEF SumBounded
  <2>. HIDE DEF Sum
  <2>5. request'.left # <<"metrics">>
    BY <1>5
  <2>. QED
    BY <1>5, <2>3, <2>4, <2>5 DEF SumBounded
<1>11. RequestInv'
  BY <1>7, <1>8, <1>9, <1>10 DEF RequestInv, Remaining
<1>. QED
  BY <1>1, <1>6, <1>11
     DEF FiguresInv, TotalCoversData, NotStale, QualityTotalOfAMoment, Shows

\* The total of the quality page is the sum of what was read.
LEMMA QualityAdds ==
  ASSUME NEW r \in Request
  PROVE  LET q == QualityOf(r) IN
         /\ q.page = "quality" /\ q.total = Sum(r)
         /\ q.totals = r.totals /\ q.purged = r.purged /\ q.renewed = r.renewed
BY DEF QualityOf, Sum, NoEvents

LEMMA RespondStep ==
  ASSUME FiguresInv, Respond
  PROVE  FiguresInv'
<1>1. /\ UNCHANGED <<processed, batches, window>> /\ request' = Null
      /\ request # Null /\ request.left = <<>>
      /\ \/ shown' = QualityOf(request)
         \/ shown' = AnalyticsOf(request)
  BY DEF Respond, tables
<1>2. /\ request \in Request /\ DataCovered(request) /\ DataFresh(request)
      /\ SumBounded(request)
  BY <1>1 DEF FiguresInv, FiguresType, RequestInv
<1>3. FiguresType' /\ RowsOfBatches' /\ RequestInv'
  BY <1>1 DEF FiguresInv, FiguresType, RowsOfBatches, RequestInv, Stored
<1>4. CASE shown' = QualityOf(request)
  <2>1. QualityTotalOfAMoment'
    BY <1>1, <1>2, <1>4, QualityAdds DEF QualityTotalOfAMoment, SumBounded
  <2>2. shown'.page = "quality"
    BY <1>2, <1>4, QualityAdds
  <2>3. TotalCoversData' /\ NotStale'
    BY <2>2 DEF TotalCoversData, NotStale, Shows
  <2>. QED
    BY <1>3, <2>1, <2>3 DEF FiguresInv
<1>5. CASE shown' = AnalyticsOf(request)
  <2>1. /\ shown'.page = "analytics" /\ shown'.total = request.total
        /\ shown'.data = request.data /\ shown'.begun = request.begun
        /\ shown'.purged = request.purged
        /\ request.data # <<>> => shown'.newest = request.data[Len(request.data)].at
    BY <1>5 DEF AnalyticsOf
  <2>2. /\ request.total \in Nat /\ Len(request.data) \in Nat
        /\ ~request.purged => Len(request.data) <= request.total
    BY <1>1, <1>2 DEF Request, DataCovered
  <2>3. TotalCoversData'
    BY <2>1, <2>2 DEF TotalCoversData
  <2>4. NotStale'
    BY <1>2, <2>1 DEF NotStale, DataFresh
  <2>5. QualityTotalOfAMoment'
    BY <2>1 DEF QualityTotalOfAMoment, Shows
  <2>. QED
    BY <1>3, <2>3, <2>4, <2>5 DEF FiguresInv
<1>. QED
  BY <1>1, <1>4, <1>5

LEMMA FiguresStart == FiguresInit => FiguresInv
  BY DEF FiguresInit, FiguresInv, FiguresType, RowsOfBatches, RequestInv, Stored,
         TotalCoversData, NotStale, QualityTotalOfAMoment, Shows

LEMMA FiguresNextInv == FiguresInv /\ [FiguresNext]_figuresVars => FiguresInv'
<1>. SUFFICES ASSUME FiguresInv, [FiguresNext]_figuresVars
              PROVE  FiguresInv'
  OBVIOUS
<1>1. ASSUME NEW ids \in SUBSET Ids, UpsertRecords(ids)
      PROVE  FiguresInv'
  BY <1>1, UpsertRecordsStep
<1>2. ASSUME NEW outcome \in {"valid", "invalid", "neither"},
             UpsertMetrics(outcome)
      PROVE  FiguresInv'
  BY <1>2, UpsertMetricsStep
<1>3. ASSUME NEW t \in Times, PurgeProcessed(t)
      PROVE  FiguresInv'
  BY <1>3, PurgeProcessedStep
<1>4. CASE Ask(AnalyticsReads)
  BY <1>4, AskStep DEF Plans
<1>5. CASE Ask(QualityReads)
  BY <1>5, AskStep DEF Plans
<1>6. CASE ReadRows
  BY <1>6, ReadRowsStep
<1>7. CASE CountRows
  BY <1>7, CountRowsStep
<1>8. CASE ReadMetrics
  BY <1>8, ReadMetricsStep
<1>9. CASE Respond
  BY <1>9, RespondStep
<1>10. CASE UNCHANGED figuresVars
  BY <1>10
     DEF figuresVars, FiguresInv, FiguresType, RowsOfBatches, RequestInv, Remaining,
         DataCovered, DataFresh, SumBounded, Invalid, Stored,
         TotalCoversData, NotStale, QualityTotalOfAMoment, Shows
<1>. QED
  BY <1>1, <1>2, <1>3, <1>4, <1>5, <1>6, <1>7, <1>8, <1>9, <1>10 DEF FiguresNext

LEMMA FiguresInvariance == FiguresSpec => []FiguresInv
  BY FiguresStart, FiguresNextInv, PTL DEF FiguresSpec

\* The total beside the charts covers the records in them, whatever is
\* committed between the statements (sources.py:249-271).
THEOREM TotalCovers == FiguresSpec => []TotalCoversData
<1>1. FiguresInv => TotalCoversData
  BY DEF FiguresInv
<1>. QED
  BY <1>1, FiguresInvariance, PTL

\* A response is as fresh as its request, whatever the limit cuts off
\* (sources.py:249-293).
THEOREM FreshAsAsked == FiguresSpec => []NotStale
<1>1. FiguresInv => NotStale
  BY DEF FiguresInv
<1>. QED
  BY <1>1, FiguresInvariance, PTL

\* The total of the quality page, which adds up two statements, is no more than
\* the tables added up to at one of them and, unless a window begins in between,
\* no less than at one of them, whatever is committed between the two, unless
\* old rows are deleted (sources.py:360-400).
THEOREM QualityTotalsHold == FiguresSpec => []QualityTotalOfAMoment
<1>1. FiguresInv => QualityTotalOfAMoment
  BY DEF FiguresInv
<1>. QED
  BY <1>1, FiguresInvariance, PTL

-----------------------------------------------------------------------------
(* The pages of a client. *)

ServedRow == [time : PageTimes, batch : Nat]
ServedTables == [Keys -> ServedRow \cup {Null}]

\* The rows of a table that come before the row of a key.
BeforeIn(table, k) ==
  {j \in Keys : table[j] # Null /\ table[j].time > table[k].time}

PagesType ==
  /\ served \in ServedTables
  /\ writes \in Nat
  /\ offset \in Nat \cup {Null}
  /\ more \in BOOLEAN
  /\ owed \subseteq Listed
  /\ tied \in BOOLEAN

NotBegun == offset = Null => more /\ owed = {}

TimesDiffer ==
  ~tied => \A j, k \in Listed : j # k => served[j].time # served[k].time

\* A row that the client is owed and has not got is not among the rows that
\* its next page leaves out.
StillAhead ==
  offset # Null /\ ~tied /\ more =>
    \A k \in owed \ read : Cardinality(BeforeIn(served, k)) >= offset

PagesInv == /\ PagesType /\ NotBegun /\ TimesDiffer /\ StillAhead
            /\ NothingSkipped

LEMMA BeforeFinite ==
  ASSUME NEW table, NEW k
  PROVE  /\ IsFiniteSet(BeforeIn(table, k))
         /\ Cardinality(BeforeIn(table, k)) \in Nat
<1>1. BeforeIn(table, k) \subseteq Keys
  BY DEF BeforeIn
<1>. QED
  BY <1>1, PagesAssumption, FS_Subset, FS_CardinalityType

LEMMA BeforeGrows ==
  ASSUME NEW a, NEW b, NEW k, BeforeIn(a, k) \subseteq BeforeIn(b, k)
  PROVE  Cardinality(BeforeIn(a, k)) <= Cardinality(BeforeIn(b, k))
  BY BeforeFinite, FS_Subset

LEMMA RowTimes ==
  ASSUME NEW table \in ServedTables
  PROVE  \A k \in Keys : table[k] # Null => /\ table[k].time \in PageTimes
                                            /\ table[k].time \in Nat
  BY PagesAssumption DEF ServedTables, ServedRow

\* What is committed between two pages leaves an owed row as far down.
LEMMA WritersKeepAhead ==
  ASSUME PagesInv, owed' \subseteq owed, tied' \/ ~tied, UNCHANGED client,
         \A k \in owed' : BeforeIn(served, k) \subseteq BeforeIn(served', k)
  PROVE  StillAhead'
<1>. SUFFICES ASSUME offset # Null, ~tied', more, NEW k \in owed' \ read
              PROVE  Cardinality(BeforeIn(served', k)) >= offset
  BY DEF client, StillAhead
<1>1. Cardinality(BeforeIn(served, k)) >= offset
  BY DEF PagesInv, StillAhead
<1>2. Cardinality(BeforeIn(served, k)) <= Cardinality(BeforeIn(served', k))
  BY BeforeGrows
<1>3. offset \in Nat
  BY DEF PagesInv, PagesType
<1>. QED
  BY <1>1, <1>2, <1>3, BeforeFinite

LEMMA UpsertServedStep ==
  ASSUME PagesInv, NEW keys \in SUBSET Keys, UpsertServed(keys)
  PROVE  PagesInv'
<1>1. PICK time \in [keys -> PageTimes] :
        served' = [k \in Keys |->
          IF k \notin keys THEN served[k]
          ELSE [time |-> IF served[k] = Null THEN time[k] ELSE served[k].time,
                batch |-> writes + 1]]
  BY DEF UpsertServed
<1>2. /\ writes' = writes + 1 /\ UNCHANGED <<client, owed>>
      /\ tied' = (tied \/ \E j, k \in Keys : /\ j # k
                                             /\ served'[j] # Null /\ served'[k] # Null
                                             /\ served'[j].time = served'[k].time)
  BY DEF UpsertServed
<1>3. served \in ServedTables /\ writes \in Nat
  BY DEF PagesInv, PagesType
<1>4. \A k \in keys :
        /\ served'[k] \in ServedRow
        /\ served[k] # Null => served'[k].time = served[k].time
  <2>. SUFFICES ASSUME NEW k \in keys
                PROVE  /\ served'[k] \in ServedRow
                       /\ served[k] # Null => served'[k].time = served[k].time
    OBVIOUS
  <2>. DEFINE t == IF served[k] = Null THEN time[k] ELSE served[k].time
  <2>1. t \in PageTimes
    BY <1>3, RowTimes
  <2>2. served'[k] = [time |-> t, batch |-> writes + 1]
    BY <1>1
  <2>3. served[k] # Null => t = served[k].time
    OBVIOUS
  <2>. HIDE DEF t
  <2>. QED
    BY <1>3, <2>1, <2>2, <2>3 DEF ServedRow
<1>5. \A k \in Keys \ keys : served'[k] = served[k]
  BY <1>1
<1>6. served' \in ServedTables
  <2>1. \A k \in Keys : served'[k] \in ServedRow \cup {Null}
    BY <1>3, <1>4, <1>5 DEF ServedTables
  <2>. QED
    BY <1>1, <2>1 DEF ServedTables
<1>7. Null \notin ServedRow
  BY PagesAssumption DEF ServedRow
<1>8. \A k \in Listed : k \in Listed' /\ served'[k].time = served[k].time
  BY <1>4, <1>5, <1>7 DEF Listed
<1>9. PagesType'
  BY <1>2, <1>3, <1>6, <1>8 DEF PagesInv, PagesType, client
<1>10. TimesDiffer'
  BY <1>2 DEF TimesDiffer, Listed
<1>11. StillAhead'
  <2>1. \A k \in owed' : BeforeIn(served, k) \subseteq BeforeIn(served', k)
    BY <1>2, <1>8 DEF BeforeIn, Listed, PagesInv, PagesType
  <2>. QED
    BY <1>2, <2>1, WritersKeepAhead
<1>. QED
  BY <1>2, <1>9, <1>10, <1>11 DEF PagesInv, NotBegun, NothingSkipped, client

LEMMA PurgeServedStep ==
  ASSUME PagesInv, NEW t \in PageTimes, PurgeServed(t)
  PROVE  PagesInv'
<1>1. /\ served' = [k \in Keys |-> IF k \in Listed /\ served[k].time < t
                                   THEN Null ELSE served[k]]
      /\ owed' = {k \in owed : served'[k] # Null}
      /\ UNCHANGED <<writes, client, tied>>
  BY DEF PurgeServed
<1>2. served \in ServedTables /\ owed \subseteq Listed
  BY DEF PagesInv, PagesType
<1>3. \A k \in Keys : served'[k] = IF k \in Listed /\ served[k].time < t
                                   THEN Null ELSE served[k]
  BY <1>1
<1>4. Listed' \subseteq Listed /\ \A k \in Listed' : served'[k] = served[k]
  BY <1>3 DEF Listed
<1>5. served' \in ServedTables
  BY <1>1, <1>2 DEF ServedTables
<1>6. owed' \subseteq owed /\ owed' \subseteq Listed'
  BY <1>1, <1>2 DEF Listed
<1>7. PagesType'
  BY <1>1, <1>5, <1>6 DEF PagesInv, PagesType, client
<1>8. TimesDiffer'
  BY <1>1, <1>4 DEF PagesInv, TimesDiffer
<1>9. ASSUME NEW k \in owed', NEW j \in BeforeIn(served, k)
      PROVE  j \in BeforeIn(served', k)
  <2>1. /\ k \in Listed /\ served'[k] = served[k] /\ ~(served[k].time < t)
        /\ j \in Listed /\ served[j].time > served[k].time
    BY <1>2, <1>3, <1>4, <1>6, <1>9 DEF BeforeIn, Listed
  <2>2. t \in Nat /\ served[k].time \in Nat /\ served[j].time \in Nat
    BY <1>2, <2>1, RowTimes, PagesAssumption DEF Listed
  <2>3. served'[j] = served[j]
    BY <1>3, <2>1, <2>2 DEF Listed
  <2>. QED
    BY <2>1, <2>3 DEF BeforeIn, Listed
<1>10. StillAhead'
  BY <1>1, <1>6, <1>9, WritersKeepAhead
<1>. QED
  BY <1>1, <1>6, <1>7, <1>8, <1>10 DEF PagesInv, NotBegun, NothingSkipped, client

\* A page passes over no row: one that the rows left out did not reach is in the
\* page, or the page is full and it is still ahead of the rows left out next.
LEMMA NotPassedOver ==
  ASSUME PagesInv, ~tied, NEW m \in Nat, NEW page \in Pages(m, PageSize),
         NEW k \in Listed \ page, Cardinality(BeforeIn(served, k)) >= m
  PROVE  /\ Cardinality(page) = PageSize
         /\ Cardinality(BeforeIn(served, k)) >= m + PageSize
<1>. DEFINE B == BeforeIn(served, k)
            n == PageSize
<1>1. PICK skipped \in SUBSET (Listed \ page) :
        /\ \/ Cardinality(skipped) = m
           \/ Cardinality(skipped) < m /\ skipped = Listed
        /\ \/ Cardinality(page) = n
           \/ Cardinality(page) < n /\ Listed \ (page \cup skipped) = {}
        /\ \A i \in skipped, j \in page \cup (Listed \ (page \cup skipped)) : ~First(j, i)
        /\ \A i \in page, j \in Listed \ (page \cup skipped) : ~First(j, i)
  BY DEF Pages
<1>2. page \subseteq Listed /\ Listed \subseteq Keys
  BY DEF Pages, Listed
<1>3. /\ IsFiniteSet(page) /\ IsFiniteSet(skipped) /\ IsFiniteSet(B)
      /\ Cardinality(page) \in Nat /\ Cardinality(skipped) \in Nat
      /\ Cardinality(B) \in Nat /\ n \in Nat
  <2>1. skipped \subseteq Keys /\ page \subseteq Keys
    BY <1>1, <1>2
  <2>. QED
    BY <2>1, PagesAssumption, FS_Subset, FS_CardinalityType, BeforeFinite
<1>4. \A j \in Listed : served[j].time \in Nat
  BY RowTimes DEF PagesInv, PagesType, Listed
<1>5. \A j \in Listed : j \in B <=> served[j].time > served[k].time
  BY <1>2 DEF BeforeIn, Listed
<1>6. B \subseteq Listed /\ k \notin B
  BY <1>4, <1>5 DEF BeforeIn, Listed
<1>. HIDE DEF B, n
<1>7. CASE k \in skipped
  <2>1. \A j \in B : j \in skipped
    BY <1>1, <1>5, <1>6, <1>7 DEF First
  <2>2. B \cup {k} \subseteq skipped
    BY <1>7, <2>1
  <2>3. Cardinality(B \cup {k}) = Cardinality(B) + 1
    BY <1>3, <1>6, FS_AddElement
  <2>4. Cardinality(B \cup {k}) <= Cardinality(skipped)
    BY <1>3, <2>2, FS_Subset
  <2>. QED
    BY <1>1, <1>3, <2>3, <2>4 DEF B
<1>8. CASE k \notin skipped
  <2>1. k \in Listed \ (page \cup skipped) /\ skipped # Listed
    BY <1>8
  <2>2. Cardinality(page) = n /\ Cardinality(skipped) = m
    BY <1>1, <2>1
  <2>3. ASSUME NEW j \in skipped \cup page
        PROVE  j \in B
    <3>1. j \in Listed /\ j # k
      BY <1>1, <1>2, <1>8
    <3>2. ~First(k, j)
      BY <1>1, <2>1
    <3>3. served[j].time # served[k].time
      BY <3>1 DEF PagesInv, TimesDiffer
    <3>. QED
      BY <1>4, <1>5, <3>1, <3>2, <3>3 DEF First
  <2>4. Cardinality(skipped \cup page) = Cardinality(skipped) + Cardinality(page)
    <3>1. skipped \cap page = {}
      BY <1>1
    <3>2. Cardinality(skipped \cap page) = 0
      BY <3>1, FS_EmptySet
    <3>3. Cardinality(skipped \cup page) =
            Cardinality(skipped) + Cardinality(page) - Cardinality(skipped \cap page)
      BY <1>3, FS_Union
    <3>. QED
      BY <1>3, <3>2, <3>3
  <2>5. Cardinality(skipped \cup page) <= Cardinality(B)
    BY <1>3, <2>3, FS_Subset
  <2>. QED
    BY <1>3, <2>2, <2>4, <2>5 DEF B, n
<1>. QED
  BY <1>7, <1>8

LEMMA GetPageStep ==
  ASSUME PagesInv, GetPage
  PROVE  PagesInv'
<1>1. PICK page \in Pages(offset, PageSize) :
        /\ read' = read \cup page
        /\ more' = (Cardinality(page) = PageSize)
  BY DEF GetPage
<1>2. /\ offset \in Nat /\ more /\ offset' = offset + PageSize
      /\ UNCHANGED <<served, writes, owed, tied>>
  BY DEF GetPage, PagesInv, PagesType
<1>3. PagesType' /\ NotBegun' /\ TimesDiffer'
  BY <1>1, <1>2, PagesAssumption
     DEF PagesInv, PagesType, NotBegun, TimesDiffer, Listed
<1>4. ASSUME ~tied, NEW k \in owed \ read'
      PROVE  /\ Cardinality(page) = PageSize
             /\ Cardinality(BeforeIn(served, k)) >= offset + PageSize
  <2>1. k \in Listed \ page /\ k \in owed \ read
    BY <1>1 DEF PagesInv, PagesType
  <2>2. Cardinality(BeforeIn(served, k)) >= offset
    BY <1>2, <1>4, <2>1, PagesAssumption DEF PagesInv, StillAhead
  <2>. QED
    BY <1>2, <1>4, <2>1, <2>2, NotPassedOver
<1>5. StillAhead'
  BY <1>2, <1>4 DEF StillAhead
<1>6. NothingSkipped'
  BY <1>1, <1>2, <1>4 DEF NothingSkipped
<1>. QED
  BY <1>3, <1>5, <1>6 DEF PagesInv

LEMMA BeginStep ==
  ASSUME PagesInv, Begin
  PROVE  PagesInv'
<1>1. /\ offset' = 0 /\ owed' = Listed /\ UNCHANGED <<served, writes, more, read, tied>>
      /\ more
  BY DEF Begin, PagesInv, NotBegun
<1>2. PagesType' /\ NotBegun' /\ TimesDiffer' /\ NothingSkipped'
  BY <1>1, PagesAssumption
     DEF PagesInv, PagesType, NotBegun, TimesDiffer, NothingSkipped, Listed
<1>3. StillAhead'
  BY <1>1, BeforeFinite DEF StillAhead
<1>. QED
  BY <1>2, <1>3 DEF PagesInv

LEMMA PagesStart == PagesInit => PagesInv
<1>. SUFFICES ASSUME PagesInit PROVE PagesInv
  OBVIOUS
<1>1. Listed = {} /\ served \in ServedTables
  BY DEF PagesInit, Listed, ServedTables
<1>2. PagesType
  BY <1>1 DEF PagesInit, PagesType
<1>3. NotBegun /\ TimesDiffer /\ StillAhead /\ NothingSkipped
  BY <1>1 DEF PagesInit, NotBegun, TimesDiffer, StillAhead, NothingSkipped
<1>. QED
  BY <1>2, <1>3 DEF PagesInv

LEMMA PagesNextInv == PagesInv /\ [PagesNext]_pagesVars => PagesInv'
<1>. SUFFICES ASSUME PagesInv, [PagesNext]_pagesVars
              PROVE  PagesInv'
  OBVIOUS
<1>1. ASSUME NEW keys \in SUBSET Keys, UpsertServed(keys)
      PROVE  PagesInv'
  BY <1>1, UpsertServedStep
<1>2. ASSUME NEW t \in PageTimes, PurgeServed(t)
      PROVE  PagesInv'
  BY <1>2, PurgeServedStep
<1>3. CASE Begin
  BY <1>3, BeginStep
<1>4. CASE GetPage
  BY <1>4, GetPageStep
<1>5. CASE UNCHANGED pagesVars
  BY <1>5
     DEF pagesVars, PagesInv, PagesType, NotBegun, TimesDiffer, StillAhead,
         NothingSkipped, Listed, BeforeIn
<1>. QED
  BY <1>1, <1>2, <1>3, <1>4, <1>5 DEF PagesNext

LEMMA PagesInvariance == PagesSpec => []PagesInv
  BY PagesStart, PagesNextInv, PTL DEF PagesSpec

\* A client that reads to the last page misses no row that was there all the
\* time, unless two rows had the same time (serving.py:54-61, 85-91): a row
\* it is owed has at least as many rows before it as the client has read.
THEOREM NoRowSkipped == PagesSpec => []NothingSkipped
<1>1. PagesInv => NothingSkipped
  BY DEF PagesInv
<1>. QED
  BY <1>1, PagesInvariance, PTL

-----------------------------------------------------------------------------
(* The records a response is cut into. *)

LEMMA FieldsOf ==
  ASSUME NEW v \in Json, v.kind = "object"
  PROVE  /\ DOMAIN v.fields \subseteq Fields
         /\ v.fields = [k \in DOMAIN v.fields |-> v.fields[k]]
         /\ \A k \in DOMAIN v.fields : v.fields[k] \in Json
BY JsonAssumption DEF WellFormed

LEMMA ItemsOf ==
  ASSUME NEW v \in Json, v.kind = "list"
  PROVE  /\ v.items \in Seq(Json) /\ Len(v.items) \in Nat
         /\ DOMAIN v.items = 1 .. Len(v.items)
         /\ v.items = [i \in 1 .. Len(v.items) |-> v.items[i]]
         /\ \A i \in 1 .. Len(v.items) : v.items[i] \in Json
<1>1. v.items \in Seq(Json)
  BY JsonAssumption DEF WellFormed
<1>. QED
  BY <1>1

\* The columns of a table have one length, and there is one at least.
LEMMA TableShape ==
  ASSUME NEW v \in Json, v.kind = "object", Tabular(v.fields)
  PROVE  \E n \in Nat \ {0} :
           /\ Lengths(v.fields) = {n}
           /\ Columns(v.fields) # {}
           /\ \A k \in Columns(v.fields) :
                v.fields[k] \in Json /\ v.fields[k].kind = "list"
                /\ Len(v.fields[k].items) = n
<1>. DEFINE d == v.fields
<1>1. \A k \in Columns(d) : d[k] \in Json /\ d[k].kind = "list"
  BY FieldsOf DEF Columns
<1>2. PICK n \in Lengths(d) \ {0} : Lengths(d) = {n}
  BY DEF Tabular
<1>3. PICK k \in Columns(d) : n = Len(d[k].items)
  BY <1>2 DEF Lengths
<1>4. n \in Nat \ {0}
  BY <1>1, <1>2, <1>3, ItemsOf
<1>5. \A c \in Columns(d) : Len(d[c].items) = n
  BY <1>2 DEF Lengths
<1>. QED
  BY <1>1, <1>2, <1>3, <1>4, <1>5

\* Each row of a table has the scalars and, of each column, its item.
LEMMA RowsOfTable ==
  ASSUME NEW v \in Json, v.kind = "object", Tabular(v.fields), NEW scalars
  PROVE  \E n \in Nat \ {0} :
           /\ \A k \in Columns(v.fields) : Len(v.fields[k].items) = n
           /\ Rows(scalars, v.fields) =
                [i \in 1 .. n |->
                   Merge(scalars, [k \in Columns(v.fields) |-> v.fields[k].items[i]])]
           /\ Len(Rows(scalars, v.fields)) = n
<1>. DEFINE d == v.fields
<1>1. PICK n \in Nat \ {0} :
        Lengths(d) = {n} /\ \A k \in Columns(d) : Len(d[k].items) = n
  BY TableShape
<1>. DEFINE length == CHOOSE m \in Lengths(d) : \A l \in Lengths(d) : m <= l
            R == [i \in 1 .. n |->
                    Merge(scalars, [k \in Columns(d) |-> d[k].items[i]])]
<1>2. length = n
  BY <1>1
<1>3. Rows(scalars, d) = [i \in 1 .. length |->
                            Merge(scalars, [k \in Columns(d) |-> d[k].items[i]])]
  BY DEF Rows
<1>. HIDE DEF length
<1>4. Rows(scalars, d) = R
  BY <1>2, <1>3
<1>5. Len(R) = n
  BY <1>1
<1>. QED
  BY <1>1, <1>4, <1>5

LEMMA MergedFields ==
  ASSUME NEW f, NEW g
  PROVE  /\ DOMAIN Merge(f, g) = DOMAIN f \cup DOMAIN g
         /\ \A k \in DOMAIN g : Merge(f, g)[k] = g[k]
         /\ \A k \in DOMAIN f \ DOMAIN g : Merge(f, g)[k] = f[k]
BY DEF Merge

\* The scalars of a document, whatever it is.
LEMMA ScalarsOf ==
  ASSUME NEW d
  PROVE  \A k \in DOMAIN Scalars(d) : Scalars(d)[k] = d[k]
BY DEF Scalars, Restricted

\* What the records cut from a table t hold: its columns, and scalars beside.
HoldColumns(recs, t) ==
  /\ Len(recs) \in Nat \ {0}
  /\ \A k \in Columns(t) : /\ Len(t[k].items) = Len(recs)
                           /\ \A i \in 1 .. Len(recs) : recs[i][k] = t[k].items[i]

HoldScalars(recs, t, scalars) ==
  \A i \in 1 .. Len(recs) :
    /\ DOMAIN recs[i] = Columns(t) \cup DOMAIN scalars
    /\ \A k \in DOMAIN scalars \ Columns(t) : recs[i][k] = scalars[k]

LEMMA TableKept ==
  ASSUME NEW v \in Json, v.kind = "object", Tabular(v.fields),
         NEW scalars, NEW recs, recs = Rows(scalars, v.fields)
  PROVE  HoldColumns(recs, v.fields) /\ HoldScalars(recs, v.fields, scalars)
<1>. DEFINE d == v.fields
            Row(i) == [k \in Columns(d) |-> d[k].items[i]]
<1>1. PICK n \in Nat \ {0} :
        /\ \A k \in Columns(d) : Len(d[k].items) = n
        /\ recs = [i \in 1 .. n |-> Merge(scalars, Row(i))]
        /\ Len(recs) = n
  BY RowsOfTable
<1>2. ASSUME NEW i \in 1 .. n
      PROVE  /\ DOMAIN recs[i] = Columns(d) \cup DOMAIN scalars
             /\ \A k \in Columns(d) : recs[i][k] = d[k].items[i]
             /\ \A k \in DOMAIN scalars \ Columns(d) : recs[i][k] = scalars[k]
  <2>. DEFINE g == Row(i)
  <2>1. DOMAIN g = Columns(d) /\ \A k \in Columns(d) : g[k] = d[k].items[i]
    OBVIOUS
  <2>2. recs[i] = Merge(scalars, g)
    BY <1>1
  <2>. HIDE DEF g
  <2>3. /\ DOMAIN Merge(scalars, g) = DOMAIN scalars \cup DOMAIN g
        /\ \A k \in DOMAIN g : Merge(scalars, g)[k] = g[k]
        /\ \A k \in DOMAIN scalars \ DOMAIN g : Merge(scalars, g)[k] = scalars[k]
    BY MergedFields
  <2>. HIDE DEF d
  <2>. QED
    BY <2>1, <2>2, <2>3
<1>. QED
  BY <1>1, <1>2 DEF HoldColumns, HoldScalars

\* The first of the fields that hold a table is one of them.
LEMMA FirstTableIsOne ==
  ASSUME NEW v \in Json, v.kind = "object", TabularFields(v.fields) # {}
  PROVE  FirstTable(v.fields) \in TabularFields(v.fields)
<1>. DEFINE d == v.fields
            L == Len(FieldOrder)
            At(i) == FieldOrder[i] \in TabularFields(d)
            S == {L - i : i \in {j \in 1 .. L : At(j)}}
<1>1. L \in Nat
  BY JsonAssumption
<1>2. PICK k \in TabularFields(d) : TRUE
  OBVIOUS
<1>3. k \in Fields
  BY FieldsOf DEF TabularFields
<1>4. PICK j \in 1 .. L : At(j)
  BY <1>2, <1>3 DEF Fields
<1>5. S \subseteq Nat /\ S # {} /\ \A x \in S : x <= L
  BY <1>1, <1>4
<1>6. PICK x \in S : \A y \in S : x >= y
  <2>. HIDE DEF S
  <2>. QED
    BY <1>1, <1>5, GreatestExists
<1>7. PICK i \in 1 .. L : At(i) /\ x = L - i
  OBVIOUS
<1>8. \A m \in 1 .. i - 1 : ~At(m)
  <2>1. ASSUME NEW m \in 1 .. i - 1, At(m) PROVE FALSE
    <3>1. m \in 1 .. L /\ L - m > x
      BY <1>1, <1>7
    <3>2. L - m \in S
      BY <2>1, <3>1
    <3>3. x >= L - m
      <4>. HIDE DEF S
      <4>. QED
        BY <1>6, <3>2
    <3>. QED
      BY <1>1, <1>7, <3>1, <3>3
  <2>. QED
    BY <2>1
<1>. DEFINE Is(n) == At(n) /\ \A m \in 1 .. n - 1 : ~At(m)
<1>9. (CHOOSE n \in 1 .. L : Is(n)) \in 1 .. L /\ Is(CHOOSE n \in 1 .. L : Is(n))
  <2>1. i \in 1 .. L /\ Is(i)
    BY <1>7, <1>8
  <2>. HIDE DEF Is
  <2>. QED
    BY <2>1
<1>10. FirstTable(d) = FieldOrder[CHOOSE n \in 1 .. L : Is(n)]
  BY DEF FirstTable
<1>. QED
  BY <1>9, <1>10

\* The first table one level down.
LEMMA InnerTable ==
  ASSUME NEW v \in Json, v.kind = "object", TabularFields(v.fields) # {}
  PROVE  LET w == v.fields[FirstTable(v.fields)] IN
         /\ w \in Json /\ w.kind = "object" /\ Tabular(w.fields)
         /\ w.fields \in TablesOf(v.fields)
<1>1. FirstTable(v.fields) \in TabularFields(v.fields)
  BY FirstTableIsOne
<1>. QED
  BY <1>1, FieldsOf DEF TabularFields, TablesOf

\* If the first element of a list is an object, it is the first that is kept.
LEMMA FirstObjectKept ==
  ASSUME NEW s \in Seq(Json), s # <<>>, IsObject(s[1])
  PROVE  /\ ObjectAt(s, 1) = s[1]
         /\ Cardinality(ObjectsAt(s)) \in Nat \ {0}
<1>. DEFINE S == ObjectsAt(s)
            UpToIts(i) == {j \in S : j <= i}
            Is(i) == Cardinality(UpToIts(i)) = 1
<1>1. /\ Len(s) \in Nat /\ DOMAIN s = 1 .. Len(s) /\ 1 \in DOMAIN s
  OBVIOUS
<1>2. 1 \in S /\ S \subseteq 1 .. Len(s)
  BY <1>1 DEF ObjectsAt
<1>3. IsFiniteSet(1 .. Len(s))
  BY <1>1, FS_Interval
<1>4. IsFiniteSet(S) /\ Cardinality(S) \in Nat /\ Cardinality(S) # 0
  BY <1>2, <1>3, FS_Subset, FS_CardinalityType, FS_EmptySet
<1>5. UpToIts(1) = {1}
  BY <1>2
<1>6. Is(1)
  BY <1>5, FS_Singleton
<1>7. ASSUME NEW i \in S, Is(i) PROVE i = 1
  <2>1. UpToIts(i) \in SUBSET S
    OBVIOUS
  <2>2. IsFiniteSet(UpToIts(i))
    BY <1>4, <2>1, FS_Subset
  <2>3. PICK x : UpToIts(i) = {x}
    <3>1. \A T : IsFiniteSet(T) => (Cardinality(T) = 1 <=> \E x : T = {x})
      BY FS_Singleton
    <3>. QED
      BY <1>7, <2>2, <3>1
  <2>4. i \in UpToIts(i) /\ 1 \in UpToIts(i)
    BY <1>2
  <2>. QED
    BY <2>3, <2>4
<1>8. (CHOOSE i \in S : Is(i)) = 1
  <2>. HIDE DEF Is, S
  <2>. QED
    BY <1>2, <1>6, <1>7
<1>9. ObjectAt(s, 1) = s[CHOOSE i \in S : Is(i)]
  BY DEF ObjectAt
<1>. QED
  BY <1>4, <1>8, <1>9

LEMMA NotEmpty ==
  ASSUME NEW f, Len(f) \in Nat \ {0}
  PROVE  f # <<>>
<1>1. Len(<<>>) = 0
  OBVIOUS
<1>. QED
  BY <1>1

\* What the poller has of a response, and what the validation said of it.
Received(r) ==
  /\ records = IF Fetched(r) THEN Normalize(r.body) ELSE <<>>
  /\ verdict = Validate(r)

PayloadInv == \/ response = NoResponse /\ records = <<>> /\ verdict = Rejection
              \/ response \in Responses /\ Received(response)

LEMMA NoResponseHarmless ==
  ASSUME response = NoResponse, verdict = Rejection
  PROVE  TablesReadBack /\ ApprovedFieldsArrive
<1>1. ~Fetched(response)
  BY DEF NoResponse, Fetched
<1>2. ~IsObject(doc)
  BY <1>1 DEF doc, NoBody, IsObject
<1>3. ~verdict.valid
  BY DEF Rejection
<1>. QED
  BY <1>2, <1>3 DEF TablesReadBack, ApprovedFieldsArrive

\* What the cutting of an object comes to.
LEMMA ObjectCut ==
  ASSUME NEW v, v.kind = "object"
  PROVE  /\ Tabular(v.fields) => Normalize(v) = Rows(Scalars(v.fields), v.fields)
         /\ ~Tabular(v.fields) /\ TabularFields(v.fields) # {} =>
              Normalize(v) = Rows(Scalars(v.fields),
                                  v.fields[FirstTable(v.fields)].fields)
         /\ ~Tabular(v.fields) /\ TabularFields(v.fields) = {} =>
              Normalize(v) = <<v.fields>>
BY Zenon DEF Normalize, NormalizeObject

LEMMA ReadBackOnce ==
  ASSUME response \in Responses, Received(response)
  PROVE  TablesReadBack
<1>. SUFFICES ASSUME IsObject(doc)
              PROVE  LET d == doc.fields IN
                     IF TablesOf(d) = {} THEN records = <<d>>
                     ELSE \E t \in TablesOf(d) : GivesBack(t, d)
  BY DEF TablesReadBack
<1>. DEFINE v == response.body
            d == v.fields
<1>1. Fetched(response) /\ doc = v
  BY DEF doc, NoBody, IsObject
<1>2. v \in Json /\ v.kind = "object"
  BY <1>1, ResponsesAssumption DEF IsObject
<1>3. records = Normalize(v)
  BY <1>1 DEF Received
<1>4. ASSUME NEW w \in Json, w.kind = "object", Tabular(w.fields),
             records = Rows(Scalars(d), w.fields)
      PROVE  GivesBack(w.fields, d)
  <2>1. HoldColumns(records, w.fields) /\ HoldScalars(records, w.fields, Scalars(d))
    BY <1>4, TableKept
  <2>2. records # <<>>
    BY <2>1, NotEmpty DEF HoldColumns
  <2>3. ASSUME NEW k \in Columns(w.fields)
        PROVE  [i \in 1 .. Len(records) |-> records[i][k]] = w.fields[k].items
    <3>1. w.fields[k] \in Json /\ w.fields[k].kind = "list"
      BY <1>4, FieldsOf DEF Columns
    <3>2. /\ Len(w.fields[k].items) = Len(records)
          /\ \A i \in 1 .. Len(records) : records[i][k] = w.fields[k].items[i]
      BY <2>1 DEF HoldColumns
    <3>3. w.fields[k].items = [i \in 1 .. Len(records) |-> w.fields[k].items[i]]
      BY <3>1, <3>2, ItemsOf
    <3>. QED
      BY <3>2, <3>3
  <2>4. \A k \in DOMAIN Scalars(d) : Scalars(d)[k] = d[k]
    BY ScalarsOf
  <2>5. \A i \in 1 .. Len(records) :
          /\ DOMAIN records[i] = Columns(w.fields) \cup DOMAIN Scalars(d)
          /\ \A k \in DOMAIN Scalars(d) \ Columns(w.fields) : records[i][k] = d[k]
    <3>. HIDE DEF d
    <3>. QED
      BY <2>1, <2>4 DEF HoldScalars
  <2>. QED
    BY <2>2, <2>3, <2>5 DEF GivesBack
<1>5. CASE Tabular(d)
  <2>1. records = Rows(Scalars(d), d)
    BY <1>2, <1>3, <1>5, ObjectCut
  <2>2. d \in TablesOf(d)
    BY <1>5 DEF TablesOf
  <2>3. GivesBack(d, d)
    BY <1>2, <1>4, <1>5, <2>1
  <2>. QED
    BY <1>1, <2>2, <2>3
<1>6. CASE ~Tabular(d) /\ TabularFields(d) # {}
  <2>. DEFINE w == d[FirstTable(d)]
  <2>1. records = Rows(Scalars(d), w.fields)
    BY <1>2, <1>3, <1>6, ObjectCut
  <2>2. /\ w \in Json /\ w.kind = "object" /\ Tabular(w.fields)
        /\ w.fields \in TablesOf(d)
    BY <1>2, <1>6, InnerTable
  <2>. HIDE DEF w
  <2>3. GivesBack(w.fields, d)
    BY <1>4, <2>1, <2>2
  <2>. QED
    BY <1>1, <2>2, <2>3
<1>7. CASE ~Tabular(d) /\ TabularFields(d) = {}
  <2>1. records = <<d>>
    BY <1>2, <1>3, <1>7, ObjectCut
  <2>2. TablesOf(d) = {}
    BY <1>7 DEF TablesOf
  <2>. QED
    BY <1>1, <2>1, <2>2
<1>. QED
  BY <1>5, <1>6, <1>7

\* What an approval says of the response.
LEMMA Approved ==
  ASSUME response \in Responses, Received(response),
         verdict.valid, verdict.fields # <<>>
  PROVE  LET v == response.body IN
         /\ v \in Json /\ doc = v
         /\ records = Normalize(v)
         /\ verdict.fields = InferSchema(v)
         /\ v.kind = "object" \/ (/\ v.kind = "list" /\ v.items # <<>>
                                  /\ IsObject(v.items[1]))
<1>. DEFINE v == response.body
<1>1. /\ response \in [status : Nat, json : BOOLEAN, parses : BOOLEAN, body : Json]
      /\ v \in Json
  BY ResponsesAssumption
<1>2. response.status = 200 /\ response.json /\ response.parses
      /\ verdict.fields = InferSchema(v)
  BY DEF Received, Validate, Rejection
<1>3. Fetched(response)
  BY <1>2 DEF Fetched
<1>4. doc = v /\ records = Normalize(v)
  BY <1>3 DEF doc, Received
<1>5. v.kind = "object" \/ (/\ v.kind = "list" /\ v.items # <<>>
                            /\ IsObject(v.items[1]))
  BY <1>2 DEF InferSchema, IsObject
<1>. QED
  BY <1>1, <1>2, <1>4, <1>5

LEMMA ArriveOnce ==
  ASSUME response \in Responses, Received(response)
  PROVE  ApprovedFieldsArrive
<1>. SUFFICES ASSUME verdict.valid, verdict.fields # <<>>
              PROVE  /\ records # <<>>
                     /\ \/ DOMAIN records[1] = DOMAIN verdict.fields
                        \/ /\ IsObject(doc)
                           /\ Tabular(doc.fields) \/ TabularFields(doc.fields) # {}
                     /\ IsObject(doc) /\ Flat(doc.fields) =>
                          \A k \in DOMAIN verdict.fields \ IdFields :
                            (verdict.fields[k] = "numeric")
                              = (Role(k, records[1][k]) = "metric")
  BY DEF ApprovedFieldsArrive
<1>. DEFINE v == response.body
            d == v.fields
<1>1. /\ v \in Json /\ doc = v /\ records = Normalize(v)
      /\ verdict.fields = InferSchema(v)
      /\ v.kind = "object" \/ (/\ v.kind = "list" /\ v.items # <<>>
                               /\ IsObject(v.items[1]))
  BY Approved
<1>2. CASE v.kind = "list"
  <2>1. v.items \in Seq(Json) /\ v.items # <<>> /\ IsObject(v.items[1])
    BY <1>1, <1>2, ItemsOf
  <2>. DEFINE c == Cardinality(ObjectsAt(v.items))
  <2>2. ObjectAt(v.items, 1) = v.items[1] /\ c \in Nat \ {0}
    BY <2>1, FirstObjectKept
  <2>3. records = [n \in 1 .. c |-> ObjectAt(v.items, n).fields]
    BY <1>1, <1>2, Zenon DEF Normalize
  <2>. HIDE DEF c
  <2>4. Len(records) = c /\ records[1] = v.items[1].fields
    BY <2>2, <2>3
  <2>5. records # <<>>
    BY <2>2, <2>4, NotEmpty
  <2>6. DOMAIN verdict.fields = DOMAIN records[1]
    BY <1>1, <1>2, <2>1, <2>4 DEF InferSchema
  <2>7. ~IsObject(doc)
    BY <1>1, <1>2 DEF IsObject
  <2>. QED
    BY <2>5, <2>6, <2>7
<1>3. CASE v.kind = "object"
  <2>1. verdict.fields = [k \in DOMAIN d |-> InferKind(d[k])]
    BY <1>1, <1>3 DEF InferSchema, IsObject
  <2>2. CASE Tabular(d)
    <3>1. records = Rows(Scalars(d), d)
      BY <1>1, <1>3, <2>2, ObjectCut
    <3>2. records # <<>>
      BY <1>1, <1>3, <2>2, <3>1, TableKept, NotEmpty DEF HoldColumns
    <3>3. PICK k \in Columns(d) : TRUE
      BY <1>1, <1>3, <2>2, TableShape
    <3>4. ~Flat(d)
      BY <3>3 DEF Columns, Flat, Nested
    <3>. QED
      BY <1>1, <1>3, <2>2, <3>2, <3>4 DEF IsObject
  <2>3. CASE ~Tabular(d) /\ TabularFields(d) # {}
    <3>1. records = Rows(Scalars(d), d[FirstTable(d)].fields)
      BY <1>1, <1>3, <2>3, ObjectCut
    <3>2. records # <<>>
      <4>. DEFINE w == d[FirstTable(d)]
      <4>1. w \in Json /\ w.kind = "object" /\ Tabular(w.fields)
        BY <1>1, <1>3, <2>3, InnerTable
      <4>2. records = Rows(Scalars(d), w.fields)
        BY <3>1
      <4>. HIDE DEF w
      <4>. QED
        BY <4>1, <4>2, TableKept, NotEmpty DEF HoldColumns
    <3>3. ~Flat(d)
      BY <2>3 DEF TabularFields, Flat, Nested
    <3>. QED
      BY <1>1, <1>3, <2>3, <3>2, <3>3 DEF IsObject
  <2>4. CASE ~Tabular(d) /\ TabularFields(d) = {}
    <3>1. records = <<d>>
      BY <1>1, <1>3, <2>4, ObjectCut
    <3>2. records # <<>> /\ records[1] = d
      BY <3>1
    <3>3. ASSUME NEW k \in DOMAIN d \ IdFields
          PROVE  (InferKind(d[k]) = "numeric") = (Role(k, d[k]) = "metric")
      BY DEF InferKind, Role
    <3>. QED
      BY <1>1, <2>1, <3>2, <3>3
  <2>. QED
    BY <2>2, <2>3, <2>4
<1>. QED
  BY <1>1, <1>2, <1>3

LEMMA PayloadInvariance == PayloadSpec => []PayloadInv
<1>1. PayloadInit => PayloadInv
  BY DEF PayloadInit, PayloadInv
<1>2. PayloadInv /\ [PayloadNext]_payloadVars => PayloadInv'
  <2>. SUFFICES ASSUME PayloadInv, [PayloadNext]_payloadVars PROVE PayloadInv'
    OBVIOUS
  <2>1. CASE PayloadNext
    BY <2>1 DEF PayloadNext, Receive, PayloadInv, Received, doc
  <2>2. CASE UNCHANGED payloadVars
    BY <2>2 DEF PayloadInv, Received, payloadVars
  <2>. QED
    BY <2>1, <2>2
<1>. QED
  BY <1>1, <1>2, PTL DEF PayloadSpec

\* Whatever a source answers, a document with tables is cut into records that
\* give one of them back, and any other object stays whole.  What stands beside
\* that table is lost (normalize_payload, poller.py:18-52).
THEOREM TablesAreReadBack == PayloadSpec => []TablesReadBack
<1>1. PayloadInv => TablesReadBack
  BY NoResponseHarmless, ReadBackOnce DEF PayloadInv
<1>. QED
  BY <1>1, PayloadInvariance, PTL

\* Whatever a source answers, if the validation approves of it and shows
\* fields, the poller makes records with these fields of it (validate_source,
\* sources.py:47-112; normalize_payload, poller.py:14-54).
THEOREM ApprovalsHold == PayloadSpec => []ApprovedFieldsArrive
<1>1. PayloadInv => ApprovedFieldsArrive
  BY NoResponseHarmless, ArriveOnce DEF PayloadInv
<1>. QED
  BY <1>1, PayloadInvariance, PTL

-----------------------------------------------------------------------------
(* The statistics of a metric: sums. *)

\* What holds of 0 and, with a number, of the next one holds up to the bound.
LEMMA UpTo ==
  ASSUME NEW n \in Nat, NEW P, 0 \in P, \A i \in 1 .. n : i - 1 \in P => i \in P
  PROVE  0 .. n \subseteq P
<1>. SUFFICES ASSUME NEW k \in 0 .. n, k \notin P PROVE FALSE
  OBVIOUS
<1>. DEFINE S == {i \in 0 .. k : i \in P}
<1>1. k \in Nat /\ S \subseteq Nat /\ S # {} /\ \A x \in S : x <= k
  <2>1. 0 \in S
    OBVIOUS
  <2>. QED
    BY <2>1
<1>2. PICK x \in S : \A y \in S : x >= y
  <2>. HIDE DEF S
  <2>. QED
    BY <1>1, GreatestExists
<1>3. x \in 0 .. k /\ x \in P /\ x # k
  OBVIOUS
<1>4. x + 1 \in 1 .. n /\ (x + 1) - 1 = x /\ x + 1 <= k
  BY <1>3
<1>5. x + 1 \in P
  BY <1>3, <1>4
<1>6. x + 1 \in S
  BY <1>4, <1>5
<1>. QED
  BY <1>2, <1>3, <1>6

LEMMA TotalIsInt ==
  ASSUME NEW s \in Seq(Int)
  PROVE  Total(s) \in Int
<1>. DEFINE L == Len(s)
            Sums(n, f) == f = [i \in 0 .. n |-> IF i = 0 THEN 0 ELSE f[i - 1] + s[i]]
            P == {n \in 0 .. L : \E f \in [0 .. n -> Int] : Sums(n, f)}
<1>1. L \in Nat /\ \A i \in 1 .. L : s[i] \in Int
  OBVIOUS
<1>2. 0 \in P
  <2>1. [i \in 0 .. 0 |-> 0] \in [0 .. 0 -> Int] /\ Sums(0, [i \in 0 .. 0 |-> 0])
    BY <1>1
  <2>2. \E f \in [0 .. 0 -> Int] : Sums(0, f)
    <3>. HIDE DEF Sums
    <3>. QED
      BY <2>1, Zenon
  <2>. QED
    BY <1>1, <2>2
<1>3. ASSUME NEW n \in 1 .. L, n - 1 \in P PROVE n \in P
  <2>1. PICK f \in [0 .. n - 1 -> Int] : Sums(n - 1, f)
    BY <1>3
  <2>. DEFINE g == [i \in 0 .. n |-> IF i = n THEN f[n - 1] + s[n] ELSE f[i]]
  <2>2. n - 1 \in 0 .. n - 1 /\ f[n - 1] \in Int /\ s[n] \in Int
    BY <1>1
  <2>3. g \in [0 .. n -> Int]
    BY <2>2
  <2>4. \A i \in 0 .. n : g[i] = IF i = 0 THEN 0 ELSE g[i - 1] + s[i]
    <3>1. \A i \in 0 .. n - 1 : g[i] = f[i]
      OBVIOUS
    <3>2. \A i \in 0 .. n - 1 : f[i] = IF i = 0 THEN 0 ELSE f[i - 1] + s[i]
      BY <2>1
    <3>3. g[n] = g[n - 1] + s[n]
      BY <3>1, <2>2
    <3>4. ASSUME NEW i \in 0 .. n
          PROVE  g[i] = IF i = 0 THEN 0 ELSE g[i - 1] + s[i]
      <4>1. CASE i = n
        BY <3>3, <4>1
      <4>2. CASE i # n /\ i # 0
        <5>1. i \in 0 .. n - 1 /\ i - 1 \in 0 .. n - 1
          BY <4>2
        <5>. QED
          BY <3>1, <3>2, <4>2, <5>1
      <4>3. CASE i = 0
        BY <3>1, <3>2, <4>3, <2>2
      <4>. QED
        BY <4>1, <4>2, <4>3
    <3>. QED
      BY <3>4
  <2>5. Sums(n, g)
    BY <2>3, <2>4
  <2>6. n \in 0 .. L
    BY <1>1
  <2>. HIDE DEF g, Sums
  <2>. QED
    BY <2>3, <2>5, <2>6
<1>4. L \in P
  <2>1. 0 .. L \subseteq P
    <3>. HIDE DEF P
    <3>. QED
      BY <1>1, <1>2, <1>3, UpTo
  <2>. HIDE DEF P
  <2>. QED
    BY <1>1, <2>1
<1>5. \E f : Sums(L, f)
  BY <1>4
<1>. DEFINE sum == CHOOSE f : Sums(L, f)
<1>6. Sums(L, sum)
  BY <1>5
<1>7. Total(s) = sum[L]
  BY DEF Total
<1>. DEFINE Q == {n \in 0 .. L : sum[n] \in Int}
<1>8. \A n \in 0 .. L : sum[n] = IF n = 0 THEN 0 ELSE sum[n - 1] + s[n]
  <2>. HIDE DEF sum
  <2>. QED
    BY <1>6
<1>9. 0 \in Q /\ \A n \in 1 .. L : n - 1 \in Q => n \in Q
  <2>. HIDE DEF sum
  <2>. QED
    BY <1>1, <1>8
<1>10. 0 .. L \subseteq Q
  <2>. HIDE DEF Q
  <2>. QED
    BY <1>1, <1>9, UpTo
<1>. QED
  BY <1>1, <1>7, <1>10

-----------------------------------------------------------------------------
(* The statistics of a metric: the direction of the trend. *)

\* The two halves of at least four readings.
LEMMA Halves ==
  ASSUME NEW s \in Seq(Int), Len(s) >= 4
  PROVE  /\ Earlier(s) \in Seq(Int) /\ Len(Earlier(s)) \in Nat \ {0}
         /\ Later(s) \in Seq(Int) /\ Len(Later(s)) \in Nat \ {0}
<1>1. Len(s) \in Nat /\ \A i \in 1 .. Len(s) : s[i] \in Int
  OBVIOUS
<1>2. Half(s) \in Nat /\ 1 <= Half(s) /\ Half(s) + 1 <= Len(s)
  BY <1>1 DEF Half
<1>3. /\ Earlier(s) \in Seq(Int)
      /\ Len(Earlier(s)) = Half(s)
  BY <1>1, <1>2 DEF Earlier
<1>4. /\ Later(s) \in Seq(Int)
      /\ Len(Later(s)) = Len(s) - Half(s)
  BY <1>1, <1>2 DEF Later
<1>. QED
  BY <1>1, <1>2, <1>3, <1>4

LEMMA ProductSign ==
  ASSUME NEW a \in Int, NEW n \in Nat \ {0}
  PROVE  a * n \in Int /\ (a > 0 => a * n > 0) /\ (a < 0 => a * n < 0)
OBVIOUS

LEMMA TrendHonest ==
  ASSUME NEW s \in Seq(Int), Len(s) >= 4, Total(Earlier(s)) > 0
  PROVE  /\ Trend(s) = "Increasing" => Rises(s)
         /\ Trend(s) = "Decreasing" => Falls(s)
         /\ Total(Later(s)) < 0 => Trend(s) = "Decreasing"
<1>. DEFINE first == Total(Earlier(s)) * Len(Later(s))
            second == Total(Later(s)) * Len(Earlier(s))
<1>1. /\ Total(Earlier(s)) \in Int /\ Len(Earlier(s)) \in Nat \ {0}
      /\ Total(Later(s)) \in Int /\ Len(Later(s)) \in Nat \ {0}
  BY Halves, TotalIsInt
<1>2. /\ first \in Int /\ second \in Int /\ first > 0
      /\ Total(Later(s)) < 0 => second < 0
  BY <1>1, ProductSign
<1>3. Change(s) = [above |-> second - first, below |-> first]
  BY DEF Change
<1>4. Len(s) \in Nat
  OBVIOUS
<1>. HIDE DEF first, second
<1>5. ~(Len(s) < 4 \/ Total(Earlier(s)) = 0)
  BY <1>1, <1>4
<1>6. Change(s).above = second - first /\ Change(s).below = first
  BY <1>3
<1>7. Trend(s) = IF 100 * (second - first) > first THEN "Increasing"
                 ELSE IF 100 * (second - first) < -first THEN "Decreasing"
                 ELSE "Stable"
  BY <1>2, <1>5, <1>6 DEF Trend
<1>8. 100 * (second - first) > first => second - first > 0
  BY <1>2
<1>9. 100 * (second - first) < -first => second - first < 0
  BY <1>2
<1>10. second < 0 => /\ ~(100 * (second - first) > first)
                     /\ 100 * (second - first) < -first
  BY <1>2
<1>. QED
  BY <1>2, <1>6, <1>7, <1>8, <1>9, <1>10 DEF Rises, Falls

LEMMA ReadingsAreInts == ReadingsSpec => [](values \in Seq(Int))
<1>1. ReadingsInit => values \in Seq(Int)
  BY DEF ReadingsInit
<1>2. ASSUME values \in Seq(Int), NEW v \in Values, Arrive(v)
      PROVE  values' \in Seq(Int)
  <2>1. v \in Int /\ Recent \in Nat \ {0} /\ Len(values) \in Nat
    BY <1>2, ReadingsAssumption
  <2>2. CASE Len(values) < Recent
    BY <1>2, <2>1, <2>2 DEF Arrive
  <2>3. CASE ~(Len(values) < Recent)
    <3>1. values # <<>>
      BY <2>1, <2>3
    <3>2. Tail(values) \in Seq(Int)
      BY <1>2, <3>1
    <3>. QED
      BY <1>2, <2>1, <2>3, <3>2 DEF Arrive
  <2>. QED
    BY <2>2, <2>3
<1>3. values \in Seq(Int) /\ [ReadingsNext]_values => (values \in Seq(Int))'
  BY <1>2 DEF ReadingsNext
<1>. QED
  BY <1>1, <1>3, PTL DEF ReadingsSpec

\* Whatever the readings, the trend of a metric whose earlier readings are
\* positive on average has the direction of the averages (calculate_trend,
\* sources.py:224-241).
THEOREM TrendIsHonest == ReadingsSpec => []TrendFollowsAverages
<1>1. values \in Seq(Int) => TrendFollowsAverages
  BY TrendHonest DEF TrendFollowsAverages
<1>. QED
  BY <1>1, ReadingsAreInts, PTL

-----------------------------------------------------------------------------
(* The statistics of a metric: quartiles and anomalies. *)

LEMMA ReadingsFinite ==
  ASSUME NEW s \in Seq(Int)
  PROVE  /\ Len(s) \in Nat /\ DOMAIN s = 1 .. Len(s)
         /\ \A i \in DOMAIN s : s[i] \in Int
         /\ IsFiniteSet(DOMAIN s) /\ Cardinality(DOMAIN s) = Len(s)
         /\ \A S \in SUBSET DOMAIN s :
              IsFiniteSet(S) /\ Cardinality(S) \in Nat /\ Cardinality(S) <= Len(s)
<1>1. /\ Len(s) \in Nat /\ DOMAIN s = 1 .. Len(s)
      /\ \A i \in DOMAIN s : s[i] \in Int
  OBVIOUS
<1>2. IsFiniteSet(1 .. Len(s)) /\ Cardinality(1 .. Len(s)) = Len(s)
  BY <1>1, FS_Interval
<1>3. ASSUME NEW S \in SUBSET DOMAIN s
      PROVE  IsFiniteSet(S) /\ Cardinality(S) \in Nat /\ Cardinality(S) <= Len(s)
  BY <1>1, <1>2, FS_Subset, FS_CardinalityType
<1>. QED
  BY <1>1, <1>2, <1>3

\* The readings that are not after the i-th when they are sorted.
NotAfter(s, i) == {j \in DOMAIN s : s[j] < s[i] \/ (s[j] = s[i] /\ j <= i)}

\* No two readings have one place.
LEMMA PlacesDiffer ==
  ASSUME NEW s \in Seq(Int), NEW x \in DOMAIN s, NEW y \in DOMAIN s, x # y
  PROVE  Place(s, x) # Place(s, y)
<1>1. ASSUME NEW i \in DOMAIN s, NEW j \in DOMAIN s,
             s[i] < s[j] \/ (s[i] = s[j] /\ i < j)
      PROVE  Place(s, i) # Place(s, j)
  <2>1. s[i] \in Int /\ s[j] \in Int /\ i \in Nat /\ j \in Nat
    BY ReadingsFinite
  <2>2. NotAfter(s, i) \subseteq NotAfter(s, j)
    BY <1>1, <2>1, ReadingsFinite DEF NotAfter
  <2>3. j \in NotAfter(s, j) /\ j \notin NotAfter(s, i)
    BY <1>1, <2>1 DEF NotAfter
  <2>4. IsFiniteSet(NotAfter(s, j))
    BY ReadingsFinite DEF NotAfter
  <2>5. Cardinality(NotAfter(s, i)) # Cardinality(NotAfter(s, j))
    BY <2>2, <2>3, <2>4, FS_Subset
  <2>. QED
    BY <2>5 DEF Place, NotAfter
<1>2. s[x] \in Int /\ s[y] \in Int /\ x \in Nat /\ y \in Nat
  BY ReadingsFinite
<1>3. \/ s[x] < s[y] \/ (s[x] = s[y] /\ x < y)
      \/ s[y] < s[x] \/ (s[y] = s[x] /\ y < x)
  BY <1>2
<1>. QED
  BY <1>1, <1>3

\* Every place is taken: there are as many readings as places.
LEMMA PlacesTaken ==
  ASSUME NEW s \in Seq(Int), NEW k \in 1 .. Len(s)
  PROVE  \E i \in DOMAIN s : Place(s, i) = k
<1>. SUFFICES ASSUME \A i \in DOMAIN s : Place(s, i) # k PROVE FALSE
  OBVIOUS
<1>. DEFINE f == [i \in DOMAIN s |-> Place(s, i)]
            Left == (1 .. Len(s)) \ {k}
<1>1. ASSUME NEW i \in DOMAIN s PROVE Place(s, i) \in 1 .. Len(s)
  <2>1. /\ NotAfter(s, i) \in SUBSET DOMAIN s
        /\ i \in NotAfter(s, i)
    BY ReadingsFinite DEF NotAfter
  <2>2. /\ IsFiniteSet(NotAfter(s, i))
        /\ Cardinality(NotAfter(s, i)) \in Nat
        /\ Cardinality(NotAfter(s, i)) <= Len(s)
    BY <2>1, ReadingsFinite
  <2>3. Cardinality(NotAfter(s, i)) # 0
    BY <2>1, <2>2, FS_EmptySet
  <2>. QED
    BY <2>2, <2>3, ReadingsFinite DEF Place, NotAfter
<1>2. f \in [DOMAIN s -> Left]
  BY <1>1
<1>3. IsFiniteSet(Left) /\ Cardinality(Left) = Len(s) - 1
  <2>1. k \in DOMAIN s /\ Left = DOMAIN s \ {k}
    BY ReadingsFinite
  <2>. QED
    BY <2>1, ReadingsFinite, FS_RemoveElement
<1>4. /\ IsFiniteSet(DOMAIN s)
      /\ Cardinality(Left) < Cardinality(DOMAIN s)
  BY <1>3, ReadingsFinite
<1>5. \E x, y \in DOMAIN s : x # y /\ f[x] = f[y]
  <2>. HIDE DEF f, Left
  <2>. QED
    BY <1>2, <1>3, <1>4, FS_PigeonHole
<1>. QED
  BY <1>5, PlacesDiffer

\* What is k-th when the readings are sorted has the rank k - 1 among them.
LEMMA SortedByRank ==
  ASSUME NEW s \in Seq(Int), NEW k \in 1 .. Len(s)
  PROVE  Sorted(s)[k] \in Int /\ HasRank(s, Sorted(s)[k], k - 1)
<1>. DEFINE i == CHOOSE i \in DOMAIN s : Place(s, i) = k
            v == s[i]
<1>1. i \in DOMAIN s /\ Place(s, i) = k
  BY PlacesTaken
<1>2. k \in DOMAIN s
  BY ReadingsFinite
<1>3. Sorted(s)[k] = v
  BY <1>2 DEF Sorted
<1>. HIDE DEF i
<1>. DEFINE Below == {j \in DOMAIN s : s[j] < v}
            UpToIt == {j \in DOMAIN s : s[j] <= v}
<1>4. v \in Int /\ \A j \in DOMAIN s : s[j] \in Int
  BY <1>1, ReadingsFinite
<1>5. Below \subseteq NotAfter(s, i) \ {i}
  BY <1>4 DEF NotAfter
<1>6. NotAfter(s, i) \subseteq UpToIt
  BY <1>4 DEF NotAfter
<1>7. Cardinality(NotAfter(s, i)) = k
  BY <1>1 DEF Place, NotAfter
<1>8. /\ IsFiniteSet(NotAfter(s, i)) /\ i \in NotAfter(s, i)
      /\ IsFiniteSet(UpToIt) /\ Cardinality(UpToIt) \in Nat
      /\ IsFiniteSet(Below) /\ Cardinality(Below) \in Nat
  BY <1>1, <1>4, ReadingsFinite DEF NotAfter
<1>9. /\ IsFiniteSet(NotAfter(s, i) \ {i})
      /\ Cardinality(NotAfter(s, i) \ {i}) = k - 1
  BY <1>7, <1>8, FS_RemoveElement
<1>. HIDE DEF Below, UpToIt
<1>10. Cardinality(Below) <= k - 1
  BY <1>5, <1>9, FS_Subset
<1>11. Cardinality(UpToIt) >= k
  BY <1>6, <1>7, <1>8, FS_Subset
<1>12. HasRank(s, v, k - 1)
  <2>1. Cardinality(UpToIt) > k - 1
    BY <1>8, <1>11
  <2>. QED
    BY <1>10, <2>1 DEF HasRank, Below, UpToIt
<1>. QED
  BY <1>3, <1>4, <1>12

\* A value of a smaller rank is not above one of a greater.
LEMMA RanksOrder ==
  ASSUME NEW s \in Seq(Int), NEW u \in Int, NEW v \in Int,
         NEW k \in Nat, NEW m \in Nat, k <= m,
         HasRank(s, u, k), HasRank(s, v, m)
  PROVE  u <= v
<1>. SUFFICES ASSUME v < u PROVE FALSE
  OBVIOUS
<1>. DEFINE UpToV == {j \in DOMAIN s : s[j] <= v}
            BelowU == {j \in DOMAIN s : s[j] < u}
<1>1. UpToV \subseteq BelowU
  BY ReadingsFinite
<1>2. /\ IsFiniteSet(BelowU) /\ Cardinality(BelowU) \in Nat
      /\ IsFiniteSet(UpToV) /\ Cardinality(UpToV) \in Nat
  BY ReadingsFinite
<1>3. Cardinality(UpToV) > m /\ Cardinality(BelowU) <= k
  BY DEF HasRank
<1>. HIDE DEF UpToV, BelowU
<1>4. Cardinality(UpToV) <= Cardinality(BelowU)
  BY <1>1, <1>2, FS_Subset
<1>. QED
  BY <1>2, <1>3, <1>4

LEMMA QuarterPlaces ==
  ASSUME NEW n \in Nat, n >= 4
  PROVE  /\ n \div 4 \in Nat /\ (3 * n) \div 4 \in Nat
         /\ n \div 4 <= (3 * n) \div 4
         /\ (n \div 4) + 1 \in 1 .. n /\ ((3 * n) \div 4) + 1 \in 1 .. n
OBVIOUS

\* Values u and v of the ranks k and m: no more than k readings are below the
\* one, and no more than what is left of them above the other.
LEMMA OutlyingFew ==
  ASSUME NEW s \in Seq(Int), NEW q, q.q1 \in Int, q.q3 \in Int,
         NEW k \in Nat, NEW m \in Nat, k <= m,
         HasRank(s, q.q1, k), HasRank(s, q.q3, m)
  PROVE  Cardinality({i \in DOMAIN s : Outlying(s[i], q)}) <= k + (Len(s) - 1 - m)
<1>. DEFINE Out == {i \in DOMAIN s : Outlying(s[i], q)}
            Low == {i \in DOMAIN s : s[i] < q.q1}
            Rest == {i \in DOMAIN s : s[i] <= q.q3}
            High == DOMAIN s \ Rest
<1>1. q.q1 <= q.q3
  BY RanksOrder
<1>2. Out \subseteq Low \cup High
  <2>1. ASSUME NEW x \in Int, Outlying(x, q) PROVE x < q.q1 \/ ~(x <= q.q3)
    BY <1>1, <2>1 DEF Outlying
  <2>. QED
    BY <2>1, ReadingsFinite
<1>3. Cardinality(Low) <= k /\ Cardinality(Rest) > m
  BY DEF HasRank
<1>4. /\ IsFiniteSet(Low) /\ Cardinality(Low) \in Nat
      /\ IsFiniteSet(Rest) /\ Cardinality(Rest) \in Nat
      /\ IsFiniteSet(High) /\ Cardinality(High) \in Nat
      /\ IsFiniteSet(Out) /\ Cardinality(Out) \in Nat
      /\ Rest \subseteq DOMAIN s /\ Low \in SUBSET DOMAIN s
  BY ReadingsFinite
<1>. HIDE DEF Out, Low, Rest
<1>5. Cardinality(High) = Len(s) - Cardinality(Rest)
  <2>1. DOMAIN s \cap Rest = Rest
    BY <1>4
  <2>2. IsFiniteSet(DOMAIN s) /\ Cardinality(DOMAIN s) = Len(s)
    BY ReadingsFinite
  <2>3. Cardinality(High) = Cardinality(DOMAIN s) - Cardinality(DOMAIN s \cap Rest)
    BY <2>2, FS_Difference
  <2>. QED
    BY <2>1, <2>2, <2>3
<1>. HIDE DEF High
<1>6. /\ IsFiniteSet(Low \cup High)
      /\ Cardinality(Low \cup High) = Cardinality(Low) + Cardinality(High)
                                      - Cardinality(Low \cap High)
      /\ Cardinality(Low \cap High) \in Nat
  BY <1>4, FS_Union, FS_Intersection, FS_CardinalityType
<1>7. Cardinality(Out) <= Cardinality(Low \cup High)
  BY <1>2, <1>6, FS_Subset
<1>8. Cardinality(Out) <= k + (Len(s) - 1 - m)
  BY <1>3, <1>4, <1>5, <1>6, <1>7, ReadingsFinite
<1>. QED
  BY <1>8 DEF Out

LEMMA ByRank ==
  ASSUME values \in Seq(Int)
  PROVE  AnomaliesByRank
<1>. DEFINE n == Len(values)
            q == Quartiles(values)
<1>1. n \in Nat
  BY ReadingsFinite
<1>2. CASE n < 4
  BY <1>2 DEF AnomaliesByRank, Anomalies
<1>3. CASE ~(n < 4)
  <2>1. /\ n \div 4 \in Nat /\ (3 * n) \div 4 \in Nat
        /\ n \div 4 <= (3 * n) \div 4
        /\ (n \div 4) + 1 \in 1 .. n /\ ((3 * n) \div 4) + 1 \in 1 .. n
    BY <1>1, <1>3, QuarterPlaces
  <2>2. /\ q.q1 = Sorted(values)[(n \div 4) + 1]
        /\ q.q3 = Sorted(values)[((3 * n) \div 4) + 1]
    BY DEF Quartiles
  <2>3. /\ ((n \div 4) + 1) - 1 = n \div 4
        /\ (((3 * n) \div 4) + 1) - 1 = (3 * n) \div 4
    BY <2>1
  <2>4. q.q1 \in Int /\ HasRank(values, q.q1, n \div 4)
    BY <2>1, <2>2, <2>3, SortedByRank
  <2>5. q.q3 \in Int /\ HasRank(values, q.q3, (3 * n) \div 4)
    BY <2>1, <2>2, <2>3, SortedByRank
  <2>6. Anomalies(values) = Cardinality({i \in DOMAIN values : Outlying(values[i], q)})
    BY <1>3 DEF Anomalies
  <2>. HIDE DEF q
  <2>7. Anomalies(values) <= (n \div 4) + (n - 1 - ((3 * n) \div 4))
    BY <2>1, <2>4, <2>5, <2>6, OutlyingFew
  <2>. QED
    BY <1>3, <2>4, <2>5, <2>7 DEF AnomaliesByRank, q
<1>. QED
  BY <1>2, <1>3

\* Whatever the readings and their order, the quartiles have the ranks the
\* definition asks for, and fewer than half of the readings are anomalies
\* (calculate_iqr_anomalies, sources.py:204-219).
THEOREM AnomaliesAreFew == ReadingsSpec => []AnomaliesByRank
<1>1. values \in Seq(Int) => AnomaliesByRank
  BY ByRank
<1>. QED
  BY <1>1, ReadingsAreInts, PTL
=============================================================================
