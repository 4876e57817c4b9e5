---------------------------- MODULE SourceFigures ----------------------------
(***************************************************************************)
(* The analytics and quality figures of one source                         *)
(* (services/control_plane/app/api/routes/sources.py:245-410).  A request   *)
(* reads the tables in several statements; at READ COMMITTED each sees what *)
(* the streaming queries and the maintenance job have committed by then.   *)
(***************************************************************************)
EXTENDS SqlLogic, Integers, Sequences, FiniteSets

CONSTANTS Ids,          \* event ids of the source
          Times,        \* event timestamps
          Limit,        \* rows the analytics look at, 500 in the code
          MaxBatches,   \* bound: micro-batches of the streaming queries
          MaxWindow     \* bound: records of one window of the metrics

\* Null is what SQL calls NULL: neither a number nor a row.
ASSUME FiguresAssumption ==
  /\ IsFiniteSet(Ids)
  /\ Limit \in Nat /\ MaxBatches \in Nat /\ MaxWindow \in Nat
  /\ Null \notin Int /\ Null \notin [at : Nat, time : Times]
  /\ Null \notin [total : Nat, valid : Nat, invalid : Nat]

VARIABLES
  processed,   \* processed_records: the row of each id, or Null
  batches,     \* batches upserted so far; processed_at is the batch's number
  window,      \* data_quality_metrics: the latest window's counters, or Null
  request,     \* the request under way with what it has read, or Null
  shown        \* the response sent last, or Null

figuresVars == <<processed, batches, window, request, shown>>
tables == <<processed, batches, window>>

Stored == {i \in Ids : processed[i] # Null}

FiguresInit == /\ processed = [i \in Ids |-> Null]
               /\ batches = 0
               /\ window = Null
               /\ request = Null
               /\ shown = Null

-----------------------------------------------------------------------------
(* What is committed meanwhile, outside of the API. *)

\* A batch inserts new ids, and writes readings and processed_at of old ones.
UpsertRecords(ids) ==
  /\ batches < MaxBatches /\ ids # {}
  /\ batches' = batches + 1
  /\ \E time \in [ids -> Times] :
       processed' = [i \in Ids |->
         IF i \in ids THEN [at   |-> batches + 1,
                            time |-> IF processed[i] = Null THEN time[i]
                                     ELSE processed[i].time]
         ELSE processed[i]]
  /\ UNCHANGED <<window, request, shown>>

NoEvents == [total |-> 0, valid |-> 0, invalid |-> 0]

\* An event that is valid, invalid or without a verdict is counted in the
\* latest window, or begins a later one, whose row is then the one that is
\* read.  (A late event changes the row of an earlier window, which is not.)
UpsertMetrics(verdict) ==
  /\ LET One(b) == IF b THEN 1 ELSE 0
         Count(w) == [total   |-> w.total + 1,
                      valid   |-> w.valid + One(verdict = "valid"),
                      invalid |-> w.invalid + One(verdict = "invalid")]
     IN \/ /\ window' = Count(NoEvents)
           /\ request' = IF request = Null THEN Null
                         ELSE [request EXCEPT !.renewed = TRUE]
        \/ /\ window # Null
           /\ window.total < MaxWindow
           /\ window' = Count(window)
           /\ UNCHANGED request
  /\ UNCHANGED <<processed, batches, shown>>

\* streamo_maintenance deletes the rows of readings before a time.
PurgeProcessed(t) ==
  /\ \E i \in Stored : processed[i].time < t
  /\ processed' = [i \in Ids |-> IF i \in Stored /\ processed[i].time < t THEN Null
                                 ELSE processed[i]]
  /\ request' = IF request = Null THEN Null ELSE [request EXCEPT !.purged = TRUE]
  /\ UNCHANGED <<batches, window, shown>>

-----------------------------------------------------------------------------
(* GET /{id}/analytics. *)

\* A result of ORDER BY processed_at ASC: rows of one batch in any order.
Ascending(s) == \A a, b \in DOMAIN s : a < b => s[a].at <= s[b].at

Enumerations(S) == {s \in [1 .. Cardinality(S) -> S] :
                      \A i \in S : \E a \in DOMAIN s : s[a] = i}

RowsOf(S) == {[a \in DOMAIN s |-> processed[s[a]]] : s \in Enumerations(S)}

\* As many rows as the limit allows.
Windowfuls == {S \in SUBSET Stored :
                 Cardinality(S) = IF Cardinality(Stored) < Limit
                                  THEN Cardinality(Stored) ELSE Limit}

\* Mutation: the limit cuts the ascending order.
OldestRows ==
  UNION {{s \in RowsOf(S) : Ascending(s)} :
           S \in {S \in Windowfuls : \A i \in S, j \in Stored \ S :
                                       processed[i].at <= processed[j].at}}

\* The inner query takes the rows processed last, the outer one reverses
\* them.  These are the results PostgreSQL may return.
LatestRows ==
  UNION {{s \in RowsOf(S) : Ascending(s)} :
           S \in {S \in Windowfuls : \A i \in S, j \in Stored \ S :
                                       processed[i].at >= processed[j].at}}

-----------------------------------------------------------------------------
(* The statements of a request, one after the other. *)

\* Mutation: the records are counted before the rows are read.
CountsFirst == <<"count", "rows", "metrics">>

\* get_source_analytics: the rows, their number, the latest quality rate.
AnalyticsReads == <<"rows", "count", "metrics">>

\* Mutation: the counters are read before the rows are counted.
MetricsFirst == <<"metrics", "count">>

\* get_source_quality: the number of rows, the latest counters.
QualityReads == <<"count", "metrics">>

\* The latest batch that has a row in the table.
NewestBatch == CHOOSE b \in 0 .. batches :
                 /\ \A i \in Stored : processed[i].at <= b
                 /\ b > 0 => \E i \in Stored : processed[i].at = b

\* What the quality page would add up now.
Invalid == IF window = Null THEN 0 ELSE window.invalid
TableTotal == Cardinality(Stored) + Invalid

\* begun, totals, purged and renewed are auxiliary: the newest batch at the
\* beginning, what the tables add up to at each statement of a count, and
\* whether rows were deleted or a window has begun since.
Ask(reads) ==
  /\ request = Null
  /\ request' = [reads |-> reads, left |-> reads, data |-> <<>>, total |-> 0,
                 window |-> Null,
                 begun |-> NewestBatch, totals |-> {},
                 purged |-> FALSE, renewed |-> FALSE]
  /\ shown' = Null
  /\ UNCHANGED tables

Reading(what) == request # Null /\ request.left # <<>> /\ Head(request.left) = what

ReadRows ==
  /\ Reading("rows")
  /\ \E data \in LatestRows :
       request' = [request EXCEPT !.left = Tail(@), !.data = data]
  /\ UNCHANGED <<tables, shown>>

CountRows ==
  /\ Reading("count")
  /\ request' = [request EXCEPT !.left = Tail(@), !.total = Cardinality(Stored),
                                !.totals = @ \cup {TableTotal}]
  /\ UNCHANGED <<tables, shown>>

ReadMetrics ==
  /\ Reading("metrics")
  /\ request' = [request EXCEPT !.left = Tail(@), !.window = window,
                                !.totals = @ \cup {TableTotal}]
  /\ UNCHANGED <<tables, shown>>

-----------------------------------------------------------------------------
(* The responses. *)

Percent(part, whole) == (100 * part) \div whole

\* A source without metrics is given 100 percent.
AnalyticsOf(r) ==
  [page    |-> "analytics",
   total   |-> r.total,
   data    |-> r.data,
   newest  |-> IF r.data = <<>> THEN Null ELSE r.data[Len(r.data)].at,
   rate    |-> IF r.window = Null THEN 100
               ELSE Percent(r.window.valid, r.window.total),
   begun   |-> r.begun,
   purged  |-> r.purged]

\* The records there are against the invalid ones of the latest window, which
\* are shown by kind as well (left out here).
QualityOf(r) ==
  LET w == IF r.window = Null THEN NoEvents ELSE r.window
      total == r.total + w.invalid
  IN [page    |-> "quality",
      total   |-> total,
      valid   |-> r.total,
      invalid |-> w.invalid,
      rate    |-> IF total = 0 THEN Null ELSE Percent(r.total, total),
      totals  |-> r.totals,
      purged  |-> r.purged,
      renewed |-> r.renewed]

Respond ==
  /\ request # Null /\ request.left = <<>>
  /\ shown' = IF request.reads = QualityReads THEN QualityOf(request)
              ELSE AnalyticsOf(request)
  /\ request' = Null
  /\ UNCHANGED tables

FiguresNext == \/ \E ids \in SUBSET Ids : UpsertRecords(ids)
               \/ \E verdict \in {"valid", "invalid", "neither"} : UpsertMetrics(verdict)
               \/ \E t \in Times : PurgeProcessed(t)
               \/ Ask(AnalyticsReads) \/ Ask(QualityReads)
               \/ ReadRows \/ CountRows \/ ReadMetrics
               \/ Respond

FiguresSpec == FiguresInit /\ [][FiguresNext]_figuresVars

-----------------------------------------------------------------------------
(* Properties. *)

Shows(page) == shown # Null /\ shown.page = page

\* The total beside the charts is never smaller than the number of records
\* in them, although batches are committed between the statements; only the
\* deletion of old rows in between can make it so (sources.py:249-271).
TotalCoversData ==
  Shows("analytics") /\ ~shown.purged => shown.total >= Len(shown.data)

\* A response is as fresh as its request: the newest record in it is of a
\* batch no older than the newest in the table when the request began, however
\* many records the limit cuts off (sources.py:249-293).
NotStale ==
  Shows("analytics") /\ shown.data # <<>> /\ ~shown.purged =>
    shown.newest >= shown.begun

\* The quality page adds the valid records of all time to the invalid ones of
\* the latest window, from two statements.  Whatever is committed between
\* them, its total is not more than the tables added up to at one of the two,
\* although the first events of a window take the invalid ones of the window
\* before out of the sum; and unless a window begins in between, it is not
\* less than at one of the two either.  Only the deletion of old rows can make
\* it so (sources.py:360-400).
QualityTotalOfAMoment ==
  Shows("quality") /\ ~shown.purged =>
    /\ \E t \in shown.totals : shown.total <= t
    /\ ~shown.renewed => \E t \in shown.totals : shown.total >= t
=============================================================================
