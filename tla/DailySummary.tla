---------------------------- MODULE DailySummary ----------------------------
(***************************************************************************)
(* The daily aggregation job (dags/streamo_daily_aggregation.py) over the  *)
(* table of five-minute aggregates, which the streaming queries keep       *)
(* writing, and the table of summaries (postgres-init/03-airflow-tables.sql *)
(* :1-8), whose primary key is the date alone.                             *)
(***************************************************************************)
EXTENDS SqlLogic, Naturals, FiniteSets

CONSTANTS Sources,
          MaxDay,      \* bound: days
          MaxCount,    \* bound: records of one source and day
          MaxClears    \* bound: times an operator clears the task

ASSUME DailyAssumption ==
  /\ IsFiniteSet(Sources)
  /\ MaxDay \in Nat \ {0} /\ MaxCount \in Nat /\ MaxClears \in Nat

Days == 1 .. MaxDay

VARIABLES
  today,
  aggregated,   \* telemetry_aggregates, summed up by day and source
  summary,      \* daily_telemetry_summary: the row of each day, or Null
  task,         \* the task of the latest run: "due", "success", "failed"
  clears

vars == <<today, aggregated, summary, task, clears>>

Init == /\ today = 1
        /\ aggregated = [d \in Days |-> [s \in Sources |-> 0]]
        /\ summary = [d \in Days |-> Null]
        /\ task = "success"
        /\ clears = 0

\* The streaming queries: a count of today, or of a late event of yesterday,
\* goes up.  It never goes down (CountsNeverShrink of StreamingProperties).
Count(d, s) ==
  /\ d \in {today - 1, today} \cap Days
  /\ aggregated[d][s] < MaxCount
  /\ aggregated' = [aggregated EXCEPT ![d][s] = @ + 1]
  /\ UNCHANGED <<today, summary, task, clears>>

\* @daily: the run for a day is scheduled when the day is over.
Midnight ==
  /\ today < MaxDay
  /\ today' = today + 1
  /\ task' = "due"
  /\ UNCHANGED <<aggregated, summary, clears>>

\* An operator clears the task, so it runs again.
Clear ==
  /\ clears < MaxClears /\ task # "due"
  /\ clears' = clears + 1
  /\ task' = "due"
  /\ UNCHANGED <<today, aggregated, summary>>

\* The groups of the SELECT: one row for each source with windows of today,
\* whichever day the run is for.
Groups == {s \in Sources : aggregated[today][s] > 0}

RowOf(s) == [source |-> s, total |-> aggregated[today][s]]

\* A day that has a row keeps its source: ON CONFLICT sets the figures only.
Upserted(r) == [summary EXCEPT ![today] =
                  IF @ = Null THEN r ELSE [@ EXCEPT !.total = r.total]]

\* Mutation: the totals of a conflict are added up.
SummarizeByAdding ==
  /\ task = "due"
  /\ Cardinality(Groups) <= 1
  /\ \/ Groups = {} /\ UNCHANGED summary
     \/ \E s \in Groups : summary' = [summary EXCEPT ![today] =
          IF @ = Null THEN RowOf(s) ELSE [@ EXCEPT !.total = @ + RowOf(s).total]]
  /\ task' = "success"
  /\ UNCHANGED <<today, aggregated, clears>>

\* Mutation: of two sources of one date, either is taken.
SummarizeAnySource ==
  /\ task = "due"
  /\ \/ Groups = {} /\ UNCHANGED summary
     \/ \E s \in Groups : summary' = Upserted(RowOf(s))
  /\ task' = "success"
  /\ UNCHANGED <<today, aggregated, clears>>

Summarize ==
  /\ task = "due"
  /\ Cardinality(Groups) <= 1
  /\ \/ Groups = {} /\ UNCHANGED summary
     \/ \E s \in Groups : summary' = Upserted(RowOf(s))
  /\ task' = "success"
  /\ UNCHANGED <<today, aggregated, clears>>

\* Two sources have the same date: ON CONFLICT DO UPDATE would affect a row a
\* second time, which is an error.  The retries find the same.
SummarizeFails ==
  /\ task = "due"
  /\ Cardinality(Groups) > 1
  /\ task' = "failed"
  /\ UNCHANGED <<today, aggregated, summary, clears>>

Next == \/ \E d \in Days, s \in Sources : Count(d, s)
        \/ Midnight \/ Clear \/ Summarize \/ SummarizeFails

Spec == Init /\ [][Next]_vars

-----------------------------------------------------------------------------
(* Properties. *)

\* A summary never says more than the aggregates do, however often the task
\* is cleared and runs again (streamo_daily_aggregation.py:27-46).
SummaryNeverAhead ==
  \A d \in Days :
    summary[d] # Null => summary[d].total <= aggregated[d][summary[d].source]

\* Running again never lowers the total of a day nor gives the day to another
\* source, though the row is found by its date alone and its source is not
\* set again (streamo_daily_aggregation.py:40-45, 03-airflow-tables.sql:2).
SummaryOnlyGrows ==
  [][\A d \in Days :
       summary[d] # Null => /\ summary'[d].source = summary[d].source
                            /\ summary'[d].total >= summary[d].total]_vars
=============================================================================
