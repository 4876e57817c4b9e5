---------------------------- MODULE QualityGate ----------------------------
(***************************************************************************)
(* The quality job (dags/streamo_data_quality.py), which checks the        *)
(* freshness and the quality rate every quarter of an hour, and the        *)
(* maintenance job (dags/streamo_maintenance.py), which deletes old        *)
(* records, beside the queries that write the tables.                      *)
(***************************************************************************)
EXTENDS SqlLogic, Integers, FiniteSets

CONSTANTS RecordIds,   \* event ids
          Fresh,       \* fifteen minutes
          Period,      \* of the quality job, fifteen minutes as well
          RetryDelay,  \* five minutes
          Retention,   \* seven days
          Day,
          Skews,       \* how far an event's timestamp may be from the clock
          MaxTime      \* bound: the clock

ASSUME GateAssumption ==
  /\ Null \notin Int
  /\ Fresh \in Nat /\ Period \in Nat \ {0} /\ RetryDelay \in Nat
  /\ Retention \in Nat /\ Day \in Nat \ {0}
  /\ Skews \subseteq Int /\ MaxTime \in Nat

VARIABLES
  now,
  rows,        \* processed_records: the row of each id, or Null
  mockRate,    \* the quality rate of the source 'mock'; Null: no metrics
  gate,        \* the latest run of the quality job
  purgeDue,    \* the maintenance job is scheduled
  processedAt  \* auxiliary: when a record was last processed

gateVars == <<now, rows, mockRate, gate, purgeDue, processedAt>>

Rates == {"high", "low"}
Recorded == {i \in RecordIds : rows[i] # Null}

GateInit == /\ now = 0
            /\ rows = [i \in RecordIds |-> Null]
            /\ mockRate = Null
            /\ gate = [check |-> "quality", status |-> "passed", attempt |-> 1, at |-> -1]
            /\ purgeDue = FALSE
            /\ processedAt = Null

\* A record is processed: inserted, or written again.
Process(i, skew) ==
  /\ rows' = [rows EXCEPT ![i] =
                [at |-> now, event |-> IF @ = Null THEN now + skew ELSE @.event]]
  /\ processedAt' = now
  /\ UNCHANGED <<now, mockRate, gate, purgeDue>>

Measure(rate) ==
  /\ mockRate' = rate
  /\ UNCHANGED <<now, rows, gate, purgeDue, processedAt>>

\* What is due holds the clock up: tasks are short, and the scheduler starts
\* them in time.
RetryDue == gate.status = "retry" /\ now >= gate.at + RetryDelay
Pending == gate.status = "due" \/ RetryDue

Tick ==
  /\ now < MaxTime /\ ~Pending
  /\ now' = now + 1
  /\ gate' = IF (now + 1) % Period = 0
             THEN [check |-> "freshness", status |-> "due", attempt |-> 1, at |-> now + 1]
             ELSE gate
  /\ purgeDue' = (purgeDue \/ (now + 1) % Day = 0)
  /\ UNCHANGED <<rows, mockRate, processedAt>>

-----------------------------------------------------------------------------
(* check_freshness and check_quality_rate. *)

\* Mutation: the latest event instead of the latest processing.
LatestEvent == IF Recorded = {} THEN Null
               ELSE rows[CHOOSE i \in Recorded : \A j \in Recorded :
                           rows[i].event >= rows[j].event].event

\* SELECT MAX(processed_at).
Latest == IF Recorded = {} THEN Null
          ELSE rows[CHOOSE i \in Recorded : \A j \in Recorded :
                      rows[i].at >= rows[j].at].at

\* IF NULL < ... raises nothing.
Stale == Latest # Null /\ Latest < now - Fresh

\* Only the source 'mock' is looked at; without metrics the check passes.
Breached(check) == IF check = "freshness" THEN Stale ELSE mockRate = "low"

Outcome(status) == [gate EXCEPT !.status = status, !.at = now]
QualityNext == [check |-> "quality", status |-> "due", attempt |-> 1, at |-> now]

\* Mutation: the quality is checked whatever became of the freshness.
CheckRegardless ==
  /\ gate.status = "due"
  /\ gate' = IF gate.check = "freshness" THEN QualityNext
             ELSE IF Breached("quality") THEN Outcome("failed")
             ELSE Outcome("passed")
  /\ UNCHANGED <<now, rows, mockRate, purgeDue, processedAt>>

\* A task that fails is tried once more, after a pause; one that passes is
\* followed by the next.
Check ==
  /\ gate.status = "due"
  /\ gate' = IF Breached(gate.check)
             THEN Outcome(IF gate.attempt = 1 THEN "retry" ELSE "failed")
             ELSE IF gate.check = "freshness" THEN QualityNext
             ELSE Outcome("passed")
  /\ UNCHANGED <<now, rows, mockRate, purgeDue, processedAt>>

Retry ==
  /\ RetryDue
  /\ gate' = [gate EXCEPT !.status = "due", !.attempt = 2]
  /\ UNCHANGED <<now, rows, mockRate, purgeDue, processedAt>>

-----------------------------------------------------------------------------
\* purge_old_records goes by the time of the event.
PurgeOldRecords ==
  /\ purgeDue
  /\ rows' = [i \in RecordIds |-> IF i \in Recorded /\ rows[i].event < now - Retention
                            THEN Null ELSE rows[i]]
  /\ purgeDue' = FALSE
  /\ UNCHANGED <<now, mockRate, gate, processedAt>>

GateNext == \/ Tick
            \/ \E i \in RecordIds, skew \in Skews : Process(i, skew)
            \/ \E rate \in Rates : Measure(rate)
            \/ Check \/ Retry \/ PurgeOldRecords

GateSpec == GateInit /\ [][GateNext]_gateVars

-----------------------------------------------------------------------------
(* Properties. *)

\* The freshness check of the latest run has passed, just now.
FoundFresh == gate.check = "quality" /\ gate.status = "due" /\ gate.at = now

ProcessedWithin(limit) == processedAt # Null /\ processedAt >= now - limit

\* The check is never deceived by what is in the table: when it passes over a
\* table that has records, one was processed in the last fifteen minutes,
\* whatever their timestamps say and whatever was deleted
\* (streamo_data_quality.py:25-41, streamo_maintenance.py:25-32).
FreshMeansProcessed ==
  FoundFresh /\ gate.attempt = 1 /\ Recorded # {} => ProcessedWithin(Fresh)

\* Staleness does not stay unnoticed: once nothing has been processed for the
\* limit and a period, a run that passed is not the latest, unless the table is
\* empty; the retries of either task do not put that off
\* (streamo_data_quality.py:10-21).
StaleIsNoticed ==
  Recorded # {} /\ ~ProcessedWithin(Fresh + Period) =>
    gate.check = "freshness" \/ gate.status # "passed"
=============================================================================
