------------------------------ MODULE Streaming ------------------------------
(***************************************************************************)
(* The processing application of services/processing/app/main.py: the      *)
(* streaming queries it starts over the raw topics, their checkpoints, and *)
(* the MinIO directories and PostgreSQL tables they write.                 *)
(*                                                                         *)
(* Every topic the subscription matches is one log here, in append order:  *)
(* a micro-batch reads each topic up to its latest offset, so what has     *)
(* been planned is always a prefix of that order.  A position in the log   *)
(* stands for the topic, partition and offset of a message.  A topic has   *)
(* one partition (sources.py:165), which all copies of an event share, so  *)
(* a batch meets them in this order too.                                   *)
(*                                                                         *)
(* Spark runs a micro-batch in three durable steps, and the driver may     *)
(* die between any two of them:                                            *)
(*   Plan    the end offset goes to the offset log of the checkpoint;      *)
(*   a sink  step, which writes the rows of the batch;                     *)
(*   Commit  the batch id goes to the commit log, and the new version of   *)
(*           the state store becomes the current one.                      *)
(* A batch that is planned and not committed when the driver starts runs   *)
(* again, over the same offsets and from the same state.                   *)
(***************************************************************************)
EXTENDS DataQuality, Sequences, FiniteSets

CONSTANTS
  Events,        \* the events producers may send
  Queries,       \* the queries under study, of the six the program starts
  WindowLength,  \* 5 minutes, in units of Times
  EventDelay,    \* the watermark delay on event time: 10 minutes
  IngestDelay,   \* the watermark delay on ingested_ts: 5 minutes
  MaxEvents,     \* bound on the length of the log
  MaxCrashes,    \* bound on the number of times the driver is killed
  MaxOutages     \* bound on the number of PostgreSQL outages

FileQueries  == {"raw", "quarantine", "parquet"}
TableQueries == {"postgres", "aggregates", "metrics"}
DedupQueries == {"parquet", "aggregates"}
Stateful     == {"parquet", "aggregates", "metrics"}

ASSUME QueriesAssumption == Queries \subseteq FileQueries \cup TableQueries
ASSUME EventsAssumption == Events \subseteq EventSpace
ASSUME LengthsAssumption == /\ WindowLength \in Nat \ {0}
                            /\ EventDelay \in Nat
                            /\ IngestDelay \in Nat
ASSUME BoundsAssumption == /\ MaxEvents \in Nat
                           /\ MaxCrashes \in Nat
                           /\ MaxOutages \in Nat

VARIABLES
  log,            \* Kafka: the events, in append order
  app,            \* the driver process: "up" or "down"
  postgres,       \* whether PostgreSQL accepts connections
  crashes,        \* how often the driver was killed (a bound)
  outages,        \* how often PostgreSQL went down (a bound)
  version,        \* main.py: query -> the version in its checkpoint path
  offsetLog,      \* checkpoint: query -> the end offset of every planned batch
  commitLog,      \* checkpoint: query -> how many batches are committed
  seen,           \* checkpoint: query -> ids in the state of dropDuplicates
  windowCount,    \* checkpoint: state of the windowed count, 0 when absent
  metricState,    \* checkpoint: state of the quality metrics
  lastExecution,  \* driver memory: query -> how far its last batch got
  files,          \* MinIO: query -> the rows of each batch in its manifest
  records,        \* PostgreSQL: processed_records
  aggregates,     \* PostgreSQL: telemetry_aggregates
  metrics,        \* PostgreSQL: data_quality_metrics
  landed          \* history: query -> the last batch whose upsert committed

driver      == <<app, lastExecution>>
environment == <<log, postgres, crashes, outages>>
checkpoint  == <<version, offsetLog, commitLog, seen, windowCount, metricState>>
tables      == <<records, aggregates, metrics, landed>>
vars == <<log, app, postgres, crashes, outages, version, offsetLog, commitLog,
          seen, windowCount, metricState, lastExecution, files, records,
          aggregates, metrics, landed>>

-----------------------------------------------------------------------------
(* Windows, groups and counts. *)

WindowOf(t) == t \div WindowLength
WindowStart(w) == w * WindowLength
WindowEnd(w) == (w + 1) * WindowLength
Windows == {WindowOf(t) : t \in Times}

\* A group of the two GROUP BYs: a window and a source, which may be NULL.
Groups == [window : Windows, source : Sources \cup {Null}]

GroupAt(e, t) == [window |-> WindowOf(t), source |-> e.source]

\* A row that is not in the table, and counters that are not in the state.
NoRow == [inserted |-> 0, updated |-> 0, processed_at |-> 0]
NoTally == [total |-> 0, valid |-> 0, invalid |-> 0, nulls |-> 0, ranges |-> 0]

\* The five aggregates of the quality metrics over a set of positions.
Tally(rows) ==
  [total   |-> Cardinality(rows),
   valid   |-> Cardinality({p \in rows : Accepted(log[p])}),
   invalid |-> Cardinality({p \in rows : Quarantined(log[p])}),
   nulls   |-> Cardinality({p \in rows : NullViolation(log[p]) = "true"}),
   ranges  |-> Cardinality({p \in rows : RangeViolation(log[p]) = "true"})]

Plus(s, t) == [f \in {"total", "valid", "invalid", "nulls", "ranges"} |->
                 s[f] + t[f]]

-----------------------------------------------------------------------------
(* Batches and watermarks. *)

\* The offset where batch b of query q ends; batch 1 starts after offset 0.
End(q, b) == IF b < 1 THEN 0 ELSE offsetLog[q][b]

Batch(q, b) == (End(q, b - 1) + 1) .. End(q, b)

Committed(q) == End(q, commitLog[q])

\* The batch that is planned and not committed, if there is one.
Pending(q) == commitLog[q] + 1
InFlight(q) == Len(offsetLog[q]) = Pending(q)

IngestedTs(e) == IF e.ingested_at = "timestamp" THEN e.ingested_ts ELSE Null

\* The time an event gives to the watermark of q, NULL when it gives none:
\* the metrics read every event, the others only those that passed the rules.
WatermarkTime(q, e) == IF q = "metrics" THEN IngestedTs(e)
                       ELSE IF Accepted(e) THEN EventTime(e)
                       ELSE Null

Delay(q) == IF q = "metrics" THEN IngestDelay ELSE EventDelay

\* The watermark of batch b, computed from the batches before it, is t or
\* more.  Spark keeps it in the offset log beside the end offset; being a
\* function of the offsets, it needs no variable.
Reached(q, b, t) ==
  \E p \in 1 .. End(q, b - 1) :
    LET u == WatermarkTime(q, log[p]) IN u # Null /\ u - Delay(q) >= t

\* The last committed batch moved the watermark.
Advanced(q) ==
  LET c == commitLog[q]
  IN \E p \in Batch(q, c) :
       /\ WatermarkTime(q, log[p]) # Null
       /\ \A r \in 1 .. End(q, c - 1) :
            WatermarkTime(q, log[r]) # Null =>
              WatermarkTime(q, log[r]) < WatermarkTime(q, log[p])

\* Late rows are judged by the watermark of the previous batch.
LateEvent(q, b, e) == /\ EventTime(e) # Null
                      /\ Reached(q, b - 1, EventTime(e))

-----------------------------------------------------------------------------
(* The rows a batch hands to its sink. *)

\* dropDuplicates(["event_id"]) after the watermark: the first copy in the
\* batch of every event that is not late and whose id was never seen.
Fresh(q, b) ==
  LET candidates == {p \in Batch(q, b) : /\ Accepted(log[p])
                                         /\ ~LateEvent(q, b, log[p])
                                         /\ log[p].event_id \notin seen[q]}
  IN {p \in candidates : \A r \in candidates :
        r < p => log[r].event_id # log[p].event_id}

FileRows(q, b) ==
  CASE q = "raw"        -> Batch(q, b)
    [] q = "quarantine" -> {p \in Batch(q, b) : Quarantined(log[p])}
    [] q = "parquet"    -> Fresh(q, b)

\* Mutation: the last copy of each id in the batch wins.
LastCopies(b) ==
  LET valid == {p \in Batch("postgres", b) : Accepted(log[p])}
  IN {p \in valid : \A r \in valid :
        r > p => log[r].event_id # log[p].event_id}

\* upsert_postgres_records keeps the first copy of each id in the batch.
FirstCopies(b) ==
  LET valid == {p \in Batch("postgres", b) : Accepted(log[p])}
  IN {p \in valid : \A r \in valid :
        r < p => log[r].event_id # log[p].event_id}

\* The fresh events of a batch of the aggregates, by group.
CountedIn(g, b) ==
  {p \in Fresh("aggregates", b) :
     /\ EventTime(log[p]) # Null
     /\ GroupAt(log[p], EventTime(log[p])) = g}

\* Mutation: late rows are kept, although their window has lost its state.
MeasuredWithLateRows(g, b) ==
  {p \in Batch("metrics", b) :
     /\ IngestedTs(log[p]) # Null
     /\ GroupAt(log[p], IngestedTs(log[p])) = g}

\* The events of a batch of the metrics, by group, without the late ones.
MeasuredIn(g, b) ==
  {p \in Batch("metrics", b) :
     /\ IngestedTs(log[p]) # Null
     /\ GroupAt(log[p], IngestedTs(log[p])) = g
     /\ ~Reached("metrics", b - 1, WindowEnd(g.window))}

\* Output mode "update": the groups whose state the batch changes.
CountedGroups(b) == {g \in Groups : CountedIn(g, b) # {}}
MeasuredGroups(b) == {g \in Groups : MeasuredIn(g, b) # {}}

CountAfter(g, b) == windowCount[g] + Cardinality(CountedIn(g, b))
TallyAfter(g, b) == Plus(metricState[g], Tally(MeasuredIn(g, b)))

\* The rows an upsert sends to PostgreSQL, and whether its constraints
\* allow every one of them.
RowsFor(q) == CASE q = "postgres"   -> FirstCopies(Pending(q))
                [] q = "aggregates" -> CountedGroups(Pending(q))
                [] q = "metrics"    -> MeasuredGroups(Pending(q))

RowsAllowed(q) ==
  CASE q = "postgres"   -> \A p \in RowsFor(q) : RecordRowAllowed(log[p])
    [] OTHER            -> \A g \in RowsFor(q) : SourceAllowed(g.source)

-----------------------------------------------------------------------------
Init ==
  /\ log = <<>>
  /\ app = "up"
  /\ postgres = TRUE
  /\ crashes = 0
  /\ outages = 0
  /\ version = [q \in Queries |-> 1]
  /\ offsetLog = [q \in Queries |-> <<>>]
  /\ commitLog = [q \in Queries |-> 0]
  /\ seen = [q \in DedupQueries |-> {}]
  /\ windowCount = [g \in Groups |-> 0]
  /\ metricState = [g \in Groups |-> NoTally]
  /\ lastExecution = [q \in Queries |-> "none"]
  /\ files = [q \in FileQueries |-> <<>>]
  /\ records = [i \in EventIds |-> NoRow]
  /\ aggregates = [g \in Groups |-> 0]
  /\ metrics = [g \in Groups |-> NoTally]
  /\ landed = [q \in TableQueries |-> 0]

\* A producer's message reaches its topic.
Produce(e) ==
  /\ Len(log) < MaxEvents
  /\ log' = Append(log, e)
  /\ UNCHANGED <<postgres, crashes, outages, driver, checkpoint, files, tables>>

\* Mutation: the next batch is planned over one that is still to be committed.
PlanOverInFlight(q) ==
  /\ app = "up"
  /\ IF Len(offsetLog[q]) = 0 THEN log # <<>>
     ELSE Len(log) > offsetLog[q][Len(offsetLog[q])]
  /\ offsetLog' = [offsetLog EXCEPT ![q] = Append(@, Len(log))]
  /\ commitLog' = [commitLog EXCEPT ![q] = Len(offsetLog[q])]
  /\ UNCHANGED <<environment, driver, version, seen, windowCount, metricState,
                 files, tables>>

\* The next micro-batch: everything up to the latest offsets, or no data at
\* all when the batch before it moved the watermark of a stateful query.
Plan(q) ==
  /\ app = "up"
  /\ ~InFlight(q)
  /\ \/ Len(log) > Committed(q)
     \/ q \in Stateful /\ lastExecution[q] = "done" /\ Advanced(q)
  /\ offsetLog' = [offsetLog EXCEPT ![q] = Append(@, Len(log))]
  /\ UNCHANGED <<environment, driver, version, commitLog, seen, windowCount,
                 metricState, files, tables>>

\* The batch in flight has not been through its sink since the driver started.
Runnable(q) == app = "up" /\ InFlight(q) /\ lastExecution[q] # "sunk"

\* Mutation: no manifest, so a batch that runs again writes its files again.
WriteFilesAgain(q) ==
  /\ Runnable(q)
  /\ files' = [files EXCEPT ![q] = Append(@, FileRows(q, Pending(q)))]
  /\ lastExecution' = [lastExecution EXCEPT ![q] = "sunk"]
  /\ UNCHANGED <<environment, app, checkpoint, tables>>

\* The parquet sinks.  A batch that is in the manifest already is skipped.
WriteFiles(q) ==
  /\ Runnable(q)
  /\ files' = IF Pending(q) > Len(files[q])
              THEN [files EXCEPT ![q] = Append(@, FileRows(q, Pending(q)))]
              ELSE files
  /\ lastExecution' = [lastExecution EXCEPT ![q] = "sunk"]
  /\ UNCHANGED <<environment, app, checkpoint, tables>>

\* An upsert gets through: with no row there is no connection to make.
Upserts(q) ==
  /\ Runnable(q)
  /\ RowsFor(q) # {} => postgres /\ RowsAllowed(q)
  /\ lastExecution' = [lastExecution EXCEPT ![q] = "sunk"]
  /\ landed' = [landed EXCEPT ![q] = Pending(q)]
  /\ UNCHANGED <<environment, app, checkpoint, files>>

\* upsert_postgres_records: a new id is inserted whole, a known one gets the
\* readings, the payload and processed_at of the copy in this batch.
\* processed_at is the time of the batch, which a re-run reads back from the
\* offset log: the number of the batch stands for it.
UpsertRecords ==
  /\ Upserts("postgres")
  /\ records' =
       [i \in EventIds |->
          IF \E p \in RowsFor("postgres") : log[p].event_id = i
          THEN LET p == CHOOSE p \in RowsFor("postgres") : log[p].event_id = i
               IN [inserted     |-> IF records[i] = NoRow THEN p
                                    ELSE records[i].inserted,
                   updated      |-> p,
                   processed_at |-> Pending("postgres")]
          ELSE records[i]]
  /\ UNCHANGED <<aggregates, metrics>>

\* Mutation: DO UPDATE adds the batch to the row instead of replacing it.
UpsertAggregatesByAdding ==
  /\ Upserts("aggregates")
  /\ aggregates' =
       [g \in Groups |-> aggregates[g] + Cardinality(CountedIn(g, Pending("aggregates")))]
  /\ UNCHANGED <<records, metrics>>

\* upsert_postgres_aggregates: the groups the batch changed are overwritten.
UpsertAggregates ==
  /\ Upserts("aggregates")
  /\ aggregates' =
       [g \in Groups |-> IF g \in RowsFor("aggregates")
                         THEN CountAfter(g, Pending("aggregates"))
                         ELSE aggregates[g]]
  /\ UNCHANGED <<records, metrics>>

\* Mutation: the counts of the batch alone overwrite the row.
UpsertMetricsOfBatch ==
  /\ Upserts("metrics")
  /\ metrics' =
       [g \in Groups |-> IF g \in RowsFor("metrics")
                         THEN Tally(MeasuredIn(g, Pending("metrics")))
                         ELSE metrics[g]]
  /\ UNCHANGED <<records, aggregates>>

\* upsert_postgres_metrics, likewise.
UpsertMetrics ==
  /\ Upserts("metrics")
  /\ metrics' =
       [g \in Groups |-> IF g \in RowsFor("metrics")
                         THEN TallyAfter(g, Pending("metrics"))
                         ELSE metrics[g]]
  /\ UNCHANGED <<records, aggregates>>

RunBatch(q) == \/ q \in FileQueries /\ WriteFiles(q)
               \/ q = "postgres" /\ UpsertRecords
               \/ q = "aggregates" /\ UpsertAggregates
               \/ q = "metrics" /\ UpsertMetrics

\* An upsert raises: the query fails, awaitAnyTermination returns the failure
\* and the driver exits, with it every other query.
UpsertFails(q) ==
  /\ q \in TableQueries
  /\ Runnable(q)
  /\ RowsFor(q) # {}
  /\ ~(postgres /\ RowsAllowed(q))
  /\ app' = "down"
  /\ lastExecution' = [r \in Queries |-> "none"]
  /\ UNCHANGED <<environment, checkpoint, files, tables>>

\* Mutation: the state keeps the ids of the last batch only.
SeenInBatch(q) == {log[p].event_id : p \in Fresh(q, Pending(q))}

\* The state of dropDuplicates after the batch.  Nothing ever leaves it: the
\* watermark column is not one of its keys.
SeenAfter(q) == seen[q] \cup {log[p].event_id : p \in Fresh(q, Pending(q))}

\* A window leaves the state when the watermark passes its end.
Evicted(q, g) == Reached(q, Pending(q), WindowEnd(g.window))

\* Mutation: the commit log is written whether or not the sink was.
CommitBeforeSink(q) ==
  /\ app = "up"
  /\ InFlight(q)
  /\ commitLog' = [commitLog EXCEPT ![q] = Pending(q)]
  /\ lastExecution' = [lastExecution EXCEPT ![q] = "done"]
  /\ UNCHANGED <<environment, app, version, offsetLog, seen, windowCount,
                 metricState, files, tables>>

\* Mutation: the batch is committed, the new version of its state is not.
CommitWithoutState(q) ==
  /\ app = "up"
  /\ lastExecution[q] = "sunk"
  /\ commitLog' = [commitLog EXCEPT ![q] = Pending(q)]
  /\ lastExecution' = [lastExecution EXCEPT ![q] = "done"]
  /\ UNCHANGED <<environment, app, version, offsetLog, seen, windowCount,
                 metricState, files, tables>>

\* The batch is done, and the state it computed is the state of the next one.
Commit(q) ==
  /\ app = "up"
  /\ lastExecution[q] = "sunk"
  /\ commitLog' = [commitLog EXCEPT ![q] = Pending(q)]
  /\ lastExecution' = [lastExecution EXCEPT ![q] = "done"]
  /\ seen' = IF q \in DedupQueries THEN [seen EXCEPT ![q] = SeenAfter(q)]
             ELSE seen
  /\ windowCount' =
       IF q = "aggregates"
       THEN [g \in Groups |-> IF Evicted(q, g) THEN 0
                              ELSE CountAfter(g, Pending(q))]
       ELSE windowCount
  /\ metricState' =
       IF q = "metrics"
       THEN [g \in Groups |-> IF Evicted(q, g) THEN NoTally
                              ELSE TallyAfter(g, Pending(q))]
       ELSE metricState
  /\ UNCHANGED <<environment, app, version, offsetLog, files, tables>>

\* The driver dies, from outside or because MinIO failed one of its queries.
Crash ==
  /\ app = "up"
  /\ crashes < MaxCrashes
  /\ crashes' = crashes + 1
  /\ app' = "down"
  /\ lastExecution' = [q \in Queries |-> "none"]
  /\ UNCHANGED <<log, postgres, outages, checkpoint, files, tables>>

\* Somebody starts the container again.
Restart ==
  /\ app = "down"
  /\ app' = "up"
  /\ UNCHANGED <<environment, checkpoint, lastExecution, files, tables>>

PostgresDown ==
  /\ postgres
  /\ outages < MaxOutages
  /\ outages' = outages + 1
  /\ postgres' = FALSE
  /\ UNCHANGED <<log, crashes, driver, checkpoint, files, tables>>

PostgresUp ==
  /\ ~postgres
  /\ postgres' = TRUE
  /\ UNCHANGED <<log, crashes, outages, driver, checkpoint, files, tables>>

Next == \/ \E e \in Events : Produce(e)
        \/ \E q \in Queries : \/ Plan(q)
                              \/ RunBatch(q)
                              \/ UpsertFails(q)
                              \/ Commit(q)
        \/ Crash
        \/ Restart
        \/ PostgresDown
        \/ PostgresUp

Spec == Init /\ [][Next]_vars
=============================================================================
