# A verification of Streamo

Streamo polls HTTP sources, publishes what they return to Kafka, and runs a
Spark Structured Streaming application over the topics: raw and processed
files in MinIO, serving tables in PostgreSQL, and a control plane, a dashboard,
Grafana and Airflow jobs on top of those tables.

This directory holds TLA+ modules that model it, TLC configurations that check
them on small instances, and proofs checked by TLAPS for all instances.

Paths are relative to the root of the repository. `main.py` without a path is
`services/processing/app/main.py`, `sources.py` is
`services/control_plane/app/api/routes/sources.py`, `poller.py` and its
neighbours are in `services/ingestion/app`, `app.js` is `frontend/js/app.js`,
and *the schema* is `postgres-init/02-serving-schema.sql`.

## 1. Inventory

| Component | Keeps | Does | Talks to |
|---|---|---|---|
| Source registry (`sources.py:114-202`) | table `sources` | create, start, pause, stop, list | PostgreSQL; Kafka admin (topics); the poller reads it over HTTP |
| Validation and inference (`sources.py:22-112`) | none | fetches a source once, infers a schema | source APIs |
| Poller and API client (`poller.py`, `api_client.py`) | a snapshot of the active sources | rounds of fetch, normalise, publish; retries; stop on a signal | source registry, source APIs, Kafka |
| Kafka producer (`kafka_producer.py`) | a bounded queue | delivers in the background, flushes on exit | Kafka |
| Kafka | one topic of one partition per source | append, read, truncate by retention | |
| Processing application (`main.py`) | per query: offset log, commit log, state store; the driver's memory | six streaming queries | Kafka in; MinIO and PostgreSQL out |
| Data-quality engine (`main.py:184-219`) | none | verdict of an event, routing | the constraints of the schema |
| Serving schema | `processed_records`, `telemetry_aggregates`, `data_quality_metrics` | keys and constraints | written by the queries, read by the rest |
| Analytics and quality pages (`sources.py:204-410`) | none | figures of one source, read in several statements; trend, anomalies | PostgreSQL |
| Serving API (`serving.py`) | none | paged reads | PostgreSQL |
| Scheduled jobs (`dags/`) | `daily_telemetry_summary`; Airflow's task states | daily summary, freshness and quality gates, purge | PostgreSQL |
| Dashboard (`app.js`) | selected source, view, timers, what is on screen | navigation, polling, source operations | control plane |

What makes each of them correct, and what is hard about it:

* **Processing application.** Every event ends where it should, once, although
  a micro-batch is three durable steps (plan, sink, commit) and the driver may
  die between any two. A sink and the state of its query become durable at
  different times. Messages come in duplicate. Six queries share a process, and
  one failure ends them all. The watermark is shared by all sources. After a
  change of the checkpoint version everything is read again.
* **Data quality.** An accepted row should be one PostgreSQL admits, and what is
  not accepted should be quarantined. The difficulties are SQL's third truth value
  and constraints the rules do not know of.
* **Source registry.** An active source has a topic. Handlers run concurrently;
  the row is committed before the topic is created, and the compensation may not
  get to run.
* **Ingestion.** Every record that is accepted for publishing arrives; a source
  that was stopped is not polled for ever; one bad source does not starve the
  others.
* **Payloads.** Two services judge one response, each by code of its own, and
  must agree.
* **Readers of the tables.** Figures of one response belong together, although
  they are read in several statements while batches commit; a client that pages
  through a changing table misses nothing that was there.
* **Scheduled jobs.** A summary covers its day; a gate that passes means that
  there was data and that it was good; a purge is not taken for a failure.
* **Dashboard.** What is shown belongs to the source that is selected; a refresh
  timer that cannot be stopped is the price of overlapping navigations only.

`PROJECT.json` lists all hazards with their lines.

## 2. The modules

| Module | Models | From |
|---|---|---|
| `SqlLogic` | NULL, three-valued logic | Spark SQL and PostgreSQL |
| `DataQuality` | events, rules, routing, constraints | `main.py:53-60, 184-219`; the schema |
| `Streaming` | queries, checkpoints, sinks, failures | `main.py:62-280`; Spark's execution of it |
| `ServedRecords` | abstract: what `processed_records` promises | `main.py:62-92` |
| `StreamingProperties` | its properties, fairness, refinement mapping | |
| `Recovery` | a new checkpoint version over files and tables that stay | `main.py:178, 204, 236, 242, 260, 276` |
| `SourceTable` | abstract: what the control plane promises of `sources` | `sources.py:114-202` |
| `SourceRegistry` | the handlers, statement by statement | `sources.py:114-202` |
| `Ingestion` | poller, API client and producer beside `SourceTable` | `poller.py`, `api_client.py`, `kafka_producer.py`, `main.py` of the service |
| `Payloads` | validation, inference, normalisation, roles | `sources.py:22-112, 295-304`; `poller.py:14-54` |
| `Statistics` | quartiles, anomalies, trend | `sources.py:204-243` |
| `SourceFigures` | the statements of the analytics and quality requests beside the writers, and the figures made of them | `sources.py:245-281, 360-410` |
| `ServingPages` | paged reads beside the writers | `services/control_plane/app/api/routes/serving.py` |
| `QualityGate` | freshness and quality tasks, purge | `dags/streamo_data_quality.py`, `dags/streamo_maintenance.py` |
| `DailySummary` | the daily job | `dags/streamo_daily_aggregation.py`, `postgres-init/03-airflow-tables.sql` |
| `Dashboard` | the event loop of the page | `app.js` |
| `MC...` | instances for TLC | |
| `..._proofs` | theorems: `Streaming` (with `DataQuality`), `Sinks` (files, `processed_records`, refinement), `Windows` (the two windowed tables), `Recovery`, `SourceRegistry`, `Ingestion`, `Readers` (`SourceFigures`, `ServingPages`, `QualityGate`, `DailySummary`, `Payloads`, `Statistics`), `Dashboard` | |

How they are composed: `Ingestion` EXTENDS `SourceTable`, so the poller runs
against any control plane that keeps the abstract promise, and `SourceRegistry`
is shown to keep it. `Streaming` takes what arrives in the topics as given
(`Produce`), duplicates included, which is what `Ingestion` leaves there.
`Recovery` adds one step to `Streaming`. The readers of the tables have writers
that are coarser than `Streaming`: a batch is one upsert, as `ServedSpec` shows
it to be. `MCReaders` puts the readers side by side.

### The processing application

An event is what `from_json` leaves of a message, reduced to what the rules tell
apart: whether the id matches the UUID pattern (`EventIds`, `BadId`, or NULL),
the source or NULL, whether `ingested_at` is a time, another string or NULL,
whether the payload is no JSON, JSON the cast to `jsonb` takes (`main.py:89`) or
JSON it refuses, and for each reading whether it is absent, in range, out of
range or not a number. `RefusedNames` are sources that `VARCHAR(255)` does not
hold. Ids are taken for their UUIDs: one in capitals, which Spark tells apart
and PostgreSQL does not, and one before a line break, which the `$` of the
pattern lets pass, are left out. Rules are operators with values "true", "false"
and "null", in the order of the `withColumn` chain. The verdict is not a Boolean
on purpose: `filter(is_valid == True)` and `filter(is_valid == False)` both drop
a row whose verdict is NULL.

| Variable | Stands for |
|---|---|
| `log` | the raw topics in one sequence, in append order |
| `offsetLog`, `commitLog`, `version` | the checkpoint directory of each query, and the version in its path (`main.py:178, 204, 236, 242, 260, 276`) |
| `seen`, `windowCount`, `metricState` | state stores of `dropDuplicates` (230), the windowed count (249-255), the metrics (264-272) |
| `lastExecution` | memory of the driver: how far the last batch of a query got since it started |
| `files` | the manifest of each parquet sink, the rows of each batch |
| `records`, `aggregates`, `metrics` | the three tables |
| `app`, `postgres` | whether the driver runs and PostgreSQL accepts connections |
| `landed` | history: the last batch whose upsert committed |
| `crashes`, `outages` | counters of the bounds |

A row of `processed_records` is reduced to where its columns come from: the
position of the copy it was inserted from (`source`, `ingested_at`,
`event_timestamp`, `temperature_f`), the position of the copy that updated it
last (`temperature`, `humidity`, `payload`) and the batch (`processed_at`,
which Spark takes from the offset log, so a re-run has the same value). A row of
`telemetry_aggregates` is its count; the averages are kept with the count, in
the same buffer and the same row, and add no case. A row of
`data_quality_metrics` is its five counters.

A watermark is a function of the offsets of earlier batches (`Reached`) and
needs no variable. Late rows are judged by the watermark of the batch before,
state is evicted by that of the batch.

| Action | Code |
|---|---|
| `Produce` | a message of the poller or of a script is in its topic |
| `Plan` | a trigger: Spark writes the end offsets; an extra batch without data follows when the watermark moved |
| `WriteFiles` | the parquet sink, which skips a batch its manifest has |
| `UpsertRecords`, `UpsertAggregates`, `UpsertMetrics` | the three `foreachBatch` functions, each one transaction; an empty batch returns before it connects |
| `UpsertFails` | the function raises (no connection, or a constraint): `awaitAnyTermination` raises, the process ends and with it all queries |
| `Commit` | Spark's commit log, and the new version of the state |
| `Crash`, `Restart` | the driver is killed, the container is started |
| `PostgresDown`, `PostgresUp` | an outage |
| `BumpCheckpoint` (`Recovery`) | the operator increments the version in the checkpoint paths of some queries while the driver is down |

A batch that was planned and not committed runs again after a restart, over the
same offsets and from the same state. That Spark behaves so is taken from the
way `main.py` uses it (checkpointed queries); these definitions are marked
external in `PROJECT.json`. So are, in the other modules, Airflow's scheduling,
the Kafka client and PostgreSQL.

Assumptions on the environment:

* Topics have one partition (`sources.py:165`) and the copies of an event share
  a topic, so a batch meets copies in the order of the log.
* Kafka and MinIO do not lose what they have stored, and a topic is not
  truncated. A failing MinIO call ends the driver, as `Crash`.
* An object of a state store version is not visible before its commit.
* PostgreSQL is at READ COMMITTED, its default.

### The control plane and the ingestion service

`SourceRegistry` has a program counter for each request (`pc`), because FastAPI
runs each in a thread and with a session of its own: a registration is a query,
an insert, a refresh, the topic, the answer, or the compensation; a command is a
read, for `start` the topic, and a commit that sends an UPDATE only when the
status differs from the one read. Faults are a statement that fails, with the
commit in doubt, a broker that fails or answers too late, and a crash of the
process. `held` records which statuses a row had since a command read it.

`Ingestion` follows one thread (`state`, `sources`, `todo`, `current`,
`attempt`, `batch`) and the Kafka client behind it (`buffer`, `copies`). One
action is one handler call or one attempt: list, begin a source, an answer or an
error, one record handed over or refused (by the full queue, or because
`produce` raises for another reason), the end of the round with its sleep.
`Stop` is the signal handler, which may run between any two steps. A list that
fails empties the round. `accepted`, `damaged` and `latePolls` are auxiliary.

`Payloads` gives one response to both services at once and keeps what each makes
of it. A JSON value is a record with its kind; text that looks like a date is a
kind of its own, since the code tells it apart. `Statistics` has the window of
readings as its state; Python's `sum` is a recursive function over the prefixes,
`sorted` the place of each reading among the others.

### The readers

`SourceFigures` has one request that goes through its statements
(`AnalyticsReads`, `QualityReads`), between which batches are upserted and rows
purged. `ORDER BY` with equal keys returns any of the orders. `ServingPages` has
a client that asks for one page after the other. `QualityGate` has a clock, the
state of Airflow's latest run, the schedule of the purge, and records with the
time of the event and of their processing. `DailySummary` has the day, the
aggregates of each day and source, and the summary.

### The dashboard

One thread of handlers: an action is a handler up to its first `await`, or what
follows when the answer is there. `calls` is the bag of fetches not answered,
and any of them may be answered next. `panel` is the source whose figures a
page holds, `poll` what the one interval in `currentPollInterval` loads, and
`leaked` counts the intervals no variable holds any more.

Charts outlive an answer, so they have variables of their own (`Draw`): `canvas`
has the fields with a canvas on the page, and whose data is drawn there, if any;
`charts` the fields for which the object of that name holds a Chart. An answer
adds canvases for its fields and never takes one away, unless it has no numeric
field, when all canvases go and the Charts stay (`app.js:450-463`). Adding a
canvas rewrites the HTML of the grid, which empties the others, whose Charts go
on drawing on canvases that are not on the page any more. `Clear` removes both.
`loadAnalytics` does not look at `res.ok`: an error that comes as JSON is drawn
like an answer without fields, and the totals stay (`Misread`); any other
failure is `Fail`. `overlaps` is auxiliary: it counts the navigations that
begin, by a click or by an answer (`Enter`), while another one waits for its
list.

## 3. What the runs check

| Run | Module, instance | Shows |
|---|---|---|
| `Serving` | `MCStreaming`: postgres and quarantine; 3 events out of a good one of each of two ids, one out of range, one not a number, one with an unparsable time, one with a payload `jsonb` refuses; a crash and an outage | `ServedRecordsExact`, `FilesExactlyOnce`, `WriteAhead`, refinement `ServedSpec` |
| `Lake` | `MCRecovery`: raw, parquet and postgres; 3 events out of one that may be sent again and one whose clock is ahead; a crash; new checkpoint versions | `OneFileRowPerEvent`, `NoEventTwice`, `LostByNumberOnly`, `ServedAcrossVersions` |
| `Windows` | `MCRecovery`: aggregates and metrics; 3 events out of one early, one ahead, one with a bad id; a crash; new checkpoint versions | `TypeOK`, `OpenWindowsExact`, `OpenMetricsExact`, `ClosedWindowsFrozen`, `CountsNeverShrink` |
| `Live` | `MCStreaming`: postgres and raw; 2 events; a crash and an outage | `EveryEventServed`, `EveryEventLanded` under `OperatedSpec` |
| `Registry` | `MCRegistry`: two registrations of one name, two commands on either row, two faults | `TypeOK`, `NamesUnique`, `AnsweredHasTopic`, `ActiveHasTopic`, `AnswersHonest`, refinement `ImplementsTable` |
| `Poller` | `MCIngestion`: two names, one with a negative interval; two attempts, two records in all, a queue of one, one fault | `TypeOK`, `AtMostOneLatePoll`, `PublishedKept`, `EverySourcePolled` under `FairSpec` |
| `Readers` | `MCReaders`: see below | the properties of the six readers |
| `Dashboard` | `MCDashboard`: two sources, one numeric field in common and one of the second only, two calls under way, one overlap, one failure | `TimersUnderControl`, `SelectorHonest`, `FiguresSettle` under `FairSpec` |
| `Unrouted` | as `Serving`, no faults | violated: `EveryEventRouted` |
| `Poisoned` | `MCStreaming`: metrics and raw; an event without a source; no faults | violated: `NeverCrashesByItself` |
| `Outage` | `MCStreaming`: postgres; one event, one outage | violated: `ResumesOnDatabaseUp` under `ComposeSpec` |
| `LateAnswer` | as `Dashboard`, no failure | violated: `DrawsTheSelected` |

### The bounds, and why they are enough

**Streaming.** Unit of time: five minutes, so that a window is 1 long and the
two watermark delays are 2 and 1. Queries do not read each other's state; what
they share is the log, the database and the process. Two or three queries in an
instance are enough for that sharing, and their choice pairs sinks of different
kinds. Two copies of an event, with a batch boundary or a restart between them,
need three events in the log at most: two copies and the event that moves the
watermark. One crash reaches each of the three gaps of a batch; an outage makes
the driver exit as well, so `Serving` and `Live` have re-runs after two
failures. Each query has a checkpoint path of its own, and the code has them at
different versions (v9 and v11), so an increment is of any set of them
(`Renewals`) and each path may have it once (`MaxVersions` is 2): the second life
of a query begins from nothing over what the first has left. `Recovery_proofs`
has no such bound. Deadlock is not checked: once `MaxEvents` messages are in the
log and every query is through with them, the instance has nothing left to do.

**Registry.** Two registrations race, two commands race on a row and with its
compensation, and a third of either kind would meet nothing new: rows of other
names do not interact. Two faults let a failing statement and a crash hit one
history. Requests of a kind are symmetric. Deadlock is not checked: when all
requests are answered the instance is over.

**Poller.** Two sources are one that misbehaves and another one that must not
suffer; the page has room for both. One attempt and a last one are two. A batch
of two meets a queue of one in each of the ways there are: accepted, refused at
once, refused in the middle. One fault is a kill, a failed delivery or a lost
acknowledgement. `EverySourcePolled` concerns registries that have come to
rest, which is the case the list of the instance reaches. Deadlock is not
checked, because the liveness property and the fairness say more: there is
always a step of the registry or of the poller, except after the records of the
instance are used up.

**Readers.** None of the six reads what another one writes, so an instance has
one of them, chosen at the start by `reader`, and the others stay. *Figures*:
two ids, two times, three batches, a limit of one row, so that the limit cuts,
and windows of up to two records. *Pages*: three keys with four times, pages of
one row and three batches: one before the client, one in between, one more. A
page of one row has a boundary everywhere. *Gate*: two records; fresh limit and
period are three units, the retry comes after one; the day is shortened to six
units and the retention to four, so that eleven units of the clock have a purge
between the failing and the retried check; event times are behind, at and ahead
of the clock. *Summary*: two sources, three days, counts up to two, two cleared
tasks. *Response*: every object over two fields with scalars, lists of them up to
two long and one more level of the same; every list of such objects up to two
long; failing and misleading answers. *Readings*: every sequence of up to seven
readings over {-2, 0, 1, 6}; seven is the first length at which both quartiles
have readings beyond them on either side and the halves differ. Deadlock is not
checked: these instances end when their bound is used up.

**Dashboard.** Two sources are needed for the wrong one, two calls for two
answers in the wrong order, and fields the sources share and do not share for
the charts. A timer that leaks goes on for ever, so after `MaxOverlaps`
overlaps, of which the instance has one, the user of the instance waits for a
page to open before the next click (`MayAct`); answers may still overlap.
Deadlock is checked: a page can always be clicked at, or an answer is due.

### The properties, in words

*Processing application.*

* `FilesExactlyOnce`: an event the query selects, below its committed offset, is
  in exactly one batch of the manifest; nothing else is in any.
* `OneFileRowPerEvent`: the processed files never have an event id twice; it
  holds after a new checkpoint version as well.
* `ServedRecordsExact`: over the prefix that the upserts have made visible, an
  id has a row exactly when a copy of it was accepted; the row was inserted from
  the first copy and updated from some copy.
* `ServedSpec`: seen by a reader, `processed_records` goes through the states of
  `ServedRecords`, where each batch happens once and whole. A re-run is a
  stuttering step: it changes no column, `processed_at` included.
* `WriteAhead`: what is shown was planned, what is committed was shown, one
  batch in between.
* `OpenWindowsExact`, `OpenMetricsExact`: until the watermark reaches the start
  of a window, its row is exact: distinct accepted events for the aggregates,
  the five counts over all events for the metrics. Afterwards late events are
  missing from it, which is why nothing is claimed of a window that is half
  overtaken.
* `ClosedWindowsFrozen`: a row whose window has ended under the watermark never
  changes again, although its state is gone.
* `CountsNeverShrink`: no count a reader has seen goes down, not even when the
  history is read again from the beginning.
* `NoEventTwice`: the raw files repeat no event after that either.
* `ServedAcrossVersions`: nor does the serving table lose what it serves. A row
  goes back to the first copy of its event in the whole log, whichever version
  inserted it, and what the version now has read is served, with the readings of
  a copy it has read. These may be those of an earlier copy until the replay is
  through.
* `LostByNumberOnly`: what it does cost. Batch numbers start again, and the file
  sink skips a number its manifest has, whatever the batch holds. The property
  says which events are lost: those of the first `k` batches of the version now,
  whose numbers earlier versions had used, less what the files of those versions
  hold, which is a prefix of the log after one increment. It is the price of
  `docs/OPERATIONS.md:36`, stated.
* `EveryEventServed`, `EveryEventLanded`: liveness through crashes and outages.

*Control plane and ingestion.*

* `NamesUnique`, `ActiveHasTopic`, `AnsweredHasTopic`: two racing registrations
  leave one row; an active row without a topic belongs to a registration under
  way or cut off; who was told "active" has a topic.
* `AnswersHonest`: the status a command reports is one the row had between its
  read and its answer, although another command or a compensation may have
  changed the row meanwhile.
* `ImplementsTable`: outside, there is a table of sources where registration is
  one step, a confirmed source is never withdrawn, and a withdrawn one is not
  brought back by a command.
* `AtMostOneLatePoll`: a source that is not active any more is polled at most
  once more.
* `PublishedKept`: what `publish_event` took is in the topic or on its way, once,
  unless a delivery failed or the process was killed; a signal loses none.
* `EverySourcePolled`: no source starves.
* `TablesReadBack`: a document with tables, at the root or one level down, is cut
  into records that give one of them back whole: as many records as rows, each
  column with its items, columns of different lengths never being cut or filled
  up, and the scalars of the root beside them. A document without a table stays
  whole. It is not lossless: a second table, lists beside an inner one, scalars
  within it, other objects, and a scalar of the root with the name of a column are
  dropped (`poller.py:36-49`), and the property does not promise them.
* `ApprovedFieldsArrive`: a response that validation approved, with fields, gives
  records when it is polled, with those fields and, for plain values, of those
  kinds.

*Readers.*

* `TotalCoversData`, `NotStale`: within one response, the total is at least the
  rows shown, unless rows were purged in between; the newest row is no older than
  the newest when the request began.
* `QualityTotalOfAMoment`: the quality page adds the valid rows of all time to
  the invalid ones of the latest window, read by two statements. Its total is no
  more than what the tables added up to at one of the two, although a window
  that begins in between takes the invalid ones of the window before out of the
  sum; and unless one does, it is no less either. Read the other way round, the
  total could be one the tables never came near.
* `NothingSkipped`: a client that pages to the end has read every row that was
  there all the time, if no two rows have the same time.
* `FreshMeansProcessed`, `StaleIsNoticed`: over a table with records, the
  freshness check passes only if one was processed in time, and staleness fails
  a run within a period; retries do not put that off.
* `SummaryNeverAhead`, `SummaryOnlyGrows`: a summary never exceeds the
  aggregates, and repeating the job never lowers it or changes its source.
* `AnomaliesByRank`, `TrendFollowsAverages`: quartiles have the rank their
  definition asks for whatever the order, anomalies are a minority, and the trend
  has the direction of the averages when they are positive.

*Dashboard.*

* `TimersUnderControl`: the intervals nothing can clear any more, and those that
  refresh a page that is not shown, are no more than the navigations that began
  while another one waited for its list, whether the user began them or the answer
  to a command or to the form (`app.js:240, 331`). Nothing else leaks a timer.
* `SelectorHonest`: on an opened page of figures, the source that is loaded is
  the one the selector names.
* `FiguresSettle`: when the user rests on a page whose timer runs, its figures
  become those of the selected source, whatever was drawn late before, and the
  chart of a field this source has shows its own data or nothing. Charts of
  fields that only another source has may stay.

Each property has a mutant of the code in `PROJECT.json` that breaks it: the
operators marked *Mutation* in the modules.

### Fairness

* `Running` (`StreamingProperties`) is weak fairness of each step of each query:
  Spark gives a query its own thread, which does nothing but run batches.
  `OperatedSpec` adds that PostgreSQL comes back and that somebody starts the
  driver again; that person is not in the repository, so liveness is conditional
  on them. `ComposeSpec` leaves them out and is what `docker-compose.yml` alone
  provides. The liveness run has no event with an unparsable `ingested_at`: such
  a row is refused by PostgreSQL after every restart and nothing behind it is
  served.
* `FairSpec` of `Ingestion`: the loop is one thread that does nothing else (weak
  fairness of its steps); every HTTP call has a timeout, so an attempt ends. That
  a list is answered now and then is strong fairness, since the control plane may
  fail in between; without it the code promises nothing. The Kafka client
  delivers from a thread of its own.
* `FairSpec` of `Dashboard`: each call is answered or fails in the end. The
  ticks of an interval have strong fairness because the instance caps the calls
  under way, which disables them at times; in a browser they fire regardless.

### Where the code and its documents disagree

Shown by a run:

1. `EveryEventRouted`: a temperature that is not a number makes the verdict
   NULL; the event is neither quarantined nor served (`main.py:194-210` against
   `docs/PHASE_3.md:30`, `docs/ARCHITECTURE.md:46`). The raw files have it.
2. `NeverCrashesByItself`: an event without a source makes the metrics violate
   a NOT NULL column and ends the driver (`main.py:264-278`, the schema, line
   55, against `docs/PHASE_2.md:23`).
3. `ResumesOnDatabaseUp`: nothing restarts the container
   (`docker-compose.yml:203-226` against `docs/RELIABILITY.md:13`).
4. `DrawsTheSelected`: an answer is drawn without a look at the source selected by
   then (`app.js:380` against `skill.md:426-434`).

Seen while modelling; the models contain them, and a premise or the wording of
a property leaves them out:

* A full queue, or a `produce` that raises, drops the rest of the batch
  (`poller.py:102-111`); `PublishedKept`
  is about what was accepted.
* A negative `poll_interval` is accepted and ends the poller at the end of its
  round (`EndRound`); `EverySourcePolled` is about a service that runs.
* The recovery procedure loses raw and processed files of events, see
  `LostByNumberOnly`.
* A field whose name contains "id", as `humidity` does, is an identifier for the
  analytics (`sources.py:295-304`); `ApprovedFieldsArrive` excludes those names.
* The sign of a trend is wrong when the earlier average is negative
  (`sources.py:224-241`); `TrendFollowsAverages` is about positive ones.
* A source without metrics is shown with a quality of 100 % (`AnalyticsOf`).
* Records of one batch share `processed_at`, and their order in the analytics is
  undetermined (`LatestRows`).
* The daily job sums up `CURRENT_DATE`, the day that has just begun, and fails
  for ever when two sources have windows (`Summarize`, `SummarizeFails`).
* The freshness check passes on an empty table, and the quality check looks at
  the source `mock` only (`Breached`).
* A purge that removes the row processed last, an event of the past, makes the
  freshness check fail without cause; `StaleIsNoticed` is the other direction.
* What an accepted event may still be refused for: an `ingested_at` that is no
  time, a payload `jsonb` does not take, such as one with `\u0000`
  (`main.py:89`), a source longer than 255 characters (`RecordRowAllowed`). The
  batch fails after every restart.
* Charts of fields that only the source selected before has stay beside those of
  the new one (`app.js:450-463`, under the comment "Clean up stale charts if
  schema changed or empty"), and after an answer without fields charts stay
  empty, because `charts` still holds them (`app.js:476-479`): `Draw`.
* A navigation that begins while another waits for its list leaks an interval
  (`app.js:95`); the page that was left keeps its old figures until its next load;
  no refresh timer runs after a source is chosen on a page opened without one; the
  buttons of the details page act on the source selected by then (`Opened`,
  `Choose`, `CommandAnswered`).

## 4. What is proved

For every value of the constants (sets of queries, events, sources, names and
requests, window lengths, limits and bounds), from the assumptions named in the
modules.

*Processing application.*

* `TypeCorrectness` and `CheckpointDiscipline` (`Streaming_proofs`): `TypeOK` and
  `WriteAhead` are invariants. Neither is inductive: the rows of a batch have the
  right types only when its offsets lie in the log, and `Commit` keeps the
  write-ahead rule only when a batch marked as sunk is the one in flight and is
  what the sink shows. `IInv` is their conjunction with that, `SunkInFlight`;
  there is one lemma per action.
* `FilesExactlyOnceHolds` (`Sinks_proofs`): adds two facts. Planned batches leave
  no gap (`Gapless`), and a batch in the manifest has the rows its offsets select
  (`FilesAreBatches`). The second survives the growth of the log because planned
  batches keep their positions and positions their events (`BatchStable`).
  `FilesExactlyOnce` follows since batches are disjoint.
* `OneFileRowPerEventHolds` (`Sinks_proofs`): the files say nothing of what the
  state store remembers, so the invariant ties them together. Ids of committed
  batches are in `seen` (`CommittedSeen`), and a batch that is in the manifest and
  not committed is what a re-run would select (`WrittenIsFresh`), which holds
  because what a batch selects depends on nothing that happened since it was
  planned (`FreshStable`).
* `ServedRecordsExactHolds` (`Sinks_proofs`): the row of an id is inserted from
  the least of its visible copies (`RowsExact`). A first run of a batch adds its
  copies behind the visible ones, a re-run adds none (`UpsertVisible`).
* `Refinement` (`Sinks_proofs`): `Spec => ServedSpec`, by step simulation. The
  first run of a batch is `Apply`; it needs that a batch of the postgres query
  is never empty (`BatchesHaveData`). A re-run is a stuttering step; it needs
  that the rows of a batch that has been through are what it would write again
  (`Replayable`), `processed_at` included.
* `RowsOnlyGrow`, `ClosedRowsFinal` (`Windows_proofs`): neither is inductive. For
  the aggregates the invariant (`CountsInv`) says that the row of a window is its
  state, or what the batch in flight makes of it once that batch has been through
  the sink, until the state is dropped; for the metrics (`MetricsInv`) that state
  and row are tallies of prefixes of the log. After the state is dropped nothing
  writes the row, because an event that would count in it is late: the watermark
  that drops rows is the one that dropped the state, or an earlier one, and
  watermarks only advance (`ReachedMonotone`). What a batch shows never falls
  short of the row it finds (`CountsCovered`).
* `OpenMetricsExactHolds` (`Windows_proofs`): the row of a window that no visible
  batch was judged to be past is the tally of the visible prefix (`TalliesExact`);
  a first run adds a disjoint batch (`TallyExtended`), a re-run nothing.
* `OpenWindowsExactHolds` (`Windows_proofs`): adds that the state of
  `dropDuplicates` holds the ids of committed events only, and of all those that
  cannot have been late (`SeenCommitted`, `CommittedCounted`). It has a
  hypothesis of its own, `CopiesAgree`: the copies of an event have
  one source and one time. The producer gives an id to one envelope and sends it
  again as it is; without that the statement is false, since the second copy is
  dropped in the window where it does not count.
* `RulesMissThreeConstraints` (`Streaming_proofs`): an accepted event meets the
  constraints of `processed_records` just when its `ingested_at` is a time, its
  payload is one `jsonb` takes and its source one `VARCHAR(255)` takes. These
  three the rules do not anticipate.
* `RoutedUnlessNotNumeric`: no event passes both filters, and the events that
  pass neither are exactly those whose one fault is a reading that is not a
  number.

*Recovery* (`Recovery_proofs`). The same properties under `RecoverySpec`: any
number of increments, of any sets of paths. A step is one of `Next` or
`BumpCheckpoint`, so the lemmas above are used as they are and what is shown is
that `BumpCheckpoint` preserves the invariants, and which of them it does not.

* `RecoveryTypes`, from `BaseInv`: `IInv` and `Gapless` survive, because the
  driver is down, so its memory is empty (`DownIsIdle`) and no batch is in
  flight. `FilesAreBatches` and the exactness of `processed_records` do not
  survive; they are about the history of one version.
* `NoEventTwiceHolds`, `LossIsByNumber`: `RawInv` splits the manifest at some
  `k`. The first `k` batches are of earlier versions, and the first batch of
  this version contains all they hold (`RawBefore`), since it starts at the
  earliest offsets and the log only grows; the others are batches of this
  version (`RawSince`). A batch that is written is therefore not the first one
  or meets an empty manifest, and in both cases it holds nothing the files have
  (`NewToFiles`).
* `OneRowAcrossVersions`: the same idea for ids.
* `ServedAcrossVersionsHolds`: the invariant (`RowsServed`) says of every
  version that its prefix of the log is served and that a row's first copy is
  the first in the whole log. A first batch starts at the earliest offsets, so
  it meets the first copy before any other, and a row an earlier version has
  left keeps it.
* `OpenMetricsExactAcrossVersions`, `OpenWindowsExactAcrossVersions`,
  `ClosedRowsFinalAcrossVersions`: what is claimed of a row is claimed from the
  first upsert of the version on, and that one overwrites the row.
* `RowsOnlyGrowAcrossVersions`: the rows of an earlier version were counted from a
  prefix of the log, and the first batch of the new one contains it; the count of
  distinct ids does not fall since no row is late in a first batch
  (`FirstBatchCounts`). Like exactness, it has the hypothesis `CopiesAgree`.

*Source registry* (`SourceRegistry_proofs`).

* `TypeCorrect`, `OneRowPerName`, `SuccessHasTopic`, `PolledHasTopic`,
  `HonestAnswers`: one invariant, `IInv`. Beyond the properties it says where a
  request that got past `ensure_topic_exists` is (`TopicInv`: its topic is
  there, and topics are never deleted), and that a status a command has loaded
  or is about to find is among the `held` ones (`HeldInv`).
* `TableImplemented`: `Spec => ImplementsTable`, with `RowInv`: a registration
  between insert and compensation has its row, so a confirmed name has one and a
  compensation withdraws an unconfirmed one.

*Ingestion* (`Ingestion_proofs`).

* `LatePollsBounded`: `RoundInv` ties the counter to the round: a name that is
  not active and was polled late is not on the rest of the list.
* `AcceptedKept`, `TypeCorrect`: records come in order (`BatchInv`), what is
  in the queue has no copy yet unless an acknowledgement was lost, and what has
  left it has one unless the service was damaged (`CopyInv`).

*Readers* (`Readers_proofs`).

* `NeverAhead`, `OnlyGrows`: the row of the day is that of the only source with
  windows; a second source makes the job fail and leaves the row, which is why it
  cannot change hands.
* `NotDeceived`, `Noticed`: the invariant says that no row was processed after
  the last one, whatever was purged (`RowsInv`), and that a run past the freshness
  check began its period over a fresh or an empty table (`RunInv`). A tick that
  begins no period stays in the one before (`SamePeriod`), so a run that has
  passed is younger than a period: staleness is noticed after the limit and one
  period, and retries, which repeat the failed task only, add nothing.
* `TotalCovers`, `FreshAsAsked`, `QualityTotalsHold`: the invariant follows the
  request. Until rows are purged, what it has read is covered by the table, and
  once the count is taken, by the count (`DataCovered`); a row of the batch that
  was newest at the beginning, or of a later one, is still there, and the last row
  that was read is no older (`DataFresh`). The order of the statements is what
  makes it inductive: rows before their number, and the number of rows, which only
  grows, before the counters of the window. For the quality page the request
  remembers what the tables added up to at each statement, and the counters of a
  window only grow until another window begins.
* `NoRowSkipped`: a row that the client is owed and has not got has as many rows
  before it as the client's offset (`StillAhead`). Inserts only add to those, a
  purge takes rows that are older than every owed one, and a page passes over
  none (`NotPassedOver`), where rows with one time would break the argument.
* `TablesAreReadBack`, `ApprovalsHold`: for any JSON values (`JsonAssumption`)
  and any responses. Lists of one length above zero make a table, whose records
  have its columns and the scalars of the root (`TableKept`); of the tables one
  level down the first in the order of the fields is taken, and it is one
  (`FirstTableIsOne`, `InnerTable`). What the validation looks at first in a
  list is what the poller keeps first (`FirstObjectKept`).
* `TrendIsHonest`: the sums are integers, by an induction over the readings
  (`TotalIsInt`, `UpTo`), and the lengths of the halves positive; the rest is the
  sign of products.
* `AnomaliesAreFew`: `sorted` is modelled by the place it gives to each reading.
  No two readings have one place (`PlacesDiffer`), so every place is taken
  (`PlacesTaken`, by the pigeonhole principle), and what is in the k-th has the
  rank k - 1 (`SortedByRank`). An anomaly is below a value of one rank or above a
  value of the other (`OutlyingFew`).

*Dashboard* (`Dashboard_proofs`).

* `TimersUnderControlHolds`: has no hypothesis on the user or on the order of the
  answers. The invariant (`Accounted`) charges each timer to an overlap: the lost
  intervals, the navigations that wait for their lists and the interval that is
  held are at most one more than the overlaps, and a page that waits or the view
  that is shown accounts for that one.
* `SelectorHonestHolds`: inductive with the fact that the calls are a bag; a list
  that arrives leaves the selector or clears it (`Relisted`).

Only model-checked: liveness (`EveryEventServed`, `EveryEventLanded`,
`EverySourcePolled`, `FiguresSettle`), which rests on fairness and ENABLED. Every
safety property of the passing runs is stated by a theorem.

## 5. Not modelled

* `services/processing/app/verify.py`: one read of the parquet
  directories that prints counts.
* Kafka's retention with `failOnDataLoss=false`: the log of the model is never
  truncated, because every statement about it would have to except what is gone.
* Failures of Kafka and MinIO themselves.
* The rounding of floating point in averages and statistics, and the averages of
  the aggregates.
* The quality summary and the health endpoints: one statement each, nothing kept.
* The overview, the table of sources, the validation form and what the details
  page shows: each is drawn from one answer, and no handler reads it. The
  insights, the ingestion rate, the freshness, minima and maxima, and the kinds
  of violations (`sources.py:283-293, 306-345, 388-396`): formulas over what was
  read.
* Page markup, Grafana dashboards and their generator, logging, the mock API, the
  demo scripts and the seeding: presentation, or traffic whose events the
  instances contain.

## 6. Plan

1. **Retention**: a log that loses its beginning, with the offsets that are
   skipped as an explicit exception of `EveryEventLanded`.
2. **Recovery, refinement**: what a reader of `processed_records` sees across
   versions, as an abstract specification like `ServedRecords`.
