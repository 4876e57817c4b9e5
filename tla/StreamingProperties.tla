------------------------- MODULE StreamingProperties -------------------------
(***************************************************************************)
(* What the processing application must keep true of its sinks, whatever   *)
(* the driver, PostgreSQL and the arrival of events do.                    *)
(***************************************************************************)
EXTENDS Streaming

-----------------------------------------------------------------------------
(* Type invariant. *)

Row == [inserted : Nat, updated : Nat, processed_at : Nat]
Counters == [total : Nat, valid : Nat, invalid : Nat, nulls : Nat, ranges : Nat]

\* The shapes of the application's state: the logs of the checkpoint, the
\* state stores, the driver's memory and the sinks (main.py:143-280).
TypeOK ==
  /\ log \in Seq(Events)
  /\ app \in {"up", "down"}
  /\ postgres \in BOOLEAN
  /\ crashes \in 0 .. MaxCrashes
  /\ outages \in 0 .. MaxOutages
  /\ version \in [Queries -> Nat \ {0}]
  /\ offsetLog \in [Queries -> Seq(Nat)]
  /\ commitLog \in [Queries -> Nat]
  /\ seen \in [DedupQueries -> SUBSET EventIds]
  /\ windowCount \in [Groups -> Nat]
  /\ metricState \in [Groups -> Counters]
  /\ lastExecution \in [Queries -> {"none", "sunk", "done"}]
  /\ files \in [FileQueries -> Seq(SUBSET Nat)]
  /\ records \in [EventIds -> Row]
  /\ aggregates \in [Groups -> Nat]
  /\ metrics \in [Groups -> Counters]
  /\ landed \in [TableQueries -> Nat]

-----------------------------------------------------------------------------
(* The files. *)

\* The filter in front of a file sink that keeps no state.
Selected(q, e) == q = "quarantine" => Quarantined(e)

\* The raw and quarantine directories hold every event they are meant for
\* exactly once.  An event below the committed offset is in one batch of the
\* manifest; no event is in two, although a batch whose commit was lost runs
\* again; and nothing else is there (main.py:175-181, 200-207).
FilesExactlyOnce ==
  \A q \in Queries \cap {"raw", "quarantine"} :
    \A p \in 1 .. Len(log) :
      LET hits == {b \in 1 .. Len(files[q]) : p \in files[q][b]} IN
      /\ \A b, c \in hits : b = c
      /\ hits # {} => Selected(q, log[p])
      /\ p <= Committed(q) /\ Selected(q, log[p]) => hits # {}

\* The processed files hold one row per event id, across batches, re-runs
\* and restarts of the driver (main.py:230, 239-245).
OneFileRowPerEvent ==
  "parquet" \in Queries =>
    \A b, c \in 1 .. Len(files["parquet"]) :
      \A p \in files["parquet"][b], r \in files["parquet"][c] :
        log[p].event_id = log[r].event_id => b = c /\ p = r

-----------------------------------------------------------------------------
(* The tables. *)

\* How much of the log the upserts of q have made visible.
Visible(q) == End(q, landed[q])

\* processed_records serves every event of the visible prefix that passed the
\* rules and no other, and its row goes back to the event's first copy
\* (main.py:62-92, 233-237).
ServedRecordsExact ==
  "postgres" \in Queries =>
    \A i \in EventIds :
      LET copies == {p \in 1 .. Visible("postgres") :
                       Accepted(log[p]) /\ log[p].event_id = i} IN
      IF copies = {} THEN records[i] = NoRow
      ELSE /\ records[i].inserted \in copies
           /\ \A p \in copies : records[i].inserted <= p
           /\ records[i].updated \in copies

\* Batches are planned in order, over messages Kafka has.
PlannedInOrder(q) ==
  /\ \A b, c \in 1 .. Len(offsetLog[q]) :
       b <= c => offsetLog[q][b] <= offsetLog[q][c]
  /\ \A b \in 1 .. Len(offsetLog[q]) : offsetLog[q][b] <= Len(log)

\* How many batches the sink of q shows.
Shown(q) == IF q \in FileQueries THEN Len(files[q]) ELSE landed[q]

\* The write-ahead rule of the checkpoint: what a sink shows was planned
\* before, what is committed was shown before, and at most one batch is
\* between the offset log and the commit log (main.py:175-278).
WriteAhead ==
  \A q \in Queries :
    /\ PlannedInOrder(q)
    /\ Len(offsetLog[q]) \in {commitLog[q], commitLog[q] + 1}
    /\ Shown(q) \in commitLog[q] .. Len(offsetLog[q])

\* A window the watermark has not entered yet.
Open(q, w) == ~Reached(q, landed[q] - 1, WindowStart(w))

\* Once a batch is through, a window that is still open is counted exactly:
\* its row is the number of distinct events of the visible prefix that fall
\* into it, however often they were sent or their batch was run
\* (main.py:249-261, 94-114).
OpenWindowsExact ==
  "aggregates" \in Queries /\ landed["aggregates"] > 0 =>
    \A g \in Groups :
      Open("aggregates", g.window) =>
        aggregates[g] =
          Cardinality({log[p].event_id :
            p \in {p \in 1 .. Visible("aggregates") :
                     /\ Accepted(log[p])
                     /\ EventTime(log[p]) # Null
                     /\ GroupAt(log[p], EventTime(log[p])) = g}})

\* The quality metrics of a window that is still open account, in the same
\* way, for every event ingested in it (main.py:264-278, 116-141).
OpenMetricsExact ==
  "metrics" \in Queries /\ landed["metrics"] > 0 =>
    \A g \in Groups :
      Open("metrics", g.window) =>
        metrics[g] = Tally({p \in 1 .. Visible("metrics") :
                              /\ IngestedTs(log[p]) # Null
                              /\ GroupAt(log[p], IngestedTs(log[p])) = g})

\* The watermark of the last visible batch is past the end of the window.
Closed(q, w) == Reached(q, landed[q], WindowEnd(w))

\* A row whose window is closed is final: no late event, re-run or restart
\* overwrites it, although its state is gone (main.py:228, 249-278).
ClosedWindowsFrozen ==
  [][\A g \in Groups :
       /\ "aggregates" \in Queries /\ Closed("aggregates", g.window) =>
            aggregates'[g] = aggregates[g]
       /\ "metrics" \in Queries /\ Closed("metrics", g.window) =>
            metrics'[g] = metrics[g]]_vars

\* Counts a reader has seen never go down (main.py:94-141).
CountsNeverShrink ==
  [][\A g \in Groups : /\ aggregates'[g] >= aggregates[g]
                       /\ metrics'[g].total >= metrics[g].total]_vars

-----------------------------------------------------------------------------
(* Refinement. *)

Served == INSTANCE ServedRecords
            WITH applied <- Visible("postgres"),
                 batches <- landed["postgres"],
                 table   <- records

\* Seen by a reader of processed_records, each batch happens exactly once and
\* whole, whatever crashed and ran again.
ServedSpec == Served!Spec

-----------------------------------------------------------------------------
(* Liveness. *)

\* Spark gives each query a thread of its own that runs batch after batch.
Running == \A q \in Queries : /\ WF_vars(Plan(q))
                              /\ WF_vars(RunBatch(q))
                              /\ WF_vars(UpsertFails(q))
                              /\ WF_vars(Commit(q))

\* PostgreSQL comes back; an operator starts the driver again.
OperatedSpec == Spec /\ Running /\ WF_vars(PostgresUp) /\ WF_vars(Restart)

\* The same without the operator: docker-compose.yml gives the container no
\* restart policy (docker-compose.yml:203-226).
ComposeSpec == Spec /\ Running /\ WF_vars(PostgresUp)

\* Every event that passed the rules gets its row (main.py:233-237).
EveryEventServed ==
  \A p \in 1 .. MaxEvents :
    (/\ p <= Len(log)
     /\ Accepted(log[p])) ~> (/\ p <= Len(log)
                              /\ records[log[p].event_id] # NoRow)

\* Every event reaches the raw files (main.py:175-181).
EveryEventLanded ==
  \A p \in 1 .. MaxEvents :
    (p <= Len(log)) ~> (\E b \in 1 .. Len(files["raw"]) : p \in files["raw"][b])

-----------------------------------------------------------------------------
(* What the documentation says of the application. *)

\* docs/PHASE_3.md:30: invalid records go to the quarantine; the others are
\* processed.  So what both queries have committed is in one or the other.
EveryEventRouted ==
  \A p \in 1 .. Len(log) :
    p <= Committed("quarantine") /\ p <= Committed("postgres") =>
      \/ \E b \in 1 .. Len(files["quarantine"]) : p \in files["quarantine"][b]
      \/ /\ log[p].event_id \in EventIds
         /\ records[log[p].event_id] # NoRow

\* docs/PHASE_2.md:23: invalid events are filtered out, ensuring the main
\* pipeline never crashes.  Only a fault may take the driver down.
NeverCrashesByItself == app = "down" => crashes + outages > 0

\* docs/RELIABILITY.md:13: the container restarts until PostgreSQL is
\* available, and resumes.
ResumesOnDatabaseUp == (postgres /\ app = "down") ~> (app = "up")
=============================================================================
