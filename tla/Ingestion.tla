------------------------------ MODULE Ingestion ------------------------------
(***************************************************************************)
(* The ingestion service (services/ingestion/app): one thread that asks    *)
(* the control plane for the active sources, polls them one after the      *)
(* other and hands their records to the Kafka client, which delivers them  *)
(* in the background.  Clients of the control plane change the table of    *)
(* sources meanwhile.                                                      *)
(***************************************************************************)
EXTENDS SourceTable, Naturals, Sequences, FiniteSets

CONSTANTS PageSize,       \* rows the control plane answers with, 100 by default
          MaxRetries,     \* attempts per poll
          QueueLimit,     \* messages the Kafka client holds before it refuses more
          Unsleepable,    \* names registered with a negative poll_interval
          MaxBatch,       \* bound: records in one response
          MaxRecords,     \* bound: records obtained altogether
          MaxFaults       \* bound: kills, failed deliveries, lost acknowledgements

ASSUME IngestionAssumption ==
  /\ Absent \notin Names \cup Statuses
  /\ PageSize \in Nat /\ MaxRetries \in Nat \ {0} /\ QueueLimit \in Nat \ {0}
  /\ Unsleepable \subseteq Names
  /\ MaxBatch \in Nat /\ MaxRecords \in Nat /\ MaxFaults \in Nat

VARIABLES
  state,      \* where the poller's thread is
  sources,    \* the list of the round: the active sources as they were read
  todo,       \* those of them not polled yet
  current,    \* the source being polled
  attempt,
  owner,      \* the source of each record obtained; a record is its index
  batch,      \* the records of the response still to be published
  buffer,     \* the records in the Kafka client's queue
  copies,     \* how often each record is in its topic
  faults,
  accepted,   \* auxiliary: the records publish_event took without an error
  damaged,    \* auxiliary: a delivery failed, or the process ended unflushed
  latePolls   \* auxiliary: polls begun since a source was last active

pollerVars == <<state, sources, todo, current, attempt, owner, batch, buffer,
                copies, faults, accepted, damaged>>
vars == <<table, confirmed, pollerVars, latePolls>>

Records == 1 .. MaxRecords
Ended == {"exited", "crashed", "killed"}
Live == {"listing", "polling", "fetching", "publishing", "sleeping"}

Init == /\ TableInit
        /\ state = "listing"
        /\ sources = {} /\ todo = {} /\ current = Absent /\ attempt = 0
        /\ owner = <<>> /\ batch = <<>> /\ buffer = {}
        /\ copies = [i \in Records |-> 0]
        /\ faults = 0 /\ accepted = {} /\ damaged = FALSE
        /\ latePolls = [n \in Names |-> 0]

-----------------------------------------------------------------------------
(* The control plane, as its clients see it. *)

Registry == /\ TableNext
            /\ latePolls' = [n \in Names |-> IF table'[n] = "active" THEN 0
                                             ELSE latePolls[n]]
            /\ UNCHANGED pollerVars

\* get_sources without parameters: the first rows of the table, in no order.
Pages == LET rows == {n \in Names : table[n] # Absent} IN
         {page \in SUBSET rows :
            Cardinality(page) = IF Cardinality(rows) < PageSize
                                THEN Cardinality(rows) ELSE PageSize}

-----------------------------------------------------------------------------
(* The loop of the poller. *)

StartRound(list) ==
  /\ sources' = list
  /\ todo' = list
  /\ state' = IF list = {} THEN "sleeping" ELSE "polling"
  /\ UNCHANGED <<table, confirmed, current, attempt, owner, batch, buffer,
                 copies, faults, accepted, damaged, latePolls>>

\* Mutation: the list is kept as long as no source is added.
ListCached ==
  /\ state = "listing"
  /\ \E page \in Pages :
       StartRound(IF page = sources THEN sources
                  ELSE sources \cup {n \in page : table[n] = "active"})

List == /\ state = "listing"
        /\ \E page \in Pages : StartRound({n \in page : table[n] = "active"})

\* The control plane does not answer: no source this time.
ListFails == state = "listing" /\ StartRound({})

\* The source may have been stopped or withdrawn since the list was read.
Begin(n) ==
  /\ state = "polling" /\ n \in todo
  /\ todo' = todo \ {n}
  /\ current' = n /\ attempt' = 1
  /\ state' = "fetching"
  /\ latePolls' = IF table[n] = "active" THEN latePolls
                  ELSE [latePolls EXCEPT ![n] = @ + 1]
  /\ UNCHANGED <<table, confirmed, sources, owner, batch, buffer, copies,
                 faults, accepted, damaged>>

\* The end of a round: sleep for the shortest interval.  A negative one makes
\* time.sleep raise, which nothing catches; what the Kafka client holds then
\* goes down with the process.
EndRound ==
  /\ state = "polling" /\ todo = {}
  /\ IF sources \cap Unsleepable = {}
     THEN state' = "sleeping" /\ UNCHANGED <<buffer, damaged>>
     ELSE state' = "crashed" /\ buffer' = {} /\ damaged' = TRUE
  /\ UNCHANGED <<table, confirmed, sources, todo, current, attempt, owner,
                 batch, copies, faults, accepted, latePolls>>

Wake == /\ state = "sleeping"
        /\ state' = "listing"
        /\ UNCHANGED <<table, confirmed, sources, todo, current, attempt, owner,
                       batch, buffer, copies, faults, accepted, damaged, latePolls>>

-----------------------------------------------------------------------------
(* fetch_data and its retries. *)

\* A response the poller makes k records of, none included.
Obtain(k) ==
  /\ state = "fetching"
  /\ Len(owner) + k <= MaxRecords
  /\ owner' = owner \o [i \in 1 .. k |-> current]
  /\ batch' = [i \in 1 .. k |-> Len(owner) + i]
  /\ state' = "publishing" /\ attempt' = 0
  /\ UNCHANGED <<table, confirmed, sources, todo, current, buffer,
                 copies, faults, accepted, damaged, latePolls>>

\* Mutation: one attempt too many.
RetryOnceMore ==
  /\ state = "fetching"
  /\ IF attempt <= MaxRetries
     THEN attempt' = attempt + 1 /\ UNCHANGED <<state, current>>
     ELSE state' = "polling" /\ current' = Absent /\ attempt' = 0
  /\ UNCHANGED <<table, confirmed, sources, todo, owner, batch, buffer, copies,
                 faults, accepted, damaged, latePolls>>

\* Mutation: when the attempts are used up they start over.
RetryForever ==
  /\ state = "fetching"
  /\ attempt' = IF attempt < MaxRetries THEN attempt + 1 ELSE 1
  /\ UNCHANGED <<table, confirmed, state, sources, todo, current, owner, batch,
                 buffer, copies, faults, accepted, damaged, latePolls>>

\* 429, 408, 5xx, or no answer in time: the attempts run out some day.
FetchTransient ==
  /\ state = "fetching"
  /\ IF attempt < MaxRetries
     THEN attempt' = attempt + 1 /\ UNCHANGED <<state, current>>
     ELSE state' = "polling" /\ current' = Absent /\ attempt' = 0
  /\ UNCHANGED <<table, confirmed, sources, todo, owner, batch, buffer, copies,
                 faults, accepted, damaged, latePolls>>

\* Any other status, or a body that is not JSON, is not tried again.
FetchPermanent ==
  /\ state = "fetching"
  /\ state' = "polling" /\ current' = Absent /\ attempt' = 0
  /\ UNCHANGED <<table, confirmed, sources, todo, owner, batch, buffer,
                 copies, faults, accepted, damaged, latePolls>>

Fetch == (\E k \in 0 .. MaxBatch : Obtain(k)) \/ FetchTransient \/ FetchPermanent

-----------------------------------------------------------------------------
(* Publishing, and the Kafka client behind it. *)

Publish ==
  /\ state = "publishing" /\ batch # <<>>
  /\ Cardinality(buffer) < QueueLimit
  /\ buffer' = buffer \cup {Head(batch)}
  /\ accepted' = accepted \cup {Head(batch)}
  /\ batch' = Tail(batch)
  /\ UNCHANGED <<table, confirmed, state, sources, todo, current, attempt,
                 owner, copies, faults, damaged, latePolls>>

\* produce raises, because the queue is full or for another reason (a message
\* that is too large, for one); publish_event raises again, and the poller
\* goes on with the next source.  The rest of the batch is gone.
PublishRefused ==
  /\ state = "publishing" /\ batch # <<>>
  /\ batch' = <<>>
  /\ state' = "polling" /\ current' = Absent
  /\ UNCHANGED <<table, confirmed, sources, todo, attempt, owner, buffer,
                 copies, faults, accepted, damaged, latePolls>>

EndBatch ==
  /\ state = "publishing" /\ batch = <<>>
  /\ state' = "polling" /\ current' = Absent
  /\ UNCHANGED <<table, confirmed, sources, todo, attempt, owner, batch, buffer,
                 copies, faults, accepted, damaged, latePolls>>

Deliver(i) ==
  /\ i \in buffer
  /\ buffer' = buffer \ {i}
  /\ copies' = [copies EXCEPT ![i] = @ + 1]
  /\ UNCHANGED <<table, confirmed, state, sources, todo, current, attempt,
                 owner, batch, faults, accepted, damaged, latePolls>>

\* The broker has the record, its acknowledgement is lost: the client, which
\* is not idempotent, sends it again.
AckLost(i) ==
  /\ i \in buffer /\ faults < MaxFaults
  /\ copies' = [copies EXCEPT ![i] = @ + 1]
  /\ faults' = faults + 1
  /\ UNCHANGED <<table, confirmed, state, sources, todo, current, attempt,
                 owner, batch, buffer, accepted, damaged, latePolls>>

\* The client gives up; the delivery report is written to the log.
DeliveryFails(i) ==
  /\ i \in buffer /\ faults < MaxFaults
  /\ buffer' = buffer \ {i}
  /\ faults' = faults + 1
  /\ damaged' = TRUE
  /\ UNCHANGED <<table, confirmed, state, sources, todo, current, attempt,
                 owner, batch, copies, accepted, latePolls>>

-----------------------------------------------------------------------------
(* The end of the process. *)

\* SIGTERM or SIGINT, wherever the thread is: the handler waits for the queue
\* to drain and exits; what the thread was doing is dropped.
Stop ==
  /\ state \in Live
  /\ state' = "flushing"
  /\ batch' = <<>> /\ current' = Absent /\ attempt' = 0
  /\ sources' = {} /\ todo' = {}
  /\ UNCHANGED <<table, confirmed, owner, buffer, copies,
                 faults, accepted, damaged, latePolls>>

\* Mutation: the handler only clears the flag.
ExitUnflushed ==
  /\ state = "flushing"
  /\ state' = "exited" /\ buffer' = {}
  /\ UNCHANGED <<table, confirmed, sources, todo, current, attempt, owner,
                 batch, copies, faults, accepted, damaged, latePolls>>

Exit ==
  /\ state = "flushing" /\ buffer = {}
  /\ state' = "exited"
  /\ UNCHANGED <<table, confirmed, sources, todo, current, attempt, owner,
                 batch, buffer, copies, faults, accepted, damaged, latePolls>>

Kill ==
  /\ state \in Live \cup {"flushing"} /\ faults < MaxFaults
  /\ state' = "killed"
  /\ batch' = <<>> /\ current' = Absent /\ attempt' = 0
  /\ sources' = {} /\ todo' = {}
  /\ buffer' = {} /\ damaged' = TRUE
  /\ faults' = faults + 1
  /\ UNCHANGED <<table, confirmed, owner, copies, accepted, latePolls>>

\* By an operator: the composition gives the container no restart policy.
Restart ==
  /\ state \in Ended
  /\ state' = "listing" /\ sources' = {}
  /\ UNCHANGED <<table, confirmed, todo, current, attempt, owner, batch, buffer,
                 copies, faults, accepted, damaged, latePolls>>

Poll == \/ ListFails \/ EndRound \/ Wake
        \/ \E n \in Names : Begin(n)
        \/ Fetch \/ Publish \/ PublishRefused \/ EndBatch
        \/ Exit

Next == \/ Registry
        \/ List \/ Poll
        \/ \E i \in Records : Deliver(i) \/ AckLost(i) \/ DeliveryFails(i)
        \/ Stop \/ Kill \/ Restart

Spec == Init /\ [][Next]_vars

\* The thread runs on, a list is answered now and then, and the Kafka client
\* delivers in the background.
FairSpec == /\ Spec
            /\ WF_vars(Poll)
            /\ SF_vars(List)
            /\ \A i \in Records : WF_vars(Deliver(i))

-----------------------------------------------------------------------------
(* Properties. *)

\* The shapes of the poller's variables (poller.py:56-116).
TypeOK ==
  /\ TableTypeOK
  /\ state \in Live \cup Ended \cup {"flushing"}
  /\ todo \subseteq sources /\ sources \subseteq Names
  /\ current \in Names \cup {Absent}
  /\ attempt \in 0 .. MaxRetries
  /\ owner \in Seq(Names) /\ Len(owner) <= MaxRecords
  /\ batch \in Seq(1 .. Len(owner))
  /\ buffer \subseteq accepted /\ accepted \subseteq 1 .. Len(owner)
  /\ Cardinality(buffer) <= QueueLimit
  /\ copies \in [Records -> 0 .. MaxFaults + 1]
  /\ faults \in 0 .. MaxFaults
  /\ damaged \in BOOLEAN
  /\ latePolls \in [Names -> Nat]

\* A source that is paused, stopped or withdrawn is polled at most once more,
\* by the round that is under way with an older list, also when the control
\* plane cannot be asked for a new one (poller.py:61-92).
AtMostOneLatePoll == \A n \in Names : latePolls[n] <= 1

\* What publish_event took without an error is in the topic or on its way,
\* and in the topic only once per send the broker acknowledged late: stopping
\* the service at any moment loses none of it (poller.py:113-116,
\* kafka_producer.py:25-43).
PublishedKept ==
  /\ ~damaged => \A i \in accepted \ buffer : copies[i] > 0
  /\ faults = 0 => \A i \in accepted : copies[i] <= (IF i \in buffer THEN 0 ELSE 1)
  /\ \A i \in Records \ accepted : copies[i] = 0

\* One source that fails, is rate limited or answers nothing keeps no other
\* source from being polled, again and again, as long as the service runs and
\* the page of the control plane has room for all (poller.py:82-111,
\* api_client.py:27-33).
EverySourcePolled ==
  \A n \in Names :
    <>[](table[n] = "active" /\ state \in Live) => []<>(current = n)
=============================================================================
