--------------------------- MODULE SourceRegistry ---------------------------
(***************************************************************************)
(* The control plane's handlers that write the table of sources            *)
(* (services/control_plane/app/api/routes/sources.py:114-202).  FastAPI    *)
(* runs each request in a thread and with a session of its own, so         *)
(* requests interleave between their statements; PostgreSQL is at READ     *)
(* COMMITTED.  A row is known by the request that inserted it, as the code *)
(* knows it by its serial id.                                              *)
(***************************************************************************)
EXTENDS Naturals

CONSTANTS Creates,          \* requests that register a source
          Commands,         \* requests that start, pause or stop one
          Names,
          Null,
          NameOf,           \* the name each registration asks for
          KafkaConfigured,  \* whether there is a broker to create topics on
          MaxFaults         \* bound: failures of the database and crashes

Statuses == {"active", "paused", "stopped"}

ASSUME RegistryAssumption ==
  /\ Creates \cap Commands = {}
  /\ NameOf \in [Creates -> Names]
  /\ Null \notin Creates \cup Statuses
  /\ KafkaConfigured \in BOOLEAN
  /\ MaxFaults \in Nat

Requests == Creates \cup Commands

VARIABLES pc,      \* where each request is, or how it was answered
          row,     \* the row each registration inserted: its status, if it is there
          target,  \* the row each command names
          want,    \* the status it is to store
          loaded,  \* the status its session read
          topics,  \* the names that have a topic
          faults,
          held     \* auxiliary: the statuses the target had since it was read

vars == <<pc, row, target, want, loaded, topics, faults, held>>

Running == {"queried", "inserted", "refreshed", "created", "compensating",
            "loaded", "prepared"}
Answered == {"ok", "exists", "notFound", "unavailable", "error"}

Init == /\ pc = [r \in Requests |-> "idle"]
        /\ row = [c \in Creates |-> Null]
        /\ target = [r \in Commands |-> Null]
        /\ want = [r \in Commands |-> Null]
        /\ loaded = [r \in Commands |-> Null]
        /\ topics = {}
        /\ faults = 0
        /\ held = [r \in Commands |-> {}]

Goto(r, where) == pc' = [pc EXCEPT ![r] = where]

\* A new value of the rows, seen by the commands that are under way.
StoreRows(rows) ==
  /\ row' = rows
  /\ held' = [r \in Commands |-> IF pc[r] \in {"loaded", "prepared"}
                                 THEN held[r] \cup {rows[target[r]]}
                                 ELSE held[r]]

Taken(n) == \E c \in Creates : row[c] # Null /\ NameOf[c] = n

-----------------------------------------------------------------------------
(* create_source. *)

Query(c) ==
  /\ pc[c] = "idle"
  /\ Goto(c, IF Taken(NameOf[c]) THEN "exists" ELSE "queried")
  /\ UNCHANGED <<row, target, want, loaded, topics, faults, held>>

\* Mutation: the name has no unique constraint, the query is all there is.
InsertUnchecked(c) ==
  /\ pc[c] = "queried"
  /\ Goto(c, "inserted")
  /\ StoreRows([row EXCEPT ![c] = "active"])
  /\ UNCHANGED <<target, want, loaded, topics, faults>>

\* The unique constraint has the last word; the loser gets a 500.
Insert(c) ==
  /\ pc[c] = "queried"
  /\ IF Taken(NameOf[c])
     THEN Goto(c, "error") /\ UNCHANGED <<row, held>>
     ELSE Goto(c, "inserted") /\ StoreRows([row EXCEPT ![c] = "active"])
  /\ UNCHANGED <<target, want, loaded, topics, faults>>

Refresh(c) ==
  /\ pc[c] = "inserted"
  /\ Goto(c, "refreshed")
  /\ UNCHANGED <<row, target, want, loaded, topics, faults, held>>

\* The answer to a registration that went well.
Return(c) ==
  /\ pc[c] = "created"
  /\ Goto(c, "ok")
  /\ UNCHANGED <<row, target, want, loaded, topics, faults, held>>

\* Mutation: the session is not committed after the delete.
CompensateUncommitted(c) ==
  /\ pc[c] = "compensating"
  /\ Goto(c, "unavailable")
  /\ UNCHANGED <<row, target, want, loaded, topics, faults, held>>

\* The topic could not be created: the row goes, whatever its status is now.
Compensate(c) ==
  /\ pc[c] = "compensating"
  /\ Goto(c, "unavailable")
  /\ StoreRows([row EXCEPT ![c] = Null])
  /\ UNCHANGED <<target, want, loaded, topics, faults>>

-----------------------------------------------------------------------------
(* ensure_topic_exists, called by registrations and by start. *)

NeedsTopic(r) == \/ r \in Creates /\ pc[r] = "refreshed"
                 \/ r \in Commands /\ pc[r] = "loaded" /\ want[r] = "active"

TopicName(r) == IF r \in Creates THEN NameOf[r] ELSE NameOf[target[r]]

AfterTopic(r) == IF r \in Creates THEN "created" ELSE "prepared"

EnsureTopic(r) ==
  /\ NeedsTopic(r)
  /\ topics' = IF KafkaConfigured THEN topics \cup {TopicName(r)} ELSE topics
  /\ Goto(r, AfterTopic(r))
  /\ UNCHANGED <<row, target, want, loaded, faults, held>>

\* Mutation: a failure is logged and forgotten.
TopicIgnored(r) ==
  /\ NeedsTopic(r)
  /\ KafkaConfigured
  /\ Goto(r, AfterTopic(r))
  /\ UNCHANGED <<row, target, want, loaded, topics, faults, held>>

\* The broker answers with an error or not in time.  In the latter case it
\* may have created the topic all the same.
TopicFails(r) ==
  /\ NeedsTopic(r)
  /\ KafkaConfigured
  /\ topics' \in {topics, topics \cup {TopicName(r)}}
  /\ Goto(r, IF r \in Creates THEN "compensating" ELSE "unavailable")
  /\ UNCHANGED <<row, target, want, loaded, faults, held>>

-----------------------------------------------------------------------------
(* start_source, pause_source, stop_source. *)

\* get_source: one read of the row the client names.
Load(r, c, s) ==
  /\ pc[r] = "idle"
  /\ target' = [target EXCEPT ![r] = c]
  /\ want' = [want EXCEPT ![r] = s]
  /\ loaded' = [loaded EXCEPT ![r] = row[c]]
  /\ held' = [held EXCEPT ![r] = {row[c]}]
  /\ Goto(r, IF row[c] = Null THEN "notFound" ELSE "loaded")
  /\ UNCHANGED <<row, topics, faults>>

ReadyToStore(r) == \/ pc[r] = "prepared"
                   \/ pc[r] = "loaded" /\ want[r] # "active"

\* Mutation: the answer goes out without a commit.
ForgetStatus(r) ==
  /\ ReadyToStore(r)
  /\ Goto(r, "ok")
  /\ UNCHANGED <<row, target, want, loaded, topics, faults, held>>

\* Mutation: the row is merged, and inserted again if it has gone.
MergeStatus(r) ==
  /\ ReadyToStore(r)
  /\ Goto(r, "ok")
  /\ StoreRows([row EXCEPT ![target[r]] = want[r]])
  /\ UNCHANGED <<target, want, loaded, topics, faults>>

\* Mutation: the handler of stop stores another word.
MisspeltStatus(r) ==
  /\ ReadyToStore(r)
  /\ Goto(r, "ok")
  /\ StoreRows([row EXCEPT ![target[r]] = "stop"])
  /\ UNCHANGED <<target, want, loaded, topics, faults>>

\* The commit.  The session sends an UPDATE only when the status differs
\* from the one it read, and fails when the UPDATE finds no row.
StoreStatus(r) ==
  /\ ReadyToStore(r)
  /\ \/ /\ loaded[r] = want[r]
        /\ Goto(r, "ok")
        /\ UNCHANGED <<row, held>>
     \/ /\ loaded[r] # want[r]
        /\ row[target[r]] = Null
        /\ Goto(r, "error")
        /\ UNCHANGED <<row, held>>
     \/ /\ loaded[r] # want[r]
        /\ row[target[r]] # Null
        /\ Goto(r, "ok")
        /\ StoreRows([row EXCEPT ![target[r]] = want[r]])
  /\ UNCHANGED <<target, want, loaded, topics, faults>>

-----------------------------------------------------------------------------
(* Faults. *)

\* The row a request that loses its connection may have written in the
\* commit it did not get the answer of.
InDoubt(r) ==
  IF r \in Creates
  THEN CASE pc[r] = "queried" /\ ~Taken(NameOf[r]) -> {row, [row EXCEPT ![r] = "active"]}
         [] pc[r] = "compensating" -> {row, [row EXCEPT ![r] = Null]}
         [] OTHER -> {row}
  ELSE IF ReadyToStore(r) /\ row[target[r]] # Null /\ loaded[r] # want[r]
       THEN {row, [row EXCEPT ![target[r]] = want[r]]}
       ELSE {row}

\* A statement fails: the handler has no code for it, the client gets a 500.
DatabaseFails(r) ==
  /\ faults < MaxFaults
  /\ \/ pc[r] \in {"queried", "inserted", "compensating"}
     \/ ReadyToStore(r)
  /\ \E rows \in InDoubt(r) : StoreRows(rows)
  /\ Goto(r, "error")
  /\ faults' = faults + 1
  /\ UNCHANGED <<target, want, loaded, topics>>

\* The process dies: every request under way is lost between two statements.
Crash ==
  /\ faults < MaxFaults
  /\ \E r \in Requests : pc[r] \in Running
  /\ pc' = [r \in Requests |-> IF pc[r] \in Running THEN "lost" ELSE pc[r]]
  /\ faults' = faults + 1
  /\ UNCHANGED <<row, target, want, loaded, topics, held>>

Next == \/ \E c \in Creates : Query(c) \/ Insert(c) \/ Refresh(c) \/ Return(c)
                              \/ Compensate(c)
        \/ \E r \in Commands : \/ \E c \in Creates, s \in Statuses : Load(r, c, s)
                               \/ StoreStatus(r)
        \/ \E r \in Requests : EnsureTopic(r) \/ TopicFails(r) \/ DatabaseFails(r)
        \/ Crash

Spec == Init /\ [][Next]_vars

-----------------------------------------------------------------------------
(* Properties. *)

\* The shapes of the requests and of the rows (sources.py:114-202).
TypeOK ==
  /\ pc \in [Requests -> {"idle", "lost"} \cup Running \cup Answered]
  /\ row \in [Creates -> Statuses \cup {Null}]
  /\ target \in [Commands -> Creates \cup {Null}]
  /\ want \in [Commands -> Statuses \cup {Null}]
  /\ loaded \in [Commands -> Statuses \cup {Null}]
  /\ topics \subseteq Names
  /\ faults \in 0 .. MaxFaults
  /\ held \in [Commands -> SUBSET (Statuses \cup {Null})]

\* Two registrations that race between the query and the insert never leave
\* two rows of one name (sources.py:116-128, 02-serving-schema.sql:4).
NamesUnique ==
  \A c, d \in Creates :
    row[c] # Null /\ row[d] # Null /\ NameOf[c] = NameOf[d] => c = d

\* A client that was told its source runs has a topic to find its records
\* in, whichever requests and failures came in between (sources.py:131-138,
\* 182-188).
AnsweredHasTopic ==
  KafkaConfigured =>
    /\ \A c \in Creates : pc[c] = "ok" => NameOf[c] \in topics
    /\ \A r \in Commands :
         pc[r] = "ok" /\ want[r] = "active" => NameOf[target[r]] \in topics

\* A source the poller is to poll has its topic, except while its own
\* registration is between the insert and the topic, or was cut off there
\* (sources.py:128-136).
ActiveHasTopic ==
  KafkaConfigured =>
    \A c \in Creates :
      row[c] = "active" /\ NameOf[c] \notin topics =>
        pc[c] \in {"inserted", "refreshed", "compensating", "lost", "error"}

\* A command answered with success found or made the status it reports, at
\* some moment between its read and its answer: nobody is told of a status
\* the source never had (sources.py:179-202).
AnswersHonest ==
  \A r \in Commands : pc[r] = "ok" => want[r] \in held[r]

StatusOf(n) == IF Taken(n)
               THEN row[CHOOSE c \in Creates : row[c] # Null /\ NameOf[c] = n]
               ELSE Null

StatusTable == [n \in Names |-> StatusOf(n)]

Confirmed == {NameOf[c] : c \in {c \in Creates : pc[c] = "ok"}}

Table == INSTANCE SourceTable
           WITH Absent <- Null, table <- StatusTable, confirmed <- Confirmed

\* Seen from outside, the handlers implement the table of sources: what was
\* confirmed stays, and a command never brings a withdrawn source back.
ImplementsTable == Table!TableSpec
=============================================================================
