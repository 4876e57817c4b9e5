----------------------------- MODULE DataQuality -----------------------------
(***************************************************************************)
(* The data-quality engine of services/processing/app/main.py and the      *)
(* constraints of postgres-init/02-serving-schema.sql that its verdicts    *)
(* have to anticipate.                                                     *)
(*                                                                         *)
(* An event is what from_json leaves of one Kafka message: the four        *)
(* columns of the envelope, reduced to what the rules tell apart, and what *)
(* get_json_object finds in the payload.  An id is taken for its UUID: one *)
(* in capitals, which Spark tells apart and PostgreSQL does not, and one   *)
(* before a line break, which $ lets pass, are left out.                   *)
(***************************************************************************)
EXTENDS SqlLogic, Integers

CONSTANTS
  EventIds,     \* UUIDs, in one spelling each
  BadId,        \* stands for every id that does not match the pattern
  Sources,      \* source names
  RefusedNames, \* those that VARCHAR(255) refuses: too long, or with a NUL
  Times         \* instants, for the payload's timestamp and for ingested_at

ASSUME IdentityAssumption == /\ BadId \notin EventIds
                             /\ Null \notin EventIds \cup Sources \cup Times
                             /\ Null # BadId
ASSUME NamesAssumption == RefusedNames \subseteq Sources
ASSUME TimesAssumption == Times \subseteq Nat

\* What get_json_object(payload, '$.temperature') yields, seen through the
\* CAST to double and the range of the rule.
Readings == {"absent", "inRange", "outOfRange", "notNumeric"}

\* payload: no JSON, JSON that jsonb takes, or JSON that get_json_object takes
\* and jsonb refuses, such as one with a \u0000 in a string.
\* ingested_at: a string that to_timestamp can parse, one it cannot, or NULL.
\* Only in the first case does ingested_ts mean anything.
EventSpace == [event_id    : EventIds \cup {BadId, Null},
               source      : Sources \cup {Null},
               ingested_at : {"timestamp", "unparsable", "null"},
               ingested_ts : Times,
               payload     : {"malformed", "jsonb", "notJsonb"},
               temperature : Readings,
               humidity    : Readings,
               time        : Times \cup {Null}]

-----------------------------------------------------------------------------
(* The rules, in the order of the withColumn chain. *)

NullViolation(e) ==
  Sql(e.event_id = Null \/ e.source = Null \/ e.ingested_at = "null")

\* Mutation: a pattern that lost its anchors, or matches anything.
FormatViolationUnanchored(e) == IF e.event_id = Null THEN "null" ELSE "false"

\* NOT (event_id RLIKE ...): NULL RLIKE is NULL.
FormatViolation(e) ==
  IF e.event_id = Null THEN "null" ELSE Sql(e.event_id = BadId)

JsonValid(e) == Sql(e.payload # "malformed")

\* CAST(v AS DOUBLE) < low OR CAST(v AS DOUBLE) > high: a value that is not a
\* number casts to NULL, and so does the comparison.
OutOfRange(reading) == CASE reading = "outOfRange" -> "true"
                         [] reading = "inRange"    -> "false"
                         [] OTHER                  -> "null"

ReadingViolation(reading) == And3(Sql(reading # "absent"), OutOfRange(reading))

RangeViolation(e) ==
  Or3(ReadingViolation(e.temperature), ReadingViolation(e.humidity))

IsValid(e) ==
  And3(And3(And3(Not3(NullViolation(e)), JsonValid(e)),
            Not3(RangeViolation(e))),
       Not3(FormatViolation(e)))

-----------------------------------------------------------------------------
(* The two filters that route an event.  DataFrame.filter keeps a row only *)
(* when its condition is TRUE, so a NULL verdict passes neither of them.   *)

Quarantined(e) == IsValid(e) = "false"

Accepted(e) == IsValid(e) = "true"

\* COALESCE(payload.timestamp, payload.time, ingested_ts)
EventTime(e) == IF e.time # Null THEN e.time
                ELSE IF e.ingested_at = "timestamp" THEN e.ingested_ts
                ELSE Null

-----------------------------------------------------------------------------
(* What PostgreSQL demands of a row of each table. *)

\* source is VARCHAR(255) NOT NULL in every table.
SourceAllowed(source) == source \in Sources \ RefusedNames

\* processed_records: event_id is a UUID and the key, ingested_at is NOT NULL,
\* the readings are NULL or BETWEEN the bounds, the payload is cast to jsonb.
RecordRowAllowed(e) == /\ e.event_id \in EventIds
                       /\ SourceAllowed(e.source)
                       /\ e.ingested_at = "timestamp"
                       /\ e.payload = "jsonb"
                       /\ e.temperature # "outOfRange"
                       /\ e.humidity # "outOfRange"
=============================================================================
