-------------------------- MODULE Streaming_proofs --------------------------
(***************************************************************************)
(* What the verdicts of the data-quality rules imply about an event, for   *)
(* every event a message can be parsed into; type correctness and the      *)
(* write-ahead rule of the processing application, for every set of        *)
(* queries, events and bounds.                                             *)
(***************************************************************************)
EXTENDS StreamingProperties, FiniteSetTheorems, TLAPS

-----------------------------------------------------------------------------
(* The data-quality rules. *)

\* A rule's verdict is a SQL truth value, and the operators keep it one.
LEMMA LogicType ==
  /\ \A b \in BOOLEAN : Sql(b) \in Truth
  /\ \A x \in Truth : Not3(x) \in Truth
  /\ \A x, y \in Truth : And3(x, y) \in Truth /\ Or3(x, y) \in Truth
  BY DEF Truth, Sql, Not3, And3, Or3

\* A conjunction is TRUE when both sides are, FALSE when either is.
LEMMA Conjunction ==
  \A x, y \in Truth : /\ And3(x, y) = "true" <=> x = "true" /\ y = "true"
                      /\ And3(x, y) = "false" <=> x = "false" \/ y = "false"
  BY DEF Truth, And3

\* One reading's part of the range rule.
LEMMA ReadingVerdict ==
  ASSUME NEW reading \in Readings
  PROVE  /\ ReadingViolation(reading) \in Truth
         /\ ReadingViolation(reading) = "true" <=> reading = "outOfRange"
         /\ ReadingViolation(reading) = "null" <=> reading = "notNumeric"
  BY DEF Readings, ReadingViolation, OutOfRange, And3, Sql, Truth

\* The range rule is broken by a reading out of range, and undecided when a
\* reading is not a number and neither is out of range (main.py:194-197).
LEMMA RangeVerdict ==
  ASSUME NEW e \in EventSpace
  PROVE  /\ RangeViolation(e) \in Truth
         /\ RangeViolation(e) = "true" <=>
              e.temperature = "outOfRange" \/ e.humidity = "outOfRange"
         /\ RangeViolation(e) = "null" <=>
              /\ e.temperature # "outOfRange" /\ e.humidity # "outOfRange"
              /\ e.temperature = "notNumeric" \/ e.humidity = "notNumeric"
<1>1. e.temperature \in Readings /\ e.humidity \in Readings
  BY DEF EventSpace
<1>. QED
  BY <1>1, ReadingVerdict DEF RangeViolation, Or3, Truth

\* The other three rules.
LEMMA OtherVerdicts ==
  ASSUME NEW e \in EventSpace
  PROVE  /\ NullViolation(e) \in Truth /\ FormatViolation(e) \in Truth
         /\ JsonValid(e) \in Truth
         /\ Not3(NullViolation(e)) = "true" <=>
              e.event_id # Null /\ e.source # Null /\ e.ingested_at # "null"
         /\ Not3(NullViolation(e)) # "null"
         /\ JsonValid(e) = "true" <=> e.payload # "malformed"
         /\ JsonValid(e) # "null"
         /\ Not3(FormatViolation(e)) = "true" <=>
              e.event_id # Null /\ e.event_id # BadId
         /\ Not3(FormatViolation(e)) = "null" <=> e.event_id = Null
  BY DEF EventSpace, NullViolation, FormatViolation, JsonValid, Not3, Sql, Truth

\* The verdict on an event is made of the verdicts of the four rules.
LEMMA Verdict ==
  ASSUME NEW e \in EventSpace
  PROVE  /\ IsValid(e) \in Truth
         /\ IsValid(e) = "true" <=> /\ Not3(NullViolation(e)) = "true"
                                    /\ JsonValid(e) = "true"
                                    /\ Not3(RangeViolation(e)) = "true"
                                    /\ Not3(FormatViolation(e)) = "true"
         /\ IsValid(e) = "false" <=> \/ Not3(NullViolation(e)) = "false"
                                     \/ JsonValid(e) = "false"
                                     \/ Not3(RangeViolation(e)) = "false"
                                     \/ Not3(FormatViolation(e)) = "false"
<1>. DEFINE n == Not3(NullViolation(e))
            j == JsonValid(e)
            r == Not3(RangeViolation(e))
            f == Not3(FormatViolation(e))
<1>1. n \in Truth /\ j \in Truth /\ r \in Truth /\ f \in Truth
  BY LogicType, RangeVerdict, OtherVerdicts
<1>2. And3(n, j) \in Truth /\ And3(And3(n, j), r) \in Truth
      /\ And3(And3(And3(n, j), r), f) \in Truth
  BY <1>1, LogicType
<1>3. IsValid(e) = And3(And3(And3(n, j), r), f)
  BY DEF IsValid
<1>. HIDE DEF n, j, r, f
<1>4. /\ IsValid(e) \in Truth
      /\ IsValid(e) = "true" <=> n = "true" /\ j = "true" /\ r = "true" /\ f = "true"
      /\ IsValid(e) = "false" <=>
           n = "false" \/ j = "false" \/ r = "false" \/ f = "false"
  BY <1>1, <1>2, <1>3, Conjunction
<1>. QED
  BY <1>4 DEF n, j, r, f

\* What the filter is_valid == True lets through (main.py:197, 210).
LEMMA AcceptedEvent ==
  ASSUME NEW e \in EventSpace, Accepted(e)
  PROVE  /\ e.event_id \in EventIds
         /\ e.source \in Sources
         /\ e.ingested_at \in {"timestamp", "unparsable"}
         /\ e.payload # "malformed"
         /\ e.temperature \in {"absent", "inRange"}
         /\ e.humidity \in {"absent", "inRange"}
<1>1. /\ Not3(NullViolation(e)) = "true" /\ JsonValid(e) = "true"
      /\ Not3(RangeViolation(e)) = "true" /\ Not3(FormatViolation(e)) = "true"
  BY Verdict DEF Accepted
<1>2. RangeViolation(e) = "false"
  BY <1>1, RangeVerdict DEF Not3, Truth
<1>. QED
  BY <1>1, <1>2, OtherVerdicts, RangeVerdict DEF EventSpace, Readings

\* Of what processed_records demands of a row, the rules leave three things
\* unchecked, and each of them alone lets an accepted event poison its batch:
\* an ingested_at that is no timestamp, a payload that jsonb refuses and a name
\* that VARCHAR(255) refuses (main.py:89, 184-197, 02-serving-schema.sql:17-34).
THEOREM RulesMissThreeConstraints ==
  \A e \in EventSpace :
    Accepted(e) => (RecordRowAllowed(e) <=> /\ e.ingested_at = "timestamp"
                                            /\ e.payload = "jsonb"
                                            /\ e.source \notin RefusedNames)
  BY AcceptedEvent DEF RecordRowAllowed, SourceAllowed, EventSpace

\* Neither filter takes an event exactly when its only fault is a reading
\* that is not a number; no event passes both (main.py:197-210).
THEOREM RoutedUnlessNotNumeric ==
  \A e \in EventSpace :
    /\ ~(Accepted(e) /\ Quarantined(e))
    /\ ~Accepted(e) /\ ~Quarantined(e) <=>
         /\ e.event_id \in EventIds
         /\ e.source \in Sources
         /\ e.ingested_at # "null"
         /\ e.payload # "malformed"
         /\ e.temperature # "outOfRange" /\ e.humidity # "outOfRange"
         /\ e.temperature = "notNumeric" \/ e.humidity = "notNumeric"
<1>. SUFFICES ASSUME NEW e \in EventSpace
              PROVE  /\ ~(Accepted(e) /\ Quarantined(e))
                     /\ ~Accepted(e) /\ ~Quarantined(e) <=>
                          /\ e.event_id \in EventIds
                          /\ e.source \in Sources
                          /\ e.ingested_at # "null"
                          /\ e.payload # "malformed"
                          /\ e.temperature # "outOfRange"
                          /\ e.humidity # "outOfRange"
                          /\ \/ e.temperature = "notNumeric"
                             \/ e.humidity = "notNumeric"
  OBVIOUS
<1>1. Not3(RangeViolation(e)) = "null" <=> RangeViolation(e) = "null"
  BY RangeVerdict DEF Not3, Truth
<1>2. Not3(RangeViolation(e)) \in Truth /\ Not3(FormatViolation(e)) \in Truth
      /\ Not3(NullViolation(e)) \in Truth
  BY LogicType, RangeVerdict, OtherVerdicts
<1>3. e.event_id \in EventIds <=> e.event_id # Null /\ e.event_id # BadId
  BY IdentityAssumption DEF EventSpace
<1>4. e.source \in Sources <=> e.source # Null
  BY IdentityAssumption DEF EventSpace
<1>5. ~Accepted(e) /\ ~Quarantined(e) <=>
        /\ Not3(NullViolation(e)) = "true" /\ JsonValid(e) = "true"
        /\ Not3(FormatViolation(e)) = "true"
        /\ Not3(RangeViolation(e)) = "null"
  BY <1>2, Verdict, OtherVerdicts DEF Accepted, Quarantined, Truth
<1>. QED
  BY <1>1, <1>3, <1>4, <1>5, OtherVerdicts, RangeVerdict
     DEF Accepted, Quarantined

-----------------------------------------------------------------------------
(* The inductive invariant. *)

\* The write-ahead rule as far as it survives a new version of a checkpoint,
\* whose batches are numbered from 1 below a manifest that may have more.
CheckpointOrder ==
  \A q \in Queries :
    /\ PlannedInOrder(q)
    /\ Len(offsetLog[q]) \in {commitLog[q], commitLog[q] + 1}
    /\ commitLog[q] <= Shown(q)
    /\ q \in TableQueries => Shown(q) <= Len(offsetLog[q])

\* A batch that went through its sink in this incarnation of the driver is
\* still in flight, and the sink shows it.
SunkInFlight ==
  \A q \in Queries :
    lastExecution[q] = "sunk" =>
      /\ Len(offsetLog[q]) = commitLog[q] + 1
      /\ commitLog[q] + 1 <= Shown(q)

\* The invariant that is inductive: offsets have to lie within the log for the
\* rows of a batch to be events, and so for the sinks to have their types.
IInv == TypeOK /\ CheckpointOrder /\ SunkInFlight

\* Without new versions no manifest is ahead of its offset log.
FilesBehind ==
  \A q \in Queries \cap FileQueries : Len(files[q]) <= Len(offsetLog[q])

-----------------------------------------------------------------------------
(* The rows of a batch. *)

\* Every message in the log is one that from_json can yield.
LEMMA LogEvents ==
  ASSUME TypeOK, NEW p \in 1 .. Len(log)
  PROVE  log[p] \in EventSpace
  BY EventsAssumption DEF TypeOK

\* The end of a planned batch is an offset of the log.
LEMMA LogLength == TypeOK => Len(log) \in Nat
  BY DEF TypeOK

LEMMA EndBounds ==
  ASSUME TypeOK, CheckpointOrder, NEW q \in Queries, NEW b \in Int,
         b <= Len(offsetLog[q])
  PROVE  End(q, b) \in 0 .. Len(log)
<1>1. Len(log) \in Nat /\ Len(offsetLog[q]) \in Nat /\ offsetLog[q] \in Seq(Nat)
  BY DEF TypeOK
<1>2. CASE b < 1
  BY <1>1, <1>2 DEF End
<1>3. CASE b >= 1
  <2>1. b \in 1 .. Len(offsetLog[q])
    BY <1>1, <1>3
  <2>2. offsetLog[q][b] \in Nat /\ offsetLog[q][b] <= Len(log)
    BY <1>1, <2>1 DEF CheckpointOrder, PlannedInOrder
  <2>. QED
    BY <1>1, <1>3, <2>2 DEF End
<1>. QED
  BY <1>2, <1>3

\* A planned batch consists of positions of the log, finitely many.
LEMMA BatchPositions ==
  ASSUME TypeOK, CheckpointOrder, NEW q \in Queries, NEW b \in Int,
         b <= Len(offsetLog[q])
  PROVE  Batch(q, b) \subseteq 1 .. Len(log) /\ IsFiniteSet(Batch(q, b))
<1>1. End(q, b) \in 0 .. Len(log) /\ End(q, b - 1) \in 0 .. Len(log)
  BY EndBounds DEF TypeOK
<1>2. Len(log) \in Nat
  BY DEF TypeOK
<1>3. Batch(q, b) \subseteq 1 .. Len(log)
  BY <1>1, <1>2 DEF Batch
<1>4. IsFiniteSet(1 .. Len(log))
  BY <1>2, FS_Interval
<1>. QED
  BY <1>3, <1>4, FS_Subset

\* The batch in flight is planned.
LEMMA PendingPlanned ==
  ASSUME TypeOK, NEW q \in Queries, InFlight(q)
  PROVE  /\ Pending(q) \in Nat \ {0}
         /\ Pending(q) = Len(offsetLog[q])
         /\ Pending(q) = commitLog[q] + 1
  BY DEF TypeOK, InFlight, Pending

\* The rows of the in-flight batch of any sink are positions of the log.
LEMMA RowPositions ==
  ASSUME TypeOK, CheckpointOrder, NEW q \in Queries, InFlight(q)
  PROVE  /\ Batch(q, Pending(q)) \subseteq 1 .. Len(log)
         /\ IsFiniteSet(Batch(q, Pending(q)))
         /\ Fresh(q, Pending(q)) \subseteq Batch(q, Pending(q))
         /\ q \in FileQueries =>
              FileRows(q, Pending(q)) \subseteq Batch(q, Pending(q))
<1>1. /\ Batch(q, Pending(q)) \subseteq 1 .. Len(log)
      /\ IsFiniteSet(Batch(q, Pending(q)))
  BY PendingPlanned, BatchPositions
<1>2. Fresh(q, Pending(q)) \subseteq Batch(q, Pending(q))
  BY DEF Fresh
<1>3. ASSUME q \in FileQueries
      PROVE  FileRows(q, Pending(q)) \subseteq Batch(q, Pending(q))
  <2>1. CASE q = "raw"
    BY <2>1 DEF FileRows
  <2>2. CASE q = "quarantine"
    BY <2>2 DEF FileRows
  <2>3. CASE q = "parquet"
    BY <1>2, <2>3 DEF FileRows
  <2>. QED
    BY <1>3, <2>1, <2>2, <2>3 DEF FileQueries
<1>. QED
  BY <1>1, <1>2, <1>3

\* The ids dropDuplicates sees are ids that passed the format rule.
LEMMA FreshIds ==
  ASSUME TypeOK, CheckpointOrder, NEW q \in Queries, InFlight(q)
  PROVE  \A p \in Fresh(q, Pending(q)) : log[p].event_id \in EventIds
<1>. TAKE p \in Fresh(q, Pending(q))
<1>1. p \in 1 .. Len(log)
  BY RowPositions
<1>2. Accepted(log[p])
  BY DEF Fresh
<1>. QED
  BY <1>1, <1>2, LogEvents, AcceptedEvent

\* The aggregates of the quality metrics are counts.
LEMMA TallyType ==
  ASSUME NEW rows, IsFiniteSet(rows)
  PROVE  Tally(rows) \in Counters
<1>1. /\ Cardinality(rows) \in Nat
      /\ Cardinality({p \in rows : Accepted(log[p])}) \in Nat
      /\ Cardinality({p \in rows : Quarantined(log[p])}) \in Nat
      /\ Cardinality({p \in rows : NullViolation(log[p]) = "true"}) \in Nat
      /\ Cardinality({p \in rows : RangeViolation(log[p]) = "true"}) \in Nat
  BY FS_CardinalityType, FS_Subset, Zenon
<1>. QED
  BY <1>1 DEF Tally, Counters

LEMMA PlusType ==
  ASSUME NEW s \in Counters, NEW t \in Counters
  PROVE  Plus(s, t) \in Counters
<1>1. \A f \in {"total", "valid", "invalid", "nulls", "ranges"} :
        s[f] + t[f] \in Nat
  BY DEF Counters
<1>. QED
  BY <1>1 DEF Plus, Counters

-----------------------------------------------------------------------------
(* Every action preserves the invariant. *)

LEMMA InitIInv == Init => IInv
<1>. SUFFICES ASSUME Init PROVE IInv
  OBVIOUS
<1>1. NoRow \in Row /\ NoTally \in Counters
  BY DEF NoRow, NoTally, Row, Counters
<1>2. TypeOK
  BY <1>1, BoundsAssumption DEF Init, TypeOK
<1>3. CheckpointOrder
  BY QueriesAssumption
     DEF Init, CheckpointOrder, PlannedInOrder, Shown, FileQueries, TableQueries
<1>4. SunkInFlight
  BY DEF Init, SunkInFlight
<1>. QED
  BY <1>2, <1>3, <1>4 DEF IInv

LEMMA ProduceIInv ==
  ASSUME IInv, NEW e \in Events, Produce(e)
  PROVE  IInv'
<1>. USE DEF Produce, driver, checkpoint, tables
<1>1. /\ log' \in Seq(Events) /\ Len(log') = Len(log) + 1 /\ Len(log) \in Nat
      /\ \A p \in 1 .. Len(log) : log'[p] = log[p]
  BY DEF IInv, TypeOK
<1>2. TypeOK'
  BY <1>1 DEF IInv, TypeOK
<1>3. CheckpointOrder'
  <2>1. \A q \in Queries : offsetLog[q] \in Seq(Nat)
    BY DEF IInv, TypeOK
  <2>. QED
    BY <1>1, <2>1 DEF IInv, CheckpointOrder, PlannedInOrder, Shown
<1>4. SunkInFlight'
  BY DEF IInv, SunkInFlight, Shown
<1>. QED
  BY <1>2, <1>3, <1>4 DEF IInv

LEMMA PlanIInv ==
  ASSUME IInv, NEW q \in Queries, Plan(q)
  PROVE  IInv'
<1>. DEFINE old == offsetLog[q]
            new == Append(old, Len(log))
<1>1. /\ Len(log) \in Nat /\ old \in Seq(Nat) /\ commitLog[q] \in Nat
      /\ Len(old) = commitLog[q]
  BY DEF Plan, IInv, TypeOK, CheckpointOrder, InFlight, Pending
<1>2. /\ new \in Seq(Nat) /\ Len(new) = Len(old) + 1
      /\ new[Len(new)] = Len(log)
      /\ \A b \in 1 .. Len(old) : new[b] = old[b]
  BY <1>1
<1>3. offsetLog' = [offsetLog EXCEPT ![q] = new]
  BY DEF Plan
<1>4. UNCHANGED <<environment, driver, version, commitLog, seen, windowCount,
                  metricState, files, tables>>
  BY DEF Plan
<1>. USE DEF environment, driver, tables
<1>. HIDE DEF new
<1>5. offsetLog'[q] = new /\ \A r \in Queries \ {q} : offsetLog'[r] = offsetLog[r]
  BY <1>3 DEF IInv, TypeOK
<1>6. TypeOK'
  BY <1>2, <1>3, <1>4 DEF IInv, TypeOK
<1>7. PlannedInOrder(q)'
  <2>1. /\ \A b, c \in 1 .. Len(old) : b <= c => old[b] <= old[c]
        /\ \A b \in 1 .. Len(old) : old[b] <= Len(log)
    BY DEF IInv, CheckpointOrder, PlannedInOrder
  <2>. HIDE DEF old
  <2>2. \A b \in 1 .. Len(new) : new[b] <= Len(log)
    BY <1>1, <1>2, <2>1
  <2>3. ASSUME NEW b \in 1 .. Len(new), NEW c \in 1 .. Len(new), b <= c
        PROVE  new[b] <= new[c]
    <3>1. CASE c = Len(new)
      BY <1>2, <2>2, <3>1
    <3>2. CASE c # Len(new)
      <4>1. b \in 1 .. Len(old) /\ c \in 1 .. Len(old)
        BY <1>1, <1>2, <2>3, <3>2
      <4>2. new[b] = old[b] /\ new[c] = old[c]
        BY <1>2, <4>1
      <4>3. old[b] <= old[c]
        BY <2>1, <2>3, <4>1
      <4>. QED
        BY <4>2, <4>3
    <3>. QED
      BY <3>1, <3>2
  <2>. QED
    BY <1>4, <1>5, <2>2, <2>3 DEF PlannedInOrder
<1>8. ASSUME NEW r \in Queries
      PROVE  /\ PlannedInOrder(r)'
             /\ Len(offsetLog'[r]) \in {commitLog'[r], commitLog'[r] + 1}
             /\ commitLog'[r] <= Shown(r)'
             /\ r \in TableQueries => Shown(r)' <= Len(offsetLog'[r])
  <2>1. Shown(r)' = Shown(r) /\ commitLog' = commitLog
    BY <1>4 DEF Shown
  <2>2. /\ commitLog[r] <= Shown(r)
        /\ r \in TableQueries => Shown(r) <= Len(offsetLog[r])
    BY DEF IInv, CheckpointOrder
  <2>3. CASE r # q
    BY <1>4, <1>5, <2>1, <2>2, <2>3 DEF IInv, CheckpointOrder, PlannedInOrder
  <2>4. CASE r = q
    <3>1. Len(new) = commitLog[q] + 1
      BY <1>1, <1>2
    <3>2. q \in TableQueries => Shown(q) \in Nat
      BY DEF IInv, TypeOK, Shown, FileQueries, TableQueries
    <3>3. q \in TableQueries => Shown(q) <= Len(new)
      BY <1>1, <1>2, <2>2, <2>4, <3>2
    <3>. QED
      BY <1>4, <1>5, <1>7, <2>1, <2>2, <2>4, <3>1, <3>3
  <2>. QED
    BY <2>3, <2>4
<1>9. SunkInFlight'
  <2>1. lastExecution[q] # "sunk"
    BY <1>1 DEF IInv, SunkInFlight
  <2>. QED
    BY <1>4, <1>5, <2>1 DEF IInv, SunkInFlight, Shown
<1>. QED
  BY <1>6, <1>8, <1>9 DEF IInv, CheckpointOrder

LEMMA WriteFilesIInv ==
  ASSUME IInv, NEW q \in Queries \cap FileQueries, WriteFiles(q)
  PROVE  IInv'
<1>. DEFINE old == files[q]
            new == Append(old, FileRows(q, Pending(q)))
<1>1. /\ Pending(q) \in Nat /\ Pending(q) = commitLog[q] + 1
      /\ Pending(q) = Len(offsetLog[q])
  BY PendingPlanned DEF IInv, WriteFiles, Runnable
<1>2. /\ old \in Seq(SUBSET Nat)
      /\ Len(old) \in Nat
      /\ commitLog[q] <= Len(old)
  BY DEF IInv, TypeOK, CheckpointOrder, Shown
<1>3. FileRows(q, Pending(q)) \in SUBSET Nat
  BY RowPositions DEF IInv, TypeOK, WriteFiles, Runnable
<1>4. /\ new \in Seq(SUBSET Nat) /\ Len(new) = Len(old) + 1
      /\ Len(old) \in Nat /\ commitLog[q] \in Nat
  BY <1>2, <1>3 DEF IInv, TypeOK
<1>5. /\ files' = IF Pending(q) > Len(old) THEN [files EXCEPT ![q] = new]
                  ELSE files
      /\ lastExecution' = [lastExecution EXCEPT ![q] = "sunk"]
      /\ UNCHANGED <<environment, app, checkpoint, tables>>
  BY DEF WriteFiles
<1>. USE DEF environment, checkpoint, tables
<1>6. /\ files' \in [FileQueries -> Seq(SUBSET Nat)]
      /\ Pending(q) <= Len(files'[q])
      /\ \A r \in FileQueries \ {q} : files'[r] = files[r]
  <2>1. files \in [FileQueries -> Seq(SUBSET Nat)]
    BY DEF IInv, TypeOK
  <2>2. CASE Pending(q) > Len(old)
    <3>1. Pending(q) <= Len(new)
      <4>. HIDE DEF new, old
      <4>. QED
        BY <1>1, <1>2, <1>4, <2>2
    <3>2. files' = [files EXCEPT ![q] = new]
      BY <1>5, <2>2
    <3>. HIDE DEF new
    <3>. QED
      BY <1>4, <2>1, <3>1, <3>2
  <2>3. CASE ~(Pending(q) > Len(old))
    BY <1>1, <1>2, <1>5, <2>1, <2>3
  <2>. QED
    BY <2>2, <2>3
<1>7. TypeOK'
  BY <1>5, <1>6 DEF IInv, TypeOK
<1>8. CheckpointOrder'
  <2>1. \A r \in Queries : PlannedInOrder(r)' = PlannedInOrder(r)
    BY <1>5 DEF PlannedInOrder
  <2>2. /\ commitLog[q] + 1 <= Shown(q)' /\ Shown(q)' \in Nat
        /\ \A r \in Queries \ {q} : Shown(r)' = Shown(r)
    BY <1>1, <1>5, <1>6 DEF Shown
  <2>3. commitLog[q] \in Nat /\ q \notin TableQueries
    BY DEF IInv, TypeOK, FileQueries, TableQueries
  <2>. QED
    BY <1>1, <1>5, <2>1, <2>2, <2>3 DEF IInv, CheckpointOrder
<1>9. SunkInFlight'
  <2>1. lastExecution \in [Queries -> {"none", "sunk", "done"}]
    BY DEF IInv, TypeOK
  <2>. QED
    BY <1>1, <1>5, <1>6, <2>1 DEF IInv, SunkInFlight, Shown
<1>. QED
  BY <1>7, <1>8, <1>9 DEF IInv

\* What the three upserts have in common.
LEMMA UpsertsIInv ==
  ASSUME IInv, NEW q \in Queries \cap TableQueries, Upserts(q),
         records' \in [EventIds -> Row],
         aggregates' \in [Groups -> Nat],
         metrics' \in [Groups -> Counters]
  PROVE  IInv'
<1>1. /\ Pending(q) \in Nat /\ Pending(q) = commitLog[q] + 1
      /\ Pending(q) = Len(offsetLog[q])
  BY PendingPlanned DEF IInv, Upserts, Runnable
<1>2. /\ landed' = [landed EXCEPT ![q] = Pending(q)]
      /\ lastExecution' = [lastExecution EXCEPT ![q] = "sunk"]
      /\ UNCHANGED <<environment, app, checkpoint, files>>
  BY DEF Upserts
<1>. USE DEF environment, checkpoint
<1>3. /\ landed' \in [TableQueries -> Nat]
      /\ landed'[q] = Pending(q)
      /\ \A r \in TableQueries \ {q} : landed'[r] = landed[r]
  BY <1>1, <1>2 DEF IInv, TypeOK
<1>4. TypeOK'
  BY <1>2, <1>3 DEF IInv, TypeOK
<1>5. q \notin FileQueries
  BY DEF FileQueries, TableQueries
<1>6. Shown(q)' = commitLog[q] + 1
  BY <1>1, <1>3, <1>5 DEF Shown
<1>7. \A r \in Queries \ {q} : Shown(r)' = Shown(r)
  BY <1>2, <1>3, QueriesAssumption DEF Shown
<1>8. CheckpointOrder'
  <2>1. \A r \in Queries : PlannedInOrder(r)' = PlannedInOrder(r)
    BY <1>2 DEF PlannedInOrder
  <2>2. commitLog[q] \in Nat
    BY DEF IInv, TypeOK
  <2>. QED
    BY <1>1, <1>2, <1>6, <1>7, <2>1, <2>2 DEF IInv, CheckpointOrder
<1>9. SunkInFlight'
  <2>1. lastExecution \in [Queries -> {"none", "sunk", "done"}]
    BY DEF IInv, TypeOK
  <2>. QED
    BY <1>1, <1>2, <1>6, <1>7, <2>1 DEF IInv, SunkInFlight
<1>. QED
  BY <1>4, <1>8, <1>9 DEF IInv

LEMMA UpsertRecordsIInv ==
  ASSUME IInv, "postgres" \in Queries, UpsertRecords
  PROVE  IInv'
<1>1. InFlight("postgres")
  BY DEF UpsertRecords, Upserts, Runnable
<1>2. RowsFor("postgres") \subseteq Nat
  <2>1. Batch("postgres", Pending("postgres")) \subseteq Nat
    BY <1>1, RowPositions DEF IInv, TypeOK
  <2>. QED
    BY <2>1 DEF RowsFor, FirstCopies
<1>3. Pending("postgres") \in Nat
  BY <1>1, PendingPlanned DEF IInv
<1>4. records' \in [EventIds -> Row]
  <2>1. records \in [EventIds -> Row]
    BY DEF IInv, TypeOK
  <2>2. ASSUME NEW i \in EventIds,
               NEW p \in RowsFor("postgres"), log[p].event_id = i
        PROVE  (CHOOSE r \in RowsFor("postgres") : log[r].event_id = i) \in Nat
    BY <1>2, <2>2
  <2>. QED
    BY <1>3, <2>1, <2>2, Zenon DEF UpsertRecords, Row
<1>. QED
  BY <1>4, UpsertsIInv DEF UpsertRecords, IInv, TypeOK, TableQueries

\* The counts of the windows after the batch in flight are counts.
LEMMA CountAfterType ==
  ASSUME IInv, "aggregates" \in Queries, InFlight("aggregates")
  PROVE  \A g \in Groups : CountAfter(g, Pending("aggregates")) \in Nat
<1>. TAKE g \in Groups
<1>1. IsFiniteSet(CountedIn(g, Pending("aggregates")))
  <2>1. CountedIn(g, Pending("aggregates"))
          \subseteq Batch("aggregates", Pending("aggregates"))
    BY DEF CountedIn, Fresh
  <2>. QED
    BY <2>1, RowPositions, FS_Subset DEF IInv
<1>2. windowCount[g] \in Nat
  BY DEF IInv, TypeOK
<1>. QED
  BY <1>1, <1>2, FS_CardinalityType DEF CountAfter

LEMMA UpsertAggregatesIInv ==
  ASSUME IInv, "aggregates" \in Queries, UpsertAggregates
  PROVE  IInv'
<1>1. InFlight("aggregates")
  BY DEF UpsertAggregates, Upserts, Runnable
<1>2. aggregates' \in [Groups -> Nat]
  BY <1>1, CountAfterType DEF UpsertAggregates, IInv, TypeOK
<1>. QED
  BY <1>2, UpsertsIInv DEF UpsertAggregates, IInv, TypeOK, TableQueries

\* The tallies of the metrics after the batch in flight are tallies.
LEMMA TallyAfterType ==
  ASSUME IInv, "metrics" \in Queries, InFlight("metrics")
  PROVE  \A g \in Groups : TallyAfter(g, Pending("metrics")) \in Counters
<1>. TAKE g \in Groups
<1>1. IsFiniteSet(MeasuredIn(g, Pending("metrics")))
  <2>1. MeasuredIn(g, Pending("metrics"))
          \subseteq Batch("metrics", Pending("metrics"))
    BY DEF MeasuredIn
  <2>. QED
    BY <2>1, RowPositions, FS_Subset DEF IInv
<1>2. metricState[g] \in Counters
  BY DEF IInv, TypeOK
<1>. QED
  BY <1>1, <1>2, TallyType, PlusType DEF TallyAfter

LEMMA UpsertMetricsIInv ==
  ASSUME IInv, "metrics" \in Queries, UpsertMetrics
  PROVE  IInv'
<1>1. InFlight("metrics")
  BY DEF UpsertMetrics, Upserts, Runnable
<1>2. metrics' \in [Groups -> Counters]
  BY <1>1, TallyAfterType DEF UpsertMetrics, IInv, TypeOK
<1>. QED
  BY <1>2, UpsertsIInv DEF UpsertMetrics, IInv, TypeOK, TableQueries

LEMMA CommitIInv ==
  ASSUME IInv, NEW q \in Queries, Commit(q)
  PROVE  IInv'
<1>1. lastExecution[q] = "sunk"
  BY DEF Commit
<1>2. /\ Len(offsetLog[q]) = commitLog[q] + 1
      /\ commitLog[q] + 1 <= Shown(q)
      /\ Pending(q) = commitLog[q] + 1
      /\ InFlight(q)
  BY <1>1 DEF IInv, SunkInFlight, Pending, InFlight
<1>3. commitLog[q] \in Nat /\ NoTally \in Counters
  BY DEF IInv, TypeOK, NoTally, Counters
<1>4. /\ commitLog' = [commitLog EXCEPT ![q] = commitLog[q] + 1]
      /\ lastExecution' = [lastExecution EXCEPT ![q] = "done"]
      /\ UNCHANGED <<environment, app, version, offsetLog, files, tables>>
  BY <1>2 DEF Commit
<1>. USE DEF environment, tables
<1>5. seen' \in [DedupQueries -> SUBSET EventIds]
  <2>1. seen \in [DedupQueries -> SUBSET EventIds]
    BY DEF IInv, TypeOK
  <2>2. SeenAfter(q) \in SUBSET EventIds \/ q \notin DedupQueries
    BY <1>2, <2>1, FreshIds DEF SeenAfter, IInv
  <2>. QED
    BY <2>1, <2>2 DEF Commit
<1>6. windowCount' \in [Groups -> Nat]
  <2>1. CASE q = "aggregates"
    <3>1. \A g \in Groups : CountAfter(g, Pending(q)) \in Nat
      BY <1>2, <2>1, CountAfterType
    <3>. QED
      BY <2>1, <3>1 DEF Commit
  <2>2. CASE q # "aggregates"
    BY <2>2 DEF Commit, IInv, TypeOK
  <2>. QED
    BY <2>1, <2>2
<1>7. metricState' \in [Groups -> Counters]
  <2>1. CASE q = "metrics"
    <3>1. \A g \in Groups : TallyAfter(g, Pending(q)) \in Counters
      BY <1>2, <2>1, TallyAfterType
    <3>. QED
      BY <1>3, <2>1, <3>1 DEF Commit
  <2>2. CASE q # "metrics"
    BY <2>2 DEF Commit, IInv, TypeOK
  <2>. QED
    BY <2>1, <2>2
<1>8. TypeOK'
  BY <1>3, <1>4, <1>5, <1>6, <1>7 DEF IInv, TypeOK
<1>9. CheckpointOrder'
  <2>1. \A r \in Queries :
          PlannedInOrder(r)' = PlannedInOrder(r) /\ Shown(r)' = Shown(r)
    BY <1>4 DEF PlannedInOrder, Shown
  <2>2. /\ commitLog'[q] = commitLog[q] + 1
        /\ \A r \in Queries \ {q} : commitLog'[r] = commitLog[r]
    BY <1>4 DEF IInv, TypeOK
  <2>. QED
    BY <1>2, <1>3, <1>4, <2>1, <2>2 DEF IInv, CheckpointOrder
<1>10. SunkInFlight'
  <2>1. /\ lastExecution'[q] # "sunk"
        /\ \A r \in Queries \ {q} : /\ lastExecution'[r] = lastExecution[r]
                                    /\ commitLog'[r] = commitLog[r]
    BY <1>4 DEF IInv, TypeOK
  <2>. QED
    BY <1>4, <2>1 DEF IInv, SunkInFlight, Shown
<1>. QED
  BY <1>8, <1>9, <1>10 DEF IInv

\* Steps that touch neither a checkpoint nor a sink, and leave no batch run.
LEMMA DriverIInv ==
  ASSUME IInv, UNCHANGED <<log, checkpoint, files, tables>>,
         app' \in {"up", "down"}, postgres' \in BOOLEAN,
         crashes' \in 0 .. MaxCrashes, outages' \in 0 .. MaxOutages,
         lastExecution' \in {lastExecution, [q \in Queries |-> "none"]}
  PROVE  IInv'
<1>. USE DEF checkpoint, tables
<1>1. TypeOK'
  BY DEF IInv, TypeOK
<1>2. CheckpointOrder'
  BY DEF IInv, CheckpointOrder, PlannedInOrder, Shown
<1>3. SunkInFlight'
  BY DEF IInv, SunkInFlight, Shown
<1>. QED
  BY <1>1, <1>2, <1>3 DEF IInv

\* The invariant is inductive.
LEMMA NextIInv == IInv /\ [Next]_vars => IInv'
<1>. SUFFICES ASSUME IInv, [Next]_vars
              PROVE  IInv'
  OBVIOUS
<1>. USE DEF environment, driver
<1>1. ASSUME NEW e \in Events, Produce(e)
      PROVE  IInv'
  BY <1>1, ProduceIInv
<1>2. ASSUME NEW q \in Queries, Plan(q)
      PROVE  IInv'
  BY <1>2, PlanIInv
<1>3. ASSUME NEW q \in Queries, RunBatch(q)
      PROVE  IInv'
  BY <1>3, WriteFilesIInv, UpsertRecordsIInv, UpsertAggregatesIInv,
     UpsertMetricsIInv DEF RunBatch
<1>4. ASSUME NEW q \in Queries, UpsertFails(q)
      PROVE  IInv'
  BY <1>4, DriverIInv DEF UpsertFails, IInv, TypeOK
<1>5. ASSUME NEW q \in Queries, Commit(q)
      PROVE  IInv'
  BY <1>5, CommitIInv
<1>6. CASE Crash
  BY <1>6, DriverIInv, BoundsAssumption DEF Crash, IInv, TypeOK
<1>7. CASE Restart
  BY <1>7, DriverIInv DEF Restart, IInv, TypeOK
<1>8. CASE PostgresDown
  <2>1. postgres' \in BOOLEAN /\ UNCHANGED <<log, crashes, driver, checkpoint, files, tables>>
    BY <1>8 DEF PostgresDown
  <2>2. outages' \in 0 .. MaxOutages
    BY <1>8, BoundsAssumption DEF PostgresDown, IInv, TypeOK
  <2>3. /\ app \in {"up", "down"} /\ crashes \in 0 .. MaxCrashes
    BY DEF IInv, TypeOK
  <2>. QED
    BY <2>1, <2>2, <2>3, DriverIInv
<1>9. CASE PostgresUp
  BY <1>9, DriverIInv DEF PostgresUp, IInv, TypeOK
<1>10. CASE UNCHANGED vars
  BY <1>10, DriverIInv DEF vars, checkpoint, tables, IInv, TypeOK
<1>. QED
  BY <1>1, <1>2, <1>3, <1>4, <1>5, <1>6, <1>7, <1>8, <1>9, <1>10 DEF Next

\* Every reachable state satisfies the inductive invariant.
THEOREM Invariance == Spec => []IInv
  BY InitIInv, NextIInv, PTL DEF Spec

\* Every variable of the application keeps its type (main.py:143-280).
THEOREM TypeCorrectness == Spec => []TypeOK
<1>1. IInv => TypeOK
  BY DEF IInv
<1>. QED
  BY <1>1, Invariance, PTL

\* A batch that is not in the manifest is the one in flight.
LEMMA FilesBehindStep == IInv /\ FilesBehind /\ [Next]_vars => FilesBehind'
<1>. SUFFICES ASSUME IInv, FilesBehind, [Next]_vars,
                     NEW q \in Queries \cap FileQueries
              PROVE  Len(files'[q]) <= Len(offsetLog'[q])
  BY DEF FilesBehind
<1>1. /\ files \in [FileQueries -> Seq(SUBSET Nat)]
      /\ offsetLog \in [Queries -> Seq(Nat)]
      /\ Len(files[q]) \in Nat /\ Len(offsetLog[q]) \in Nat
      /\ Len(files[q]) <= Len(offsetLog[q])
  BY DEF IInv, TypeOK, FilesBehind
<1>2. ASSUME NEW r \in Queries \cap FileQueries, WriteFiles(r)
      PROVE  Len(files'[q]) <= Len(offsetLog'[q])
  <2>1. offsetLog' = offsetLog /\ Pending(r) = Len(offsetLog[r])
    BY <1>2, PendingPlanned DEF WriteFiles, Runnable, checkpoint, IInv
  <2>2. FileRows(r, Pending(r)) \in SUBSET Nat
    <3>1. InFlight(r)
      BY <1>2 DEF WriteFiles, Runnable
    <3>2. FileRows(r, Pending(r)) \subseteq 1 .. Len(log)
      BY <3>1, RowPositions DEF IInv
    <3>. QED
      BY <3>2
  <2>3. CASE Pending(r) > Len(files[r])
    <3>. DEFINE new == Append(files[r], FileRows(r, Pending(r)))
    <3>1. files' = [files EXCEPT ![r] = new]
      BY <1>2, <2>3 DEF WriteFiles
    <3>2. Len(new) = Len(files[r]) + 1
      BY <1>1, <2>2
    <3>. HIDE DEF new
    <3>. QED
      BY <1>1, <2>1, <2>3, <3>1, <3>2
  <2>4. CASE ~(Pending(r) > Len(files[r]))
    <3>1. files' = files
      BY <1>2, <2>4 DEF WriteFiles
    <3>. QED
      BY <1>1, <2>1, <3>1
  <2>. QED
    BY <2>3, <2>4
<1>3. ASSUME NEW r \in Queries, Plan(r)
      PROVE  Len(files'[q]) <= Len(offsetLog'[q])
  <2>. DEFINE new == Append(offsetLog[r], Len(log))
  <2>1. files' = files /\ offsetLog' = [offsetLog EXCEPT ![r] = new]
    BY <1>3 DEF Plan
  <2>2. Len(new) = Len(offsetLog[r]) + 1
    BY <1>1 DEF IInv, TypeOK
  <2>. HIDE DEF new
  <2>. QED
    BY <1>1, <2>1, <2>2
<1>4. \/ \E r \in Queries \cap FileQueries : WriteFiles(r)
      \/ \E r \in Queries : Plan(r)
      \/ UNCHANGED <<files, offsetLog>>
  BY DEF Next, RunBatch, Produce, UpsertRecords, UpsertAggregates,
         UpsertMetrics, Upserts, UpsertFails, Commit, Crash, Restart,
         PostgresDown, PostgresUp, checkpoint, vars
<1>. QED
  BY <1>1, <1>2, <1>3, <1>4

\* The checkpoint is written ahead of the sinks and the sinks ahead of the
\* commit log, across crashes, failed upserts and re-runs (main.py:175-278).
THEOREM CheckpointDiscipline == Spec => []WriteAhead
<1>1. Init => FilesBehind
  BY DEF Init, FilesBehind
<1>2. IInv /\ FilesBehind => WriteAhead
  <2>. SUFFICES ASSUME IInv, FilesBehind, NEW q \in Queries
                PROVE  Shown(q) \in commitLog[q] .. Len(offsetLog[q])
    BY DEF WriteAhead, IInv, CheckpointOrder
  <2>1. Shown(q) \in Nat /\ commitLog[q] \in Nat /\ Len(offsetLog[q]) \in Nat
    BY QueriesAssumption DEF IInv, TypeOK, Shown
  <2>2. commitLog[q] <= Shown(q) /\ Shown(q) <= Len(offsetLog[q])
    BY QueriesAssumption
       DEF IInv, CheckpointOrder, FilesBehind, Shown, FileQueries, TableQueries
  <2>. QED
    BY <2>1, <2>2
<1>. QED
  BY <1>1, <1>2, FilesBehindStep, Invariance, PTL DEF Spec
=============================================================================
