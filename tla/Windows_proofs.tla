---------------------------- MODULE Windows_proofs ----------------------------
(***************************************************************************)
(* The two windowed tables, telemetry_aggregates and data_quality_metrics: *)
(* a row is exact while its window is open, never goes down, and is final  *)
(* once its window is closed.                                              *)
(*                                                                         *)
(* The lemmas about a step hold from every state, also from one in which a *)
(* new version of the checkpoint has just been started above old rows.     *)
(***************************************************************************)
EXTENDS Sinks_proofs

AG == "aggregates"
MQ == "metrics"

\* The watermark of batch b has passed the end of the group's window.
Shut(q, b, g) == Reached(q, b, WindowEnd(g.window))

\* The accepted events of a group, of the first n messages, and their ids.
CountedUpTo(g, n) ==
  {p \in 1 .. n : /\ Accepted(log[p])
                  /\ EventTime(log[p]) # Null
                  /\ GroupAt(log[p], EventTime(log[p])) = g}

IdsOf(S) == {log[p].event_id : p \in S}

\* The events ingested in a window, of the first n messages.
MeasuredUpTo(g, n) ==
  {p \in 1 .. n : /\ IngestedTs(log[p]) # Null
                  /\ GroupAt(log[p], IngestedTs(log[p])) = g}

\* The messages a row of the table of q can account for: those that are
\* planned, and after a new version, until its first batch is planned, all.
Horizon(q) == IF offsetLog[q] = <<>> THEN Len(log)
              ELSE End(q, Len(offsetLog[q]))

-----------------------------------------------------------------------------
(* Watermarks. *)

\* The time a message gives to a watermark.
LEMMA WatermarkTimes ==
  ASSUME TypeOK, NEW q, NEW p \in 1 .. Len(log)
  PROVE  WatermarkTime(q, log[p]) \in Nat \cup {Null}
<1>1. log[p] \in EventSpace
  BY LogEvents
<1>2. IngestedTs(log[p]) \in Nat \cup {Null}
  BY <1>1, TimesAssumption DEF IngestedTs, EventSpace
<1>3. EventTime(log[p]) \in Nat \cup {Null}
  BY <1>1, TimesAssumption DEF EventTime, EventSpace
<1>. QED
  BY <1>2, <1>3 DEF WatermarkTime

\* A watermark that has reached a time has reached every earlier one, and it
\* never goes back.
LEMMA ReachedMonotone ==
  ASSUME IInv, NEW q \in Queries, NEW b \in Int, NEW c \in Int, b <= c,
         c - 1 <= Len(offsetLog[q]), NEW s \in Int, NEW t \in Int, s <= t,
         Reached(q, b, t)
  PROVE  Reached(q, c, s)
<1>1. PICK p \in 1 .. End(q, b - 1) :
        /\ WatermarkTime(q, log[p]) # Null
        /\ WatermarkTime(q, log[p]) - Delay(q) >= t
  BY DEF Reached
<1>2. /\ b - 1 \in Int /\ c - 1 \in Int /\ b - 1 <= c - 1
      /\ b - 1 <= Len(offsetLog[q]) /\ Len(offsetLog[q]) \in Nat
  BY DEF IInv, TypeOK
<1>3. End(q, b - 1) <= End(q, c - 1)
  BY <1>2, EndMonotone
<1>4. /\ End(q, b - 1) \in 0 .. Len(log) /\ End(q, c - 1) \in 0 .. Len(log)
      /\ Len(log) \in Nat
  BY <1>2, EndBounds, LogLength DEF IInv
<1>5. p \in 1 .. End(q, c - 1) /\ p \in 1 .. Len(log)
  BY <1>3, <1>4
<1>6. WatermarkTime(q, log[p]) \in Nat
  BY <1>1, <1>5, WatermarkTimes DEF IInv
<1>7. Delay(q) \in Nat
  BY LengthsAssumption DEF Delay
<1>8. WatermarkTime(q, log[p]) - Delay(q) >= s
  BY <1>1, <1>6, <1>7
<1>. QED
  BY <1>1, <1>5, <1>8 DEF Reached

\* A planned batch keeps its watermark.
LEMMA ReachedStable ==
  ASSUME IInv, [Next]_vars, NEW q \in Queries, NEW b \in Int,
         b - 1 <= Len(offsetLog[q]), NEW t
  PROVE  Reached(q, b, t)' <=> Reached(q, b, t)
<1>1. PICK c \in Int : c = b - 1 /\ c <= Len(offsetLog[q])
  OBVIOUS
<1>2. End(q, c)' = End(q, c) /\ \A p \in 1 .. End(q, c) : log'[p] = log[p]
  BY <1>1, BatchStable
<1>. QED
  BY <1>1, <1>2 DEF Reached

-----------------------------------------------------------------------------
(* Windows. *)

\* A window is an interval of natural numbers.
LEMMA InWindow ==
  ASSUME NEW t \in Nat
  PROVE  /\ WindowOf(t) \in Int /\ WindowEnd(WindowOf(t)) \in Int
         /\ t <= WindowEnd(WindowOf(t))
<1>1. PICK p \in Nat : p = WindowLength /\ p > 0
  BY LengthsAssumption
<1>2. t \div p \in Int /\ t % p \in 0 .. p - 1
  BY <1>1
<1>3. t = p * (t \div p) + (t % p)
  BY <1>1, SMTT(30)
<1>4. PICK d \in Int, r \in Int : d = t \div p /\ r = t % p /\ r < p
  BY <1>1, <1>2
<1>5. (d + 1) * p \in Int /\ t <= (d + 1) * p
  BY <1>1, <1>3, <1>4
<1>. QED
  BY <1>1, <1>4, <1>5 DEF WindowOf, WindowEnd

\* The ends of windows are instants.
LEMMA WindowEnds ==
  ASSUME NEW g \in Groups
  PROVE  WindowEnd(g.window) \in Int
<1>1. PICK t \in Nat : g.window = WindowOf(t)
  BY TimesAssumption DEF Groups, Windows
<1>. QED
  BY <1>1, InWindow

\* A window begins before it ends.
LEMMA StartBeforeEnd ==
  ASSUME NEW g \in Groups
  PROVE  /\ WindowStart(g.window) \in Int /\ WindowEnd(g.window) \in Int
         /\ WindowStart(g.window) <= WindowEnd(g.window)
<1>1. PICK t \in Nat : g.window = WindowOf(t)
  BY TimesAssumption DEF Groups, Windows
<1>2. PICK w \in Int, p \in Nat : w = g.window /\ p = WindowLength
  BY <1>1, InWindow, LengthsAssumption
<1>3. /\ w * p \in Int /\ (w + 1) * p \in Int
      /\ w * p <= (w + 1) * p
  OBVIOUS
<1>. QED
  BY <1>2, <1>3 DEF WindowStart, WindowEnd

\* The time of an event is not before its window.
LEMMA EventsInWindow ==
  ASSUME TypeOK, NEW p \in 1 .. Len(log), EventTime(log[p]) # Null
  PROVE  /\ EventTime(log[p]) \in Int
         /\ WindowStart(WindowOf(EventTime(log[p]))) \in Int
         /\ WindowStart(WindowOf(EventTime(log[p]))) <= EventTime(log[p])
<1>1. PICK t \in Nat : t = EventTime(log[p])
  BY LogEvents, TimesAssumption DEF EventTime, EventSpace
<1>2. PICK w \in Nat : w = WindowLength /\ w > 0
  BY LengthsAssumption
<1>3. t \div w \in Int /\ t % w \in 0 .. w - 1
  BY <1>2
<1>4. t = w * (t \div w) + (t % w)
  BY <1>2, SMTT(30)
<1>5. PICK d \in Int, r \in Nat : d = t \div w /\ r = t % w
  BY <1>2, <1>3
<1>6. d * w \in Int /\ d * w <= t
  BY <1>2, <1>4, <1>5
<1>. QED
  BY <1>1, <1>2, <1>5, <1>6 DEF WindowStart, WindowOf

\* A batch adds nothing to a window that its late rows are judged to be past.
LEMMA CountedWhileKept ==
  ASSUME IInv, AG \in Queries, InFlight(AG), NEW g \in Groups,
         CountedIn(g, Pending(AG)) # {}
  PROVE  ~Shut(AG, commitLog[AG], g)
<1>1. PICK b \in Nat, c \in Nat :
        /\ b = Pending(AG) /\ c = commitLog[AG] /\ b - 1 = c
        /\ b = Len(offsetLog[AG])
  BY PendingPlanned DEF IInv, TypeOK
<1>2. PICK p \in CountedIn(g, b) : TRUE
  BY <1>1
<1>3. /\ p \in Fresh(AG, b)
      /\ EventTime(log[p]) # Null
      /\ g.window = WindowOf(EventTime(log[p]))
  BY <1>2 DEF CountedIn, GroupAt, AG
<1>4. p \in 1 .. Len(log)
  BY <1>1, <1>3, RowPositions DEF IInv
<1>5. EventTime(log[p]) \in Nat
  BY <1>3, <1>4, LogEvents, TimesAssumption DEF EventTime, EventSpace, IInv
<1>6. ~Reached(AG, c, EventTime(log[p]))
  BY <1>1, <1>3 DEF Fresh, LateEvent
<1>7. EventTime(log[p]) <= WindowEnd(g.window) /\ WindowEnd(g.window) \in Int
  BY <1>3, <1>5, InWindow
<1>8. c - 1 <= Len(offsetLog[AG]) /\ c \in Int
  BY <1>1
<1>9. ~Reached(AG, c, WindowEnd(g.window))
  BY <1>5, <1>6, <1>7, <1>8, ReachedMonotone
<1>. QED
  BY <1>1, <1>9 DEF Shut

LEMMA MeasuredWhileKept ==
  ASSUME IInv, MQ \in Queries, InFlight(MQ), NEW g \in Groups,
         MeasuredIn(g, Pending(MQ)) # {}
  PROVE  ~Shut(MQ, commitLog[MQ], g)
<1>1. Pending(MQ) - 1 = commitLog[MQ]
  BY PendingPlanned DEF IInv, TypeOK
<1>. QED
  BY <1>1 DEF MeasuredIn, Shut, MQ

-----------------------------------------------------------------------------
(* Counts and tallies. *)

\* A batch with nothing for a group leaves its count and its tally.
LEMMA CountUnchanged ==
  ASSUME IInv, NEW g \in Groups, NEW b, CountedIn(g, b) = {}
  PROVE  CountAfter(g, b) = windowCount[g]
<1>1. Cardinality(CountedIn(g, b)) = 0
  BY FS_EmptySet
<1>2. windowCount[g] \in Nat
  BY DEF IInv, TypeOK
<1>. QED
  BY <1>1, <1>2 DEF CountAfter

LEMMA DisjointUnion ==
  ASSUME NEW S, IsFiniteSet(S), NEW T, IsFiniteSet(T), S \cap T = {}
  PROVE  Cardinality(S \cup T) = Cardinality(S) + Cardinality(T)
<1>1. Cardinality(S \cup T) = Cardinality(S) + Cardinality(T) - Cardinality(S \cap T)
  BY FS_Union, Zenon
<1>2. Cardinality(S \cap T) = 0
  BY FS_EmptySet
<1>3. Cardinality(S) \in Nat /\ Cardinality(T) \in Nat
  BY FS_CardinalityType
<1>. QED
  BY <1>1, <1>2, <1>3

\* The tally of two sets of messages is the sum of their tallies.
LEMMA TallyOfUnion ==
  ASSUME NEW S, IsFiniteSet(S), NEW T, IsFiniteSet(T), S \cap T = {}
  PROVE  Tally(S \cup T) = Plus(Tally(S), Tally(T))
<1>. DEFINE A(R) == {p \in R : Accepted(log[p])}
            Q(R) == {p \in R : Quarantined(log[p])}
            N(R) == {p \in R : NullViolation(log[p]) = "true"}
            V(R) == {p \in R : RangeViolation(log[p]) = "true"}
<1>1. /\ A(S \cup T) = A(S) \cup A(T) /\ A(S) \cap A(T) = {}
      /\ Q(S \cup T) = Q(S) \cup Q(T) /\ Q(S) \cap Q(T) = {}
      /\ N(S \cup T) = N(S) \cup N(T) /\ N(S) \cap N(T) = {}
      /\ V(S \cup T) = V(S) \cup V(T) /\ V(S) \cap V(T) = {}
  OBVIOUS
<1>2. /\ IsFiniteSet(A(S)) /\ IsFiniteSet(A(T))
      /\ IsFiniteSet(Q(S)) /\ IsFiniteSet(Q(T))
      /\ IsFiniteSet(N(S)) /\ IsFiniteSet(N(T))
      /\ IsFiniteSet(V(S)) /\ IsFiniteSet(V(T))
  BY FS_Subset, Zenon
<1>3. \A R : Tally(R) = [total |-> Cardinality(R), valid |-> Cardinality(A(R)),
                        invalid |-> Cardinality(Q(R)),
                        nulls |-> Cardinality(N(R)),
                        ranges |-> Cardinality(V(R))]
  BY Zenon DEF Tally
<1>. HIDE DEF A, Q, N, V
<1>4. /\ Cardinality(S \cup T) = Cardinality(S) + Cardinality(T)
      /\ Cardinality(A(S \cup T)) = Cardinality(A(S)) + Cardinality(A(T))
      /\ Cardinality(Q(S \cup T)) = Cardinality(Q(S)) + Cardinality(Q(T))
      /\ Cardinality(N(S \cup T)) = Cardinality(N(S)) + Cardinality(N(T))
      /\ Cardinality(V(S \cup T)) = Cardinality(V(S)) + Cardinality(V(T))
  BY <1>1, <1>2, DisjointUnion
<1>. QED
  BY <1>3, <1>4 DEF Plus

\* The tally of no message.
LEMMA TallyOfNone == Tally({}) = NoTally
<1>1. Cardinality({}) = 0
  BY FS_EmptySet
<1>2. /\ {p \in {} : Accepted(log[p])} = {}
      /\ {p \in {} : Quarantined(log[p])} = {}
      /\ {p \in {} : NullViolation(log[p]) = "true"} = {}
      /\ {p \in {} : RangeViolation(log[p]) = "true"} = {}
  OBVIOUS
<1>. QED
  BY <1>1, <1>2, Zenon DEF Tally, NoTally

\* A tally looks at nothing but the messages it is of.
LEMMA TallyStable ==
  ASSUME NEW S, \A p \in S : log'[p] = log[p]
  PROVE  Tally(S)' = Tally(S)
<1>1. /\ {p \in S : Accepted(log[p])}' = {p \in S : Accepted(log[p])}
      /\ {p \in S : Quarantined(log[p])}' = {p \in S : Quarantined(log[p])}
      /\ {p \in S : NullViolation(log[p]) = "true"}'
           = {p \in S : NullViolation(log[p]) = "true"}
      /\ {p \in S : RangeViolation(log[p]) = "true"}'
           = {p \in S : RangeViolation(log[p]) = "true"}
  OBVIOUS
<1>. QED
  BY <1>1 DEF Tally

\* Messages with different ids are as many as their ids.
LEMMA DistinctIds ==
  ASSUME NEW S, IsFiniteSet(S)
  PROVE  /\ IsFiniteSet(IdsOf(S))
         /\ (\A p, r \in S : log[p].event_id = log[r].event_id => p = r)
              => Cardinality(IdsOf(S)) = Cardinality(S)
<1>. DEFINE id == [p \in S |-> log[p].event_id]
<1>1. id \in Surjection(S, IdsOf(S))
  BY DEF Surjection, IdsOf
<1>2. (\A p, r \in S : log[p].event_id = log[r].event_id => p = r)
        => id \in Injection(S, IdsOf(S))
  BY DEF Injection, IsInjective, IdsOf
<1>. HIDE DEF id
<1>. QED
  BY <1>1, <1>2, FS_Surjection

-----------------------------------------------------------------------------
(* What a step does to the windowed tables and their state. *)

\* The offsets of a query of the tables and the batch in flight.
LEMMA TableOffsets ==
  ASSUME IInv, NEW q \in Queries \cap {AG, MQ}
  PROVE  /\ commitLog[q] \in Nat /\ Len(offsetLog[q]) \in Nat
         /\ landed[q] \in {commitLog[q], commitLog[q] + 1}
         /\ landed[q] <= Len(offsetLog[q])
         /\ commitLog[q] <= Len(offsetLog[q])
         /\ Pending(q) = commitLog[q] + 1
         /\ lastExecution[q] = "sunk" => landed[q] = Pending(q) /\ InFlight(q)
<1>1. Shown(q) = landed[q] /\ q \in TableQueries
  BY DEF Shown, AG, MQ, FileQueries, TableQueries
<1>2. /\ landed[q] \in Nat /\ commitLog[q] \in Nat /\ Len(offsetLog[q]) \in Nat
  BY <1>1 DEF IInv, TypeOK
<1>3. /\ Len(offsetLog[q]) \in {commitLog[q], commitLog[q] + 1}
      /\ commitLog[q] <= landed[q] /\ landed[q] <= Len(offsetLog[q])
      /\ lastExecution[q] = "sunk" =>
           Len(offsetLog[q]) = commitLog[q] + 1 /\ commitLog[q] + 1 <= landed[q]
  BY <1>1 DEF IInv, CheckpointOrder, SunkInFlight
<1>. QED
  BY <1>2, <1>3 DEF Pending, InFlight

LEMMA CountSteps ==
  ASSUME IInv, [Next]_vars, AG \in Queries
  PROVE  \/ UpsertAggregates
         \/ Commit(AG)
         \/ /\ UNCHANGED <<aggregates, windowCount>>
            /\ landed'[AG] = landed[AG] /\ commitLog'[AG] = commitLog[AG]
            /\ seen'[AG] = seen[AG]
<1>1. CASE UpsertRecords \/ UpsertMetrics
  BY <1>1 DEF UpsertRecords, UpsertMetrics, Upserts, checkpoint, IInv, TypeOK,
              TableQueries, AG
<1>2. ASSUME NEW q \in Queries, q # AG, Commit(q)
      PROVE  /\ UNCHANGED <<aggregates, windowCount>>
             /\ landed'[AG] = landed[AG] /\ commitLog'[AG] = commitLog[AG]
             /\ seen'[AG] = seen[AG]
  BY <1>2 DEF Commit, tables, IInv, TypeOK, DedupQueries, AG
<1>3. CASE \/ \E e \in Events : Produce(e)
           \/ \E q \in Queries : Plan(q) \/ WriteFiles(q) \/ UpsertFails(q)
           \/ Crash \/ Restart \/ PostgresDown \/ PostgresUp
           \/ UNCHANGED vars
  BY <1>3 DEF Produce, Plan, WriteFiles, UpsertFails, Crash, Restart,
              PostgresDown, PostgresUp, tables, checkpoint, vars
<1>. QED
  BY <1>1, <1>2, <1>3 DEF Next, RunBatch

LEMMA TallySteps ==
  ASSUME IInv, [Next]_vars, MQ \in Queries
  PROVE  \/ UpsertMetrics
         \/ Commit(MQ)
         \/ /\ UNCHANGED <<metrics, metricState>>
            /\ landed'[MQ] = landed[MQ] /\ commitLog'[MQ] = commitLog[MQ]
<1>1. CASE UpsertRecords \/ UpsertAggregates
  BY <1>1 DEF UpsertRecords, UpsertAggregates, Upserts, checkpoint, IInv,
              TypeOK, TableQueries, MQ
<1>2. ASSUME NEW q \in Queries, q # MQ, Commit(q)
      PROVE  /\ UNCHANGED <<metrics, metricState>>
             /\ landed'[MQ] = landed[MQ] /\ commitLog'[MQ] = commitLog[MQ]
  BY <1>2 DEF Commit, tables, IInv, TypeOK, MQ
<1>3. CASE \/ \E e \in Events : Produce(e)
           \/ \E q \in Queries : Plan(q) \/ WriteFiles(q) \/ UpsertFails(q)
           \/ Crash \/ Restart \/ PostgresDown \/ PostgresUp
           \/ UNCHANGED vars
  BY <1>3 DEF Produce, Plan, WriteFiles, UpsertFails, Crash, Restart,
              PostgresDown, PostgresUp, tables, checkpoint, vars
<1>. QED
  BY <1>1, <1>2, <1>3 DEF Next, RunBatch

\* What the batch in flight makes of a group does not depend on what arrives
\* meanwhile.
LEMMA CountedStable ==
  ASSUME IInv, [Next]_vars, AG \in Queries, seen'[AG] = seen[AG],
         NEW g \in Groups, NEW b \in Nat \ {0}, b <= Len(offsetLog[AG])
  PROVE  CountedIn(g, b)' = CountedIn(g, b)
<1>1. Fresh(AG, b)' = Fresh(AG, b) /\ Fresh(AG, b) \subseteq Batch(AG, b)
  BY FreshStable DEF Fresh
<1>2. \A p \in Batch(AG, b) : log'[p] = log[p]
  BY BatchStable
<1>. QED
  BY <1>1, <1>2, Zenon DEF CountedIn, AG

\* The committed prefix, the batch in flight, and the prefix the batch ends.
LEMMA CommittedExtended ==
  ASSUME IInv, NEW q \in Queries \cap {AG, MQ}, InFlight(q)
  PROVE  /\ Pending(q) \in Nat \ {0} /\ Pending(q) - 1 = commitLog[q]
         /\ Pending(q) = Len(offsetLog[q]) /\ commitLog[q] \in Nat
         /\ 1 .. End(q, Pending(q)) = (1 .. Committed(q)) \cup Batch(q, Pending(q))
         /\ (1 .. Committed(q)) \cap Batch(q, Pending(q)) = {}
         /\ IsFiniteSet(1 .. Committed(q)) /\ IsFiniteSet(Batch(q, Pending(q)))
         /\ 1 .. End(q, Pending(q)) \subseteq 1 .. Len(log)
         /\ Horizon(q) = End(q, Pending(q))
<1>1. PICK b \in Nat \ {0} : /\ b = Pending(q) /\ b = Len(offsetLog[q])
                             /\ commitLog[q] = b - 1 /\ b - 1 \in Nat /\ b - 1 <= b
  BY TableOffsets, PendingPlanned DEF IInv
<1>2. End(q, b - 1) <= End(q, b)
  BY <1>1, EndMonotone
<1>3. End(q, b - 1) \in 0 .. Len(log) /\ End(q, b) \in 0 .. Len(log)
  BY <1>1, EndBounds DEF IInv
<1>4. End(q, b - 1) \in Nat /\ End(q, b) \in Nat /\ Len(log) \in Nat
  BY <1>3 DEF IInv, TypeOK
<1>5. Committed(q) = End(q, b - 1)
  BY <1>1 DEF Committed
<1>6. 1 .. End(q, b) = (1 .. End(q, b - 1)) \cup ((End(q, b - 1) + 1) .. End(q, b))
  BY <1>2, <1>4
<1>7. (1 .. End(q, b - 1)) \cap ((End(q, b - 1) + 1) .. End(q, b)) = {}
  BY <1>4
<1>8. IsFiniteSet(1 .. End(q, b - 1))
      /\ IsFiniteSet((End(q, b - 1) + 1) .. End(q, b))
  BY <1>4, FS_Interval
<1>9. 1 .. End(q, b) \subseteq 1 .. Len(log)
  BY <1>3, <1>4
<1>10. Horizon(q) = End(q, b)
  <2>1. offsetLog[q] # <<>>
    <3>. SUFFICES ASSUME offsetLog[q] = <<>> PROVE FALSE
      OBVIOUS
    <3>1. Len(offsetLog[q]) = 0
      OBVIOUS
    <3>. QED
      BY <1>1, <3>1
  <2>. QED
    BY <1>1, <2>1 DEF Horizon
<1>. QED
  BY <1>1, <1>5, <1>6, <1>7, <1>8, <1>9, <1>10 DEF Batch

\* The committed prefix and its watermark do not depend on what arrives.
LEMMA CommittedStays ==
  ASSUME IInv, [Next]_vars, NEW q \in Queries \cap {AG, MQ},
         commitLog'[q] = commitLog[q]
  PROVE  /\ Committed(q)' = Committed(q)
         /\ \A p \in 1 .. Committed(q) : log'[p] = log[p]
         /\ \A t : Reached(q, commitLog[q], t)' <=> Reached(q, commitLog[q], t)
         /\ \A t : Reached(q, commitLog[q] - 1, t)'
                     <=> Reached(q, commitLog[q] - 1, t)
<1>1. PICK c \in Int : /\ c = commitLog[q] /\ c <= Len(offsetLog[q])
                       /\ c - 1 \in Int /\ c - 1 <= Len(offsetLog[q])
                       /\ (c - 1) - 1 <= Len(offsetLog[q])
  BY TableOffsets
<1>2. End(q, c)' = End(q, c) /\ \A p \in 1 .. End(q, c) : log'[p] = log[p]
  BY <1>1, BatchStable
<1>3. \A t : /\ Reached(q, c, t)' <=> Reached(q, c, t)
             /\ Reached(q, c - 1, t)' <=> Reached(q, c - 1, t)
  BY <1>1, ReachedStable
<1>4. Committed(q)' = End(q, c)' /\ Committed(q) = End(q, c)
  BY <1>1 DEF Committed, End
<1>5. \A t : /\ Reached(q, commitLog[q], t)' <=> Reached(q, c, t)'
             /\ Reached(q, commitLog[q] - 1, t)' <=> Reached(q, c - 1, t)'
  BY <1>1 DEF Reached, End
<1>. QED
  BY <1>1, <1>2, <1>3, <1>4, <1>5

\* The visible prefix of a query of the tables is planned.
LEMMA VisibleStays ==
  ASSUME IInv, [Next]_vars, NEW q \in Queries \cap {AG, MQ},
         landed'[q] = landed[q]
  PROVE  /\ Visible(q)' = Visible(q)
         /\ \A p \in 1 .. Visible(q) : log'[p] = log[p]
         /\ \A t : Reached(q, landed[q] - 1, t)' <=> Reached(q, landed[q] - 1, t)
<1>1. PICK c \in Int : c = landed[q] /\ c <= Len(offsetLog[q])
  BY TableOffsets
<1>2. End(q, c)' = End(q, c) /\ \A p \in 1 .. End(q, c) : log'[p] = log[p]
  BY <1>1, BatchStable
<1>3. \A t : Reached(q, c - 1, t)' <=> Reached(q, c - 1, t)
  <2>1. c - 1 \in Int /\ (c - 1) - 1 <= Len(offsetLog[q])
    BY <1>1, TableOffsets
  <2>. QED
    BY <2>1, ReachedStable
<1>4. Visible(q)' = End(q, c)' /\ Visible(q) = End(q, c)
  BY <1>1 DEF Visible, End
<1>5. \A t : Reached(q, landed[q] - 1, t)' <=> Reached(q, c - 1, t)'
  BY <1>1 DEF Reached, End
<1>. QED
  BY <1>1, <1>2, <1>3, <1>4, <1>5

\* The horizon never comes nearer.
LEMMA HorizonGrows ==
  ASSUME IInv, [Next]_vars, NEW q \in Queries \cap {AG, MQ}
  PROVE  /\ 1 .. Horizon(q) \subseteq 1 .. Horizon(q)'
         /\ 1 .. Horizon(q) \subseteq 1 .. Len(log)
         /\ \A p \in 1 .. Horizon(q) : log'[p] = log[p]
<1>1. PICK n \in Nat, m \in Nat :
        /\ n = Len(offsetLog[q]) /\ m = Len(log)
        /\ Len(offsetLog'[q]) \in {n, n + 1}
        /\ Len(log') \in Nat /\ m <= Len(log')
        /\ \A p \in 1 .. m : log'[p] = log[p]
  BY LogsGrow
<1>2. /\ offsetLog[q] = <<>> <=> n = 0
      /\ offsetLog'[q] = <<>> <=> Len(offsetLog'[q]) = 0
  <2>1. offsetLog[q] \in Seq(Nat) /\ offsetLog'[q] \in Seq(Nat)
    BY NextIInv DEF IInv, TypeOK
  <2>. QED
    BY <1>1, <2>1
<1>3. End(q, n) \in 0 .. m
  BY <1>1, EndBounds DEF IInv
<1>4. Horizon(q) \in Nat /\ Horizon(q) <= m
  BY <1>1, <1>2, <1>3 DEF Horizon
<1>5. Horizon(q)' \in Nat /\ Horizon(q) <= Horizon(q)'
  <2>1. CASE Len(offsetLog'[q]) = n
    <3>1. CASE n = 0
      BY <1>1, <1>2, <2>1, <3>1 DEF Horizon
    <3>2. CASE n # 0
      <4>1. End(q, n)' = End(q, n)
        BY <1>1, BatchStable
      <4>2. Horizon(q)' = End(q, n)' /\ Horizon(q) = End(q, n)
        BY <1>1, <1>2, <2>1, <3>2 DEF Horizon, End
      <4>. QED
        BY <1>3, <4>1, <4>2
    <3>. QED
      BY <3>1, <3>2
  <2>2. CASE Len(offsetLog'[q]) # n
    <3>1. Len(offsetLog'[q]) = n + 1 /\ offsetLog'[q][n + 1] = m
      BY <1>1, <2>2, NewBatch
    <3>2. Horizon(q)' = m
      BY <1>2, <3>1 DEF Horizon, End
    <3>. QED
      BY <1>4, <3>2
  <2>. QED
    BY <2>1, <2>2
<1>. QED
  BY <1>1, <1>4, <1>5

\* A step that leaves the watermark of the last committed batch leaves the
\* windows it has shut.
LEMMA ShutStays ==
  ASSUME IInv, [Next]_vars, NEW q \in Queries \cap {AG, MQ},
         commitLog'[q] = commitLog[q]
  PROVE  \A g : Shut(q, commitLog[q], g)' <=> Shut(q, commitLog[q], g)
  BY CommittedStays DEF Shut

\* A window that was not shut before is not shut by an earlier batch.
LEMMA ShutBefore ==
  ASSUME IInv, NEW q \in Queries, NEW g \in Groups, NEW b \in Int, NEW c \in Int,
         c <= b, b - 1 <= Len(offsetLog[q]), ~Shut(q, b, g)
  PROVE  ~Shut(q, c, g)
<1>1. PICK t \in Int : t = WindowEnd(g.window)
  BY WindowEnds
<1>2. Reached(q, c, t) => Reached(q, b, t)
  BY <1>1, ReachedMonotone
<1>. QED
  BY <1>1, <1>2 DEF Shut

\* A window that is open is not closed.
LEMMA OpenNotShut ==
  ASSUME IInv, NEW q \in Queries \cap {AG, MQ}, NEW g \in Groups,
         Open(q, g.window)
  PROVE  ~Shut(q, landed[q] - 1, g)
<1>1. PICK c \in Int : c = landed[q] - 1 /\ c - 1 <= Len(offsetLog[q])
  BY TableOffsets
<1>2. PICK s \in Int, t \in Int :
        s = WindowStart(g.window) /\ t = WindowEnd(g.window) /\ s <= t
  BY StartBeforeEnd
<1>3. Reached(q, c, t) => Reached(q, c, s)
  BY <1>1, <1>2, ReachedMonotone
<1>. QED
  BY <1>1, <1>2, <1>3 DEF Shut, Open

-----------------------------------------------------------------------------
(* The metrics. *)

\* While a window is kept, its state accounts for the committed prefix.
StateTalliesExact ==
  MQ \in Queries =>
    \A g \in Groups : ~Shut(MQ, commitLog[MQ], g) =>
      metricState[g] = Tally(MeasuredUpTo(g, Committed(MQ)))

\* Every row, also one that an earlier version of the checkpoint left, is the
\* tally of some messages of its window.
RowsMeasured ==
  MQ \in Queries =>
    \A g \in Groups : \E S \in SUBSET MeasuredUpTo(g, Horizon(MQ)) :
      metrics[g] = Tally(S)

\* The row of a window accounts for the visible prefix as long as no visible
\* batch has been judged to be past it.
TalliesExact ==
  MQ \in Queries /\ landed[MQ] > 0 =>
    \A g \in Groups : ~Shut(MQ, landed[MQ] - 1, g) =>
      metrics[g] = Tally(MeasuredUpTo(g, Visible(MQ)))

MetricsInv == StateTalliesExact /\ RowsMeasured /\ TalliesExact

\* What the batch in flight makes of a window that is kept accounts for the
\* prefix the batch ends.
LEMMA TallyExtended ==
  ASSUME IInv, StateTalliesExact, MQ \in Queries, InFlight(MQ),
         NEW g \in Groups, ~Shut(MQ, commitLog[MQ], g)
  PROVE  /\ TallyAfter(g, Pending(MQ)) = Tally(MeasuredUpTo(g, End(MQ, Pending(MQ))))
         /\ MeasuredUpTo(g, End(MQ, Pending(MQ)))
              = MeasuredUpTo(g, Committed(MQ)) \cup MeasuredIn(g, Pending(MQ))
         /\ MeasuredUpTo(g, Horizon(MQ)) = MeasuredUpTo(g, End(MQ, Pending(MQ)))
         /\ IsFiniteSet(MeasuredUpTo(g, End(MQ, Pending(MQ))))
<1>. DEFINE b == Pending(MQ)
            old == MeasuredUpTo(g, Committed(MQ))
            new == MeasuredUpTo(g, End(MQ, b))
            added == MeasuredIn(g, b)
<1>1. /\ b - 1 = commitLog[MQ] /\ Horizon(MQ) = End(MQ, b)
      /\ 1 .. End(MQ, b) = (1 .. Committed(MQ)) \cup Batch(MQ, b)
      /\ (1 .. Committed(MQ)) \cap Batch(MQ, b) = {}
      /\ IsFiniteSet(1 .. Committed(MQ)) /\ IsFiniteSet(Batch(MQ, b))
  BY CommittedExtended
<1>2. added = {p \in Batch(MQ, b) : /\ IngestedTs(log[p]) # Null
                                   /\ GroupAt(log[p], IngestedTs(log[p])) = g}
  BY <1>1 DEF MeasuredIn, Shut, MQ
<1>3. old \subseteq 1 .. Committed(MQ) /\ added \subseteq Batch(MQ, b)
  BY <1>2 DEF MeasuredUpTo
<1>4. IsFiniteSet(old) /\ IsFiniteSet(added) /\ old \cap added = {}
  BY <1>1, <1>3, FS_Subset
<1>5. new = old \cup added
  <2>. HIDE DEF b
  <2>. QED
    BY <1>1, <1>2 DEF MeasuredUpTo
<1>. HIDE DEF old, new, added
<1>6. Tally(new) = Plus(Tally(old), Tally(added))
  BY <1>4, <1>5, TallyOfUnion
<1>7. metricState[g] = Tally(old)
  BY DEF StateTalliesExact, old
<1>8. TallyAfter(g, b) = Tally(new)
  BY <1>6, <1>7 DEF TallyAfter, added
<1>9. IsFiniteSet(new)
  BY <1>4, <1>5, FS_Union
<1>10. MeasuredUpTo(g, Horizon(MQ)) = new
  BY <1>1 DEF new
<1>. QED
  BY <1>5, <1>8, <1>9, <1>10 DEF old, new, added

\* The row of a group after an upsert.
LEMMA UpsertedTally ==
  ASSUME IInv, MQ \in Queries, UpsertMetrics, NEW g \in Groups
  PROVE  /\ InFlight(MQ)
         /\ metrics'[g] = IF MeasuredIn(g, Pending(MQ)) # {}
                          THEN TallyAfter(g, Pending(MQ)) ELSE metrics[g]
<1>1. InFlight(MQ)
  BY DEF UpsertMetrics, Upserts, Runnable, MQ
<1>2. RowsFor(MQ) = MeasuredGroups(Pending(MQ))
  BY Zenon DEF RowsFor, MQ
<1>3. g \in RowsFor(MQ) <=> MeasuredIn(g, Pending(MQ)) # {}
  BY <1>2 DEF MeasuredGroups
<1>4. metrics'[g] = IF g \in RowsFor(MQ) THEN TallyAfter(g, Pending(MQ))
                    ELSE metrics[g]
  BY Zenon DEF UpsertMetrics, MQ
<1>. QED
  BY <1>1, <1>3, <1>4

\* An upsert changes neither the checkpoint nor the log.
LEMMA UpsertedMetrics ==
  ASSUME IInv, MQ \in Queries, UpsertMetrics
  PROVE  /\ landed'[MQ] = Pending(MQ) /\ InFlight(MQ)
         /\ UNCHANGED <<log, offsetLog, commitLog, metricState>>
  BY DEF UpsertMetrics, Upserts, Runnable, environment, checkpoint, MQ, IInv,
         TypeOK, TableQueries

LEMMA StateTalliesStep ==
  ASSUME IInv, StateTalliesExact, [Next]_vars
  PROVE  StateTalliesExact'
<1>. SUFFICES ASSUME MQ \in Queries
              PROVE  StateTalliesExact'
  BY DEF StateTalliesExact
<1>1. CASE metricState' = metricState /\ commitLog'[MQ] = commitLog[MQ]
  <2>1. \A g : /\ Shut(MQ, commitLog[MQ], g)' <=> Shut(MQ, commitLog[MQ], g)
               /\ MeasuredUpTo(g, Committed(MQ))' = MeasuredUpTo(g, Committed(MQ))
               /\ \A p \in MeasuredUpTo(g, Committed(MQ)) : log'[p] = log[p]
    BY <1>1, ShutStays, CommittedStays DEF MeasuredUpTo
  <2>2. \A g : Tally(MeasuredUpTo(g, Committed(MQ)))'
                 = Tally(MeasuredUpTo(g, Committed(MQ)))
    BY <2>1 DEF Tally
  <2>. QED
    BY <1>1, <2>1, <2>2 DEF StateTalliesExact
<1>2. CASE UpsertMetrics
  BY <1>1, <1>2, UpsertedMetrics
<1>3. CASE Commit(MQ)
  <2>1. /\ commitLog'[MQ] = Pending(MQ) /\ InFlight(MQ)
        /\ UNCHANGED <<log, offsetLog>>
        /\ \A g \in Groups :
             metricState'[g] = IF Evicted(MQ, g) THEN NoTally
                               ELSE TallyAfter(g, Pending(MQ))
    BY <1>3, TableOffsets DEF Commit, environment, IInv, TypeOK, MQ
  <2>2. \A g : /\ Shut(MQ, commitLog[MQ], g)' <=> Shut(MQ, Pending(MQ), g)
               /\ Evicted(MQ, g) <=> Shut(MQ, Pending(MQ), g)
    BY <2>1 DEF Shut, Reached, End, Evicted
  <2>3. \A g : Tally(MeasuredUpTo(g, Committed(MQ)))'
                 = Tally(MeasuredUpTo(g, End(MQ, Pending(MQ))))
    <3>1. Committed(MQ)' = End(MQ, Pending(MQ))
      BY <2>1 DEF Committed, End
    <3>2. \A g : MeasuredUpTo(g, Committed(MQ))' = MeasuredUpTo(g, End(MQ, Pending(MQ)))
      BY <2>1, <3>1 DEF MeasuredUpTo
    <3>3. log' = log
      BY <2>1
    <3>4. \A rows : Tally(rows)' = Tally(rows)
      BY <3>3 DEF Tally
    <3>. QED
      BY <3>2, <3>4
  <2>. SUFFICES ASSUME NEW g \in Groups, ~Shut(MQ, Pending(MQ), g)
                PROVE  TallyAfter(g, Pending(MQ))
                         = Tally(MeasuredUpTo(g, End(MQ, Pending(MQ))))
    BY <2>1, <2>2, <2>3 DEF StateTalliesExact
  <2>4. /\ commitLog[MQ] \in Int /\ Pending(MQ) \in Int
        /\ commitLog[MQ] <= Pending(MQ) /\ Pending(MQ) - 1 <= Len(offsetLog[MQ])
    BY TableOffsets
  <2>5. ~Shut(MQ, commitLog[MQ], g)
    BY <2>4, ShutBefore
  <2>. QED
    BY <2>1, <2>5, TallyExtended
<1>. QED
  BY <1>1, <1>2, <1>3, TallySteps

\* The row of a group that the batch in flight has something for.
LEMMA MeasuredRow ==
  ASSUME IInv, StateTalliesExact, MQ \in Queries, UpsertMetrics,
         NEW g \in Groups, MeasuredIn(g, Pending(MQ)) # {}
  PROVE  /\ ~Shut(MQ, commitLog[MQ], g)
         /\ metrics'[g] = Tally(MeasuredUpTo(g, End(MQ, Pending(MQ))))
  BY UpsertedTally, MeasuredWhileKept, TallyExtended

LEMMA RowsMeasuredStep ==
  ASSUME IInv, StateTalliesExact, RowsMeasured, [Next]_vars
  PROVE  RowsMeasured'
<1>. SUFFICES ASSUME MQ \in Queries, NEW g \in Groups
              PROVE  \E S \in SUBSET (MeasuredUpTo(g, Horizon(MQ))') :
                       metrics'[g] = Tally(S)'
  BY DEF RowsMeasured
<1>1. /\ MeasuredUpTo(g, Horizon(MQ)) \subseteq MeasuredUpTo(g, Horizon(MQ))'
      /\ \A p \in MeasuredUpTo(g, Horizon(MQ)) : log'[p] = log[p]
  BY HorizonGrows DEF MeasuredUpTo
<1>2. PICK S \in SUBSET MeasuredUpTo(g, Horizon(MQ)) : metrics[g] = Tally(S)
  BY DEF RowsMeasured
<1>3. CASE metrics'[g] = metrics[g]
  <2>1. Tally(S)' = Tally(S)
    BY <1>1, TallyStable
  <2>. QED
    BY <1>1, <1>2, <1>3, <2>1
<1>4. CASE UpsertMetrics /\ MeasuredIn(g, Pending(MQ)) # {}
  <2>. DEFINE T == MeasuredUpTo(g, Horizon(MQ))
  <2>1. metrics'[g] = Tally(T)
    BY <1>4, MeasuredRow, TallyExtended, UpsertedTally
  <2>2. T \subseteq MeasuredUpTo(g, Horizon(MQ))' /\ \A p \in T : log'[p] = log[p]
    BY <1>1
  <2>. HIDE DEF T
  <2>3. PICK U : U = T
    OBVIOUS
  <2>4. Tally(U)' = Tally(U)
    BY <2>2, <2>3, TallyStable
  <2>. QED
    BY <2>1, <2>2, <2>3, <2>4
<1>5. CASE UpsertMetrics /\ MeasuredIn(g, Pending(MQ)) = {}
  BY <1>3, <1>5, UpsertedTally
<1>6. CASE Commit(MQ)
  BY <1>3, <1>6 DEF Commit, tables
<1>. QED
  BY <1>3, <1>4, <1>5, <1>6, TallySteps

LEMMA TalliesExactIdle ==
  ASSUME IInv, TalliesExact, [Next]_vars, MQ \in Queries,
         metrics' = metrics, landed'[MQ] = landed[MQ]
  PROVE  TalliesExact'
<1>1. \A g : Shut(MQ, landed[MQ] - 1, g)' <=> Shut(MQ, landed[MQ] - 1, g)
  BY VisibleStays DEF Shut
<1>2. \A g : MeasuredUpTo(g, Visible(MQ))' = MeasuredUpTo(g, Visible(MQ))
  BY VisibleStays DEF MeasuredUpTo
<1>3. \A g : \A p \in MeasuredUpTo(g, Visible(MQ)) : log'[p] = log[p]
  BY VisibleStays DEF MeasuredUpTo
<1>4. \A g : Tally(MeasuredUpTo(g, Visible(MQ)))' = Tally(MeasuredUpTo(g, Visible(MQ)))
  BY <1>2, <1>3 DEF Tally
<1>. QED
  BY <1>1, <1>4 DEF TalliesExact

LEMMA TalliesExactUpsert ==
  ASSUME IInv, MetricsInv, MQ \in Queries, UpsertMetrics
  PROVE  TalliesExact'
<1>. DEFINE b == Pending(MQ)
<1>1. /\ landed'[MQ] = b /\ InFlight(MQ)
      /\ UNCHANGED <<log, offsetLog, commitLog, metricState>>
  BY UpsertedMetrics
<1>2. /\ commitLog[MQ] \in Nat /\ b - 1 = commitLog[MQ] /\ b = commitLog[MQ] + 1
      /\ landed[MQ] \in {commitLog[MQ], b} /\ b = Len(offsetLog[MQ])
  BY <1>1, TableOffsets, PendingPlanned DEF IInv
<1>3. \A g : /\ Shut(MQ, landed[MQ] - 1, g)' <=> Shut(MQ, b - 1, g)
             /\ Tally(MeasuredUpTo(g, Visible(MQ)))'
                   = Tally(MeasuredUpTo(g, End(MQ, b)))
  <2>1. Visible(MQ)' = End(MQ, b)
    BY <1>1 DEF Visible, End
  <2>2. \A g : Shut(MQ, landed[MQ] - 1, g)' <=> Shut(MQ, b - 1, g)
    BY <1>1 DEF Shut, Reached, End
  <2>3. \A g : MeasuredUpTo(g, Visible(MQ))' = MeasuredUpTo(g, End(MQ, b))
    BY <1>1, <2>1 DEF MeasuredUpTo
  <2>4. \A g : Tally(MeasuredUpTo(g, Visible(MQ)))'
                 = Tally(MeasuredUpTo(g, End(MQ, b)))
    BY <1>1, <2>3 DEF Tally
  <2>. QED
    BY <2>2, <2>4
<1>. SUFFICES ASSUME NEW g \in Groups, ~Shut(MQ, b - 1, g)
              PROVE  metrics'[g] = Tally(MeasuredUpTo(g, End(MQ, b)))
  BY <1>3 DEF TalliesExact
<1>4. ~Shut(MQ, commitLog[MQ], g)
  BY <1>2
<1>5. CASE MeasuredIn(g, b) # {}
  BY <1>5, MeasuredRow DEF MetricsInv
<1>6. CASE MeasuredIn(g, b) = {}
  <2>1. metrics'[g] = metrics[g]
    BY <1>6, UpsertedTally
  <2>2. /\ MeasuredUpTo(g, End(MQ, b)) = MeasuredUpTo(g, Committed(MQ))
        /\ MeasuredUpTo(g, Horizon(MQ)) = MeasuredUpTo(g, End(MQ, b))
    BY <1>1, <1>4, <1>6, TallyExtended DEF MetricsInv
  <2>3. CASE landed[MQ] = b
    <3>1. Visible(MQ) = End(MQ, b) /\ landed[MQ] > 0
      BY <1>2, <2>3 DEF Visible
    <3>. QED
      BY <2>1, <2>3, <3>1 DEF MetricsInv, TalliesExact
  <2>4. CASE landed[MQ] = commitLog[MQ] /\ landed[MQ] > 0
    <3>1. Visible(MQ) = Committed(MQ)
      BY <2>4 DEF Visible, Committed
    <3>2. ~Shut(MQ, landed[MQ] - 1, g)
      <4>1. PICK c \in Int : c = commitLog[MQ] /\ c - 1 \in Int /\ c - 1 <= c
                             /\ c - 1 <= Len(offsetLog[MQ])
        BY <1>2
      <4>2. ~Shut(MQ, c - 1, g)
        BY <1>4, <4>1, ShutBefore
      <4>. QED
        BY <2>4, <4>1, <4>2
    <3>. QED
      BY <2>1, <2>2, <2>4, <3>1, <3>2 DEF MetricsInv, TalliesExact
  <2>5. CASE commitLog[MQ] = 0
    <3>1. PICK S \in SUBSET MeasuredUpTo(g, Horizon(MQ)) : metrics[g] = Tally(S)
      BY DEF MetricsInv, RowsMeasured
    <3>2. MeasuredUpTo(g, Committed(MQ)) = {}
      BY <2>5 DEF Committed, End, MeasuredUpTo
    <3>3. S = {}
      BY <2>2, <3>1, <3>2
    <3>. QED
      BY <2>1, <2>2, <3>1, <3>2, <3>3
  <2>. QED
    BY <1>2, <2>3, <2>4, <2>5
<1>. QED
  BY <1>5, <1>6

LEMMA MetricsStep == IInv /\ MetricsInv /\ [Next]_vars => MetricsInv'
<1>. SUFFICES ASSUME IInv, MetricsInv, [Next]_vars
              PROVE  MetricsInv'
  OBVIOUS
<1>1. StateTalliesExact' /\ RowsMeasured'
  BY StateTalliesStep, RowsMeasuredStep DEF MetricsInv
<1>2. TalliesExact'
  <2>. SUFFICES ASSUME MQ \in Queries
                PROVE  TalliesExact'
    BY DEF TalliesExact
  <2>1. CASE UpsertMetrics
    BY <2>1, TalliesExactUpsert
  <2>2. CASE metrics' = metrics /\ landed'[MQ] = landed[MQ]
    BY <2>2, TalliesExactIdle DEF MetricsInv
  <2>3. CASE Commit(MQ)
    BY <2>2, <2>3 DEF Commit, tables
  <2>. QED
    BY <2>1, <2>2, <2>3, TallySteps
<1>. QED
  BY <1>1, <1>2 DEF MetricsInv

LEMMA MetricsInitially == Init => MetricsInv
<1>. SUFFICES ASSUME Init, MQ \in Queries
              PROVE  MetricsInv
  BY DEF MetricsInv, StateTalliesExact, RowsMeasured, TalliesExact
<1>1. Committed(MQ) = 0 /\ landed[MQ] = 0
  BY DEF Init, Committed, End, TableQueries, MQ
<1>2. \A g \in Groups : metricState[g] = NoTally /\ metrics[g] = NoTally
  BY DEF Init
<1>3. \A g : MeasuredUpTo(g, Committed(MQ)) = {}
  BY <1>1 DEF MeasuredUpTo
<1>4. RowsMeasured
  <2>1. \A g : {} \in SUBSET MeasuredUpTo(g, Horizon(MQ))
    OBVIOUS
  <2>. QED
    BY <1>2, <2>1, TallyOfNone DEF RowsMeasured
<1>. QED
  BY <1>1, <1>2, <1>3, <1>4, TallyOfNone
     DEF MetricsInv, StateTalliesExact, TalliesExact

\* The upsert of a batch raises a row or leaves it; a re-run leaves it, and so
\* does every batch once the window is closed.
LEMMA TallyRowStep ==
  ASSUME IInv, MetricsInv, MQ \in Queries, UpsertMetrics, NEW g \in Groups
  PROVE  /\ metrics'[g].total >= metrics[g].total
         /\ Closed(MQ, g.window) => metrics'[g] = metrics[g]
<1>1. metrics[g] \in Counters /\ metrics[g].total \in Nat
  BY DEF IInv, TypeOK, Counters
<1>2. CASE MeasuredIn(g, Pending(MQ)) = {}
  <2>1. metrics'[g] = metrics[g]
    BY <1>2, UpsertedTally
  <2>. QED
    BY <1>1, <2>1
<1>3. CASE MeasuredIn(g, Pending(MQ)) # {}
  <2>. DEFINE b == Pending(MQ)
              new == MeasuredUpTo(g, End(MQ, b))
  <2>1. InFlight(MQ) /\ ~Shut(MQ, commitLog[MQ], g) /\ metrics'[g] = Tally(new)
    BY <1>3, UpsertedTally, MeasuredRow DEF MetricsInv
  <2>2. /\ IsFiniteSet(new) /\ MeasuredUpTo(g, Horizon(MQ)) = new
        /\ MeasuredUpTo(g, Committed(MQ)) \subseteq new
    BY <2>1, TallyExtended DEF MetricsInv
  <2>3. /\ commitLog[MQ] \in Nat /\ b = commitLog[MQ] + 1 /\ b - 1 = commitLog[MQ]
        /\ landed[MQ] \in {commitLog[MQ], b} /\ b = Len(offsetLog[MQ])
    BY <2>1, TableOffsets, PendingPlanned DEF IInv
  <2>4. ASSUME NEW S \in SUBSET new, metrics[g] = Tally(S)
        PROVE  metrics'[g].total >= metrics[g].total
    <3>. HIDE DEF new
    <3>1. Cardinality(S) <= Cardinality(new)
      BY <2>2, FS_Subset
    <3>2. IsFiniteSet(S) /\ Cardinality(S) \in Nat /\ Cardinality(new) \in Nat
      BY <2>2, FS_Subset, FS_CardinalityType
    <3>3. \A R : Tally(R).total = Cardinality(R)
      BY DEF Tally
    <3>. QED
      BY <2>1, <2>4, <3>1, <3>2, <3>3
  <2>5. metrics'[g].total >= metrics[g].total
    <3>1. PICK S \in SUBSET MeasuredUpTo(g, Horizon(MQ)) : metrics[g] = Tally(S)
      BY DEF MetricsInv, RowsMeasured
    <3>. QED
      BY <2>2, <2>4, <3>1
  <2>6. CASE landed[MQ] = b
    <3>1. metrics[g] = Tally(new)
      <4>1. Visible(MQ) = End(MQ, b) /\ landed[MQ] > 0 /\ landed[MQ] - 1 = commitLog[MQ]
        BY <2>3, <2>6 DEF Visible
      <4>. QED
        BY <2>1, <4>1 DEF MetricsInv, TalliesExact
    <3>. QED
      BY <2>1, <2>5, <3>1
  <2>7. CASE landed[MQ] = commitLog[MQ]
    <3>1. ~Closed(MQ, g.window)
      BY <2>1, <2>7 DEF Shut, Closed
    <3>. QED
      BY <2>5, <3>1
  <2>. QED
    BY <2>3, <2>6, <2>7
<1>. QED
  BY <1>2, <1>3

LEMMA MetricsImplied == IInv /\ MetricsInv => OpenMetricsExact
  BY OpenNotShut DEF MetricsInv, TalliesExact, OpenMetricsExact, MeasuredUpTo, MQ

-----------------------------------------------------------------------------
(* The counts: rows follow the state, and account for events of their window. *)

\* The state of a window as far as the table may show it: the batch in flight
\* is in it once it has been through the sink.
CountShown(g) == IF landed[AG] = commitLog[AG] THEN windowCount[g]
                 ELSE CountAfter(g, Pending(AG))

\* While the state of a window is kept and counts something, its row is that
\* state.
CountsFollowState ==
  AG \in Queries =>
    \A g \in Groups :
      ~Shut(AG, commitLog[AG], g) /\ CountShown(g) # 0 =>
        aggregates[g] = CountShown(g)

\* The state of a window is the number of some events in the state of
\* dropDuplicates, its row that of some events of its window.
StateCounted ==
  AG \in Queries =>
    \A g \in Groups :
      \E S \in SUBSET (IdsOf(CountedUpTo(g, Committed(AG))) \cap seen[AG]) :
        windowCount[g] = Cardinality(S)

RowsCounted ==
  AG \in Queries =>
    \A g \in Groups :
      \E S \in SUBSET IdsOf(CountedUpTo(g, Horizon(AG))) :
        aggregates[g] = Cardinality(S)

CountsInv == CountsFollowState /\ StateCounted /\ RowsCounted

\* A row shows no more than the state has, once the first batch is through.
CountsCovered ==
  AG \in Queries /\ landed[AG] > 0 =>
    \A g \in Groups :
      ~Shut(AG, commitLog[AG], g) => aggregates[g] <= CountShown(g)

\* What that batch needs: it counts as much as the rows it finds.
FirstBatchCovers ==
  AG \in Queries /\ InFlight(AG) /\ landed[AG] = 0 =>
    \A g \in Groups : aggregates[g] <= Cardinality(CountedIn(g, Pending(AG)))

\* An upsert changes neither the checkpoint nor the log.
LEMMA UpsertedAggregates ==
  ASSUME IInv, AG \in Queries, UpsertAggregates
  PROVE  /\ landed'[AG] = Pending(AG) /\ InFlight(AG)
         /\ UNCHANGED <<log, offsetLog, commitLog, seen, windowCount>>
  BY DEF UpsertAggregates, Upserts, Runnable, environment, checkpoint, AG, IInv,
         TypeOK, TableQueries

\* A commit takes over what the batch makes of the state.
LEMMA CommittedAggregates ==
  ASSUME IInv, AG \in Queries, Commit(AG)
  PROVE  /\ commitLog'[AG] = Pending(AG) /\ landed[AG] = Pending(AG) /\ InFlight(AG)
         /\ seen'[AG] = SeenAfter(AG)
         /\ UNCHANGED <<log, offsetLog, aggregates, landed>>
         /\ \A g \in Groups :
              windowCount'[g] = IF Evicted(AG, g) THEN 0
                                ELSE CountAfter(g, Pending(AG))
<1>1. AG \in DedupQueries
  BY DEF AG, DedupQueries
<1>. QED
  BY <1>1, TableOffsets DEF Commit, environment, tables, IInv, TypeOK, AG

\* The row of a group after an upsert.
LEMMA UpsertedCount ==
  ASSUME IInv, AG \in Queries, UpsertAggregates, NEW g \in Groups
  PROVE  /\ InFlight(AG)
         /\ aggregates'[g] = IF CountedIn(g, Pending(AG)) # {}
                             THEN CountAfter(g, Pending(AG)) ELSE aggregates[g]
<1>1. InFlight(AG)
  BY DEF UpsertAggregates, Upserts, Runnable, AG
<1>2. RowsFor(AG) = CountedGroups(Pending(AG))
  BY Zenon DEF RowsFor, AG
<1>3. g \in RowsFor(AG) <=> CountedIn(g, Pending(AG)) # {}
  BY <1>2 DEF CountedGroups
<1>4. aggregates'[g] = IF g \in RowsFor(AG) THEN CountAfter(g, Pending(AG))
                       ELSE aggregates[g]
  BY Zenon DEF UpsertAggregates, AG
<1>. QED
  BY <1>1, <1>3, <1>4

\* A commit shows what was shown: the batch had been through the sink.
LEMMA ShownCommitted ==
  ASSUME IInv, AG \in Queries, Commit(AG), NEW g \in Groups,
         ~Shut(AG, commitLog[AG], g)'
  PROVE  /\ ~Shut(AG, commitLog[AG], g)
         /\ CountShown(g)' = CountShown(g)
<1>1. /\ commitLog'[AG] = Pending(AG) /\ landed[AG] = Pending(AG)
      /\ UNCHANGED <<log, offsetLog, landed>>
      /\ windowCount'[g] = IF Evicted(AG, g) THEN 0
                           ELSE CountAfter(g, Pending(AG))
  BY CommittedAggregates
<1>2. ~Shut(AG, Pending(AG), g) /\ ~Evicted(AG, g)
  BY <1>1 DEF Shut, Reached, End, Evicted
<1>3. /\ commitLog[AG] \in Int /\ Pending(AG) \in Int
      /\ commitLog[AG] <= Pending(AG) /\ Pending(AG) - 1 <= Len(offsetLog[AG])
      /\ landed[AG] # commitLog[AG]
  BY <1>1, TableOffsets
<1>4. ~Shut(AG, commitLog[AG], g)
  BY <1>2, <1>3, ShutBefore
<1>5. CountShown(g) = CountAfter(g, Pending(AG))
  BY <1>3 DEF CountShown
<1>6. CountShown(g)' = windowCount'[g]
  BY <1>1 DEF CountShown
<1>. QED
  BY <1>1, <1>2, <1>4, <1>5, <1>6

\* An upsert shows what it makes of the state.
LEMMA ShownUpserted ==
  ASSUME IInv, AG \in Queries, UpsertAggregates, NEW g \in Groups
  PROVE  /\ CountShown(g)' = CountAfter(g, Pending(AG))
         /\ Shut(AG, commitLog[AG], g)' <=> Shut(AG, commitLog[AG], g)
         /\ landed[AG] = Pending(AG) => CountShown(g) = CountAfter(g, Pending(AG))
         /\ CountedIn(g, Pending(AG)) = {} =>
              CountShown(g) = CountAfter(g, Pending(AG))
         /\ CountAfter(g, Pending(AG)) \in Nat
<1>1. /\ landed'[AG] = Pending(AG) /\ InFlight(AG)
      /\ UNCHANGED <<log, offsetLog, commitLog, seen, windowCount>>
  BY UpsertedAggregates
<1>2. Pending(AG) # commitLog[AG]
  BY TableOffsets
<1>3. CountShown(g)' = CountAfter(g, Pending(AG))
  BY <1>1, <1>2 DEF CountShown, Pending, CountAfter, CountedIn, Fresh, LateEvent,
                    Reached, Batch, End
<1>4. Shut(AG, commitLog[AG], g)' <=> Shut(AG, commitLog[AG], g)
  BY <1>1 DEF Shut, Reached, End
<1>5. CountedIn(g, Pending(AG)) = {} => CountAfter(g, Pending(AG)) = windowCount[g]
  BY CountUnchanged
<1>6. CountAfter(g, Pending(AG)) \in Nat
  BY <1>1, CountAfterType DEF AG
<1>. QED
  BY <1>2, <1>3, <1>4, <1>5, <1>6 DEF CountShown

\* What is shown does not depend on what arrives meanwhile.
LEMMA ShownStays ==
  ASSUME IInv, [Next]_vars, AG \in Queries, windowCount' = windowCount,
         landed'[AG] = landed[AG], commitLog'[AG] = commitLog[AG],
         seen'[AG] = seen[AG], NEW g \in Groups
  PROVE  /\ CountShown(g)' = CountShown(g)
         /\ Shut(AG, commitLog[AG], g)' <=> Shut(AG, commitLog[AG], g)
<1>1. CASE landed[AG] = commitLog[AG]
  BY <1>1, ShutStays DEF CountShown
<1>2. CASE landed[AG] # commitLog[AG]
  <2>1. PICK b \in Nat \ {0} : b = Pending(AG) /\ b <= Len(offsetLog[AG])
    BY <1>2, TableOffsets
  <2>2. CountedIn(g, b)' = CountedIn(g, b)
    BY <2>1, CountedStable
  <2>3. Pending(AG)' = b
    BY <2>1 DEF Pending
  <2>4. CountAfter(g, b)' = CountAfter(g, b)
    BY <2>2 DEF CountAfter
  <2>5. CountAfter(g, Pending(AG))' = CountAfter(g, b)'
    BY <2>3 DEF CountAfter, CountedIn, Fresh, LateEvent, Reached, Batch, End
  <2>. QED
    BY <1>2, <2>1, <2>4, <2>5, ShutStays DEF CountShown
<1>. QED
  BY <1>1, <1>2

LEMMA CountsFollowStep ==
  ASSUME IInv, CountsFollowState, [Next]_vars
  PROVE  CountsFollowState'
<1>. SUFFICES ASSUME AG \in Queries, NEW g \in Groups,
                     ~Shut(AG, commitLog[AG], g)', CountShown(g)' # 0
              PROVE  aggregates'[g] = CountShown(g)'
  BY DEF CountsFollowState
<1>1. CASE UpsertAggregates
  <2>1. CASE CountedIn(g, Pending(AG)) # {}
    BY <1>1, <2>1, UpsertedCount, ShownUpserted
  <2>2. CASE CountedIn(g, Pending(AG)) = {}
    <3>1. /\ aggregates'[g] = aggregates[g] /\ ~Shut(AG, commitLog[AG], g)
          /\ CountShown(g)' = CountShown(g)
      BY <1>1, <2>2, UpsertedCount, ShownUpserted
    <3>. QED
      BY <3>1 DEF CountsFollowState
  <2>. QED
    BY <2>1, <2>2
<1>2. CASE Commit(AG)
  <2>1. /\ aggregates'[g] = aggregates[g] /\ ~Shut(AG, commitLog[AG], g)
        /\ CountShown(g)' = CountShown(g)
    BY <1>2, CommittedAggregates, ShownCommitted
  <2>. QED
    BY <2>1 DEF CountsFollowState
<1>3. CASE /\ UNCHANGED <<aggregates, windowCount>>
           /\ landed'[AG] = landed[AG] /\ commitLog'[AG] = commitLog[AG]
           /\ seen'[AG] = seen[AG]
  <2>1. /\ aggregates'[g] = aggregates[g] /\ ~Shut(AG, commitLog[AG], g)
        /\ CountShown(g)' = CountShown(g)
    BY <1>3, ShownStays
  <2>. QED
    BY <2>1 DEF CountsFollowState
<1>. QED
  BY <1>1, <1>2, <1>3, CountSteps

LEMMA CountsCoveredStep ==
  ASSUME IInv, CountsCovered, FirstBatchCovers, [Next]_vars
  PROVE  CountsCovered'
<1>. SUFFICES ASSUME AG \in Queries, NEW g \in Groups, landed'[AG] > 0,
                     ~Shut(AG, commitLog[AG], g)'
              PROVE  aggregates'[g] <= CountShown(g)'
  BY DEF CountsCovered
<1>1. CASE UpsertAggregates
  <2>1. CASE CountedIn(g, Pending(AG)) # {}
    <3>1. aggregates'[g] = CountShown(g)' /\ CountShown(g)' \in Nat
      BY <1>1, <2>1, UpsertedCount, ShownUpserted
    <3>. QED
      BY <3>1
  <2>2. CASE CountedIn(g, Pending(AG)) = {}
    <3>1. /\ aggregates'[g] = aggregates[g] /\ ~Shut(AG, commitLog[AG], g)
          /\ CountShown(g)' = CountShown(g) /\ CountShown(g) \in Nat
          /\ InFlight(AG)
      BY <1>1, <2>2, UpsertedCount, ShownUpserted
    <3>2. CASE landed[AG] > 0
      BY <3>1, <3>2 DEF CountsCovered
    <3>3. CASE landed[AG] = 0
      <4>1. aggregates[g] <= Cardinality({}) /\ aggregates[g] \in Nat
        BY <2>2, <3>1, <3>3 DEF FirstBatchCovers, IInv, TypeOK
      <4>2. Cardinality({}) = 0
        BY FS_EmptySet
      <4>. QED
        BY <3>1, <4>1, <4>2
    <3>. QED
      BY <3>2, <3>3, TableOffsets
  <2>. QED
    BY <2>1, <2>2
<1>2. CASE Commit(AG)
  <2>1. /\ aggregates'[g] = aggregates[g] /\ ~Shut(AG, commitLog[AG], g)
        /\ CountShown(g)' = CountShown(g) /\ landed[AG] > 0
    BY <1>2, CommittedAggregates, ShownCommitted
  <2>. QED
    BY <2>1 DEF CountsCovered
<1>3. CASE /\ UNCHANGED <<aggregates, windowCount>>
           /\ landed'[AG] = landed[AG] /\ commitLog'[AG] = commitLog[AG]
           /\ seen'[AG] = seen[AG]
  <2>1. /\ aggregates'[g] = aggregates[g] /\ ~Shut(AG, commitLog[AG], g)
        /\ CountShown(g)' = CountShown(g) /\ landed[AG] > 0
    BY <1>3, ShownStays
  <2>. QED
    BY <2>1 DEF CountsCovered
<1>. QED
  BY <1>1, <1>2, <1>3, CountSteps

\* The state of a group after the batch in flight counts some events of the
\* prefix the batch ends, all of them in the state of dropDuplicates then.
LEMMA CountedSet ==
  ASSUME IInv, StateCounted, AG \in Queries, InFlight(AG), NEW g \in Groups
  PROVE  /\ \E S \in SUBSET (IdsOf(CountedUpTo(g, End(AG, Pending(AG))))
                               \cap SeenAfter(AG)) :
              CountAfter(g, Pending(AG)) = Cardinality(S)
         /\ CountedUpTo(g, Committed(AG)) \subseteq CountedUpTo(g, End(AG, Pending(AG)))
         /\ IsFiniteSet(CountedIn(g, Pending(AG)))
         /\ Cardinality(IdsOf(CountedIn(g, Pending(AG))))
              = Cardinality(CountedIn(g, Pending(AG)))
<1>. DEFINE b == Pending(AG)
            added == CountedIn(g, b)
            new == CountedUpTo(g, End(AG, b))
<1>1. /\ 1 .. End(AG, b) = (1 .. Committed(AG)) \cup Batch(AG, b)
      /\ IsFiniteSet(1 .. Committed(AG)) /\ IsFiniteSet(Batch(AG, b))
  BY CommittedExtended
<1>2. added = {p \in Fresh(AG, b) : /\ EventTime(log[p]) # Null
                                   /\ GroupAt(log[p], EventTime(log[p])) = g}
  BY DEF CountedIn, AG
<1>3. /\ Fresh(AG, b) \subseteq Batch(AG, b)
      /\ \A p \in Fresh(AG, b) : Accepted(log[p]) /\ log[p].event_id \notin seen[AG]
      /\ \A p, r \in Fresh(AG, b) : log[p].event_id = log[r].event_id => p = r
  BY FreshOnce DEF Fresh
<1>4. added \subseteq new /\ CountedUpTo(g, Committed(AG)) \subseteq new
  <2>. HIDE DEF b
  <2>. QED
    BY <1>1, <1>2, <1>3 DEF CountedUpTo
<1>5. PICK S \in SUBSET (IdsOf(CountedUpTo(g, Committed(AG))) \cap seen[AG]) :
        windowCount[g] = Cardinality(S)
  BY DEF StateCounted
<1>6. /\ IsFiniteSet(added)
      /\ \A p, r \in added : log[p].event_id = log[r].event_id => p = r
  <2>1. added \subseteq Batch(AG, b)
    BY <1>2, <1>3
  <2>. QED
    BY <1>1, <1>2, <1>3, <2>1, FS_Subset
<1>7. IsFiniteSet(S)
  <2>1. CountedUpTo(g, Committed(AG)) \subseteq 1 .. Committed(AG)
    BY DEF CountedUpTo
  <2>2. IsFiniteSet(CountedUpTo(g, Committed(AG)))
    BY <1>1, <2>1, FS_Subset
  <2>3. IsFiniteSet(IdsOf(CountedUpTo(g, Committed(AG))))
    BY <2>2, DistinctIds
  <2>. QED
    BY <2>3, FS_Subset
<1>8. S \cap IdsOf(added) = {}
  BY <1>2, <1>3 DEF IdsOf
<1>9. IdsOf(added) \subseteq SeenAfter(AG) /\ seen[AG] \subseteq SeenAfter(AG)
  BY <1>2 DEF IdsOf, SeenAfter
<1>. HIDE DEF added, new
<1>10. IsFiniteSet(IdsOf(added)) /\ Cardinality(IdsOf(added)) = Cardinality(added)
  BY <1>6, DistinctIds
<1>11. Cardinality(S \cup IdsOf(added)) = Cardinality(S) + Cardinality(added)
  BY <1>7, <1>8, <1>10, DisjointUnion
<1>12. CountAfter(g, b) = Cardinality(S \cup IdsOf(added))
  BY <1>5, <1>11 DEF CountAfter, added
<1>13. S \cup IdsOf(added) \subseteq IdsOf(new) \cap SeenAfter(AG)
  BY <1>4, <1>9 DEF IdsOf
<1>. QED
  BY <1>4, <1>6, <1>10, <1>12, <1>13 DEF new, added

LEMMA StateCountedStep ==
  ASSUME IInv, StateCounted, [Next]_vars
  PROVE  StateCounted'
<1>. SUFFICES ASSUME AG \in Queries, NEW g \in Groups
              PROVE  \E S \in SUBSET (IdsOf(CountedUpTo(g, Committed(AG)))'
                                        \cap seen'[AG]) :
                       windowCount'[g] = Cardinality(S)
  BY DEF StateCounted
<1>1. CASE /\ windowCount' = windowCount /\ commitLog'[AG] = commitLog[AG]
           /\ seen'[AG] = seen[AG]
  <2>1. CountedUpTo(g, Committed(AG))' = CountedUpTo(g, Committed(AG))
    BY <1>1, CommittedStays DEF CountedUpTo
  <2>2. \A p \in CountedUpTo(g, Committed(AG)) : log'[p] = log[p]
    BY <1>1, CommittedStays DEF CountedUpTo
  <2>3. IdsOf(CountedUpTo(g, Committed(AG)))' = IdsOf(CountedUpTo(g, Committed(AG)))
    BY <2>1, <2>2 DEF IdsOf
  <2>. QED
    BY <1>1, <2>3 DEF StateCounted
<1>2. CASE UpsertAggregates
  BY <1>1, <1>2, UpsertedAggregates
<1>3. CASE Commit(AG)
  <2>1. /\ commitLog'[AG] = Pending(AG) /\ InFlight(AG)
        /\ seen'[AG] = SeenAfter(AG)
        /\ UNCHANGED <<log, offsetLog>>
        /\ windowCount'[g] = IF Evicted(AG, g) THEN 0
                             ELSE CountAfter(g, Pending(AG))
    BY <1>3, CommittedAggregates
  <2>2. CASE Evicted(AG, g)
    <3>1. windowCount'[g] = Cardinality({})
      BY <2>1, <2>2, FS_EmptySet
    <3>. QED
      BY <3>1
  <2>3. CASE ~Evicted(AG, g)
    <3>1. PICK S \in SUBSET (IdsOf(CountedUpTo(g, End(AG, Pending(AG))))
                               \cap SeenAfter(AG)) :
            CountAfter(g, Pending(AG)) = Cardinality(S)
      BY <2>1, CountedSet
    <3>2. IdsOf(CountedUpTo(g, Committed(AG)))'
            = IdsOf(CountedUpTo(g, End(AG, Pending(AG))))
      <4>1. Committed(AG)' = End(AG, Pending(AG))
        BY <2>1 DEF Committed, End
      <4>. QED
        BY <2>1, <4>1 DEF CountedUpTo, IdsOf
    <3>. QED
      BY <2>1, <2>3, <3>1, <3>2
  <2>. QED
    BY <2>2, <2>3
<1>. QED
  BY <1>1, <1>2, <1>3, CountSteps

LEMMA RowsCountedStep ==
  ASSUME IInv, StateCounted, RowsCounted, [Next]_vars
  PROVE  RowsCounted'
<1>. SUFFICES ASSUME AG \in Queries, NEW g \in Groups
              PROVE  \E S \in SUBSET (IdsOf(CountedUpTo(g, Horizon(AG)))') :
                       aggregates'[g] = Cardinality(S)
  BY DEF RowsCounted
<1>1. IdsOf(CountedUpTo(g, Horizon(AG))) \subseteq IdsOf(CountedUpTo(g, Horizon(AG)))'
  BY HorizonGrows DEF CountedUpTo, IdsOf
<1>2. CASE aggregates'[g] = aggregates[g]
  BY <1>1, <1>2 DEF RowsCounted
<1>3. CASE UpsertAggregates /\ CountedIn(g, Pending(AG)) # {}
  <2>1. InFlight(AG) /\ aggregates'[g] = CountAfter(g, Pending(AG))
    BY <1>3, UpsertedCount
  <2>2. PICK S \in SUBSET IdsOf(CountedUpTo(g, End(AG, Pending(AG)))) :
          CountAfter(g, Pending(AG)) = Cardinality(S)
    BY <2>1, CountedSet
  <2>3. Horizon(AG) = End(AG, Pending(AG))
    BY <2>1, CommittedExtended
  <2>. QED
    BY <1>1, <2>1, <2>2, <2>3
<1>4. CASE UpsertAggregates /\ CountedIn(g, Pending(AG)) = {}
  BY <1>2, <1>4, UpsertedCount
<1>5. CASE Commit(AG)
  BY <1>2, <1>5, CommittedAggregates
<1>. QED
  BY <1>2, <1>3, <1>4, <1>5, CountSteps

LEMMA CountsStep == IInv /\ CountsInv /\ [Next]_vars => CountsInv'
  BY CountsFollowStep, StateCountedStep, RowsCountedStep DEF CountsInv

LEMMA CountsInitially == Init => CountsInv
<1>. SUFFICES ASSUME Init, AG \in Queries
              PROVE  CountsInv
  BY DEF CountsInv, CountsFollowState, StateCounted, RowsCounted
<1>1. /\ \A g \in Groups : windowCount[g] = 0 /\ aggregates[g] = 0
      /\ landed[AG] = 0 /\ commitLog[AG] = 0
  BY DEF Init, TableQueries, AG
<1>2. \A S : {} \in SUBSET S
  OBVIOUS
<1>. QED
  BY <1>1, <1>2, FS_EmptySet
     DEF CountsInv, CountsFollowState, CountShown, StateCounted, RowsCounted

\* The upsert of a batch raises a row or leaves it; a re-run leaves it, and so
\* does every batch once the window is closed.
LEMMA CountRowStep ==
  ASSUME IInv, CountsFollowState, AG \in Queries, UpsertAggregates, NEW g \in Groups
  PROVE  /\ Closed(AG, g.window) => aggregates'[g] = aggregates[g]
         /\ CountsCovered /\ FirstBatchCovers => aggregates'[g] >= aggregates[g]
<1>1. InFlight(AG) /\ windowCount[g] \in Nat /\ aggregates[g] \in Nat
  BY UpsertedCount DEF IInv, TypeOK
<1>2. CASE CountedIn(g, Pending(AG)) = {}
  <2>1. aggregates'[g] = aggregates[g]
    BY <1>2, UpsertedCount
  <2>. QED
    BY <1>1, <2>1
<1>3. CASE CountedIn(g, Pending(AG)) # {}
  <2>1. /\ aggregates'[g] = CountAfter(g, Pending(AG))
        /\ ~Shut(AG, commitLog[AG], g)
    BY <1>1, <1>3, UpsertedCount, CountedWhileKept
  <2>2. /\ Cardinality(CountedIn(g, Pending(AG))) \in Nat \ {0}
        /\ CountAfter(g, Pending(AG))
             = windowCount[g] + Cardinality(CountedIn(g, Pending(AG)))
    <3>1. IsFiniteSet(CountedIn(g, Pending(AG)))
      <4>1. CountedIn(g, Pending(AG)) \subseteq Batch(AG, Pending(AG))
        BY DEF CountedIn, Fresh, AG
      <4>. QED
        BY <1>1, <4>1, RowPositions, FS_Subset DEF IInv
    <3>. QED
      BY <1>3, <3>1, FS_CardinalityType, FS_EmptySet DEF CountAfter
  <2>3. CASE landed[AG] = Pending(AG)
    <3>1. CountShown(g) = CountAfter(g, Pending(AG)) /\ CountShown(g) # 0
      BY <1>1, <2>2, <2>3, ShownUpserted
    <3>. QED
      BY <1>1, <2>1, <3>1 DEF CountsFollowState
  <2>4. CASE landed[AG] = commitLog[AG]
    <3>1. ~Closed(AG, g.window)
      BY <2>1, <2>4 DEF Shut, Closed
    <3>2. ASSUME CountsCovered, landed[AG] > 0
          PROVE  aggregates'[g] >= aggregates[g]
      BY <1>1, <2>1, <2>2, <2>4, <3>2 DEF CountsCovered, CountShown
    <3>3. ASSUME FirstBatchCovers, landed[AG] = 0
          PROVE  aggregates'[g] >= aggregates[g]
      BY <1>1, <2>1, <2>2, <3>3 DEF FirstBatchCovers
    <3>4. landed[AG] > 0 \/ landed[AG] = 0
      BY TableOffsets
    <3>. QED
      BY <3>1, <3>2, <3>3, <3>4
  <2>. QED
    BY <2>3, <2>4, TableOffsets
<1>. QED
  BY <1>2, <1>3

\* Only the upserts write the windowed tables.
LEMMA RowSteps ==
  ASSUME IInv, MetricsInv, CountsFollowState, [Next]_vars, NEW g \in Groups
  PROVE  /\ AG \in Queries /\ Closed(AG, g.window) =>
              aggregates'[g] = aggregates[g]
         /\ MQ \in Queries /\ Closed(MQ, g.window) => metrics'[g] = metrics[g]
         /\ metrics'[g].total >= metrics[g].total
         /\ CountsCovered /\ FirstBatchCovers => aggregates'[g] >= aggregates[g]
<1>1. aggregates[g] \in Nat /\ metrics[g] \in Counters
  BY DEF IInv, TypeOK
<1>2. aggregates[g] >= aggregates[g] /\ metrics[g].total >= metrics[g].total
  BY <1>1 DEF Counters
<1>3. \/ AG \in Queries /\ UpsertAggregates /\ metrics' = metrics
      \/ MQ \in Queries /\ UpsertMetrics /\ aggregates' = aggregates
      \/ UNCHANGED <<aggregates, metrics>>
  <2>1. CASE UpsertRecords
    BY <2>1 DEF UpsertRecords
  <2>2. CASE \/ \E e \in Events : Produce(e)
             \/ \E q \in Queries : \/ Plan(q) \/ WriteFiles(q)
                                   \/ UpsertFails(q) \/ Commit(q)
             \/ Crash \/ Restart \/ PostgresDown \/ PostgresUp
             \/ UNCHANGED vars
    BY <2>2 DEF Produce, Plan, WriteFiles, UpsertFails, Commit, Crash, Restart,
                PostgresDown, PostgresUp, tables, vars
  <2>3. /\ UpsertAggregates => metrics' = metrics
        /\ UpsertMetrics => aggregates' = aggregates
    BY DEF UpsertAggregates, UpsertMetrics
  <2>. QED
    BY <2>1, <2>2, <2>3 DEF Next, RunBatch, AG, MQ
<1>4. CASE AG \in Queries /\ UpsertAggregates /\ metrics' = metrics
  BY <1>2, <1>4, CountRowStep
<1>5. CASE MQ \in Queries /\ UpsertMetrics /\ aggregates' = aggregates
  BY <1>2, <1>5, TallyRowStep
<1>6. CASE UNCHANGED <<aggregates, metrics>>
  BY <1>2, <1>6
<1>. QED
  BY <1>3, <1>4, <1>5, <1>6

-----------------------------------------------------------------------------
(* The counts of open windows. *)

\* The copies of an event are equal in what decides where it counts: an id is
\* given to one envelope, and Kafka's client sends a message again as it is
\* (poller.py:97-101, kafka_producer.py:31-36).
CopiesAgree ==
  \A e, f \in Events :
    /\ Accepted(e) /\ Accepted(f) /\ e.event_id = f.event_id
    => e.source = f.source /\ EventTime(e) = EventTime(f)

\* Every id in the state is that of a committed event.
SeenCommitted ==
  \A i \in seen[AG] :
    \E p \in 1 .. Committed(AG) : Accepted(log[p]) /\ log[p].event_id = i

\* A committed event that no committed batch can have found late is there.
CommittedCounted ==
  \A p \in 1 .. Committed(AG) :
    /\ Accepted(log[p])
    /\ EventTime(log[p]) # Null
    /\ ~Reached(AG, commitLog[AG] - 1, EventTime(log[p]))
    => log[p].event_id \in seen[AG]

SeenInv == SeenCommitted /\ CommittedCounted

\* The state of a window the watermark has not entered is exact.
StateCountsExact ==
  \A g \in Groups : ~Reached(AG, commitLog[AG], WindowStart(g.window)) =>
    windowCount[g] = Cardinality(IdsOf(CountedUpTo(g, Committed(AG))))

CountsExact ==
  landed[AG] > 0 =>
    \A g \in Groups :
      Open(AG, g.window) =>
        aggregates[g] = Cardinality(IdsOf(CountedUpTo(g, Visible(AG))))

OpenInv == AG \in Queries => SeenInv /\ StateCountsExact /\ CountsExact

LEMMA SeenIdle ==
  ASSUME IInv, SeenInv, [Next]_vars, AG \in Queries,
         seen'[AG] = seen[AG], commitLog'[AG] = commitLog[AG]
  PROVE  SeenInv'
<1>1. PICK c \in Int : /\ c = commitLog[AG] /\ c <= Len(offsetLog[AG])
                       /\ (c - 1) - 1 <= Len(offsetLog[AG])
  BY TableOffsets
<1>2. /\ End(AG, c)' = End(AG, c)
      /\ \A p \in 1 .. End(AG, c) : log'[p] = log[p]
  BY <1>1, BatchStable
<1>3. \A t : Reached(AG, c - 1, t)' <=> Reached(AG, c - 1, t)
  BY <1>1, ReachedStable
<1>4. Committed(AG) = End(AG, c) /\ Committed(AG)' = End(AG, c)'
  BY <1>1 DEF Committed, End
<1>5. \A t : Reached(AG, commitLog[AG] - 1, t)' <=> Reached(AG, c - 1, t)'
  BY <1>1 DEF Reached, End
<1>6. SeenCommitted'
  BY <1>2, <1>4 DEF SeenInv, SeenCommitted
<1>7. CommittedCounted'
  <2>. SUFFICES ASSUME NEW p \in 1 .. Committed(AG)', Accepted(log'[p]),
                       EventTime(log'[p]) # Null,
                       ~Reached(AG, c - 1, EventTime(log[p]))'
                PROVE  log'[p].event_id \in seen'[AG]
    BY <1>1, <1>5 DEF CommittedCounted
  <2>1. p \in 1 .. Committed(AG) /\ log'[p] = log[p]
    BY <1>2, <1>4
  <2>2. ~Reached(AG, c - 1, EventTime(log[p]))
    BY <1>3, <2>1
  <2>. QED
    BY <1>1, <2>1, <2>2 DEF SeenInv, CommittedCounted
<1>. QED
  BY <1>6, <1>7 DEF SeenInv

LEMMA SeenCommit ==
  ASSUME IInv, SeenInv, AG \in Queries, Commit(AG)
  PROVE  SeenInv'
<1>. DEFINE b == Pending(AG)
<1>1. /\ commitLog'[AG] = b /\ seen'[AG] = SeenAfter(AG) /\ InFlight(AG)
      /\ UNCHANGED <<log, offsetLog>>
  <2>1. AG \in DedupQueries
    BY DEF AG, DedupQueries
  <2>. QED
    BY <2>1, TableOffsets DEF Commit, environment, IInv, TypeOK
<1>2. PICK c \in Nat : /\ c = commitLog[AG] /\ b = c + 1
                       /\ b = Len(offsetLog[AG])
  BY <1>1, TableOffsets, PendingPlanned DEF IInv
<1>3. /\ End(AG, c) \in Nat /\ End(AG, b) \in Nat
      /\ End(AG, c) <= End(AG, b) /\ End(AG, b) <= Len(log)
      /\ End(AG, b - 1) = End(AG, c) /\ Len(log) \in Nat
  <2>1. /\ c \in Int /\ b \in Int /\ c <= b /\ c <= Len(offsetLog[AG])
        /\ b <= Len(offsetLog[AG]) /\ b - 1 = c
    BY <1>2
  <2>2. End(AG, c) \in 0 .. Len(log) /\ End(AG, b) \in 0 .. Len(log)
    BY <2>1, EndBounds DEF IInv
  <2>3. End(AG, c) <= End(AG, b)
    BY <2>1, EndMonotone
  <2>4. Len(log) \in Nat
    BY DEF IInv, TypeOK
  <2>. HIDE DEF b
  <2>. QED
    BY <2>1, <2>2, <2>3, <2>4
<1>4. Committed(AG) = End(AG, c) /\ Committed(AG)' = End(AG, b)
  BY <1>1, <1>2 DEF Committed, End
<1>5. Fresh(AG, b) \subseteq Batch(AG, b)
  BY DEF Fresh
<1>6. Batch(AG, b) = (End(AG, c) + 1) .. End(AG, b)
  BY <1>3 DEF Batch
<1>7. SeenAfter(AG) = seen[AG] \cup {log[p].event_id : p \in Fresh(AG, b)}
  BY DEF SeenAfter
<1>8. SeenCommitted'
  <2>. SUFFICES ASSUME NEW i \in SeenAfter(AG)
                PROVE  \E p \in 1 .. End(AG, b) :
                         Accepted(log[p]) /\ log[p].event_id = i
    BY <1>1, <1>4 DEF SeenCommitted
  <2>1. CASE i \in seen[AG]
    <3>1. PICK p \in 1 .. End(AG, c) : Accepted(log[p]) /\ log[p].event_id = i
      BY <1>4, <2>1 DEF SeenInv, SeenCommitted
    <3>2. p \in 1 .. End(AG, b)
      BY <1>3, <3>1
    <3>. QED
      BY <3>1, <3>2
  <2>2. CASE i \notin seen[AG]
    <3>1. PICK p \in Fresh(AG, b) : log[p].event_id = i
      BY <1>7, <2>2
    <3>2. p \in 1 .. End(AG, b)
      BY <1>3, <1>5, <1>6, <3>1
    <3>3. Accepted(log[p])
      BY <1>1, <3>1, FreshOnce
    <3>. QED
      BY <3>1, <3>2, <3>3
  <2>. QED
    BY <2>1, <2>2
<1>9. CommittedCounted'
  <2>. SUFFICES ASSUME NEW p \in 1 .. End(AG, b), Accepted(log[p]),
                       EventTime(log[p]) # Null,
                       ~Reached(AG, b - 1, EventTime(log[p]))
                PROVE  log[p].event_id \in SeenAfter(AG)
    BY <1>1, <1>4 DEF CommittedCounted, Reached, End
  <2>1. CASE p <= End(AG, c)
    <3>1. p \in 1 .. Committed(AG)
      BY <1>3, <1>4, <2>1
    <3>2. PICK t \in Int : t = EventTime(log[p])
      BY <1>3, EventsInWindow DEF IInv
    <3>3. /\ c - 1 \in Int /\ b - 1 \in Int /\ c - 1 <= b - 1
          /\ (b - 1) - 1 <= Len(offsetLog[AG])
      BY <1>2
    <3>4. ~Reached(AG, c - 1, t)
      BY <3>2, <3>3, ReachedMonotone
    <3>5. log[p].event_id \in seen[AG]
      BY <1>2, <3>1, <3>2, <3>4 DEF SeenInv, CommittedCounted
    <3>. QED
      BY <1>7, <3>5
  <2>2. CASE ~(p <= End(AG, c))
    <3>1. p \in Batch(AG, b)
      BY <1>3, <1>6, <2>2
    <3>2. ~LateEvent(AG, b, log[p])
      BY DEF LateEvent
    <3>. QED
      BY <1>1, <1>7, <3>1, <3>2, FreshCovers
  <2>. QED
    BY <2>1, <2>2
<1>. QED
  BY <1>8, <1>9 DEF SeenInv

LEMMA SeenStep ==
  ASSUME IInv, SeenInv, [Next]_vars, AG \in Queries
  PROVE  SeenInv'
<1>1. CASE UpsertAggregates
  <2>1. seen' = seen /\ commitLog' = commitLog
    BY <1>1 DEF UpsertAggregates, Upserts, checkpoint
  <2>. QED
    BY <2>1, SeenIdle
<1>. QED
  BY <1>1, CountSteps, SeenIdle, SeenCommit

\* The accepted events of an open group are not late.
LEMMA OpenNotLate ==
  ASSUME IInv, NEW g \in Groups, NEW b \in Int, NEW c \in Int, c <= b,
         b - 1 <= Len(offsetLog[AG]), AG \in Queries,
         ~Reached(AG, b, WindowStart(g.window)),
         NEW p \in 1 .. Len(log), EventTime(log[p]) # Null,
         g.window = WindowOf(EventTime(log[p]))
  PROVE  ~Reached(AG, c, EventTime(log[p]))
<1>1. PICK t \in Int, w \in Int :
        t = EventTime(log[p]) /\ w = WindowStart(g.window) /\ w <= t
  BY EventsInWindow DEF IInv
<1>2. Reached(AG, c, t) => Reached(AG, b, w)
  BY <1>1, ReachedMonotone
<1>. QED
  BY <1>1, <1>2

\* The batch in flight adds to the ids of an open group those it counts, and
\* no other.
LEMMA BatchAddsIds ==
  ASSUME CopiesAgree, IInv, SeenInv, AG \in Queries, InFlight(AG),
         NEW g \in Groups,
         ~Reached(AG, commitLog[AG], WindowStart(g.window))
  PROVE  LET old   == CountedUpTo(g, Committed(AG))
             new   == CountedUpTo(g, End(AG, Pending(AG)))
             added == CountedIn(g, Pending(AG))
         IN  /\ IdsOf(new) = IdsOf(old) \cup IdsOf(added)
             /\ IdsOf(old) \cap IdsOf(added) = {}
             /\ IsFiniteSet(old) /\ IsFiniteSet(added)
<1>. DEFINE b == Pending(AG)
            old == CountedUpTo(g, Committed(AG))
            new == CountedUpTo(g, End(AG, b))
            added == CountedIn(g, b)
<1>1. PICK c \in Nat : /\ c = commitLog[AG] /\ b = c + 1
                       /\ b = Len(offsetLog[AG]) /\ b - 1 = c /\ b \in Int
                       /\ c - 1 <= Len(offsetLog[AG])
  BY TableOffsets, PendingPlanned DEF IInv
<1>3. /\ 1 .. End(AG, b) = (1 .. Committed(AG)) \cup Batch(AG, b)
      /\ IsFiniteSet(1 .. Committed(AG)) /\ IsFiniteSet(Batch(AG, b))
  BY CommittedExtended
<1>4. 1 .. End(AG, b) \subseteq 1 .. Len(log)
  <2>1. End(AG, b) \in 0 .. Len(log) /\ Len(log) \in Nat
    BY <1>1, EndBounds, LogLength DEF IInv
  <2>. HIDE DEF b
  <2>. QED
    BY <2>1
<1>5. added = {p \in Fresh(AG, b) : /\ EventTime(log[p]) # Null
                                   /\ GroupAt(log[p], EventTime(log[p])) = g}
  BY DEF CountedIn, AG
<1>6. Fresh(AG, b) \subseteq Batch(AG, b)
  BY DEF Fresh
<1>7. /\ \A p \in Fresh(AG, b) : Accepted(log[p]) /\ log[p].event_id \notin seen[AG]
  BY FreshOnce
<1>8. ASSUME NEW p \in new
      PROVE  /\ p \in 1 .. Len(log)
             /\ Accepted(log[p]) /\ EventTime(log[p]) # Null
             /\ GroupAt(log[p], EventTime(log[p])) = g
             /\ ~Reached(AG, c, EventTime(log[p]))
             /\ ~Reached(AG, c - 1, EventTime(log[p]))
  <2>1. /\ p \in 1 .. Len(log)
        /\ Accepted(log[p]) /\ EventTime(log[p]) # Null
        /\ GroupAt(log[p], EventTime(log[p])) = g
    BY <1>4 DEF CountedUpTo
  <2>2. g.window = WindowOf(EventTime(log[p]))
    BY <2>1 DEF GroupAt
  <2>3. ~Reached(AG, c, WindowStart(g.window))
    BY <1>1
  <2>4. /\ c \in Int /\ c - 1 \in Int /\ c <= c /\ c - 1 <= c
        /\ c - 1 <= Len(offsetLog[AG])
    BY <1>1
  <2>. HIDE DEF b, new
  <2>5. ~Reached(AG, c, EventTime(log[p]))
    BY <2>1, <2>2, <2>3, <2>4, OpenNotLate
  <2>6. ~Reached(AG, c - 1, EventTime(log[p]))
    BY <2>1, <2>2, <2>3, <2>4, OpenNotLate
  <2>. QED
    BY <2>1, <2>5, <2>6
<1>9. ASSUME NEW p \in 1 .. Len(log), NEW r \in 1 .. Len(log),
             Accepted(log[p]), Accepted(log[r]),
             log[p].event_id = log[r].event_id,
             EventTime(log[p]) # Null,
             GroupAt(log[p], EventTime(log[p])) = g
      PROVE  /\ EventTime(log[r]) # Null
             /\ GroupAt(log[r], EventTime(log[r])) = g
  <2>1. log[p] \in Events /\ log[r] \in Events
    BY DEF IInv, TypeOK
  <2>. QED
    BY <1>9, <2>1 DEF CopiesAgree, GroupAt
<1>10. old \subseteq new
  BY <1>3 DEF CountedUpTo
<1>11. added \subseteq new
  BY <1>3, <1>5, <1>6, <1>7 DEF CountedUpTo
<1>12. ASSUME NEW p \in new
       PROVE  log[p].event_id \in IdsOf(old) \cup IdsOf(added)
  <2>1. CASE p \in 1 .. Committed(AG)
    <3>1. p \in old
      BY <1>8, <2>1 DEF CountedUpTo
    <3>. QED
      BY <3>1 DEF IdsOf
  <2>2. CASE p \in Batch(AG, b)
    <3>1. ~LateEvent(AG, b, log[p]) /\ Accepted(log[p])
      BY <1>1, <1>8 DEF LateEvent
    <3>2. CASE log[p].event_id \in seen[AG]
      <4>1. PICK r \in 1 .. Committed(AG) :
              Accepted(log[r]) /\ log[r].event_id = log[p].event_id
        BY <3>2 DEF SeenInv, SeenCommitted
      <4>2. r \in 1 .. Len(log)
        BY <1>3, <1>4
      <4>3. r \in old
        BY <1>8, <1>9, <4>1, <4>2 DEF CountedUpTo
      <4>. QED
        BY <4>1, <4>3 DEF IdsOf
    <3>3. CASE \E r \in Fresh(AG, b) : log[r].event_id = log[p].event_id
      <4>1. PICK r \in Fresh(AG, b) : log[r].event_id = log[p].event_id
        BY <3>3
      <4>2. r \in 1 .. Len(log) /\ Accepted(log[r])
        BY <1>3, <1>4, <1>6, <1>7
      <4>3. r \in added
        BY <1>5, <1>8, <1>9, <4>1, <4>2
      <4>. QED
        BY <4>1, <4>3 DEF IdsOf
    <3>. QED
      BY <2>2, <3>1, <3>2, <3>3, FreshCovers
  <2>3. p \in 1 .. End(AG, b)
    BY DEF CountedUpTo
  <2>. QED
    BY <1>3, <2>1, <2>2, <2>3
<1>13. ASSUME NEW p \in old, NEW r \in added
       PROVE  log[p].event_id # log[r].event_id
  <2>1. log[r].event_id \notin seen[AG]
    BY <1>5, <1>7
  <2>2. /\ Accepted(log[p]) /\ EventTime(log[p]) # Null
        /\ ~Reached(AG, c - 1, EventTime(log[p]))
    BY <1>8, <1>10
  <2>3. p \in 1 .. Committed(AG)
    BY DEF CountedUpTo
  <2>4. log[p].event_id \in seen[AG]
    BY <1>1, <2>2, <2>3 DEF SeenInv, CommittedCounted
  <2>. QED
    BY <2>1, <2>4
<1>14. IsFiniteSet(old) /\ IsFiniteSet(added)
  <2>1. old \subseteq 1 .. Committed(AG) /\ added \subseteq Batch(AG, b)
    BY <1>5, <1>6 DEF CountedUpTo
  <2>. QED
    BY <1>3, <2>1, FS_Subset
<1>. HIDE DEF old, new, added
<1>15. IdsOf(new) = IdsOf(old) \cup IdsOf(added)
  BY <1>10, <1>11, <1>12 DEF IdsOf
<1>16. IdsOf(old) \cap IdsOf(added) = {}
  BY <1>13 DEF IdsOf
<1>. QED
  BY <1>14, <1>15, <1>16 DEF old, new, added

\* What the batch in flight makes of an open window is exact.
LEMMA CountExtended ==
  ASSUME CopiesAgree, IInv, SeenInv, StateCountsExact, StateCounted,
         AG \in Queries, InFlight(AG), NEW g \in Groups,
         ~Reached(AG, commitLog[AG], WindowStart(g.window))
  PROVE  CountAfter(g, Pending(AG))
           = Cardinality(IdsOf(CountedUpTo(g, End(AG, Pending(AG)))))
<1>. DEFINE old == CountedUpTo(g, Committed(AG))
            added == CountedIn(g, Pending(AG))
            new == CountedUpTo(g, End(AG, Pending(AG)))
<1>1. /\ IdsOf(new) = IdsOf(old) \cup IdsOf(added)
      /\ IdsOf(old) \cap IdsOf(added) = {}
      /\ IsFiniteSet(old) /\ IsFiniteSet(added)
  BY BatchAddsIds
<1>2. Cardinality(IdsOf(added)) = Cardinality(added)
  BY CountedSet
<1>3. windowCount[g] = Cardinality(IdsOf(old))
  BY DEF StateCountsExact
<1>4. CountAfter(g, Pending(AG)) = windowCount[g] + Cardinality(added)
  BY DEF CountAfter
<1>. HIDE DEF old, added, new
<1>5. IsFiniteSet(IdsOf(old)) /\ IsFiniteSet(IdsOf(added))
  BY <1>1, DistinctIds
<1>6. Cardinality(IdsOf(old) \cup IdsOf(added))
        = Cardinality(IdsOf(old)) + Cardinality(added)
  BY <1>1, <1>2, <1>5, DisjointUnion
<1>. QED
  BY <1>1, <1>3, <1>4, <1>6 DEF new

LEMMA StateCountsStep ==
  ASSUME CopiesAgree, IInv, StateCounted, SeenInv, StateCountsExact, [Next]_vars,
         AG \in Queries
  PROVE  StateCountsExact'
<1>1. CASE windowCount' = windowCount /\ commitLog'[AG] = commitLog[AG]
  <2>1. \A g : /\ Reached(AG, commitLog[AG], WindowStart(g.window))'
                    <=> Reached(AG, commitLog[AG], WindowStart(g.window))
               /\ CountedUpTo(g, Committed(AG))' = CountedUpTo(g, Committed(AG))
               /\ \A p \in CountedUpTo(g, Committed(AG)) : log'[p] = log[p]
    BY <1>1, CommittedStays DEF CountedUpTo
  <2>2. \A g : IdsOf(CountedUpTo(g, Committed(AG)))'
                 = IdsOf(CountedUpTo(g, Committed(AG)))
    BY <2>1 DEF IdsOf
  <2>. QED
    BY <1>1, <2>1, <2>2 DEF StateCountsExact
<1>2. CASE UpsertAggregates
  BY <1>1, <1>2, UpsertedAggregates
<1>3. CASE Commit(AG)
  <2>1. /\ commitLog'[AG] = Pending(AG) /\ InFlight(AG)
        /\ UNCHANGED <<log, offsetLog>>
        /\ \A g \in Groups :
             windowCount'[g] = IF Evicted(AG, g) THEN 0
                               ELSE CountAfter(g, Pending(AG))
    BY <1>3, CommittedAggregates
  <2>2. PICK b \in Int : /\ b = Pending(AG) /\ b - 1 = commitLog[AG]
                         /\ b - 1 \in Int /\ b - 1 <= b
                         /\ b - 1 <= Len(offsetLog[AG])
    BY <2>1, CommittedExtended, TableOffsets
  <2>3. \A t : Reached(AG, commitLog[AG], t)' <=> Reached(AG, b, t)
    BY <2>1, <2>2 DEF Reached, End
  <2>4. \A g : IdsOf(CountedUpTo(g, Committed(AG)))'
                 = IdsOf(CountedUpTo(g, End(AG, b)))
    <3>1. Committed(AG)' = End(AG, b)
      BY <2>1, <2>2 DEF Committed, End
    <3>2. log' = log
      BY <2>1
    <3>. QED
      BY <3>1, <3>2 DEF CountedUpTo, IdsOf
  <2>. SUFFICES ASSUME NEW g \in Groups, ~Reached(AG, b, WindowStart(g.window))
                PROVE  windowCount'[g] = Cardinality(IdsOf(CountedUpTo(g, End(AG, b))))
    BY <2>3, <2>4 DEF StateCountsExact
  <2>5. PICK s \in Int, t \in Int :
          s = WindowStart(g.window) /\ t = WindowEnd(g.window) /\ s <= t
    BY StartBeforeEnd
  <2>6. ~Reached(AG, b, t) /\ ~Reached(AG, b - 1, s)
    BY <2>2, <2>5, ReachedMonotone
  <2>7. ~Evicted(AG, g) /\ ~Reached(AG, commitLog[AG], WindowStart(g.window))
    BY <2>2, <2>5, <2>6 DEF Evicted
  <2>. QED
    BY <2>1, <2>2, <2>7, CountExtended
<1>. QED
  BY <1>1, <1>2, <1>3, CountSteps

LEMMA CountsExactIdle ==
  ASSUME IInv, CountsExact, [Next]_vars, AG \in Queries,
         aggregates' = aggregates, landed'[AG] = landed[AG]
  PROVE  CountsExact'
<1>1. \A g : Open(AG, g.window)' <=> Open(AG, g.window)
  BY VisibleStays DEF Open
<1>2. \A g : CountedUpTo(g, Visible(AG))' = CountedUpTo(g, Visible(AG))
  BY VisibleStays DEF CountedUpTo
<1>3. \A g : \A p \in CountedUpTo(g, Visible(AG)) : log'[p] = log[p]
  BY VisibleStays DEF CountedUpTo
<1>4. \A g : IdsOf(CountedUpTo(g, Visible(AG)))' = IdsOf(CountedUpTo(g, Visible(AG)))
  BY <1>2, <1>3 DEF IdsOf
<1>. QED
  BY <1>1, <1>4 DEF CountsExact

LEMMA CountsExactUpsert ==
  ASSUME CopiesAgree, IInv, CountsInv, OpenInv, AG \in Queries, UpsertAggregates
  PROVE  CountsExact'
<1>. DEFINE b == Pending(AG)
<1>1. /\ landed'[AG] = b /\ InFlight(AG)
      /\ UNCHANGED <<log, offsetLog>>
  BY UpsertedAggregates
<1>2. /\ commitLog[AG] \in Nat /\ b = commitLog[AG] + 1
      /\ landed[AG] \in {commitLog[AG], b} /\ b = Len(offsetLog[AG])
      /\ b - 1 = commitLog[AG] /\ Horizon(AG) = End(AG, b)
  BY <1>1, TableOffsets, CommittedExtended DEF IInv
<1>3. \A g : /\ Open(AG, g.window)' <=> ~Reached(AG, b - 1, WindowStart(g.window))
             /\ IdsOf(CountedUpTo(g, Visible(AG)))'
                   = IdsOf(CountedUpTo(g, End(AG, b)))
  <2>1. Visible(AG)' = End(AG, b)
    BY <1>1 DEF Visible, End
  <2>2. \A g : Open(AG, g.window)' <=> ~Reached(AG, b - 1, WindowStart(g.window))
    BY <1>1 DEF Open, Reached, End
  <2>3. \A g : CountedUpTo(g, Visible(AG))' = CountedUpTo(g, End(AG, b))
    BY <1>1, <2>1 DEF CountedUpTo
  <2>. QED
    BY <1>1, <2>2, <2>3 DEF IdsOf
<1>. SUFFICES ASSUME NEW g \in Groups,
                     ~Reached(AG, commitLog[AG], WindowStart(g.window))
              PROVE  aggregates'[g] = Cardinality(IdsOf(CountedUpTo(g, End(AG, b))))
  BY <1>2, <1>3 DEF CountsExact
<1>4. CountAfter(g, b) = Cardinality(IdsOf(CountedUpTo(g, End(AG, b))))
  BY <1>1, CountExtended DEF CountsInv, OpenInv
<1>5. CASE CountedIn(g, b) # {}
  BY <1>4, <1>5, UpsertedCount
<1>6. CASE CountedIn(g, b) = {}
  <2>1. aggregates'[g] = aggregates[g]
    BY <1>6, UpsertedCount
  <2>2. CASE landed[AG] = b
    <3>1. Visible(AG) = End(AG, b) /\ Open(AG, g.window) /\ landed[AG] > 0
      BY <1>2, <2>2 DEF Visible, Open
    <3>. QED
      BY <2>1, <3>1 DEF OpenInv, CountsExact
  <2>3. IdsOf(CountedUpTo(g, End(AG, b))) = IdsOf(CountedUpTo(g, Committed(AG)))
    <3>1. IdsOf(CountedUpTo(g, End(AG, b)))
            = IdsOf(CountedUpTo(g, Committed(AG))) \cup IdsOf(CountedIn(g, b))
      BY <1>1, BatchAddsIds DEF OpenInv
    <3>2. IdsOf(CountedIn(g, b)) = {}
      BY <1>6 DEF IdsOf
    <3>. QED
      BY <3>1, <3>2
  <2>4. CASE landed[AG] = commitLog[AG] /\ landed[AG] > 0
    <3>1. Visible(AG) = Committed(AG)
      BY <2>4 DEF Visible, Committed
    <3>2. Open(AG, g.window)
      <4>1. PICK c \in Int, s \in Int :
              /\ c = commitLog[AG] /\ c - 1 \in Int /\ c - 1 <= c
              /\ c - 1 <= Len(offsetLog[AG]) /\ s = WindowStart(g.window)
        BY <1>2, StartBeforeEnd
      <4>2. Reached(AG, c - 1, s) => Reached(AG, c, s)
        BY <4>1, ReachedMonotone
      <4>. QED
        BY <2>4, <4>1, <4>2 DEF Open
    <3>. QED
      BY <2>1, <2>3, <2>4, <3>1, <3>2 DEF OpenInv, CountsExact
  <2>5. CASE commitLog[AG] = 0
    <3>1. PICK S \in SUBSET IdsOf(CountedUpTo(g, Horizon(AG))) :
            aggregates[g] = Cardinality(S)
      BY DEF CountsInv, RowsCounted
    <3>2. IdsOf(CountedUpTo(g, Committed(AG))) = {}
      BY <2>5 DEF Committed, End, CountedUpTo, IdsOf
    <3>3. S = {}
      BY <1>2, <2>3, <3>1, <3>2
    <3>. QED
      BY <2>1, <2>3, <3>1, <3>2, <3>3
  <2>. QED
    BY <1>2, <2>2, <2>4, <2>5
<1>. QED
  BY <1>5, <1>6

LEMMA OpenInvStep ==
  ASSUME CopiesAgree
  PROVE  IInv /\ CountsInv /\ OpenInv /\ [Next]_vars => OpenInv'
<1>. SUFFICES ASSUME IInv, CountsInv, OpenInv, [Next]_vars, AG \in Queries
              PROVE  SeenInv' /\ StateCountsExact' /\ CountsExact'
  BY DEF OpenInv
<1>1. SeenInv' /\ StateCountsExact'
  BY SeenStep, StateCountsStep DEF OpenInv, CountsInv
<1>2. CASE UpsertAggregates
  BY <1>1, <1>2, CountsExactUpsert
<1>3. CASE Commit(AG)
  BY <1>1, <1>3, CommittedAggregates, CountsExactIdle DEF OpenInv
<1>4. CASE aggregates' = aggregates /\ landed'[AG] = landed[AG]
  BY <1>1, <1>4, CountsExactIdle DEF OpenInv
<1>. QED
  BY <1>1, <1>2, <1>3, <1>4, CountSteps

LEMMA OpenInvInitially == Init => OpenInv
<1>. SUFFICES ASSUME Init, AG \in Queries
              PROVE  SeenInv /\ StateCountsExact /\ CountsExact
  BY DEF OpenInv
<1>1. landed[AG] = 0 /\ Committed(AG) = 0 /\ seen[AG] = {}
  BY DEF Init, Committed, End, TableQueries, DedupQueries, AG
<1>2. SeenInv
  BY <1>1 DEF SeenInv, SeenCommitted, CommittedCounted
<1>3. \A g : IdsOf(CountedUpTo(g, Committed(AG))) = {}
  BY <1>1 DEF CountedUpTo, IdsOf
<1>4. StateCountsExact
  BY <1>3, FS_EmptySet DEF StateCountsExact, Init
<1>. QED
  BY <1>1, <1>2, <1>4 DEF CountsExact

LEMMA OpenImplied == OpenInv => OpenWindowsExact
  BY DEF OpenInv, CountsExact, CountedUpTo, IdsOf, OpenWindowsExact, AG

\* Where the copies of an event agree, the first batch of a version counts as
\* much as the rows any version before has left: nothing in it is late.
LEMMA FirstBatchCounts ==
  ASSUME CopiesAgree, IInv, CountsInv, OpenInv
  PROVE  FirstBatchCovers
<1>. SUFFICES ASSUME AG \in Queries, InFlight(AG), landed[AG] = 0, NEW g \in Groups
              PROVE  aggregates[g] <= Cardinality(CountedIn(g, Pending(AG)))
  BY DEF FirstBatchCovers
<1>. DEFINE added == CountedIn(g, Pending(AG))
<1>1. commitLog[AG] = 0
  BY TableOffsets
<1>2. ~Reached(AG, commitLog[AG], WindowStart(g.window))
  BY <1>1 DEF Reached, End
<1>3. IdsOf(CountedUpTo(g, Horizon(AG))) = IdsOf(added)
  <2>1. IdsOf(CountedUpTo(g, Committed(AG))) = {}
    BY <1>1 DEF Committed, End, CountedUpTo, IdsOf
  <2>2. IdsOf(CountedUpTo(g, End(AG, Pending(AG))))
          = IdsOf(CountedUpTo(g, Committed(AG))) \cup IdsOf(added)
    BY <1>2, BatchAddsIds DEF OpenInv
  <2>3. Horizon(AG) = End(AG, Pending(AG))
    BY CommittedExtended
  <2>. QED
    BY <2>1, <2>2, <2>3
<1>4. IsFiniteSet(added) /\ Cardinality(IdsOf(added)) = Cardinality(added)
  BY CountedSet DEF CountsInv
<1>5. PICK S \in SUBSET IdsOf(CountedUpTo(g, Horizon(AG))) :
        aggregates[g] = Cardinality(S)
  BY DEF CountsInv, RowsCounted
<1>. HIDE DEF added
<1>6. IsFiniteSet(IdsOf(added))
  BY <1>4, DistinctIds
<1>7. Cardinality(S) <= Cardinality(IdsOf(added))
  BY <1>3, <1>5, <1>6, FS_Subset
<1>. QED
  BY <1>4, <1>5, <1>7 DEF added

-----------------------------------------------------------------------------
(* The application without new versions of its checkpoint. *)

\* The first version finds empty tables.
StartsEmpty ==
  AG \in Queries /\ landed[AG] = 0 => \A g \in Groups : aggregates[g] = 0

LEMMA StartsEmptyStep ==
  ASSUME IInv, StartsEmpty, [Next]_vars
  PROVE  StartsEmpty'
<1>. SUFFICES ASSUME AG \in Queries, landed'[AG] = 0, NEW g \in Groups
              PROVE  aggregates'[g] = 0
  BY DEF StartsEmpty
<1>1. CASE UpsertAggregates
  BY <1>1, UpsertedAggregates, TableOffsets
<1>2. CASE Commit(AG)
  BY <1>2, CommittedAggregates DEF StartsEmpty
<1>3. CASE aggregates' = aggregates /\ landed'[AG] = landed[AG]
  BY <1>3 DEF StartsEmpty
<1>. QED
  BY <1>1, <1>2, <1>3, CountSteps

LEMMA EmptyCovered == IInv /\ StartsEmpty => FirstBatchCovers
<1>. SUFFICES ASSUME IInv, StartsEmpty, AG \in Queries, InFlight(AG),
                     landed[AG] = 0, NEW g \in Groups
              PROVE  aggregates[g] <= Cardinality(CountedIn(g, Pending(AG)))
  BY DEF FirstBatchCovers
<1>1. CountedIn(g, Pending(AG)) \subseteq Batch(AG, Pending(AG))
  BY DEF CountedIn, Fresh, AG
<1>2. IsFiniteSet(CountedIn(g, Pending(AG)))
  BY <1>1, RowPositions, FS_Subset DEF IInv
<1>. QED
  BY <1>2, FS_CardinalityType DEF StartsEmpty

LEMMA WindowsInvariance ==
  Spec => [](IInv /\ MetricsInv /\ CountsInv /\ CountsCovered /\ FirstBatchCovers)
<1>1. Init => StartsEmpty /\ CountsCovered
  BY DEF Init, StartsEmpty, CountsCovered, TableQueries, AG
<1>2. IInv /\ StartsEmpty /\ CountsCovered /\ [Next]_vars
        => StartsEmpty' /\ CountsCovered'
  BY StartsEmptyStep, CountsCoveredStep, EmptyCovered
<1>. QED
  BY <1>1, <1>2, Invariance, EmptyCovered, MetricsInitially, MetricsStep,
     CountsInitially, CountsStep, PTL
     DEF Spec

\* Counts that a reader has seen never go down, whatever is sent again, run
\* again or dropped from the state (main.py:94-141, 249-278).
THEOREM RowsOnlyGrow == Spec => CountsNeverShrink
<1>1. IInv /\ MetricsInv /\ CountsInv /\ CountsCovered /\ FirstBatchCovers /\ [Next]_vars =>
        [\A g \in Groups : /\ aggregates'[g] >= aggregates[g]
                           /\ metrics'[g].total >= metrics[g].total]_vars
  BY RowSteps DEF CountsInv
<1>. QED
  BY <1>1, WindowsInvariance, PTL DEF Spec, CountsNeverShrink

\* The row of a closed window is final, although its state is dropped: what
\* would count in it is late (main.py:228, 249-278).
THEOREM ClosedRowsFinal == Spec => ClosedWindowsFrozen
<1>1. IInv /\ MetricsInv /\ CountsInv /\ [Next]_vars =>
        [\A g \in Groups :
           /\ "aggregates" \in Queries /\ Closed("aggregates", g.window) =>
                aggregates'[g] = aggregates[g]
           /\ "metrics" \in Queries /\ Closed("metrics", g.window) =>
                metrics'[g] = metrics[g]]_vars
  BY RowSteps DEF CountsInv, AG, MQ
<1>. QED
  BY <1>1, WindowsInvariance, PTL DEF Spec, ClosedWindowsFrozen

\* The quality metrics of an open window account for every event ingested in
\* it, however often its batch was run (main.py:116-141, 264-278).
THEOREM OpenMetricsExactHolds == Spec => []OpenMetricsExact
  BY MetricsImplied, WindowsInvariance, PTL

\* Where the copies of an event agree, the row of an open window is the number
\* of distinct events of the visible prefix that fall into it, whatever was
\* sent again or run again (main.py:94-114, 249-261).
THEOREM OpenWindowsExactHolds ==
  ASSUME CopiesAgree
  PROVE  Spec => []OpenWindowsExact
<1>1. IInv /\ CountsInv /\ OpenInv /\ [Next]_vars => OpenInv'
  BY OpenInvStep
<1>. QED
  BY <1>1, OpenInvInitially, OpenImplied, WindowsInvariance, PTL DEF Spec
=============================================================================
