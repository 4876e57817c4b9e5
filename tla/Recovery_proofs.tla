--------------------------- MODULE Recovery_proofs ---------------------------
(***************************************************************************)
(* What stays true of the sinks when the operator gives queries new        *)
(* checkpoint paths, as often as he likes.  A step of RecoveryNext is one  *)
(* of Next or BumpCheckpoint, so the invariants of the application carry   *)
(* over where BumpCheckpoint preserves them.                               *)
(***************************************************************************)
EXTENDS Recovery, Windows_proofs

RQ == "raw"

-----------------------------------------------------------------------------
(* A new version of the checkpoint. *)

\* When the driver is down, its memory is gone.
DownIsIdle == app = "down" => \A q \in Queries : lastExecution[q] = "none"

BaseInv == IInv /\ DownIsIdle /\ Gapless

LEMMA StepKinds ==
  ASSUME [RecoveryNext]_vars
  PROVE  \/ [Next]_vars /\ version' = version
         \/ \E S \in SUBSET Queries : BumpCheckpoint(S)
<1>1. [Next]_vars \/ \E S \in SUBSET Queries : BumpCheckpoint(S)
  BY RenewalsAssumption DEF RecoveryNext
<1>2. [Next]_vars => version' = version
  BY DEF Next, RunBatch, Produce, Plan, WriteFiles, UpsertRecords,
         UpsertAggregates, UpsertMetrics, Upserts, UpsertFails, Commit,
         Crash, Restart, PostgresDown, PostgresUp, checkpoint, vars
<1>. QED
  BY <1>1, <1>2

\* The queries whose paths are incremented begin again ...
LEMMA Renewed ==
  ASSUME IInv, NEW S \in SUBSET Queries, BumpCheckpoint(S), NEW q \in S
  PROVE  /\ offsetLog'[q] = <<>> /\ commitLog'[q] = 0 /\ Len(offsetLog'[q]) = 0
         /\ q \in DedupQueries => seen'[q] = {}
         /\ q \in TableQueries => landed'[q] = 0
         /\ q = AG => \A g \in Groups : windowCount'[g] = 0
         /\ q = MQ => \A g \in Groups : metricState'[g] = NoTally
         /\ Committed(q)' = 0
<1>1. offsetLog'[q] = <<>> /\ commitLog'[q] = 0
  BY DEF BumpCheckpoint
<1>2. /\ q \in DedupQueries => seen'[q] = {}
      /\ q \in TableQueries => landed'[q] = 0
  BY DEF BumpCheckpoint
<1>3. /\ q = AG => \A g \in Groups : windowCount'[g] = 0
      /\ q = MQ => \A g \in Groups : metricState'[g] = NoTally
  BY DEF BumpCheckpoint, AG, MQ
<1>. QED
  BY <1>1, <1>2, <1>3 DEF Committed, End

\* ... and the others keep everything.
LEMMA Kept ==
  ASSUME IInv, NEW S \in SUBSET Queries, BumpCheckpoint(S),
         NEW q \in Queries \ S
  PROVE  /\ offsetLog'[q] = offsetLog[q] /\ commitLog'[q] = commitLog[q]
         /\ q \in DedupQueries => seen'[q] = seen[q]
         /\ q \in TableQueries => landed'[q] = landed[q]
         /\ q = AG => windowCount' = windowCount
         /\ q = MQ => metricState' = metricState
         /\ \A b : End(q, b)' = End(q, b)
         /\ \A b : Batch(q, b)' = Batch(q, b)
         /\ \A b, t : Reached(q, b, t)' = Reached(q, b, t)
         /\ Committed(q)' = Committed(q)
<1>1. offsetLog'[q] = offsetLog[q] /\ commitLog'[q] = commitLog[q]
  BY DEF BumpCheckpoint
<1>2. /\ q \in DedupQueries => seen'[q] = seen[q]
      /\ q \in TableQueries => landed'[q] = landed[q]
  BY DEF BumpCheckpoint
<1>3. /\ q = AG => windowCount' = windowCount
      /\ q = MQ => metricState' = metricState
  BY DEF BumpCheckpoint, AG, MQ, IInv, TypeOK
<1>4. log' = log
  BY DEF BumpCheckpoint, environment
<1>5. \A b : End(q, b)' = End(q, b)
  BY <1>1 DEF End
<1>6. \A b : Batch(q, b)' = Batch(q, b)
  BY <1>5 DEF Batch
<1>7. \A b, t : Reached(q, b, t)' = Reached(q, b, t)
  BY <1>4, <1>5 DEF Reached
<1>. QED
  BY <1>1, <1>2, <1>3, <1>5, <1>6, <1>7 DEF Committed

\* The sinks are not touched, whosever path it is.
LEMMA SinksKept ==
  ASSUME NEW S, BumpCheckpoint(S)
  PROVE  /\ UNCHANGED <<log, app, postgres, crashes, outages, lastExecution>>
         /\ UNCHANGED <<files, records, aggregates, metrics>>
         /\ app = "down"
  BY DEF BumpCheckpoint, environment, driver

LEMMA BumpIInv ==
  ASSUME IInv, DownIsIdle, NEW S \in SUBSET Queries, BumpCheckpoint(S)
  PROVE  IInv'
<1>1. UNCHANGED <<log, app, postgres, crashes, outages, lastExecution, files,
                  records, aggregates, metrics>>
  BY SinksKept
<1>2. version' \in [Queries -> Nat \ {0}]
  BY DEF BumpCheckpoint, IInv, TypeOK
<1>3. TypeOK'
  <2>1. /\ offsetLog' \in [Queries -> Seq(Nat)]
        /\ commitLog' \in [Queries -> Nat]
        /\ seen' \in [DedupQueries -> SUBSET EventIds]
        /\ landed' \in [TableQueries -> Nat]
    BY DEF BumpCheckpoint, IInv, TypeOK
  <2>2. NoTally \in Counters
    BY DEF NoTally, Counters
  <2>3. windowCount' \in [Groups -> Nat] /\ metricState' \in [Groups -> Counters]
    BY <2>2 DEF BumpCheckpoint, IInv, TypeOK
  <2>. QED
    BY <1>1, <1>2, <2>1, <2>3 DEF IInv, TypeOK
<1>4. CheckpointOrder'
  <2>. SUFFICES ASSUME NEW q \in Queries
                PROVE  /\ PlannedInOrder(q)'
                       /\ Len(offsetLog'[q]) \in {commitLog'[q], commitLog'[q] + 1}
                       /\ commitLog'[q] <= Shown(q)'
                       /\ q \in TableQueries => Shown(q)' <= Len(offsetLog'[q])
    BY DEF CheckpointOrder
  <2>1. CASE q \in S
    <3>1. PlannedInOrder(q)'
      BY <2>1, Renewed DEF PlannedInOrder
    <3>2. Shown(q)' \in Nat /\ (q \in TableQueries => Shown(q)' = 0)
      <4>1. CASE q \in FileQueries
        <5>1. q \notin TableQueries
          BY <4>1 DEF FileQueries, TableQueries
        <5>2. Len(files[q]) \in Nat
          BY <4>1 DEF IInv, TypeOK
        <5>. QED
          BY <1>1, <4>1, <5>1, <5>2 DEF Shown
      <4>2. CASE q \notin FileQueries
        <5>1. q \in TableQueries
          BY <4>2, QueriesAssumption
        <5>. QED
          BY <2>1, <4>2, <5>1, Renewed DEF Shown
      <4>. QED
        BY <4>1, <4>2
    <3>. QED
      BY <2>1, <3>1, <3>2, Renewed
  <2>2. CASE q \notin S
    <3>1. /\ offsetLog'[q] = offsetLog[q] /\ commitLog'[q] = commitLog[q]
          /\ q \in TableQueries => landed'[q] = landed[q]
      BY <2>2, Kept
    <3>2. Shown(q)' = Shown(q)
      BY <1>1, <3>1, QueriesAssumption DEF Shown
    <3>. QED
      BY <1>1, <3>1, <3>2 DEF IInv, CheckpointOrder, PlannedInOrder
  <2>. QED
    BY <2>1, <2>2
<1>5. SunkInFlight'
  BY SinksKept DEF DownIsIdle, SunkInFlight
<1>. QED
  BY <1>3, <1>4, <1>5 DEF IInv

LEMMA BumpGapless ==
  ASSUME IInv, Gapless, NEW S \in SUBSET Queries, BumpCheckpoint(S)
  PROVE  Gapless'
<1>. SUFFICES ASSUME NEW q \in Queries,
                     NEW p \in 1 .. End(q, Len(offsetLog[q]))'
              PROVE  \E b \in 1 .. Len(offsetLog'[q]) : p \in Batch(q, b)'
  BY DEF Gapless
<1>1. CASE q \in S
  <2>1. End(q, Len(offsetLog[q]))' = 0
    BY <1>1, Renewed DEF End
  <2>. QED
    BY <2>1
<1>2. CASE q \notin S
  <2>1. /\ offsetLog'[q] = offsetLog[q]
        /\ End(q, Len(offsetLog[q]))' = End(q, Len(offsetLog[q]))
        /\ \A b : Batch(q, b)' = Batch(q, b)
    BY <1>2, Kept DEF End
  <2>. QED
    BY <2>1 DEF Gapless
<1>. QED
  BY <1>1, <1>2

LEMMA DownIsIdleStep ==
  ASSUME TypeOK, DownIsIdle, [Next]_vars
  PROVE  DownIsIdle'
<1>1. \/ app' = "up"
      \/ lastExecution' = [q \in Queries |-> "none"]
      \/ UNCHANGED <<app, lastExecution>>
  BY DEF Next, RunBatch, Produce, Plan, WriteFiles, UpsertRecords,
         UpsertAggregates, UpsertMetrics, Upserts, Runnable, UpsertFails, Commit,
         Crash, Restart, PostgresDown, PostgresUp, driver, vars
<1>. QED
  BY <1>1 DEF DownIsIdle

LEMMA BaseStep == BaseInv /\ [RecoveryNext]_vars => BaseInv'
<1>. SUFFICES ASSUME BaseInv, [RecoveryNext]_vars
              PROVE  BaseInv'
  OBVIOUS
<1>1. ASSUME [Next]_vars, version' = version
      PROVE  BaseInv'
  <2>1. IInv' /\ DownIsIdle' /\ Gapless'
    BY <1>1, NextIInv, DownIsIdleStep, GaplessStep DEF BaseInv, IInv
  <2>. QED
    BY <2>1 DEF BaseInv
<1>2. ASSUME NEW S \in SUBSET Queries, BumpCheckpoint(S)
      PROVE  BaseInv'
  <2>1. DownIsIdle'
    BY <1>2, SinksKept DEF BaseInv, DownIsIdle
  <2>. QED
    BY <1>2, <2>1, BumpIInv, BumpGapless DEF BaseInv
<1>. QED
  BY <1>1, <1>2, StepKinds

LEMMA BaseInitially == Init => BaseInv
<1>. SUFFICES ASSUME Init PROVE BaseInv
  OBVIOUS
<1>1. IInv
  BY InitIInv
<1>2. DownIsIdle
  BY DEF Init, DownIsIdle
<1>3. Gapless
  BY DEF Init, Gapless, End
<1>. QED
  BY <1>1, <1>2, <1>3 DEF BaseInv

\* The state's shape, the write-ahead order of the checkpoint and the absence
\* of gaps between planned batches survive every new version.
THEOREM RecoveryInvariance == RecoverySpec => []BaseInv
  BY BaseInitially, BaseStep, PTL DEF RecoverySpec

\* Type correctness, whatever paths the operator increments.
THEOREM RecoveryTypes == RecoverySpec => []TypeOK
<1>1. BaseInv => TypeOK
  BY DEF BaseInv, IInv
<1>. QED
  BY <1>1, RecoveryInvariance, PTL

-----------------------------------------------------------------------------
(* The raw files. *)

\* The first k batches are those of earlier versions: one version leaves a
\* prefix of the log.  The first batch of this version holds them all.
RawBefore(k) ==
  /\ version[RQ] = 1 => k = 0
  /\ version[RQ] = 2 =>
       \E m \in 0 .. Len(log) : UNION {files[RQ][b] : b \in 1 .. k} = 1 .. m
  /\ offsetLog[RQ] # <<>> => \A b \in 1 .. k : files[RQ][b] \subseteq Batch(RQ, 1)

\* The others are batches of this version.
RawSince(k) ==
  \A b \in k + 1 .. Len(files[RQ]) :
    b <= Len(offsetLog[RQ]) /\ files[RQ][b] = Batch(RQ, b)

RawOfLog == \A b \in 1 .. Len(files[RQ]) : files[RQ][b] \subseteq 1 .. Len(log)

RawInv == IF RQ \in Queries
          THEN /\ \E k \in 0 .. Len(files[RQ]) : RawBefore(k) /\ RawSince(k)
               /\ RawOfLog /\ NoEventTwice
          ELSE files[RQ] = <<>>

LEMMA RawFacts ==
  ASSUME BaseInv
  PROVE  /\ files[RQ] \in Seq(SUBSET Nat) /\ Len(files[RQ]) \in Nat
         /\ RQ \in FileQueries /\ Len(log) \in Nat
         /\ RQ \in Queries => /\ commitLog[RQ] \in Nat /\ Len(offsetLog[RQ]) \in Nat
                              /\ offsetLog[RQ] \in Seq(Nat)
                              /\ commitLog[RQ] <= Len(files[RQ])
  BY DEF BaseInv, IInv, TypeOK, CheckpointOrder, Shown, FileQueries, RQ

\* What is planned and not yet in the files is new to them.
LEMMA NewToFiles ==
  ASSUME BaseInv, RQ \in Queries, InFlight(RQ), Len(files[RQ]) + 1 = Pending(RQ),
         NEW k \in 0 .. Len(files[RQ]), RawBefore(k), RawSince(k),
         NEW c \in 1 .. Len(files[RQ])
  PROVE  files[RQ][c] \cap Batch(RQ, Pending(RQ)) = {}
<1>1. /\ Pending(RQ) = Len(offsetLog[RQ]) /\ Len(offsetLog[RQ]) \in Nat
      /\ Len(files[RQ]) \in Nat
  BY PendingPlanned, RawFacts DEF BaseInv, IInv
<1>2. /\ 1 \in 1 .. Len(offsetLog[RQ]) /\ Pending(RQ) \in 1 .. Len(offsetLog[RQ])
      /\ c \in 1 .. Len(offsetLog[RQ]) /\ c # Pending(RQ) /\ Pending(RQ) # 1
      /\ offsetLog[RQ] # <<>>
  <2>1. Len(offsetLog[RQ]) # 0
    BY <1>1
  <2>2. offsetLog[RQ] # <<>>
    BY <2>1
  <2>3. /\ 1 \in 1 .. Len(offsetLog[RQ]) /\ Pending(RQ) \in 1 .. Len(offsetLog[RQ])
        /\ c \in 1 .. Len(offsetLog[RQ]) /\ c # Pending(RQ) /\ Pending(RQ) # 1
    <3>1. PICK n \in Nat, m \in Nat :
            n = Len(files[RQ]) /\ m = Len(offsetLog[RQ]) /\ m = n + 1
      BY <1>1
    <3>2. c \in 1 .. n /\ Pending(RQ) = m
      BY <1>1, <3>1
    <3>. QED
      BY <3>1, <3>2
  <2>. QED
    BY <2>2, <2>3
<1>3. files[RQ][c] \subseteq Batch(RQ, 1) \/ files[RQ][c] \subseteq Batch(RQ, c)
  BY <1>2 DEF RawBefore, RawSince
<1>. QED
  BY <1>2, <1>3, BatchesDisjoint DEF BaseInv

LEMMA RawWrite ==
  ASSUME BaseInv, RawInv, RQ \in Queries, InFlight(RQ),
         Len(files[RQ]) + 1 = Pending(RQ),
         files'[RQ] = Append(files[RQ], FileRows(RQ, Pending(RQ))),
         UNCHANGED <<log, checkpoint>>
  PROVE  RawInv'
<1>. DEFINE rows == Batch(RQ, Pending(RQ))
            n == Len(files[RQ])
            new == Append(files[RQ], rows)
<1>1. FileRows(RQ, Pending(RQ)) = rows
  BY Zenon DEF FileRows, RQ
<1>2. /\ Len(new) = n + 1 /\ new[n + 1] = rows /\ n \in Nat
      /\ \A b \in 1 .. n : new[b] = files[RQ][b]
  BY RawFacts
<1>3. files'[RQ] = new
  BY <1>1
<1>. HIDE DEF new
<1>4. UNCHANGED <<log, offsetLog, commitLog, version>>
  BY DEF checkpoint
<1>5. \A b : Batch(RQ, b)' = Batch(RQ, b)
  BY <1>4 DEF Batch, End
<1>6. rows \subseteq 1 .. Len(log) /\ n + 1 = Len(offsetLog[RQ])
  BY RowPositions, PendingPlanned DEF BaseInv, IInv
<1>7. PICK k \in 0 .. n : RawBefore(k) /\ RawSince(k)
  BY DEF RawInv
<1>8. \A c \in 1 .. n : files[RQ][c] \cap rows = {}
  BY <1>7, NewToFiles
<1>. HIDE DEF rows, n
<1>9. RawBefore(k)'
  <2>1. \A b \in 1 .. k : files'[RQ][b] = files[RQ][b]
    BY <1>2, <1>3
  <2>2. UNION {files'[RQ][b] : b \in 1 .. k} = UNION {files[RQ][b] : b \in 1 .. k}
    BY <2>1, Zenon
  <2>3. offsetLog'[RQ] # <<>> =>
          \A b \in 1 .. k : files'[RQ][b] \subseteq Batch(RQ, 1)'
    BY <1>4, <1>5, <1>7, <2>1 DEF RawBefore
  <2>. QED
    BY <1>4, <1>7, <2>2, <2>3 DEF RawBefore
<1>10. RawSince(k)'
  <2>1. ASSUME NEW b \in k + 1 .. Len(files'[RQ])
        PROVE  b <= Len(offsetLog'[RQ]) /\ files'[RQ][b] = Batch(RQ, b)'
    <3>1. CASE b = n + 1
      <4>1. rows = Batch(RQ, b)
        BY <3>1 DEF rows, n
      <4>. QED
        BY <1>2, <1>3, <1>4, <1>5, <1>6, <3>1, <4>1
    <3>2. CASE b # n + 1
      <4>1. b \in k + 1 .. n /\ b \in 1 .. n
        BY <1>2, <1>3, <2>1, <3>2
      <4>. QED
        BY <1>2, <1>3, <1>4, <1>5, <1>7, <4>1 DEF RawSince, n
    <3>. QED
      BY <3>1, <3>2
  <2>. QED
    BY <2>1 DEF RawSince
<1>11. \A b \in 1 .. n + 1 : b \in 1 .. n \/ b = n + 1
  BY <1>2
<1>12. RawOfLog'
  BY <1>2, <1>3, <1>4, <1>6, <1>11 DEF RawInv, RawOfLog, n
<1>13. NoEventTwice'
  <2>1. \A b, c \in 1 .. n : new[b] \cap new[c] # {} => b = c
    BY <1>2, Zenon DEF RawInv, NoEventTwice, RQ, n
  <2>2. \A c \in 1 .. n : new[c] \cap new[n + 1] = {} /\ new[n + 1] \cap new[c] = {}
    BY <1>2, <1>8
  <2>3. \A b, c \in 1 .. n + 1 : new[b] \cap new[c] # {} => b = c
    BY <1>11, <2>1, <2>2, Zenon
  <2>. QED
    BY <1>2, <1>3, <2>3 DEF NoEventTwice, RQ
<1>14. k \in 0 .. Len(files'[RQ])
  BY <1>2, <1>3
<1>. QED
  BY <1>9, <1>10, <1>12, <1>13, <1>14 DEF RawInv

LEMMA RawIdle ==
  ASSUME BaseInv, RawInv, [Next]_vars, RQ \in Queries,
         files'[RQ] = files[RQ], version' = version
  PROVE  RawInv'
<1>1. /\ Len(log) \in Nat /\ Len(log') \in Nat /\ Len(log) <= Len(log')
      /\ Len(offsetLog[RQ]) \in Nat /\ Len(offsetLog'[RQ]) \in Nat
      /\ Len(offsetLog[RQ]) <= Len(offsetLog'[RQ])
  BY LogsGrow DEF BaseInv
<1>2. \A b \in Int : b <= Len(offsetLog[RQ]) => Batch(RQ, b)' = Batch(RQ, b)
  BY BatchStable DEF BaseInv
<1>3. PICK k \in 0 .. Len(files[RQ]) : RawBefore(k) /\ RawSince(k)
  BY DEF RawInv
<1>4. ASSUME offsetLog'[RQ] # <<>>, NEW b \in 1 .. k
      PROVE  files[RQ][b] \subseteq Batch(RQ, 1)'
  <2>1. CASE offsetLog[RQ] # <<>>
    <3>1. 1 <= Len(offsetLog[RQ])
      BY <2>1, RawFacts
    <3>. QED
      BY <1>2, <1>3, <2>1, <3>1 DEF RawBefore
  <2>2. CASE offsetLog[RQ] = <<>>
    <3>1. Len(offsetLog[RQ]) = 0
      BY <2>2
    <3>2. Len(offsetLog'[RQ]) # 0
      <4>1. offsetLog'[RQ] \in Seq(Nat)
        BY NextIInv DEF BaseInv, IInv, TypeOK
      <4>. QED
        BY <1>4, <4>1
    <3>3. Len(offsetLog[RQ]) + 1 = 1
      BY <3>1
    <3>4. offsetLog'[RQ][1] = Len(log)
      BY <3>1, <3>2, <3>3, NewBatch DEF BaseInv
    <3>5. Batch(RQ, 1)' = 1 .. Len(log)
      BY <3>4 DEF Batch, End
    <3>6. b \in 1 .. Len(files[RQ])
      BY RawFacts
    <3>. QED
      BY <3>5, <3>6 DEF RawInv, RawOfLog
  <2>. QED
    BY <2>1, <2>2
<1>5. RawBefore(k)'
  <2>1. UNION {files'[RQ][b] : b \in 1 .. k} = UNION {files[RQ][b] : b \in 1 .. k}
    OBVIOUS
  <2>2. 0 .. Len(log) \subseteq 0 .. Len(log')
    BY <1>1
  <2>3. offsetLog'[RQ] # <<>> =>
          \A b \in 1 .. k : files'[RQ][b] \subseteq Batch(RQ, 1)'
    BY <1>4
  <2>. QED
    BY <1>3, <2>1, <2>2, <2>3 DEF RawBefore
<1>6. RawSince(k)'
  <2>1. ASSUME NEW b \in k + 1 .. Len(files[RQ])
        PROVE  b <= Len(offsetLog'[RQ]) /\ files'[RQ][b] = Batch(RQ, b)'
    <3>1. b <= Len(offsetLog[RQ]) /\ files[RQ][b] = Batch(RQ, b) /\ b \in Int
      BY <1>3 DEF RawSince
    <3>. QED
      BY <1>1, <1>2, <3>1
  <2>. QED
    BY <2>1 DEF RawSince
<1>7. RawOfLog'
  <2>1. 1 .. Len(log) \subseteq 1 .. Len(log')
    BY <1>1
  <2>. QED
    BY <2>1, Zenon DEF RawInv, RawOfLog
<1>8. NoEventTwice'
  BY DEF RawInv, NoEventTwice, RQ
<1>. QED
  BY <1>3, <1>5, <1>6, <1>7, <1>8 DEF RawInv

\* The first n batches of a version hold a prefix of the log.
LEMMA BatchesArePrefix ==
  ASSUME BaseInv, NEW q \in Queries, NEW n \in Nat, n <= Len(offsetLog[q])
  PROVE  UNION {Batch(q, b) : b \in 1 .. n} = 1 .. End(q, n)
<1>1. Len(offsetLog[q]) \in Nat /\ Len(log) \in Nat
  BY DEF BaseInv, IInv, TypeOK
<1>2. End(q, n) \in 0 .. Len(log) /\ End(q, Len(offsetLog[q])) \in 0 .. Len(log)
  BY <1>1, EndBounds DEF BaseInv, IInv
<1>3. ASSUME NEW b \in 1 .. n, NEW p \in Batch(q, b)
      PROVE  p \in 1 .. End(q, n)
  <2>1. b \in Int /\ b <= n /\ b <= Len(offsetLog[q]) /\ n \in Int
    BY <1>1
  <2>2. End(q, b) <= End(q, n) /\ End(q, b) \in 0 .. Len(log)
    BY <2>1, EndMonotone, EndBounds DEF BaseInv, IInv
  <2>3. p \in 1 .. Len(log)
    BY <2>1, BatchPositions DEF BaseInv, IInv
  <2>4. p <= End(q, b)
    BY DEF Batch
  <2>. QED
    BY <1>1, <1>2, <2>2, <2>3, <2>4
<1>4. ASSUME NEW p \in 1 .. End(q, n)
      PROVE  \E b \in 1 .. n : p \in Batch(q, b)
  <2>1. End(q, n) <= End(q, Len(offsetLog[q]))
    BY <1>1, EndMonotone DEF BaseInv
  <2>2. PICK b \in 1 .. Len(offsetLog[q]) : p \in Batch(q, b)
    BY <1>2, <2>1 DEF BaseInv, Gapless
  <2>3. b <= n
    <3>. SUFFICES ASSUME b > n PROVE FALSE
      BY <1>1
    <3>1. /\ n \in Int /\ b - 1 \in Int /\ n <= b - 1 /\ b - 1 <= Len(offsetLog[q])
      BY <1>1
    <3>2. End(q, n) <= End(q, b - 1) /\ End(q, b - 1) \in 0 .. Len(log)
      BY <3>1, EndMonotone, EndBounds DEF BaseInv, IInv
    <3>. QED
      BY <1>1, <1>2, <2>2, <3>2 DEF Batch
  <2>. QED
    BY <1>1, <2>2, <2>3
<1>. QED
  BY <1>3, <1>4

LEMMA RawBump ==
  ASSUME BaseInv, RawInv, NEW S \in SUBSET Queries, BumpCheckpoint(S)
  PROVE  RawInv'
<1>1. UNCHANGED <<log, files>>
  BY SinksKept
<1>2. RawOfLog <=> RawOfLog'
  BY <1>1 DEF RawOfLog
<1>3. NoEventTwice <=> NoEventTwice'
  BY <1>1 DEF NoEventTwice
<1>. DEFINE n == Len(files[RQ])
<1>4. n \in Nat
  BY RawFacts
<1>5. CASE RQ \notin Queries
  BY <1>1, <1>5 DEF RawInv
<1>6. CASE RQ \in S
  <2>1. offsetLog'[RQ] = <<>>
    BY <1>6, Renewed DEF BaseInv
  <2>2. version'[RQ] = version[RQ] + 1 /\ version[RQ] \in Nat \ {0}
    BY <1>6 DEF BumpCheckpoint, BaseInv, IInv, TypeOK
  <2>3. ASSUME version'[RQ] = 2
        PROVE  \E m \in 0 .. Len(log) : UNION {files[RQ][b] : b \in 1 .. n} = 1 .. m
    <3>1. RawSince(0)
      BY <1>6, <2>2, <2>3 DEF RawInv, RawBefore
    <3>2. \A b \in 1 .. n : b <= Len(offsetLog[RQ]) /\ files[RQ][b] = Batch(RQ, b)
      BY <3>1 DEF RawSince
    <3>3. n <= Len(offsetLog[RQ]) /\ Len(offsetLog[RQ]) \in Nat
      <4>1. Len(offsetLog[RQ]) \in Nat
        BY <1>6, RawFacts
      <4>2. n = 0 \/ n \in 1 .. n
        BY <1>4
      <4>. QED
        BY <3>2, <4>1, <4>2
    <3>4. UNION {files[RQ][b] : b \in 1 .. n} = UNION {Batch(RQ, b) : b \in 1 .. n}
      BY <3>2, Zenon
    <3>5. UNION {Batch(RQ, b) : b \in 1 .. n} = 1 .. End(RQ, n)
      BY <1>4, <1>6, <3>3, BatchesArePrefix
    <3>6. End(RQ, n) \in 0 .. Len(log)
      BY <1>4, <1>6, <3>3, EndBounds DEF BaseInv, IInv
    <3>. QED
      BY <3>4, <3>5, <3>6
  <2>4. RawBefore(n)'
    <3>1. version'[RQ] # 1
      BY <2>2
    <3>. QED
      BY <1>1, <2>1, <2>3, <3>1 DEF RawBefore
  <2>5. RawSince(n)'
    BY <1>1, <1>4 DEF RawSince
  <2>6. n \in 0 .. Len(files'[RQ])
    BY <1>1, <1>4
  <2>. QED
    BY <1>2, <1>3, <1>6, <2>4, <2>5, <2>6 DEF RawInv
<1>7. CASE RQ \in Queries \ S
  <2>1. PICK k \in 0 .. n : RawBefore(k) /\ RawSince(k)
    BY <1>7 DEF RawInv
  <2>2. version'[RQ] = version[RQ]
    BY <1>7 DEF BumpCheckpoint
  <2>3. offsetLog'[RQ] = offsetLog[RQ] /\ \A b : Batch(RQ, b)' = Batch(RQ, b)
    BY <1>7, Kept DEF BaseInv
  <2>4. RawBefore(k)'
    BY <1>1, <2>1, <2>2, <2>3 DEF RawBefore
  <2>5. RawSince(k)'
    BY <1>1, <2>1, <2>3 DEF RawSince
  <2>. QED
    BY <1>1, <1>2, <1>3, <1>7, <2>4, <2>5 DEF RawInv
<1>. QED
  BY <1>5, <1>6, <1>7

LEMMA RawStep == BaseInv /\ RawInv /\ [RecoveryNext]_vars => RawInv'
<1>. SUFFICES ASSUME BaseInv, RawInv, [RecoveryNext]_vars
              PROVE  RawInv'
  OBVIOUS
<1>1. ASSUME [Next]_vars, version' = version
      PROVE  RawInv'
  <2>1. RQ \in FileQueries
    BY RawFacts
  <2>2. CASE files'[RQ] = files[RQ]
    <3>1. CASE RQ \in Queries
      BY <1>1, <2>2, <3>1, RawIdle
    <3>2. CASE RQ \notin Queries
      BY <2>2, <3>2 DEF RawInv
    <3>. QED
      BY <3>1, <3>2
  <2>3. CASE /\ RQ \in Queries /\ InFlight(RQ)
             /\ Len(files[RQ]) + 1 = Pending(RQ)
             /\ files'[RQ] = Append(files[RQ], FileRows(RQ, Pending(RQ)))
             /\ UNCHANGED <<log, checkpoint>>
    BY <1>1, <2>3, RawWrite
  <2>. QED
    BY <1>1, <2>1, <2>2, <2>3, FilesGrow DEF BaseInv
<1>2. ASSUME NEW S \in SUBSET Queries, BumpCheckpoint(S)
      PROVE  RawInv'
  BY <1>2, RawBump
<1>. QED
  BY <1>1, <1>2, StepKinds

LEMMA RawInitially == Init => RawInv
<1>. SUFFICES ASSUME Init PROVE RawInv
  OBVIOUS
<1>1. files[RQ] = <<>> /\ Len(files[RQ]) = 0
  BY DEF Init, FileQueries, RQ
<1>2. RQ \in Queries => version[RQ] = 1 /\ offsetLog[RQ] = <<>>
  BY DEF Init
<1>3. RQ \in Queries => RawBefore(0) /\ RawSince(0)
  BY <1>1, <1>2 DEF RawBefore, RawSince
<1>4. RawOfLog /\ NoEventTwice
  BY <1>1 DEF RawOfLog, NoEventTwice, RQ
<1>. QED
  BY <1>1, <1>3, <1>4 DEF RawInv

LEMMA RawImplied == BaseInv /\ RawInv => NoEventTwice /\ LostByNumberOnly
<1>. SUFFICES ASSUME BaseInv, RawInv PROVE NoEventTwice /\ LostByNumberOnly
  OBVIOUS
<1>1. NoEventTwice
  <2>1. files[RQ] = <<>> => NoEventTwice
    BY DEF NoEventTwice, RQ
  <2>. QED
    BY <2>1 DEF RawInv
<1>2. ASSUME RQ \in Queries PROVE LostByNumberOnly
  <2>1. PICK k \in 0 .. Len(files[RQ]) : RawBefore(k) /\ RawSince(k)
    BY <1>2 DEF RawInv
  <2>. DEFINE kept == UNION {files[RQ][b] : b \in 1 .. k}
  <2>2. offsetLog[RQ] # <<>> => kept \subseteq Batch(RQ, 1)
    BY <2>1 DEF RawBefore
  <2>3. commitLog[RQ] <= Len(files[RQ])
    BY <1>2, RawFacts
  <2>. QED
    BY <2>1, <2>2, <2>3 DEF LostByNumberOnly, RawBefore, RawSince, RQ
<1>. QED
  BY <1>1, <1>2 DEF LostByNumberOnly, RQ

LEMMA RawInvariance == RecoverySpec => [](BaseInv /\ RawInv)
  BY RecoveryInvariance, RawInitially, RawStep, PTL DEF RecoverySpec

\* No new version of the checkpoint makes the raw files repeat an event: a
\* batch is written under the number its version gives it, and that number
\* was taken when the batch is not the first (main.py:175-181).
THEOREM NoEventTwiceHolds == RecoverySpec => []NoEventTwice
  BY RawInvariance, RawImplied, PTL

\* What an increment costs: the committed events no raw file has are those of
\* the batches whose numbers the manifest had already (main.py:178).
THEOREM LossIsByNumber == RecoverySpec => []LostByNumberOnly
  BY RawInvariance, RawImplied, PTL

-----------------------------------------------------------------------------
(* The processed files and processed_records. *)

LEMMA DedupBump ==
  ASSUME BaseInv, DedupInv, NEW S \in SUBSET Queries, BumpCheckpoint(S)
  PROVE  DedupInv'
<1>. SUFFICES ASSUME PQ \in Queries
              PROVE  \E k \in 0 .. Len(files'[PQ]) : DedupAbove(k)'
  BY DEF DedupInv
<1>1. PICK k \in 0 .. Len(files[PQ]) : DedupAbove(k)
  BY DEF DedupInv
<1>2. UNCHANGED <<log, files>>
  BY SinksKept
<1>3. PQ \in DedupQueries /\ PQ \in FileQueries /\ Len(files[PQ]) \in Nat
  BY DEF DedupQueries, FileQueries, PQ, BaseInv, IInv, TypeOK
<1>4. RowsAccepted' /\ RowsDistinct'
  <2>1. log' = log /\ files' = files
    BY <1>2
  <2>2. RowsAccepted /\ RowsDistinct
    BY <1>1 DEF DedupAbove
  <2>3. RowsAccepted'
    BY <2>1, <2>2 DEF RowsAccepted, RowsOf
  <2>4. RowsDistinct'
    BY <2>1, <2>2 DEF RowsDistinct, RowsOf
  <2>. QED
    BY <2>3, <2>4
<1>5. CASE PQ \in S
  <2>. DEFINE n == Len(files[PQ])
  <2>1. offsetLog'[PQ] = <<>> /\ commitLog'[PQ] = 0
    BY <1>5, Renewed DEF BaseInv
  <2>2. RowsKept(n)' /\ RowsInBatches(n)' /\ CommittedSeen(n)'
    BY <1>2, <1>3, <2>1 DEF RowsKept, RowsInBatches, CommittedSeen
  <2>3. WrittenIsFresh(n)'
    <3>1. Pending(PQ)' = 1
      BY <2>1 DEF Pending
    <3>. QED
      BY <1>2, <1>3, <3>1 DEF WrittenIsFresh
  <2>. QED
    BY <1>2, <1>3, <1>4, <2>2, <2>3 DEF DedupAbove
<1>6. CASE PQ \notin S
  <2>1. /\ offsetLog'[PQ] = offsetLog[PQ] /\ commitLog'[PQ] = commitLog[PQ]
        /\ seen'[PQ] = seen[PQ]
        /\ \A b : Batch(PQ, b)' = Batch(PQ, b)
        /\ \A b, t : Reached(PQ, b, t)' = Reached(PQ, b, t)
    BY <1>3, <1>6, Kept DEF BaseInv
  <2>2. RowsKept(k)' /\ RowsInBatches(k)' /\ CommittedSeen(k)'
    BY <1>1, <1>2, <2>1
       DEF DedupAbove, RowsKept, RowsInBatches, CommittedSeen, RowsOf
  <2>3. Pending(PQ)' = Pending(PQ)
    BY <2>1 DEF Pending
  <2>4. \A b : Fresh(PQ, b)' = Fresh(PQ, b)
    BY <1>2, <2>1 DEF Fresh, LateEvent
  <2>5. WrittenIsFresh(k)'
    BY <1>1, <1>2, <2>3, <2>4 DEF DedupAbove, WrittenIsFresh, RowsOf
  <2>. QED
    BY <1>1, <1>2, <1>4, <2>2, <2>5 DEF DedupAbove
<1>. QED
  BY <1>5, <1>6

\* The processed files keep one row per event id across versions of the
\* checkpoint: the first batch of a version, which starts with no ids, finds
\* its number taken or nothing written before it (main.py:230, 239-245).
THEOREM OneRowAcrossVersions == RecoverySpec => []OneFileRowPerEvent
<1>1. Init => DedupInv
  BY DedupInitially
<1>2. BaseInv /\ DedupInv /\ [RecoveryNext]_vars => DedupInv'
  BY StepKinds, DedupStep, DedupBump DEF BaseInv
<1>. QED
  BY <1>1, <1>2, RecoveryInvariance, DedupImplied, PTL DEF RecoverySpec

-----------------------------------------------------------------------------
(* The serving table. *)

\* All accepted copies of event i.
KnownCopies(i) ==
  {p \in 1 .. Len(log) : Accepted(log[p]) /\ log[p].event_id = i}

\* The row of i, over the rows the versions before have left.
RowServed(i) ==
  /\ records[i] # NoRow => /\ records[i].inserted \in KnownCopies(i)
                          /\ \A p \in KnownCopies(i) : records[i].inserted <= p
                          /\ records[i].updated \in KnownCopies(i)
  /\ VisibleCopies(i) # {} => /\ records[i] # NoRow
                             /\ records[i].updated \in VisibleCopies(i)

RowsServed == PG \in Queries => \A i \in EventIds : RowServed(i)

\* The log only grows, so what is known of an event only gains later copies.
LEMMA KnownGrows ==
  ASSUME IInv, [Next]_vars, NEW i
  PROVE  /\ KnownCopies(i) \subseteq KnownCopies(i)'
         /\ \A p \in KnownCopies(i)' \ KnownCopies(i) : p > Len(log)
         /\ KnownCopies(i) \subseteq 1 .. Len(log) /\ Len(log) \in Nat
<1>1. log \in Seq(Events) /\ Len(log) \in Nat
  BY DEF IInv, TypeOK
<1>2. \/ log' = log
      \/ \E e \in Events : log' = Append(log, e)
  BY DEF Next, RunBatch, Produce, Plan, WriteFiles, UpsertRecords,
     UpsertAggregates, UpsertMetrics, Upserts, UpsertFails, Commit, Crash,
     Restart, PostgresDown, PostgresUp, environment, vars
<1>3. /\ Len(log') \in Nat /\ Len(log') >= Len(log)
      /\ \A p \in 1 .. Len(log) : log'[p] = log[p]
  BY <1>1, <1>2
<1>. QED
  BY <1>1, <1>3 DEF KnownCopies

\* A step that leaves the row, and shows no copy that was not shown.
LEMMA RowKept ==
  ASSUME IInv, [Next]_vars, NEW i, RowServed(i), records'[i] = records[i],
         VisibleCopies(i)' = VisibleCopies(i)
  PROVE  RowServed(i)'
<1>1. /\ KnownCopies(i) \subseteq KnownCopies(i)'
      /\ \A p \in KnownCopies(i)' \ KnownCopies(i) : p > Len(log)
      /\ KnownCopies(i) \subseteq 1 .. Len(log) /\ Len(log) \in Nat
  BY KnownGrows
<1>. KnownCopies(i)' \subseteq Nat
  BY DEF KnownCopies
<1>2. ASSUME records[i] # NoRow
      PROVE  /\ records[i].inserted \in KnownCopies(i)'
             /\ \A p \in KnownCopies(i)' : records[i].inserted <= p
             /\ records[i].updated \in KnownCopies(i)'
  <2>1. /\ records[i].inserted \in KnownCopies(i)
        /\ \A p \in KnownCopies(i) : records[i].inserted <= p
        /\ records[i].updated \in KnownCopies(i)
    BY <1>2 DEF RowServed
  <2>2. ASSUME NEW p \in KnownCopies(i)' \ KnownCopies(i)
        PROVE  records[i].inserted <= p
    <3>1. /\ records[i].inserted \in Nat /\ records[i].inserted <= Len(log)
          /\ p \in Nat /\ p > Len(log)
      BY <1>1, <2>1, <2>2
    <3>. QED
      BY <1>1, <3>1
  <2>. QED
    BY <1>1, <2>1, <2>2
<1>3. (records[i] # NoRow)' <=> records[i] # NoRow
  BY DEF NoRow
<1>. QED
  BY <1>2, <1>3 DEF RowServed

\* An upsert writes the first copy of its batch.  Where there is no row yet, no
\* copy is visible, so this is the first one of all.
LEMMA RowUpserted ==
  ASSUME IInv, PG \in Queries, NEW i \in EventIds, RowServed(i), UpsertRecords,
         InFlight(PG), landed'[PG] = Pending(PG), UNCHANGED <<log, checkpoint>>
  PROVE  RowServed(i)'
<1>. DEFINE new == BatchCopies(i, Pending(PG))
            old == VisibleCopies(i)
            known == KnownCopies(i)
<1>1. records'[i] =
        IF new = {} THEN records[i]
        ELSE [inserted     |-> IF records[i] = NoRow THEN Least(new)
                               ELSE records[i].inserted,
              updated      |-> Least(new),
              processed_at |-> Pending(PG)]
  BY UpsertedRow
<1>2. KnownCopies(i)' = known
  BY DEF KnownCopies
<1>3. \/ VisibleCopies(i)' = old /\ new \subseteq old
      \/ /\ VisibleCopies(i)' = old \cup new
         /\ \A p \in old, r \in new : p < r
  BY UpsertVisible
<1>4. /\ new \subseteq Nat
      /\ new # {} => Least(new) \in new /\ \A r \in new : Least(new) <= r
  BY RowsAreFirstCopies, LeastExists
<1>5. /\ new \subseteq known
      /\ \A p \in known : p \in old \/ p \in new \/ \A r \in new : r < p
  <2>1. /\ Visible(PG)' = End(PG, Pending(PG))
        /\ landed[PG] = Pending(PG) => new \subseteq old
        /\ landed[PG] # Pending(PG) => Visible(PG) = End(PG, Pending(PG) - 1)
    BY UpsertVisible
  <2>2. /\ Visible(PG) \in 0 .. Len(log) /\ Len(log) \in Nat
        /\ Pending(PG) \in Int /\ Pending(PG) = Len(offsetLog[PG])
    BY Offsets, PendingPlanned DEF IInv
  <2>3. End(PG, Pending(PG)) \in 0 .. Len(log)
    BY <2>2, EndBounds DEF IInv
  <2>4. new = {p \in (End(PG, Pending(PG) - 1) + 1) .. End(PG, Pending(PG)) :
                 Accepted(log[p]) /\ log[p].event_id = i}
    BY DEF BatchCopies, Batch
  <2>5. CASE landed[PG] = Pending(PG)
    <3>1. Visible(PG) = End(PG, Pending(PG))
      BY <2>5 DEF Visible
    <3>2. new \subseteq old
      BY <2>1, <2>5
    <3>3. old = {p \in 1 .. End(PG, Pending(PG)) : Accepted(log[p]) /\ log[p].event_id = i}
      BY <3>1 DEF VisibleCopies
    <3>. HIDE DEF new, old
    <3>4. old \subseteq known
      BY <2>2, <2>3, <3>3 DEF KnownCopies
    <3>5. ASSUME NEW p \in known, p \notin old, NEW r \in new
          PROVE  r < p
      BY <2>2, <2>3, <3>2, <3>3, <3>5 DEF KnownCopies
    <3>. QED
      BY <3>2, <3>4, <3>5
  <2>6. CASE landed[PG] # Pending(PG)
    <3>1. Visible(PG) = End(PG, Pending(PG) - 1)
      BY <2>1, <2>6
    <3>2. old = {p \in 1 .. Visible(PG) : Accepted(log[p]) /\ log[p].event_id = i}
      BY DEF VisibleCopies
    <3>3. new = {p \in (Visible(PG) + 1) .. End(PG, Pending(PG)) :
                   Accepted(log[p]) /\ log[p].event_id = i}
      BY <2>4, <3>1
    <3>. HIDE DEF new, old
    <3>4. new \subseteq known
      BY <2>2, <2>3, <3>3 DEF KnownCopies
    <3>5. ASSUME NEW p \in known, p \notin old, p \notin new, NEW r \in new
          PROVE  r < p
      BY <2>2, <2>3, <3>2, <3>3, <3>5 DEF KnownCopies
    <3>. QED
      BY <3>4, <3>5
  <2>. QED
    BY <2>5, <2>6
<1>6. known \subseteq Nat \ {0}
  BY DEF KnownCopies
<1>7. old # {} => records[i] # NoRow /\ records[i].updated \in old
  BY DEF RowServed
<1>8. records[i] # NoRow => /\ records[i].inserted \in known
                            /\ \A p \in known : records[i].inserted <= p
                            /\ records[i].updated \in known
  BY DEF RowServed
<1>9. CASE new = {}
  <2>1. records'[i] = records[i] /\ VisibleCopies(i)' = old
    BY <1>1, <1>3, <1>9
  <2>. QED
    BY <1>2, <1>7, <1>8, <2>1 DEF RowServed, NoRow
<1>10. CASE new # {}
  <2>. DEFINE first == Least(new)
  <2>1. first \in new /\ first \in known /\ \A r \in new : first <= r
    BY <1>4, <1>5, <1>10
  <2>2. /\ records'[i].inserted = IF records[i] = NoRow THEN first
                                  ELSE records[i].inserted
        /\ records'[i].updated = first
    BY <1>1, <1>10
  <2>. HIDE DEF first, new, old, known
  <2>3. records'[i] # NoRow
    BY <1>6, <2>1, <2>2 DEF NoRow
  <2>4. records[i] = NoRow => \A p \in known : first <= p
    <3>. SUFFICES ASSUME records[i] = NoRow, NEW p \in known PROVE first <= p
      OBVIOUS
    <3>1. p \in new \/ first < p
      BY <1>5, <1>7, <2>1
    <3>2. p \in Nat /\ first \in Nat
      BY <1>6, <2>1
    <3>. QED
      BY <2>1, <3>1, <3>2
  <2>5. first \in VisibleCopies(i)'
    BY <1>3, <2>1
  <2>6. (records[i] # NoRow)'
    BY <2>3 DEF NoRow
  <2>. QED
    BY <1>2, <1>8, <2>1, <2>2, <2>4, <2>5, <2>6 DEF RowServed
<1>. QED
  BY <1>9, <1>10

LEMMA RowsServedStep ==
  ASSUME BaseInv, RowsServed, [RecoveryNext]_vars
  PROVE  RowsServed'
<1>. SUFFICES ASSUME PG \in Queries, NEW i \in EventIds
              PROVE  RowServed(i)'
  BY DEF RowsServed
<1>1. IInv /\ RowServed(i)
  BY DEF BaseInv, RowsServed
<1>2. CASE [Next]_vars
  <2>1. CASE /\ UpsertRecords
             /\ InFlight(PG)
             /\ landed'[PG] = Pending(PG)
             /\ UNCHANGED <<log, checkpoint>>
    BY <1>1, <2>1, RowUpserted
  <2>2. CASE landed'[PG] = landed[PG] /\ records' = records
    BY <1>1, <1>2, <2>2, VisibleStable, RowKept
  <2>. QED
    BY <1>1, <1>2, <2>1, <2>2, ServingStepKinds
<1>3. ASSUME NEW S \in SUBSET Queries, BumpCheckpoint(S)
      PROVE  RowServed(i)'
  <2>1. log' = log /\ records' = records
    BY <1>3, SinksKept
  <2>2. KnownCopies(i)' = KnownCopies(i)
    BY <2>1 DEF KnownCopies
  <2>3. VisibleCopies(i)' \in {{}, VisibleCopies(i)}
    <3>1. CASE PG \in S
      <4>1. landed'[PG] = 0
        BY <1>1, <1>3, <3>1, Renewed DEF PG, TableQueries
      <4>2. VisibleCopies(i)' = {}
        BY <4>1 DEF VisibleCopies, Visible, End
      <4>. QED
        BY <4>2
    <3>2. CASE PG \notin S
      <4>1. landed'[PG] = landed[PG] /\ offsetLog'[PG] = offsetLog[PG]
        BY <1>1, <1>3, <3>2, Kept DEF PG, TableQueries
      <4>2. Visible(PG)' = Visible(PG)
        BY <4>1 DEF Visible, End
      <4>. QED
        BY <2>1, <4>2 DEF VisibleCopies
    <3>. QED
      BY <3>1, <3>2
  <2>. QED
    BY <1>1, <2>1, <2>2, <2>3 DEF RowServed, NoRow
<1>. QED
  BY <1>2, <1>3, StepKinds

\* Whatever paths were incremented and how often, a row is that of its event's
\* first copy, and what the version now has read is served (main.py:62-92).
THEOREM ServedAcrossVersionsHolds == RecoverySpec => []ServedAcrossVersions
<1>1. Init => RowsServed
  <2>. SUFFICES ASSUME Init, PG \in Queries, NEW i \in EventIds
                PROVE  RowServed(i)
    BY DEF RowsServed
  <2>1. landed[PG] = 0 /\ records[i] = NoRow
    BY DEF Init, PG, TableQueries
  <2>2. VisibleCopies(i) = {}
    BY <2>1 DEF VisibleCopies, Visible, End
  <2>. QED
    BY <2>1, <2>2 DEF RowServed
<1>2. BaseInv /\ RowsServed /\ [RecoveryNext]_vars => RowsServed'
  BY RowsServedStep
<1>3. RowsServed => ServedAcrossVersions
  BY DEF RowsServed, RowServed, ServedAcrossVersions, KnownCopies,
         VisibleCopies, PG
<1>. QED
  BY <1>1, <1>2, <1>3, RecoveryInvariance, PTL DEF RecoverySpec

-----------------------------------------------------------------------------
(* The windowed tables. *)

\* A new version of q reads on to the end of the log again.
LEMMA HorizonBump ==
  ASSUME BaseInv, NEW S \in SUBSET Queries, BumpCheckpoint(S), NEW q \in S
  PROVE  /\ Horizon(q)' = Len(log) /\ Horizon(q) \in 0 .. Len(log)
         /\ Len(log) \in Nat
<1>1. offsetLog'[q] = <<>> /\ log' = log
  BY Renewed, SinksKept DEF BaseInv
<1>2. Horizon(q)' = Len(log)
  BY <1>1 DEF Horizon
<1>3. Len(log) \in Nat /\ Len(offsetLog[q]) \in Nat
  BY DEF BaseInv, IInv, TypeOK
<1>4. End(q, Len(offsetLog[q])) \in 0 .. Len(log)
  BY <1>3, EndBounds DEF BaseInv, IInv
<1>. QED
  BY <1>2, <1>3, <1>4 DEF Horizon

LEMMA MetricsBump ==
  ASSUME BaseInv, MetricsInv, NEW S \in SUBSET Queries, BumpCheckpoint(S)
  PROVE  MetricsInv'
<1>. SUFFICES ASSUME MQ \in Queries PROVE MetricsInv'
  BY DEF MetricsInv, StateTalliesExact, RowsMeasured, TalliesExact
<1>1. log' = log /\ metrics' = metrics
  BY SinksKept
<1>2. \A R : Tally(R)' = Tally(R)
  BY <1>1 DEF Tally
<1>3. \A g, n : MeasuredUpTo(g, n)' = MeasuredUpTo(g, n)
  BY <1>1 DEF MeasuredUpTo
<1>4. MQ \in TableQueries
  BY DEF TableQueries, MQ
<1>5. CASE MQ \in S
  <2>1. /\ \A g \in Groups : metricState'[g] = NoTally
        /\ landed'[MQ] = 0 /\ Committed(MQ)' = 0
    BY <1>4, <1>5, Renewed DEF BaseInv
  <2>2. \A g : MeasuredUpTo(g, Committed(MQ))' = {}
    BY <2>1 DEF MeasuredUpTo
  <2>3. \A g : Tally(MeasuredUpTo(g, Committed(MQ)))' = NoTally
    BY <1>2, <2>2, TallyOfNone
  <2>4. StateTalliesExact'
    BY <2>1, <2>3 DEF StateTalliesExact
  <2>5. RowsMeasured'
    <3>1. Horizon(MQ)' = Len(log) /\ Horizon(MQ) \in 0 .. Len(log) /\ Len(log) \in Nat
      BY <1>5, HorizonBump
    <3>2. \A g : MeasuredUpTo(g, Horizon(MQ)) \subseteq MeasuredUpTo(g, Horizon(MQ))'
      BY <1>1, <3>1 DEF MeasuredUpTo
    <3>. QED
      BY <1>1, <1>2, <3>2 DEF MetricsInv, RowsMeasured
  <2>. QED
    BY <2>1, <2>4, <2>5 DEF MetricsInv, TalliesExact
<1>6. CASE MQ \notin S
  <2>1. /\ offsetLog'[MQ] = offsetLog[MQ] /\ commitLog'[MQ] = commitLog[MQ]
        /\ landed'[MQ] = landed[MQ] /\ metricState' = metricState
        /\ \A b : End(MQ, b)' = End(MQ, b)
        /\ \A b, t : Reached(MQ, b, t)' = Reached(MQ, b, t)
        /\ Committed(MQ)' = Committed(MQ)
    BY <1>4, <1>6, Kept DEF BaseInv
  <2>2. \A b, g : Shut(MQ, b, g)' = Shut(MQ, b, g)
    BY <2>1 DEF Shut
  <2>3. Visible(MQ)' = Visible(MQ) /\ Horizon(MQ)' = Horizon(MQ)
    BY <1>1, <2>1 DEF Visible, Horizon
  <2>4. StateTalliesExact'
    <3>1. \A g : Tally(MeasuredUpTo(g, Committed(MQ)))'
                   = Tally(MeasuredUpTo(g, Committed(MQ)))
      BY <1>1, <2>1 DEF Tally, MeasuredUpTo
    <3>2. \A g : Shut(MQ, commitLog[MQ], g)' = Shut(MQ, commitLog[MQ], g)
      BY <2>1, <2>2
    <3>. QED
      BY <2>1, <3>1, <3>2 DEF MetricsInv, StateTalliesExact
  <2>5. RowsMeasured'
    <3>1. \A g : MeasuredUpTo(g, Horizon(MQ))' = MeasuredUpTo(g, Horizon(MQ))
      BY <1>1, <2>3 DEF MeasuredUpTo
    <3>. QED
      BY <1>1, <1>2, <3>1 DEF MetricsInv, RowsMeasured
  <2>6. TalliesExact'
    <3>1. \A g : Tally(MeasuredUpTo(g, Visible(MQ)))'
                   = Tally(MeasuredUpTo(g, Visible(MQ)))
      BY <1>1, <2>3 DEF Tally, MeasuredUpTo
    <3>2. \A g : Shut(MQ, landed[MQ] - 1, g)' = Shut(MQ, landed[MQ] - 1, g)
      BY <2>1, <2>2
    <3>. QED
      BY <1>1, <2>1, <3>1, <3>2 DEF MetricsInv, TalliesExact
  <2>. QED
    BY <2>4, <2>5, <2>6 DEF MetricsInv
<1>. QED
  BY <1>5, <1>6

\* What a query that keeps its path knows of the counts.
LEMMA CountsKept ==
  ASSUME BaseInv, NEW S \in SUBSET Queries, BumpCheckpoint(S),
         AG \in Queries \ S
  PROVE  /\ commitLog'[AG] = commitLog[AG] /\ landed'[AG] = landed[AG]
         /\ seen'[AG] = seen[AG] /\ windowCount' = windowCount
         /\ \A b, t : Reached(AG, b, t)' = Reached(AG, b, t)
         /\ \A b, g : Shut(AG, b, g)' = Shut(AG, b, g)
         /\ Committed(AG)' = Committed(AG) /\ Visible(AG)' = Visible(AG)
         /\ Horizon(AG)' = Horizon(AG)
         /\ \A g : CountShown(g)' = CountShown(g)
<1>1. log' = log /\ AG \in DedupQueries /\ AG \in TableQueries
  BY SinksKept DEF DedupQueries, TableQueries, AG
<1>2. /\ commitLog'[AG] = commitLog[AG] /\ landed'[AG] = landed[AG]
      /\ offsetLog'[AG] = offsetLog[AG]
      /\ seen'[AG] = seen[AG] /\ windowCount' = windowCount
      /\ \A b : End(AG, b)' = End(AG, b)
      /\ \A b : Batch(AG, b)' = Batch(AG, b)
      /\ \A b, t : Reached(AG, b, t)' = Reached(AG, b, t)
      /\ Committed(AG)' = Committed(AG)
  BY <1>1, Kept DEF BaseInv
<1>3. \A b, g : Shut(AG, b, g)' = Shut(AG, b, g)
  BY <1>2 DEF Shut
<1>4. Visible(AG)' = Visible(AG) /\ Horizon(AG)' = Horizon(AG)
  BY <1>1, <1>2 DEF Visible, Horizon
<1>5. \A b : Fresh(AG, b)' = Fresh(AG, b)
  BY <1>1, <1>2 DEF Fresh, LateEvent
<1>6. \A g, b : CountedIn(g, b)' = CountedIn(g, b)
  BY <1>1, <1>5 DEF CountedIn, AG
<1>7. Pending(AG)' = Pending(AG)
  BY <1>2 DEF Pending
<1>8. \A g : CountAfter(g, Pending(AG))' = CountAfter(g, Pending(AG))
  BY <1>2, <1>6, <1>7 DEF CountAfter
<1>9. \A g : CountShown(g)' = CountShown(g)
  BY <1>2, <1>8 DEF CountShown
<1>. QED
  BY <1>2, <1>3, <1>4, <1>9

LEMMA CountsBump ==
  ASSUME BaseInv, CountsInv, NEW S \in SUBSET Queries, BumpCheckpoint(S)
  PROVE  CountsInv'
<1>. SUFFICES ASSUME AG \in Queries PROVE CountsInv'
  BY DEF CountsInv, CountsFollowState, StateCounted, RowsCounted
<1>1. log' = log /\ aggregates' = aggregates
  BY SinksKept
<1>2. CASE AG \in S
  <2>1. /\ \A g \in Groups : windowCount'[g] = 0
        /\ landed'[AG] = 0 /\ commitLog'[AG] = 0
    BY <1>2, Renewed DEF BaseInv, TableQueries, AG
  <2>2. CountsFollowState'
    BY <2>1 DEF CountsFollowState, CountShown
  <2>3. StateCounted'
    <3>1. \A R : {} \in SUBSET R
      OBVIOUS
    <3>. QED
      BY <2>1, <3>1, FS_EmptySet DEF StateCounted
  <2>4. RowsCounted'
    <3>1. Horizon(AG)' = Len(log) /\ Horizon(AG) \in 0 .. Len(log) /\ Len(log) \in Nat
      BY <1>2, HorizonBump
    <3>2. \A g : IdsOf(CountedUpTo(g, Horizon(AG)))
                   \subseteq IdsOf(CountedUpTo(g, Horizon(AG)))'
      BY <1>1, <3>1 DEF CountedUpTo, IdsOf
    <3>. QED
      BY <1>1, <3>2 DEF CountsInv, RowsCounted
  <2>. QED
    BY <2>2, <2>3, <2>4 DEF CountsInv
<1>3. CASE AG \notin S
  <2>1. CountsFollowState'
    <3>1. \A g : Shut(AG, commitLog[AG], g)' = Shut(AG, commitLog[AG], g)
      BY <1>3, CountsKept
    <3>. QED
      BY <1>1, <1>3, <3>1, CountsKept DEF CountsInv, CountsFollowState
  <2>2. StateCounted'
    <3>1. \A g : IdsOf(CountedUpTo(g, Committed(AG)))'
                   = IdsOf(CountedUpTo(g, Committed(AG)))
      BY <1>1, <1>3, CountsKept DEF IdsOf, CountedUpTo
    <3>. QED
      BY <1>3, <3>1, CountsKept DEF CountsInv, StateCounted
  <2>3. RowsCounted'
    <3>1. \A g : IdsOf(CountedUpTo(g, Horizon(AG)))'
                   = IdsOf(CountedUpTo(g, Horizon(AG)))
      BY <1>1, <1>3, CountsKept DEF IdsOf, CountedUpTo
    <3>. QED
      BY <1>1, <3>1 DEF CountsInv, RowsCounted
  <2>. QED
    BY <2>1, <2>2, <2>3 DEF CountsInv
<1>. QED
  BY <1>2, <1>3

LEMMA CountsCoveredBump ==
  ASSUME BaseInv, CountsCovered, NEW S \in SUBSET Queries, BumpCheckpoint(S)
  PROVE  CountsCovered'
<1>. SUFFICES ASSUME AG \in Queries PROVE CountsCovered'
  BY DEF CountsCovered
<1>1. CASE AG \in S
  BY <1>1, Renewed DEF BaseInv, TableQueries, AG, CountsCovered
<1>2. CASE AG \notin S
  <2>1. \A g : Shut(AG, commitLog[AG], g)' = Shut(AG, commitLog[AG], g)
    BY <1>2, CountsKept
  <2>. QED
    BY <1>2, <2>1, CountsKept, SinksKept DEF CountsCovered
<1>. QED
  BY <1>1, <1>2

LEMMA OpenBump ==
  ASSUME BaseInv, OpenInv, NEW S \in SUBSET Queries, BumpCheckpoint(S)
  PROVE  OpenInv'
<1>. SUFFICES ASSUME AG \in Queries
              PROVE  SeenInv' /\ StateCountsExact' /\ CountsExact'
  BY DEF OpenInv
<1>1. log' = log /\ aggregates' = aggregates
  BY SinksKept
<1>2. CASE AG \in S
  <2>1. /\ \A g \in Groups : windowCount'[g] = 0
        /\ landed'[AG] = 0 /\ Committed(AG)' = 0 /\ seen'[AG] = {}
    BY <1>2, Renewed DEF BaseInv, TableQueries, DedupQueries, AG
  <2>2. SeenInv'
    BY <2>1 DEF SeenInv, SeenCommitted, CommittedCounted
  <2>3. \A g : IdsOf(CountedUpTo(g, Committed(AG)))' = {}
    BY <2>1 DEF CountedUpTo, IdsOf
  <2>4. StateCountsExact'
    BY <2>1, <2>3, FS_EmptySet DEF StateCountsExact
  <2>. QED
    BY <2>1, <2>2, <2>4 DEF CountsExact
<1>3. CASE AG \notin S
  <2>1. SeenInv'
    BY <1>1, <1>3, CountsKept DEF OpenInv, SeenInv, SeenCommitted, CommittedCounted
  <2>2. StateCountsExact'
    <3>1. \A g : IdsOf(CountedUpTo(g, Committed(AG)))'
                   = IdsOf(CountedUpTo(g, Committed(AG)))
      BY <1>1, <1>3, CountsKept DEF IdsOf, CountedUpTo
    <3>2. \A t : Reached(AG, commitLog[AG], t)' = Reached(AG, commitLog[AG], t)
      BY <1>3, CountsKept
    <3>. QED
      BY <1>3, <3>1, <3>2, CountsKept DEF OpenInv, StateCountsExact
  <2>3. CountsExact'
    <3>1. \A g : IdsOf(CountedUpTo(g, Visible(AG)))'
                   = IdsOf(CountedUpTo(g, Visible(AG)))
      BY <1>1, <1>3, CountsKept DEF IdsOf, CountedUpTo
    <3>2. \A w : Open(AG, w)' = Open(AG, w)
      BY <1>3, CountsKept DEF Open
    <3>. QED
      BY <1>1, <1>3, <3>1, <3>2, CountsKept DEF OpenInv, CountsExact
  <2>. QED
    BY <2>1, <2>2, <2>3
<1>. QED
  BY <1>2, <1>3

\* What holds of the windowed tables whatever events are sent.
TablesInv == BaseInv /\ MetricsInv /\ CountsInv

LEMMA TablesInvariance == RecoverySpec => []TablesInv
<1>1. Init => MetricsInv /\ CountsInv
  BY MetricsInitially, CountsInitially
<1>2. BaseInv /\ MetricsInv /\ CountsInv /\ [RecoveryNext]_vars
        => MetricsInv' /\ CountsInv'
  BY StepKinds, MetricsStep, CountsStep, MetricsBump, CountsBump DEF BaseInv
<1>. QED
  BY <1>1, <1>2, RecoveryInvariance, PTL DEF RecoverySpec, TablesInv

\* A version that reads everything again leaves the row of a closed window as
\* it is until the window is open in its own eyes (main.py:228, 249-278).
THEOREM ClosedRowsFinalAcrossVersions == RecoverySpec => ClosedWindowsFrozen
<1>. DEFINE Frozen == \A g \in Groups :
                        /\ "aggregates" \in Queries /\ Closed("aggregates", g.window) =>
                             aggregates'[g] = aggregates[g]
                        /\ "metrics" \in Queries /\ Closed("metrics", g.window) =>
                             metrics'[g] = metrics[g]
<1>1. TablesInv /\ [Next]_vars => Frozen
  BY RowSteps DEF TablesInv, BaseInv, CountsInv, AG, MQ
<1>2. ASSUME NEW S, BumpCheckpoint(S)
      PROVE  Frozen
  BY <1>2, SinksKept
<1>3. TablesInv /\ [RecoveryNext]_vars => [Frozen]_vars
  BY <1>1, <1>2, StepKinds
<1>. QED
  BY <1>3, TablesInvariance, PTL DEF RecoverySpec, ClosedWindowsFrozen

\* The quality metrics of an open window are exact in every version
\* (main.py:116-141, 264-278).
THEOREM OpenMetricsExactAcrossVersions == RecoverySpec => []OpenMetricsExact
<1>1. TablesInv => OpenMetricsExact
  BY MetricsImplied DEF TablesInv, BaseInv
<1>. QED
  BY <1>1, TablesInvariance, PTL

LEMMA CountsInvariance ==
  ASSUME CopiesAgree
  PROVE  RecoverySpec => [](TablesInv /\ OpenInv /\ CountsCovered)
<1>1. Init => OpenInv /\ CountsCovered
  <2>1. Init => CountsCovered
    BY DEF Init, CountsCovered, TableQueries, AG
  <2>. QED
    BY <2>1, OpenInvInitially
<1>2. TablesInv /\ OpenInv /\ CountsCovered /\ [RecoveryNext]_vars
        => OpenInv' /\ CountsCovered'
  <2>. SUFFICES ASSUME TablesInv, OpenInv, CountsCovered,
                       [RecoveryNext]_vars
                PROVE  OpenInv' /\ CountsCovered'
    OBVIOUS
  <2>1. BaseInv /\ IInv /\ CountsInv /\ FirstBatchCovers
    BY FirstBatchCounts DEF TablesInv, BaseInv
  <2>2. CASE [Next]_vars
    BY <2>1, <2>2, OpenInvStep, CountsCoveredStep
  <2>3. CASE \E S \in SUBSET Queries : BumpCheckpoint(S)
    BY <2>1, <2>3, OpenBump, CountsCoveredBump
  <2>. QED
    BY <2>2, <2>3, StepKinds
<1>. QED
  BY <1>1, <1>2, TablesInvariance, PTL DEF RecoverySpec

\* Where the copies of an event agree, the counts of an open window are exact
\* in every version (main.py:94-114, 249-261).
THEOREM OpenWindowsExactAcrossVersions ==
  ASSUME CopiesAgree
  PROVE  RecoverySpec => []OpenWindowsExact
  BY CountsInvariance, OpenImplied, PTL

\* And the counts a reader has seen do not go down when a version begins with
\* empty state: its first batch has everything the rows were counted from
\* (main.py:94-141, 249-278).
THEOREM RowsOnlyGrowAcrossVersions ==
  ASSUME CopiesAgree
  PROVE  RecoverySpec => CountsNeverShrink
<1>. DEFINE Grow == \A g \in Groups : /\ aggregates'[g] >= aggregates[g]
                                      /\ metrics'[g].total >= metrics[g].total
<1>1. TablesInv /\ OpenInv /\ CountsCovered /\ [Next]_vars => Grow
  BY FirstBatchCounts, RowSteps DEF TablesInv, BaseInv, CountsInv
<1>2. ASSUME TablesInv, NEW S, BumpCheckpoint(S)
      PROVE  Grow
  <2>1. \A g \in Groups : aggregates[g] \in Nat /\ metrics[g].total \in Nat
    BY <1>2 DEF TablesInv, BaseInv, IInv, TypeOK, Counters
  <2>. QED
    BY <1>2, <2>1, SinksKept
<1>3. TablesInv /\ OpenInv /\ CountsCovered /\ [RecoveryNext]_vars
        => [Grow]_vars
  BY <1>1, <1>2, StepKinds
<1>. QED
  BY <1>3, CountsInvariance, PTL DEF RecoverySpec, CountsNeverShrink
=============================================================================
