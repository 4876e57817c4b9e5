---------------------------- MODULE Sinks_proofs ----------------------------
(***************************************************************************)
(* What the sinks hold: the raw and quarantine files every event they are  *)
(* meant for once, the processed files one row per event id, and           *)
(* processed_records the accepted events of the visible prefix, so that    *)
(* the application implements the abstract serving table of ServedRecords. *)
(***************************************************************************)
EXTENDS Streaming_proofs, WellFoundedInduction

-----------------------------------------------------------------------------
(* How a step changes the logs. *)

\* The log of Kafka and the offset logs only grow.
LEMMA LogsGrow ==
  ASSUME IInv, [Next]_vars
  PROVE  /\ Len(log') \in Nat /\ Len(log) \in Nat /\ Len(log) <= Len(log')
         /\ \A p \in 1 .. Len(log) : log'[p] = log[p]
         /\ \A q \in Queries :
              /\ Len(offsetLog'[q]) \in Nat /\ Len(offsetLog[q]) \in Nat
              /\ Len(offsetLog'[q]) \in {Len(offsetLog[q]), Len(offsetLog[q]) + 1}
              /\ \A b \in 1 .. Len(offsetLog[q]) :
                   offsetLog'[q][b] = offsetLog[q][b]
<1>1. /\ log \in Seq(Events) /\ Len(log) \in Nat
      /\ offsetLog \in [Queries -> Seq(Nat)]
      /\ \A q \in Queries : Len(offsetLog[q]) \in Nat
  BY DEF IInv, TypeOK
<1>2. ASSUME NEW e \in Events, Produce(e)
      PROVE  /\ offsetLog' = offsetLog
             /\ Len(log') = Len(log) + 1
             /\ \A p \in 1 .. Len(log) : log'[p] = log[p]
  BY <1>1, <1>2 DEF Produce, checkpoint
<1>3. ASSUME NEW q \in Queries, Plan(q)
      PROVE  /\ log' = log
             /\ \A r \in Queries :
                  /\ Len(offsetLog'[r]) \in Nat
                  /\ Len(offsetLog'[r]) \in {Len(offsetLog[r]),
                                              Len(offsetLog[r]) + 1}
                  /\ \A b \in 1 .. Len(offsetLog[r]) :
                       offsetLog'[r][b] = offsetLog[r][b]
  <2>. DEFINE new == Append(offsetLog[q], Len(log))
  <2>1. log' = log /\ offsetLog' = [offsetLog EXCEPT ![q] = new]
    BY <1>3 DEF Plan, environment
  <2>2. /\ Len(new) = Len(offsetLog[q]) + 1
        /\ \A b \in 1 .. Len(offsetLog[q]) : new[b] = offsetLog[q][b]
    BY <1>1
  <2>. HIDE DEF new
  <2>3. offsetLog'[q] = new /\ \A r \in Queries \ {q} : offsetLog'[r] = offsetLog[r]
    BY <1>1, <2>1
  <2>. QED
    BY <1>1, <2>1, <2>2, <2>3
<1>4. \/ \E e \in Events : Produce(e)
      \/ \E q \in Queries : Plan(q)
      \/ UNCHANGED <<log, offsetLog>>
  BY DEF Next, RunBatch, WriteFiles, UpsertRecords, UpsertAggregates,
         UpsertMetrics, Upserts, UpsertFails, Commit, Crash, Restart,
         PostgresDown, PostgresUp, environment, checkpoint, vars
<1>. QED
  BY <1>1, <1>2, <1>3, <1>4

\* Batches end in the order of their numbers.
LEMMA EndMonotone ==
  ASSUME IInv, NEW q \in Queries, NEW b \in Int, NEW c \in Int,
         b <= c, c <= Len(offsetLog[q])
  PROVE  End(q, b) <= End(q, c)
<1>1. /\ Len(offsetLog[q]) \in Nat /\ offsetLog[q] \in Seq(Nat)
      /\ \A i, j \in 1 .. Len(offsetLog[q]) :
           i <= j => offsetLog[q][i] <= offsetLog[q][j]
  BY DEF IInv, TypeOK, CheckpointOrder, PlannedInOrder
<1>2. CASE b < 1 /\ c < 1
  BY <1>2 DEF End
<1>3. CASE b < 1 /\ c >= 1
  <2>1. c \in 1 .. Len(offsetLog[q])
    BY <1>1, <1>3
  <2>. QED
    BY <1>1, <1>3, <2>1 DEF End
<1>4. CASE b >= 1
  <2>1. b \in 1 .. Len(offsetLog[q]) /\ c \in 1 .. Len(offsetLog[q]) /\ c >= 1
    BY <1>1, <1>4
  <2>. QED
    BY <1>1, <1>4, <2>1 DEF End
<1>. QED
  BY <1>2, <1>3, <1>4

\* So a planned batch keeps its positions, and they keep their events.
LEMMA BatchStable ==
  ASSUME IInv, [Next]_vars, NEW q \in Queries, NEW b \in Int,
         b <= Len(offsetLog[q])
  PROVE  /\ End(q, b)' = End(q, b)
         /\ Batch(q, b)' = Batch(q, b)
         /\ \A p \in 1 .. End(q, b) : log'[p] = log[p]
         /\ \A p \in Batch(q, b) : log'[p] = log[p]
<1>1. \A c \in Int : c <= Len(offsetLog[q]) => End(q, c)' = End(q, c)
  BY LogsGrow DEF End
<1>2. /\ Len(offsetLog[q]) \in Nat /\ Len(log) \in Nat
  BY LogsGrow
<1>3. End(q, b)' = End(q, b) /\ End(q, b - 1)' = End(q, b - 1)
  BY <1>1, <1>2
<1>4. End(q, b) \in 0 .. Len(log)
  BY EndBounds DEF IInv
<1>5. Batch(q, b) \subseteq 1 .. Len(log)
  BY BatchPositions DEF IInv
<1>. QED
  BY <1>2, <1>3, <1>4, <1>5, LogsGrow DEF Batch

\* The manifest of a file sink changes only when its query runs a batch that
\* is not in it.
LEMMA FilesGrow ==
  ASSUME IInv, [Next]_vars, NEW q \in FileQueries
  PROVE  \/ files'[q] = files[q]
         \/ /\ q \in Queries /\ InFlight(q)
            /\ Len(files[q]) + 1 = Pending(q)
            /\ files'[q] = Append(files[q], FileRows(q, Pending(q)))
            /\ UNCHANGED <<log, checkpoint>>
<1>1. ASSUME NEW r \in Queries, r \in FileQueries, WriteFiles(r)
      PROVE  \/ files'[q] = files[q]
             \/ /\ q = r /\ InFlight(q)
                /\ Len(files[q]) + 1 = Pending(q)
                /\ files'[q] = Append(files[q], FileRows(q, Pending(q)))
                /\ UNCHANGED <<log, checkpoint>>
  <2>1. /\ InFlight(r)
        /\ files' = IF Pending(r) > Len(files[r])
                    THEN [files EXCEPT ![r] = Append(@, FileRows(r, Pending(r)))]
                    ELSE files
        /\ UNCHANGED <<log, checkpoint>>
    BY <1>1 DEF WriteFiles, Runnable, environment
  <2>2. Pending(r) = commitLog[r] + 1 /\ commitLog[r] \in Nat
    BY DEF IInv, TypeOK, Pending
  <2>3. Len(files[r]) \in Nat /\ commitLog[r] <= Len(files[r])
    BY <1>1 DEF IInv, TypeOK, CheckpointOrder, Shown
  <2>4. CASE Pending(r) > Len(files[r])
    <3>1. files' = [files EXCEPT ![r] = Append(@, FileRows(r, Pending(r)))]
      BY <2>1, <2>4
    <3>2. Len(files[r]) + 1 = Pending(r)
      BY <2>2, <2>3, <2>4
    <3>. QED
      BY <1>1, <2>1, <3>1, <3>2 DEF IInv, TypeOK
  <2>. QED
    BY <2>1, <2>4
<1>2. \/ \E r \in Queries : r \in FileQueries /\ WriteFiles(r)
      \/ files' = files
  BY DEF Next, RunBatch, Produce, Plan, UpsertRecords, UpsertAggregates,
         UpsertMetrics, Upserts, UpsertFails, Commit, Crash, Restart,
         PostgresDown, PostgresUp, vars
<1>. QED
  BY <1>1, <1>2

\* A batch that is planned ends where the log ends.
LEMMA NewBatch ==
  ASSUME IInv, [Next]_vars, NEW q \in Queries,
         Len(offsetLog'[q]) # Len(offsetLog[q])
  PROVE  /\ Len(offsetLog'[q]) = Len(offsetLog[q]) + 1
         /\ offsetLog'[q][Len(offsetLog[q]) + 1] = Len(log)
         /\ UNCHANGED <<log, commitLog, files, seen>>
<1>1. ASSUME NEW r \in Queries, Plan(r)
      PROVE  /\ Len(offsetLog'[q]) = Len(offsetLog[q]) + 1
             /\ offsetLog'[q][Len(offsetLog[q]) + 1] = Len(log)
             /\ UNCHANGED <<log, commitLog, files, seen>>
  <2>. DEFINE new == Append(offsetLog[r], Len(log))
  <2>1. /\ offsetLog' = [offsetLog EXCEPT ![r] = new]
        /\ UNCHANGED <<log, commitLog, files, seen>>
    BY <1>1 DEF Plan, environment
  <2>2. /\ Len(new) = Len(offsetLog[r]) + 1
        /\ new[Len(offsetLog[r]) + 1] = Len(log)
    BY DEF IInv, TypeOK
  <2>. HIDE DEF new
  <2>3. q = r
    BY <2>1 DEF IInv, TypeOK
  <2>. QED
    BY <2>1, <2>2, <2>3 DEF IInv, TypeOK
<1>2. (\E r \in Queries : Plan(r)) \/ offsetLog' = offsetLog
  BY DEF Next, RunBatch, Produce, WriteFiles, UpsertRecords, UpsertAggregates,
         UpsertMetrics, Upserts, UpsertFails, Commit, Crash, Restart,
         PostgresDown, PostgresUp, checkpoint, vars
<1>. QED
  BY <1>1, <1>2

-----------------------------------------------------------------------------
(* The first copies in a batch. *)

Least(S) == CHOOSE p \in S : \A r \in S : p <= r

\* A set of numbers that is not empty has a least element.
LEMMA LeastExists ==
  ASSUME NEW S \in SUBSET Nat, S # {}
  PROVE  Least(S) \in S /\ \A r \in S : Least(S) <= r
<1>1. PICK R : /\ IsWellFoundedOn(R, Nat)
               /\ \A x, y \in Nat : x < y => <<x, y>> \in R
  <2>1. IsWellFoundedOn(OpToRel(<, Nat), Nat)
    BY NatLessThanWellFounded
  <2>2. \A x, y \in Nat : x < y => <<x, y>> \in OpToRel(<, Nat)
    BY DEF OpToRel
  <2>. QED
    BY <2>1, <2>2, Zenon
<1>2. S \subseteq Nat
  OBVIOUS
<1>3. IsWellFoundedOn(R, Nat)
  BY <1>1
<1>4. \E x \in S : \A y \in S : ~ (<<y, x>> \in R)
  BY ONLY S # {}, <1>2, <1>3, WFMin
<1>5. PICK x \in S : \A y \in S : ~ (<<y, x>> \in R)
  BY <1>4
<1>6. ASSUME NEW y \in S PROVE ~ (y < x)
  BY <1>1, <1>2, <1>5, Zenon
<1>7. \E p \in S : \A r \in S : p <= r
  BY <1>2, <1>6
<1>. QED
  BY <1>7, Zenon DEF Least

\* An accepted message of the batch in flight that is not late has its id in
\* the state when the batch is done: some copy is the first.
LEMMA FreshCovers ==
  ASSUME IInv, NEW q \in Queries, InFlight(q), NEW p \in Batch(q, Pending(q)),
         Accepted(log[p]), ~LateEvent(q, Pending(q), log[p])
  PROVE  \/ log[p].event_id \in seen[q]
         \/ \E r \in Fresh(q, Pending(q)) : log[r].event_id = log[p].event_id
<1>. SUFFICES ASSUME log[p].event_id \notin seen[q]
              PROVE  \E r \in Fresh(q, Pending(q)) :
                       log[r].event_id = log[p].event_id
  OBVIOUS
<1>. DEFINE candidates == {r \in Batch(q, Pending(q)) :
                             /\ Accepted(log[r])
                             /\ ~LateEvent(q, Pending(q), log[r])
                             /\ log[r].event_id \notin seen[q]}
            copies == {r \in candidates : log[r].event_id = log[p].event_id}
<1>1. Batch(q, Pending(q)) \subseteq Nat
  BY RowPositions DEF IInv, TypeOK
<1>2. candidates \in SUBSET Nat /\ copies \in SUBSET Nat /\ p \in copies
  BY <1>1
<1>3. Fresh(q, Pending(q)) = {r \in candidates : \A k \in candidates :
                                k < r => log[k].event_id # log[r].event_id}
  BY DEF Fresh
<1>4. \A r \in copies : r \in candidates /\ log[r].event_id = log[p].event_id
  OBVIOUS
<1>5. \A r \in candidates : log[r].event_id = log[p].event_id => r \in copies
  OBVIOUS
<1>. HIDE DEF candidates, copies
<1>6. Least(copies) \in copies /\ \A r \in copies : Least(copies) <= r
  BY <1>2, LeastExists
<1>7. PICK m \in copies : \A r \in copies : m <= r
  BY <1>6
<1>8. \A k \in candidates : k < m => log[k].event_id # log[m].event_id
  <2>. SUFFICES ASSUME NEW k \in candidates, k < m,
                       log[k].event_id = log[m].event_id
                PROVE  FALSE
    OBVIOUS
  <2>1. k \in copies
    BY <1>4, <1>5, <1>7
  <2>2. m <= k /\ m \in Nat /\ k \in Nat
    BY <1>2, <1>7, <2>1
  <2>. QED
    BY <2>2
<1>. QED
  BY <1>3, <1>4, <1>7, <1>8

LEMMA FreshOnce ==
  ASSUME IInv, NEW q \in Queries, InFlight(q)
  PROVE  /\ \A p \in Fresh(q, Pending(q)) :
              Accepted(log[p]) /\ log[p].event_id \notin seen[q]
         /\ \A p, r \in Fresh(q, Pending(q)) :
              log[p].event_id = log[r].event_id => p = r
<1>1. Fresh(q, Pending(q)) \subseteq Nat
  BY RowPositions DEF IInv, TypeOK
<1>2. \A p \in Fresh(q, Pending(q)) :
        Accepted(log[p]) /\ log[p].event_id \notin seen[q]
  BY DEF Fresh
<1>3. \A p, r \in Fresh(q, Pending(q)) :
        log[p].event_id = log[r].event_id => ~(p < r) /\ ~(r < p)
  BY DEF Fresh
<1>. QED
  BY <1>1, <1>2, <1>3

-----------------------------------------------------------------------------
(* The raw and quarantine files. *)

\* The planned batches of a query leave no gap.
Gapless ==
  \A q \in Queries :
    \A p \in 1 .. End(q, Len(offsetLog[q])) :
      \E b \in 1 .. Len(offsetLog[q]) : p \in Batch(q, b)

\* A batch in the manifest of a stateless query holds the rows that batch
\* selects.
FilesAreBatches ==
  \A q \in Queries \cap {"raw", "quarantine"} :
    \A b \in 1 .. Len(files[q]) :
      files[q][b] = {p \in Batch(q, b) : Selected(q, log[p])}

LEMMA GaplessStep == IInv /\ Gapless /\ [Next]_vars => Gapless'
<1>. SUFFICES ASSUME IInv, Gapless, [Next]_vars,
                     NEW q \in Queries,
                     NEW p \in 1 .. End(q, Len(offsetLog[q]))'
              PROVE  \E b \in 1 .. Len(offsetLog'[q]) : p \in Batch(q, b)'
  BY DEF Gapless
<1>1. PICK n \in Nat, m \in Nat :
        n = Len(offsetLog[q]) /\ m = Len(offsetLog'[q]) /\ m \in {n, n + 1}
  BY LogsGrow
<1>2. n \in Int /\ n <= Len(offsetLog[q])
  BY <1>1
<1>3. End(q, n) \in 0 .. Len(log)
  BY <1>2, EndBounds DEF IInv
<1>4. End(q, n)' = End(q, n)
  BY <1>2, BatchStable
<1>5. Len(log) \in Nat
  BY LogsGrow
<1>6. End(q, m)' \in Nat
  <2>1. offsetLog' \in [Queries -> Seq(Nat)]
    BY NextIInv DEF IInv, TypeOK
  <2>2. offsetLog'[q] \in Seq(Nat)
    BY <2>1
  <2>. QED
    BY <1>1, <2>2 DEF End
<1>7. p \in 1 .. End(q, m)'
  BY <1>1 DEF End
<1>8. CASE p <= End(q, n)
  <2>1. PICK b \in 1 .. n : p \in Batch(q, b)
    BY <1>1, <1>3, <1>5, <1>6, <1>7, <1>8 DEF Gapless
  <2>2. p \in Batch(q, b)'
    BY <1>1, <2>1, BatchStable
  <2>3. b \in 1 .. m
    BY <1>1, <2>1
  <2>. QED
    BY <1>1, <2>2, <2>3
<1>9. CASE ~(p <= End(q, n))
  <2>1. m # n
    BY <1>4, <1>6, <1>7, <1>9
  <2>2. m = n + 1
    BY <1>1, <2>1
  <2>3. m - 1 = n
    BY <1>1, <2>2
  <2>4. End(q, m - 1)' = End(q, n)
    BY <1>4, <2>3
  <2>5. p \in Batch(q, m)'
    BY <1>3, <1>5, <1>6, <1>7, <1>9, <2>4 DEF Batch
  <2>6. m \in 1 .. m
    BY <1>1, <2>2
  <2>. QED
    BY <1>1, <2>5, <2>6
<1>. QED
  BY <1>8, <1>9

LEMMA FilesAreBatchesStep ==
  IInv /\ FilesBehind /\ FilesAreBatches /\ [Next]_vars => FilesAreBatches'
<1>. SUFFICES ASSUME IInv, FilesBehind, FilesAreBatches, [Next]_vars,
                     NEW q \in Queries \cap {"raw", "quarantine"},
                     NEW b \in 1 .. Len(files'[q])
              PROVE  files'[q][b] = {p \in Batch(q, b)' : Selected(q, log'[p])}
  BY DEF FilesAreBatches
<1>1. /\ q \in FileQueries
      /\ Len(files[q]) \in Nat
      /\ Len(files[q]) <= Len(offsetLog[q])
      /\ Len(offsetLog[q]) \in Nat
      /\ files[q] \in Seq(SUBSET Nat)
  BY LogsGrow DEF FileQueries, IInv, TypeOK, CheckpointOrder, FilesBehind, Shown
<1>2. CASE b \in 1 .. Len(files[q]) /\ files'[q][b] = files[q][b]
  <2>1. files[q][b] = {p \in Batch(q, b) : Selected(q, log[p])}
    BY <1>2 DEF FilesAreBatches
  <2>2. /\ Batch(q, b)' = Batch(q, b)
        /\ \A p \in Batch(q, b) : log'[p] = log[p]
    BY <1>1, <1>2, BatchStable
  <2>. QED
    BY <1>2, <2>1, <2>2
<1>3. CASE /\ InFlight(q)
           /\ Len(files[q]) + 1 = Pending(q)
           /\ files'[q] = Append(files[q], FileRows(q, Pending(q)))
           /\ UNCHANGED <<log, checkpoint>>
           /\ b = Pending(q)
  <2>1. files'[q][b] = FileRows(q, b)
    BY <1>1, <1>3
  <2>2. FileRows(q, b) = {p \in Batch(q, b) : Selected(q, log[p])}
    <3>1. CASE q = "raw"
      BY <3>1, Zenon DEF FileRows, Selected
    <3>2. CASE q = "quarantine"
      BY <3>2, Zenon DEF FileRows, Selected
    <3>. QED
      BY <3>1, <3>2
  <2>3. Batch(q, b)' = Batch(q, b) /\ log' = log
    BY <1>3 DEF checkpoint, Batch, End
  <2>. QED
    BY <2>1, <2>2, <2>3
<1>4. CASE files'[q] = files[q]
  BY <1>2, <1>4
<1>5. CASE /\ InFlight(q)
           /\ Len(files[q]) + 1 = Pending(q)
           /\ files'[q] = Append(files[q], FileRows(q, Pending(q)))
           /\ UNCHANGED <<log, checkpoint>>
  <2>1. \/ b = Pending(q)
        \/ b \in 1 .. Len(files[q]) /\ files'[q][b] = files[q][b]
    <3>. DEFINE rows == FileRows(q, Pending(q))
    <3>1. /\ Len(Append(files[q], rows)) = Len(files[q]) + 1
          /\ \A c \in 1 .. Len(files[q]) : Append(files[q], rows)[c] = files[q][c]
      BY <1>1
    <3>. HIDE DEF rows
    <3>. QED
      BY <1>1, <1>5, <3>1 DEF rows
  <2>. QED
    BY <1>2, <1>3, <1>5, <2>1
<1>. QED
  BY <1>1, <1>4, <1>5, FilesGrow

\* Two planned batches of a query have no position in common.
LEMMA BatchesDisjoint ==
  ASSUME IInv, NEW q \in Queries,
         NEW b \in 1 .. Len(offsetLog[q]), NEW c \in 1 .. Len(offsetLog[q]),
         NEW p \in Batch(q, b) \cap Batch(q, c)
  PROVE  b = c
<1>1. ASSUME NEW i \in 1 .. Len(offsetLog[q]), NEW j \in 1 .. Len(offsetLog[q]),
             p \in Batch(q, i) \cap Batch(q, j), i < j
      PROVE  FALSE
  <2>1. Len(offsetLog[q]) \in Nat
    BY DEF IInv, TypeOK
  <2>2. End(q, i) = offsetLog[q][i] /\ End(q, j - 1) = offsetLog[q][j - 1]
    BY <1>1, <2>1 DEF End
  <2>3. offsetLog[q][i] <= offsetLog[q][j - 1]
    BY <1>1, <2>1 DEF IInv, CheckpointOrder, PlannedInOrder
  <2>4. offsetLog[q][i] \in Nat /\ offsetLog[q][j - 1] \in Nat
    <3>1. offsetLog[q] \in Seq(Nat)
      BY DEF IInv, TypeOK
    <3>. QED
      BY <1>1, <2>1, <3>1
  <2>. QED
    BY <1>1, <2>2, <2>3, <2>4 DEF Batch
<1>2. b \in Int /\ c \in Int
  OBVIOUS
<1>. QED
  BY <1>1, <1>2

LEMMA FilesImplied == IInv /\ FilesBehind /\ Gapless /\ FilesAreBatches => FilesExactlyOnce
<1>. SUFFICES ASSUME IInv, FilesBehind, Gapless, FilesAreBatches,
                     NEW q \in Queries \cap {"raw", "quarantine"},
                     NEW p \in 1 .. Len(log)
              PROVE  LET hits == {b \in 1 .. Len(files[q]) : p \in files[q][b]}
                     IN /\ \A b, c \in hits : b = c
                        /\ hits # {} => Selected(q, log[p])
                        /\ p <= Committed(q) /\ Selected(q, log[p]) => hits # {}
  BY DEF FilesExactlyOnce
<1>. DEFINE hits == {b \in 1 .. Len(files[q]) : p \in files[q][b]}
<1>1. /\ Len(offsetLog[q]) \in Nat /\ Len(files[q]) \in Nat /\ commitLog[q] \in Nat
      /\ Len(files[q]) <= Len(offsetLog[q])
      /\ commitLog[q] <= Len(files[q])
      /\ offsetLog[q] \in Seq(Nat)
  BY DEF FileQueries, IInv, TypeOK, CheckpointOrder, FilesBehind, Shown
<1>2. \A b \in hits : /\ b \in 1 .. Len(offsetLog[q])
                      /\ p \in Batch(q, b)
                      /\ Selected(q, log[p])
  BY <1>1 DEF FilesAreBatches
<1>3. \A b, c \in hits : b = c
  BY <1>2, BatchesDisjoint
<1>4. ASSUME p <= Committed(q), Selected(q, log[p])
      PROVE  hits # {}
  <2>1. End(q, commitLog[q]) <= End(q, Len(offsetLog[q]))
        /\ End(q, commitLog[q]) \in Nat /\ End(q, Len(offsetLog[q])) \in Nat
    <3>1. commitLog[q] \in Int /\ Len(offsetLog[q]) \in Int
          /\ commitLog[q] <= Len(offsetLog[q])
      BY <1>1
    <3>2. End(q, commitLog[q]) <= End(q, Len(offsetLog[q]))
      BY <3>1, EndMonotone
    <3>3. /\ End(q, commitLog[q]) \in 0 .. Len(log)
          /\ End(q, Len(offsetLog[q])) \in 0 .. Len(log)
      BY <3>1, EndBounds DEF IInv
    <3>. QED
      BY <3>2, <3>3
  <2>2. PICK b \in 1 .. Len(offsetLog[q]) : p \in Batch(q, b)
    BY <1>4, <2>1 DEF Gapless, Committed
  <2>3. b <= commitLog[q]
    <3>. SUFFICES ASSUME b > commitLog[q] PROVE FALSE
      BY <1>1
    <3>1. /\ b - 1 \in 0 .. Len(offsetLog[q])
          /\ commitLog[q] <= b - 1
      BY <1>1
    <3>2. /\ b - 1 \in Int /\ b - 1 <= Len(offsetLog[q]) /\ Len(log) \in Nat
          /\ commitLog[q] \in Int
      BY <1>1, <3>1 DEF IInv, TypeOK
    <3>3. End(q, b - 1) \in 0 .. Len(log)
      BY <3>2, EndBounds DEF IInv
    <3>4. End(q, commitLog[q]) <= End(q, b - 1)
      BY <3>1, <3>2, EndMonotone
    <3>. QED
      BY <1>4, <2>1, <2>2, <3>2, <3>3, <3>4 DEF Batch, Committed
  <2>4. b \in 1 .. Len(files[q])
    BY <1>1, <2>3
  <2>5. p \in files[q][b]
    BY <1>4, <2>2, <2>4 DEF FilesAreBatches
  <2>. QED
    BY <2>4, <2>5
<1>. QED
  BY <1>2, <1>3, <1>4

\* Raw and quarantine files hold every event they are meant for exactly once,
\* whatever crashes between writing a batch and committing it
\* (main.py:175-181, 200-207).
THEOREM FilesExactlyOnceHolds == Spec => []FilesExactlyOnce
<1>1. Init => FilesBehind /\ Gapless /\ FilesAreBatches
  BY QueriesAssumption DEF Init, FilesBehind, Gapless, FilesAreBatches, End, FileQueries
<1>. QED
  BY <1>1, Invariance, FilesBehindStep, GaplessStep, FilesAreBatchesStep,
     FilesImplied, PTL
     DEF Spec

-----------------------------------------------------------------------------
(* The processed files. *)

PQ == "parquet"

RowsOf(b) == files[PQ][b]

\* The rows of the first k batches were written by versions of the checkpoint
\* before this one, which starts at the first message again: its first batch
\* holds them all.
RowsKept(k) ==
  offsetLog[PQ] # <<>> => \A b \in 1 .. k : RowsOf(b) \subseteq Batch(PQ, 1)

\* The rows of the other batches come from the messages of those batches.
RowsInBatches(k) ==
  \A b \in k + 1 .. Len(files[PQ]) :
    b <= Len(offsetLog[PQ]) /\ RowsOf(b) \subseteq Batch(PQ, b)

\* Every row is an event that passed the rules.
RowsAccepted ==
  \A b \in 1 .. Len(files[PQ]) :
    \A p \in RowsOf(b) : p \in 1 .. Len(log) /\ Accepted(log[p])

\* The ids of committed batches are in the state, and with the first of them
\* those of the versions before.
CommittedSeen(k) ==
  \A b \in 1 .. Len(files[PQ]) :
    commitLog[PQ] >= 1 /\ (b <= commitLog[PQ] \/ b <= k) =>
      \A p \in RowsOf(b) : log[p].event_id \in seen[PQ]

\* A batch whose files are written and not committed is what a re-run selects.
WrittenIsFresh(k) ==
  Len(files[PQ]) = Pending(PQ) /\ k < Pending(PQ) =>
    RowsOf(Pending(PQ)) = Fresh(PQ, Pending(PQ))

\* No two rows of the files have an id in common.
RowsDistinct ==
  \A b, c \in 1 .. Len(files[PQ]) :
    \A p \in RowsOf(b), r \in RowsOf(c) :
      log[p].event_id = log[r].event_id => b = c /\ p = r

DedupAbove(k) == /\ RowsKept(k) /\ RowsInBatches(k) /\ RowsAccepted
                 /\ CommittedSeen(k) /\ WrittenIsFresh(k) /\ RowsDistinct

DedupInv == PQ \in Queries => \E k \in 0 .. Len(files[PQ]) : DedupAbove(k)

\* What a re-run selects does not depend on what happened meanwhile.
LEMMA FreshStable ==
  ASSUME IInv, [Next]_vars, NEW q \in Queries, NEW b \in Nat \ {0},
         b <= Len(offsetLog[q]), seen'[q] = seen[q]
  PROVE  Fresh(q, b)' = Fresh(q, b)
<1>1. Batch(q, b)' = Batch(q, b) /\ \A p \in Batch(q, b) : log'[p] = log[p]
  BY BatchStable
<1>2. /\ End(q, (b - 1) - 1)' = End(q, (b - 1) - 1)
      /\ \A p \in 1 .. End(q, (b - 1) - 1) : log'[p] = log[p]
  <2>1. (b - 1) - 1 \in Int /\ (b - 1) - 1 <= Len(offsetLog[q])
    BY LogsGrow
  <2>. QED
    BY <2>1, BatchStable
<1>3. \A t : Reached(q, b - 1, t)' <=> Reached(q, b - 1, t)
  BY <1>2 DEF Reached
<1>4. \A p \in Batch(q, b) : LateEvent(q, b, log[p])' <=> LateEvent(q, b, log[p])
  BY <1>1, <1>3 DEF LateEvent
<1>. DEFINE candidates == {p \in Batch(q, b) : /\ Accepted(log[p])
                                               /\ ~LateEvent(q, b, log[p])
                                               /\ log[p].event_id \notin seen[q]}
<1>5. candidates' = candidates
  BY <1>1, <1>4
<1>6. Fresh(q, b) = {p \in candidates : \A r \in candidates :
                       r < p => log[r].event_id # log[p].event_id}
  BY DEF Fresh
<1>7. Fresh(q, b)' = {p \in candidates' : \A r \in candidates' :
                        r < p => log'[r].event_id # log'[p].event_id}
  BY DEF Fresh
<1>8. candidates \subseteq Batch(q, b)
  OBVIOUS
<1>. HIDE DEF candidates
<1>. QED
  BY <1>1, <1>5, <1>6, <1>7, <1>8

\* How a step changes the files and the state behind them.
LEMMA DedupStepKinds ==
  ASSUME IInv, [Next]_vars, PQ \in Queries
  PROVE  \/ /\ files'[PQ] = files[PQ]
            /\ commitLog'[PQ] = commitLog[PQ]
            /\ seen'[PQ] = seen[PQ]
         \/ /\ InFlight(PQ)
            /\ Len(files[PQ]) + 1 = Pending(PQ)
            /\ files'[PQ] = Append(files[PQ], Fresh(PQ, Pending(PQ)))
            /\ UNCHANGED <<log, checkpoint>>
         \/ /\ lastExecution[PQ] = "sunk"
            /\ files'[PQ] = files[PQ]
            /\ UNCHANGED <<log, offsetLog>>
            /\ commitLog'[PQ] = Pending(PQ)
            /\ seen'[PQ] = SeenAfter(PQ)
<1>1. PQ \in FileQueries /\ PQ \in DedupQueries
  BY DEF PQ, FileQueries, DedupQueries
<1>2. FileRows(PQ, Pending(PQ)) = Fresh(PQ, Pending(PQ))
  BY Zenon DEF FileRows, PQ
<1>3. CASE files'[PQ] # files[PQ]
  BY <1>1, <1>2, <1>3, FilesGrow
<1>4. CASE files'[PQ] = files[PQ]
  <2>1. CASE \E q \in Queries : Commit(q)
    <3>1. PICK q \in Queries : Commit(q)
      BY <2>1
    <3>2. CASE q = PQ
      BY <1>1, <1>4, <3>1, <3>2 DEF Commit, environment, IInv, TypeOK
    <3>3. CASE q # PQ
      BY <1>1, <1>4, <3>1, <3>3 DEF Commit, IInv, TypeOK
    <3>. QED
      BY <3>2, <3>3
  <2>2. CASE UNCHANGED <<commitLog, seen>>
    BY <1>4, <2>2
  <2>3. (\E q \in Queries : Commit(q)) \/ UNCHANGED <<commitLog, seen>>
    BY DEF Next, RunBatch, Produce, Plan, WriteFiles, UpsertRecords,
       UpsertAggregates, UpsertMetrics, Upserts, UpsertFails, Crash, Restart,
       PostgresDown, PostgresUp, checkpoint, vars
  <2>. QED
    BY <2>1, <2>2, <2>3
<1>. QED
  BY <1>3, <1>4

\* The manifest, the offset log and the commit log of the processed files.
LEMMA Manifest ==
  ASSUME IInv, PQ \in Queries
  PROVE  /\ Len(files[PQ]) \in Nat /\ Len(offsetLog[PQ]) \in Nat
         /\ commitLog[PQ] \in Nat /\ Pending(PQ) = commitLog[PQ] + 1
         /\ commitLog[PQ] <= Len(files[PQ])
         /\ Len(offsetLog[PQ]) \in {commitLog[PQ], commitLog[PQ] + 1}
         /\ files[PQ] \in Seq(SUBSET Nat) /\ offsetLog[PQ] \in Seq(Nat)
<1>1. PQ \in FileQueries
  BY DEF PQ, FileQueries
<1>. QED
  BY <1>1 DEF IInv, TypeOK, CheckpointOrder, Shown, Pending

LEMMA DedupIdle ==
  ASSUME IInv, [Next]_vars, PQ \in Queries,
         NEW k \in 0 .. Len(files[PQ]), DedupAbove(k),
         files'[PQ] = files[PQ], commitLog'[PQ] = commitLog[PQ],
         seen'[PQ] = seen[PQ]
  PROVE  DedupAbove(k)'
<1>. USE DEF DedupAbove
<1>1. \A b : RowsOf(b)' = RowsOf(b)
  BY DEF RowsOf
<1>2. \A b \in 1 .. Len(files[PQ]) : \A p \in RowsOf(b) :
        p \in 1 .. Len(log) /\ p \in 1 .. Len(log') /\ log'[p] = log[p]
  <2>. SUFFICES ASSUME NEW b \in 1 .. Len(files[PQ]), NEW p \in RowsOf(b)
                PROVE  /\ p \in 1 .. Len(log) /\ p \in 1 .. Len(log')
                       /\ log'[p] = log[p]
    OBVIOUS
  <2>1. p \in 1 .. Len(log)
    BY DEF RowsAccepted
  <2>. QED
    BY <2>1, LogsGrow
<1>3. RowsAccepted'
  BY <1>1, <1>2 DEF RowsAccepted
<1>4. RowsDistinct'
  BY <1>1, <1>2 DEF RowsDistinct
<1>5. CommittedSeen(k)'
  BY <1>1, <1>2 DEF CommittedSeen
<1>6. RowsInBatches(k)'
  <2>. SUFFICES ASSUME NEW b \in k + 1 .. Len(files[PQ])
                PROVE  b <= Len(offsetLog'[PQ]) /\ RowsOf(b) \subseteq Batch(PQ, b)'
    BY <1>1 DEF RowsInBatches
  <2>1. b \in Int /\ b <= Len(offsetLog[PQ]) /\ RowsOf(b) \subseteq Batch(PQ, b)
    BY DEF RowsInBatches
  <2>2. Batch(PQ, b)' = Batch(PQ, b)
    BY <2>1, BatchStable
  <2>3. /\ Len(offsetLog[PQ]) \in Nat
        /\ Len(offsetLog'[PQ]) \in {Len(offsetLog[PQ]), Len(offsetLog[PQ]) + 1}
    BY LogsGrow
  <2>. QED
    BY <2>1, <2>2, <2>3
<1>7. RowsKept(k)'
  <2>. SUFFICES ASSUME offsetLog'[PQ] # <<>>, NEW b \in 1 .. k
                PROVE  RowsOf(b) \subseteq Batch(PQ, 1)'
    BY <1>1 DEF RowsKept
  <2>0. b \in 1 .. Len(files[PQ])
    BY Manifest
  <2>1. CASE offsetLog[PQ] # <<>>
    <3>1. 1 \in Int /\ 1 <= Len(offsetLog[PQ])
      BY <2>1, Manifest
    <3>2. Batch(PQ, 1)' = Batch(PQ, 1)
      BY <3>1, BatchStable
    <3>. QED
      BY <2>1, <3>2 DEF RowsKept
  <2>2. CASE offsetLog[PQ] = <<>>
    <3>1. Len(offsetLog'[PQ]) # Len(offsetLog[PQ])
      <4>1. offsetLog'[PQ] \in Seq(Nat)
        BY NextIInv DEF IInv, TypeOK
      <4>. QED
        BY <2>2, <4>1
    <3>2. offsetLog'[PQ][1] = Len(log)
      BY <2>2, <3>1, NewBatch
    <3>3. Batch(PQ, 1)' = 1 .. Len(log)
      BY <3>2 DEF Batch, End
    <3>. QED
      BY <1>2, <2>0, <3>3
  <2>. QED
    BY <2>1, <2>2
<1>8. WrittenIsFresh(k)'
  <2>. SUFFICES ASSUME Len(files[PQ]) = Pending(PQ), k < Pending(PQ)
                PROVE  RowsOf(Pending(PQ))' = Fresh(PQ, Pending(PQ))'
    BY DEF WrittenIsFresh, Pending
  <2>1. PICK b \in Nat \ {0} : b = Pending(PQ) /\ b <= Len(offsetLog[PQ])
    <3>1. Pending(PQ) \in k + 1 .. Len(files[PQ])
      BY Manifest
    <3>. QED
      BY <3>1, Manifest DEF RowsInBatches
  <2>2. Fresh(PQ, b)' = Fresh(PQ, b)
    BY <2>1, FreshStable
  <2>3. Pending(PQ)' = b
    BY <2>1 DEF Pending
  <2>4. RowsOf(b) = Fresh(PQ, b)
    BY <2>1 DEF WrittenIsFresh
  <2>5. RowsOf(Pending(PQ))' = RowsOf(b)'
    BY <2>3 DEF RowsOf
  <2>6. Fresh(PQ, Pending(PQ))' = Fresh(PQ, b)'
    BY <2>3 DEF Fresh, LateEvent, Reached, Batch, End
  <2>. QED
    BY <1>1, <2>2, <2>4, <2>5, <2>6
<1>. QED
  BY <1>3, <1>4, <1>5, <1>6, <1>7, <1>8

LEMMA DedupWrite ==
  ASSUME IInv, PQ \in Queries, NEW k \in 0 .. Len(files[PQ]), DedupAbove(k),
         InFlight(PQ), Len(files[PQ]) + 1 = Pending(PQ),
         files'[PQ] = Append(files[PQ], Fresh(PQ, Pending(PQ))),
         UNCHANGED <<log, checkpoint>>
  PROVE  DedupAbove(k)'
<1>. USE DEF DedupAbove
<1>1. PICK n \in Nat, fresh \in SUBSET Nat :
        /\ n = Len(files[PQ]) /\ n + 1 = Pending(PQ) /\ n = commitLog[PQ]
        /\ n + 1 = Len(offsetLog[PQ]) /\ k \in 0 .. n
        /\ fresh = Fresh(PQ, Pending(PQ))
  <2>1. Fresh(PQ, Pending(PQ)) \in SUBSET Nat
    BY RowPositions DEF IInv, TypeOK
  <2>. QED
    BY <2>1, Manifest, PendingPlanned DEF IInv
<1>2. /\ Len(files'[PQ]) = n + 1
      /\ RowsOf(n + 1)' = fresh
      /\ \A b \in 1 .. n : RowsOf(b)' = RowsOf(b)
  <2>1. files[PQ] \in Seq(SUBSET Nat) /\ files'[PQ] = Append(files[PQ], fresh)
    BY <1>1, Manifest
  <2>2. /\ Len(Append(files[PQ], fresh)) = Len(files[PQ]) + 1
        /\ Append(files[PQ], fresh)[Len(files[PQ]) + 1] = fresh
        /\ \A b \in 1 .. Len(files[PQ]) : Append(files[PQ], fresh)[b] = files[PQ][b]
    BY <2>1
  <2>3. n = Len(files[PQ])
    BY <1>1
  <2>. QED
    BY <2>1, <2>2, <2>3, Zenon DEF RowsOf
<1>3. /\ log' = log /\ seen' = seen /\ commitLog' = commitLog
      /\ offsetLog' = offsetLog
      /\ Pending(PQ)' = n + 1
      /\ \A b : Batch(PQ, b)' = Batch(PQ, b)
  BY <1>1 DEF checkpoint, Pending, Batch, End
<1>4. Fresh(PQ, Pending(PQ))' = fresh
  BY <1>1, <1>3 DEF checkpoint, Fresh, LateEvent, Reached, Batch, End
<1>5. /\ fresh \subseteq Batch(PQ, n + 1)
      /\ \A p \in fresh : /\ p \in 1 .. Len(log) /\ Accepted(log[p])
                          /\ log[p].event_id \notin seen[PQ]
      /\ \A p, r \in fresh : log[p].event_id = log[r].event_id => p = r
  BY <1>1, FreshOnce, RowPositions DEF IInv
<1>6. /\ \A b \in k + 1 .. n : b <= n + 1 /\ RowsOf(b) \subseteq Batch(PQ, b)
      /\ \A b \in 1 .. n : \A p \in RowsOf(b) :
           /\ p \in 1 .. Len(log) /\ Accepted(log[p])
           /\ log[p].event_id \in seen[PQ]
      /\ \A b, c \in 1 .. n : \A p \in RowsOf(b), r \in RowsOf(c) :
           log[p].event_id = log[r].event_id => b = c /\ p = r
  <2>1. ASSUME NEW b \in k + 1 .. n
        PROVE  b <= n + 1 /\ RowsOf(b) \subseteq Batch(PQ, b)
    <3>1. b \in k + 1 .. Len(files[PQ])
      BY <1>1
    <3>. QED
      BY <1>1, <3>1, Zenon DEF RowsInBatches
  <2>2. ASSUME NEW b \in 1 .. n, NEW p \in RowsOf(b)
        PROVE  /\ p \in 1 .. Len(log) /\ Accepted(log[p])
               /\ log[p].event_id \in seen[PQ]
    <3>1. b \in 1 .. Len(files[PQ]) /\ commitLog[PQ] >= 1 /\ b <= commitLog[PQ]
      BY <1>1
    <3>. QED
      BY <3>1 DEF RowsAccepted, CommittedSeen
  <2>3. \A b, c \in 1 .. n : \A p \in RowsOf(b), r \in RowsOf(c) :
          log[p].event_id = log[r].event_id => b = c /\ p = r
    BY <1>1, Zenon DEF RowsDistinct
  <2>. QED
    BY <2>1, <2>2, <2>3
<1>7. \A b \in 1 .. (n + 1) : b \in 1 .. n \/ b = n + 1
  BY <1>1
<1>8. RowsKept(k)'
  BY <1>1, <1>2, <1>3 DEF RowsKept
<1>9. RowsInBatches(k)'
  <2>1. ASSUME NEW b \in k + 1 .. (n + 1)
        PROVE  b <= n + 1 /\ RowsOf(b)' \subseteq Batch(PQ, b)'
    <3>1. CASE b \in k + 1 .. n
      BY <1>1, <1>2, <1>3, <1>6, <3>1
    <3>2. CASE b = n + 1
      <4>1. RowsOf(b)' = fresh
        BY <1>2, <3>2
      <4>2. Batch(PQ, b)' = Batch(PQ, n + 1)
        BY <1>3, <3>2
      <4>. QED
        BY <1>1, <1>5, <3>2, <4>1, <4>2
    <3>. QED
      BY <1>1, <3>1, <3>2
  <2>. QED
    BY <1>1, <1>2, <1>3, <2>1 DEF RowsInBatches
<1>10. RowsAccepted'
  <2>1. ASSUME NEW b \in 1 .. (n + 1), NEW p \in RowsOf(b)'
        PROVE  p \in 1 .. Len(log) /\ Accepted(log[p])
    <3>1. CASE b \in 1 .. n
      BY <1>2, <1>6, <3>1
    <3>2. CASE b = n + 1
      BY <1>2, <1>5, <3>2
    <3>. QED
      BY <1>7, <3>1, <3>2
  <2>. QED
    BY <1>2, <1>3, <2>1 DEF RowsAccepted
<1>11. CommittedSeen(k)'
  BY <1>1, <1>2, <1>3, <1>6 DEF CommittedSeen
<1>12. WrittenIsFresh(k)'
  <2>1. RowsOf(Pending(PQ))' = RowsOf(n + 1)'
    BY <1>3 DEF RowsOf
  <2>. QED
    BY <1>2, <1>4, <2>1 DEF WrittenIsFresh
<1>13. RowsDistinct'
  <2>. SUFFICES ASSUME NEW b \in 1 .. (n + 1), NEW c \in 1 .. (n + 1),
                       NEW p \in RowsOf(b)', NEW r \in RowsOf(c)',
                       log[p].event_id = log[r].event_id
                PROVE  b = c /\ p = r
    <3>1. 1 .. Len(files'[PQ]) = 1 .. (n + 1) /\ log' = log
      BY <1>2, <1>3
    <3>. QED
      BY <3>1, Zenon DEF RowsDistinct
  <2>1. CASE b \in 1 .. n /\ c \in 1 .. n
    <3>1. p \in RowsOf(b) /\ r \in RowsOf(c)
      BY <1>2, <2>1
    <3>. QED
      BY <1>6, <2>1, <3>1
  <2>2. CASE b \in 1 .. n /\ c = n + 1
    <3>1. p \in RowsOf(b) /\ r \in fresh
      BY <1>2, <2>2
    <3>. QED
      BY <1>5, <1>6, <2>2, <3>1
  <2>3. CASE b = n + 1 /\ c \in 1 .. n
    <3>1. p \in fresh /\ r \in RowsOf(c)
      BY <1>2, <2>3
    <3>. QED
      BY <1>5, <1>6, <2>3, <3>1
  <2>4. CASE b = n + 1 /\ c = n + 1
    BY <1>2, <1>5, <2>4
  <2>. QED
    BY <1>7, <2>1, <2>2, <2>3, <2>4
<1>. QED
  BY <1>8, <1>9, <1>10, <1>11, <1>12, <1>13

LEMMA DedupCommit ==
  ASSUME IInv, PQ \in Queries, NEW k \in 0 .. Len(files[PQ]), DedupAbove(k),
         lastExecution[PQ] = "sunk", files'[PQ] = files[PQ],
         UNCHANGED <<log, offsetLog>>, commitLog'[PQ] = Pending(PQ),
         seen'[PQ] = SeenAfter(PQ)
  PROVE  DedupAbove(k)'
<1>. USE DEF DedupAbove
<1>1. /\ Pending(PQ) = commitLog[PQ] + 1 /\ Len(offsetLog[PQ]) = Pending(PQ)
      /\ Pending(PQ) <= Len(files[PQ]) /\ InFlight(PQ)
  <2>1. PQ \in FileQueries
    BY DEF PQ, FileQueries
  <2>. QED
    BY <2>1, Manifest DEF IInv, SunkInFlight, Shown, InFlight, Pending
<1>2. /\ \A b : RowsOf(b)' = RowsOf(b)
      /\ \A b : Batch(PQ, b)' = Batch(PQ, b)
  BY DEF RowsOf, Batch, End
<1>3. CommittedSeen(k)'
  <2>. SUFFICES ASSUME NEW b \in 1 .. Len(files[PQ]), NEW p \in RowsOf(b),
                       b <= Pending(PQ) \/ b <= k
                PROVE  log[p].event_id \in SeenAfter(PQ)
    BY <1>2 DEF CommittedSeen
  <2>1. CASE commitLog[PQ] >= 1 /\ (b <= commitLog[PQ] \/ b <= k)
    BY <2>1 DEF CommittedSeen, SeenAfter
  <2>2. CASE commitLog[PQ] = 0 /\ b <= k
    <3>1. /\ Pending(PQ) = 1 /\ p \in Batch(PQ, 1)
          /\ Accepted(log[p])
      <4>1. b \in 1 .. k /\ Len(offsetLog[PQ]) = 1 /\ Pending(PQ) = 1
        BY <1>1, <2>2, Manifest
      <4>2. offsetLog[PQ] # <<>>
        <5>. SUFFICES ASSUME offsetLog[PQ] = <<>> PROVE FALSE
          OBVIOUS
        <5>1. Len(offsetLog[PQ]) = 0
          OBVIOUS
        <5>. QED
          BY <4>1, <5>1
      <4>. QED
        BY <4>1, <4>2 DEF RowsKept, RowsAccepted
    <3>2. ~LateEvent(PQ, 1, log[p])
      BY DEF LateEvent, Reached, End
    <3>3. \/ log[p].event_id \in seen[PQ]
          \/ \E r \in Fresh(PQ, Pending(PQ)) : log[r].event_id = log[p].event_id
      BY <1>1, <3>1, <3>2, FreshCovers
    <3>. QED
      BY <3>3 DEF SeenAfter
  <2>3. CASE b > k /\ b > commitLog[PQ]
    <3>1. b = Pending(PQ) /\ k < Pending(PQ)
      BY <1>1, <2>3, Manifest
    <3>2. Len(files[PQ]) = Pending(PQ)
      <4>1. Len(files[PQ]) \in k + 1 .. Len(files[PQ])
        BY <2>3, Manifest
      <4>2. Len(files[PQ]) <= Len(offsetLog[PQ])
        BY <4>1 DEF RowsInBatches
      <4>. QED
        BY <1>1, <4>2, Manifest
    <3>3. p \in Fresh(PQ, Pending(PQ))
      BY <3>1, <3>2 DEF WrittenIsFresh
    <3>. QED
      BY <3>3 DEF SeenAfter
  <2>. QED
    BY <1>1, <2>1, <2>2, <2>3, Manifest
<1>4. WrittenIsFresh(k)'
  <2>. SUFFICES ASSUME Len(files[PQ]) = Pending(PQ)', k < Pending(PQ)'
                PROVE  FALSE
    BY DEF WrittenIsFresh
  <2>1. Pending(PQ)' = Pending(PQ) + 1
    BY DEF Pending
  <2>2. Len(files[PQ]) \in k + 1 .. Len(files[PQ])
    BY <2>1, Manifest
  <2>3. Len(files[PQ]) <= Len(offsetLog[PQ])
    BY <2>2 DEF RowsInBatches
  <2>. QED
    BY <1>1, <2>1, <2>3, Manifest
<1>. QED
  BY <1>2, <1>3, <1>4 DEF RowsKept, RowsInBatches, RowsAccepted, RowsDistinct

LEMMA DedupStep == IInv /\ DedupInv /\ [Next]_vars => DedupInv'
<1>. SUFFICES ASSUME IInv, [Next]_vars, PQ \in Queries,
                     NEW k \in 0 .. Len(files[PQ]), DedupAbove(k)
              PROVE  k \in 0 .. Len(files'[PQ]) /\ DedupAbove(k)'
  BY DEF DedupInv
<1>1. DedupAbove(k)'
  BY DedupStepKinds, DedupIdle, DedupWrite, DedupCommit
<1>2. PICK n \in Nat : n = Len(files[PQ]) /\ k \in 0 .. n
  BY Manifest
<1>3. CASE files'[PQ] = files[PQ]
  <2>1. Len(files'[PQ]) = n
    BY <1>2, <1>3
  <2>. QED
    BY <1>1, <1>2, <2>1
<1>4. CASE /\ InFlight(PQ)
           /\ files'[PQ] = Append(files[PQ], Fresh(PQ, Pending(PQ)))
  <2>1. Fresh(PQ, Pending(PQ)) \in SUBSET Nat
    BY <1>4, RowPositions DEF IInv, TypeOK
  <2>2. Len(files'[PQ]) = n + 1
    BY <1>2, <1>4, <2>1, Manifest
  <2>3. k \in 0 .. (n + 1)
    BY <1>2
  <2>. QED
    BY <1>1, <2>2, <2>3
<1>. QED
  BY <1>3, <1>4, DedupStepKinds

LEMMA DedupInitially == Init => DedupInv
<1>. SUFFICES ASSUME Init, PQ \in Queries PROVE DedupInv
  BY DEF DedupInv
<1>1. /\ files[PQ] = <<>> /\ offsetLog[PQ] = <<>>
      /\ Len(files[PQ]) = 0 /\ 0 \in 0 .. Len(files[PQ])
  BY DEF Init, PQ, FileQueries
<1>3. RowsKept(0) /\ RowsInBatches(0) /\ RowsAccepted /\ RowsDistinct
  BY <1>1 DEF RowsKept, RowsInBatches, RowsAccepted, RowsDistinct
<1>4. CommittedSeen(0)
  BY <1>1 DEF CommittedSeen
<1>5. WrittenIsFresh(0)
  <2>1. commitLog[PQ] = 0
    BY DEF Init
  <2>. QED
    BY <1>1, <2>1 DEF WrittenIsFresh, Pending
<1>6. DedupAbove(0)
  BY <1>3, <1>4, <1>5 DEF DedupAbove
<1>. QED
  BY <1>1, <1>6 DEF DedupInv

LEMMA DedupImplied == DedupInv => OneFileRowPerEvent
  BY DEF DedupInv, DedupAbove, RowsDistinct, RowsOf, OneFileRowPerEvent, PQ

\* The processed files hold one row per event id, across batches, re-runs and
\* restarts of the driver (main.py:230, 239-245).
THEOREM OneFileRowPerEventHolds == Spec => []OneFileRowPerEvent
  BY DedupInitially, DedupStep, DedupImplied, Invariance, PTL DEF Spec

-----------------------------------------------------------------------------
(* The serving table. *)

PG == "postgres"

\* The copies of event i among the rows a batch may write.
BatchCopies(i, b) ==
  {p \in Batch(PG, b) : Accepted(log[p]) /\ log[p].event_id = i}

\* The copies of event i that are visible.
VisibleCopies(i) ==
  {p \in 1 .. Visible(PG) : Accepted(log[p]) /\ log[p].event_id = i}

-----------------------------------------------------------------------------
(* What an upsert writes. *)

\* One row per event of the batch, and it is the first copy's.
LEMMA RowsAreFirstCopies ==
  ASSUME IInv, PG \in Queries, InFlight(PG), NEW i \in EventIds
  PROVE  LET copies == BatchCopies(i, Pending(PG)) IN
         /\ copies \subseteq Nat
         /\ (\E p \in RowsFor(PG) : log[p].event_id = i) <=> copies # {}
         /\ \A p \in RowsFor(PG) :
              log[p].event_id = i => copies # {} /\ p = Least(copies)
<1>. DEFINE copies == BatchCopies(i, Pending(PG))
<1>1. Batch(PG, Pending(PG)) \subseteq Nat
  BY RowPositions DEF IInv, TypeOK
<1>2. copies \subseteq Nat
  BY <1>1 DEF BatchCopies
<1>3. RowsFor(PG) = FirstCopies(Pending(PG))
  BY Zenon DEF RowsFor, PG
<1>4. ASSUME NEW p \in RowsFor(PG), log[p].event_id = i
      PROVE  p \in copies /\ \A r \in copies : ~(r < p)
  BY <1>3, <1>4, Zenon DEF FirstCopies, BatchCopies, PG
<1>5. ASSUME NEW p \in RowsFor(PG), log[p].event_id = i
      PROVE  copies # {} /\ p = Least(copies)
  <2>1. Least(copies) \in copies /\ \A r \in copies : Least(copies) <= r
    BY <1>2, <1>4, <1>5, LeastExists
  <2>. HIDE DEF copies
  <2>2. p \in copies /\ ~(Least(copies) < p) /\ Least(copies) <= p
    BY <1>4, <1>5, <2>1
  <2>3. p \in Nat /\ Least(copies) \in Nat
    BY <1>2, <2>1, <2>2
  <2>4. p = Least(copies)
    <3>. DEFINE k == Least(copies)
    <3>1. p \in Nat /\ k \in Nat /\ ~(k < p) /\ k <= p
      BY <2>2, <2>3
    <3>. HIDE DEF k
    <3>2. p = k
      BY <3>1
    <3>. QED
      BY <3>2 DEF k
  <2>. QED
    BY <2>2, <2>4
<1>6. ASSUME copies # {}
      PROVE  \E p \in RowsFor(PG) : log[p].event_id = i
  <2>1. Least(copies) \in copies /\ \A r \in copies : Least(copies) <= r
    BY <1>2, <1>6, LeastExists
  <2>2. ASSUME NEW r \in Batch(PG, Pending(PG)), Accepted(log[r]),
               r < Least(copies)
        PROVE  log[r].event_id # i
    <3>. SUFFICES ASSUME log[r].event_id = i PROVE FALSE
      OBVIOUS
    <3>1. r \in copies
      BY <2>2 DEF BatchCopies
    <3>2. r \in Nat /\ Least(copies) \in Nat /\ Least(copies) <= r
      BY <1>2, <2>1, <3>1
    <3>. QED
      BY <2>2, <3>2
  <2>3. Least(copies) \in FirstCopies(Pending(PG))
    BY <2>1, <2>2, Zenon DEF FirstCopies, BatchCopies, PG
  <2>. QED
    BY <1>3, <2>1, <2>3 DEF BatchCopies
<1>. QED
  BY <1>2, <1>5, <1>6

\* The row of every event after an upsert.
LEMMA UpsertedRow ==
  ASSUME IInv, PG \in Queries, UpsertRecords, NEW i \in EventIds
  PROVE  LET copies == BatchCopies(i, Pending(PG)) IN
         records'[i] =
           IF copies = {} THEN records[i]
           ELSE [inserted     |-> IF records[i] = NoRow THEN Least(copies)
                                  ELSE records[i].inserted,
                 updated      |-> Least(copies),
                 processed_at |-> Pending(PG)]
<1>. DEFINE copies == BatchCopies(i, Pending(PG))
            chosen == CHOOSE p \in RowsFor(PG) : log[p].event_id = i
<1>1. InFlight(PG)
  BY DEF UpsertRecords, Upserts, Runnable, PG
<1>2. /\ (\E p \in RowsFor(PG) : log[p].event_id = i) <=> copies # {}
      /\ \A p \in RowsFor(PG) : log[p].event_id = i => p = Least(copies)
  BY <1>1, RowsAreFirstCopies
<1>3. copies # {} => chosen = Least(copies)
  BY <1>2, Zenon
<1>4. records'[i] =
        IF \E p \in RowsFor(PG) : log[p].event_id = i
        THEN [inserted     |-> IF records[i] = NoRow THEN chosen
                               ELSE records[i].inserted,
              updated      |-> chosen,
              processed_at |-> Pending(PG)]
        ELSE records[i]
  BY Zenon DEF UpsertRecords, PG
<1>. HIDE DEF copies, chosen
<1>. QED
  BY <1>2, <1>3, <1>4 DEF copies

-----------------------------------------------------------------------------
(* The invariant. *)

\* The postgres query keeps no state, so it never runs a batch without data.
BatchesHaveData ==
  \A b \in 1 .. Len(offsetLog[PG]) : End(PG, b - 1) < End(PG, b)

\* The rows are those of the visible copies.
RowsExact ==
  \A i \in EventIds :
    IF VisibleCopies(i) = {} THEN records[i] = NoRow
    ELSE /\ records[i].inserted = Least(VisibleCopies(i))
         /\ records[i].updated \in VisibleCopies(i)

\* When the batch in flight has been through, its rows are what a re-run of it
\* would write.
Replayable ==
  landed[PG] = Pending(PG) =>
    \A i \in EventIds :
      LET copies == BatchCopies(i, Pending(PG)) IN
      copies # {} => /\ records[i].updated = Least(copies)
                     /\ records[i].processed_at = Pending(PG)

ServingInv == BatchesHaveData /\ RowsExact /\ Replayable

LEMMA VisibleCopiesType ==
  ASSUME NEW i
  PROVE  VisibleCopies(i) \subseteq Nat \ {0}
  BY DEF VisibleCopies

LEMMA RowsExactImplied ==
  ASSUME IInv, PG \in Queries, RowsExact
  PROVE  ServedRecordsExact
<1>. SUFFICES ASSUME NEW i \in EventIds, VisibleCopies(i) # {},
                     records[i].inserted = Least(VisibleCopies(i))
              PROVE  /\ records[i].inserted \in VisibleCopies(i)
                     /\ \A p \in VisibleCopies(i) : records[i].inserted <= p
  BY DEF ServedRecordsExact, RowsExact, VisibleCopies, PG
<1>1. VisibleCopies(i) \in SUBSET Nat
  BY VisibleCopiesType
<1>. QED
  BY <1>1, LeastExists

\* How a step changes what a reader of the table sees.
LEMMA ServingStepKinds ==
  ASSUME IInv, [Next]_vars, PG \in Queries
  PROVE  \/ /\ UpsertRecords
            /\ InFlight(PG)
            /\ landed'[PG] = Pending(PG)
            /\ UNCHANGED <<log, checkpoint>>
         \/ /\ UNCHANGED <<records, commitLog>>
            /\ landed'[PG] = landed[PG]
         \/ /\ UNCHANGED records
            /\ landed'[PG] = landed[PG]
            /\ UNCHANGED <<log, offsetLog>>
            /\ commitLog'[PG] \in {commitLog[PG], commitLog[PG] + 1}
<1>1. CASE UpsertRecords
  BY <1>1 DEF UpsertRecords, Upserts, Runnable, environment, IInv, TypeOK,
              PG, TableQueries
<1>2. CASE \E q \in Queries : Commit(q)
  BY <1>2 DEF Commit, environment, tables, IInv, TypeOK, Pending
<1>3. CASE UpsertAggregates \/ UpsertMetrics
  BY <1>3 DEF UpsertAggregates, UpsertMetrics, Upserts, checkpoint,
              environment, IInv, TypeOK, PG, TableQueries
<1>4. CASE \/ \E e \in Events : Produce(e)
           \/ \E q \in Queries : Plan(q) \/ WriteFiles(q) \/ UpsertFails(q)
           \/ Crash \/ Restart \/ PostgresDown \/ PostgresUp
           \/ UNCHANGED vars
  BY <1>4 DEF Produce, Plan, WriteFiles, UpsertFails, Crash, Restart,
              PostgresDown, PostgresUp, tables, checkpoint, vars
<1>. QED
  BY <1>1, <1>2, <1>3, <1>4 DEF Next, RunBatch

\* The offsets around the batch in flight and the visible prefix.
LEMMA Offsets ==
  ASSUME IInv, PG \in Queries
  PROVE  /\ commitLog[PG] \in Nat /\ Len(offsetLog[PG]) \in Nat
         /\ landed[PG] \in commitLog[PG] .. Len(offsetLog[PG])
         /\ Len(offsetLog[PG]) \in {commitLog[PG], commitLog[PG] + 1}
         /\ Pending(PG) = commitLog[PG] + 1
         /\ Visible(PG) \in 0 .. Len(log) /\ Len(log) \in Nat
<1>1. /\ commitLog[PG] \in Nat /\ Len(offsetLog[PG]) \in Nat /\ Len(log) \in Nat
      /\ landed[PG] \in commitLog[PG] .. Len(offsetLog[PG])
      /\ Len(offsetLog[PG]) \in {commitLog[PG], commitLog[PG] + 1}
  <2>1. Shown(PG) = landed[PG] /\ PG \in TableQueries
    BY DEF Shown, PG, FileQueries, TableQueries
  <2>2. landed[PG] \in Nat /\ commitLog[PG] \in Nat /\ Len(offsetLog[PG]) \in Nat
        /\ Len(log) \in Nat
    BY <2>1 DEF IInv, TypeOK
  <2>3. /\ Len(offsetLog[PG]) \in {commitLog[PG], commitLog[PG] + 1}
        /\ commitLog[PG] <= landed[PG] /\ landed[PG] <= Len(offsetLog[PG])
    BY <2>1 DEF IInv, CheckpointOrder
  <2>. QED
    BY <2>2, <2>3
<1>2. landed[PG] \in Int /\ landed[PG] <= Len(offsetLog[PG])
  BY <1>1
<1>3. Visible(PG) \in 0 .. Len(log)
  BY <1>2, EndBounds DEF Visible, IInv
<1>. QED
  BY <1>1, <1>3 DEF Pending

\* An upsert of a batch for the first time extends the visible prefix by the
\* batch; a re-run leaves it as it is.
LEMMA UpsertVisible ==
  ASSUME IInv, PG \in Queries, InFlight(PG), landed'[PG] = Pending(PG),
         UNCHANGED <<log, checkpoint>>, NEW i
  PROVE  /\ Visible(PG)' = End(PG, Pending(PG))
         /\ landed[PG] = Pending(PG) =>
              /\ Visible(PG)' = Visible(PG)
              /\ VisibleCopies(i)' = VisibleCopies(i)
              /\ BatchCopies(i, Pending(PG)) \subseteq VisibleCopies(i)
         /\ landed[PG] # Pending(PG) =>
              /\ landed[PG] + 1 = Pending(PG)
              /\ Visible(PG) = End(PG, Pending(PG) - 1)
              /\ Visible(PG) <= Visible(PG)'
              /\ VisibleCopies(i)' = VisibleCopies(i) \cup BatchCopies(i, Pending(PG))
              /\ \A p \in VisibleCopies(i), r \in BatchCopies(i, Pending(PG)) : p < r
<1>. DEFINE b == Pending(PG)
<1>1. /\ commitLog[PG] \in Nat /\ Len(offsetLog[PG]) \in Nat
      /\ landed[PG] \in {commitLog[PG], commitLog[PG] + 1}
      /\ b = commitLog[PG] + 1 /\ b = Len(offsetLog[PG])
      /\ Visible(PG) \in Nat
  BY Offsets, PendingPlanned DEF IInv
<1>2. log' = log /\ offsetLog' = offsetLog
  BY DEF checkpoint
<1>3. Visible(PG)' = End(PG, b)
  BY <1>2 DEF Visible, End
<1>4. End(PG, b) \in Nat /\ End(PG, b - 1) \in Nat /\ End(PG, b - 1) <= End(PG, b)
  <2>1. b - 1 \in Int /\ b \in Int /\ b - 1 <= b /\ b <= Len(offsetLog[PG])
    BY <1>1
  <2>2. End(PG, b - 1) <= End(PG, b)
    BY <2>1, EndMonotone
  <2>3. End(PG, b) \in 0 .. Len(log) /\ End(PG, b - 1) \in 0 .. Len(log)
    BY <1>1, <2>1, EndBounds DEF IInv
  <2>. QED
    BY <2>2, <2>3, Offsets
<1>5. VisibleCopies(i)' =
        {p \in 1 .. End(PG, b) : Accepted(log[p]) /\ log[p].event_id = i}
  BY <1>2, <1>3 DEF VisibleCopies
<1>6. BatchCopies(i, b) =
        {p \in (End(PG, b - 1) + 1) .. End(PG, b) :
           Accepted(log[p]) /\ log[p].event_id = i}
  BY DEF BatchCopies, Batch
<1>. HIDE DEF b
<1>7. ASSUME landed[PG] = b
      PROVE  /\ Visible(PG)' = Visible(PG)
             /\ VisibleCopies(i)' = VisibleCopies(i)
             /\ BatchCopies(i, b) \subseteq VisibleCopies(i)
  <2>1. Visible(PG) = End(PG, b)
    BY <1>7 DEF Visible
  <2>. QED
    BY <1>3, <1>4, <1>5, <1>6, <2>1 DEF VisibleCopies
<1>8. ASSUME landed[PG] # b
      PROVE  /\ landed[PG] + 1 = b
             /\ Visible(PG) = End(PG, b - 1)
             /\ Visible(PG) <= Visible(PG)'
             /\ VisibleCopies(i)' = VisibleCopies(i) \cup BatchCopies(i, b)
             /\ \A p \in VisibleCopies(i), r \in BatchCopies(i, b) : p < r
  <2>1. landed[PG] + 1 = b /\ landed[PG] = b - 1
    BY <1>1, <1>8
  <2>2. Visible(PG) = End(PG, b - 1)
    BY <2>1 DEF Visible
  <2>3. VisibleCopies(i) =
          {p \in 1 .. End(PG, b - 1) : Accepted(log[p]) /\ log[p].event_id = i}
    BY <2>2 DEF VisibleCopies
  <2>4. 1 .. End(PG, b) =
          (1 .. End(PG, b - 1)) \cup ((End(PG, b - 1) + 1) .. End(PG, b))
    BY <1>4
  <2>. QED
    BY <1>3, <1>4, <1>5, <1>6, <2>1, <2>2, <2>3, <2>4
<1>. QED
  BY <1>3, <1>7, <1>8 DEF b

\* The batch in flight keeps its copies unless it is committed.
LEMMA CopiesStable ==
  ASSUME IInv, [Next]_vars, PG \in Queries, NEW i, NEW b \in Int,
         b <= Len(offsetLog[PG])
  PROVE  BatchCopies(i, b)' = BatchCopies(i, b)
<1>1. Batch(PG, b)' = Batch(PG, b) /\ \A p \in Batch(PG, b) : log'[p] = log[p]
  BY BatchStable
<1>. QED
  BY <1>1 DEF BatchCopies

LEMMA VisibleStable ==
  ASSUME IInv, [Next]_vars, PG \in Queries, landed'[PG] = landed[PG], NEW i
  PROVE  Visible(PG)' = Visible(PG) /\ VisibleCopies(i)' = VisibleCopies(i)
<1>1. landed[PG] \in Int /\ landed[PG] <= Len(offsetLog[PG])
  BY Offsets
<1>2. /\ End(PG, landed[PG])' = End(PG, landed[PG])
      /\ \A p \in 1 .. End(PG, landed[PG]) : log'[p] = log[p]
  <2>1. PICK c \in Int : c = landed[PG]
    BY <1>1
  <2>2. /\ End(PG, c)' = End(PG, c)
        /\ \A p \in 1 .. End(PG, c) : log'[p] = log[p]
    BY <1>1, <2>1, BatchStable
  <2>3. End(PG, landed[PG])' = End(PG, c)'
    BY <2>1 DEF End
  <2>. QED
    BY <2>1, <2>2, <2>3
<1>. QED
  BY <1>2 DEF Visible, VisibleCopies

LEMMA RowsExactStep ==
  ASSUME IInv, RowsExact, [Next]_vars, PG \in Queries
  PROVE  RowsExact'
<1>. SUFFICES ASSUME NEW i \in EventIds
              PROVE  (IF VisibleCopies(i) = {} THEN records[i] = NoRow
                      ELSE /\ records[i].inserted = Least(VisibleCopies(i))
                           /\ records[i].updated \in VisibleCopies(i))'
  BY DEF RowsExact
<1>1. IF VisibleCopies(i) = {} THEN records[i] = NoRow
      ELSE /\ records[i].inserted = Least(VisibleCopies(i))
           /\ records[i].updated \in VisibleCopies(i)
  BY DEF RowsExact
<1>2. CASE landed'[PG] = landed[PG] /\ records' = records
  <2>1. VisibleCopies(i)' = VisibleCopies(i)
    BY <1>2, VisibleStable
  <2>. QED
    BY <1>1, <1>2, <2>1 DEF NoRow, Least
<1>3. CASE /\ UpsertRecords
           /\ InFlight(PG)
           /\ landed'[PG] = Pending(PG)
           /\ UNCHANGED <<log, checkpoint>>
  <2>. DEFINE new == BatchCopies(i, Pending(PG))
              old == VisibleCopies(i)
  <2>1. records'[i] =
          IF new = {} THEN records[i]
          ELSE [inserted     |-> IF records[i] = NoRow THEN Least(new)
                                 ELSE records[i].inserted,
                updated      |-> Least(new),
                processed_at |-> Pending(PG)]
    BY <1>3, UpsertedRow
  <2>2. \/ VisibleCopies(i)' = old /\ new \subseteq old
        \/ /\ VisibleCopies(i)' = old \cup new
           /\ \A p \in old, r \in new : p < r
    BY <1>3, UpsertVisible
  <2>3. new \in SUBSET Nat /\ old \in SUBSET (Nat \ {0})
    BY <1>3, RowsAreFirstCopies, VisibleCopiesType
  <2>4. new # {} => Least(new) \in new /\ \A r \in new : Least(new) <= r
    BY <2>3, LeastExists
  <2>5. old # {} => Least(old) \in old /\ \A r \in old : Least(old) <= r
    BY <2>3, LeastExists
  <2>6. old # {} => records[i] # NoRow
    BY <1>1, <2>3, <2>5 DEF NoRow
  <2>7. new # {} => /\ records'[i].inserted = IF old = {} THEN Least(new)
                                              ELSE Least(old)
                    /\ records'[i].updated = Least(new)
    BY <1>1, <2>1, <2>6
  <2>. HIDE DEF new, old
  <2>8. CASE new = {}
    <3>1. VisibleCopies(i)' = old
      BY <2>2, <2>8
    <3>. QED
      BY <1>1, <2>1, <2>8, <3>1 DEF NoRow, old, Least
  <2>9. CASE new # {}
    <3>1. VisibleCopies(i)' # {} /\ Least(new) \in VisibleCopies(i)'
      BY <2>2, <2>4, <2>9
    <3>2. Least(VisibleCopies(i)') = IF old = {} THEN Least(new) ELSE Least(old)
      <4>1. CASE VisibleCopies(i)' = old
        BY <3>1, <4>1
      <4>2. CASE /\ VisibleCopies(i)' = old \cup new
                 /\ old = {}
        <5>1. VisibleCopies(i)' = new
          BY <4>2
        <5>. QED
          BY <4>2, <5>1
      <4>3. CASE /\ VisibleCopies(i)' = old \cup new
                 /\ \A p \in old, r \in new : p < r
                 /\ old # {}
        <5>. DEFINE all == old \cup new
        <5>1. all \in SUBSET Nat /\ all # {}
          BY <2>3, <4>3
        <5>2. Least(all) \in all /\ \A r \in all : Least(all) <= r
          BY <5>1, LeastExists
        <5>3. Least(old) \in all /\ \A r \in all : Least(old) <= r
          <6>1. Least(old) \in old /\ \A r \in old : Least(old) <= r
            BY <2>5, <4>3
          <6>2. ASSUME NEW r \in new PROVE Least(old) <= r
            <7>1. Least(old) < r /\ Least(old) \in Nat /\ r \in Nat
              BY <2>3, <4>3, <6>1
            <7>. QED
              BY <7>1
          <6>. QED
            BY <6>1, <6>2
        <5>4. Least(all) \in Nat /\ Least(old) \in Nat
          BY <5>1, <5>2, <5>3
        <5>5. Least(all) <= Least(old) /\ Least(old) <= Least(all)
          BY <5>2, <5>3
        <5>6. Least(all) = Least(old)
          <6>. DEFINE a == Least(all)
                      o == Least(old)
          <6>1. a \in Nat /\ o \in Nat /\ a <= o /\ o <= a
            BY <5>4, <5>5
          <6>. HIDE DEF a, o
          <6>2. a = o
            BY <6>1
          <6>. QED
            BY <6>2 DEF a, o
        <5>. QED
          BY <4>3, <5>6
      <4>. QED
        BY <2>2, <4>1, <4>2, <4>3
    <3>3. Least(VisibleCopies(i))' = Least(VisibleCopies(i)')
      BY DEF Least
    <3>. QED
      BY <2>7, <2>9, <3>1, <3>2, <3>3
  <2>. QED
    BY <2>8, <2>9
<1>. QED
  BY <1>2, <1>3, ServingStepKinds

LEMMA BatchesHaveDataStep ==
  ASSUME IInv, BatchesHaveData, [Next]_vars, PG \in Queries
  PROVE  BatchesHaveData'
<1>. SUFFICES ASSUME NEW b \in 1 .. Len(offsetLog'[PG])
              PROVE  End(PG, b - 1)' < End(PG, b)'
  BY DEF BatchesHaveData
<1>1. /\ Len(offsetLog[PG]) \in Nat
      /\ Len(offsetLog'[PG]) \in {Len(offsetLog[PG]), Len(offsetLog[PG]) + 1}
      /\ commitLog[PG] \in Nat
  BY LogsGrow, Offsets
<1>2. CASE b <= Len(offsetLog[PG])
  <2>1. End(PG, b)' = End(PG, b) /\ End(PG, b - 1)' = End(PG, b - 1)
    BY <1>1, <1>2, BatchStable
  <2>. QED
    BY <1>1, <1>2, <2>1 DEF BatchesHaveData
<1>3. CASE b > Len(offsetLog[PG])
  <2>1. b = Len(offsetLog[PG]) + 1 /\ b \in Nat \ {0}
    BY <1>1, <1>3
  <2>2. PICK q \in Queries : Plan(q)
    BY <1>1, <2>1 DEF Next, RunBatch, Produce, WriteFiles, UpsertRecords,
       UpsertAggregates, UpsertMetrics, Upserts, UpsertFails, Commit, Crash,
       Restart, PostgresDown, PostgresUp, checkpoint, vars
  <2>3. q = PG
    BY <1>1, <2>1, <2>2 DEF Plan, IInv, TypeOK
  <2>4. /\ Len(log) > Committed(PG)
        /\ ~InFlight(PG)
        /\ offsetLog' = [offsetLog EXCEPT ![PG] = Append(@, Len(log))]
    BY <2>2, <2>3 DEF Plan, Stateful, PG
  <2>5. Len(offsetLog[PG]) = commitLog[PG]
    BY <2>4, Offsets DEF InFlight
  <2>6. End(PG, b)' = Len(log)
    <3>1. offsetLog'[PG] = Append(offsetLog[PG], Len(log))
      BY <2>4 DEF IInv, TypeOK
    <3>2. offsetLog'[PG][b] = Len(log)
      BY <2>1, <3>1 DEF IInv, TypeOK
    <3>. QED
      BY <2>1, <3>2 DEF End
  <2>7. End(PG, b - 1)' = Committed(PG)
    <3>1. b - 1 \in Int /\ b - 1 <= Len(offsetLog[PG]) /\ b - 1 = commitLog[PG]
      BY <1>1, <2>1, <2>5
    <3>2. End(PG, b - 1)' = End(PG, b - 1)
      BY <3>1, BatchStable
    <3>. QED
      BY <3>1, <3>2 DEF Committed
  <2>8. Committed(PG) \in Nat /\ Len(log) \in Nat
    <3>1. commitLog[PG] \in Int /\ commitLog[PG] <= Len(offsetLog[PG])
      BY <1>1, <2>5
    <3>. QED
      BY <3>1, EndBounds, Offsets DEF Committed, IInv
  <2>. QED
    BY <2>4, <2>6, <2>7, <2>8
<1>. QED
  BY <1>1, <1>2, <1>3

LEMMA ReplayableStep ==
  ASSUME IInv, Replayable, [Next]_vars, PG \in Queries
  PROVE  Replayable'
<1>. SUFFICES ASSUME (landed[PG] = Pending(PG))', NEW i \in EventIds,
                     BatchCopies(i, Pending(PG))' # {}
              PROVE  /\ records'[i].updated = Least(BatchCopies(i, Pending(PG)))'
                     /\ records'[i].processed_at = Pending(PG)'
  BY DEF Replayable
<1>1. CASE /\ UpsertRecords
           /\ InFlight(PG)
           /\ UNCHANGED <<log, checkpoint>>
  <2>1. /\ Pending(PG)' = Pending(PG)
        /\ BatchCopies(i, Pending(PG))' = BatchCopies(i, Pending(PG))
    BY <1>1 DEF checkpoint, Pending, BatchCopies, Batch, End
  <2>2. records'[i] =
          [inserted     |-> IF records[i] = NoRow
                            THEN Least(BatchCopies(i, Pending(PG)))
                            ELSE records[i].inserted,
           updated      |-> Least(BatchCopies(i, Pending(PG))),
           processed_at |-> Pending(PG)]
    BY <1>1, <2>1, UpsertedRow
  <2>. QED
    BY <2>1, <2>2 DEF Least
<1>2. CASE /\ UNCHANGED <<records, commitLog>>
           /\ landed'[PG] = landed[PG]
  <2>1. Pending(PG)' = Pending(PG) /\ landed[PG] = Pending(PG)
    BY <1>2 DEF Pending
  <2>2. PICK b \in Int : b = Pending(PG) /\ b <= Len(offsetLog[PG])
    BY <2>1, Offsets
  <2>3. BatchCopies(i, b)' = BatchCopies(i, b)
    BY <2>2, CopiesStable
  <2>4. BatchCopies(i, Pending(PG))' = BatchCopies(i, b)'
    BY <2>1, <2>2 DEF BatchCopies, Batch, End
  <2>5. BatchCopies(i, Pending(PG))' = BatchCopies(i, Pending(PG))
    BY <2>2, <2>3, <2>4
  <2>. QED
    BY <1>2, <2>1, <2>5 DEF Replayable, Least
<1>3. CASE /\ landed'[PG] = landed[PG]
           /\ UNCHANGED <<log, offsetLog, records>>
           /\ commitLog'[PG] \in {commitLog[PG], commitLog[PG] + 1}
  <2>1. commitLog'[PG] = commitLog[PG]
    BY <1>3, Offsets DEF Pending
  <2>2. /\ Pending(PG)' = Pending(PG)
        /\ BatchCopies(i, Pending(PG))' = BatchCopies(i, Pending(PG))
        /\ landed[PG] = Pending(PG)
    BY <1>3, <2>1 DEF Pending, BatchCopies, Batch, End
  <2>. QED
    BY <1>3, <2>2 DEF Replayable, Least
<1>. QED
  BY <1>1, <1>2, <1>3, ServingStepKinds

\* Without the postgres query the table stays as it is.
Untouched == landed[PG] = 0

TableInv == IF PG \in Queries THEN ServingInv ELSE Untouched

LEMMA UntouchedStep ==
  ASSUME IInv, [Next]_vars, PG \notin Queries
  PROVE  UNCHANGED <<landed[PG], records>>
<1>1. ASSUME NEW q \in Queries, Upserts(q)
      PROVE  landed'[PG] = landed[PG]
  <2>1. landed' = [landed EXCEPT ![q] = Pending(q)] /\ q # PG
    BY <1>1 DEF Upserts
  <2>2. PG \in TableQueries /\ landed \in [TableQueries -> Nat]
    BY DEF IInv, TypeOK, PG, TableQueries
  <2>. QED
    BY <2>1, <2>2
<1>2. CASE UpsertAggregates /\ "aggregates" \in Queries
  BY <1>1, <1>2 DEF UpsertAggregates
<1>3. CASE UpsertMetrics /\ "metrics" \in Queries
  BY <1>1, <1>3 DEF UpsertMetrics
<1>. QED
  BY <1>2, <1>3 DEF Next, RunBatch, Produce, Plan, WriteFiles, UpsertFails,
     Commit, Crash, Restart, PostgresDown, PostgresUp, tables, vars, PG

LEMMA TableInvStep == IInv /\ TableInv /\ [Next]_vars => TableInv'
<1>. SUFFICES ASSUME IInv, TableInv, [Next]_vars PROVE TableInv'
  OBVIOUS
<1>1. CASE PG \in Queries
  <2>1. ServingInv
    BY <1>1 DEF TableInv
  <2>2. ServingInv'
    BY <1>1, <2>1, BatchesHaveDataStep, RowsExactStep, ReplayableStep
       DEF ServingInv
  <2>. QED
    BY <1>1, <2>2 DEF TableInv
<1>2. CASE PG \notin Queries
  BY <1>2, UntouchedStep DEF TableInv, Untouched
<1>. QED
  BY <1>1, <1>2

LEMMA InitTableInv == Init => TableInv
<1>. SUFFICES ASSUME Init PROVE TableInv
  OBVIOUS
<1>1. landed[PG] = 0
  BY DEF Init, PG, TableQueries
<1>2. CASE PG \in Queries
  <2>1. offsetLog[PG] = <<>> /\ commitLog[PG] = 0
    BY <1>2 DEF Init
  <2>2. BatchesHaveData /\ Replayable
    BY <1>1, <2>1 DEF BatchesHaveData, Replayable, Pending
  <2>3. Visible(PG) = 0
    BY <1>1 DEF Visible, End
  <2>4. RowsExact
    <3>1. \A i \in EventIds : VisibleCopies(i) = {}
      BY <2>3 DEF VisibleCopies
    <3>. QED
      BY <3>1 DEF RowsExact, Init
  <2>. QED
    BY <1>2, <2>2, <2>4 DEF TableInv, ServingInv
<1>. QED
  BY <1>1, <1>2 DEF TableInv, Untouched

THEOREM TableInvariance == Spec => []TableInv
  BY InitTableInv, TableInvStep, Invariance, PTL DEF Spec

\* processed_records serves exactly the accepted events of the visible prefix,
\* whatever crashed and ran again (main.py:62-92, 233-237).
THEOREM ServedRecordsExactHolds == Spec => []ServedRecordsExact
<1>1. IInv /\ TableInv => ServedRecordsExact
  <2>1. PG \notin Queries => ServedRecordsExact
    BY DEF ServedRecordsExact, PG
  <2>. QED
    BY <2>1, RowsExactImplied DEF TableInv, ServingInv
<1>. QED
  BY <1>1, Invariance, TableInvariance, PTL

-----------------------------------------------------------------------------
(* The application implements the abstract serving table. *)

AbstractVars == <<log, Visible(PG), landed[PG], records>>

\* The abstract table judges events by the same rules.
LEMMA SameVerdict == \A e : Served!Accepted(e) <=> Accepted(e)
  BY Zenon DEF Served!Accepted, Served!IsValid, Served!And3, Served!Not3,
     Served!NullViolation, Served!JsonValid, Served!RangeViolation,
     Served!FormatViolation, Served!Or3, Served!ReadingViolation,
     Served!OutOfRange, Served!Sql, Accepted, IsValid, And3, Not3,
     NullViolation, JsonValid, RangeViolation, FormatViolation, Or3,
     ReadingViolation, OutOfRange, Sql

\* The first run of a batch is one step of the table.
LEMMA FirstRun ==
  ASSUME IInv, ServingInv, PG \in Queries, UpsertRecords, InFlight(PG),
         landed'[PG] = Pending(PG), landed[PG] # Pending(PG),
         UNCHANGED <<log, checkpoint>>
  PROVE  \E hi \in (Visible(PG) + 1) .. Len(log) : Served!Apply(hi)
<1>. DEFINE hi == End(PG, Pending(PG))
<1>1. /\ Visible(PG)' = hi
      /\ landed[PG] + 1 = Pending(PG)
      /\ Visible(PG) = End(PG, Pending(PG) - 1)
  BY UpsertVisible
<1>2. /\ Pending(PG) \in 1 .. Len(offsetLog[PG])
      /\ Pending(PG) \in Int /\ Pending(PG) <= Len(offsetLog[PG])
  BY PendingPlanned, Offsets DEF IInv
<1>3. hi \in 0 .. Len(log) /\ Visible(PG) < hi
  <2>1. hi \in 0 .. Len(log)
    BY <1>2, EndBounds DEF IInv
  <2>2. Visible(PG) < hi
    BY <1>1, <1>2 DEF ServingInv, BatchesHaveData
  <2>. QED
    BY <2>1, <2>2
<1>4. hi \in (Visible(PG) + 1) .. Len(log)
  BY <1>3, Offsets
<1>5. ASSUME NEW i \in EventIds
      PROVE  Served!Copies(i, Visible(PG), hi) = BatchCopies(i, Pending(PG))
  BY <1>1, SameVerdict DEF Served!Copies, BatchCopies, Batch
<1>6. records' =
        [i \in EventIds |->
           LET copies == Served!Copies(i, Visible(PG), hi) IN
           IF copies = {} THEN records[i]
           ELSE [inserted     |-> IF records[i] = Served!NoRow
                                  THEN Served!First(copies)
                                  ELSE records[i].inserted,
                 updated      |-> Served!First(copies),
                 processed_at |-> landed[PG] + 1]]
  <2>1. \A i \in EventIds :
          LET copies == BatchCopies(i, Pending(PG)) IN
          records'[i] =
            IF copies = {} THEN records[i]
            ELSE [inserted     |-> IF records[i] = NoRow THEN Least(copies)
                                   ELSE records[i].inserted,
                  updated      |-> Least(copies),
                  processed_at |-> Pending(PG)]
    BY UpsertedRow
  <2>2. records' = [i \in EventIds |-> records'[i]]
    BY DEF UpsertRecords
  <2>3. \A copies : Served!First(copies) = Least(copies)
    BY DEF Served!First, Least
  <2>4. Served!NoRow = NoRow
    BY DEF Served!NoRow, NoRow
  <2>. HIDE DEF hi
  <2>5. \A i \in EventIds :
          LET copies == Served!Copies(i, Visible(PG), hi) IN
          records'[i] =
            IF copies = {} THEN records[i]
            ELSE [inserted     |-> IF records[i] = Served!NoRow
                                   THEN Served!First(copies)
                                   ELSE records[i].inserted,
                  updated      |-> Served!First(copies),
                  processed_at |-> landed[PG] + 1]
    BY <1>1, <1>5, <2>1, <2>3, <2>4
  <2>. QED
    BY <2>2, <2>5, Zenon
<1>. QED
  BY <1>1, <1>4, <1>6 DEF Served!Apply, PG

\* A re-run writes what is there already.
LEMMA ReRun ==
  ASSUME IInv, ServingInv, PG \in Queries, UpsertRecords, InFlight(PG),
         landed'[PG] = Pending(PG), landed[PG] = Pending(PG),
         UNCHANGED <<log, checkpoint>>
  PROVE  UNCHANGED AbstractVars
<1>1. ASSUME NEW i \in EventIds
      PROVE  records'[i] = records[i]
  <2>. DEFINE copies == BatchCopies(i, Pending(PG))
  <2>1. records'[i] =
          IF copies = {} THEN records[i]
          ELSE [inserted     |-> IF records[i] = NoRow THEN Least(copies)
                                 ELSE records[i].inserted,
                updated      |-> Least(copies),
                processed_at |-> Pending(PG)]
    BY UpsertedRow
  <2>2. records[i] \in Row
    BY DEF IInv, TypeOK
  <2>3. ASSUME copies # {}
        PROVE  /\ records[i] # NoRow
               /\ records[i].updated = Least(copies)
               /\ records[i].processed_at = Pending(PG)
    <3>1. VisibleCopies(i) # {}
      BY <2>3, UpsertVisible
    <3>2. records[i].updated \in Nat \ {0}
      BY <3>1, VisibleCopiesType DEF ServingInv, RowsExact
    <3>3. records[i] # NoRow
      BY <3>2 DEF NoRow
    <3>. QED
      BY <2>3, <3>3 DEF ServingInv, Replayable
  <2>. HIDE DEF copies
  <2>4. CASE copies = {}
    BY <2>1, <2>4
  <2>5. CASE copies # {}
    <3>1. records'[i] = [inserted     |-> records[i].inserted,
                         updated      |-> records[i].updated,
                         processed_at |-> records[i].processed_at]
      BY <2>1, <2>3, <2>5
    <3>. QED
      BY <2>2, <3>1 DEF Row
  <2>. QED
    BY <2>4, <2>5
<1>2. records' = records
  <2>1. records \in [EventIds -> Row]
    BY DEF IInv, TypeOK
  <2>2. records' = [i \in EventIds |-> records'[i]]
    BY DEF UpsertRecords
  <2>. QED
    BY <1>1, <2>1, <2>2
<1>3. Visible(PG)' = Visible(PG)
  BY UpsertVisible
<1>. QED
  BY <1>2, <1>3 DEF AbstractVars

LEMMA ServedStep ==
  ASSUME IInv, TableInv, [Next]_vars
  PROVE  [Served!Next]_AbstractVars
<1>1. CASE PG \in Queries
  <2>1. CASE landed'[PG] = landed[PG] /\ UNCHANGED records
    <3>1. Visible(PG)' = Visible(PG)
      BY <1>1, <2>1, VisibleStable
    <3>2. log' = log \/ \E e \in Events : log' = Append(log, e)
      BY DEF Next, RunBatch, Produce, Plan, WriteFiles, UpsertRecords,
         UpsertAggregates, UpsertMetrics, Upserts, UpsertFails, Commit, Crash,
         Restart, PostgresDown, PostgresUp, environment, vars
    <3>. QED
      BY <2>1, <3>1, <3>2 DEF AbstractVars, Served!Next, Served!Produce, PG
  <2>2. CASE /\ UpsertRecords
             /\ InFlight(PG)
             /\ landed'[PG] = Pending(PG)
             /\ UNCHANGED <<log, checkpoint>>
    BY <1>1, <2>2, FirstRun, ReRun DEF TableInv, Served!Next, PG
  <2>. QED
    BY <1>1, <2>1, <2>2, ServingStepKinds
<1>2. CASE PG \notin Queries
  <2>1. UNCHANGED <<landed[PG], records>> /\ landed[PG] = 0
    BY <1>2, UntouchedStep DEF TableInv, Untouched
  <2>2. Visible(PG)' = Visible(PG)
    BY <2>1 DEF Visible, End
  <2>3. log' = log \/ \E e \in Events : log' = Append(log, e)
    BY DEF Next, RunBatch, Produce, Plan, WriteFiles, UpsertRecords,
       UpsertAggregates, UpsertMetrics, Upserts, UpsertFails, Commit, Crash,
       Restart, PostgresDown, PostgresUp, environment, vars
  <2>. QED
    BY <2>1, <2>2, <2>3 DEF AbstractVars, Served!Next, Served!Produce, PG
<1>. QED
  BY <1>1, <1>2

LEMMA ServedInit == Init => Served!Init
<1>. SUFFICES ASSUME Init PROVE Served!Init
  OBVIOUS
<1>1. landed[PG] = 0
  BY DEF Init, PG, TableQueries
<1>2. Visible(PG) = 0
  BY <1>1 DEF Visible, End
<1>. QED
  BY <1>1, <1>2 DEF Init, Served!Init, Served!NoRow, NoRow, PG

\* Seen by a reader of processed_records, every batch happens once and whole:
\* the application implements ServedRecords (main.py:62-92, 233-237).
THEOREM Refinement == Spec => ServedSpec
<1>1. IInv /\ TableInv /\ [Next]_vars => [Served!Next]_AbstractVars
  BY ServedStep
<1>. QED
  BY <1>1, ServedInit, Invariance, TableInvariance, PTL
     DEF Spec, ServedSpec, Served!Spec, AbstractVars, PG
=============================================================================
