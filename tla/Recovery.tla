------------------------------ MODULE Recovery ------------------------------
(***************************************************************************)
(* The recovery procedure for a damaged checkpoint: the operator           *)
(* increments the version in the checkpoint paths of main.py and starts    *)
(* the driver again (docs/OPERATIONS.md:36, docs/RELIABILITY.md:12).  Every *)
(* query begins again at the earliest offsets with empty state; the files  *)
(* and the tables stay.                                                    *)
(***************************************************************************)
EXTENDS StreamingProperties

CONSTANTS
  Renewals,    \* the sets of queries whose paths the operator may increment
  MaxVersions  \* bound on the versions of a path

ASSUME RenewalsAssumption == Renewals \subseteq SUBSET Queries
ASSUME VersionsAssumption == MaxVersions \in Nat

\* Mutation: the new version starts at the latest offsets.
BumpToLatest(S) ==
  /\ app = "down"
  /\ \A q \in S : version[q] < MaxVersions
  /\ version' = [q \in Queries |-> IF q \in S THEN version[q] + 1 ELSE version[q]]
  /\ offsetLog' = [q \in Queries |-> IF q \in S THEN <<Len(log)>> ELSE offsetLog[q]]
  /\ commitLog' = [q \in Queries |-> IF q \in S THEN 1 ELSE commitLog[q]]
  /\ seen' = [q \in DedupQueries |-> IF q \in S THEN {} ELSE seen[q]]
  /\ windowCount' = [g \in Groups |-> IF "aggregates" \in S THEN 0 ELSE windowCount[g]]
  /\ metricState' = [g \in Groups |-> IF "metrics" \in S THEN NoTally ELSE metricState[g]]
  /\ landed' = [q \in TableQueries |-> IF q \in S THEN 1 ELSE landed[q]]
  /\ UNCHANGED <<environment, driver, files, records, aggregates, metrics>>

\* Each query has a path of its own (the metrics are at v9, the others at
\* v11).  A query whose path is incremented keeps nothing of its checkpoint.
BumpCheckpoint(S) ==
  /\ app = "down"
  /\ \A q \in S : version[q] < MaxVersions
  /\ version' = [q \in Queries |-> IF q \in S THEN version[q] + 1 ELSE version[q]]
  /\ offsetLog' = [q \in Queries |-> IF q \in S THEN <<>> ELSE offsetLog[q]]
  /\ commitLog' = [q \in Queries |-> IF q \in S THEN 0 ELSE commitLog[q]]
  /\ seen' = [q \in DedupQueries |-> IF q \in S THEN {} ELSE seen[q]]
  /\ windowCount' = [g \in Groups |-> IF "aggregates" \in S THEN 0 ELSE windowCount[g]]
  /\ metricState' = [g \in Groups |-> IF "metrics" \in S THEN NoTally ELSE metricState[g]]
  /\ landed' = [q \in TableQueries |-> IF q \in S THEN 0 ELSE landed[q]]
  /\ UNCHANGED <<environment, driver, files, records, aggregates, metrics>>

RecoveryNext == Next \/ \E S \in Renewals : BumpCheckpoint(S)

RecoverySpec == Init /\ [][RecoveryNext]_vars

-----------------------------------------------------------------------------
(* Properties. *)

\* The raw files repeat no event, although a new version reads all of them
\* again: a batch number the manifest has is not written twice
\* (main.py:175-181).
NoEventTwice ==
  \A b, c \in 1 .. Len(files["raw"]) :
    files["raw"][b] \cap files["raw"][c] # {} => b = c

\* A new version serves what the log says, over the rows the versions before it
\* left.  Every row goes back to the first copy of its event in the whole log,
\* whichever version inserted it; and an event of which the version now has
\* read a copy has its row, with the readings of a copy this version has read:
\* a replay may take them back to an earlier copy (main.py:62-92, 233-237).
ServedAcrossVersions ==
  "postgres" \in Queries =>
    \A i \in EventIds :
      LET copies(n) == {p \in 1 .. n : Accepted(log[p]) /\ log[p].event_id = i}
          known == copies(Len(log))
          replayed == copies(Visible("postgres"))
      IN /\ records[i] # NoRow => /\ records[i].inserted \in known
                                 /\ \A p \in known : records[i].inserted <= p
                                 /\ records[i].updated \in known
         /\ replayed # {} => /\ records[i] # NoRow
                             /\ records[i].updated \in replayed

\* What the recovery procedure costs.  The manifest has every batch that is
\* committed: its first k batches are those of the versions before, the others
\* the batches of those numbers of the version now.  So an event that is
\* committed and in no file is in one of the first k batches of the version
\* now, whose numbers the file sink skipped.  It arrived after every event of
\* the version before when there was one (with more, their own gaps stay); and
\* what is in its files comes again in the first batch, not in a later one
\* (main.py:178).
LostByNumberOnly ==
  "raw" \in Queries =>
    /\ commitLog["raw"] <= Len(files["raw"])
    /\ \E k \in 0 .. Len(files["raw"]) :
         LET kept == UNION {files["raw"][b] : b \in 1 .. k} IN
         /\ version["raw"] = 1 => k = 0
         /\ version["raw"] = 2 => \E m \in 0 .. Len(log) : kept = 1 .. m
         /\ offsetLog["raw"] # <<>> => kept \subseteq Batch("raw", 1)
         /\ \A b \in k + 1 .. Len(files["raw"]) :
              b <= Len(offsetLog["raw"]) /\ files["raw"][b] = Batch("raw", b)
=============================================================================
