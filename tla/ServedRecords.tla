---------------------------- MODULE ServedRecords ----------------------------
(***************************************************************************)
(* What the serving table promises its readers, with no checkpoint, crash  *)
(* or re-run in sight: the events that pass the rules are upserted in the  *)
(* order of the log, in batches that take effect whole, each exactly once. *)
(* A row remembers which copies of its event it was inserted from and last *)
(* updated from, and the batch of the last update.                         *)
(***************************************************************************)
EXTENDS DataQuality, Sequences

CONSTANT Events

VARIABLES
  log,      \* the events sent so far
  applied,  \* how long a prefix of the log the table reflects
  batches,  \* in how many batches
  table     \* the table: the row of every event id

NoRow == [inserted |-> 0, updated |-> 0, processed_at |-> 0]

\* The copies of event i among the positions lo + 1 .. hi.
Copies(i, lo, hi) ==
  {p \in (lo + 1) .. hi : Accepted(log[p]) /\ log[p].event_id = i}

First(S) == CHOOSE p \in S : \A r \in S : p <= r

Init == /\ log = <<>>
        /\ applied = 0
        /\ batches = 0
        /\ table = [i \in EventIds |-> NoRow]

Produce == /\ \E e \in Events : log' = Append(log, e)
           /\ UNCHANGED <<applied, batches, table>>

\* One batch, up to offset hi.
Apply(hi) ==
  /\ applied' = hi
  /\ batches' = batches + 1
  /\ table' = [i \in EventIds |->
                 LET copies == Copies(i, applied, hi) IN
                 IF copies = {} THEN table[i]
                 ELSE [inserted     |-> IF table[i] = NoRow THEN First(copies)
                                        ELSE table[i].inserted,
                       updated      |-> First(copies),
                       processed_at |-> batches + 1]]
  /\ UNCHANGED log

Next == \/ Produce
        \/ \E hi \in (applied + 1) .. Len(log) : Apply(hi)

Spec == Init /\ [][Next]_<<log, applied, batches, table>>
=============================================================================
