----------------------------- MODULE SourceTable -----------------------------
(***************************************************************************)
(* What the control plane promises of the table of sources, whoever calls  *)
(* it at the same time: a name has at most one source, a command changes   *)
(* the status of a source that exists and nothing else, and a source is    *)
(* withdrawn only while its registration has not been confirmed.           *)
(***************************************************************************)
CONSTANTS Names, Absent

Statuses == {"active", "paused", "stopped"}

VARIABLES table,       \* the status of the source of each name, if it has one
          confirmed    \* the names whose registration was answered with success

tableVars == <<table, confirmed>>

TableTypeOK == /\ table \in [Names -> Statuses \cup {Absent}]
               /\ confirmed \subseteq {n \in Names : table[n] # Absent}

TableInit == /\ table = [n \in Names |-> Absent]
             /\ confirmed = {}

Register(n) == /\ table[n] = Absent
               /\ table' = [table EXCEPT ![n] = "active"]
               /\ UNCHANGED confirmed

Confirm(n) == /\ table[n] # Absent
              /\ confirmed' = confirmed \cup {n}
              /\ UNCHANGED table

\* The compensation of a registration whose topic could not be created.
Withdraw(n) == /\ table[n] # Absent
               /\ n \notin confirmed
               /\ table' = [table EXCEPT ![n] = Absent]
               /\ UNCHANGED confirmed

SetStatus(n, s) == /\ table[n] # Absent
                   /\ table' = [table EXCEPT ![n] = s]
                   /\ UNCHANGED confirmed

TableNext == \E n \in Names : \/ Register(n)
                              \/ Confirm(n)
                              \/ Withdraw(n)
                              \/ \E s \in Statuses : SetStatus(n, s)

TableSpec == TableInit /\ [][TableNext]_tableVars
=============================================================================
