----------------------------- MODULE MCRecovery -----------------------------
(***************************************************************************)
(* Instances in which the checkpoint version may be incremented.           *)
(***************************************************************************)
EXTENDS MCStreaming, Recovery

\* An event, which may be sent again, and one whose clock is ahead: it closes
\* the window of the other.
ReplayedEvents == {Good(e1, s1, 1), Good(e3, s2, 4)}

\* All paths together, or all but that of the metrics, which is still at v9
\* where the others are at v11.
Paths == {Queries, Queries \ {"metrics"}}
=============================================================================
