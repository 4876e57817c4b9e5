----------------------------- MODULE MCDashboard -----------------------------
(***************************************************************************)
(* Small instances of the dashboard.                                       *)
(***************************************************************************)
EXTENDS Dashboard, TLC

CONSTANTS s1, s2, NONE

TwoSources == {s1, s2}

\* One field in common, and one that only s2 has.
SomeMetrics == (s1 :> {"f"}) @@ (s2 :> {"f", "g"})
=============================================================================
