----------------------------- MODULE MCRegistry -----------------------------
(***************************************************************************)
(* Two registrations of one name, and two commands beside them that name   *)
(* either row.                                                             *)
(***************************************************************************)
EXTENDS SourceRegistry, TLC

CONSTANTS c1, c2, k1, k2, n1, NULL

MCCreates == {c1, c2}
MCCommands == {k1, k2}
MCNames == {n1}
MCNameOf == [c \in MCCreates |-> n1]

Symmetry == Permutations({c1, c2}) \cup Permutations({k1, k2})
=============================================================================
