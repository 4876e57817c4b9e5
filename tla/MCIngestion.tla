----------------------------- MODULE MCIngestion -----------------------------
(***************************************************************************)
(* Small instances of the ingestion service.                               *)
(***************************************************************************)
EXTENDS Ingestion

CONSTANTS n1, n2, NONE

TwoNames == {n1, n2}
OneName == {n1}
=============================================================================
