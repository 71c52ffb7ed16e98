------------------------------ MODULE MCIngest ------------------------------
(***************************************************************************)
(* Instances of Ingest for TLC: two names; of the first a fact with two    *)
(* knowledge times, a revision and a restated payload.                     *)
(***************************************************************************)
EXTENDS Ingest, TLC

CONSTANTS n1, n2, f, g, v1, v2, loop, backfill, reader1

Row(fact, kt, rev, val) == [fact |-> fact, kt |-> kt, rev |-> rev, val |-> val]

Rows == {Row(f, 1, 1, v1), Row(f, 2, 0, v1), Row(f, 2, 0, v2), Row(g, 2, 0, v1)}
RecentRows == {o \in Rows : o.kt = 2}

Names == <<n1, n2>>
NameOf(fact) == IF fact = f THEN n1 ELSE n2
=============================================================================
