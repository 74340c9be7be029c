----------------------------- MODULE StableSort -----------------------------
(* list.sort(key=...) and sorted(...) of rows by one of their fields:      *)
(* ascending, rows of equal keys in the order they came in.                *)
EXTENDS Integers, FiniteSets, Sequences

\* Row i comes before row j.
Sooner(rows, field, i, j) ==
  \/ rows[i][field] < rows[j][field]
  \/ rows[i][field] = rows[j][field] /\ i < j

\* The row that n rows come before.
RowAfter(rows, field, n) ==
  CHOOSE i \in DOMAIN rows : Cardinality({j \in DOMAIN rows : Sooner(rows, field, j, i)}) = n

Sorted(rows, field) == [n \in DOMAIN rows |-> rows[RowAfter(rows, field, n - 1)]]
=============================================================================
