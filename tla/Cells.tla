-------------------------------- MODULE Cells --------------------------------
(* A row of a table is a record whose missing cells are Absent.             *)
EXTENDS Integers

CONSTANT Absent

\* A missing cell is told from every number.
ASSUME AbsentAssumption == Absent \notin Int

Has(row, cells) == \A c \in cells : row[c] # Absent
=============================================================================
