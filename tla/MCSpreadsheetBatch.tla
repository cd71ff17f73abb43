------------------------- MODULE MCSpreadsheetBatch -------------------------
(* Instances of SpreadsheetBatch for TLC. *)
EXTENDS SpreadsheetBatch, TLC

\* Titles are interchangeable.
Symmetry == Permutations(Titles)
=============================================================================
