---------------------------- MODULE MCDocumentEdit ----------------------------
(* Instances of DocumentEdit for TLC. *)
EXTENDS DocumentEdit, TLC

CONSTANTS r1, r2, a, b

Symmetry == Permutations({r1, r2}) \cup Permutations({a, b})
===============================================================================
