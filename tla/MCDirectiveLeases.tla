------------------------- MODULE MCDirectiveLeases -------------------------
(* A root with a nested root: f1 is in the outer one only, f2 in both. *)
EXTENDS DirectiveLeasesProperties, TLC

CONSTANTS outer, inner, f1, f2

Symmetry == Permutations(Scan)
Nested == [r \in Root |-> IF r = outer THEN File ELSE {f2}]
=============================================================================
