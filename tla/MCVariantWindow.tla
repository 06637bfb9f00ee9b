--------------------------- MODULE MCVariantWindow ---------------------------
(* Small instances of VariantWindow for TLC. *)
EXTENDS VariantWindow, TLC

CONSTANTS p1, v1, v2, v3, v4, v5, shape, other

\* v4 is a filter of another aggregate shape.
MCStructure == [v \in Variants |-> IF v = v4 THEN other ELSE shape]

Symmetry == Permutations(Variants \ {v4})
=============================================================================
