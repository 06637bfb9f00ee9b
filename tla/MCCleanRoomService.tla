------------------------- MODULE MCCleanRoomService -------------------------
(* Small instances of CleanRoomService for TLC. *)
EXTENDS CleanRoomService, FiniteSetsExt, TLC

CONSTANTS r1, r2, r3, p1, p2, v1, v2, shape

MCTotal == [S \in SUBSET Releases |-> MapThenSumSet(LAMBDA f : f[2], S)]

\* All variants filter the same aggregate shape.
MCStructure == [v \in Variants |-> shape]

Symmetry == Permutations(Requests) \cup Permutations(Principals)
            \cup Permutations(Variants)
=============================================================================
