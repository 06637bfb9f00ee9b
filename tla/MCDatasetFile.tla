--------------------------- MODULE MCDatasetFile ---------------------------
(* Small instances of DatasetFile: API processes are interchangeable. *)
EXTENDS DatasetFile, TLC

MCSymmetry == Permutations(Starters)
=============================================================================
