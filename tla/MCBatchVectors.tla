--------------------------- MODULE MCBatchVectors ---------------------------
(* BatchVectors with the symmetry of the machines. *)
EXTENDS BatchVectors, TLC

Symmetry == Permutations(Normals)

=============================================================================
