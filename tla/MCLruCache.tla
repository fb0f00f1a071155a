----------------------------- MODULE MCLruCache -----------------------------
(* LruCache with the symmetry of keys and of addresses. *)
EXTENDS LruCache, TLC

Symmetry == Permutations(Keys) \cup Permutations(Records)

=============================================================================
