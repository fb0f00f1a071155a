------------------------------ MODULE MCRouter ------------------------------
(* The mailboxes are interchangeable in Router.tla and no liveness is checked, *)
(* so states that differ only in the names of mailboxes count as one.          *)
EXTENDS Router, TLC

Symmetry == Permutations(Boxes)

=============================================================================
