-------------------------- MODULE MCMatchingWorker --------------------------
(* Instances of MatchingWorker. *)
EXTENDS MatchingWorker, TLC

CONSTANTS j1, j2, j3

Symmetry == Permutations(Jobs) \cup Permutations(Versions)

=============================================================================
