---------------------------- MODULE MCMigrations ----------------------------
(* Instances of Migrations: databases of the first release and new ones. *)
EXTENDS Migrations, TLC

CONSTANTS j1, j2, v1, v2, b1, b2

MCLegacy == {"legacy"}
MCFresh  == {"fresh"}
MCBoth   == {"legacy", "fresh"}

Symmetry == Permutations(Boots) \cup Permutations(Jobs)
=============================================================================
