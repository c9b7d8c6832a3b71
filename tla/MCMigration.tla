----------------------------- MODULE MCMigration -----------------------------
(***************************************************************************)
(* Migration on a small instance, for TLC.                                 *)
(***************************************************************************)
EXTENDS Migration, TLC

Symmetry == Permutations(Migrators) \cup Permutations(Places) \cup Permutations(Statuses)
=============================================================================
