------------------------------ MODULE MCTenancy ------------------------------
(***************************************************************************)
(* Tenancy on a small instance, for TLC.                                   *)
(***************************************************************************)
EXTENDS Tenancy, TLC

Sets == Dbs \X Ids

Symmetry == Permutations(Reqs)
=============================================================================
