------------------------------ MODULE MCDevAdm ------------------------------
(***************************************************************************)
(* DevAdm on small instances, for TLC.                                     *)
(***************************************************************************)
EXTENDS DevAdmProperties, TLC

\* Requests have no order and no identity of their own.
Symmetry == Permutations(Reqs)
=============================================================================
