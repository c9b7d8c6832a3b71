------------------------------ MODULE MCListing ------------------------------
(***************************************************************************)
(* Listing on a small instance, for TLC.                                   *)
(***************************************************************************)
EXTENDS Listing

\* No parameter, one that is refused, the first pages, a page size that is too
\* large, and a page whose skip does not fit a word.
MCParams == {Absent, Refused, 1, 2, 3, 6}
=============================================================================
