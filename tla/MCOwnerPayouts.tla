--------------------------- MODULE MCOwnerPayouts ---------------------------
(***************************************************************************)
(* OwnerPayouts on small instances.                                        *)
(***************************************************************************)
EXTENDS OwnerPayouts, TLC

\* Requests are alike.
Symmetry == Permutations(Requests)
=============================================================================
