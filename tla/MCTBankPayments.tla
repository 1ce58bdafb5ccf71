-------------------------- MODULE MCTBankPayments --------------------------
(***************************************************************************)
(* TBankPayments on small instances.                                       *)
(***************************************************************************)
EXTENDS TBankSettlement, TLC

\* Workers are alike, and so are payments that are all of a real terminal.
Symmetry == Permutations(Workers) \union Permutations(Payments)
=============================================================================
