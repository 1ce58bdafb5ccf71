---------------------------- MODULE TBankClaims ----------------------------
(***************************************************************************)
(* What a comment of the repository says of T-Bank payments and the code   *)
(* does not keep: a run refutes it.                                        *)
(***************************************************************************)
EXTENDS TBankPayments

(***************************************************************************)
(* UNPAID_FINAL: "there was no payment and there will be none": a payment  *)
(* closed with one of these statuses has no money of the buyer.            *)
(***************************************************************************)
UnpaidFinalHasNoMoney ==
  \A p \in Payments :
    row[p].st \in UnpaidClosed /\ row[p].prov \in FinalUnpaid => bank[p].money = "none"
============================================================================
