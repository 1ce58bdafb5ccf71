-------------------------- MODULE TBankSettlement --------------------------
(***************************************************************************)
(* TBankPayments implements Settlement.                                    *)
(***************************************************************************)
EXTENDS TBankPayments

BookOf(r) == CASE r.st = "succeeded" -> "counted"
               [] r.st = "refund_requested" -> "returning"
               [] r.st = "refunded" -> "refunded"
               [] OTHER -> "unpaid"

Promise == INSTANCE Settlement WITH
             money <- [p \in Payments |-> bank[p].money],
             book <- [p \in Payments |-> BookOf(row[p])],
             order <- paidBy

(***************************************************************************)
(* Every run of the handlers, the bank and the buyer is a run of the       *)
(* settlement: no interleaving, lost answer or crash makes the books do    *)
(* what the money does not allow.                                          *)
(***************************************************************************)
BooksKeepThePromise == Promise!Spec
=============================================================================
