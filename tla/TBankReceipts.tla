--------------------------- MODULE TBankReceipts ---------------------------
(***************************************************************************)
(* TBankPayments and ClosingReceipts side by side, on the same rows.       *)
(* apply_bank_state and the refund handlers call into tbank_receipts.py    *)
(* in the transaction that writes the payment, and everybody who writes a  *)
(* receipt waits for the lock of its row.  Every payment has the snapshot  *)
(* of its prepayment receipt (tbank_receipts_enabled).                     *)
(*                                                                         *)
(* ClosingReceipts has its own, smaller idea of the money: what it calls   *)
(* pay and part is read off the rows here, and its claim to know all that  *)
(* can happen to them is a property of this module.                        *)
(***************************************************************************)
EXTENDS TBankPayments

CONSTANTS Senders, MaxTries, MaxOrders, Spoilers   \* as in ClosingReceipts

VARIABLES docs, cr, tries, sender, late, accepted, printed, notices,
          ordered, refused, told, checked, unheard

receiptVars == <<docs, cr, tries, sender, late, accepted, printed, notices,
                 ordered, refused, told, checked, unheard>>
composedVars == <<vars, receiptVars>>

PayOf(r) == CASE r.st = "succeeded" -> "paid"
              [] r.st = "refund_requested" /\ r.key # NoKey -> "ordered"
              [] r.st = "refund_requested" /\ r.key = NoKey -> "returning"
              [] r.st = "refunded" -> "refunded"
              [] OTHER -> "open"
PartOf(r) == r.st = "succeeded" /\ r.prov = "PARTIAL_REFUNDED"

pay == [p \in Payments |-> PayOf(row[p])]
part == [p \in Payments |-> PartOf(row[p])]

Receipts == INSTANCE ClosingReceipts WITH MaxAttempts <- MaxTries, Surprises <- Spoilers

\* "extra": a link of the application may be paid after the documents are issued.
ASSUME ReceiptsAssumption == /\ MaxTries \in Nat \ {0} /\ MaxOrders \in Nat
                             /\ IsFiniteSet(Senders)
                             /\ Spoilers \subseteq Receipts!SurpriseKinds
                             /\ "extra" \in Spoilers

(***************************************************************************)
(* What apply_bank_state and refund_failed do about the receipt of p, in   *)
(* the transaction that takes its row from old to r.                       *)
(***************************************************************************)
GoesBackLater(old, r) == old.st = "succeeded" /\ r.st = "refund_requested"    \* mutant
GoesBack(old, r) == old.st = "succeeded" /\ r.st \in {"refund_requested", "refunded"}
GoesInPart(old, r) == PartOf(r) /\ ~PartOf(old)

AlertsIfSent(p) == /\ checked' = checked \union {q \in {p} : cr[q] = "sent"}  \* mutant
                   /\ UNCHANGED <<docs, cr, tries, sender, late, accepted, printed,
                                  notices, ordered, refused, told, unheard>>
AlertsOf(p) == /\ Receipts!Alerts(p)
               /\ UNCHANGED <<docs, cr, tries, sender, late, accepted, printed, notices,
                              ordered, refused, told, unheard>>

GivesUpOn(p) == /\ IF cr[p] \in {"due", "failed"} THEN Receipts!GivesUp(p)
                                                  ELSE UNCHANGED <<cr, tries>>
                /\ UNCHANGED <<docs, sender, late, accepted, printed, notices,
                               ordered, refused, told, checked, unheard>>

\* mark_closing_receipt_due locks all payments of the application.
AllUnlockedFor(w) == \A p \in Payments, v \in Workers \ {w} : ~HoldsLock(v, p)

MarksDueFor(w) ==
  /\ IF docs = "issued"
     THEN /\ AllUnlockedFor(w)
          /\ Receipts!MarksDue({p \in Payments : row'[p].st = "succeeded"},
                               [p \in Payments |-> PartOf(row'[p])])
     ELSE UNCHANGED <<cr, tries, told>>
  /\ UNCHANGED <<docs, sender, late, accepted, printed, notices,
                 ordered, refused, checked, unheard>>

(***************************************************************************)
(* The payment handlers.  In a refund of ours the alert comes from the     *)
(* handler, once the bank has answered; a Cancel that told us nothing is   *)
(* remembered in unheard.                                                  *)
(***************************************************************************)
InRefund(w) == worker[w].at \in {"refund", "refundask"}

UnheardOf(p) == /\ unheard' = unheard \union {p}
                /\ UNCHANGED <<docs, cr, tries, sender, late, accepted, printed, notices,
                               ordered, refused, told, checked>>

RefundStep(w) ==
  LET p == worker[w].pay  r == row'[p] IN
  \/ RefundAnswered(w) /\ AlertsOf(p)
  \/ RefundUnanswered(w) /\ UnheardOf(p)
  \/ RefundAsksState(w) /\ IF GaveRefundUp(worker[w].draft, r) THEN MarksDueFor(w)
                                                               ELSE UnheardOf(p)
  \/ (RefundIsRefused(w) \/ Dies(w)) /\ UNCHANGED receiptVars

OtherStep(w) ==
  /\ Works(w)
  /\ \/ \E p \in Payments : GoesBack(row[p], row'[p]) /\ AlertsOf(p)
     \/ \E p \in Payments : GoesInPart(row[p], row'[p]) /\ GivesUpOn(p)
     \/ (\E p \in Payments : GaveRefundUp(row[p], row'[p])) /\ MarksDueFor(w)
     \/ /\ \A p \in Payments : ~(\/ GoesBack(row[p], row'[p]) \/ GoesInPart(row[p], row'[p])
                                 \/ GaveRefundUp(row[p], row'[p]))
        /\ UNCHANGED receiptVars

PaymentStep ==
  \/ \E w \in Workers : IF InRefund(w) THEN RefundStep(w) ELSE OtherStep(w)
  \/ \E p \in Payments : World(p) /\ UNCHANGED receiptVars
  \/ \E p \in Payments, s \in Announced :
       NotificationIgnored(p, s) /\ UNCHANGED receiptVars

(***************************************************************************)
(* The receipts: an UPDATE of a row waits for whoever has it locked, and   *)
(* the documents are issued for an application that is paid.               *)
(***************************************************************************)
WaitsForLocks == \A p \in Payments : cr'[p] # cr[p] \/ tries'[p] # tries[p] => Unlocked(p)

ReceiptStep ==
  /\ UNCHANGED vars
  /\ \/ /\ paidBy # NoPayment /\ \A p \in Payments : Unlocked(p)
        /\ Receipts!IssueDocuments
     \/ Receipts!CancelDisputed
     \/ \E s \in Senders : Receipts!Sends(s) /\ WaitsForLocks
     \/ \E p \in Payments :
          (Receipts!ExpireStale(p) \/ Receipts!Kassa(p) \/ Receipts!Admin(p)) /\ WaitsForLocks

ComposedInit == Init /\ Receipts!Init
ComposedNext == PaymentStep \/ ReceiptStep
ComposedSpec == ComposedInit /\ [][ComposedNext]_composedVars

(***************************************************************************)
(* The receipts see of the money all that can happen to it: the payments   *)
(* as they are do nothing that ClosingReceipts does not expect, with the   *)
(* alert, the queue and the end of retries in the same transaction.        *)
(***************************************************************************)
ReceiptsKnowTheMoney == Receipts!Spec

(***************************************************************************)
(* From the bank to the accountant.  When all notifications about p are    *)
(* answered and its money is back, a receipt of full payment printed by    *)
(* the automation has been reported to the admin, or the Cancel was ours   *)
(* and told us nothing: whatever the buyer, the cabinet, the senders and   *)
(* the notifications did in between.                                       *)
(***************************************************************************)
ReturnedMoneyIsReported ==
  \A p \in Payments :
    Quiet(p) /\ bank[p].st = "REFUNDED" /\ printed[p] > 0 /\ ordered[p] = 0
      => p \in checked \union unheard
=============================================================================
