-------------------------- MODULE ClosingReceipts --------------------------
(***************************************************************************)
(* The closing receipt of an application (src/app/services/                *)
(* tbank_receipts.py): when the documents are issued, one paid payment of  *)
(* the application gets a receipt of full payment.  SendClosingReceipt has *)
(* no idempotency key: each request the bank accepts may print one more    *)
(* receipt, so that everything turns on who may send, and when again.      *)
(*                                                                         *)
(* Payments are those of one application that carry the snapshot of their  *)
(* prepayment receipt and a PaymentId.  What the bank says of their money  *)
(* is reduced to what the receipt depends on (TBankPayments has the rest). *)
(***************************************************************************)
EXTENDS Integers, FiniteSets

CONSTANTS Payments,
          Senders,      \* requests, background tasks and cron runs that send
          MaxAttempts,  \* tbank_closing_receipt_max_attempts
          MaxOrders,    \* bound: resends ordered by the admin, of one payment
          Surprises     \* what may happen besides

SurpriseKinds ==
  {"late",        \* the bank accepts a request after the sender's timeout
   "slow",        \* a sender outlives SENDING_STALE_AFTER
   "careless",    \* the admin does not look into the bank's cabinet first
   "unreadable",  \* a RECEIPT notification that does not tell which receipt
   "extra"}       \* a link of the application is paid after the documents

ASSUME MaxAttemptsAssumption == MaxAttempts \in Nat \ {0}
ASSUME MaxOrdersAssumption == MaxOrders \in Nat
ASSUME SendersAssumption == IsFiniteSet(Senders)
ASSUME SurprisesAssumption == Surprises \subseteq SurpriseKinds

VARIABLES docs,      \* documents: in review, issued, or the application cancelled
          pay,       \* pay[p]: status of payment p, see PayStatus
          part,      \* part[p]: provider_status is PARTIAL_REFUNDED
          cr,        \* cr[p]: closing_receipt_status
          tries,     \* tries[p]: closing_receipt_attempts
          sender,    \* sender[s]: the call of send_closing_receipt that s is in
          late,      \* late[p]: requests the bank has and the sender gave up
          accepted,  \* accepted[p]: receipts the bank has passed to the kassa
          printed,   \* printed[p]: receipts of full payment the buyer has
          notices,   \* notices[p]: RECEIPT notifications of a failed receipt under way
          \* history
          ordered,   \* ordered[p]: resends the admin has ordered
          refused,   \* refused[p]: refusals since the last order, up to ManyRefusals
          told,      \* payments whose receipt the admin was told to see to and has not yet
          checked,   \* payments whose refund receipt the admin was told to check
          unheard    \* payments with a refund whose Cancel told us nothing

bankVars == <<late, accepted, printed, notices>>
vars == <<docs, pay, part, cr, tries, sender, late, accepted, printed, notices,
          ordered, refused, told, checked, unheard>>

(***************************************************************************)
(* "ordered": REFUND_REQUESTED by us, with a key; "returning": the same    *)
(* without one, begun in the cabinet.                                      *)
(***************************************************************************)
PayStatus == {"open", "paid", "ordered", "returning", "refunded"}
ReceiptStatus == {"none", "due", "sending", "sent", "failed", "unknown"}
Answers == {"accepted", "refused", "not_sent", "lost"}

ManyRefusals == MaxAttempts + 1

Idle == [at |-> "idle"]
Sending == [at: {"claimed"} \union Answers, p: Payments, tries: 0..MaxAttempts]

TypeOK ==
  /\ docs \in {"review", "issued", "cancelled"}
  /\ pay \in [Payments -> PayStatus] /\ part \in [Payments -> BOOLEAN]
  /\ cr \in [Payments -> ReceiptStatus] /\ tries \in [Payments -> 0..MaxAttempts]
  /\ sender \in [Senders -> {Idle} \union Sending]
  /\ late \in [Payments -> Nat] /\ accepted \in [Payments -> Nat]
  /\ printed \in [Payments -> Nat] /\ notices \in [Payments -> Nat]
  /\ ordered \in [Payments -> 0..MaxOrders] /\ refused \in [Payments -> 0..ManyRefusals]
  /\ told \subseteq Payments /\ checked \subseteq Payments
  /\ unheard \subseteq Payments

Zero == [p \in Payments |-> 0]

Init ==
  /\ docs = "review"
  /\ pay = [p \in Payments |-> "open"] /\ part = [p \in Payments |-> FALSE]
  /\ cr = [p \in Payments |-> "none"] /\ tries = Zero
  /\ sender = [s \in Senders |-> Idle]
  /\ late = Zero /\ accepted = Zero /\ printed = Zero /\ notices = Zero
  /\ ordered = Zero /\ refused = Zero
  /\ told = {} /\ checked = {} /\ unheard = {}

LiveOn(p) == {s \in Senders : sender[s] # Idle /\ sender[s].p = p}
AtBank(p) == late[p] + accepted[p] + printed[p]

Closable(p) == pay[p] = "paid" /\ ~part[p]

(* Mutants: retries without an end, and no retries. *)
RetryForever(p) == cr[p] \in {"due", "failed"}
RetryDueOnly(p) == cr[p] = "due"
RetryAllowed(p) == cr[p] = "due" \/ (cr[p] = "failed" /\ tries[p] < MaxAttempts)

(***************************************************************************)
(* mark_closing_receipt_due, in the transaction that issues the documents  *)
(* or learns that a refund has failed: under locks on all payments of the  *)
(* application, one of those paid (the latest; which one is data), unless  *)
(* any of them ever had a closing receipt.                                 *)
(***************************************************************************)

(* Mutant: looks for a receipt in the queue only. *)
NothingQueued(paid) == paid = {} \/ \E p \in Payments : cr[p] \in {"due", "sending"}
NothingToMark(paid) == paid = {} \/ \E p \in Payments : cr[p] # "none"

GivesUp(p) == /\ cr' = [cr EXCEPT ![p] = "failed"]
              /\ tries' = [tries EXCEPT ![p] = MaxAttempts]

MarksDue(paid, partial) ==
  \/ NothingToMark(paid) /\ UNCHANGED <<cr, tries, told>>
  \/ /\ ~NothingToMark(paid)
     /\ \E p \in paid :
          \/ ~partial[p] /\ cr' = [cr EXCEPT ![p] = "due"] /\ UNCHANGED <<tries, told>>
          \/ partial[p] /\ GivesUp(p) /\ told' = told \union {p}

(***************************************************************************)
(* The application.  Documents are issued by approve_documents, and again  *)
(* by resolve_dispute; a dispute may end with the application cancelled.   *)
(***************************************************************************)
IssueDocuments ==
  /\ docs \in {"review", "issued"}
  /\ docs' = "issued"
  /\ MarksDue({p \in Payments : pay[p] = "paid"}, part)
  /\ UNCHANGED <<pay, part, sender, late, accepted, printed, notices,
                 ordered, refused, checked, unheard>>

CancelDisputed ==
  /\ docs = "issued" /\ docs' = "cancelled"
  /\ UNCHANGED <<pay, part, cr, tries, sender, late, accepted, printed, notices,
                 ordered, refused, told, checked, unheard>>

Paid(p) ==
  /\ pay[p] = "open" /\ (docs = "review" \/ "extra" \in Surprises)
  /\ pay' = [pay EXCEPT ![p] = "paid"]
  /\ UNCHANGED <<docs, part, cr, tries, sender, late, accepted, printed, notices,
                 ordered, refused, told, checked, unheard>>

(***************************************************************************)
(* send_closing_receipt.  _claim is one conditional UPDATE, committed      *)
(* before the bank is asked; the row is read once afterwards, and what the *)
(* bank answers is written without a lock and without a second look.       *)
(***************************************************************************)
Steps(s, b) == sender' = [sender EXCEPT ![s] = b]
Sets(p, status) == cr' = [cr EXCEPT ![p] = status]

Claim(s, p) ==
  /\ sender[s] = Idle
  /\ Closable(p) /\ RetryAllowed(p)
  /\ Sets(p, "sending")
  /\ tries' = [tries EXCEPT ![p] = @ + 1]
  /\ Steps(s, [at |-> "claimed", p |-> p, tries |-> tries[p] + 1])
  /\ UNCHANGED <<docs, pay, part, late, accepted, printed, notices,
                 ordered, refused, told, checked, unheard>>

(* The payment belongs to another terminal or its snapshot cannot be read. *)
CannotSend(s) ==
  /\ sender[s] # Idle /\ sender[s].at = "claimed"
  /\ GivesUp(sender[s].p) /\ told' = told \union {sender[s].p}
  /\ Steps(s, Idle)
  /\ UNCHANGED <<docs, pay, part, late, accepted, printed, notices,
                 ordered, refused, checked, unheard>>

Answered(s, a) ==
  /\ sender[s] # Idle /\ sender[s].at = "claimed"
  /\ Steps(s, [sender[s] EXCEPT !.at = a])
  /\ UNCHANGED <<docs, pay, part, cr, tries, printed, notices,
                 ordered, refused, told, checked, unheard>>

BankAccepts(s) ==
  /\ \E a \in {"accepted", "lost"} : Answered(s, a)
  /\ accepted' = [accepted EXCEPT ![sender[s].p] = @ + 1]
  /\ UNCHANGED late

BankDoesNot(s) == /\ \E a \in {"refused", "lost"} : Answered(s, a)
                  /\ UNCHANGED <<late, accepted>>

NotSent(s) == Answered(s, "not_sent") /\ UNCHANGED <<late, accepted>>

Straggles(s) == /\ "late" \in Surprises
                /\ Answered(s, "lost")
                /\ late' = [late EXCEPT ![sender[s].p] = @ + 1]
                /\ UNCHANGED accepted

(* The status written for the answer a to an attempt; a mutant that sends  *)
(* again what may have been sent.                                          *)
OutcomeRetried(a) == CASE a = "accepted" -> "sent"
                       [] a = "refused" -> "failed"
                       [] a \in {"not_sent", "lost"} -> "due"
Outcome(a) == CASE a = "accepted" -> "sent"
                [] a = "not_sent" -> "due"
                [] a = "refused" -> "failed"
                [] a = "lost" -> "unknown"

(* The attempt that was not sent is not counted; the mutant does not count *)
(* a refused one either.                                                   *)
TriesIfAccepted(s) == IF sender[s].at \in {"not_sent", "refused"}
                      THEN [tries EXCEPT ![sender[s].p] = sender[s].tries - 1]
                      ELSE tries
TriesAfter(s) == IF sender[s].at = "not_sent"
                 THEN [tries EXCEPT ![sender[s].p] = sender[s].tries - 1]
                 ELSE tries

WritesOutcome(s) ==
  /\ sender[s] # Idle /\ sender[s].at \in Answers
  /\ Sets(sender[s].p, Outcome(sender[s].at))
  /\ tries' = TriesAfter(s)
  /\ refused' = IF sender[s].at = "refused" /\ refused[sender[s].p] < ManyRefusals
                THEN [refused EXCEPT ![sender[s].p] = @ + 1] ELSE refused
  /\ told' = IF \/ sender[s].at = "lost"
                \/ sender[s].at = "refused" /\ sender[s].tries >= MaxAttempts
             THEN told \union {sender[s].p} ELSE told
  /\ Steps(s, Idle)
  /\ UNCHANGED <<docs, pay, part, late, accepted, printed, notices,
                 ordered, checked, unheard>>

Dies(s) ==
  /\ sender[s] # Idle
  /\ Steps(s, Idle)
  /\ UNCHANGED <<docs, pay, part, cr, tries, late, accepted, printed, notices,
                 ordered, refused, told, checked, unheard>>

(* expire_stale_sending of the cron, ten minutes after the claim. *)
Stale(p) == cr[p] = "sending" /\ ("slow" \in Surprises \/ LiveOn(p) = {})

ExpireStale(p) ==
  /\ Stale(p)
  /\ Sets(p, "unknown") /\ told' = told \union {p}
  /\ UNCHANGED <<docs, pay, part, tries, sender, late, accepted, printed, notices,
                 ordered, refused, checked, unheard>>

(***************************************************************************)
(* The bank and the kassa.                                                 *)
(***************************************************************************)
StragglerEnds(p) ==
  /\ late[p] > 0
  /\ late' = [late EXCEPT ![p] = @ - 1]
  /\ \E n \in {0, 1} : accepted' = [accepted EXCEPT ![p] = @ + n]
  /\ UNCHANGED <<docs, pay, part, cr, tries, sender, printed, notices,
                 ordered, refused, told, checked, unheard>>

KassaPrints(p) ==
  /\ accepted[p] > 0
  /\ accepted' = [accepted EXCEPT ![p] = @ - 1]
  /\ printed' = [printed EXCEPT ![p] = @ + 1]
  /\ UNCHANGED <<docs, pay, part, cr, tries, sender, late, notices,
                 ordered, refused, told, checked, unheard>>

KassaFails(p) ==
  /\ accepted[p] > 0
  /\ accepted' = [accepted EXCEPT ![p] = @ - 1]
  /\ notices' = [notices EXCEPT ![p] = @ + 1]
  /\ UNCHANGED <<docs, pay, part, cr, tries, sender, late, printed,
                 ordered, refused, told, checked, unheard>>

(* The RECEIPT notification; each is handled once (incoming_webhooks).     *)
(* Mutant: the admin is told only when the status changes.                 *)
ToldIfSent(p) == IF cr[p] = "sent" THEN told \union {p} ELSE told
ToldOfFailure(p) == told \union {p}

ReceiptFailed(p) ==
  /\ notices[p] > 0
  /\ notices' = [notices EXCEPT ![p] = @ - 1]
  /\ told' = ToldOfFailure(p)
  /\ \/ cr[p] = "sent" /\ GivesUp(p)
     \/ cr[p] # "sent" /\ UNCHANGED <<cr, tries>>
     \/ "unreadable" \in Surprises /\ UNCHANGED <<cr, tries>>
  /\ UNCHANGED <<docs, pay, part, sender, late, accepted, printed,
                 ordered, refused, checked, unheard>>

(***************************************************************************)
(* The admin: POST /payments/{id}/closing-receipt, under a lock on the     *)
(* payment.  The panel asks for a look into the bank's cabinet before a    *)
(* receipt is marked as sent, and before one whose fate is unknown is sent *)
(* again.                                                                  *)
(***************************************************************************)
Stopped == {"due", "failed", "unknown"}

MarkSent(p) ==
  /\ cr[p] \in Stopped
  /\ "careless" \in Surprises \/ printed[p] > 0
  /\ Sets(p, "sent") /\ told' = told \ {p}
  /\ UNCHANGED <<docs, pay, part, tries, sender, late, accepted, printed, notices,
                 ordered, refused, checked, unheard>>

MayResend(p) == cr[p] \in Stopped

OrderResend(p) ==
  /\ Closable(p) /\ MayResend(p) /\ docs = "issued"
  /\ cr[p] = "unknown" => "careless" \in Surprises \/ AtBank(p) = late[p]
  /\ ordered[p] < MaxOrders
  /\ Sets(p, "due") /\ tries' = [tries EXCEPT ![p] = 0]
  /\ ordered' = [ordered EXCEPT ![p] = @ + 1]
  /\ refused' = [refused EXCEPT ![p] = 0] /\ told' = told \ {p}
  /\ UNCHANGED <<docs, pay, part, sender, late, accepted, printed, notices,
                 checked, unheard>>

(***************************************************************************)
(* Refunds: POST /payments/{id}/refund holds the row lock from the check   *)
(* to the commit, so that it is one step for the senders; the bank's       *)
(* statuses are applied under the same lock.                               *)
(***************************************************************************)
(* alert_if_closing_receipt_may_exist; the mutant alerts of what is known. *)
KnownToExist(p) == cr[p] = "sent"
MayExist(p) == cr[p] \in {"sent", "sending", "unknown"}
Alerts(p) == checked' = IF MayExist(p) THEN checked \union {p} ELSE checked

PayMoves(p, status, partial) == /\ pay' = [pay EXCEPT ![p] = status]
                                /\ part' = [part EXCEPT ![p] = partial]

MayRefund(p) == Closable(p) \/ pay[p] = "ordered"

(* Cancel answered: the refund is under way or done. *)
RefundAnswered(p) ==
  /\ MayRefund(p)
  /\ \E status \in {"ordered", "refunded"} : PayMoves(p, status, FALSE)
  /\ Alerts(p)
  /\ UNCHANGED <<docs, cr, tries, sender, late, accepted, printed, notices,
                 ordered, refused, told, unheard>>

(* No answer; or a refusal, and GetState shows a refund or fails too. *)
RefundUnheard(p) ==
  /\ MayRefund(p)
  /\ \E status \in {"ordered", "refunded"} : PayMoves(p, status, FALSE)
  /\ unheard' = unheard \union {p}
  /\ UNCHANGED <<docs, cr, tries, sender, late, accepted, printed, notices,
                 ordered, refused, told, checked>>

(* refund_failed: refused for good, or REJECTED by the bank afterwards. *)
RefundFails(p) ==
  /\ MayRefund(p) \/ pay[p] = "returning"
  /\ PayMoves(p, "paid", FALSE)
  /\ IF docs = "issued"
     THEN MarksDue({q \in Payments : pay'[q] = "paid"}, part')
     ELSE UNCHANGED <<cr, tries, told>>
  /\ UNCHANGED <<docs, sender, late, accepted, printed, notices,
                 ordered, refused, checked, unheard>>

(* REFUNDING or REFUNDED of a payment we thought was ours to keep. *)
CabinetRefundSeen(p) ==
  /\ pay[p] = "paid"
  /\ \E status \in {"returning", "refunded"} : PayMoves(p, status, FALSE)
  /\ Alerts(p)
  /\ UNCHANGED <<docs, cr, tries, sender, late, accepted, printed, notices,
                 ordered, refused, told, unheard>>

(* The same of a link we thought nobody had paid, as when its Cancel turns *)
(* into a refund (_paid_and_returned): there was no receipt to speak of.   *)
PaidAndReturned(p) ==
  /\ pay[p] = "open" /\ (docs = "review" \/ "extra" \in Surprises)
  /\ \E status \in {"returning", "refunded"} : PayMoves(p, status, FALSE)
  /\ UNCHANGED <<docs, cr, tries, sender, late, accepted, printed, notices,
                 ordered, refused, told, checked, unheard>>

RefundDone(p) ==
  /\ pay[p] \in {"ordered", "returning"}
  /\ PayMoves(p, "refunded", FALSE)
  /\ UNCHANGED <<docs, cr, tries, sender, late, accepted, printed, notices,
                 ordered, refused, told, checked, unheard>>

PartialRefundSeen(p) ==
  /\ pay[p] \in {"paid", "ordered", "returning"} /\ ~part[p]
  /\ PayMoves(p, "paid", TRUE)
  /\ IF cr[p] \in {"due", "failed"} THEN GivesUp(p) ELSE UNCHANGED <<cr, tries>>
  /\ UNCHANGED <<docs, sender, late, accepted, printed, notices,
                 ordered, refused, told, checked, unheard>>

(***************************************************************************)
(* The specification.                                                      *)
(***************************************************************************)
Sends(s) == \/ \E p \in Payments : Claim(s, p)
            \/ CannotSend(s) \/ BankAccepts(s) \/ BankDoesNot(s) \/ NotSent(s)
            \/ Straggles(s) \/ WritesOutcome(s) \/ Dies(s)
Kassa(p) == StragglerEnds(p) \/ KassaPrints(p) \/ KassaFails(p) \/ ReceiptFailed(p)
Admin(p) == MarkSent(p) \/ OrderResend(p)
Money(p) == \/ Paid(p) \/ RefundAnswered(p) \/ RefundUnheard(p) \/ RefundFails(p)
            \/ CabinetRefundSeen(p) \/ PaidAndReturned(p) \/ RefundDone(p)
            \/ PartialRefundSeen(p)

Next == \/ IssueDocuments \/ CancelDisputed
        \/ \E s \in Senders : Sends(s)
        \/ \E p \in Payments : ExpireStale(p) \/ Kassa(p) \/ Admin(p) \/ Money(p)

Spec == Init /\ [][Next]_vars

(***************************************************************************)
(* Properties.                                                             *)
(***************************************************************************)
(* The automation prints one receipt at most; each further one was ordered *)
(* by the admin, whatever dies, is late or is told twice (the conditional  *)
(* UPDATE of _claim, `unknown` never retried).                             *)
OneReceiptPerOrder == \A p \in Payments : AtBank(p) <= 1 + ordered[p]

(* One closing receipt per application: documents issued again after a     *)
(* dispute, a second payment or a rejected refund start no second one.     *)
OnePaymentIsClosed ==
  \A p, q \in Payments : cr[p] # "none" /\ cr[q] # "none" => p = q

(* Between two orders of the admin the bank refuses at most MaxAttempts    *)
(* times, attempts that were not sent notwithstanding.                     *)
RefusalsAreBounded == \A p \in Payments : refused[p] <= MaxAttempts

(* A receipt the books call sent exists, is being printed or will be       *)
(* reported as failed; or the admin has been told to see to it.            *)
SentIsBackedOrTold ==
  \A p \in Payments :
    cr[p] = "sent" => AtBank(p) + notices[p] > 0 \/ p \in told

(* Money returned after a receipt of full payment: the admin was told to   *)
(* check the refund receipt, even if the two raced; the exception is a     *)
(* Cancel that told us nothing.                                            *)
RefundIsFlagged ==
  \A p \in Payments :
    pay[p] = "refunded" /\ printed[p] > 0 /\ ordered[p] = 0
      => p \in checked \union unheard

(***************************************************************************)
(* Liveness.  Begun calls go on unless the process dies, the cron runs     *)
(* every ten minutes, and a request that is tried for ever gets through.   *)
(***************************************************************************)
GetsThrough(s) == BankAccepts(s) \/ BankDoesNot(s)
Fairness ==
  /\ \A p \in Payments : /\ WF_vars(\E s \in Senders : Claim(s, p))
                         /\ WF_vars(ExpireStale(p))
  /\ \A s \in Senders : /\ WF_vars(GetsThrough(s) \/ NotSent(s))
                        /\ SF_vars(GetsThrough(s))
                        /\ WF_vars(WritesOutcome(s))

FairSpec == Spec /\ Fairness

(* A receipt that is due is sent or handed to the admin, unless the money  *)
(* goes back.                                                              *)
DueIsSettled ==
  \A p \in Payments :
    (cr[p] = "due") ~> (cr[p] = "sent" \/ p \in told \/ ~Closable(p))
=============================================================================
