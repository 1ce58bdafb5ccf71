---------------------------- MODULE OwnerPayouts ----------------------------
(***************************************************************************)
(* What the platform owes the owner of the address for one application     *)
(* (src/app/services/owner_payouts.py and its router): started when the    *)
(* client's payment arrives, released when the registration is confirmed,  *)
(* paid and cancelled by the admin.  Around it everything that moves the   *)
(* payments and the application: T-Bank under row locks (its books are     *)
(* reduced to what a payout depends on, TBankPayments has the rest),       *)
(* CDEK Pay and manual invoices without a lock, the workflow.              *)
(***************************************************************************)
EXTENDS ApplicationWorkflow

CONSTANTS TBank, Cdek, Invoices,   \* the application's payments, by provider
          NoPayment

Platform == TBank \union Cdek
Unlocked == Cdek \union Invoices
Payments == Platform \union Invoices

ASSUME NoPaymentAssumption == NoPayment \notin Payments
ASSUME ProvidersAssumption == TBank \intersect Unlocked = {} /\ Cdek \intersect Invoices = {}

VARIABLES pay,        \* pay[p]: status of the payment, see PayStatus
          part,       \* part[p]: provider_status is PARTIAL_REFUNDED
          money,      \* money[p]: where the money of a CDEK payment is
          mail,       \* callbacks of CDEK not yet handled
          payout,     \* payout[p]: status of the payout of payment p
          confirmed,  \* registration_confirmed_at is set
          counted     \* history: payments that moved the application to paid

payVars == <<pay, part, money, mail>>
payoutVars == <<payout, confirmed>>
vars == <<workflowVars, payVars, payoutVars, counted>>

(* "none": no row yet; "open": pending or awaiting_user; "closed": failed, *)
(* expired or cancelled; "ordered": refund_requested.                      *)
PayStatus == {"none", "open", "closed", "paid", "ordered", "refunded"}
PayoutStatus == {"none", "awaiting", "due", "paid", "cancelled"}

Carrying ==   \* what a request carries from its reading to its commit
  [at : {"receive"}, p : Unlocked, waits : BOOLEAN, makes : BOOLEAN]
  \union [at : {"close", "refund"}, p : Unlocked]
  \union [at : {"confirm"}, p : Platform \union {NoPayment}]

TypeOK ==
  /\ status \in Statuses /\ approved \in BOOLEAN
  /\ request \in [Requests -> {Idle} \union Moving \union Carrying]
  /\ pay \in [Payments -> PayStatus] /\ part \in [Payments -> BOOLEAN]
  /\ money \in [Cdek -> {"none", "got", "back"}]
  /\ mail \subseteq Cdek \X {"payment", "refund"}
  /\ payout \in [Payments -> PayoutStatus] /\ confirmed \in BOOLEAN
  /\ counted \subseteq Payments

Init ==
  /\ InitWorkflow
  /\ \E invoices \in SUBSET Invoices :   \* made with the application, one at most
       /\ \A p, q \in invoices : p = q
       /\ pay = [p \in Payments |-> IF p \in invoices THEN "open" ELSE "none"]
  /\ part = [p \in Payments |-> FALSE]
  /\ money = [p \in Cdek |-> "none"] /\ mail = {}
  /\ payout = [p \in Payments |-> "none"] /\ confirmed = FALSE
  /\ counted = {}

(***************************************************************************)
(* ensure_payout.  A payment has one payout (a unique index), a cancelled  *)
(* one is not reopened; an application has one that is not cancelled.      *)
(* Whether the commission is known already is data.                        *)
(***************************************************************************)
Active == {p \in Payments : payout[p] \notin {"none", "cancelled"}}

MayStart(p) == p \in Platform /\ payout[p] = "none" /\ Active = {}
Started(p) == IF MayStart(p) THEN [payout EXCEPT ![p] = "awaiting"] ELSE payout

(* The payout it returns, by its payment.                                  *)
Ensured(p) == IF payout[p] # "none" \/ Active = {} THEN p
              ELSE CHOOSE q \in Active : TRUE

(***************************************************************************)
(* payout_blockers.  The mutant forgets what is on its way back.           *)
(***************************************************************************)
BlockedIfReturned(p) == \/ pay[p] = "refunded" \/ part[p]
                        \/ status \in {"dispute", "cancelled"}
Blocked(p) == \/ pay[p] # "paid" \/ part[p]
              \/ status \in {"dispute", "cancelled"}

(***************************************************************************)
(* T-Bank.  The payment and the application are locked.                    *)
(***************************************************************************)
(* _on_paid; the mutant does not start the payout.                         *)
ReceivesOnly(p) ==
  IF status = "awaiting_payment"
  THEN status' = "paid" /\ counted' = counted \union {p} /\ UNCHANGED payout
  ELSE UNCHANGED <<status, payout, counted>>
Receives(p) ==
  IF status = "awaiting_payment"
  THEN status' = "paid" /\ counted' = counted \union {p} /\ payout' = Started(p)
  ELSE UNCHANGED <<status, payout, counted>>

Pays(p, s) == pay' = [pay EXCEPT ![p] = s]
Parts(p, b) == part' = [part EXCEPT ![p] = b]

(* _initiate: one payment awaits at a time (a unique index), and only for  *)
(* an application that awaits it.                                          *)
Initiate(p) ==
  /\ pay[p] = "none" /\ status = "awaiting_payment"
  /\ \A q \in Payments : pay[q] # "open"
  /\ Pays(p, "open")
  /\ UNCHANGED <<workflowVars, part, money, mail, payoutVars, counted>>

(* By us or by the bank; a closed link may turn out to have been paid.     *)
TBankCloses(p) ==
  /\ pay[p] = "open" /\ Pays(p, "closed")
  /\ UNCHANGED <<workflowVars, part, money, mail, payoutVars, counted>>

TBankPaid(p) ==
  /\ pay[p] \in {"open", "closed"}
  /\ Pays(p, "paid") /\ Receives(p)
  /\ UNCHANGED <<request, approved, part, money, mail, confirmed>>

(* Ours (for a payment that is not partly refunded yet), in the cabinet,   *)
(* or the closing of a link that was being paid.                           *)
TBankRefunds(p) ==
  /\ pay[p] \in {"open", "closed", "paid"}
  /\ \E s \in {"ordered", "refunded"} : Pays(p, s)
  /\ Parts(p, FALSE)
  /\ UNCHANGED <<workflowVars, money, mail, payoutVars, counted>>

TBankRefunded(p) ==
  /\ pay[p] = "ordered"
  /\ Pays(p, "refunded")
  /\ UNCHANGED <<workflowVars, part, money, mail, payoutVars, counted>>

TBankRefundFails(p) ==   \* refund_failed
  /\ pay[p] = "ordered"
  /\ Pays(p, "paid") /\ Receives(p)
  /\ UNCHANGED <<request, approved, part, money, mail, confirmed>>

TBankPartlyRefunded(p) ==
  /\ pay[p] \in {"paid", "ordered"} /\ ~part[p]
  /\ Pays(p, "paid") /\ Parts(p, TRUE)
  /\ UNCHANGED <<workflowVars, money, mail, payoutVars, counted>>

(***************************************************************************)
(* CDEK Pay.  A callback is repeated until it is handled and then handled  *)
(* no more (incoming_webhooks); nothing orders a payment and its refund.   *)
(***************************************************************************)
MoneyGoes(p, from, to, letter) ==
  /\ money[p] = from /\ money' = [money EXCEPT ![p] = to]
  /\ mail' = mail \union {<<p, letter>>}
  /\ UNCHANGED <<workflowVars, pay, part, payoutVars, counted>>

BuyerPays(p) == pay[p] # "none" /\ MoneyGoes(p, "none", "got", "payment")
MoneyReturns(p) == MoneyGoes(p, "got", "back", "refund")

ReadsOnly == UNCHANGED <<status, approved, payVars, payoutVars, counted>>

(* handle_cdek_pay_payment_callback up to its flush: the payment, the      *)
(* application and the payouts are read without a lock.                    *)
PaymentCallback(r, p) ==
  /\ Is(r, "idle") /\ <<p, "payment">> \in mail
  /\ \A s \in Requests : Is(s, "receive") => request[s].p # p
  /\ Steps(r, [at |-> "receive", p |-> p, waits |-> status = "awaiting_payment",
               makes |-> status = "awaiting_payment" /\ MayStart(p)])
  /\ ReadsOnly

RefundCallback(p) ==
  /\ <<p, "refund">> \in mail
  /\ mail' = mail \ {<<p, "refund">>}
  /\ Pays(p, "refunded")
  /\ UNCHANGED <<workflowVars, part, money, payoutVars, counted>>

(* The admin's refund: CDEK is asked between the reading and the commit.   *)
RefundRead(r, p) ==
  /\ Is(r, "idle") /\ pay[p] = "paid"
  /\ Steps(r, [at |-> "refund", p |-> p])
  /\ ReadsOnly

RefundWritten(r) ==
  /\ Is(r, "refund")
  /\ Pays(request[r].p, "ordered") /\ Steps(r, Idle)
  /\ UNCHANGED <<status, approved, part, money, mail, payoutVars, counted>>

(***************************************************************************)
(* Manual invoices: marked paid by the admin or confirmed by the owner,    *)
(* rejected by the admin; cancelled by the admin, as are CDEK payments.    *)
(***************************************************************************)
InvoiceRead(r, p) ==
  /\ Is(r, "idle") /\ pay[p] = "open"
  /\ Steps(r, [at |-> "receive", p |-> p, waits |-> status = "awaiting_payment",
               makes |-> FALSE])
  /\ ReadsOnly

CloseRead(r, p) ==
  /\ Is(r, "idle") /\ pay[p] = "open"
  /\ Steps(r, [at |-> "close", p |-> p])
  /\ ReadsOnly

CloseWritten(r) ==
  /\ Is(r, "close")
  /\ Pays(request[r].p, "closed") /\ Steps(r, Idle)
  /\ UNCHANGED <<status, approved, part, money, mail, payoutVars, counted>>

(* The commit of a callback or of an invoice.  A payout that would be a    *)
(* second one violates an index, and the transaction fails with it.        *)
ReceivedWritten(r) ==
  LET p == request[r].p IN
  /\ Is(r, "receive")
  /\ request[r].makes => MayStart(p)
  /\ Pays(p, "paid")
  /\ status' = IF request[r].waits THEN "paid" ELSE status
  /\ counted' = IF request[r].waits THEN counted \union {p} ELSE counted
  /\ payout' = IF request[r].makes THEN Started(p) ELSE payout
  /\ mail' = mail \ {<<p, "payment">>}
  /\ Steps(r, Idle)
  /\ UNCHANGED <<approved, part, money, confirmed>>

(***************************************************************************)
(* POST /payouts/applications/{id}/registration/confirm.  The payment is   *)
(* chosen without a lock: that of the active payout, or the latest that    *)
(* the platform has received (which one is data); it and the application   *)
(* are locked afterwards.                                                  *)
(***************************************************************************)
Received == {p \in Platform : pay[p] \in {"paid", "ordered", "refunded"}}

Chosen == IF Active # {} THEN Active
          ELSE IF Received # {} THEN Received ELSE {NoPayment}

ConfirmRead(r) ==
  /\ Is(r, "idle")
  /\ \E p \in Chosen : Steps(r, [at |-> "confirm", p |-> p])
  /\ ReadsOnly

(* REGISTRATION_ALLOWED; the mutant allows it while documents are reviewed. *)
AllowedEarly == status \in {"documents_review", "ready_for_client", "completed"}
Allowed == status \in {"ready_for_client", "completed"}

(* The blockers are those of the payment chosen; its payout may turn out   *)
(* to be that of another one.                                              *)
Confirms(p) ==
  LET q == Ensured(p)
      movable == Started(p)[q] = "awaiting"
      release == movable /\ ~Blocked(p)
  IN  /\ confirmed => release
      /\ payout' = IF release THEN [Started(p) EXCEPT ![q] = "due"] ELSE Started(p)

Confirm(r) ==
  LET p == request[r].p IN
  /\ Is(r, "confirm") /\ Allowed
  /\ \/ p = NoPayment /\ ~confirmed /\ UNCHANGED payout
     \/ p # NoPayment /\ Confirms(p)
  /\ confirmed' = TRUE
  /\ Steps(r, Idle)
  /\ UNCHANGED <<status, approved, payVars, counted>>

(***************************************************************************)
(* mark_paid and cancel, under locks on payment, application and payout.   *)
(***************************************************************************)
PayoutMoves(p, s) == /\ payout' = [payout EXCEPT ![p] = s]
                     /\ UNCHANGED <<workflowVars, payVars, confirmed, counted>>

MarkPaid(p) == payout[p] = "due" /\ ~Blocked(p) /\ PayoutMoves(p, "paid")

CancelPayout(p) == payout[p] \in {"awaiting", "due"} /\ PayoutMoves(p, "cancelled")

(***************************************************************************)
(* The specification.                                                      *)
(***************************************************************************)
Workflow(r) == /\ (\E m \in Moves : Reads(r, m)) \/ Writes(r) \/ Fails(r)
               /\ UNCHANGED <<payVars, payoutVars, counted>>
TBankMoves(p) == \/ TBankCloses(p) \/ TBankPaid(p) \/ TBankRefunds(p) \/ TBankRefunded(p)
                 \/ TBankRefundFails(p) \/ TBankPartlyRefunded(p)
CdekMoves(p) == BuyerPays(p) \/ MoneyReturns(p) \/ RefundCallback(p)
Handlers(r) ==
  \/ \E p \in Cdek : PaymentCallback(r, p) \/ RefundRead(r, p)
  \/ \E p \in Invoices : InvoiceRead(r, p)
  \/ \E p \in Unlocked : CloseRead(r, p)
  \/ RefundWritten(r) \/ CloseWritten(r) \/ ReceivedWritten(r)
  \/ ConfirmRead(r) \/ Confirm(r)

Next == \/ \E r \in Requests : Workflow(r) \/ Handlers(r)
        \/ \E p \in Platform : Initiate(p)
        \/ \E p \in TBank : TBankMoves(p)
        \/ \E p \in Cdek : CdekMoves(p)
        \/ \E p \in Payments : MarkPaid(p) \/ CancelPayout(p)

Spec == Init /\ [][Next]_vars

(***************************************************************************)
(* Properties.                                                             *)
(***************************************************************************)
(* The registration is confirmed, and with it a payout released, only for  *)
(* documents an admin has approved, whatever actions race and whatever     *)
(* statuses a disputed application goes through.                           *)
DocumentsAreApproved == confirmed => approved

(* An application that the platform's money moved to paid has a payout     *)
(* (perhaps cancelled since): two payments at once, a callback that is     *)
(* repeated or fails and a rejected refund lose none.                      *)
PaidOrderHasPayout == \A p \in counted \intersect Platform : payout[p] # "none"

(* What is owed to the owner, and whether the money for it is there.       *)
Owed == IF Active = {} THEN "nothing"
        ELSE LET s == payout[CHOOSE p \in Active : TRUE]
             IN IF s = "awaiting" THEN "held" ELSE s
Clear == \E p \in Active : /\ pay[p] = "paid" /\ ~part[p]
                          /\ status \notin {"dispute", "cancelled"}

Promise == INSTANCE PayoutPromise
             WITH owed <- Owed, registered <- confirmed, clear <- Clear

(* The owner is paid once per application, whichever payments, after the   *)
(* registration and while the payment of the payout is kept undisputed.    *)
PayoutsKeepThePromise == Promise!Spec
=============================================================================
