--------------------------- MODULE OutsidePayments ---------------------------
(***************************************************************************)
(* The other two ways to pay for one application: CDEK Pay, which tells of *)
(* a payment or a refund by callbacks that come late, twice or in another  *)
(* order, and a bank invoice that people confirm by hand.  Handlers load   *)
(* the payment without a lock, then commit.  A callback is first inserted  *)
(* into incoming_webhooks, in the transaction of its effect.               *)
(***************************************************************************)
EXTENDS Naturals, FiniteSets

CONSTANTS Bills,    \* payments of the application (bound)
          Clerks,   \* requests and callbacks being served at once
          NoBill

ASSUME OutsideAssumption == NoBill \notin Bills

VARIABLES bill,     \* payments
          order,    \* applications.status: "awaiting_payment", or "paid" and beyond
          link,     \* CDEK: what became of each payment link
          sent,     \* callbacks CDEK has sent, and sends again
          stored,   \* incoming_webhooks, committed
          clerk,    \* requests between two of their steps
          acted     \* history: how often each callback has had its effect
outsideVars == <<bill, order, link, sent, stored, clerk, acted>>

BillRow == [by : {"none", "cdek", "invoice"}, known : BOOLEAN,
            status : {"none", "awaiting_user", "succeeded", "failed", "cancelled",
                      "refund_requested", "refunded"}]
NoRowYet == [by |-> "none", known |-> FALSE, status |-> "none"]
Callbacks == {"paid", "refunded"} \X Bills
ClerkOps == {"initiate", "paid", "refunded", "cancel", "refund", "mark_paid", "reject", "confirm"}
OffDuty == [op |-> "none", on |-> NoBill, seen |-> NoRowYet]

InitOutside ==
  /\ bill = [b \in Bills |-> NoRowYet] /\ order = "awaiting_payment"
  /\ link = [b \in Bills |-> "none"] /\ sent = {} /\ stored = {}
  /\ clerk = [k \in Clerks |-> OffDuty] /\ acted = [c \in Callbacks |-> 0]

Sits(k, op, b) ==
  /\ clerk[k] = OffDuty
  /\ clerk' = [clerk EXCEPT ![k] = [op |-> op, on |-> b,
                 seen |-> IF b = NoBill THEN NoRowYet ELSE bill[b]]]
Rises(k) == clerk' = [clerk EXCEPT ![k] = OffDuty]
Does(k, op) == clerk[k].op = op
ActiveBills == {b \in Bills : bill[b].status = "awaiting_user"}
SetBill(k, st) == bill' = [bill EXCEPT ![clerk[k].on].status = st]

-----------------------------------------------------------------------------
(* An application of a company comes with its invoice.                     *)
InvoiceCreated(b) ==
  /\ \A c \in Bills : bill[c] = NoRowYet /\ link[c] = "none"
  /\ bill' = [bill EXCEPT ![b] = [by |-> "invoice", known |-> FALSE, status |-> "awaiting_user"]]
  /\ UNCHANGED <<order, link, sent, stored, clerk, acted>>

\* The row is inserted, the transaction held open while CDEK makes the link; one
\* active payment of an application, so a second insert waits for the first.
InitiateStarts(k) ==
  /\ order = "awaiting_payment" /\ ActiveBills = {}
  /\ \A c \in Clerks : ~Does(c, "initiate")
  /\ Sits(k, "initiate", NoBill)
  /\ UNCHANGED <<bill, order, link, sent, stored, acted>>
FreshBill(b) == bill[b] = NoRowYet /\ link[b] = "none"
LinkMade(k, b) ==
  /\ Does(k, "initiate") /\ FreshBill(b)
  /\ link' = [link EXCEPT ![b] = "open"]
  /\ \/ /\ bill' = [bill EXCEPT ![b] = [by |-> "cdek", known |-> FALSE, status |-> "awaiting_user"]]
     \/ UNCHANGED bill       \* CDEK made it, its answer or our commit is lost
  /\ Rises(k) /\ UNCHANGED <<order, sent, stored, acted>>
LinkRefused(k, b) ==
  /\ Does(k, "initiate") /\ FreshBill(b)
  /\ bill' = [bill EXCEPT ![b] = [by |-> "cdek", known |-> FALSE, status |-> "failed"]]
  /\ Rises(k) /\ UNCHANGED <<order, link, sent, stored, acted>>

(* CDEK: the client pays by the link; money goes back by our request or by *)
(* somebody in its cabinet.                                                *)
ClientPays(b) ==
  /\ link[b] = "open" /\ link' = [link EXCEPT ![b] = "paid"]
  /\ sent' = sent \cup {<<"paid", b>>}
  /\ UNCHANGED <<bill, order, stored, clerk, acted>>
CdekRefunds(b) ==
  /\ link[b] \in {"paid", "refunding"} /\ link' = [link EXCEPT ![b] = "refunded"]
  /\ sent' = sent \cup {<<"refunded", b>>}
  /\ UNCHANGED <<bill, order, stored, clerk, acted>>

-----------------------------------------------------------------------------
(* A callback: the row of incoming_webhooks is flushed, not committed; a   *)
(* second insert of the same key waits for the first transaction to end.   *)
MayStoreBlindly(c) == c \notin stored                         \* mutant
MayStore(c) == c \notin stored /\ \A k \in Clerks : <<clerk[k].op, clerk[k].on>> # c
CallbackArrives(k, c) ==
  /\ c \in sent /\ MayStore(c)
  /\ Sits(k, c[1], c[2])
  /\ UNCHANGED <<bill, order, link, sent, stored, acted>>
\* The payment is not known, or has nothing to change: left without a commit.
NothingToDo(k) == LET seen == clerk[k].seen IN
  \/ seen.by # "cdek"
  \/ Does(k, "paid") /\ seen.status = "succeeded" /\ seen.known
  \/ Does(k, "refunded") /\ seen.status = "refunded"
CallbackCommits(k) == LET c == <<clerk[k].op, clerk[k].on>> IN
  /\ c \in Callbacks /\ ~NothingToDo(k)
  /\ bill' = [bill EXCEPT ![c[2]].status = IF c[1] = "paid" THEN "succeeded" ELSE "refunded",
                          ![c[2]].known = @ \/ c[1] = "paid"]
  /\ order' = IF c[1] = "paid" THEN "paid" ELSE order
  /\ stored' = stored \cup {c} /\ acted' = [acted EXCEPT ![c] = @ + 1]
  /\ Rises(k) /\ UNCHANGED <<link, sent>>

-----------------------------------------------------------------------------
(* The administrator and the owner                                         *)
MayStart(op, b) ==
  CASE op = "cancel" -> bill[b].status = "awaiting_user"
    [] op = "refund" -> bill[b].status = "succeeded" /\ bill[b].known
    [] OTHER -> bill[b].by = "invoice" /\ bill[b].status = "awaiting_user"
HandReads(k, op, b) ==
  /\ MayStart(op, b) /\ Sits(k, op, b)
  /\ UNCHANGED <<bill, order, link, sent, stored, acted>>
\* CDEK is asked to block the link; its error is passed over.
CancelWrites(k) ==
  /\ Does(k, "cancel") /\ SetBill(k, "cancelled")
  /\ LET b == clerk[k].on IN
     \/ link[b] = "open" /\ link' = [link EXCEPT ![b] = "blocked"]
     \/ UNCHANGED link
  /\ Rises(k) /\ UNCHANGED <<order, sent, stored, acted>>
RefundWrites(k) == LET b == clerk[k].on IN
  /\ Does(k, "refund") /\ link[b] = "paid"
  /\ link' = [link EXCEPT ![b] = "refunding"]
  /\ \/ SetBill(k, "refund_requested")
     \/ UNCHANGED bill       \* CDEK has it, its answer or our commit is lost
  /\ Rises(k) /\ UNCHANGED <<order, sent, stored, acted>>
InvoiceDecided(k) ==
  /\ clerk[k].op \in {"mark_paid", "reject", "confirm"}
  /\ SetBill(k, IF Does(k, "reject") THEN "failed" ELSE "succeeded")
  /\ order' = IF Does(k, "reject") THEN order ELSE "paid"
  /\ Rises(k) /\ UNCHANGED <<link, sent, stored, acted>>
ClerkFails(k) ==
  /\ clerk[k] # OffDuty /\ Rises(k)
  /\ UNCHANGED <<bill, order, link, sent, stored, acted>>

NextOutside ==
  \/ \E b \in Bills : InvoiceCreated(b) \/ ClientPays(b) \/ CdekRefunds(b)
  \/ \E k \in Clerks : \/ InitiateStarts(k) \/ CallbackCommits(k) \/ CancelWrites(k)
                       \/ RefundWrites(k) \/ InvoiceDecided(k) \/ ClerkFails(k)
  \/ \E k \in Clerks, b \in Bills : LinkMade(k, b) \/ LinkRefused(k, b)
  \/ \E k \in Clerks, c \in Callbacks : CallbackArrives(k, c)
  \/ \E k \in Clerks, b \in Bills, op \in {"cancel", "refund", "mark_paid", "reject", "confirm"} :
       HandReads(k, op, b)

SpecOutside == InitOutside /\ [][NextOutside]_outsideVars

-----------------------------------------------------------------------------
(* Type invariant. *)
OutsideTypeOK ==
  /\ bill \in [Bills -> BillRow] /\ order \in {"awaiting_payment", "paid"}
  /\ link \in [Bills -> {"none", "open", "paid", "blocked", "refunding", "refunded"}]
  /\ sent \subseteq Callbacks /\ stored \subseteq Callbacks
  /\ clerk \in [Clerks -> [op : ClerkOps \cup {"none"}, on : Bills \cup {NoBill}, seen : BillRow]]
  /\ acted \in [Callbacks -> Nat]

(* A callback has its effect at most once, however often CDEK sends it and *)
(* however many handlers have it at one time, and once it is stored it has *)
(* had it: a handler that failed left nothing behind, so that the next     *)
(* delivery is not taken for a replay (_store_idempotent,                  *)
(* handle_cdek_pay_payment_callback, handle_cdek_pay_refund_callback).     *)
CallbackActsOnce == \A c \in Callbacks : acted[c] = IF c \in stored THEN 1 ELSE 0
=============================================================================
