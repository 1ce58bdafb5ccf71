--------------------------- MODULE TBankPayments ---------------------------
(***************************************************************************)
(* Payments of one application through T-Bank: the automaton of            *)
(* src/app/services/tbank_payments.py driven by the handlers of            *)
(* src/app/routers/payments.py and webhooks.py and by the cron script      *)
(* src/scripts/reconcile_tbank_payments.py.                                *)
(*                                                                         *)
(* A worker runs one request at a time.  A request is a database           *)
(* transaction that locks a payment row, talks to the bank while holding   *)
(* the lock and commits; between two of its steps the buyer, the bank and  *)
(* the other workers move, and the worker may die (its transaction is then *)
(* rolled back).  What a transaction has written and not committed is in   *)
(* the worker's draft: nobody else sees it.                                *)
(***************************************************************************)
EXTENDS TBank

CONSTANTS Workers,
          NoPayment,      \* not a payment
          DemoPayments    \* links of the DEMO terminal made by no tester

ASSUME NoPaymentAssumption == NoPayment \notin Payments
ASSUME DemoAssumption == DemoPayments \subseteq Payments

VARIABLES row,      \* row[p]: the committed row of payment p
          paidBy,   \* the payment that moved the application to PAID, or NoPayment
          flagged,  \* payments the admin was told came when none was awaited
          journal,  \* notifications processed (incoming_webhooks)
          worker,   \* worker[w]: the request w is running
          overtaken \* history: payments settled by a poll older than an order of ours

vars == <<bank, inbox, row, paidBy, flagged, journal, worker, overtaken>>

(***************************************************************************)
(* Rows.  "closed" stands for expired and cancelled, which differ only in  *)
(* what the client reads; a row is "pending" only inside the transaction   *)
(* that runs Init, so that no committed row is.                            *)
(***************************************************************************)
Open == {"awaiting_user"}
UnpaidClosed == {"failed", "closed"}
Counted == {"succeeded", "refund_requested", "refunded"}
PaymentStatus == {"absent"} \union Open \union UnpaidClosed \union Counted
ProviderStatus == (BankStatus \ {"none"}) \union {"MISMATCH", "INIT_ERROR", "-"}

NoKey == 0
Row == [st: PaymentStatus,
        prov: ProviderStatus,       \* provider_status
        att: {0} \union Keys,       \* refund_attempts
        key: {NoKey} \union Keys,   \* refund_key, by its attempt number
        bid: BOOLEAN]               \* provider_payment_id is known

Absent == [st |-> "absent", prov |-> "-", att |-> 0, key |-> NoKey, bid |-> FALSE]
LinkIssued == [Absent EXCEPT !.st = "awaiting_user", !.prov = "NEW", !.bid = TRUE]
InitFailed == [Absent EXCEPT !.st = "failed", !.prov = "INIT_ERROR"]

(***************************************************************************)
(* Requests.                                                               *)
(***************************************************************************)
Steps == {"idle", "insert", "init", "asked", "close", "reask", "refund",
          "refundask", "polled", "pollseen"}
Ops == {"none", "initiate", "cancel", "retire", "notify", "refund", "poll"}
Request == [at: Steps, op: Ops,
            pay: Payments \union {NoPayment},  \* the payment it locks or polls
            draft: Row,        \* its uncommitted row; for a poll the snapshot
            seen: BankStatus,  \* what GetState answered
            right: BOOLEAN,    \* and whether the sum was the sum of the order
            new: Payments \union {NoPayment},  \* the payment it is creating
            note: Announced \union {"-"}]      \* the notification it answers

Idle == [at |-> "idle", op |-> "none", pay |-> NoPayment, draft |-> Absent,
         seen |-> "none", right |-> TRUE, new |-> NoPayment, note |-> "-"]

TypeOK == /\ BankTypeOK
          /\ row \in [Payments -> Row]
          /\ paidBy \in Payments \union {NoPayment}
          /\ flagged \subseteq Payments
          /\ journal \subseteq Payments \X Announced
          /\ worker \in [Workers -> Request]
          /\ overtaken \subseteq Payments

Init == /\ BankInit
        /\ row = [p \in Payments |-> Absent]
        /\ paidBy = NoPayment
        /\ flagged = {}
        /\ journal = {}
        /\ worker = [w \in Workers |-> Idle]
        /\ overtaken = {}

AwaitingPayment == paidBy = NoPayment    \* the application's status
Active == {p \in Payments : row[p].st \in Open}

(***************************************************************************)
(* FOR UPDATE on a payment row, from the first bank call to the commit.    *)
(* An uncommitted new row makes the unique index on active payments wait.  *)
(***************************************************************************)
HoldsLockToRead(w, p) == worker[w].pay = p /\ worker[w].at = "asked"   \* mutant
HoldsLock(w, p) == /\ worker[w].pay = p
                   /\ worker[w].at \notin {"polled", "pollseen"}
Unlocked(p) == \A w \in Workers : ~HoldsLock(w, p)
NoOtherInit == \A w \in Workers : worker[w].at # "init"

Becomes(w, r) == worker' = [worker EXCEPT ![w] = r]
Ends(w) == Becomes(w, Idle)

(***************************************************************************)
(* apply_bank_state: the row after the bank's own status s for it.         *)
(***************************************************************************)
FinalUnpaid == {"REJECTED", "VOIDED"}
UnpaidAsTold(s) == s                                          \* mutant
UnpaidAs(s) == IF s = "VOIDED" THEN "closed" ELSE "failed"

\* A payment dead in our books is counted all the same: its money is real.
MayCountOpen(r) == r.st \in Open                              \* mutant
MayCount(r) == r.st \notin Counted

ReturningSoon(s) == "refunded"                                \* mutant
Returning(s) == IF s = "REFUNDED" THEN "refunded" ELSE "refund_requested"
KeyAfter(r, s) == IF s = "REFUNDED" THEN NoKey ELSE r.key

PaidAsTold(r, right) == [r EXCEPT !.st = "succeeded", !.prov = "CONFIRMED"]   \* mutant
PaidAs(r, right) == IF right THEN [r EXCEPT !.st = "succeeded", !.prov = "CONFIRMED"]
                             ELSE [r EXCEPT !.prov = "MISMATCH"]

RefundFailed(r) == [r EXCEPT !.st = "succeeded", !.prov = "REJECTED", !.key = NoKey]

After(r, s, right) ==
  CASE s = "CONFIRMED" /\ MayCount(r) -> PaidAs(r, right)
    [] s \in {"NEW", "MOVING"} /\ r.st \in Open /\ r.prov # "MISMATCH" ->
         [r EXCEPT !.prov = s]
    [] s \in FinalUnpaid /\ r.st \in Open ->
         [r EXCEPT !.st = UnpaidAs(s), !.prov = s]
    [] s = "REJECTED" /\ r.st = "refund_requested" -> RefundFailed(r)
    [] s \in {"REFUNDING", "REFUNDED"} /\ r.st # "refunded" ->
         [r EXCEPT !.st = Returning(s), !.prov = s, !.key = KeyAfter(r, s)]
    [] /\ s = "PARTIAL_REFUNDED" /\ r.prov # s
       /\ r.st \in {"succeeded", "refund_requested"} ->
         [r EXCEPT !.st = "succeeded", !.prov = s, !.key = NoKey]
    [] OTHER -> r

(***************************************************************************)
(* _on_paid and the application half of refund_failed: a payment newly     *)
(* counted moves a waiting application to PAID; otherwise the admin is     *)
(* told of money nobody awaited.                                           *)
(***************************************************************************)
OnPaidOnDemo(p) == IF AwaitingPayment                         \* mutant
                   THEN paidBy' = p /\ UNCHANGED flagged
                   ELSE flagged' = flagged \union {p} /\ UNCHANGED paidBy
OnPaidInSilence(p) == UNCHANGED flagged /\                    \* mutant
                      paidBy' = IF AwaitingPayment THEN p ELSE paidBy
OnPaid(p) == IF p \notin DemoPayments /\ AwaitingPayment
             THEN paidBy' = p /\ UNCHANGED flagged
             ELSE flagged' = flagged \union {p} /\ UNCHANGED paidBy

NewlyCounted(old, r) == old.st \notin Counted /\ r.st = "succeeded"
GaveRefundUp(old, r) == /\ old.st = "refund_requested"
                        /\ r.st = "succeeded" /\ r.prov = "REJECTED"

Consequences(p, old, r) ==
  IF NewlyCounted(old, r) \/ (GaveRefundUp(old, r) /\ AwaitingPayment)
  THEN OnPaid(p) ELSE UNCHANGED <<paidBy, flagged>>

(***************************************************************************)
(* Commit: p's row, that was old, becomes r, with its consequences.        *)
(***************************************************************************)
Commits(p, old, r) == /\ row' = [row EXCEPT ![p] = r]
                      /\ Consequences(p, old, r)

OnlyCommits == UNCHANGED <<bank, inbox, journal, overtaken>>
OnlyRuns == UNCHANGED <<row, paidBy, flagged, journal, overtaken>>

(***************************************************************************)
(* Answers: GetState under the row lock.  A failed GetState raises before  *)
(* anything is written: the request is rolled back (Dies).                 *)
(***************************************************************************)
Asks(w, op, p, note) ==
  /\ worker[w].at = "idle"
  /\ Unlocked(p)
  /\ Becomes(w, [Idle EXCEPT !.at = "asked", !.op = op, !.pay = p,
                             !.draft = row[p], !.seen = bank[p].st,
                             !.right = bank[p].right, !.note = note])
  /\ OnlyRuns /\ UNCHANGED <<bank, inbox>>

Applied(w) == After(row[worker[w].pay], worker[w].seen, worker[w].right)

(***************************************************************************)
(* POST /payments/initiate.                                                *)
(***************************************************************************)
ReadyToInsert(old, r) == [Idle EXCEPT !.at = "insert", !.op = "initiate",
                                      !.pay = old, !.draft = r]

InitiateFresh(w) ==
  /\ worker[w].at = "idle"
  /\ AwaitingPayment
  /\ Active = {}
  /\ Becomes(w, ReadyToInsert(NoPayment, Absent))
  /\ OnlyRuns /\ UNCHANGED <<bank, inbox>>

\* The active link is past its term, or its receipt is out of date: it is to
\* be closed before a new one is issued.
InitiateOverDeadLink(w, p) ==
  /\ AwaitingPayment
  /\ row[p].st \in Open
  /\ Asks(w, "initiate", p, "-")

(***************************************************************************)
(* What the state of the bank tells a request that wants the link closed:  *)
(* somebody pays, has paid or has been refused (nothing to close), or no   *)
(* money is there and the link is to be cancelled at the bank.  Money that *)
(* has been moving for an hour past the term is stuck: it is closed by all *)
(* but the admin's cancellation.                                           *)
(***************************************************************************)
Closing == {"initiate", "cancel", "retire"}
MayClose(op, s) == s = "NEW" \/ (op \in {"initiate", "retire"} /\ s = "MOVING")

LeavesLinkAlone(w, r) ==
  LET t == worker[w] IN
  IF r.st \in Open THEN t.seen # "NEW"
                   ELSE t.op # "initiate" \/ r.st = "succeeded"

AskedAndLeft(w) ==
  LET t == worker[w]  r == Applied(w) IN
  /\ t.at = "asked" /\ t.op \in Closing
  /\ LeavesLinkAlone(w, r)
  /\ Commits(t.pay, t.draft, r)
  /\ Ends(w) /\ OnlyCommits

AskedAndGoesOn(w) ==
  LET t == worker[w]  r == Applied(w) IN
  /\ t.at = "asked" /\ t.op \in Closing
  /\ \/ /\ r.st \in Open /\ MayClose(t.op, t.seen)
        /\ Becomes(w, [t EXCEPT !.at = "close", !.draft = r])
     \/ /\ t.op = "initiate" /\ r.st \notin Open \union {"succeeded"}
        /\ Becomes(w, ReadyToInsert(t.pay, r))
  /\ OnlyRuns /\ UNCHANGED <<bank, inbox>>

(***************************************************************************)
(* _close_unpaid_link: Cancel at the bank, and its answer applied.         *)
(***************************************************************************)
Closed(w, r) ==   \* the old link is off: go on to the new one, or commit
  LET t == worker[w] IN
  IF t.op = "initiate" /\ r.st \notin Open
  THEN Becomes(w, ReadyToInsert(t.pay, r)) /\ OnlyRuns
  ELSE /\ Commits(t.pay, row[t.pay], r)
       /\ Ends(w) /\ UNCHANGED <<journal, overtaken>>

CloseAccepted(w) ==
  LET t == worker[w] IN
  /\ t.at = "close"
  /\ CancelStarts(t.pay)
  /\ Closed(w, After(t.draft, bank'[t.pay].st, TRUE))

CloseRefused(w) ==
  LET t == worker[w] IN
  /\ t.at = "close" /\ t.seen = "NEW"
  /\ CancelRefused(t.pay)
  /\ Closed(w, [t.draft EXCEPT !.st = "closed"])

\* No answer, whether or not the bank executed the Cancel, or a refusal
\* while money was moving: ask the bank again.
CloseUnclear(w) ==
  LET t == worker[w] IN
  /\ t.at = "close"
  /\ CancelStarts(t.pay) \/ UNCHANGED <<bank, inbox>>
  /\ Becomes(w, [t EXCEPT !.at = "reask", !.seen = "none"])
  /\ OnlyRuns

AskAgainHopefully(w, answered) == [worker[w].draft EXCEPT !.st = "closed"]   \* mutant
AskAgain(w, answered) ==
  LET t == worker[w] IN
  IF answered THEN After(t.draft, bank[t.pay].st, bank[t.pay].right) ELSE t.draft

CloseAsksAgain(w) ==
  LET t == worker[w] IN
  /\ t.at = "reask"
  /\ \E answered \in BOOLEAN :
       Commits(t.pay, row[t.pay], AskAgain(w, answered))
  /\ Ends(w) /\ OnlyCommits

(***************************************************************************)
(* _initiate_tbank: the PENDING row is flushed, Init is called, the row is *)
(* committed as AWAITING_USER or FAILED together with what the request did *)
(* to the old link.                                                        *)
(***************************************************************************)
CommitsOld(w, new, r) ==
  LET t == worker[w] IN
  row' = [p \in Payments |-> IF p = new THEN r
                             ELSE IF p = t.pay THEN t.draft ELSE row[p]]

InsertPayment(w, p) ==
  /\ worker[w].at = "insert"
  /\ NoOtherInit
  /\ Active \subseteq {worker[w].pay}
  /\ row[p].st = "absent" /\ bank[p].st = "none"
  /\ Becomes(w, [worker[w] EXCEPT !.at = "init", !.new = p])
  /\ OnlyRuns /\ UNCHANGED <<bank, inbox>>

\* Nothing to issue: the owner's data for the receipt is missing (409 after a
\* commit), or a parallel request has issued its link (rollback).
InsertAbandoned(w) ==
  /\ worker[w].at = "insert"
  /\ \/ row' = row /\ ~(Active \subseteq {worker[w].pay})
     \/ CommitsOld(w, NoPayment, Absent)
  /\ Ends(w) /\ OnlyCommits /\ UNCHANGED <<paidBy, flagged>>

InitAnswered(w) ==
  LET t == worker[w] IN
  /\ t.at = "init"
  /\ InitAccepted(t.new)
  /\ CommitsOld(w, t.new, LinkIssued)
  /\ Ends(w) /\ UNCHANGED <<paidBy, flagged, journal, overtaken>>

InitUnanswered(w) ==
  LET t == worker[w] IN
  /\ t.at = "init"
  /\ InitAccepted(t.new) \/ UNCHANGED <<bank, inbox>>
  /\ CommitsOld(w, t.new, InitFailed)
  /\ Ends(w) /\ UNCHANGED <<paidBy, flagged, journal, overtaken>>

(***************************************************************************)
(* POST /payments/{id}/cancel.                                             *)
(***************************************************************************)
CancelLink(w, p) == /\ row[p].st \in Open
                    /\ Asks(w, "cancel", p, "-")

(***************************************************************************)
(* The admin corrects the data of the owner: links whose receipts are out  *)
(* of date are closed, whatever the application waits for.  No new link is *)
(* issued.                                                                 *)
(***************************************************************************)
RetireLink(w, p) == /\ row[p].st \in Open
                    /\ Asks(w, "retire", p, "-")

(***************************************************************************)
(* POST /payments/{id}/refund: the attempt and its key are in the draft    *)
(* while the bank is called; only a finished attempt gets a new key.       *)
(***************************************************************************)
NextAttempt(r) == [r EXCEPT !.st = "refund_requested", !.att = @ + 1, !.key = r.att + 1]

AttemptAnew(r) == IF r.att < MaxAttempts THEN NextAttempt(r) ELSE r   \* mutant
AttemptOf(r) == IF r.st = "succeeded" THEN NextAttempt(r) ELSE r

StartRefund(w, p) ==
  /\ worker[w].at = "idle"
  /\ Unlocked(p)
  /\ row[p].bid /\ row[p].prov # "PARTIAL_REFUNDED"
  /\ \/ row[p].st = "succeeded" /\ row[p].att < MaxAttempts
     \/ row[p].st = "refund_requested" /\ row[p].key # NoKey
  /\ Becomes(w, [Idle EXCEPT !.at = "refund", !.op = "refund", !.pay = p,
                             !.draft = AttemptOf(row[p])])
  /\ OnlyRuns /\ UNCHANGED <<bank, inbox>>

RefundAnswered(w) ==
  LET t == worker[w] IN
  /\ t.at = "refund"
  /\ RefundAccepted(t.pay, t.draft.key)
  /\ Commits(t.pay, t.draft, After(t.draft, bank'[t.pay].st, TRUE))
  /\ Ends(w) /\ UNCHANGED <<journal, overtaken>>

RefundUnanswered(w) ==
  LET t == worker[w] IN
  /\ t.at = "refund"
  /\ RefundAccepted(t.pay, t.draft.key) \/ UNCHANGED <<bank, inbox>>
  /\ Commits(t.pay, t.draft, t.draft)
  /\ Ends(w) /\ UNCHANGED <<journal, overtaken>>

RefundIsRefused(w) ==
  LET t == worker[w] IN
  /\ t.at = "refund"
  /\ Becomes(w, [t EXCEPT !.at = "refundask"])
  /\ OnlyRuns /\ UNCHANGED <<bank, inbox>>

\* Only a payment the bank still shows as CONFIRMED makes the refusal final.
AfterRefusal(r, s) == IF s = "CONFIRMED" THEN RefundFailed(r)
                      ELSE IF s \in {"REFUNDING", "REFUNDED"} THEN After(r, s, TRUE)
                      ELSE r

RefundAsksState(w) ==
  LET t == worker[w] IN
  /\ t.at = "refundask"
  /\ \E s \in {bank[t.pay].st, "none"} :     \* "none": GetState failed too
       Commits(t.pay, t.draft, AfterRefusal(t.draft, s))
  /\ Ends(w) /\ OnlyCommits

(***************************************************************************)
(* POST /webhooks/tbank/notification.  A notification already journalled,  *)
(* or of a payment the database does not know, is answered OK at once.     *)
(***************************************************************************)
Notified(w, p, s) ==
  /\ <<p, s>> \in inbox \ journal
  /\ row[p].st # "absent"
  /\ Asks(w, "notify", p, s)

NotificationIgnored(p, s) ==
  /\ <<p, s>> \in inbox
  /\ <<p, s>> \in journal \/ row[p].st = "absent"
  /\ journal' = journal \union {<<p, s>>}
  /\ inbox' = inbox \ {<<p, s>>}
  /\ UNCHANGED <<bank, row, paidBy, flagged, worker, overtaken>>

NotificationApplied(w) ==
  LET t == worker[w]  n == <<t.pay, t.note>> IN
  /\ t.at = "asked" /\ t.op = "notify"
  /\ Commits(t.pay, t.draft, [Applied(w) EXCEPT !.bid = TRUE])
  /\ journal' = journal \union {n}
  /\ inbox' = inbox \ {n}
  /\ Ends(w) /\ UNCHANGED <<bank, overtaken>>

(***************************************************************************)
(* recheck_payment: the payment page and the cron.  GetState is called     *)
(* with no lock held; its answer is dropped if the row changed meanwhile   *)
(* (fingerprint) or is locked.                                             *)
(***************************************************************************)
ClosedForGood(p) == FALSE                                     \* mutant
ClosedOnlyHere(p) == row[p].st = "closed" /\ row[p].prov = "NEW"

PolledForPayment == Open                                      \* mutant
Polled == Open \union {"refund_requested"}

StartPoll(w, p) ==
  /\ worker[w].at = "idle"
  /\ row[p].bid
  /\ row[p].st \in Polled \/ ClosedOnlyHere(p)
  /\ Unlocked(p)
  /\ Becomes(w, [Idle EXCEPT !.at = "polled", !.op = "poll", !.pay = p,
                             !.draft = row[p]])
  /\ OnlyRuns /\ UNCHANGED <<bank, inbox>>

PollAnswered(w) ==
  LET t == worker[w] IN
  /\ t.at = "polled"
  /\ Becomes(w, [t EXCEPT !.at = "pollseen", !.seen = bank[t.pay].st,
                          !.right = bank[t.pay].right])
  /\ OnlyRuns /\ UNCHANGED <<bank, inbox>>

FreshIfUnlocked(w) == Unlocked(worker[w].pay)                 \* mutant
Fresh(w) == /\ Unlocked(worker[w].pay)
            /\ row[worker[w].pay] = worker[w].draft

\* History: the answer counts money, or calls a refund failed, though an order
\* of our own, given after it, is alive at the bank.
OwnOrders(p) == bank[p].orders \ {CabinetOrder}
Overtaken(w) == LET t == worker[w] IN
                /\ row[t.pay] = t.draft
                /\ Applied(w).st = "succeeded" /\ t.draft.st # "succeeded"
                /\ t.seen \in {"CONFIRMED", "REJECTED"}
                /\ OwnOrders(t.pay) # {}

PollApplied(w) ==
  LET t == worker[w] IN
  /\ t.at = "pollseen"
  /\ Fresh(w)
  /\ Commits(t.pay, row[t.pay], Applied(w))
  /\ overtaken' = IF Overtaken(w) THEN overtaken \union {t.pay} ELSE overtaken
  /\ Ends(w) /\ UNCHANGED <<bank, inbox, journal>>

PollDiscarded(w) ==
  /\ worker[w].at = "pollseen"
  /\ ~Fresh(w)
  /\ Ends(w) /\ OnlyRuns /\ UNCHANGED <<bank, inbox>>

(***************************************************************************)
(* The process dies, or the request fails and is rolled back; the call it  *)
(* was about may have reached the bank (a Cancel of a link: CloseUnclear). *)
(***************************************************************************)
CallMayReachBank(w) ==
  LET t == worker[w] IN
  \/ UNCHANGED <<bank, inbox>>
  \/ t.at = "init" /\ InitAccepted(t.new)
  \/ t.at = "refund" /\ RefundAccepted(t.pay, t.draft.key)

Dies(w) == /\ worker[w].at # "idle"
           /\ CallMayReachBank(w)
           /\ Ends(w) /\ OnlyRuns

(***************************************************************************)
(* The buyer pays a link that exists, wherever he got it from.             *)
(***************************************************************************)
BuyerPays(p) == row[p].st # "absent" /\ PayerPays(p)

World(p) == /\ BuyerPays(p) \/ BankNext(p)
            /\ UNCHANGED <<row, paidBy, flagged, journal, worker, overtaken>>

Works(w) ==
  \/ InitiateFresh(w) \/ AskedAndLeft(w) \/ AskedAndGoesOn(w)
  \/ CloseAccepted(w) \/ CloseRefused(w) \/ CloseUnclear(w) \/ CloseAsksAgain(w)
  \/ InsertAbandoned(w) \/ InitAnswered(w) \/ InitUnanswered(w)
  \/ RefundAnswered(w) \/ RefundUnanswered(w) \/ RefundIsRefused(w)
  \/ RefundAsksState(w) \/ NotificationApplied(w)
  \/ PollAnswered(w) \/ PollApplied(w) \/ PollDiscarded(w) \/ Dies(w)
  \/ \E p \in Payments :
       \/ InitiateOverDeadLink(w, p) \/ InsertPayment(w, p) \/ CancelLink(w, p)
       \/ RetireLink(w, p) \/ StartRefund(w, p) \/ StartPoll(w, p)
       \/ \E s \in Announced : Notified(w, p, s)

Next == \/ \E w \in Workers : Works(w)
        \/ \E p \in Payments : World(p)
        \/ \E p \in Payments, s \in Announced : NotificationIgnored(p, s)

Spec == Init /\ [][Next]_vars

-----------------------------------------------------------------------------
(***************************************************************************)
(* The books and the bank.  A payment is counted, on its way back or       *)
(* refunded here only if the buyer's money did reach the bank, and it is   *)
(* refunded here only once the bank has let the money go: no order of      *)
(* notifications, polls, lost answers or crashes makes the books ahead of  *)
(* the bank (apply_bank_state).                                            *)
(***************************************************************************)
BooksFollowBank ==
  \A p \in Payments :
    /\ row[p].st \in Counted => bank[p].money # "none"
    /\ row[p].st = "refunded" => bank[p].money = "back"

(***************************************************************************)
(* The application is PAID only by a payment of a real terminal whose      *)
(* money came in the sum of the order, the one exception being a payment   *)
(* whose refund the bank rejected (_on_paid, refund_failed).               *)
(***************************************************************************)
OrderIsPaidByMoney ==
  paidBy # NoPayment =>
    /\ paidBy \notin DemoPayments
    /\ row[paidBy].st \in Counted
    /\ bank[paidBy].money # "none"
    /\ bank[paidBy].right \/ bank[paidBy].rejected # {}

(***************************************************************************)
(* Once all notifications about p are answered, whatever requests are at   *)
(* work on it, money the bank confirmed in the right sum is counted here,  *)
(* or on its way back under a key that can be retried; a refund the bank   *)
(* has made is a refund here, and a link the bank has voided is not open   *)
(* here: lost links, locally closed links and late payments included.      *)
(***************************************************************************)
Quiet(p) == /\ \A s \in Announced : <<p, s>> \notin inbox
            /\ row[p].st # "absent"

NothingIsForgotten ==
  \A p \in Payments : Quiet(p) =>
    /\ bank[p].st = "CONFIRMED" /\ bank[p].right =>
         \/ row[p].st = "succeeded"
         \/ row[p].st = "refund_requested" /\ row[p].key # NoKey
    /\ bank[p].st = "REFUNDED" => row[p].st = "refunded"
    /\ bank[p].st = "VOIDED" => row[p].st \notin Open

(***************************************************************************)
(* A counted payment of a waiting application is never left alone: either  *)
(* the application is PAID or the admin was told (a partial refund tells   *)
(* him by itself).  And of two payments counted for one application the    *)
(* admin was told of one.                                                  *)
(***************************************************************************)
CountedMoneyIsSeen ==
  /\ \A p \in Payments :
       row[p].st = "succeeded" /\ row[p].prov # "PARTIAL_REFUNDED" =>
         paidBy # NoPayment \/ p \in flagged
  /\ \A p, q \in Payments :
       p # q /\ row[p].st = "succeeded" /\ row[q].st = "succeeded" =>
         \/ p \in flagged \/ q \in flagged
         \/ "REJECTED" \in {row[p].prov, row[q].prov}
         \/ "PARTIAL_REFUNDED" \in {row[p].prov, row[q].prov}

(***************************************************************************)
(* The buyer never has two links to pay for one application: another one   *)
(* is issued only when the old one is dead at the bank, or the bank has    *)
(* refused to cancel it while no money was there (_close_unpaid_link).     *)
(***************************************************************************)
HandedOut(p) == row[p].st # "absent" /\ row[p].prov # "INIT_ERROR"

OneLinkToPay ==
  \A p, q \in Payments :
    p # q /\ HandedOut(p) /\ HandedOut(q) /\ Payable(p) /\ Payable(q) =>
      bank[p].refused \/ bank[q].refused

(***************************************************************************)
(* At most one refund order of the system is alive at the bank for each    *)
(* payment, however the answers were lost and the clicks repeated, unless  *)
(* a poll overtaken by an order had settled the payment (_refund_tbank).   *)
(***************************************************************************)
OneRefundOrder ==
  \A p \in Payments \ overtaken :
    Cardinality(OwnOrders(p)) <= 1

(***************************************************************************)
(* Closing a link never takes back money already counted: when a Cancel    *)
(* without a key turns into a refund, the payment is still open here       *)
(* (the row stays locked between GetState and Cancel).                     *)
(***************************************************************************)
ClosingTakesNothingBack ==
  [][\A p \in Payments :
       LinkOrder \in bank'[p].orders \ bank[p].orders => row[p].st \in Open]_vars

(***************************************************************************)
(* Books only move forward: a counted payment is never unpaid again, a     *)
(* refunded one stays refunded, and an attempt to refund is called failed  *)
(* only when its order is not alive at the bank, overtaken polls aside.    *)
(***************************************************************************)
OnlyForward ==
  [][\A p \in Payments :
       /\ row[p].st \in Counted => row'[p].st \in Counted
       /\ row[p].st = "refunded" => row'[p] = row[p]
       /\ (row[p].st = "refund_requested" /\ row'[p].st = "succeeded"
            /\ p \notin overtaken') => row[p].key \notin bank[p].orders]_vars
=============================================================================
