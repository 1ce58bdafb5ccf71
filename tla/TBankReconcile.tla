--------------------------- MODULE TBankReconcile ---------------------------
(***************************************************************************)
(* TBankPayments when notifications get lost: the bank repeats them for a  *)
(* month and gives up.  What remains is src/scripts/                       *)
(* reconcile_tbank_payments.py, which polls every open link, every refund  *)
(* under way and every link closed only here every ten minutes.            *)
(*                                                                         *)
(* People and crashes may do as they like until the day turns calm; from   *)
(* then on requests that have begun go on, the cron polls and the bank     *)
(* works, and nobody starts anything new.                                  *)
(***************************************************************************)
EXTENDS TBankPayments

VARIABLE calm

NotificationLost(p, s) == /\ inbox' = inbox \ {<<p, s>>}
                          /\ <<p, s>> \in inbox
                          /\ UNCHANGED <<bank, row, paidBy, flagged, journal,
                                         worker, overtaken>>

GoesOn(w) ==
  \/ AskedAndLeft(w) \/ AskedAndGoesOn(w)
  \/ CloseAccepted(w) \/ CloseRefused(w) \/ CloseUnclear(w) \/ CloseAsksAgain(w)
  \/ \E p \in Payments : InsertPayment(w, p)
  \/ InsertAbandoned(w) \/ InitAnswered(w) \/ InitUnanswered(w)
  \/ RefundAnswered(w) \/ RefundUnanswered(w) \/ RefundIsRefused(w)
  \/ RefundAsksState(w) \/ NotificationApplied(w)
  \/ PollAnswered(w) \/ PollApplied(w) \/ PollDiscarded(w)

OnlyBank == UNCHANGED <<row, paidBy, flagged, journal, worker, overtaken>>
BankWorks(p) == /\ \/ PayerFails(p) \/ Confirms(p)
                   \/ RefundCompletes(p) \/ RefundIsRejected(p)
                /\ OnlyBank
Deadline(p) == LinkExpires(p) /\ OnlyBank

Restless == Next \/ \E p \in Payments, s \in Announced : NotificationLost(p, s)
Calm == \/ \E w \in Workers, p \in Payments : StartPoll(w, p)
        \/ \E w \in Workers : GoesOn(w)
        \/ \E p \in Payments : World(p)

DayTurnsCalm == ~calm /\ calm' = TRUE /\ UNCHANGED vars

LossyNext == \/ ~calm /\ Restless /\ UNCHANGED calm
             \/ DayTurnsCalm
             \/ calm /\ Calm /\ UNCHANGED calm

allVars == <<vars, calm>>

LossySpec == Init /\ calm = FALSE /\ [][LossyNext]_allVars

(***************************************************************************)
(* A request that has begun is carried on by its process; the cron starts  *)
(* anew every ten minutes, also after a poll that was of no use (strong    *)
(* fairness); the bank ends what it has begun and voids a link at its      *)
(* deadline, however often the buyer tries.  Nothing is assumed of people. *)
(***************************************************************************)
Fairness ==
  /\ WF_allVars(DayTurnsCalm)
  /\ \A w \in Workers : WF_allVars(calm /\ GoesOn(w) /\ UNCHANGED calm)
  /\ \A p \in Payments :
       /\ SF_allVars(calm /\ (\E w \in Workers : StartPoll(w, p)) /\ UNCHANGED calm)
       /\ WF_allVars(calm /\ BankWorks(p) /\ UNCHANGED calm)
       /\ SF_allVars(calm /\ Deadline(p) /\ UNCHANGED calm)

FairSpec == LossySpec /\ Fairness

(***************************************************************************)
(* The safety half of it.  Money the bank holds in the right sum and the   *)
(* books do not count is on a row the cron polls: whatever was lost, and   *)
(* whatever died between a call and its commit, no link is written off     *)
(* while it can still be paid.  A row without a PaymentId cannot be        *)
(* polled; it waits for a notification that names it.                      *)
(***************************************************************************)
Reached(p) == row[p].st \in Polled \/ ClosedOnlyHere(p)

NoMoneyOutOfReach ==
  \A p \in Payments :
    bank[p].st = "CONFIRMED" /\ bank[p].right /\ row[p].bid =>
      row[p].st \in Counted \/ Reached(p)

(***************************************************************************)
(* A payment taken by the bank is counted or refunded here, even if its    *)
(* notification is lost and the link was closed only here after the bank   *)
(* had refused to cancel it.  The exception is a refund rejected by the    *)
(* bank before the payment was counted: its REJECTED reads as "never paid" *)
(* (the run claim_unpaid_final).                                  *)
(***************************************************************************)
PaidLinkIsCounted ==
  \A p \in Payments :
    (bank[p].st = "CONFIRMED" /\ row[p].bid)
      ~> (row[p].st \in Counted \/ bank[p].rejected # {})

(***************************************************************************)
(* No link stays open for ever and no refund stays under way for ever,     *)
(* except an attempt the bank never received: it waits for the admin to    *)
(* repeat it.                                                              *)
(***************************************************************************)
EverythingSettles ==
  \A p \in Payments :
    /\ (row[p].st \in Open) ~> (row[p].st \notin Open)
    /\ (row[p].st = "refund_requested" /\ bank[p].st # "CONFIRMED")
         ~> (row[p].st # "refund_requested" \/ bank[p].st = "CONFIRMED")
=============================================================================
