-------------------------- MODULE TBankBooksProofs --------------------------
(***************************************************************************)
(* The books follow the bank: the proof that no order of answers, polls,   *)
(* notifications, lost calls and crashes counts money that never came or   *)
(* calls money returned that the bank still has.                           *)
(*                                                                         *)
(* BooksFollowBank is about committed rows, but what a request commits was *)
(* computed from what it was told, perhaps long ago.  The invariant hence  *)
(* speaks of all the requests under way: whatever one has seen or drafted  *)
(* is still backed by the buyer's money, because money that has come never *)
(* un-comes and money that is back stays back.                             *)
(*                                                                         *)
(* The parts that follow prove in the same way that an application is PAID *)
(* only by money, that closing a link takes no counted money back, that    *)
(* money counted is not left alone, that books only move forward with one  *)
(* refund order at a time alive at the bank, that the buyer has one link   *)
(* to pay, that answered notifications leave nothing forgotten, and that   *)
(* the whole implements Settlement.  The last part proves all but the      *)
(* answered notifications once more for LossySpec of TBankReconcile, where *)
(* any notification may be lost, and that confirmed money never leaves the *)
(* rows the cron polls.                                                    *)
(***************************************************************************)
EXTENDS TBankPaymentsProofs, TBankSettlement, TBankReconcile, FiniteSetTheorems

\* What the bank holds, as its status tells it.
MoneyFits(b) ==
  /\ b.st \in {"none", "NEW", "MOVING", "VOIDED"} => b.money = "none"
  /\ b.st = "CONFIRMED" => b.money = "kept"
  /\ b.st = "REFUNDING" => b.money \in {"kept", "part"}
  /\ b.st = "PARTIAL_REFUNDED" => b.money = "part"
  /\ b.st = "REFUNDED" => b.money = "back"
  /\ b.st = "REJECTED" => b.money # "back"
MoneyFitsStatus == \A p \in Payments : MoneyFits(bank[p])

\* The bank's record b backs a row in status st, and the answer s.
Backs(b, st) == /\ st \in Counted => b.money # "none"
                /\ st = "refunded" => b.money = "back"
Taken == {"CONFIRMED", "REFUNDING", "REFUNDED", "PARTIAL_REFUNDED"}
BacksAnswer(b, s) == /\ s \in Taken => b.money # "none"
                     /\ s = "REFUNDED" => b.money = "back"

RequestBacked(t, b) == Backs(b, t.draft.st) /\ BacksAnswer(b, t.seen)
RequestsBacked ==
  \A w \in Workers :
    worker[w].pay \in Payments => RequestBacked(worker[w], bank[worker[w].pay])

\* At most one Init is under way, for a payment the bank does not know.
NewLinks ==
  \A w \in Workers :
    worker[w].at = "init" => /\ bank[worker[w].new].st = "none"
                             /\ \A v \in Workers : worker[v].at = "init" => v = w

BooksInv == MoneyFitsStatus /\ BooksFollowBank /\ RequestsBacked /\ NewLinks

(***************************************************************************)
(* What the bank does to the money.                                        *)
(***************************************************************************)
MoneyStays == \A p \in Payments : /\ bank[p].money # "none" => bank'[p].money # "none"
                                  /\ bank[p].money = "back" => bank'[p].money = "back"
UnknownStays == \A p \in Payments : bank[p].st = "none" => bank'[p].st = "none"
BankStep == MoneyFitsStatus' /\ MoneyStays

LEMMA MovesMoney ==
  ASSUME BankTypeOK, MoneyFitsStatus, NEW p \in Payments, NEW b, Moves(p, b), MoneyFits(b),
         bank[p].money # "none" => b.money # "none",
         bank[p].money = "back" => b.money = "back"
  PROVE  /\ BankStep
         /\ bank[p].st # "none" => UnknownStays
  BY DEF BankTypeOK, Moves, MoneyFitsStatus, BankStep, MoneyStays, UnknownStays

LEMMA StillMoney ==
  ASSUME MoneyFitsStatus, UNCHANGED bank
  PROVE  BankStep /\ UnknownStays
  BY DEF MoneyFitsStatus, BankStep, MoneyStays, UnknownStays

LEMMA BankNextMoney ==
  ASSUME BankTypeOK, MoneyFitsStatus, NEW p \in Payments, BankNext(p) \/ PayerPays(p)
  PROVE  BankStep /\ UnknownStays
<1> bank[p] \in BankRecord /\ MoneyFits(bank[p])
  BY DEF BankTypeOK, MoneyFitsStatus
<1> USE DEF BankRecord, Money, MoneyFits
<1>1. CASE PayerPays(p)
  BY <1>1, MovesMoney DEF PayerPays
<1>2. CASE PayerFails(p)
  BY <1>2, MovesMoney DEF PayerFails
<1>3. CASE Confirms(p)
  BY <1>3, MovesMoney DEF Confirms
<1>4. CASE LinkExpires(p)
  BY <1>4, MovesMoney DEF LinkExpires
<1>5. CASE RefundCompletes(p)
  BY <1>5, MovesMoney DEF RefundCompletes
<1>6. CASE RefundIsRejected(p)
  BY <1>6, MovesMoney DEF RefundIsRejected
<1>7. CASE CabinetRefund(p)
  BY <1>7, MovesMoney DEF CabinetRefund, Refundable, KeepsMoney, Refunding
<1>8. CASE CabinetPartialRefund(p)
  BY <1>8, MovesMoney DEF CabinetPartialRefund
<1> QED BY <1>1, <1>2, <1>3, <1>4, <1>5, <1>6, <1>7, <1>8 DEF BankNext

LEMMA CallsMoney ==
  ASSUME BankTypeOK, MoneyFitsStatus, NEW p \in Payments
  PROVE  /\ InitAccepted(p) /\ bank[p].st = "none" => BankStep
         /\ CancelStarts(p) => BankStep /\ UnknownStays
         /\ CancelRefused(p) => BankStep /\ UnknownStays
         /\ \A k \in Keys : RefundAccepted(p, k) => BankStep /\ UnknownStays
<1> bank[p] \in BankRecord /\ MoneyFits(bank[p])
  BY DEF BankTypeOK, MoneyFitsStatus
<1>1. InitAccepted(p) /\ bank[p].st = "none" => BankStep
  BY MovesMoney DEF InitAccepted, BankRecord, MoneyFits
<1>2. CancelVoids(p) => BankStep /\ UnknownStays
  BY MovesMoney DEF CancelVoids, Payable, BankRecord, MoneyFits
<1>3. CancelReturnsMoney(p) => BankStep /\ UnknownStays
  BY MovesMoney
     DEF CancelReturnsMoney, Refundable, KeepsMoney, Refunding, Refunded, BankRecord, MoneyFits
<1>4. CancelStarts(p) => BankStep /\ UnknownStays
  BY <1>2, <1>3, StillMoney DEF CancelStarts, CancelReverses
<1>5. CancelRefused(p) => BankStep /\ UnknownStays
  BY DEF CancelRefused, BankTypeOK, BankRecord, MoneyFitsStatus, MoneyFits, BankStep,
         MoneyStays, UnknownStays
<1>6. ASSUME NEW k \in Keys, RefundAccepted(p, k)
      PROVE  BankStep /\ UnknownStays
  <2>1. CASE UNCHANGED <<bank, inbox>>
    BY <2>1, StillMoney
  <2>2. CASE /\ Refundable(p) \/ bank[p].st = "REFUNDING"
             /\ \E b \in {Refunding(p, k), Refunded(p, k)} : Moves(p, b)
    BY <2>2, MovesMoney
       DEF Refundable, KeepsMoney, Refunding, Refunded, BankRecord, MoneyFits
  <2> QED BY <1>6, <2>1, <2>2 DEF RefundAccepted
<1> QED BY <1>1, <1>4, <1>5, <1>6

(***************************************************************************)
(* The automaton never says more than the bank.                            *)
(***************************************************************************)
LEMMA AfterBacked ==
  ASSUME NEW r \in Row, NEW s, NEW right, NEW b, Backs(b, r.st), BacksAnswer(b, s)
  PROVE  Backs(b, After(r, s, right).st)
  BY DEF After, PaidAs, UnpaidAs, FinalUnpaid, RefundFailed, Returning, KeyAfter, MayCount,
         Row, Backs, BacksAnswer, Taken, Counted, Open

LEMMA BackedStays ==
  ASSUME MoneyStays, NEW p \in Payments
  PROVE  /\ \A st : Backs(bank[p], st) => Backs(bank'[p], st)
         /\ \A s : BacksAnswer(bank[p], s) => BacksAnswer(bank'[p], s)
  BY DEF MoneyStays, Backs, BacksAnswer

LEMMA StatusBacksAnswer ==
  ASSUME NEW b, MoneyFits(b)
  PROVE  BacksAnswer(b, b.st) /\ BacksAnswer(b, "none")
  BY DEF MoneyFits, BacksAnswer, Taken

(***************************************************************************)
(* Rows and requests under a step of the bank.                             *)
(***************************************************************************)
LEMMA BooksStay ==
  ASSUME MoneyStays, BooksFollowBank, UNCHANGED row
  PROVE  BooksFollowBank'
  BY DEF MoneyStays, BooksFollowBank

LEMMA CommitsBacked ==
  ASSUME TypeInv, MoneyStays, BooksFollowBank, NEW p \in Payments, NEW old, NEW r,
         Backs(bank'[p], r.st), Commits(p, old, r)
  PROVE  BooksFollowBank'
  BY DEF TypeInv, TypeOK, MoneyStays, BooksFollowBank, Backs, Commits

LEMMA BecomesBacked ==
  ASSUME TypeInv, MoneyStays, RequestsBacked, NEW w \in Workers, NEW t,
         t.pay \in Payments => RequestBacked(t, bank'[t.pay]), Becomes(w, t)
  PROVE  RequestsBacked'
<1> SUFFICES ASSUME NEW v \in Workers, worker'[v].pay \in Payments
             PROVE  RequestBacked(worker'[v], bank'[worker'[v].pay])
  BY DEF RequestsBacked
<1>1. worker' = [worker EXCEPT ![w] = t] /\ worker \in [Workers -> Request]
  BY DEF Becomes, TypeInv, TypeOK
<1>2. CASE v = w
  BY <1>1, <1>2
<1>3. CASE v # w
  <2>1. worker'[v] = worker[v]
    BY <1>1, <1>3
  <2>2. RequestBacked(worker[v], bank[worker[v].pay])
    BY <2>1 DEF RequestsBacked
  <2> QED BY <2>1, <2>2, BackedStays DEF RequestBacked
<1> QED BY <1>2, <1>3

LEMMA EndsBacked ==
  ASSUME TypeInv, MoneyStays, RequestsBacked, NEW w \in Workers, Ends(w)
  PROVE  RequestsBacked'
<1>1. Idle.pay \notin Payments
  BY NoPaymentAssumption DEF Idle
<1> QED BY <1>1, BecomesBacked DEF Ends

LEMMA LinksStay ==
  ASSUME TypeInv, UnknownStays, NewLinks, NEW w \in Workers, NEW t, t.at # "init",
         Becomes(w, t)
  PROVE  NewLinks'
<1>1. worker' = [worker EXCEPT ![w] = t] /\ worker \in [Workers -> Request]
  BY DEF Becomes, TypeInv, TypeOK
<1>2. \A v \in Workers : worker'[v].at = "init" => v # w /\ worker'[v] = worker[v]
  BY <1>1
<1>3. \A v \in Workers : worker[v].at = "init" => worker[v].new \in Payments
  BY DEF TypeInv, RequestOK
<1> QED BY <1>2, <1>3 DEF NewLinks, UnknownStays

LEMMA EndsLinks ==
  ASSUME TypeInv, UnknownStays, NewLinks, NEW w \in Workers, Ends(w)
  PROVE  NewLinks'
  BY LinksStay DEF Ends, Idle

(***************************************************************************)
(* What a request has seen and drafted is backed.                          *)
(***************************************************************************)
LEMMA WorkerBacked ==
  ASSUME TypeInv, BooksInv, NEW w \in Workers, worker[w].pay \in Payments
  PROVE  /\ RequestBacked(worker[w], bank[worker[w].pay])
         /\ Backs(bank[worker[w].pay], row[worker[w].pay].st)
         /\ Backs(bank[worker[w].pay], Applied(w).st)
<1> DEFINE b == bank[worker[w].pay]
<1>1. RequestBacked(worker[w], b)
  BY DEF BooksInv, RequestsBacked
<1>2. Backs(b, row[worker[w].pay].st)
  BY DEF BooksInv, BooksFollowBank, Backs
<1> QED BY <1>1, <1>2, AfterBacked, WorkerType DEF RequestBacked, Applied

(***************************************************************************)
(* The three ways a step changes a request, with nothing or one row        *)
(* committed.                                                              *)
(***************************************************************************)
LEMMA RunsBooks ==
  ASSUME TypeInv, BooksInv, BankStep, UnknownStays, OnlyRuns,
         NEW w \in Workers, NEW t, t.at # "init", Becomes(w, t),
         t.pay \in Payments => RequestBacked(t, bank'[t.pay])
  PROVE  BooksInv'
  BY BooksStay, BecomesBacked, LinksStay DEF BooksInv, BankStep, OnlyRuns

LEMMA CommitsBooks ==
  ASSUME TypeInv, BooksInv, BankStep, UnknownStays, NEW w \in Workers, Ends(w),
         NEW p \in Payments, NEW old, NEW r, Backs(bank'[p], r.st), Commits(p, old, r)
  PROVE  BooksInv'
  BY CommitsBacked, EndsBacked, EndsLinks DEF BooksInv, BankStep

LEMMA AsksBooks ==
  ASSUME TypeInv, BooksInv, NEW w \in Workers, NEW p \in Payments, NEW op, NEW n,
         Asks(w, op, p, n)
  PROVE  BooksInv'
<1> DEFINE t == [Idle EXCEPT !.at = "asked", !.op = op, !.pay = p,
                             !.draft = row[p], !.seen = bank[p].st,
                             !.right = bank[p].right, !.note = n]
<1>1. t.at = "asked" /\ t.pay = p /\ t.draft = row[p] /\ t.seen = bank[p].st
  BY DEF Idle
<1>2. Backs(bank[p], row[p].st) /\ BacksAnswer(bank[p], bank[p].st)
  BY StatusBacksAnswer DEF BooksInv, BooksFollowBank, Backs, MoneyFitsStatus
<1>3. Becomes(w, t) /\ OnlyRuns /\ UNCHANGED bank
  BY DEF Asks
<1>4. RequestBacked(t, bank'[t.pay])
  BY <1>1, <1>2, <1>3 DEF RequestBacked
<1> QED BY <1>1, <1>3, <1>4, StillMoney, RunsBooks DEF BooksInv

LEMMA FreshBacked ==
  ASSUME NEW old, NEW r, NEW b, Backs(b, r.st)
  PROVE  RequestBacked(ReadyToInsert(old, r), b)
  BY DEF RequestBacked, ReadyToInsert, Idle, BacksAnswer, Taken

(***************************************************************************)
(* Action by action.                                                       *)
(***************************************************************************)
LEMMA InitiateBooks ==
  ASSUME TypeInv, BooksInv, NEW w \in Workers
  PROVE  /\ InitiateFresh(w) => BooksInv'
         /\ \A p \in Payments : InitiateOverDeadLink(w, p) \/ CancelLink(w, p) \/ RetireLink(w, p)
              => BooksInv'
<1>1. ASSUME InitiateFresh(w)
      PROVE  BooksInv'
  <2> DEFINE t == ReadyToInsert(NoPayment, Absent)
  <2>1. t.at # "init" /\ t.pay \notin Payments
    BY NoPaymentAssumption DEF ReadyToInsert, Idle
  <2> QED BY <1>1, <2>1, StillMoney, RunsBooks DEF InitiateFresh, BooksInv
<1> QED BY <1>1, AsksBooks DEF InitiateOverDeadLink, CancelLink, RetireLink

LEMMA InsertBooks ==
  ASSUME TypeInv, BooksInv, NEW w \in Workers, NEW p \in Payments, InsertPayment(w, p)
  PROVE  BooksInv'
<1> DEFINE t == [worker[w] EXCEPT !.at = "init", !.new = p]
<1>1. /\ Becomes(w, t) /\ OnlyRuns /\ UNCHANGED bank
      /\ bank[p].st = "none" /\ \A v \in Workers : worker[v].at # "init"
  BY DEF InsertPayment, NoOtherInit
<1>2. worker[w] \in Request /\ worker \in [Workers -> Request]
  BY DEF TypeInv, TypeOK
<1>3. /\ t.at = "init" /\ t.new = p /\ t.pay = worker[w].pay
      /\ t.draft = worker[w].draft /\ t.seen = worker[w].seen
  BY <1>2 DEF Request
<1>4. t.pay \in Payments => RequestBacked(t, bank'[t.pay])
  BY <1>1, <1>3 DEF RequestBacked, BooksInv, RequestsBacked
<1>5. RequestsBacked'
  BY <1>1, <1>4, StillMoney, BecomesBacked DEF BooksInv, BankStep
<1>6. NewLinks'
  <2>1. \A v \in Workers : worker'[v] = IF v = w THEN t ELSE worker[v]
    BY <1>1, <1>2 DEF Becomes
  <2> QED BY <1>1, <1>3, <2>1 DEF NewLinks
<1> QED BY <1>1, <1>5, <1>6, StillMoney, BooksStay DEF BooksInv, BankStep, OnlyRuns

LEMMA AskedBooks ==
  ASSUME TypeInv, BooksInv, NEW w \in Workers, AskedAndLeft(w) \/ AskedAndGoesOn(w)
  PROVE  BooksInv'
<1> DEFINE t == worker[w]
<1>1. t.pay \in Payments /\ UNCHANGED bank /\ t \in Request
  BY WorkerType DEF AskedAndLeft, AskedAndGoesOn, RequestFits, OnlyCommits
<1>2. BankStep /\ UnknownStays
  BY <1>1, StillMoney DEF BooksInv
<1>3. Backs(bank'[t.pay], Applied(w).st) /\ RequestBacked(t, bank'[t.pay])
  BY <1>1, WorkerBacked
<1>4. CASE AskedAndLeft(w)
  BY <1>1, <1>2, <1>3, <1>4, CommitsBooks DEF AskedAndLeft
<1>5. CASE AskedAndGoesOn(w)
  <2>1. OnlyRuns
    BY <1>5 DEF AskedAndGoesOn
  <2>2. CASE Becomes(w, [t EXCEPT !.at = "close", !.draft = Applied(w)])
    <3> DEFINE u == [t EXCEPT !.at = "close", !.draft = Applied(w)]
    <3>1. u.at # "init" /\ u.pay = t.pay /\ u.draft = Applied(w) /\ u.seen = t.seen
      BY <1>1 DEF Request
    <3> QED BY <1>2, <1>3, <2>1, <2>2, <3>1, RunsBooks DEF RequestBacked
  <2>3. CASE Becomes(w, ReadyToInsert(t.pay, Applied(w)))
    <3>1. RequestBacked(ReadyToInsert(t.pay, Applied(w)), bank'[t.pay])
      BY <1>3, FreshBacked
    <3>2. /\ ReadyToInsert(t.pay, Applied(w)).at # "init"
          /\ ReadyToInsert(t.pay, Applied(w)).pay = t.pay
      BY DEF ReadyToInsert, Idle
    <3> QED BY <1>2, <2>1, <2>3, <3>1, <3>2, RunsBooks
  <2> QED BY <1>5, <2>2, <2>3 DEF AskedAndGoesOn
<1> QED BY <1>4, <1>5

LEMMA ClosedBooks ==
  ASSUME TypeInv, BooksInv, BankStep, UnknownStays, NEW w \in Workers,
         worker[w].pay \in Payments, NEW r, Backs(bank'[worker[w].pay], r.st), Closed(w, r)
  PROVE  BooksInv'
<1> DEFINE p == worker[w].pay
           u == ReadyToInsert(p, r)
<1>1. u.at # "init" /\ u.pay = p /\ RequestBacked(u, bank'[p])
  BY FreshBacked DEF ReadyToInsert, Idle
<1>2. CASE Becomes(w, u) /\ OnlyRuns
  BY <1>1, <1>2, RunsBooks
<1>3. CASE Commits(p, row[p], r) /\ Ends(w)
  BY <1>3, CommitsBooks
<1> QED BY <1>2, <1>3 DEF Closed

LEMMA CloseBooks ==
  ASSUME TypeInv, BooksInv, NEW w \in Workers,
         CloseAccepted(w) \/ CloseRefused(w) \/ CloseUnclear(w) \/ CloseAsksAgain(w)
  PROVE  BooksInv'
<1> DEFINE t == worker[w]
           p == worker[w].pay
<1>1. p \in Payments /\ t.draft \in Row /\ t \in Request
  BY WorkerType
     DEF CloseAccepted, CloseRefused, CloseUnclear, CloseAsksAgain, RequestFits
<1>2. BankTypeOK /\ MoneyFitsStatus
  BY Parts DEF BooksInv
<1>3. RequestBacked(t, bank[p])
  BY <1>1, WorkerBacked
<1>4. BankStep /\ UnknownStays
  BY <1>1, <1>2, CallsMoney, StillMoney
     DEF CloseAccepted, CloseRefused, CloseUnclear, CloseAsksAgain, OnlyCommits
<1>5. RequestBacked(t, bank'[p]) /\ BacksAnswer(bank'[p], bank'[p].st)
  BY <1>1, <1>3, <1>4, BackedStays, StatusBacksAnswer
     DEF RequestBacked, BankStep, MoneyFitsStatus
<1>6. CASE CloseAccepted(w)
  <2>1. Backs(bank'[p], After(t.draft, bank'[p].st, TRUE).st)
    BY <1>1, <1>5, AfterBacked DEF RequestBacked
  <2> QED BY <1>1, <1>4, <1>6, <2>1, ClosedBooks DEF CloseAccepted
<1>7. CASE CloseRefused(w)
  <2>1. Backs(bank'[p], [t.draft EXCEPT !.st = "closed"].st)
    BY <1>1 DEF Row, Backs, Counted
  <2> QED BY <1>1, <1>4, <1>7, <2>1, ClosedBooks DEF CloseRefused
<1>8. CASE CloseUnclear(w)
  <2> DEFINE u == [t EXCEPT !.at = "reask", !.seen = "none"]
  <2>1. u.at # "init" /\ u.pay = p /\ u.draft = t.draft /\ u.seen = "none"
    BY <1>1 DEF Request
  <2>2. RequestBacked(u, bank'[u.pay])
    BY <1>5, <2>1 DEF RequestBacked, BacksAnswer, Taken
  <2> QED BY <1>4, <1>8, <2>1, <2>2, RunsBooks DEF CloseUnclear
<1>9. CASE CloseAsksAgain(w)
  <2>1. PICK answered \in BOOLEAN : Commits(p, row[p], AskAgain(w, answered))
    BY <1>9 DEF CloseAsksAgain
  <2>2. Backs(bank'[p], AskAgain(w, answered).st)
    BY <1>1, <1>5, <1>9, AfterBacked
       DEF CloseAsksAgain, OnlyCommits, AskAgain, RequestBacked
  <2> QED BY <1>1, <1>4, <1>9, <2>1, <2>2, CommitsBooks DEF CloseAsksAgain
<1> QED BY <1>6, <1>7, <1>8, <1>9

LEMMA InitBooks ==
  ASSUME TypeInv, BooksInv, NEW w \in Workers,
         InsertAbandoned(w) \/ InitAnswered(w) \/ InitUnanswered(w)
  PROVE  BooksInv'
<1> DEFINE t == worker[w]
<1>1. t.pay \in Payments => Backs(bank[t.pay], t.draft.st)
  BY WorkerBacked DEF RequestBacked
<1>2. \A new, r : /\ MoneyStays /\ CommitsOld(w, new, r)
                  /\ r.st \notin Counted
                  => BooksFollowBank'
  BY <1>1, BackedStays DEF CommitsOld, BooksInv, BooksFollowBank, Backs, MoneyStays, Counted
<1>3. CASE InsertAbandoned(w)
  <2>1. BankStep /\ UnknownStays
    BY <1>3, StillMoney DEF InsertAbandoned, OnlyCommits, BooksInv
  <2>2. Absent.st \notin Counted
    BY DEF Absent, Counted
  <2>3. BooksFollowBank'
    BY <1>2, <1>3, <2>1, <2>2, BooksStay DEF InsertAbandoned, BankStep, BooksInv
  <2> QED BY <1>3, <2>1, <2>3, EndsBacked, EndsLinks DEF InsertAbandoned, BankStep, BooksInv
<1>4. CASE InitAnswered(w) \/ InitUnanswered(w)
  <2>1. t.at = "init" /\ t.new \in Payments /\ bank[t.new].st = "none" /\ Ends(w)
    BY <1>4 DEF InitAnswered, InitUnanswered, BooksInv, NewLinks, TypeInv, RequestOK
  <2>2. BankStep
    BY <1>4, <2>1, CallsMoney, StillMoney, Parts DEF InitAnswered, InitUnanswered, BooksInv
  <2>3. LinkIssued.st \notin Counted /\ InitFailed.st \notin Counted
    BY DEF LinkIssued, InitFailed, Absent, Counted
  <2>4. BooksFollowBank'
    BY <1>2, <1>4, <2>2, <2>3 DEF InitAnswered, InitUnanswered, BankStep
  <2>5. RequestsBacked'
    BY <2>1, <2>2, EndsBacked DEF BooksInv, BankStep
  <2>6. NewLinks'
    <3>1. \A v \in Workers : worker'[v].at # "init"
      BY <2>1 DEF Ends, Becomes, Idle, BooksInv, NewLinks, TypeInv, TypeOK
    <3> QED BY <3>1 DEF NewLinks
  <2> QED BY <2>2, <2>4, <2>5, <2>6 DEF BooksInv, BankStep
<1> QED BY <1>3, <1>4

LEMMA StartRefundBooks ==
  ASSUME TypeInv, BooksInv, NEW w \in Workers, NEW p \in Payments, StartRefund(w, p)
  PROVE  BooksInv'
<1> DEFINE t == [Idle EXCEPT !.at = "refund", !.op = "refund", !.pay = p,
                             !.draft = AttemptOf(row[p])]
<1>1. t.at = "refund" /\ t.pay = p /\ t.draft = AttemptOf(row[p]) /\ t.seen = "none"
  BY DEF Idle
<1>2. Backs(bank[p], AttemptOf(row[p]).st)
  BY DEF BooksInv, BooksFollowBank, Backs, AttemptOf, NextAttempt, Counted, TypeInv,
         TypeOK, Row
<1>3. BacksAnswer(bank[p], "none")
  BY DEF BacksAnswer, Taken
<1>4. Becomes(w, t) /\ OnlyRuns /\ UNCHANGED bank
  BY DEF StartRefund
<1>5. RequestBacked(t, bank'[t.pay])
  BY <1>1, <1>2, <1>3, <1>4 DEF RequestBacked
<1> QED BY <1>1, <1>4, <1>5, StillMoney, RunsBooks DEF BooksInv

LEMMA RefundBooks ==
  ASSUME TypeInv, BooksInv, NEW w \in Workers,
         \/ RefundAnswered(w) \/ RefundUnanswered(w) \/ RefundIsRefused(w)
         \/ RefundAsksState(w)
  PROVE  BooksInv'
<1> DEFINE t == worker[w]
           p == worker[w].pay
<1>1. /\ p \in Payments /\ t.draft \in Row /\ t \in Request
      /\ t.at = "refund" => t.draft.key \in Keys
  BY WorkerType
     DEF RefundAnswered, RefundUnanswered, RefundIsRefused, RefundAsksState, RequestFits
<1>2. BankTypeOK /\ MoneyFitsStatus
  BY Parts DEF BooksInv
<1>3. BankStep /\ UnknownStays
  BY <1>1, <1>2, CallsMoney, StillMoney
     DEF RefundAnswered, RefundUnanswered, RefundIsRefused, RefundAsksState, OnlyCommits
<1>4. RequestBacked(t, bank'[p]) /\ BacksAnswer(bank'[p], bank'[p].st)
      /\ BacksAnswer(bank'[p], "none")
  BY <1>1, <1>3, WorkerBacked, BackedStays, StatusBacksAnswer
     DEF RequestBacked, BankStep, MoneyFitsStatus
<1>5. CASE RefundAnswered(w)
  <2>1. Backs(bank'[p], After(t.draft, bank'[p].st, TRUE).st)
    BY <1>1, <1>4, AfterBacked DEF RequestBacked
  <2> QED BY <1>1, <1>3, <1>5, <2>1, CommitsBooks DEF RefundAnswered
<1>6. CASE RefundUnanswered(w)
  BY <1>1, <1>3, <1>4, <1>6, CommitsBooks DEF RefundUnanswered, RequestBacked
<1>7. CASE RefundIsRefused(w)
  <2> DEFINE u == [t EXCEPT !.at = "refundask"]
  <2>1. u.at # "init" /\ u.pay = p /\ u.draft = t.draft /\ u.seen = t.seen
    BY <1>1 DEF Request
  <2> QED BY <1>3, <1>4, <1>7, <2>1, RunsBooks DEF RefundIsRefused, RequestBacked
<1>8. CASE RefundAsksState(w)
  <2>1. PICK s \in {bank[p].st, "none"} : Commits(p, t.draft, AfterRefusal(t.draft, s))
    BY <1>8 DEF RefundAsksState
  <2>2. BacksAnswer(bank'[p], s)
    BY <1>4, <1>8, <2>1 DEF RefundAsksState, OnlyCommits
  <2>3. Backs(bank'[p], After(t.draft, s, TRUE).st)
    BY <1>1, <1>4, <2>2, AfterBacked DEF RequestBacked
  <2>4. s = "CONFIRMED" => Backs(bank'[p], RefundFailed(t.draft).st)
    BY <1>1, <2>2 DEF RefundFailed, Row, Backs, BacksAnswer, Taken
  <2>5. Backs(bank'[p], AfterRefusal(t.draft, s).st)
    BY <1>4, <2>3, <2>4 DEF AfterRefusal, RequestBacked
  <2> QED BY <1>1, <1>3, <1>8, <2>1, <2>5, CommitsBooks DEF RefundAsksState
<1> QED BY <1>5, <1>6, <1>7, <1>8

LEMMA NotificationBooks ==
  ASSUME TypeInv, BooksInv
  PROVE  /\ \A w \in Workers : NotificationApplied(w) => BooksInv'
         /\ \A p \in Payments, s \in Announced :
              /\ NotificationIgnored(p, s) => BooksInv'
              /\ \A w \in Workers : Notified(w, p, s) => BooksInv'
<1>1. ASSUME NEW w \in Workers, NotificationApplied(w)
      PROVE  BooksInv'
  <2> DEFINE t == worker[w]
             r == [Applied(w) EXCEPT !.bid = TRUE]
  <2>1. t.pay \in Payments /\ Applied(w) \in Row /\ UNCHANGED bank
    BY <1>1, WorkerType DEF NotificationApplied, RequestFits
  <2>2. BankStep /\ UnknownStays
    BY <2>1, StillMoney DEF BooksInv
  <2>3. r.st = Applied(w).st
    BY <2>1 DEF Row
  <2>4. Backs(bank'[t.pay], r.st)
    BY <2>1, <2>3, WorkerBacked
  <2>5. Commits(t.pay, t.draft, r) /\ Ends(w)
    BY <1>1 DEF NotificationApplied
  <2> QED BY <2>1, <2>2, <2>4, <2>5, CommitsBooks
<1>2. ASSUME NEW p \in Payments, NEW s \in Announced, NotificationIgnored(p, s)
      PROVE  BooksInv'
  BY <1>2 DEF NotificationIgnored, BooksInv, MoneyFitsStatus, BooksFollowBank,
              RequestsBacked, NewLinks
<1> QED BY <1>1, <1>2, AsksBooks DEF Notified

\* A request that dies: what it asked of the bank may have been done.
LEMMA DiesBooks ==
  ASSUME TypeInv, BooksInv, NEW w \in Workers, Dies(w)
  PROVE  BooksInv'
<1>1. /\ Ends(w) /\ OnlyRuns
      /\ worker[w].at = "init" => bank[worker[w].new].st = "none"
  BY DEF Dies, BooksInv, NewLinks
<1>2. BankStep
  BY <1>1, WorkerType, CallsMoney, StillMoney, Parts
     DEF Dies, CallMayReachBank, RequestFits, BooksInv
<1>3. NewLinks'
  <2>1. CASE worker[w].at = "init"
    <3>1. \A v \in Workers : worker'[v].at # "init"
      BY <1>1, <2>1 DEF Ends, Becomes, Idle, BooksInv, NewLinks, TypeInv, TypeOK
    <3> QED BY <3>1 DEF NewLinks
  <2>2. CASE worker[w].at # "init"
    <3>1. UnknownStays
      BY <2>2, WorkerType, CallsMoney, StillMoney, Parts
         DEF Dies, CallMayReachBank, RequestFits, BooksInv
    <3> QED BY <1>1, <3>1, EndsLinks DEF BooksInv
  <2> QED BY <2>1, <2>2
<1> QED BY <1>1, <1>2, <1>3, BooksStay, EndsBacked DEF BooksInv, BankStep, OnlyRuns

LEMMA PollBooks ==
  ASSUME TypeInv, BooksInv, NEW w \in Workers
  PROVE  /\ \A p \in Payments : StartPoll(w, p) => BooksInv'
         /\ PollAnswered(w) \/ PollApplied(w) \/ PollDiscarded(w) => BooksInv'
<1> DEFINE t == worker[w]
<1>1. UNCHANGED bank => BankStep /\ UnknownStays
  BY StillMoney DEF BooksInv
<1>2. ASSUME NEW p \in Payments, StartPoll(w, p)
      PROVE  BooksInv'
  <2> DEFINE u == [Idle EXCEPT !.at = "polled", !.op = "poll", !.pay = p, !.draft = row[p]]
  <2>1. u.at # "init" /\ u.pay = p /\ u.draft = row[p] /\ u.seen = "none"
    BY DEF Idle
  <2>2. Becomes(w, u) /\ OnlyRuns /\ UNCHANGED bank
    BY <1>2 DEF StartPoll
  <2>3. RequestBacked(u, bank'[u.pay])
    BY <2>1, <2>2 DEF RequestBacked, BacksAnswer, Taken, BooksInv, BooksFollowBank, Backs
  <2> QED BY <1>1, <2>1, <2>2, <2>3, RunsBooks
<1>3. CASE PollAnswered(w)
  <2> DEFINE u == [t EXCEPT !.at = "pollseen", !.seen = bank[t.pay].st,
                            !.right = bank[t.pay].right]
  <2>1. t.pay \in Payments /\ t \in Request
    BY <1>3, WorkerType DEF PollAnswered, RequestFits
  <2>2. /\ u.at # "init" /\ u.pay = t.pay /\ u.draft = t.draft
        /\ u.seen = bank[t.pay].st
    BY <2>1 DEF Request
  <2>3. Becomes(w, u) /\ OnlyRuns /\ UNCHANGED bank
    BY <1>3 DEF PollAnswered
  <2>4. RequestBacked(u, bank'[u.pay])
    BY <2>1, <2>2, <2>3, WorkerBacked, StatusBacksAnswer
       DEF RequestBacked, BooksInv, MoneyFitsStatus
  <2> QED BY <1>1, <2>2, <2>3, <2>4, RunsBooks
<1>4. CASE PollApplied(w)
  <2>1. t.pay \in Payments /\ UNCHANGED bank
    BY <1>4, WorkerType DEF PollApplied, RequestFits
  <2>2. Backs(bank'[t.pay], Applied(w).st)
    BY <2>1, WorkerBacked
  <2> QED BY <1>1, <1>4, <2>1, <2>2, CommitsBooks DEF PollApplied
<1>5. CASE PollDiscarded(w)
  <2>1. Ends(w) /\ OnlyRuns /\ UNCHANGED bank
    BY <1>5 DEF PollDiscarded
  <2> QED BY <1>1, <2>1, BooksStay, EndsBacked, EndsLinks DEF BooksInv, BankStep, OnlyRuns
<1> QED BY <1>2, <1>3, <1>4, <1>5

LEMMA WorldBooks ==
  ASSUME TypeInv, BooksInv, NEW p \in Payments, World(p)
  PROVE  BooksInv'
<1>1. BankStep /\ UnknownStays
  BY BankNextMoney, Parts DEF World, BuyerPays, BooksInv
<1>2. BooksFollowBank'
  BY <1>1, BooksStay DEF World, BankStep, BooksInv
<1>3. RequestsBacked'
  BY <1>1, BackedStays DEF World, BankStep, BooksInv, RequestsBacked, RequestBacked
<1>4. NewLinks'
  BY <1>1 DEF World, BooksInv, NewLinks, UnknownStays, TypeInv, RequestOK
<1> QED BY <1>1, <1>2, <1>3, <1>4 DEF BooksInv, BankStep

LEMMA FirstBooks ==
  Init => BooksInv
<1> SUFFICES ASSUME Init PROVE BooksInv
  OBVIOUS
<1>1. MoneyFitsStatus
  BY DEF Init, BankInit, Unknown, MoneyFitsStatus, MoneyFits
<1>2. BooksFollowBank
  BY DEF Init, BooksFollowBank, Absent, Counted
<1>3. RequestsBacked /\ NewLinks
  BY NoPaymentAssumption DEF Init, Idle, RequestsBacked, NewLinks
<1> QED BY <1>1, <1>2, <1>3 DEF BooksInv

LEMMA NextBooks ==
  TypeInv /\ BooksInv /\ [Next]_vars => BooksInv'
<1> SUFFICES ASSUME TypeInv, BooksInv, [Next]_vars PROVE BooksInv'
  OBVIOUS
<1>1. ASSUME NEW w \in Workers, Works(w) PROVE BooksInv'
  <2>1. ASSUME NEW p \in Payments,
               \/ InitiateOverDeadLink(w, p) \/ InsertPayment(w, p) \/ CancelLink(w, p)
               \/ RetireLink(w, p) \/ StartRefund(w, p) \/ StartPoll(w, p)
               \/ \E s \in Announced : Notified(w, p, s)
        PROVE  BooksInv'
    BY <2>1, InitiateBooks, InsertBooks, StartRefundBooks, PollBooks, NotificationBooks
  <2> QED BY <1>1, <2>1, InitiateBooks, AskedBooks, CloseBooks, InitBooks, RefundBooks,
             NotificationBooks, PollBooks, DiesBooks DEF Works
<1>2. CASE UNCHANGED vars
  BY <1>2 DEF vars, BooksInv, MoneyFitsStatus, BooksFollowBank, RequestsBacked, NewLinks
<1> QED BY <1>1, <1>2, WorldBooks, NotificationBooks DEF Next

(***************************************************************************)
(* The invariant about committed rows and about requests under way.        *)
(***************************************************************************)
THEOREM BooksInductive == Spec => []BooksInv
  BY FirstBooks, NextBooks, TypeInductive, PTL DEF Spec

(***************************************************************************)
(* The books follow the bank, for any number of payments, of requests at   *)
(* once and of refund attempts, whatever the bank may surprise with.       *)
(***************************************************************************)
THEOREM BooksAreBacked == Spec => []BooksFollowBank
<1>1. BooksInv => BooksFollowBank
  BY DEF BooksInv
<1> QED BY <1>1, BooksInductive, PTL

(***************************************************************************)
(* An order is paid by money.                                              *)
(***************************************************************************)

\* What the bank's record b tells of refunds: a refund under way has an order,
\* and money that a REJECTED payment has is there since an order was rejected.
RefundFits(b) == /\ b.st = "REFUNDING" => b.orders # {}
                 /\ b.st = "REJECTED" => b.money = "none" \/ b.rejected # {}
RefundsFit == \A p \in Payments : RefundFits(bank[p])

WasReturned(b) == \/ b.st \in {"REFUNDING", "REFUNDED", "PARTIAL_REFUNDED"}
                  \/ b.rejected # {}
Due(b) == b.right \/ b.rejected # {}

\* An answer that may be old, and the record as it is now.
Answer(s, right, b) ==
  /\ s = "CONFIRMED" => b.money # "none" /\ right = b.right
  /\ s = "REJECTED" => b.rejected # {} \/ (b.st = "REJECTED" /\ b.money = "none")
  /\ s \in {"REFUNDING", "REFUNDED"} => WasReturned(b)

\* A status that counts p is explained by a paid application or a refund.
Explained(p, st, by, b) ==
  st \in Counted => p \in DemoPayments \/ by # NoPayment \/ WasReturned(b)

Polling == {"polled", "pollseen"}
Agrees(t, r) ==
  /\ r.st # "absent" /\ t.draft.st # "absent"
  /\ t.at \notin Polling /\ r.st \in Counted => t.draft.st \in Counted
  /\ t.at = "asked" => t.draft = r
  /\ t.at \in {"close", "reask"} => t.draft.st \in Open /\ r.st \in Open
  /\ t.at \in {"refund", "refundask"} => t.draft.st = "refund_requested"
Knows(t, by, b) == /\ Answer(t.seen, t.right, b)
                   /\ Explained(t.pay, t.draft.st, by, b)

OneHolder == \A v, w \in Workers : \A p \in Payments :
               HoldsLock(v, p) /\ HoldsLock(w, p) => v = w
NewRows == \A w \in Workers :
             worker[w].at = "init" => row[worker[w].new].st = "absent"
Agreement == \A w \in Workers : worker[w].pay \in Payments =>
               Agrees(worker[w], row[worker[w].pay])
Knowledge == \A w \in Workers : worker[w].pay \in Payments =>
               Knows(worker[w], paidBy, bank[worker[w].pay])
CountedIsExplained == \A p \in Payments : Explained(p, row[p].st, paidBy, bank[p])
PaidIsDue == paidBy # NoPayment => /\ paidBy \notin DemoPayments
                                   /\ row[paidBy].st \in Counted
                                   /\ Due(bank[paidBy])

PaidInv == /\ RefundsFit /\ OneHolder /\ NewRows /\ Agreement /\ Knowledge
           /\ CountedIsExplained /\ PaidIsDue

(***************************************************************************)
(* What the bank does to its refunds, and what stays true of its answers.  *)
(***************************************************************************)
Grows(b, c) ==
  /\ b.money # "none" => c.money # "none" /\ c.right = b.right
  /\ b.rejected # {} => c.rejected # {}
  /\ WasReturned(b) => WasReturned(c)
  /\ b.st = "REJECTED" /\ b.money = "none" => c.st = "REJECTED" /\ c.money = "none"
Learns == RefundsFit' /\ \A p \in Payments : Grows(bank[p], bank'[p])

LEMMA MovesLearn ==
  ASSUME BankTypeOK, RefundsFit, NEW p \in Payments, NEW b, Moves(p, b), RefundFits(b),
         Grows(bank[p], b)
  PROVE  Learns
  BY DEF BankTypeOK, Moves, RefundsFit, Learns, Grows

LEMMA StillLearns ==
  ASSUME RefundsFit, UNCHANGED bank
  PROVE  Learns
  BY DEF RefundsFit, Learns, Grows

LEMMA BankNextLearns ==
  ASSUME BankTypeOK, MoneyFitsStatus, RefundsFit, NEW p \in Payments,
         BankNext(p) \/ PayerPays(p)
  PROVE  Learns
<1> bank[p] \in BankRecord /\ MoneyFits(bank[p]) /\ RefundFits(bank[p])
  BY DEF BankTypeOK, MoneyFitsStatus, RefundsFit
<1> USE DEF BankRecord, Money, MoneyFits, RefundFits, Grows, WasReturned
<1>1. CASE PayerPays(p)
  BY <1>1, MovesLearn DEF PayerPays
<1>2. CASE PayerFails(p)
  BY <1>2, MovesLearn DEF PayerFails
<1>3. CASE Confirms(p)
  BY <1>3, MovesLearn DEF Confirms
<1>4. CASE LinkExpires(p)
  BY <1>4, MovesLearn DEF LinkExpires
<1>5. CASE RefundCompletes(p)
  BY <1>5, MovesLearn DEF RefundCompletes
<1>6. CASE RefundIsRejected(p)
  BY <1>6, MovesLearn DEF RefundIsRejected
<1>7. CASE CabinetRefund(p)
  BY <1>7, MovesLearn DEF CabinetRefund, Refundable, KeepsMoney, Refunding
<1>8. CASE CabinetPartialRefund(p)
  BY <1>8, MovesLearn DEF CabinetPartialRefund
<1> QED BY <1>1, <1>2, <1>3, <1>4, <1>5, <1>6, <1>7, <1>8 DEF BankNext

LEMMA CallsLearn ==
  ASSUME BankTypeOK, MoneyFitsStatus, RefundsFit, NEW p \in Payments
  PROVE  /\ InitAccepted(p) /\ bank[p].st = "none" => Learns
         /\ CancelStarts(p) => Learns
         /\ CancelRefused(p) => Learns
         /\ \A k \in Keys : RefundAccepted(p, k) => Learns
<1> bank[p] \in BankRecord /\ MoneyFits(bank[p]) /\ RefundFits(bank[p])
  BY DEF BankTypeOK, MoneyFitsStatus, RefundsFit
<1> USE DEF BankRecord, MoneyFits, RefundFits, Grows, WasReturned
<1>1. InitAccepted(p) /\ bank[p].st = "none" => Learns
  BY MovesLearn DEF InitAccepted
<1>2. CancelVoids(p) => Learns
  BY MovesLearn DEF CancelVoids, Payable
<1>3. CancelReturnsMoney(p) => Learns
  BY MovesLearn DEF CancelReturnsMoney, Refundable, KeepsMoney, Refunding, Refunded
<1>4. CancelStarts(p) => Learns
  BY <1>2, <1>3, StillLearns DEF CancelStarts, CancelReverses
<1>5. CancelRefused(p) => Learns
  BY DEF CancelRefused, BankTypeOK, RefundsFit, Learns
<1>6. ASSUME NEW k \in Keys, RefundAccepted(p, k)
      PROVE  Learns
  <2>1. CASE UNCHANGED <<bank, inbox>>
    BY <2>1, StillLearns
  <2>2. CASE /\ Refundable(p) \/ bank[p].st = "REFUNDING"
             /\ \E b \in {Refunding(p, k), Refunded(p, k)} : Moves(p, b)
    BY <2>2, MovesLearn DEF Refundable, KeepsMoney, Refunding, Refunded
  <2> QED BY <1>6, <2>1, <2>2 DEF RefundAccepted
<1> QED BY <1>1, <1>4, <1>5, <1>6

LEMMA StateAnswers ==
  ASSUME NEW b, MoneyFits(b), RefundFits(b)
  PROVE  Answer(b.st, b.right, b) /\ \A right : Answer("none", right, b)
  BY DEF MoneyFits, RefundFits, Answer, WasReturned

LEMMA KnowsStays ==
  ASSUME NEW t, NEW by, NEW by2, NEW b, NEW c, Grows(b, c), Knows(t, by, b),
         by # NoPayment => by2 # NoPayment
  PROVE  Knows(t, by2, c)
  BY DEF Knows, Answer, Explained, Grows

LEMMA ExplainedStays ==
  ASSUME NEW p, NEW st, NEW by, NEW by2, NEW b, NEW c, Grows(b, c),
         Explained(p, st, by, b), by # NoPayment => by2 # NoPayment
  PROVE  Explained(p, st, by2, c)
  BY DEF Explained, Grows

(***************************************************************************)
(* What the automaton makes of a row is due to the platform where it       *)
(* counts it, and explained where it does not.                             *)
(***************************************************************************)
Sound(p, old, r, by, b) ==
  /\ NewlyCounted(old, r) => Due(b)
  /\ GaveRefundUp(old, r) /\ by = NoPayment /\ p \notin DemoPayments => Due(b)
  /\ ~NewlyCounted(old, r) => Explained(p, r.st, by, b)

LEMMA AfterSound ==
  ASSUME NEW p, NEW r \in Row, NEW s, NEW right, NEW by, NEW b, r.st # "absent",
         Answer(s, b.right, b), s = "CONFIRMED" /\ r.st \notin Counted => right = b.right,
         Explained(p, r.st, by, b), Backs(b, r.st)
  PROVE  /\ After(r, s, right).st # "absent"
         /\ r.st \in Counted => After(r, s, right).st \in Counted
         /\ Sound(p, r, After(r, s, right), by, b)
<1> USE DEF Sound, NewlyCounted, GaveRefundUp, Explained, Row, Counted, Open
<1>1. CASE s = "CONFIRMED" /\ MayCount(r)
  <2>1. After(r, s, right) = PaidAs(r, right)
    BY <1>1 DEF After, FinalUnpaid
  <2> QED BY <1>1, <2>1 DEF PaidAs, MayCount, Answer, Due
<1>2. CASE s \in {"NEW", "MOVING"} /\ r.st \in Open /\ r.prov # "MISMATCH"
  <2>1. After(r, s, right) = [r EXCEPT !.prov = s]
    BY <1>2 DEF After, FinalUnpaid
  <2> QED BY <1>2, <2>1
<1>3. CASE s \in FinalUnpaid /\ r.st \in Open
  <2>1. After(r, s, right) = [r EXCEPT !.st = UnpaidAs(s), !.prov = s]
    BY <1>3 DEF After, FinalUnpaid
  <2> QED BY <1>3, <2>1 DEF UnpaidAs
<1>4. CASE s = "REJECTED" /\ r.st = "refund_requested"
  <2>1. After(r, s, right) = RefundFailed(r)
    BY <1>4 DEF After, FinalUnpaid
  <2> QED BY <1>4, <2>1 DEF RefundFailed, Answer, Due, Backs
<1>5. CASE s \in {"REFUNDING", "REFUNDED"} /\ r.st # "refunded"
  <2>1. After(r, s, right) =
          [r EXCEPT !.st = Returning(s), !.prov = s, !.key = KeyAfter(r, s)]
    BY <1>5 DEF After, FinalUnpaid
  <2> QED BY <1>5, <2>1 DEF Returning, Answer
<1>6. CASE /\ s = "PARTIAL_REFUNDED" /\ r.prov # s
           /\ r.st \in {"succeeded", "refund_requested"}
  <2>1. After(r, s, right) = [r EXCEPT !.st = "succeeded", !.prov = s, !.key = NoKey]
    BY <1>6 DEF After, FinalUnpaid
  <2> QED BY <1>6, <2>1
<1>7. CASE After(r, s, right) = r
  BY <1>7 DEF Answer, Due, Backs
<1> QED BY <1>1, <1>2, <1>3, <1>4, <1>5, <1>6, <1>7 DEF After

(***************************************************************************)
(* A request changes, and nothing is committed.                            *)
(***************************************************************************)
AloneWith(w, p) == \A v \in Workers : v # w => ~HoldsLock(v, p)

LEMMA RunsPaid ==
  ASSUME TypeInv, BooksFollowBank, PaidInv, Learns, OnlyRuns,
         NEW w \in Workers, NEW t, Becomes(w, t),
         t.pay \in Payments => /\ Agrees(t, row[t.pay])
                               /\ Knows(t, paidBy, bank'[t.pay])
                               /\ t.at \notin Polling => AloneWith(w, t.pay),
         t.at = "init" => row[t.new].st = "absent"
  PROVE  PaidInv'
<1>1. \A v \in Workers : worker'[v] = IF v = w THEN t ELSE worker[v]
  BY DEF Becomes, TypeInv, TypeOK
<1>2. UNCHANGED <<row, paidBy>>
  BY DEF OnlyRuns
<1>3. OneHolder'
  <2> SUFFICES ASSUME NEW u \in Workers, NEW v \in Workers, NEW p \in Payments,
                      HoldsLock(u, p)', HoldsLock(v, p)', u # v
               PROVE  FALSE
    BY DEF OneHolder
  <2>1. \A x \in Workers : x # w /\ HoldsLock(x, p)' => HoldsLock(x, p)
    BY <1>1 DEF HoldsLock
  <2>2. HoldsLock(w, p)' => AloneWith(w, p)
    BY <1>1 DEF HoldsLock, Polling
  <2> QED BY <2>1, <2>2 DEF AloneWith, PaidInv, OneHolder
<1>4. NewRows'
  BY <1>1, <1>2 DEF PaidInv, NewRows
<1>5. Agreement'
  BY <1>1, <1>2 DEF PaidInv, Agreement
<1>6. Knowledge'
  BY <1>1, <1>2, KnowsStays DEF PaidInv, Knowledge, Learns
<1>7. CountedIsExplained'
  BY <1>2, ExplainedStays DEF PaidInv, CountedIsExplained, Learns
<1>8. PaidIsDue'
  <2> SUFFICES ASSUME paidBy # NoPayment
               PROVE  Due(bank'[paidBy])
    BY <1>2 DEF PaidInv, PaidIsDue
  <2>1. paidBy \in Payments /\ bank[paidBy].money # "none" /\ Due(bank[paidBy])
    BY DEF PaidInv, PaidIsDue, TypeInv, TypeOK, BooksFollowBank
  <2> QED BY <2>1 DEF Learns, Grows, Due
<1> QED BY <1>3, <1>4, <1>5, <1>6, <1>7, <1>8 DEF PaidInv, Learns

(***************************************************************************)
(* A request commits one row and ends.                                     *)
(***************************************************************************)
CountedStays(p, r) == r.st # "absent" /\ (row[p].st \in Counted => r.st \in Counted)

LEMMA CommitsTell ==
  ASSUME TypeInv, PaidInv, NEW p \in Payments, NEW old, NEW r, NEW b,
         Sound(p, old, r, paidBy, b), Commits(p, old, r)
  PROVE  /\ \A q \in Payments : row'[q] = IF q = p THEN r ELSE row[q]
         /\ paidBy # NoPayment => paidBy' = paidBy
         /\ paidBy' # paidBy => /\ paidBy' = p /\ p \notin DemoPayments
                                /\ r.st \in Counted /\ Due(b)
         /\ Explained(p, r.st, paidBy', b)
<1>1. \A q \in Payments : row'[q] = IF q = p THEN r ELSE row[q]
  BY DEF Commits, TypeInv, TypeOK
<1>2. NewlyCounted(old, r) \/ GaveRefundUp(old, r) => r.st \in Counted
  BY DEF NewlyCounted, GaveRefundUp, Counted
<1>3. CASE NewlyCounted(old, r) \/ (GaveRefundUp(old, r) /\ AwaitingPayment)
  BY <1>1, <1>2, <1>3, NoPaymentAssumption
     DEF Commits, Consequences, OnPaid, AwaitingPayment, Sound, Explained
<1>4. CASE ~(NewlyCounted(old, r) \/ (GaveRefundUp(old, r) /\ AwaitingPayment))
  BY <1>1, <1>4 DEF Commits, Consequences, Sound, Explained
<1> QED BY <1>3, <1>4

LEMMA CommitsPaid ==
  ASSUME TypeInv, BooksFollowBank, PaidInv, Learns, NEW w \in Workers, Ends(w),
         NEW p \in Payments, AloneWith(w, p), row[p].st # "absent", NEW old, NEW r,
         CountedStays(p, r), Sound(p, old, r, paidBy, bank'[p]), Commits(p, old, r)
  PROVE  PaidInv'
<1>1. \A v \in Workers : worker'[v] = IF v = w THEN Idle ELSE worker[v]
  BY DEF Ends, Becomes, TypeInv, TypeOK
<1>2. Idle.pay \notin Payments /\ Idle.at # "init"
  BY NoPaymentAssumption DEF Idle
<1>3. /\ \A q \in Payments : row'[q] = IF q = p THEN r ELSE row[q]
      /\ paidBy # NoPayment => paidBy' = paidBy
      /\ paidBy' # paidBy => /\ paidBy' = p /\ p \notin DemoPayments
                             /\ r.st \in Counted /\ Due(bank'[p])
      /\ Explained(p, r.st, paidBy', bank'[p])
  BY CommitsTell
<1>4. OneHolder'
  BY <1>1, <1>2 DEF PaidInv, OneHolder, HoldsLock
<1>5. NewRows'
  <2>1. \A v \in Workers : worker[v].at = "init" => worker[v].new \in Payments
    BY DEF TypeInv, RequestOK
  <2> QED BY <1>1, <1>2, <1>3, <2>1 DEF PaidInv, NewRows
<1>6. Agreement'
  <2> SUFFICES ASSUME NEW v \in Workers, worker'[v].pay \in Payments
               PROVE  Agrees(worker'[v], row'[worker'[v].pay])
    BY DEF Agreement
  <2>1. v # w /\ worker'[v] = worker[v]
    BY <1>1, <1>2
  <2>2. Agrees(worker[v], row[worker[v].pay])
    BY <2>1 DEF PaidInv, Agreement
  <2>3. CASE worker[v].pay = p
    <3>1. worker[v].at \in Polling
      BY <2>1, <2>3 DEF AloneWith, HoldsLock, Polling
    <3> QED BY <1>3, <2>1, <2>2, <2>3, <3>1 DEF Agrees, CountedStays, Polling
  <2>4. CASE worker[v].pay # p
    BY <1>3, <2>1, <2>2, <2>4
  <2> QED BY <2>3, <2>4
<1>7. Knowledge'
  BY <1>1, <1>2, <1>3, KnowsStays DEF PaidInv, Knowledge, Learns
<1>8. CountedIsExplained'
  <2> SUFFICES ASSUME NEW q \in Payments
               PROVE  Explained(q, row'[q].st, paidBy', bank'[q])
    BY DEF CountedIsExplained
  <2>1. Explained(q, row[q].st, paidBy, bank[q])
    BY DEF PaidInv, CountedIsExplained
  <2> QED BY <1>3, <2>1, ExplainedStays DEF Learns
<1>9. PaidIsDue'
  <2>1. CASE paidBy' # paidBy
    BY <1>3, <2>1 DEF PaidIsDue
  <2>2. CASE paidBy' = paidBy
    <3> SUFFICES ASSUME paidBy # NoPayment
                 PROVE  row'[paidBy].st \in Counted /\ Due(bank'[paidBy])
      BY <2>2 DEF PaidInv, PaidIsDue
    <3>1. /\ paidBy \in Payments /\ row[paidBy].st \in Counted
          /\ bank[paidBy].money # "none" /\ Due(bank[paidBy])
      BY DEF PaidInv, PaidIsDue, TypeInv, TypeOK, BooksFollowBank
    <3> QED BY <1>3, <3>1 DEF CountedStays, Learns, Grows, Due
  <2> QED BY <2>1, <2>2
<1> QED BY <1>4, <1>5, <1>6, <1>7, <1>8, <1>9 DEF PaidInv, Learns

(***************************************************************************)
(* What is known of a running request.                                     *)
(***************************************************************************)
LEMMA WorkerKnows ==
  ASSUME TypeInv, BooksInv, PaidInv, NEW w \in Workers, worker[w].pay \in Payments
  PROVE  /\ Agrees(worker[w], row[worker[w].pay])
         /\ Knows(worker[w], paidBy, bank[worker[w].pay])
         /\ worker[w].at \notin Polling => AloneWith(w, worker[w].pay)
         /\ Explained(worker[w].pay, row[worker[w].pay].st, paidBy, bank[worker[w].pay])
<1>1. worker[w].at \notin Polling => HoldsLock(w, worker[w].pay)
  BY DEF HoldsLock, Polling
<1> QED BY <1>1 DEF PaidInv, Agreement, Knowledge, CountedIsExplained, OneHolder, AloneWith

LEMMA AppliedSound ==
  ASSUME TypeInv, BooksInv, PaidInv, NEW w \in Workers, worker[w].pay \in Payments
  PROVE  /\ CountedStays(worker[w].pay, Applied(w))
         /\ Sound(worker[w].pay, row[worker[w].pay], Applied(w), paidBy,
                  bank[worker[w].pay])
<1> DEFINE t == worker[w]
           p == worker[w].pay
<1>1. row[p] \in Row /\ row[p].st # "absent" /\ Explained(p, row[p].st, paidBy, bank[p])
  BY WorkerType, WorkerKnows DEF Agrees
<1>2. /\ Answer(t.seen, bank[p].right, bank[p])
      /\ t.seen = "CONFIRMED" => t.right = bank[p].right
  BY WorkerKnows DEF Knows, Answer
<1>3. Backs(bank[p], row[p].st)
  BY WorkerBacked
<1> QED BY <1>1, <1>2, <1>3, AfterSound DEF Applied, CountedStays

(***************************************************************************)
(* Action by action.                                                       *)
(***************************************************************************)
LEMMA AsksPaid ==
  ASSUME TypeInv, BooksInv, PaidInv, NEW w \in Workers, NEW p \in Payments, NEW op, NEW n,
         row[p].st # "absent", Asks(w, op, p, n)
  PROVE  PaidInv'
<1> DEFINE t == [Idle EXCEPT !.at = "asked", !.op = op, !.pay = p,
                             !.draft = row[p], !.seen = bank[p].st,
                             !.right = bank[p].right, !.note = n]
<1>1. /\ t.at = "asked" /\ t.pay = p /\ t.draft = row[p] /\ t.seen = bank[p].st
      /\ t.right = bank[p].right
  BY DEF Idle
<1>2. Becomes(w, t) /\ OnlyRuns /\ UNCHANGED bank /\ AloneWith(w, p)
  BY DEF Asks, Unlocked, AloneWith
<1>3. Agrees(t, row[p])
  BY <1>1 DEF Agrees
<1>4. Knows(t, paidBy, bank'[p])
  BY <1>1, <1>2, StateAnswers
     DEF Knows, PaidInv, CountedIsExplained, RefundsFit, BooksInv, MoneyFitsStatus
<1> HIDE DEF t
<1> QED BY <1>1, <1>2, <1>3, <1>4, StillLearns, RunsPaid DEF PaidInv, BooksInv

LEMMA InitiatePaid ==
  ASSUME TypeInv, BooksInv, PaidInv, NEW w \in Workers
  PROVE  /\ InitiateFresh(w) => PaidInv'
         /\ \A p \in Payments : InitiateOverDeadLink(w, p) \/ CancelLink(w, p) \/ RetireLink(w, p)
              => PaidInv'
<1>1. ASSUME InitiateFresh(w)
      PROVE  PaidInv'
  <2> DEFINE t == ReadyToInsert(NoPayment, Absent)
  <2>1. t.at # "init" /\ t.pay \notin Payments
    BY NoPaymentAssumption DEF ReadyToInsert, Idle
  <2>2. Becomes(w, t) /\ OnlyRuns /\ UNCHANGED bank
    BY <1>1 DEF InitiateFresh
  <2> HIDE DEF t
  <2> QED BY <2>1, <2>2, StillLearns, RunsPaid DEF BooksInv, PaidInv
<1> QED BY <1>1, AsksPaid DEF InitiateOverDeadLink, CancelLink, RetireLink, Open

LEMMA InsertPaid ==
  ASSUME TypeInv, BooksInv, PaidInv, NEW w \in Workers, NEW p \in Payments,
         InsertPayment(w, p)
  PROVE  PaidInv'
<1> DEFINE t == [worker[w] EXCEPT !.at = "init", !.new = p]
<1>1. /\ Becomes(w, t) /\ OnlyRuns /\ UNCHANGED bank
      /\ row[p].st = "absent" /\ worker[w].at = "insert"
  BY DEF InsertPayment
<1>2. worker[w] \in Request
  BY DEF TypeInv, TypeOK
<1>3. /\ t.at = "init" /\ t.new = p /\ t.pay = worker[w].pay
      /\ t.draft = worker[w].draft /\ t.seen = worker[w].seen
      /\ t.right = worker[w].right
  BY <1>2 DEF Request
<1> HIDE DEF t
<1>4. t.pay \in Payments => /\ Agrees(t, row[t.pay])
                            /\ Knows(t, paidBy, bank'[t.pay])
                            /\ AloneWith(w, t.pay)
  BY <1>1, <1>3, WorkerKnows DEF Agrees, Knows, Polling
<1> QED BY <1>1, <1>3, <1>4, StillLearns, RunsPaid DEF BooksInv, PaidInv

LEMMA FreshKnows ==
  ASSUME NEW p, NEW r, NEW by, NEW b, NEW q, r.st # "absent", q.st # "absent",
         q.st \in Counted => r.st \in Counted, Explained(p, r.st, by, b)
  PROVE  /\ Agrees(ReadyToInsert(p, r), q)
         /\ Knows(ReadyToInsert(p, r), by, b)
         /\ ReadyToInsert(p, r).pay = p /\ ReadyToInsert(p, r).at = "insert"
  BY DEF Agrees, Knows, Answer, ReadyToInsert, Idle, Polling

LEMMA AskedPaid ==
  ASSUME TypeInv, BooksInv, PaidInv, NEW w \in Workers,
         AskedAndLeft(w) \/ AskedAndGoesOn(w)
  PROVE  PaidInv'
<1> DEFINE t == worker[w]
           p == worker[w].pay
           r == Applied(w)
<1>1. t.at = "asked" /\ p \in Payments /\ UNCHANGED bank /\ t \in Request
  BY WorkerType DEF AskedAndLeft, AskedAndGoesOn, RequestFits, OnlyCommits
<1>2. Learns
  BY <1>1, StillLearns DEF PaidInv
<1>3. /\ t.draft = row[p] /\ row[p].st # "absent" /\ AloneWith(w, p)
      /\ Answer(t.seen, t.right, bank[p])
  BY <1>1, WorkerKnows DEF Agrees, Knows, Polling
<1>4. CountedStays(p, r) /\ Sound(p, row[p], r, paidBy, bank[p])
  BY <1>1, AppliedSound
<1>5. CASE AskedAndLeft(w)
  <2>1. Commits(p, t.draft, r) /\ Ends(w)
    BY <1>5 DEF AskedAndLeft
  <2> HIDE DEF r
  <2> QED BY <1>1, <1>2, <1>3, <1>4, <2>1, CommitsPaid DEF BooksInv
<1>6. CASE AskedAndGoesOn(w)
  <2>1. OnlyRuns
    BY <1>6 DEF AskedAndGoesOn
  <2>2. CASE r.st \in Open /\ Becomes(w, [t EXCEPT !.at = "close", !.draft = r])
    <3> DEFINE u == [t EXCEPT !.at = "close", !.draft = r]
    <3>1. /\ u.at = "close" /\ u.pay = p /\ u.draft = r /\ u.seen = t.seen
          /\ u.right = t.right
      BY <1>1 DEF Request
    <3> HIDE DEF u, r
    <3>2. row[p].st \in Open
      BY <1>1, <2>2, WorkerType
         DEF r, Applied, After, PaidAs, MayCount, FinalUnpaid, UnpaidAs, Returning, KeyAfter,
             RefundFailed, Row, Open, Counted
    <3>3. Agrees(u, row[p])
      BY <1>3, <1>4, <2>2, <3>1, <3>2 DEF Agrees, CountedStays, Open
    <3>4. Knows(u, paidBy, bank'[p])
      BY <1>1, <1>3, <2>2, <3>1 DEF Knows, Explained, Open, Counted
    <3>5. Becomes(w, u)
      BY <2>2 DEF u
    <3> QED BY <1>1, <1>2, <1>3, <2>1, <3>1, <3>3, <3>4, <3>5, RunsPaid DEF BooksInv
  <2>3. CASE r.st \notin Open \union {"succeeded"} /\ Becomes(w, ReadyToInsert(p, r))
    <3> HIDE DEF r
    <3>1. Explained(p, r.st, paidBy, bank'[p])
      BY <1>1, <1>4, <2>3 DEF Sound, NewlyCounted
    <3>2. /\ Agrees(ReadyToInsert(p, r), row[p])
          /\ Knows(ReadyToInsert(p, r), paidBy, bank'[p])
          /\ ReadyToInsert(p, r).pay = p /\ ReadyToInsert(p, r).at = "insert"
      BY <1>3, <1>4, <3>1, FreshKnows DEF CountedStays
    <3> QED BY <1>2, <1>3, <2>1, <2>3, <3>2, RunsPaid DEF BooksInv
  <2> QED BY <1>6, <2>2, <2>3 DEF AskedAndGoesOn
<1> QED BY <1>5, <1>6

\* A link that was open when it was to be closed, and is not counted after it.
LEMMA ClosedPaid ==
  ASSUME TypeInv, BooksInv, PaidInv, Learns, NEW w \in Workers,
         worker[w].pay \in Payments, worker[w].at = "close", NEW r,
         r.st # "absent", r.st # "succeeded",
         Explained(worker[w].pay, r.st, paidBy, bank'[worker[w].pay]), Closed(w, r)
  PROVE  PaidInv'
<1> DEFINE p == worker[w].pay
<1>1. row[p].st # "absent" /\ row[p].st \notin Counted /\ AloneWith(w, p)
  BY WorkerKnows DEF Agrees, Polling, Open, Counted
<1>2. CASE Becomes(w, ReadyToInsert(p, r)) /\ OnlyRuns
  <2>1. /\ Agrees(ReadyToInsert(p, r), row[p])
        /\ Knows(ReadyToInsert(p, r), paidBy, bank'[p])
        /\ ReadyToInsert(p, r).pay = p /\ ReadyToInsert(p, r).at = "insert"
    BY <1>1, FreshKnows
  <2> QED BY <1>1, <1>2, <2>1, RunsPaid DEF BooksInv
<1>3. CASE Commits(p, row[p], r) /\ Ends(w)
  <2>1. CountedStays(p, r) /\ Sound(p, row[p], r, paidBy, bank'[p])
    BY <1>1 DEF CountedStays, Sound, NewlyCounted, GaveRefundUp
  <2> QED BY <1>1, <1>3, <2>1, CommitsPaid DEF BooksInv
<1> QED BY <1>2, <1>3 DEF Closed

LEMMA CloseMoves ==
  ASSUME BankTypeOK, NEW p \in Payments, CancelStarts(p)
  PROVE  bank'[p].st \in {"VOIDED", "MOVING", "REFUNDING", "REFUNDED"}
<1> bank[p] \in BankRecord
  BY DEF BankTypeOK
<1>1. CASE CancelVoids(p)
  BY <1>1 DEF CancelVoids, Moves, BankTypeOK, BankRecord
<1>2. CASE CancelReverses(p)
  BY <1>2 DEF CancelReverses
<1>3. CASE CancelReturnsMoney(p)
  BY <1>3 DEF CancelReturnsMoney, Moves, Refunding, Refunded, BankTypeOK, BankRecord
<1> QED BY <1>1, <1>2, <1>3 DEF CancelStarts

LEMMA CloseAcceptedPaid ==
  ASSUME TypeInv, BooksInv, PaidInv, NEW w \in Workers, CloseAccepted(w)
  PROVE  PaidInv'
<1> DEFINE t == worker[w]
           p == worker[w].pay
           s == bank'[p].st
           r == After(t.draft, s, TRUE)
<1>1. p \in Payments /\ t.draft \in Row /\ t.at = "close" /\ CancelStarts(p)
  BY WorkerType DEF CloseAccepted, RequestFits
<1>2. BankStep /\ Learns
  BY <1>1, CallsMoney, CallsLearn, Parts DEF BooksInv, PaidInv
<1>3. s \in {"VOIDED", "MOVING", "REFUNDING", "REFUNDED"}
  BY <1>1, CloseMoves, Parts
<1>4. t.draft.st \in Open /\ t.draft.st \notin Counted /\ t.draft.st # "absent"
  BY <1>1, WorkerKnows DEF Agrees, Open, Counted
<1>5. Answer(s, bank'[p].right, bank'[p])
  BY <1>1, <1>2, StateAnswers DEF BankStep, MoneyFitsStatus, Learns, RefundsFit
<1>6. Explained(p, t.draft.st, paidBy, bank'[p]) /\ Backs(bank'[p], t.draft.st)
  BY <1>4 DEF Explained, Backs, Counted
<1>7. r.st # "absent" /\ Sound(p, t.draft, r, paidBy, bank'[p])
  <2> HIDE DEF s
  <2> QED BY <1>1, <1>3, <1>4, <1>5, <1>6, AfterSound
<1>8. r.st # "succeeded"
  BY <1>1, <1>3, <1>4
     DEF After, FinalUnpaid, UnpaidAs, Returning, KeyAfter, Row, Open
<1>9. Closed(w, r)
  BY DEF CloseAccepted
<1> HIDE DEF r
<1> QED BY <1>1, <1>2, <1>7, <1>8, <1>9, ClosedPaid DEF Sound, NewlyCounted

LEMMA CloseRefusedPaid ==
  ASSUME TypeInv, BooksInv, PaidInv, NEW w \in Workers, CloseRefused(w)
  PROVE  PaidInv'
<1> DEFINE t == worker[w]
           p == worker[w].pay
           r == [t.draft EXCEPT !.st = "closed"]
<1>1. p \in Payments /\ t.draft \in Row /\ t.at = "close"
  BY WorkerType DEF CloseRefused, RequestFits
<1>2. Learns
  BY <1>1, CallsLearn, Parts DEF CloseRefused, BooksInv, PaidInv
<1>3. r.st = "closed"
  BY <1>1 DEF Row
<1>4. Explained(p, r.st, paidBy, bank'[p])
  BY <1>3 DEF Explained, Counted
<1>5. Closed(w, r)
  BY DEF CloseRefused
<1> HIDE DEF r
<1> QED BY <1>1, <1>2, <1>3, <1>4, <1>5, ClosedPaid

LEMMA CloseUnclearPaid ==
  ASSUME TypeInv, BooksInv, PaidInv, NEW w \in Workers, CloseUnclear(w)
  PROVE  PaidInv'
<1> DEFINE t == worker[w]
           p == worker[w].pay
           u == [t EXCEPT !.at = "reask", !.seen = "none"]
<1>1. p \in Payments /\ t \in Request /\ t.at = "close" /\ OnlyRuns /\ Becomes(w, u)
  BY WorkerType DEF CloseUnclear, RequestFits
<1>2. Learns
  BY <1>1, CallsLearn, StillLearns, Parts DEF CloseUnclear, BooksInv, PaidInv
<1>3. u.at = "reask" /\ u.pay = p /\ u.draft = t.draft /\ u.seen = "none"
  BY <1>1 DEF Request
<1>4. Agrees(t, row[p]) /\ Knows(t, paidBy, bank[p]) /\ AloneWith(w, p)
  BY <1>1, WorkerKnows DEF Polling
<1> HIDE DEF u
<1>5. Agrees(u, row[p])
  BY <1>1, <1>3, <1>4 DEF Agrees, Polling
<1>6. Knows(u, paidBy, bank'[p])
  BY <1>1, <1>2, <1>3, <1>4, ExplainedStays DEF Knows, Answer, Learns
<1> QED BY <1>1, <1>2, <1>3, <1>4, <1>5, <1>6, RunsPaid DEF BooksInv

LEMMA CloseAsksAgainPaid ==
  ASSUME TypeInv, BooksInv, PaidInv, NEW w \in Workers, CloseAsksAgain(w)
  PROVE  PaidInv'
<1> DEFINE t == worker[w]
           p == worker[w].pay
<1>1. p \in Payments /\ t.draft \in Row /\ t.at = "reask" /\ UNCHANGED bank /\ Ends(w)
  BY WorkerType DEF CloseAsksAgain, OnlyCommits, RequestFits
<1>2. PICK answered \in BOOLEAN : Commits(p, row[p], AskAgain(w, answered))
  BY DEF CloseAsksAgain
<1>3. /\ t.draft.st \in Open /\ t.draft.st \notin Counted /\ AloneWith(w, p)
      /\ row[p].st # "absent" /\ row[p].st \notin Counted /\ t.draft.st # "absent"
  BY <1>1, WorkerKnows DEF Agrees, Polling, Open, Counted
<1>4. Explained(p, t.draft.st, paidBy, bank[p]) /\ Backs(bank[p], t.draft.st)
  BY <1>3 DEF Explained, Backs, Counted
<1>5. Answer(bank[p].st, bank[p].right, bank[p])
  BY <1>1, StateAnswers DEF BooksInv, MoneyFitsStatus, PaidInv, RefundsFit
<1> DEFINE r == AskAgain(w, answered)
<1>6. r.st # "absent" /\ Sound(p, t.draft, r, paidBy, bank[p])
  <2>1. CASE answered
    <3>1. r = After(t.draft, bank[p].st, bank[p].right)
      BY <2>1 DEF AskAgain
    <3> QED BY <1>1, <1>3, <1>4, <1>5, <3>1, AfterSound
  <2>2. CASE ~answered
    BY <1>3, <1>4, <2>2 DEF AskAgain, Sound, NewlyCounted, GaveRefundUp, Open
  <2> QED BY <2>1, <2>2
<1> HIDE DEF r
<1>7. CountedStays(p, r) /\ Sound(p, row[p], r, paidBy, bank'[p])
  BY <1>1, <1>3, <1>6 DEF CountedStays, Sound, NewlyCounted, GaveRefundUp, Counted
<1>8. Learns /\ Commits(p, row[p], r)
  BY <1>1, <1>2, StillLearns DEF PaidInv, r
<1> QED BY <1>1, <1>3, <1>7, <1>8, CommitsPaid DEF BooksInv

(***************************************************************************)
(* The new row, and what the request did to the old one, without _on_paid. *)
(***************************************************************************)
LEMMA CommitsOldPaid ==
  ASSUME TypeInv, BooksInv, PaidInv, Learns, NEW w \in Workers, Ends(w), UNCHANGED paidBy,
         worker[w].at \in {"insert", "init"}, NEW new, NEW r, CommitsOld(w, new, r),
         new \in Payments => /\ worker[w].at = "init" /\ new = worker[w].new
                             /\ r.st # "absent" /\ r.st \notin Counted
  PROVE  PaidInv'
<1> DEFINE t == worker[w]
           Kept(q) == q # new /\ q # t.pay
<1>1. \A v \in Workers : worker'[v] = IF v = w THEN Idle ELSE worker[v]
  BY DEF Ends, Becomes, TypeInv, TypeOK
<1>2. Idle.pay \notin Payments /\ Idle.at # "init"
  BY NoPaymentAssumption DEF Idle
<1>3. /\ \A q \in Payments : Kept(q) => row'[q] = row[q]
      /\ new \in Payments => row'[new] = r /\ row[new].st = "absent"
      /\ t.pay \in Payments /\ t.pay # new => row'[t.pay] = t.draft
  BY DEF CommitsOld, PaidInv, NewRows
<1>4. t.pay \in Payments => /\ row[t.pay].st # "absent" /\ t.draft.st # "absent"
                            /\ row[t.pay].st \in Counted => t.draft.st \in Counted
                            /\ Explained(t.pay, t.draft.st, paidBy, bank[t.pay])
                            /\ AloneWith(w, t.pay)
  BY WorkerKnows DEF Agrees, Knows, Polling
<1>5. \A q \in Payments :
         row[q].st # "absent" => /\ q # new /\ row'[q].st # "absent"
                                 /\ row[q].st \in Counted => row'[q].st \in Counted
  BY <1>3, <1>4
<1>6. OneHolder'
  BY <1>1, <1>2 DEF PaidInv, OneHolder, HoldsLock
<1>7. NewRows'
  <2> SUFFICES ASSUME NEW v \in Workers, worker'[v].at = "init"
               PROVE  row'[worker'[v].new].st = "absent"
    BY DEF NewRows
  <2>1. v # w /\ worker'[v] = worker[v] /\ worker[v].new \in Payments
    BY <1>1, <1>2 DEF TypeInv, RequestOK
  <2>2. row[worker[v].new].st = "absent"
    BY <2>1 DEF PaidInv, NewRows
  <2>3. new \notin Payments
    BY <2>1 DEF BooksInv, NewLinks
  <2> QED BY <1>3, <1>4, <2>1, <2>2, <2>3
<1>8. Agreement'
  <2> SUFFICES ASSUME NEW v \in Workers, worker'[v].pay \in Payments
               PROVE  Agrees(worker'[v], row'[worker'[v].pay])
    BY DEF Agreement
  <2>1. v # w /\ worker'[v] = worker[v]
    BY <1>1, <1>2
  <2>2. Agrees(worker[v], row[worker[v].pay]) /\ row[worker[v].pay].st # "absent"
    BY <2>1, WorkerKnows DEF Agrees
  <2>3. CASE worker[v].pay = t.pay
    <3>1. worker[v].at \in Polling
      BY <1>4, <2>1, <2>3 DEF AloneWith, HoldsLock, Polling
    <3> QED BY <1>5, <2>1, <2>2, <2>3, <3>1 DEF Agrees, Polling
  <2>4. CASE worker[v].pay # t.pay
    BY <1>3, <1>5, <2>1, <2>2, <2>4
  <2> QED BY <2>3, <2>4
<1>9. Knowledge'
  BY <1>1, <1>2, KnowsStays DEF PaidInv, Knowledge, Learns
<1>10. CountedIsExplained'
  <2> SUFFICES ASSUME NEW q \in Payments
               PROVE  Explained(q, row'[q].st, paidBy, bank'[q])
    BY DEF CountedIsExplained
  <2>1. Explained(q, row'[q].st, paidBy, bank[q])
    <3>1. CASE q = new
      BY <1>3, <3>1 DEF Explained
    <3>2. CASE q = t.pay /\ q # new
      BY <1>3, <1>4, <3>2
    <3>3. CASE Kept(q)
      BY <1>3, <3>3 DEF PaidInv, CountedIsExplained
    <3> QED BY <3>1, <3>2, <3>3
  <2> QED BY <2>1, ExplainedStays DEF Learns
<1>11. PaidIsDue'
  <2> SUFFICES ASSUME paidBy # NoPayment
               PROVE  row'[paidBy].st \in Counted /\ Due(bank'[paidBy])
    BY DEF PaidInv, PaidIsDue
  <2>1. /\ paidBy \in Payments /\ row[paidBy].st \in Counted
        /\ bank[paidBy].money # "none" /\ Due(bank[paidBy])
    BY DEF PaidInv, PaidIsDue, TypeInv, TypeOK, BooksInv, BooksFollowBank
  <2>2. row[paidBy].st # "absent"
    BY <2>1 DEF Counted
  <2> QED BY <1>5, <2>1, <2>2 DEF Learns, Grows, Due
<1> QED BY <1>6, <1>7, <1>8, <1>9, <1>10, <1>11 DEF PaidInv, Learns

LEMMA InitPaid ==
  ASSUME TypeInv, BooksInv, PaidInv, NEW w \in Workers,
         InsertAbandoned(w) \/ InitAnswered(w) \/ InitUnanswered(w)
  PROVE  PaidInv'
<1> DEFINE t == worker[w]
<1>1. CASE InsertAbandoned(w)
  <2>1. Ends(w) /\ UNCHANGED <<bank, paidBy>> /\ t.at = "insert"
    BY <1>1 DEF InsertAbandoned, OnlyCommits
  <2>2. Learns
    BY <2>1, StillLearns DEF PaidInv
  <2>3. CASE CommitsOld(w, NoPayment, Absent)
    BY <2>1, <2>2, <2>3, CommitsOldPaid, NoPaymentAssumption
  <2>4. CASE row' = row
    <3>1. \A v \in Workers : worker'[v] = IF v = w THEN Idle ELSE worker[v]
      BY <2>1 DEF Ends, Becomes, TypeInv, TypeOK
    <3>2. Idle.pay \notin Payments /\ Idle.at # "init"
      BY NoPaymentAssumption DEF Idle
    <3>3. OneHolder' /\ NewRows' /\ Agreement' /\ Knowledge'
      BY <2>1, <2>4, <3>1, <3>2
         DEF PaidInv, OneHolder, HoldsLock, NewRows, Agreement, Knowledge
    <3> QED BY <2>1, <2>4, <3>3 DEF PaidInv, RefundsFit, CountedIsExplained, PaidIsDue
  <2> QED BY <1>1, <2>3, <2>4 DEF InsertAbandoned
<1>2. CASE InitAnswered(w) \/ InitUnanswered(w)
  <2>1. /\ t.at = "init" /\ t.new \in Payments /\ bank[t.new].st = "none" /\ Ends(w)
        /\ UNCHANGED paidBy
    BY <1>2 DEF InitAnswered, InitUnanswered, BooksInv, NewLinks, TypeInv, RequestOK
  <2>2. Learns
    BY <1>2, <2>1, CallsLearn, StillLearns, Parts
       DEF InitAnswered, InitUnanswered, BooksInv, PaidInv
  <2>3. /\ LinkIssued.st \notin Counted \union {"absent"}
        /\ InitFailed.st \notin Counted \union {"absent"}
    BY DEF LinkIssued, InitFailed, Absent, Counted
  <2> QED BY <1>2, <2>1, <2>2, <2>3, CommitsOldPaid DEF InitAnswered, InitUnanswered
<1> QED BY <1>1, <1>2

LEMMA StartRefundPaid ==
  ASSUME TypeInv, BooksInv, PaidInv, NEW w \in Workers, NEW p \in Payments,
         StartRefund(w, p)
  PROVE  PaidInv'
<1> DEFINE t == [Idle EXCEPT !.at = "refund", !.op = "refund", !.pay = p,
                             !.draft = AttemptOf(row[p])]
<1>1. /\ t.at = "refund" /\ t.pay = p /\ t.draft = AttemptOf(row[p]) /\ t.seen = "none"
      /\ t.right = TRUE
  BY DEF Idle
<1>2. /\ row[p].st \in {"succeeded", "refund_requested"} /\ row[p] \in Row
      /\ Becomes(w, t) /\ OnlyRuns /\ UNCHANGED bank /\ AloneWith(w, p)
  BY DEF StartRefund, Unlocked, AloneWith, TypeInv, TypeOK
<1>3. AttemptOf(row[p]).st = "refund_requested"
  BY <1>2 DEF AttemptOf, NextAttempt, Row
<1>4. Explained(p, row[p].st, paidBy, bank[p])
  BY DEF PaidInv, CountedIsExplained
<1> HIDE DEF t
<1>5. Agrees(t, row[p])
  BY <1>1, <1>2, <1>3 DEF Agrees, Counted
<1>6. Knows(t, paidBy, bank'[p])
  BY <1>1, <1>2, <1>3, <1>4 DEF Knows, Answer, Explained, Counted
<1> QED BY <1>1, <1>2, <1>5, <1>6, StillLearns, RunsPaid DEF BooksInv, PaidInv

LEMMA RefundPaid ==
  ASSUME TypeInv, BooksInv, PaidInv, NEW w \in Workers,
         \/ RefundAnswered(w) \/ RefundUnanswered(w) \/ RefundIsRefused(w)
         \/ RefundAsksState(w)
  PROVE  PaidInv'
<1> DEFINE t == worker[w]
           p == worker[w].pay
           d == worker[w].draft
<1>1. /\ p \in Payments /\ d \in Row /\ t \in Request /\ t.at \in {"refund", "refundask"}
      /\ t.at = "refund" => d.key \in Keys
  BY WorkerType
     DEF RefundAnswered, RefundUnanswered, RefundIsRefused, RefundAsksState, RequestFits
<1>2. BankStep /\ Learns
  BY <1>1, CallsMoney, CallsLearn, StillMoney, StillLearns, Parts
     DEF RefundAnswered, RefundUnanswered, RefundIsRefused, RefundAsksState, OnlyCommits,
         BooksInv, PaidInv
<1>3. /\ Agrees(t, row[p]) /\ Knows(t, paidBy, bank[p]) /\ AloneWith(w, p)
      /\ row[p].st # "absent" /\ d.st = "refund_requested"
  BY <1>1, WorkerKnows DEF Polling, Agrees
<1>4. Explained(p, d.st, paidBy, bank'[p]) /\ Backs(bank'[p], d.st)
  BY <1>1, <1>2, <1>3, ExplainedStays, WorkerBacked, BackedStays
     DEF Knows, Learns, RequestBacked, BankStep
<1>5. Answer(bank'[p].st, bank'[p].right, bank'[p])
  BY <1>1, <1>2, StateAnswers DEF BankStep, MoneyFitsStatus, Learns, RefundsFit
<1>6. \A r : r.st \in Counted => CountedStays(p, r)
  BY DEF CountedStays, Counted
<1>7. /\ After(d, bank'[p].st, TRUE).st \in Counted
      /\ Sound(p, d, After(d, bank'[p].st, TRUE), paidBy, bank'[p])
  <2>1. d.st \in Counted /\ d.st # "absent"
    BY <1>3 DEF Counted
  <2> QED BY <1>1, <1>4, <1>5, <2>1, AfterSound
<1>8. d.st \in Counted /\ Sound(p, d, d, paidBy, bank'[p])
  BY <1>3, <1>4 DEF Sound, NewlyCounted, GaveRefundUp, Counted
<1>9. CASE RefundAnswered(w)
  BY <1>1, <1>2, <1>3, <1>6, <1>7, <1>9, CommitsPaid DEF RefundAnswered, BooksInv
<1>10. CASE RefundUnanswered(w)
  BY <1>1, <1>2, <1>3, <1>6, <1>8, <1>10, CommitsPaid DEF RefundUnanswered, BooksInv
<1>11. CASE RefundIsRefused(w)
  <2> DEFINE u == [t EXCEPT !.at = "refundask"]
  <2>1. /\ u.at = "refundask" /\ u.pay = p /\ u.draft = d /\ u.seen = t.seen
        /\ u.right = t.right
    BY <1>1 DEF Request
  <2>2. Becomes(w, u) /\ OnlyRuns /\ UNCHANGED bank
    BY <1>11 DEF RefundIsRefused
  <2> HIDE DEF u
  <2>3. Agrees(u, row[p]) /\ Knows(u, paidBy, bank'[p])
    BY <1>1, <1>3, <2>1, <2>2 DEF Agrees, Knows, Polling
  <2> QED BY <1>1, <1>2, <1>3, <2>1, <2>2, <2>3, RunsPaid DEF BooksInv
<1>12. CASE RefundAsksState(w)
  <2>1. PICK s \in {bank[p].st, "none"} : Commits(p, d, AfterRefusal(d, s))
    BY <1>12 DEF RefundAsksState
  <2>2. Ends(w) /\ UNCHANGED bank
    BY <1>12 DEF RefundAsksState, OnlyCommits
  <2> DEFINE r == AfterRefusal(d, s)
  <2>3. r.st \in Counted /\ Sound(p, d, r, paidBy, bank'[p])
    <3>1. CASE s = "CONFIRMED"
      <4>1. r.st = "succeeded" /\ bank'[p].st = "CONFIRMED"
        BY <1>1, <2>1, <2>2, <3>1 DEF AfterRefusal, RefundFailed, Row
      <4>2. ~NewlyCounted(d, r) /\ r.st \in Counted
        BY <1>3, <4>1 DEF NewlyCounted, Counted
      <4>3. paidBy = NoPayment /\ p \notin DemoPayments => Due(bank'[p])
        BY <1>3, <1>4, <4>1 DEF Explained, WasReturned, Due, Counted
      <4>4. Explained(p, r.st, paidBy, bank'[p])
        BY <1>4, <1>8 DEF Explained
      <4> QED BY <4>2, <4>3, <4>4 DEF Sound
    <3>2. CASE s \in {"REFUNDING", "REFUNDED"}
      BY <1>7, <2>1, <2>2, <3>2 DEF AfterRefusal
    <3>3. CASE r = d
      BY <1>8, <3>3
    <3> QED BY <3>1, <3>2, <3>3 DEF AfterRefusal
  <2>4. Commits(p, d, r)
    BY <2>1
  <2> HIDE DEF r
  <2> QED BY <1>1, <1>2, <1>3, <1>6, <2>2, <2>3, <2>4, CommitsPaid DEF BooksInv
<1> QED BY <1>9, <1>10, <1>11, <1>12

LEMMA StillPaid ==
  ASSUME PaidInv, UNCHANGED <<bank, row, paidBy, worker>>
  PROVE  PaidInv'
  BY DEF PaidInv, RefundsFit, OneHolder, HoldsLock, NewRows, Agreement, Knowledge,
         CountedIsExplained, PaidIsDue

LEMMA NotificationPaid ==
  ASSUME TypeInv, BooksInv, PaidInv
  PROVE  /\ \A w \in Workers : NotificationApplied(w) => PaidInv'
         /\ \A p \in Payments, s \in Announced :
              /\ NotificationIgnored(p, s) => PaidInv'
              /\ \A w \in Workers : Notified(w, p, s) => PaidInv'
<1>1. ASSUME NEW w \in Workers, NotificationApplied(w)
      PROVE  PaidInv'
  <2> DEFINE t == worker[w]
             p == worker[w].pay
             r == [Applied(w) EXCEPT !.bid = TRUE]
  <2>1. p \in Payments /\ Applied(w) \in Row /\ UNCHANGED bank /\ t.at = "asked"
    BY <1>1, WorkerType DEF NotificationApplied, RequestFits
  <2>2. /\ t.draft = row[p] /\ row[p].st # "absent" /\ AloneWith(w, p)
        /\ CountedStays(p, Applied(w))
        /\ Sound(p, row[p], Applied(w), paidBy, bank[p])
    BY <2>1, WorkerKnows, AppliedSound DEF Agrees, Polling
  <2>3. r.st = Applied(w).st /\ r.prov = Applied(w).prov
    BY <2>1 DEF Row
  <2>4. Commits(p, t.draft, r) /\ Ends(w)
    BY <1>1 DEF NotificationApplied
  <2> HIDE DEF r
  <2>5. CountedStays(p, r) /\ Sound(p, row[p], r, paidBy, bank'[p])
    BY <2>1, <2>2, <2>3 DEF CountedStays, Sound, NewlyCounted, GaveRefundUp
  <2> QED BY <2>1, <2>2, <2>4, <2>5, StillLearns, CommitsPaid DEF BooksInv, PaidInv
<1>2. ASSUME NEW p \in Payments, NEW s \in Announced, NotificationIgnored(p, s)
      PROVE  PaidInv'
  BY <1>2, StillPaid DEF NotificationIgnored
<1> QED BY <1>1, <1>2, AsksPaid DEF Notified

LEMMA PollPaid ==
  ASSUME TypeInv, BooksInv, PaidInv, NEW w \in Workers
  PROVE  /\ \A p \in Payments : StartPoll(w, p) => PaidInv'
         /\ PollAnswered(w) \/ PollApplied(w) \/ PollDiscarded(w) \/ Dies(w) => PaidInv'
<1> DEFINE t == worker[w]
           p == worker[w].pay
<1>1. UNCHANGED bank => Learns
  BY StillLearns DEF PaidInv
<1>2. ASSUME NEW q \in Payments, StartPoll(w, q)
      PROVE  PaidInv'
  <2> DEFINE u == [Idle EXCEPT !.at = "polled", !.op = "poll", !.pay = q, !.draft = row[q]]
  <2>1. u.at = "polled" /\ u.pay = q /\ u.draft = row[q] /\ u.seen = "none"
    BY DEF Idle
  <2>2. Becomes(w, u) /\ OnlyRuns /\ UNCHANGED bank /\ row[q].st # "absent"
    BY <1>2 DEF StartPoll, Polled, ClosedOnlyHere, Open
  <2>3. Explained(q, row[q].st, paidBy, bank[q])
    BY DEF PaidInv, CountedIsExplained
  <2> HIDE DEF u
  <2>4. Agrees(u, row[q]) /\ Knows(u, paidBy, bank'[q]) /\ u.at \in Polling
    BY <2>1, <2>2, <2>3 DEF Agrees, Knows, Answer, Polling
  <2> QED BY <1>1, <2>1, <2>2, <2>4, RunsPaid DEF BooksInv
<1>3. CASE PollAnswered(w)
  <2> DEFINE u == [t EXCEPT !.at = "pollseen", !.seen = bank[t.pay].st,
                            !.right = bank[t.pay].right]
  <2>1. p \in Payments /\ t \in Request /\ t.at = "polled"
    BY <1>3, WorkerType DEF PollAnswered, RequestFits
  <2>2. /\ u.at = "pollseen" /\ u.pay = p /\ u.draft = t.draft
        /\ u.seen = bank[p].st /\ u.right = bank[p].right
    BY <2>1 DEF Request
  <2>3. Becomes(w, u) /\ OnlyRuns /\ UNCHANGED bank
    BY <1>3 DEF PollAnswered
  <2>4. Agrees(t, row[p]) /\ Knows(t, paidBy, bank[p])
    BY <2>1, WorkerKnows
  <2>5. Answer(bank[p].st, bank[p].right, bank[p])
    BY <2>1, StateAnswers DEF BooksInv, MoneyFitsStatus, PaidInv, RefundsFit
  <2> HIDE DEF u
  <2>6. Agrees(u, row[p]) /\ Knows(u, paidBy, bank'[p]) /\ u.at \in Polling
    BY <2>2, <2>3, <2>4, <2>5 DEF Agrees, Knows, Polling
  <2> QED BY <1>1, <2>1, <2>2, <2>3, <2>6, RunsPaid DEF BooksInv
<1>4. CASE PollApplied(w)
  <2>1. /\ p \in Payments /\ UNCHANGED bank /\ Ends(w) /\ AloneWith(w, p)
        /\ Commits(p, row[p], Applied(w))
    BY <1>4, WorkerType DEF PollApplied, RequestFits, Fresh, Unlocked, AloneWith
  <2>2. /\ row[p].st # "absent" /\ CountedStays(p, Applied(w))
        /\ Sound(p, row[p], Applied(w), paidBy, bank'[p])
    BY <2>1, WorkerKnows, AppliedSound DEF Agrees
  <2> QED BY <1>1, <2>1, <2>2, CommitsPaid DEF BooksInv
<1>5. CASE PollDiscarded(w) \/ Dies(w)
  <2>1. Becomes(w, Idle) /\ OnlyRuns
    BY <1>5 DEF PollDiscarded, Dies, Ends
  <2>2. Idle.pay \notin Payments /\ Idle.at # "init"
    BY NoPaymentAssumption DEF Idle
  <2>3. Learns
    BY <1>1, <1>5, WorkerType, CallsLearn, Parts
       DEF PollDiscarded, Dies, CallMayReachBank, RequestFits, BooksInv, NewLinks, PaidInv
  <2> QED BY <2>1, <2>2, <2>3, RunsPaid DEF BooksInv
<1> QED BY <1>2, <1>3, <1>4, <1>5

LEMMA WorldPaid ==
  ASSUME TypeInv, BooksInv, PaidInv, NEW p \in Payments, World(p)
  PROVE  PaidInv'
<1>1. Learns /\ UNCHANGED <<row, paidBy, worker>>
  BY BankNextLearns, Parts DEF World, BuyerPays, BooksInv, PaidInv
<1>2. OneHolder' /\ NewRows' /\ Agreement'
  BY <1>1 DEF PaidInv, OneHolder, HoldsLock, NewRows, Agreement
<1>3. Knowledge' /\ CountedIsExplained'
  BY <1>1, KnowsStays, ExplainedStays DEF PaidInv, Knowledge, CountedIsExplained, Learns
<1>4. PaidIsDue'
  <2> SUFFICES ASSUME paidBy # NoPayment
               PROVE  Due(bank'[paidBy])
    BY <1>1 DEF PaidInv, PaidIsDue
  <2>1. paidBy \in Payments /\ bank[paidBy].money # "none" /\ Due(bank[paidBy])
    BY DEF PaidInv, PaidIsDue, TypeInv, TypeOK, BooksInv, BooksFollowBank
  <2> QED BY <1>1, <2>1 DEF Learns, Grows, Due
<1> QED BY <1>1, <1>2, <1>3, <1>4 DEF PaidInv, Learns

LEMMA FirstPaid ==
  Init => PaidInv
<1> SUFFICES ASSUME Init PROVE PaidInv
  OBVIOUS
<1>1. RefundsFit /\ CountedIsExplained /\ PaidIsDue
  BY DEF Init, BankInit, Unknown, RefundsFit, RefundFits, CountedIsExplained, Explained,
         PaidIsDue, Absent, Counted
<1>2. OneHolder /\ NewRows /\ Agreement /\ Knowledge
  BY NoPaymentAssumption
     DEF Init, Idle, OneHolder, HoldsLock, NewRows, Agreement, Knowledge
<1> QED BY <1>1, <1>2 DEF PaidInv

LEMMA NextPaid ==
  TypeInv /\ BooksInv /\ PaidInv /\ [Next]_vars => PaidInv'
<1> SUFFICES ASSUME TypeInv, BooksInv, PaidInv, [Next]_vars PROVE PaidInv'
  OBVIOUS
<1>1. ASSUME NEW w \in Workers, Works(w) PROVE PaidInv'
  <2>1. ASSUME NEW p \in Payments,
               \/ InitiateOverDeadLink(w, p) \/ InsertPayment(w, p) \/ CancelLink(w, p)
               \/ RetireLink(w, p) \/ StartRefund(w, p) \/ StartPoll(w, p)
               \/ \E s \in Announced : Notified(w, p, s)
        PROVE  PaidInv'
    BY <2>1, InitiatePaid, InsertPaid, StartRefundPaid, PollPaid, NotificationPaid
  <2> QED BY <1>1, <2>1, InitiatePaid, AskedPaid, CloseAcceptedPaid, CloseRefusedPaid,
             CloseUnclearPaid, CloseAsksAgainPaid, InitPaid, RefundPaid,
             NotificationPaid, PollPaid DEF Works
<1>2. CASE UNCHANGED vars
  BY <1>2, StillPaid DEF vars
<1> QED BY <1>1, <1>2, WorldPaid, NotificationPaid DEF Next

(***************************************************************************)
(* The invariant about orders paid and about requests under way.           *)
(***************************************************************************)
THEOREM PaidInductive == Spec => []PaidInv
  BY FirstPaid, NextPaid, TypeInductive, BooksInductive, PTL DEF Spec

LEMMA OrderHolds ==
  TypeInv /\ BooksInv /\ PaidInv => OrderIsPaidByMoney
  BY DEF BooksInv, BooksFollowBank, PaidInv, PaidIsDue, OrderIsPaidByMoney, Due, TypeInv,
         TypeOK

(***************************************************************************)
(* The application is PAID only by a payment of a real terminal that came  *)
(* in the right sum, or that the platform kept when the bank rejected its  *)
(* refund: for any payments, requests at once and refund attempts.         *)
(***************************************************************************)
THEOREM PaidByMoney == Spec => []OrderIsPaidByMoney
  BY OrderHolds, TypeInductive, BooksInductive, PaidInductive, PTL

(***************************************************************************)
(* Orders without a key.                                                   *)
(***************************************************************************)
NoLinkOrder ==
  \A p \in Payments : LinkOrder \in bank'[p].orders => LinkOrder \in bank[p].orders

LEMMA MovesNoLink ==
  ASSUME BankTypeOK, NEW p \in Payments, NEW b, Moves(p, b),
         LinkOrder \in b.orders => LinkOrder \in bank[p].orders
  PROVE  NoLinkOrder
  BY DEF BankTypeOK, Moves, NoLinkOrder

LEMMA StillNoLink ==
  ASSUME UNCHANGED bank
  PROVE  NoLinkOrder
  BY DEF NoLinkOrder

LEMMA KeysAreNoLinks ==
  /\ \A k \in Keys : k # LinkOrder
  /\ CabinetOrder # LinkOrder
  BY AttemptsAssumption DEF Keys, LinkOrder, CabinetOrder

LEMMA BankNextNoLink ==
  ASSUME BankTypeOK, NEW p \in Payments, BankNext(p) \/ PayerPays(p)
  PROVE  NoLinkOrder
<1> bank[p] \in BankRecord
  BY DEF BankTypeOK
<1> USE DEF BankRecord
<1>1. CASE PayerPays(p)
  BY <1>1, MovesNoLink DEF PayerPays
<1>2. CASE PayerFails(p)
  BY <1>2, MovesNoLink DEF PayerFails
<1>3. CASE Confirms(p)
  BY <1>3, MovesNoLink DEF Confirms
<1>4. CASE LinkExpires(p)
  BY <1>4, MovesNoLink DEF LinkExpires
<1>5. CASE RefundCompletes(p)
  BY <1>5, MovesNoLink DEF RefundCompletes
<1>6. CASE RefundIsRejected(p)
  BY <1>6, MovesNoLink DEF RefundIsRejected
<1>7. CASE CabinetRefund(p)
  BY <1>7, MovesNoLink, KeysAreNoLinks DEF CabinetRefund, Refunding
<1>8. CASE CabinetPartialRefund(p)
  BY <1>8, MovesNoLink DEF CabinetPartialRefund
<1> QED BY <1>1, <1>2, <1>3, <1>4, <1>5, <1>6, <1>7, <1>8 DEF BankNext

LEMMA CallsNoLink ==
  ASSUME BankTypeOK, NEW p \in Payments
  PROVE  /\ InitAccepted(p) => NoLinkOrder
         /\ CancelRefused(p) => NoLinkOrder
         /\ \A k \in Keys : RefundAccepted(p, k) => NoLinkOrder
<1> bank[p] \in BankRecord
  BY DEF BankTypeOK
<1>1. InitAccepted(p) => NoLinkOrder
  BY MovesNoLink DEF InitAccepted, BankRecord
<1>2. CancelRefused(p) => NoLinkOrder
  BY DEF CancelRefused, BankTypeOK, BankRecord, NoLinkOrder
<1>3. ASSUME NEW k \in Keys, RefundAccepted(p, k)
      PROVE  NoLinkOrder
  <2>1. CASE UNCHANGED <<bank, inbox>>
    BY <2>1, StillNoLink
  <2>2. CASE \E b \in {Refunding(p, k), Refunded(p, k)} : Moves(p, b)
    BY <2>2, MovesNoLink, KeysAreNoLinks DEF Refunding, Refunded, BankRecord
  <2> QED BY <1>3, <2>1, <2>2 DEF RefundAccepted
<1> QED BY <1>1, <1>2, <1>3

\* A Cancel without a key is given for a link that is open in the books.
LEMMA ClosesOpenLink ==
  ASSUME TypeInv, BooksInv, PaidInv, NEW w \in Workers, CloseAccepted(w) \/ CloseUnclear(w),
         NEW p \in Payments, LinkOrder \in bank'[p].orders \ bank[p].orders
  PROVE  row[p].st \in Open
<1> DEFINE q == worker[w].pay
<1>1. q \in Payments /\ worker[w].at = "close"
  BY WorkerType DEF CloseAccepted, CloseUnclear, RequestFits
<1>2. row[q].st \in Open
  BY <1>1, WorkerKnows DEF Agrees
<1>3. bank' # bank
  OBVIOUS
<1>4. CancelVoids(q) \/ CancelReturnsMoney(q)
  BY <1>3 DEF CloseAccepted, CloseUnclear, CancelStarts, CancelReverses
<1>5. p = q
  BY <1>1, <1>4, Parts DEF CancelVoids, CancelReturnsMoney, Moves, BankTypeOK
<1> QED BY <1>2, <1>5

\* What ClosingTakesNothingBack says of a step.
TakesNothingBack ==
  \A p \in Payments :
    LinkOrder \in bank'[p].orders \ bank[p].orders => row[p].st \in Open

LEMMA NextTakesNothing ==
  ASSUME TypeInv, BooksInv, PaidInv, [Next]_vars
  PROVE  TakesNothingBack
<1>1. NoLinkOrder => TakesNothingBack
  BY DEF NoLinkOrder, TakesNothingBack
<1>2. BankTypeOK
  BY Parts
<1>3. ASSUME NEW w \in Workers, Works(w) PROVE TakesNothingBack
  <2>1. CASE \E p \in Payments : InitAccepted(p)
    BY <1>1, <1>2, <2>1, CallsNoLink
  <2>2. CASE \E p \in Payments : CancelRefused(p)
    BY <1>1, <1>2, <2>2, CallsNoLink
  <2>3. CASE \E p \in Payments, k \in Keys : RefundAccepted(p, k)
    BY <1>1, <1>2, <2>3, CallsNoLink
  <2>4. CASE UNCHANGED bank
    BY <1>1, <2>4, StillNoLink
  <2>5. CASE CloseAccepted(w) \/ CloseUnclear(w)
    BY <2>5, ClosesOpenLink DEF TakesNothingBack
  <2>6. worker[w].at = "init" => worker[w].new \in Payments
    BY DEF TypeInv, RequestOK
  <2>7. /\ worker[w].at \in {"close", "refund"} => worker[w].pay \in Payments
        /\ worker[w].at = "refund" => worker[w].draft.key \in Keys
    BY WorkerType DEF RequestFits
  <2>8. InitAnswered(w) \/ InitUnanswered(w) => TakesNothingBack
    BY <2>1, <2>4, <2>6 DEF InitAnswered, InitUnanswered
  <2>9. CloseRefused(w) => TakesNothingBack
    BY <2>2, <2>7 DEF CloseRefused
  <2>10. RefundAnswered(w) \/ RefundUnanswered(w) => TakesNothingBack
    BY <2>3, <2>4, <2>7 DEF RefundAnswered, RefundUnanswered
  <2>11. ASSUME \/ InitiateFresh(w) \/ AskedAndLeft(w) \/ AskedAndGoesOn(w)
                \/ CloseAsksAgain(w) \/ InsertAbandoned(w) \/ RefundIsRefused(w)
                \/ RefundAsksState(w) \/ NotificationApplied(w) \/ PollAnswered(w)
                \/ PollApplied(w) \/ PollDiscarded(w)
         PROVE  UNCHANGED bank
    BY <2>11 DEF InitiateFresh, AskedAndLeft, AskedAndGoesOn, CloseAsksAgain,
                 InsertAbandoned, RefundIsRefused, RefundAsksState, NotificationApplied,
                 PollAnswered, PollApplied, PollDiscarded, OnlyCommits
  <2>12. ASSUME NEW p \in Payments,
                \/ InitiateOverDeadLink(w, p) \/ InsertPayment(w, p) \/ CancelLink(w, p)
                \/ RetireLink(w, p) \/ StartRefund(w, p) \/ StartPoll(w, p)
                \/ \E s \in Announced : Notified(w, p, s)
         PROVE  UNCHANGED bank
    BY <2>12 DEF InitiateOverDeadLink, InsertPayment, CancelLink, RetireLink,
       StartRefund, StartPoll,
                 Notified, Asks
  <2>13. Dies(w) => TakesNothingBack
    BY <2>1, <2>3, <2>4, <2>6, <2>7 DEF Dies, CallMayReachBank
  <2> QED BY <1>3, <2>4, <2>5, <2>8, <2>9, <2>10, <2>11, <2>12, <2>13 DEF Works
<1>4. ASSUME NEW p \in Payments, World(p) PROVE TakesNothingBack
  BY <1>1, <1>2, <1>4, BankNextNoLink DEF World, BuyerPays
<1>5. ASSUME NEW p \in Payments, NEW s \in Announced, NotificationIgnored(p, s)
      PROVE  TakesNothingBack
  BY <1>1, <1>5, StillNoLink DEF NotificationIgnored
<1>6. CASE UNCHANGED vars
  BY <1>1, <1>6, StillNoLink DEF vars
<1> QED BY <1>3, <1>4, <1>5, <1>6 DEF Next

(***************************************************************************)
(* Closing a link never takes back money already counted, for any number   *)
(* of requests at once: the row stays locked from GetState to Cancel, and  *)
(* what is to be closed is open in the books (_close_unpaid_link).         *)
(***************************************************************************)
THEOREM NothingTakenBack == Spec => ClosingTakesNothingBack
<1>1. TypeInv /\ BooksInv /\ PaidInv /\ [Next]_vars => [TakesNothingBack]_vars
  BY NextTakesNothing
<1>2. Spec => [][TakesNothingBack]_vars
  BY <1>1, TypeInductive, BooksInductive, PaidInductive, PTL DEF Spec
<1> QED BY <1>2 DEF ClosingTakesNothingBack, TakesNothingBack

(***************************************************************************)
(* Money that is counted is seen.  The strengthening says which payments   *)
(* the admin need not be told of: the one that paid the application, and   *)
(* those whose refund the bank gave up, once the application is paid.  And *)
(* what a request is about to replace by a new link is not counted, since  *)
(* the new row is committed with the old one and without _on_paid.         *)
(***************************************************************************)
Seen(p, r, by, told) ==
  r.st = "succeeded" /\ r.prov # "PARTIAL_REFUNDED" =>
    /\ by # NoPayment \/ p \in told
    /\ r.prov # "REJECTED" => p = by \/ p \in told
CountedIsSeen == \A p \in Payments : Seen(p, row[p], paidBy, flagged)
Replacing == {"insert", "init"}
ReplacesNoMoney ==
  \A w \in Workers : worker[w].at \in Replacing => worker[w].draft.st # "succeeded"

SeenInv == CountedIsSeen /\ ReplacesNoMoney

\* A row that counts money has just begun to, or it counted the same before.
Follows(old, r) ==
  r.st = "succeeded" /\ r.prov # "PARTIAL_REFUNDED" =>
    \/ NewlyCounted(old, r) \/ GaveRefundUp(old, r)
    \/ old.st = "succeeded" /\ old.prov = r.prov

LEMMA AfterFollows ==
  ASSUME NEW r \in Row, NEW s, NEW right
  PROVE  Follows(r, After(r, s, right))
<1> USE DEF Follows, NewlyCounted, GaveRefundUp, Row, Counted, Open
<1>1. CASE s = "CONFIRMED" /\ MayCount(r)
  BY <1>1 DEF After, FinalUnpaid, PaidAs, MayCount
<1>2. CASE s \in {"NEW", "MOVING"} /\ r.st \in Open /\ r.prov # "MISMATCH"
  BY <1>2 DEF After, FinalUnpaid
<1>3. CASE s \in FinalUnpaid /\ r.st \in Open
  BY <1>3 DEF After, FinalUnpaid, UnpaidAs
<1>4. CASE s = "REJECTED" /\ r.st = "refund_requested"
  BY <1>4 DEF After, FinalUnpaid, RefundFailed
<1>5. CASE s \in {"REFUNDING", "REFUNDED"} /\ r.st # "refunded"
  BY <1>5 DEF After, FinalUnpaid, Returning, KeyAfter
<1>6. CASE /\ s = "PARTIAL_REFUNDED" /\ r.prov # s
           /\ r.st \in {"succeeded", "refund_requested"}
  BY <1>6 DEF After, FinalUnpaid
<1>7. CASE After(r, s, right) = r
  BY <1>7
<1> QED BY <1>1, <1>2, <1>3, <1>4, <1>5, <1>6, <1>7 DEF After

\* A request changes: only what it is about to replace matters.
LEMMA RunsSeen ==
  ASSUME TypeInv, SeenInv, OnlyRuns, NEW w \in Workers, NEW t, Becomes(w, t),
         t.at \in Replacing => t.draft.st # "succeeded"
  PROVE  SeenInv'
<1>1. \A v \in Workers : worker'[v] = IF v = w THEN t ELSE worker[v]
  BY DEF Becomes, TypeInv, TypeOK
<1>2. ReplacesNoMoney'
  BY <1>1 DEF SeenInv, ReplacesNoMoney
<1> QED BY <1>2 DEF SeenInv, CountedIsSeen, OnlyRuns

LEMMA EndsSeen ==
  ASSUME TypeInv, SeenInv, NEW w \in Workers, Ends(w)
  PROVE  ReplacesNoMoney'
<1>1. \A v \in Workers : worker'[v] = IF v = w THEN Idle ELSE worker[v]
  BY DEF Ends, Becomes, TypeInv, TypeOK
<1> QED BY <1>1 DEF SeenInv, ReplacesNoMoney, Idle, Replacing

\* A request commits one row with its consequences and ends.
LEMMA CommitsSeen ==
  ASSUME TypeInv, SeenInv, NEW w \in Workers, Ends(w), NEW p \in Payments, NEW old, NEW r,
         Commits(p, old, r),
         \/ Follows(old, r) /\ (old.st = "succeeded" => old = row[p])
         \/ r.st # "succeeded"
  PROVE  SeenInv'
<1>1. \A q \in Payments : row'[q] = IF q = p THEN r ELSE row[q]
  BY DEF Commits, TypeInv, TypeOK
<1>2. /\ paidBy # NoPayment => paidBy' = paidBy
      /\ flagged \subseteq flagged'
      /\ NewlyCounted(old, r) => paidBy' = p \/ p \in flagged'
      /\ GaveRefundUp(old, r) /\ paidBy = NoPayment => paidBy' = p \/ p \in flagged'
  BY DEF Commits, Consequences, OnPaid, AwaitingPayment
<1>3. p # NoPayment
  BY NoPaymentAssumption
<1>4. \A q \in Payments : Seen(q, row[q], paidBy, flagged)
  BY DEF SeenInv, CountedIsSeen
<1>5. Seen(p, r, paidBy', flagged')
  <2> SUFFICES ASSUME r.st = "succeeded", r.prov # "PARTIAL_REFUNDED"
               PROVE  /\ paidBy' # NoPayment \/ p \in flagged'
                      /\ r.prov # "REJECTED" => p = paidBy' \/ p \in flagged'
    BY DEF Seen
  <2>1. CASE NewlyCounted(old, r)
    BY <1>2, <1>3, <2>1
  <2>2. CASE GaveRefundUp(old, r)
    BY <1>2, <1>3, <2>2 DEF GaveRefundUp
  <2>3. CASE old = row[p] /\ old.st = "succeeded" /\ old.prov = r.prov
    BY <1>2, <1>4, <2>3 DEF Seen
  <2> QED BY <2>1, <2>2, <2>3 DEF Follows
<1>6. \A q \in Payments : Seen(q, row[q], paidBy', flagged')
  BY <1>2, <1>4, NoPaymentAssumption DEF Seen
<1>7. CountedIsSeen'
  BY <1>1, <1>5, <1>6 DEF CountedIsSeen
<1> QED BY <1>7, EndsSeen DEF SeenInv

\* The new row and what is replaced, neither of them counted.
LEMMA CommitsOldSeen ==
  ASSUME TypeInv, SeenInv, NEW w \in Workers, Ends(w), UNCHANGED <<paidBy, flagged>>,
         worker[w].at \in Replacing, NEW new, NEW r, CommitsOld(w, new, r),
         r.st # "succeeded"
  PROVE  SeenInv'
<1>1. worker[w].draft.st # "succeeded"
  BY DEF SeenInv, ReplacesNoMoney
<1>2. \A q \in Payments : row'[q].st = "succeeded" => row'[q] = row[q]
  BY <1>1 DEF CommitsOld
<1>3. CountedIsSeen'
  BY <1>2 DEF SeenInv, CountedIsSeen, Seen
<1> QED BY <1>3, EndsSeen DEF SeenInv

LEMMA InitiateSeen ==
  ASSUME TypeInv, SeenInv, NEW w \in Workers
  PROVE  /\ InitiateFresh(w) => SeenInv'
         /\ \A p \in Payments : /\ InitiateOverDeadLink(w, p) => SeenInv'
                                /\ CancelLink(w, p) \/ RetireLink(w, p) => SeenInv'
                                /\ InsertPayment(w, p) => SeenInv'
                                /\ StartRefund(w, p) => SeenInv'
                                /\ StartPoll(w, p) => SeenInv'
                                /\ \A s \in Announced : Notified(w, p, s) => SeenInv'
<1>1. InitiateFresh(w) => SeenInv'
  <2> DEFINE t == ReadyToInsert(NoPayment, Absent)
  <2>1. t.draft.st # "succeeded"
    BY DEF ReadyToInsert, Idle, Absent
  <2>2. InitiateFresh(w) => Becomes(w, t) /\ OnlyRuns
    BY DEF InitiateFresh
  <2> HIDE DEF t
  <2> QED BY <2>1, <2>2, RunsSeen
<1>2. ASSUME NEW p \in Payments, NEW op, NEW n, Asks(w, op, p, n)
      PROVE  SeenInv'
  <2> DEFINE t == [Idle EXCEPT !.at = "asked", !.op = op, !.pay = p,
                               !.draft = row[p], !.seen = bank[p].st,
                               !.right = bank[p].right, !.note = n]
  <2>1. t.at \notin Replacing
    BY DEF Idle, Replacing
  <2>2. Becomes(w, t) /\ OnlyRuns
    BY <1>2 DEF Asks
  <2> HIDE DEF t
  <2> QED BY <2>1, <2>2, RunsSeen
<1>3. ASSUME NEW p \in Payments, InsertPayment(w, p)
      PROVE  SeenInv'
  <2> DEFINE t == [worker[w] EXCEPT !.at = "init", !.new = p]
  <2>1. worker[w] \in Request
    BY DEF TypeInv, TypeOK
  <2>2. t.draft = worker[w].draft
    BY <2>1 DEF Request
  <2>3. worker[w].draft.st # "succeeded"
    BY <1>3 DEF InsertPayment, SeenInv, ReplacesNoMoney, Replacing
  <2>4. Becomes(w, t) /\ OnlyRuns
    BY <1>3 DEF InsertPayment
  <2> HIDE DEF t
  <2> QED BY <2>2, <2>3, <2>4, RunsSeen
<1>4. ASSUME NEW p \in Payments, StartRefund(w, p)
      PROVE  SeenInv'
  <2> DEFINE t == [Idle EXCEPT !.at = "refund", !.op = "refund", !.pay = p,
                               !.draft = AttemptOf(row[p])]
  <2>1. t.at \notin Replacing
    BY DEF Idle, Replacing
  <2>2. Becomes(w, t) /\ OnlyRuns
    BY <1>4 DEF StartRefund
  <2> HIDE DEF t
  <2> QED BY <2>1, <2>2, RunsSeen
<1>5. ASSUME NEW p \in Payments, StartPoll(w, p)
      PROVE  SeenInv'
  <2> DEFINE t == [Idle EXCEPT !.at = "polled", !.op = "poll", !.pay = p, !.draft = row[p]]
  <2>1. t.at \notin Replacing
    BY DEF Idle, Replacing
  <2>2. Becomes(w, t) /\ OnlyRuns
    BY <1>5 DEF StartPoll
  <2> HIDE DEF t
  <2> QED BY <2>1, <2>2, RunsSeen
<1> QED BY <1>1, <1>2, <1>3, <1>4, <1>5 DEF InitiateOverDeadLink, CancelLink, RetireLink, Notified

LEMMA AskedSeen ==
  ASSUME TypeInv, BooksInv, PaidInv, SeenInv, NEW w \in Workers
  PROVE  /\ AskedAndLeft(w) => SeenInv'
         /\ AskedAndGoesOn(w) => SeenInv'
         /\ NotificationApplied(w) => SeenInv'
         /\ PollApplied(w) => SeenInv'
<1> DEFINE t == worker[w]
           p == worker[w].pay
           r == Applied(w)
<1>1. t.at \in {"asked", "pollseen"} =>
        /\ p \in Payments /\ t \in Request /\ row[p] \in Row /\ r \in Row
        /\ t.at = "asked" => t.draft = row[p]
        /\ Follows(row[p], r)
  BY WorkerType, WorkerKnows, AfterFollows DEF RequestFits, Agrees, Applied
<1>2. AskedAndLeft(w) => SeenInv'
  <2> HIDE DEF r
  <2> QED BY <1>1, CommitsSeen DEF AskedAndLeft, r
<1>3. ASSUME AskedAndGoesOn(w)
      PROVE  SeenInv'
  <2>1. OnlyRuns /\ t.at = "asked"
    BY <1>3 DEF AskedAndGoesOn
  <2>2. CASE Becomes(w, [t EXCEPT !.at = "close", !.draft = r])
    <3> DEFINE u == [t EXCEPT !.at = "close", !.draft = r]
    <3>1. u.at \notin Replacing
      BY <1>1, <2>1 DEF Request, Replacing
    <3> HIDE DEF u
    <3> QED BY <2>1, <2>2, <3>1, RunsSeen DEF u
  <2>3. CASE r.st # "succeeded" /\ Becomes(w, ReadyToInsert(p, r))
    <3>1. ReadyToInsert(p, r).draft = r
      BY DEF ReadyToInsert, Idle
    <3> HIDE DEF r
    <3> QED BY <2>1, <2>3, <3>1, RunsSeen
  <2> QED BY <1>3, <2>2, <2>3 DEF AskedAndGoesOn
<1>4. ASSUME NotificationApplied(w)
      PROVE  SeenInv'
  <2> DEFINE u == [Applied(w) EXCEPT !.bid = TRUE]
  <2>1. t.at = "asked" /\ Commits(p, t.draft, u) /\ Ends(w)
    BY <1>4 DEF NotificationApplied
  <2>2. u.st = r.st /\ u.prov = r.prov
    BY <1>1, <2>1 DEF Row
  <2> HIDE DEF u, r
  <2>3. Follows(row[p], u)
    BY <1>1, <2>1, <2>2 DEF Follows, NewlyCounted, GaveRefundUp
  <2> QED BY <1>1, <2>1, <2>3, CommitsSeen
<1>5. ASSUME PollApplied(w)
      PROVE  SeenInv'
  <2>1. t.at = "pollseen" /\ Commits(p, row[p], r) /\ Ends(w)
    BY <1>5 DEF PollApplied
  <2> HIDE DEF r
  <2> QED BY <1>1, <2>1, CommitsSeen
<1> QED BY <1>2, <1>3, <1>4, <1>5

LEMMA CloseSeen ==
  ASSUME TypeInv, BooksInv, PaidInv, SeenInv, NEW w \in Workers
  PROVE  /\ CloseAccepted(w) => SeenInv'
         /\ CloseRefused(w) => SeenInv'
         /\ CloseUnclear(w) => SeenInv'
         /\ CloseAsksAgain(w) => SeenInv'
<1> DEFINE t == worker[w]
           p == worker[w].pay
<1>1. t.at \in {"close", "reask"} =>
        /\ p \in Payments /\ t \in Request /\ t.draft \in Row
        /\ t.draft.st \in Open /\ row[p].st \in Open
  BY WorkerType, WorkerKnows DEF RequestFits, Agrees
<1>2. ASSUME NEW r, r.st # "succeeded", t.at = "close", Closed(w, r)
      PROVE  SeenInv'
  <2>1. CASE Becomes(w, ReadyToInsert(p, r)) /\ OnlyRuns
    <3>1. ReadyToInsert(p, r).draft = r
      BY DEF ReadyToInsert, Idle
    <3> QED BY <1>2, <2>1, <3>1, RunsSeen
  <2>2. CASE Commits(p, row[p], r) /\ Ends(w)
    BY <1>1, <1>2, <2>2, CommitsSeen
  <2> QED BY <1>2, <2>1, <2>2 DEF Closed
<1>3. ASSUME CloseAccepted(w)
      PROVE  SeenInv'
  <2> DEFINE s == bank'[p].st
             r == After(t.draft, s, TRUE)
  <2>1. t.at = "close" /\ CancelStarts(p) /\ Closed(w, r)
    BY <1>3 DEF CloseAccepted
  <2>2. s \in {"VOIDED", "MOVING", "REFUNDING", "REFUNDED"}
    BY <1>1, <2>1, CloseMoves, Parts
  <2>3. r.st # "succeeded"
    BY <1>1, <2>1, <2>2
       DEF After, FinalUnpaid, UnpaidAs, Returning, KeyAfter, Row, Open
  <2> HIDE DEF r
  <2> QED BY <1>2, <2>1, <2>3
<1>4. ASSUME CloseRefused(w)
      PROVE  SeenInv'
  <2> DEFINE r == [t.draft EXCEPT !.st = "closed"]
  <2>1. t.at = "close" /\ Closed(w, r)
    BY <1>4 DEF CloseRefused
  <2>2. r.st # "succeeded"
    BY <1>1, <2>1 DEF Row
  <2> HIDE DEF r
  <2> QED BY <1>2, <2>1, <2>2
<1>5. ASSUME CloseUnclear(w)
      PROVE  SeenInv'
  <2> DEFINE u == [t EXCEPT !.at = "reask", !.seen = "none"]
  <2>1. t.at = "close" /\ Becomes(w, u) /\ OnlyRuns
    BY <1>5 DEF CloseUnclear
  <2>2. u.at \notin Replacing
    BY <1>1, <2>1 DEF Request, Replacing
  <2> HIDE DEF u
  <2> QED BY <2>1, <2>2, RunsSeen
<1>6. ASSUME CloseAsksAgain(w)
      PROVE  SeenInv'
  <2>1. t.at = "reask" /\ Ends(w)
    BY <1>6 DEF CloseAsksAgain
  <2>2. PICK answered \in BOOLEAN : Commits(p, row[p], AskAgain(w, answered))
    BY <1>6 DEF CloseAsksAgain
  <2> DEFINE r == AskAgain(w, answered)
  <2>3. r = t.draft \/ Follows(t.draft, r)
    BY <1>1, <2>1, AfterFollows DEF AskAgain
  <2> HIDE DEF r
  <2>4. Follows(row[p], r)
    BY <1>1, <2>1, <2>3 DEF Follows, NewlyCounted, GaveRefundUp, Open, Counted
  <2> QED BY <1>1, <2>1, <2>2, <2>4, CommitsSeen DEF r
<1> QED BY <1>3, <1>4, <1>5, <1>6

LEMMA RefundSeen ==
  ASSUME TypeInv, BooksInv, PaidInv, SeenInv, NEW w \in Workers
  PROVE  /\ RefundAnswered(w) => SeenInv'
         /\ RefundUnanswered(w) => SeenInv'
         /\ RefundIsRefused(w) => SeenInv'
         /\ RefundAsksState(w) => SeenInv'
<1> DEFINE t == worker[w]
           p == worker[w].pay
           d == worker[w].draft
<1>1. t.at \in {"refund", "refundask"} =>
        /\ p \in Payments /\ t \in Request /\ d \in Row /\ d.st = "refund_requested"
  BY WorkerType, WorkerKnows DEF RequestFits, Agrees
<1>2. ASSUME t.at \in {"refund", "refundask"}, Ends(w), NEW r, Follows(d, r),
             Commits(p, d, r)
      PROVE  SeenInv'
  BY <1>1, <1>2, CommitsSeen
<1>3. RefundAnswered(w) => SeenInv'
  BY <1>1, <1>2, AfterFollows DEF RefundAnswered
<1>4. RefundUnanswered(w) => SeenInv'
  BY <1>1, <1>2 DEF RefundUnanswered, Follows
<1>5. ASSUME RefundIsRefused(w)
      PROVE  SeenInv'
  <2> DEFINE u == [t EXCEPT !.at = "refundask"]
  <2>1. t.at = "refund" /\ Becomes(w, u) /\ OnlyRuns
    BY <1>5 DEF RefundIsRefused
  <2>2. u.at \notin Replacing
    BY <1>1, <2>1 DEF Request, Replacing
  <2> HIDE DEF u
  <2> QED BY <2>1, <2>2, RunsSeen
<1>6. ASSUME RefundAsksState(w)
      PROVE  SeenInv'
  <2>1. t.at = "refundask" /\ Ends(w)
    BY <1>6 DEF RefundAsksState
  <2>2. PICK s \in {bank[p].st, "none"} : Commits(p, d, AfterRefusal(d, s))
    BY <1>6 DEF RefundAsksState
  <2>3. Follows(d, RefundFailed(d))
    BY <1>1, <2>1 DEF RefundFailed, Follows, GaveRefundUp, Row
  <2>4. Follows(d, d)
    BY DEF Follows
  <2>5. Follows(d, AfterRefusal(d, s))
    BY <1>1, <2>1, <2>3, <2>4, AfterFollows DEF AfterRefusal
  <2> QED BY <1>2, <2>1, <2>2, <2>5
<1> QED BY <1>3, <1>4, <1>5, <1>6

LEMMA StillSeen ==
  ASSUME SeenInv, UNCHANGED <<row, paidBy, flagged, worker>>
  PROVE  SeenInv'
  BY DEF SeenInv, CountedIsSeen, ReplacesNoMoney

LEMMA InitSeen ==
  ASSUME TypeInv, SeenInv, NEW w \in Workers,
         InsertAbandoned(w) \/ InitAnswered(w) \/ InitUnanswered(w)
  PROVE  SeenInv'
<1>1. /\ Ends(w) /\ worker[w].at \in Replacing /\ UNCHANGED <<paidBy, flagged>>
  BY DEF InsertAbandoned, InitAnswered, InitUnanswered, Replacing
<1>2. /\ Absent.st # "succeeded" /\ LinkIssued.st # "succeeded"
      /\ InitFailed.st # "succeeded"
  BY DEF Absent, LinkIssued, InitFailed
<1>3. CASE row' = row
  BY <1>1, <1>3, EndsSeen DEF SeenInv, CountedIsSeen
<1>4. CASE \E new, r : CommitsOld(w, new, r) /\ r.st # "succeeded"
  BY <1>1, <1>4, CommitsOldSeen
<1> QED BY <1>2, <1>3, <1>4 DEF InsertAbandoned, InitAnswered, InitUnanswered

LEMMA FirstSeen ==
  Init => SeenInv
  BY DEF Init, SeenInv, CountedIsSeen, Seen, ReplacesNoMoney, Replacing, Absent, Idle

LEMMA NextSeen ==
  TypeInv /\ BooksInv /\ PaidInv /\ SeenInv /\ [Next]_vars => SeenInv'
<1> SUFFICES ASSUME TypeInv, BooksInv, PaidInv, SeenInv, [Next]_vars PROVE SeenInv'
  OBVIOUS
<1>1. ASSUME NEW w \in Workers, Works(w) PROVE SeenInv'
  <2>1. CASE PollAnswered(w)
    <3> DEFINE u == [worker[w] EXCEPT !.at = "pollseen",
                                      !.seen = bank[worker[w].pay].st,
                                      !.right = bank[worker[w].pay].right]
    <3>1. Becomes(w, u) /\ OnlyRuns
      BY <2>1 DEF PollAnswered
    <3>2. worker[w] \in Request
      BY DEF TypeInv, TypeOK
    <3>3. u.at \notin Replacing
      BY <3>2 DEF Request, Replacing
    <3> HIDE DEF u
    <3> QED BY <3>1, <3>3, RunsSeen
  <2>2. CASE PollDiscarded(w) \/ Dies(w)
    <3>1. Becomes(w, Idle) /\ OnlyRuns
      BY <2>2 DEF PollDiscarded, Dies, Ends
    <3> QED BY <3>1, RunsSeen DEF Idle, Replacing
  <2> QED BY <1>1, <2>1, <2>2, InitiateSeen, AskedSeen, CloseSeen, RefundSeen, InitSeen
          DEF Works
<1>2. CASE UNCHANGED vars
  BY <1>2, StillSeen DEF vars
<1>3. ASSUME NEW p \in Payments, World(p) PROVE SeenInv'
  BY <1>3, StillSeen DEF World
<1>4. ASSUME NEW p \in Payments, NEW s \in Announced, NotificationIgnored(p, s)
      PROVE  SeenInv'
  BY <1>4, StillSeen DEF NotificationIgnored
<1> QED BY <1>1, <1>2, <1>3, <1>4 DEF Next

(***************************************************************************)
(* The invariant about counted rows and what the admin was told.           *)
(***************************************************************************)
THEOREM SeenInductive == Spec => []SeenInv
  BY FirstSeen, NextSeen, TypeInductive, BooksInductive, PaidInductive, PTL DEF Spec

LEMMA SeenHolds ==
  SeenInv => CountedMoneyIsSeen
  BY DEF SeenInv, CountedIsSeen, Seen, CountedMoneyIsSeen

(***************************************************************************)
(* No counted payment of a waiting application is left alone, and of two   *)
(* counted payments the admin was told of one, for any number of payments  *)
(* and of requests at once (_on_paid, refund_failed).                      *)
(***************************************************************************)
THEOREM CountedIsTold == Spec => []CountedMoneyIsSeen
  BY SeenHolds, SeenInductive, PTL

(***************************************************************************)
(* Orders of refunds.  A new order is given under a key of its own only    *)
(* when the earlier one is not alive at the bank.  The books may not know  *)
(* of the one that is: a process that died after its call has left no      *)
(* trace of it.  But the next attempt then bears the same key, since the   *)
(* attempt was rolled back too; that is the point of Awaited.              *)
(***************************************************************************)
KeysOf(b) == b.orders \ {CabinetOrder}
OrdersFit(b) == b.st \notin {"REFUNDING", "REFUNDED"} => b.orders = {}
One(b) == \A j, k \in KeysOf(b) : j = k

\* Money the cabinet has returned a part of takes no order of ours any more.
ByCabinet(b) ==
  /\ KeysOf(b) = {}
  /\ \/ b.st = "REFUNDED"
     \/ b.money = "part" /\ (b.st = "REFUNDING" => CabinetOrder \in b.orders)

\* The orders O of ours that may be alive at the bank while the row is r.
Awaited(r, O) ==
  /\ r.st = "succeeded" => O \subseteq {r.att + 1}
  /\ r.st = "refund_requested" /\ r.key # NoKey => O \subseteq {r.key}
KeyFits(r) == r.st \notin {"refund_requested", "refunded"} => r.key = NoKey
BidFits(r) == r.st \notin {"absent", "failed"} => r.bid

Returns == {"refund", "refundask"}
Told(t, r, b) ==
  /\ t.seen = "PARTIAL_REFUNDED" => ByCabinet(b)
  /\ t.at = "asked" /\ t.seen \in {"CONFIRMED", "REJECTED"} => KeysOf(b) = {}
  /\ KeyFits(t.draft) /\ (t.op # "notify" => t.draft.bid)
  /\ t.at \in {"close", "reask", "insert", "init"} => t.op \in Closing
  /\ t.at \in Polling => t.op = "poll"
  /\ t.op \in Closing => t.at \notin Polling /\ t.draft.key = NoKey /\ r.st \in Open
  /\ t.at \in Returns => /\ t.op = "refund" /\ r.st \in {"succeeded", "refund_requested"}
                         /\ t.draft = AttemptOf(r) /\ t.draft.key # NoKey

OrdersHold == \A p \in Payments : OrdersFit(bank[p])
RowsFit == \A p \in Payments : KeyFits(row[p]) /\ BidFits(row[p])
RequestsTold == \A w \in Workers : worker[w].pay \in Payments =>
                  Told(worker[w], row[worker[w].pay], bank[worker[w].pay])
OneAwaited == \A p \in Payments \ overtaken :
                One(bank[p]) /\ Awaited(row[p], KeysOf(bank[p]))

OrdersInv == OrdersHold /\ RowsFit /\ RequestsTold /\ OneAwaited

\* What OnlyForward says of p.
Forward(p) ==
  /\ row[p].st \in Counted => row'[p].st \in Counted
  /\ row[p].st = "refunded" => row'[p] = row[p]
  /\ (row[p].st = "refund_requested" /\ row'[p].st = "succeeded"
       /\ p \notin overtaken') => row[p].key \notin bank[p].orders
AllForward == \A p \in Payments : Forward(p)

(***************************************************************************)
(* What the bank does to orders.                                           *)
(***************************************************************************)
Gives(p, K) ==
  /\ \A q \in Payments : /\ OrdersFit(bank'[q])
                         /\ ByCabinet(bank[q]) => ByCabinet(bank'[q])
                         /\ q # p => KeysOf(bank'[q]) \subseteq KeysOf(bank[q])
  /\ KeysOf(bank'[p]) \subseteq KeysOf(bank[p]) \union K

LEMMA MovesOrders ==
  ASSUME BankTypeOK, OrdersHold, NEW p \in Payments, NEW b, Moves(p, b), OrdersFit(b),
         ByCabinet(bank[p]) => ByCabinet(b), NEW K,
         KeysOf(b) \subseteq KeysOf(bank[p]) \union K
  PROVE  Gives(p, K)
  BY DEF BankTypeOK, Moves, OrdersHold, Gives

LEMMA MovesSettle ==
  ASSUME BankTypeOK, OrdersHold, NEW p \in Payments, NEW b, Moves(p, b), OrdersFit(b),
         ByCabinet(bank[p]) => ByCabinet(b),
         b.orders \subseteq bank[p].orders \union {CabinetOrder}
  PROVE  Gives(p, {})
<1>1. KeysOf(b) \subseteq KeysOf(bank[p])
  BY DEF KeysOf
<1> QED BY <1>1, MovesOrders

LEMMA StillOrders ==
  ASSUME OrdersHold, UNCHANGED bank, NEW p \in Payments
  PROVE  Gives(p, {})
  BY DEF OrdersHold, Gives

LEMMA BankNextOrders ==
  ASSUME BankTypeOK, MoneyFitsStatus, OrdersHold, NEW p \in Payments,
         BankNext(p) \/ PayerPays(p)
  PROVE  Gives(p, {})
<1> bank[p] \in BankRecord /\ MoneyFits(bank[p]) /\ OrdersFit(bank[p])
  BY DEF BankTypeOK, MoneyFitsStatus, OrdersHold
<1> USE DEF BankRecord, Money, MoneyFits, OrdersFit, ByCabinet, KeysOf
<1>1. CASE PayerPays(p)
  BY <1>1, MovesSettle DEF PayerPays
<1>2. CASE PayerFails(p)
  BY <1>2, MovesSettle DEF PayerFails
<1>3. CASE Confirms(p)
  BY <1>3, MovesSettle DEF Confirms
<1>4. CASE LinkExpires(p)
  BY <1>4, MovesSettle DEF LinkExpires
<1>5. CASE RefundCompletes(p)
  BY <1>5, MovesSettle DEF RefundCompletes
<1>6. CASE RefundIsRejected(p)
  BY <1>6, MovesSettle DEF RefundIsRejected
<1>7. CASE CabinetRefund(p)
  BY <1>7, MovesSettle DEF CabinetRefund, Refundable, KeepsMoney, Refunding
<1>8. CASE CabinetPartialRefund(p)
  BY <1>8, MovesSettle DEF CabinetPartialRefund
<1> QED BY <1>1, <1>2, <1>3, <1>4, <1>5, <1>6, <1>7, <1>8 DEF BankNext

\* What a call adds; a Cancel and a refund of money that is kept find no order.
LEMMA CallsOrders ==
  ASSUME BankTypeOK, MoneyFitsStatus, OrdersHold, NEW p \in Payments
  PROVE  /\ InitAccepted(p) /\ bank[p].st = "none" => Gives(p, {})
         /\ CancelRefused(p) => Gives(p, {})
         /\ CancelStarts(p) => /\ Gives(p, {LinkOrder})
                               /\ One(bank[p]) => One(bank'[p])
         /\ \A k \in Keys : RefundAccepted(p, k) =>
              /\ Gives(p, {k})
              /\ bank'[p].st \in {"REFUNDING", "REFUNDED"}
<1> bank[p] \in BankRecord /\ MoneyFits(bank[p]) /\ OrdersFit(bank[p])
  BY DEF BankTypeOK, MoneyFitsStatus, OrdersHold
<1>0. \A b : Moves(p, b) => bank'[p] = b
  BY DEF Moves, BankTypeOK
<1> USE DEF BankRecord, MoneyFits, OrdersFit, ByCabinet, KeysOf
<1>1. InitAccepted(p) /\ bank[p].st = "none" => Gives(p, {})
  BY MovesOrders DEF InitAccepted
<1>2. CancelRefused(p) => Gives(p, {})
  BY DEF CancelRefused, BankTypeOK, OrdersHold, Gives
<1>3. ASSUME CancelVoids(p)
      PROVE  Gives(p, {LinkOrder}) /\ (One(bank[p]) => One(bank'[p]))
  <2>1. bank'[p].orders = bank[p].orders
    BY <1>3 DEF CancelVoids, Moves, BankTypeOK
  <2>2. Gives(p, {})
    BY <1>3, MovesSettle DEF CancelVoids, Payable
  <2> QED BY <2>1, <2>2 DEF One, Gives
<1>4. ASSUME CancelReturnsMoney(p)
      PROVE  Gives(p, {LinkOrder}) /\ (One(bank[p]) => One(bank'[p]))
  <2>1. PICK b \in {Refunding(p, LinkOrder), Refunded(p, LinkOrder)} : Moves(p, b)
    BY <1>4 DEF CancelReturnsMoney
  <2>2. bank[p].orders = {} /\ bank[p].money = "kept"
    BY <1>4 DEF CancelReturnsMoney, Refundable, KeepsMoney
  <2>3. b.orders = bank[p].orders \union {LinkOrder} /\ b.st \in {"REFUNDING", "REFUNDED"}
    BY DEF Refunding, Refunded
  <2>4. bank'[p] = b
    BY <1>0, <2>1
  <2>5. ~ByCabinet(bank[p])
    BY <1>4, <2>2 DEF CancelReturnsMoney, Refundable
  <2> HIDE DEF ByCabinet
  <2>6. Gives(p, {LinkOrder})
    BY <2>1, <2>2, <2>3, <2>5, MovesOrders
  <2> QED BY <2>2, <2>3, <2>4, <2>6 DEF One
<1>5. CancelReverses(p) => Gives(p, {LinkOrder}) /\ (One(bank[p]) => One(bank'[p]))
  BY StillOrders DEF CancelReverses, Gives
<1>6. ASSUME NEW k \in Keys, RefundAccepted(p, k)
      PROVE  Gives(p, {k}) /\ bank'[p].st \in {"REFUNDING", "REFUNDED"}
  <2>1. CASE k \in bank[p].orders /\ UNCHANGED bank
    BY <2>1, StillOrders DEF Gives
  <2>2. CASE /\ Refundable(p) \/ (bank[p].st = "REFUNDING" /\ CabinetOrder \notin bank[p].orders)
             /\ \E b \in {Refunding(p, k), Refunded(p, k)} : Moves(p, b)
    <3>1. PICK b \in {Refunding(p, k), Refunded(p, k)} : Moves(p, b)
      BY <2>2
    <3>2. b.orders = bank[p].orders \union {k} /\ b.st \in {"REFUNDING", "REFUNDED"}
      BY DEF Refunding, Refunded
    <3>3. bank'[p] = b
      BY <1>0, <3>1
    <3>4. ~ByCabinet(bank[p])
      BY <2>2 DEF Refundable, KeepsMoney
    <3> HIDE DEF ByCabinet
    <3> QED BY <3>1, <3>2, <3>3, <3>4, MovesOrders
  <2> QED BY <1>6, <2>1, <2>2 DEF RefundAccepted
<1> QED BY <1>1, <1>2, <1>3, <1>4, <1>5, <1>6 DEF CancelStarts

(***************************************************************************)
(* What the automaton does to attempts and keys.                           *)
(***************************************************************************)
LEMMA AfterOrders ==
  ASSUME NEW r \in Row, NEW s, NEW right, NEW O, KeyFits(r), Awaited(r, O),
         s \in {"CONFIRMED", "REJECTED", "PARTIAL_REFUNDED"} /\ r.st # "succeeded"
           /\ After(r, s, right).st = "succeeded" => O = {}
  PROVE  Awaited(After(r, s, right), O)
<1> USE DEF Awaited, KeyFits, Row, Counted, Open, NoKey
<1>1. CASE s = "CONFIRMED" /\ MayCount(r)
  <2>1. After(r, s, right) = PaidAs(r, right)
    BY <1>1 DEF After, FinalUnpaid
  <2> QED BY <1>1, <2>1 DEF PaidAs, MayCount
<1>2. CASE s \in {"NEW", "MOVING"} /\ r.st \in Open /\ r.prov # "MISMATCH"
  <2>1. After(r, s, right) = [r EXCEPT !.prov = s]
    BY <1>2 DEF After, FinalUnpaid
  <2> QED BY <1>2, <2>1
<1>3. CASE s \in FinalUnpaid /\ r.st \in Open
  <2>1. After(r, s, right) = [r EXCEPT !.st = UnpaidAs(s), !.prov = s]
    BY <1>3 DEF After, FinalUnpaid
  <2> QED BY <1>3, <2>1 DEF UnpaidAs
<1>4. CASE s = "REJECTED" /\ r.st = "refund_requested"
  <2>1. After(r, s, right) = RefundFailed(r)
    BY <1>4 DEF After, FinalUnpaid
  <2> QED BY <1>4, <2>1 DEF RefundFailed
<1>5. CASE s \in {"REFUNDING", "REFUNDED"} /\ r.st # "refunded"
  <2>1. After(r, s, right) =
          [r EXCEPT !.st = Returning(s), !.prov = s, !.key = KeyAfter(r, s)]
    BY <1>5 DEF After, FinalUnpaid
  <2> QED BY <1>5, <2>1 DEF Returning, KeyAfter
<1>6. CASE /\ s = "PARTIAL_REFUNDED" /\ r.prov # s
           /\ r.st \in {"succeeded", "refund_requested"}
  <2>1. After(r, s, right) = [r EXCEPT !.st = "succeeded", !.prov = s, !.key = NoKey]
    BY <1>6 DEF After, FinalUnpaid
  <2> QED BY <1>6, <2>1
<1>7. CASE After(r, s, right) = r
  BY <1>7
<1> QED BY <1>1, <1>2, <1>3, <1>4, <1>5, <1>6, <1>7 DEF After

LEMMA AfterKeeps ==
  ASSUME NEW r \in Row, NEW s, NEW right
  PROVE  /\ After(r, s, right).bid = r.bid
         /\ KeyFits(r) => KeyFits(After(r, s, right))
         /\ r.key = NoKey => After(r, s, right).key = NoKey
         /\ r.st = "refunded" => After(r, s, right) = r
         /\ r.st \in Counted => After(r, s, right).st \in Counted
         /\ After(r, s, right).st = "succeeded" /\ r.st # "succeeded" =>
              /\ s \in {"CONFIRMED", "REJECTED", "PARTIAL_REFUNDED"}
              /\ r.st = "refund_requested" => s \in {"REJECTED", "PARTIAL_REFUNDED"}
<1> USE DEF After, PaidAs, UnpaidAs, FinalUnpaid, RefundFailed, Returning, KeyAfter,
            MayCount, KeyFits, Row, Counted, Open
<1>1. After(r, s, right).bid = r.bid
  OBVIOUS
<1>2. KeyFits(r) => KeyFits(After(r, s, right))
  OBVIOUS
<1>3. r.key = NoKey => After(r, s, right).key = NoKey
  OBVIOUS
<1>4. r.st = "refunded" => After(r, s, right) = r
  OBVIOUS
<1>5. r.st \in Counted => After(r, s, right).st \in Counted
  OBVIOUS
<1>6. After(r, s, right).st = "succeeded" /\ r.st # "succeeded" =>
        /\ s \in {"CONFIRMED", "REJECTED", "PARTIAL_REFUNDED"}
        /\ r.st = "refund_requested" => s \in {"REJECTED", "PARTIAL_REFUNDED"}
  OBVIOUS
<1> QED BY <1>1, <1>2, <1>3, <1>4, <1>5, <1>6

(***************************************************************************)
(* A step of request w that touches the payments of S, which no other      *)
(* request has locked: what is to be shown of S and of w is enough.        *)
(***************************************************************************)
BankKeeps == \A q \in Payments : /\ OrdersFit(bank'[q])
                                 /\ ByCabinet(bank[q]) => ByCabinet(bank'[q])
Touches(S) ==
  /\ BankKeeps /\ overtaken \subseteq overtaken'
  /\ \A q \in Payments \ S : /\ row'[q] = row[q]
                             /\ KeysOf(bank'[q]) \subseteq KeysOf(bank[q])
Leaves(q) == /\ KeyFits(row'[q]) /\ BidFits(row'[q]) /\ Forward(q)
             /\ q \notin overtaken' => /\ One(bank'[q])
                                       /\ Awaited(row'[q], KeysOf(bank'[q]))

LEMMA AwaitedStays ==
  ASSUME NEW r, NEW O, NEW P, Awaited(r, O), P \subseteq O
  PROVE  Awaited(r, P)
  BY DEF Awaited

LEMMA OrdersStep ==
  ASSUME TypeInv, PaidInv, OrdersInv, NEW w \in Workers, NEW t, Becomes(w, t),
         NEW S \in SUBSET Payments, Touches(S),
         \A q \in S : Leaves(q) /\ AloneWith(w, q),
         t.pay \in Payments => Told(t, row'[t.pay], bank'[t.pay])
  PROVE  OrdersInv' /\ AllForward
<1>1. \A v \in Workers : worker'[v] = IF v = w THEN t ELSE worker[v]
  BY DEF Becomes, TypeInv, TypeOK
<1>2. OrdersHold'
  BY DEF Touches, BankKeeps, OrdersHold
<1>3. RowsFit'
  BY DEF Touches, Leaves, OrdersInv, RowsFit
<1>4. RequestsTold'
  <2> SUFFICES ASSUME NEW v \in Workers, worker'[v].pay \in Payments
               PROVE  Told(worker'[v], row'[worker'[v].pay], bank'[worker'[v].pay])
    BY DEF RequestsTold
  <2>1. CASE v = w
    BY <1>1, <2>1
  <2>2. CASE v # w
    <3> DEFINE u == worker[v]
               q == worker[v].pay
    <3>1. worker'[v] = u /\ q \in Payments
      BY <1>1, <2>2
    <3>2. Told(u, row[q], bank[q])
      BY <3>1 DEF OrdersInv, RequestsTold
    <3>3. ByCabinet(bank[q]) => ByCabinet(bank'[q])
      BY <3>1 DEF Touches, BankKeeps
    <3>4. CASE q \in S
      <4>1. u.at \in Polling
        BY <2>2, <3>4 DEF AloneWith, HoldsLock, Polling
      <4>2. u.at # "asked" /\ u.at \notin {"close", "reask", "insert", "init"} \union Returns
        BY <4>1 DEF Polling, Returns
      <4> HIDE DEF u, q
      <4>3. Told(u, row'[q], bank'[q])
        BY <3>2, <3>3, <4>1, <4>2 DEF Told
      <4> QED BY <3>1, <4>3 DEF q, u
    <3>5. CASE q \notin S
      <4>1. row'[q] = row[q] /\ KeysOf(bank'[q]) \subseteq KeysOf(bank[q])
        BY <3>1, <3>5 DEF Touches
      <4> HIDE DEF u, q
      <4>2. Told(u, row'[q], bank'[q])
        BY <3>2, <3>3, <4>1 DEF Told
      <4> QED BY <3>1, <4>2 DEF q, u
    <3> QED BY <3>4, <3>5
  <2> QED BY <2>1, <2>2
<1>5. OneAwaited'
  <2> SUFFICES ASSUME NEW q \in Payments \ overtaken'
               PROVE  One(bank'[q]) /\ Awaited(row'[q], KeysOf(bank'[q]))
    BY DEF OneAwaited
  <2>1. CASE q \in S
    BY <2>1 DEF Leaves
  <2>2. CASE q \notin S
    <3>1. /\ q \notin overtaken /\ row'[q] = row[q]
          /\ KeysOf(bank'[q]) \subseteq KeysOf(bank[q])
      BY <2>2 DEF Touches
    <3>2. One(bank[q]) /\ Awaited(row[q], KeysOf(bank[q]))
      BY <3>1 DEF OrdersInv, OneAwaited
    <3> QED BY <3>1, <3>2, AwaitedStays DEF One
  <2> QED BY <2>1, <2>2
<1>6. AllForward
  BY DEF AllForward, Leaves, Touches, Forward
<1> QED BY <1>2, <1>3, <1>4, <1>5, <1>6 DEF OrdersInv

LEMMA CommitsTouch ==
  ASSUME TypeInv, OrdersInv, NEW p \in Payments, NEW K, Gives(p, K), NEW old, NEW r,
         Commits(p, old, r), overtaken \subseteq overtaken'
  PROVE  Touches({p}) /\ row'[p] = r
  BY DEF Commits, Gives, Touches, BankKeeps, TypeInv, TypeOK

\* A request that runs on over an unchanged bank, or ends.
LEMMA RunsOrders ==
  ASSUME TypeInv, PaidInv, OrdersInv, OnlyRuns, UNCHANGED bank, NEW w \in Workers, NEW t,
         Becomes(w, t), t.pay \in Payments => Told(t, row[t.pay], bank[t.pay])
  PROVE  OrdersInv' /\ AllForward
<1>1. UNCHANGED row
  BY DEF OnlyRuns
<1>2. Touches({})
  BY DEF OnlyRuns, Touches, BankKeeps, OrdersInv, OrdersHold
<1> QED BY <1>1, <1>2, OrdersStep

LEMMA WorkerTold ==
  ASSUME TypeInv, BooksInv, PaidInv, OrdersInv, NEW w \in Workers,
         worker[w].pay \in Payments
  PROVE  /\ Told(worker[w], row[worker[w].pay], bank[worker[w].pay])
         /\ KeyFits(row[worker[w].pay]) /\ BidFits(row[worker[w].pay])
         /\ worker[w].pay \notin overtaken =>
              /\ One(bank[worker[w].pay])
              /\ Awaited(row[worker[w].pay], KeysOf(bank[worker[w].pay]))
  BY DEF OrdersInv, RequestsTold, RowsFit, OneAwaited

\* What GetState tells at once.
LEMMA StateTells ==
  ASSUME BooksInv, OrdersHold, NEW p \in Payments
  PROVE  /\ bank[p].st = "PARTIAL_REFUNDED" => ByCabinet(bank[p])
         /\ bank[p].st \in {"CONFIRMED", "REJECTED", "PARTIAL_REFUNDED"} =>
              bank[p].orders = {} /\ KeysOf(bank[p]) = {}
<1>1. OrdersFit(bank[p]) /\ MoneyFits(bank[p])
  BY DEF OrdersHold, BooksInv, MoneyFitsStatus
<1> QED BY <1>1 DEF OrdersFit, MoneyFits, ByCabinet, KeysOf

(***************************************************************************)
(* Action by action.                                                       *)
(***************************************************************************)
LEMMA AsksOrders ==
  ASSUME TypeInv, BooksInv, PaidInv, OrdersInv, NEW w \in Workers, NEW p \in Payments,
         NEW op, NEW n, Asks(w, op, p, n),
         \/ op = "notify"
         \/ op \in Closing /\ row[p].st \in Open
  PROVE  OrdersInv' /\ AllForward
<1> DEFINE t == [Idle EXCEPT !.at = "asked", !.op = op, !.pay = p,
                             !.draft = row[p], !.seen = bank[p].st,
                             !.right = bank[p].right, !.note = n]
<1>1. /\ t.at = "asked" /\ t.pay = p /\ t.draft = row[p] /\ t.seen = bank[p].st
      /\ t.op = op
  BY DEF Idle
<1>2. Becomes(w, t) /\ OnlyRuns /\ UNCHANGED bank
  BY DEF Asks
<1>3. /\ KeyFits(row[p]) /\ BidFits(row[p])
      /\ row[p].st \in Open => row[p].bid /\ row[p].key = NoKey
  BY DEF OrdersInv, RowsFit, KeyFits, BidFits, Open
<1> HIDE DEF t
<1>4. Told(t, row[p], bank[p])
  BY <1>1, <1>3, StateTells DEF Told, OrdersInv, Closing, Polling, Returns
<1> QED BY <1>1, <1>2, <1>4, RunsOrders

LEMMA InitiateOrders ==
  ASSUME TypeInv, BooksInv, PaidInv, OrdersInv, NEW w \in Workers
  PROVE  /\ InitiateFresh(w) => OrdersInv' /\ AllForward
         /\ \A p \in Payments : InitiateOverDeadLink(w, p) \/ CancelLink(w, p) \/ RetireLink(w, p)
              => OrdersInv' /\ AllForward
<1>1. ASSUME InitiateFresh(w)
      PROVE  OrdersInv' /\ AllForward
  <2> DEFINE t == ReadyToInsert(NoPayment, Absent)
  <2>1. t.pay \notin Payments
    BY NoPaymentAssumption DEF ReadyToInsert, Idle
  <2>2. Becomes(w, t) /\ OnlyRuns /\ UNCHANGED bank
    BY <1>1 DEF InitiateFresh
  <2> HIDE DEF t
  <2> QED BY <2>1, <2>2, RunsOrders
<1> QED BY <1>1, AsksOrders DEF InitiateOverDeadLink, CancelLink, RetireLink, Closing

LEMMA InsertOrders ==
  ASSUME TypeInv, BooksInv, PaidInv, OrdersInv, NEW w \in Workers, NEW p \in Payments,
         InsertPayment(w, p)
  PROVE  OrdersInv' /\ AllForward
<1> DEFINE t == [worker[w] EXCEPT !.at = "init", !.new = p]
<1>1. /\ Becomes(w, t) /\ OnlyRuns /\ UNCHANGED bank /\ worker[w].at = "insert"
      /\ worker[w] \in Request
  BY DEF InsertPayment, TypeInv, TypeOK
<1>2. /\ t.at = "init" /\ t.pay = worker[w].pay /\ t.draft = worker[w].draft
      /\ t.seen = worker[w].seen /\ t.op = worker[w].op
  BY <1>1 DEF Request
<1> HIDE DEF t
<1>3. t.pay \in Payments => Told(t, row[t.pay], bank[t.pay])
  BY <1>1, <1>2, WorkerTold DEF Told, Polling, Returns
<1> QED BY <1>1, <1>3, RunsOrders

\* A request that has nothing to lock any more.
LEMMA IdleTold ==
  ASSUME NEW w \in Workers, Ends(w)
  PROVE  Becomes(w, Idle) /\ Idle.pay \notin Payments
  BY NoPaymentAssumption DEF Ends, Idle

\* A commit of one row of a request that has locked it.
LEMMA CommitsOrders ==
  ASSUME TypeInv, PaidInv, OrdersInv, NEW w \in Workers, Ends(w), NEW p \in Payments,
         AloneWith(w, p), NEW K, Gives(p, K), NEW old, NEW r, Commits(p, old, r),
         overtaken \subseteq overtaken', KeyFits(r), BidFits(r),
         row[p].st = "refunded" => r = row[p],
         row[p].st \in Counted => r.st \in Counted,
         row[p].st = "refund_requested" /\ r.st = "succeeded" /\ p \notin overtaken'
           => row[p].key \notin bank[p].orders,
         p \notin overtaken' => One(bank'[p]) /\ Awaited(r, KeysOf(bank'[p]))
  PROVE  OrdersInv' /\ AllForward
<1>1. Touches({p}) /\ row'[p] = r
  BY CommitsTouch
<1>2. Leaves(p)
  BY <1>1 DEF Leaves, Forward
<1> QED BY <1>1, <1>2, IdleTold, OrdersStep

LEMMA KeysAreOwn ==
  ASSUME NEW b, NEW r \in Row, KeysOf(b) = {}
  PROVE  r.key \notin b.orders
  BY AttemptsAssumption DEF KeysOf, Row, NoKey, Keys, CabinetOrder

\* The answer a request applies counts, or calls a refund failed, only where no
\* order of ours is alive, unless a poll was overtaken by one.
Settled(w) ==
  /\ worker[w].seen \in {"CONFIRMED", "REJECTED"}
  /\ Applied(w).st = "succeeded" /\ row[worker[w].pay].st # "succeeded"
  /\ worker[w].pay \notin overtaken'
  => KeysOf(bank[worker[w].pay]) = {}

LEMMA AppliedOrders ==
  ASSUME TypeInv, BooksInv, PaidInv, OrdersInv, NEW w \in Workers, NEW p,
         p = worker[w].pay, p \in Payments, Settled(w), overtaken \subseteq overtaken',
         NEW r, r = Applied(w)
  PROVE  /\ KeyFits(r) /\ r.bid = row[p].bid
         /\ row[p].st = "refunded" => r = row[p]
         /\ row[p].st \in Counted => r.st \in Counted
         /\ row[p].st = "refund_requested" /\ r.st = "succeeded" /\ p \notin overtaken'
              => row[p].key \notin bank[p].orders
         /\ p \notin overtaken' => One(bank[p]) /\ Awaited(r, KeysOf(bank[p]))
         /\ row[p].st \in Open /\ row[p].key = NoKey => r.key = NoKey
<1> DEFINE s == worker[w].seen
<1>1. row[p] \in Row /\ r = After(row[p], s, worker[w].right)
  BY WorkerType DEF Applied
<1>2. /\ Told(worker[w], row[p], bank[p]) /\ KeyFits(row[p])
      /\ p \notin overtaken => One(bank[p]) /\ Awaited(row[p], KeysOf(bank[p]))
  BY WorkerTold
<1>3. r.st = "succeeded" /\ row[p].st # "succeeded" /\ p \notin overtaken'
        => KeysOf(bank[p]) = {}
  <2>1. s = "PARTIAL_REFUNDED" => KeysOf(bank[p]) = {}
    BY <1>2 DEF Told, ByCabinet
  <2>2. r.st = "succeeded" /\ row[p].st # "succeeded" =>
          s \in {"CONFIRMED", "REJECTED", "PARTIAL_REFUNDED"}
    BY <1>1, AfterKeeps
  <2> QED BY <2>1, <2>2 DEF Settled
<1> HIDE DEF s
<1>4. p \notin overtaken' => One(bank[p]) /\ Awaited(r, KeysOf(bank[p]))
  BY <1>1, <1>2, <1>3, AfterOrders
<1>5. row[p].st = "refund_requested" /\ r.st = "succeeded" /\ p \notin overtaken'
        => row[p].key \notin bank[p].orders
  BY <1>1, <1>3, KeysAreOwn
<1> QED BY <1>1, <1>2, <1>4, <1>5, AfterKeeps

LEMMA AskedOrders ==
  ASSUME TypeInv, BooksInv, PaidInv, OrdersInv, NEW w \in Workers
  PROVE  /\ AskedAndLeft(w) => OrdersInv' /\ AllForward
         /\ AskedAndGoesOn(w) => OrdersInv' /\ AllForward
         /\ NotificationApplied(w) => OrdersInv' /\ AllForward
<1> SUFFICES ASSUME AskedAndLeft(w) \/ AskedAndGoesOn(w) \/ NotificationApplied(w)
             PROVE  OrdersInv' /\ AllForward
  OBVIOUS
<1> DEFINE t == worker[w]
           p == worker[w].pay
           r == Applied(w)
<1>1. /\ t.at = "asked" /\ p \in Payments /\ t \in Request /\ row[p] \in Row /\ r \in Row
      /\ UNCHANGED <<bank, overtaken>> /\ t.op \in Closing \union {"notify"}
  BY WorkerType DEF AskedAndLeft, AskedAndGoesOn, NotificationApplied, OnlyCommits, OnlyRuns,
                    RequestFits, Closing
<1>2. /\ Told(t, row[p], bank[p]) /\ KeyFits(row[p]) /\ BidFits(row[p])
      /\ t.draft = row[p] /\ AloneWith(w, p)
  BY <1>1, WorkerTold, WorkerKnows DEF Agrees, Polling
<1>3. Settled(w)
  BY <1>1, <1>2 DEF Told, Settled
<1>4. /\ KeyFits(r) /\ r.bid = row[p].bid
      /\ row[p].st = "refunded" => r = row[p]
      /\ row[p].st \in Counted => r.st \in Counted
      /\ row[p].st = "refund_requested" /\ r.st = "succeeded" /\ p \notin overtaken'
           => row[p].key \notin bank[p].orders
      /\ p \notin overtaken' => One(bank[p]) /\ Awaited(r, KeysOf(bank[p]))
      /\ row[p].st \in Open /\ row[p].key = NoKey => r.key = NoKey
  BY <1>1, <1>3, AppliedOrders
<1>5. Gives(p, {})
  BY <1>1, StillOrders DEF OrdersInv
<1>6. t.op \in Closing => row[p].st \in Open /\ row[p].bid /\ r.bid /\ r.key = NoKey
  BY <1>2, <1>4 DEF Told, BidFits, KeyFits, Open
<1> HIDE DEF r
<1>7. CASE AskedAndLeft(w)
  <2>1. Commits(p, t.draft, r) /\ Ends(w) /\ t.op \in Closing
    BY <1>7 DEF AskedAndLeft, r, Closing
  <2>2. BidFits(r)
    BY <1>6, <2>1 DEF BidFits
  <2> QED BY <1>1, <1>2, <1>4, <1>5, <2>1, <2>2, CommitsOrders
<1>8. CASE AskedAndGoesOn(w)
  <2>1. OnlyRuns /\ t.op \in Closing
    BY <1>8 DEF AskedAndGoesOn, Closing
  <2>2. CASE Becomes(w, [t EXCEPT !.at = "close", !.draft = r])
    <3> DEFINE u == [t EXCEPT !.at = "close", !.draft = r]
    <3>1. u.at = "close" /\ u.pay = p /\ u.draft = r /\ u.seen = t.seen /\ u.op = t.op
      BY <1>1 DEF Request
    <3> HIDE DEF u
    <3>2. Told(u, row[p], bank[p])
      BY <1>2, <1>4, <1>6, <2>1, <3>1 DEF Told, Polling, Returns
    <3>3. Becomes(w, u)
      BY <2>2 DEF u
    <3> QED BY <1>1, <2>1, <3>1, <3>2, <3>3, RunsOrders
  <2>3. CASE Becomes(w, ReadyToInsert(p, r))
    <3> DEFINE u == ReadyToInsert(p, r)
    <3>1. /\ u.at = "insert" /\ u.pay = p /\ u.draft = r /\ u.seen = "none"
          /\ u.op = "initiate"
      BY DEF ReadyToInsert, Idle
    <3> HIDE DEF u
    <3>2. Told(u, row[p], bank[p])
      BY <1>2, <1>4, <1>6, <2>1, <3>1 DEF Told, Polling, Returns, Closing
    <3>3. Becomes(w, u)
      BY <2>3 DEF u
    <3> QED BY <1>1, <2>1, <3>1, <3>2, <3>3, RunsOrders
  <2> QED BY <1>8, <2>2, <2>3 DEF AskedAndGoesOn, r
<1>9. CASE NotificationApplied(w)
  <2> DEFINE u == [Applied(w) EXCEPT !.bid = TRUE]
  <2>1. Commits(p, t.draft, u) /\ Ends(w)
    BY <1>9 DEF NotificationApplied
  <2>2. u.st = r.st /\ u.key = r.key /\ u.att = r.att /\ u.bid /\ (r.bid => u = r)
    BY <1>1 DEF r, Row
  <2> HIDE DEF u
  <2>3. KeyFits(u) /\ BidFits(u) /\ (row[p].st = "refunded" => u = row[p])
    BY <1>2, <1>4, <2>2 DEF KeyFits, BidFits
  <2>4. p \notin overtaken' => One(bank[p]) /\ Awaited(u, KeysOf(bank[p]))
    BY <1>4, <2>2 DEF Awaited
  <2> QED BY <1>1, <1>2, <1>4, <1>5, <2>1, <2>2, <2>3, <2>4, CommitsOrders
<1> QED BY <1>7, <1>8, <1>9

LEMMA PollOrders ==
  ASSUME TypeInv, BooksInv, PaidInv, OrdersInv, NEW w \in Workers
  PROVE  /\ \A p \in Payments : StartPoll(w, p) => OrdersInv' /\ AllForward
         /\ PollAnswered(w) \/ PollApplied(w) \/ PollDiscarded(w)
              => OrdersInv' /\ AllForward
<1> DEFINE t == worker[w]
           p == worker[w].pay
<1>1. ASSUME NEW q \in Payments, StartPoll(w, q)
      PROVE  OrdersInv' /\ AllForward
  <2> DEFINE u == [Idle EXCEPT !.at = "polled", !.op = "poll", !.pay = q, !.draft = row[q]]
  <2>1. /\ u.at = "polled" /\ u.pay = q /\ u.draft = row[q] /\ u.seen = "none"
        /\ u.op = "poll"
    BY DEF Idle
  <2>2. Becomes(w, u) /\ OnlyRuns /\ UNCHANGED bank /\ row[q].bid
    BY <1>1 DEF StartPoll
  <2> HIDE DEF u
  <2>3. Told(u, row[q], bank[q])
    BY <2>1, <2>2 DEF Told, Polling, Returns, Closing, OrdersInv, RowsFit
  <2> QED BY <2>1, <2>2, <2>3, RunsOrders
<1>2. CASE PollAnswered(w)
  <2> DEFINE u == [t EXCEPT !.at = "pollseen", !.seen = bank[t.pay].st,
                            !.right = bank[t.pay].right]
  <2>1. p \in Payments /\ t \in Request /\ t.at = "polled"
    BY <1>2, WorkerType DEF PollAnswered, RequestFits
  <2>2. /\ u.at = "pollseen" /\ u.pay = p /\ u.draft = t.draft /\ u.op = t.op
        /\ u.seen = bank[p].st
    BY <2>1 DEF Request
  <2>3. Becomes(w, u) /\ OnlyRuns /\ UNCHANGED bank
    BY <1>2 DEF PollAnswered
  <2> HIDE DEF u
  <2>4. Told(t, row[p], bank[p])
    BY <2>1, WorkerTold
  <2>5. Told(u, row[p], bank[p])
    BY <2>1, <2>2, <2>4, StateTells DEF Told, Polling, Returns, OrdersInv
  <2> QED BY <2>2, <2>3, <2>5, RunsOrders
<1>3. CASE PollApplied(w)
  <2> DEFINE r == Applied(w)
  <2>1. /\ p \in Payments /\ UNCHANGED bank /\ Ends(w) /\ AloneWith(w, p)
        /\ Commits(p, row[p], r) /\ overtaken \subseteq overtaken' /\ row[p] = t.draft
        /\ t.at = "pollseen"
        /\ Overtaken(w) => p \in overtaken'
    BY <1>3, WorkerType DEF PollApplied, RequestFits, Fresh, Unlocked, AloneWith
  <2>2. Settled(w)
    BY <2>1 DEF Settled, Overtaken, OwnOrders, KeysOf
  <2>3. row[p].bid
    BY <2>1, WorkerTold DEF Told, Polling
  <2>4. /\ KeyFits(r) /\ r.bid = row[p].bid
        /\ row[p].st = "refunded" => r = row[p]
        /\ row[p].st \in Counted => r.st \in Counted
        /\ row[p].st = "refund_requested" /\ r.st = "succeeded" /\ p \notin overtaken'
             => row[p].key \notin bank[p].orders
        /\ p \notin overtaken' => One(bank[p]) /\ Awaited(r, KeysOf(bank[p]))
    BY <2>1, <2>2, AppliedOrders
  <2> HIDE DEF r
  <2>5. Gives(p, {}) /\ BidFits(r)
    BY <2>1, <2>3, <2>4, StillOrders DEF OrdersInv, BidFits
  <2> QED BY <2>1, <2>4, <2>5, CommitsOrders
<1>4. CASE PollDiscarded(w)
  BY <1>4, IdleTold, RunsOrders DEF PollDiscarded
<1> QED BY <1>1, <1>2, <1>3, <1>4

\* A request that runs on, or ends, and has given the bank an order of p.
LEMMA GivesOrders ==
  ASSUME TypeInv, PaidInv, OrdersInv, OnlyRuns, NEW w \in Workers, NEW t, Becomes(w, t),
         NEW p \in Payments, AloneWith(w, p), NEW K, Gives(p, K),
         p \notin overtaken => One(bank'[p]) /\ Awaited(row[p], KeysOf(bank'[p])),
         t.pay \in Payments => Told(t, row[t.pay], bank'[t.pay])
  PROVE  OrdersInv' /\ AllForward
<1>1. UNCHANGED <<row, overtaken>>
  BY DEF OnlyRuns
<1>2. Touches({p})
  BY <1>1 DEF Gives, Touches, BankKeeps
<1>3. Leaves(p)
  BY <1>1 DEF Leaves, Forward, OrdersInv, RowsFit
<1> QED BY <1>1, <1>2, <1>3, OrdersStep

(***************************************************************************)
(* Closing.  The Cancel of a link finds no order of ours, so that its own  *)
(* is the only one; the row is open, and has no key.                       *)
(***************************************************************************)
LEMMA WorkerCloses ==
  ASSUME TypeInv, BooksInv, PaidInv, OrdersInv, NEW w \in Workers, NEW p,
         p = worker[w].pay, worker[w].at \in {"close", "reask"}
  PROVE  /\ p \in Payments /\ worker[w] \in Request /\ worker[w].draft \in Row
         /\ worker[w].draft.st \in Open /\ worker[w].draft.key = NoKey
         /\ worker[w].draft.bid /\ row[p].st \in Open /\ row[p].st \notin Counted
         /\ worker[w].op \in Closing /\ AloneWith(w, p)
         /\ Told(worker[w], row[p], bank[p])
         /\ p \notin overtaken => One(bank[p])
         /\ \A O : Awaited(row[p], O)
<1>1. p \in Payments /\ worker[w] \in Request /\ worker[w].draft \in Row
  BY WorkerType DEF RequestFits
<1>2. /\ Told(worker[w], row[p], bank[p])
      /\ p \notin overtaken => One(bank[p])
  BY <1>1, WorkerTold
<1>3. Agrees(worker[w], row[p]) /\ AloneWith(w, p)
  BY <1>1, WorkerKnows DEF Polling
<1>4. /\ worker[w].draft.st \in Open /\ row[p].st \in Open /\ row[p].st \notin Counted
      /\ \A O : Awaited(row[p], O)
  BY <1>3 DEF Agrees, Open, Counted, Awaited
<1>5. worker[w].op \in Closing /\ worker[w].draft.key = NoKey /\ worker[w].draft.bid
  BY <1>2 DEF Told, Closing
<1> QED BY <1>1, <1>2, <1>3, <1>4, <1>5

LEMMA ClosedOrders ==
  ASSUME TypeInv, BooksInv, PaidInv, OrdersInv, NEW w \in Workers, worker[w].at = "close",
         NEW K, Gives(worker[w].pay, K),
         One(bank[worker[w].pay]) => One(bank'[worker[w].pay]),
         NEW r, r.st # "succeeded", r.key = NoKey, r.bid, Closed(w, r)
  PROVE  OrdersInv' /\ AllForward
<1> DEFINE p == worker[w].pay
<1>1. /\ p \in Payments /\ row[p].st \in Open /\ row[p].st \notin Counted
      /\ AloneWith(w, p) /\ (p \notin overtaken => One(bank[p]))
      /\ \A O : Awaited(row[p], O)
  BY WorkerCloses
<1>2. CASE Becomes(w, ReadyToInsert(p, r)) /\ OnlyRuns
  <2> DEFINE u == ReadyToInsert(p, r)
  <2>1. u.at = "insert" /\ u.pay = p /\ u.draft = r /\ u.seen = "none" /\ u.op = "initiate"
    BY DEF ReadyToInsert, Idle
  <2> HIDE DEF u
  <2>2. Told(u, row[p], bank'[p])
    BY <1>1, <2>1 DEF Told, KeyFits, Polling, Returns, Closing
  <2>3. Becomes(w, u) /\ OnlyRuns
    BY <1>2 DEF u
  <2> QED BY <1>1, <2>1, <2>2, <2>3, GivesOrders
<1>3. CASE Commits(p, row[p], r) /\ Ends(w) /\ UNCHANGED overtaken
  <2>1. KeyFits(r) /\ BidFits(r) /\ Awaited(r, KeysOf(bank'[p]))
    BY DEF KeyFits, BidFits, Awaited
  <2>2. row[p].st \notin {"refunded", "refund_requested"}
    BY <1>1 DEF Counted
  <2> QED BY <1>1, <1>3, <2>1, <2>2, CommitsOrders
<1> QED BY <1>2, <1>3 DEF Closed

LEMMA CloseOrders ==
  ASSUME TypeInv, BooksInv, PaidInv, OrdersInv, NEW w \in Workers
  PROVE  /\ CloseAccepted(w) => OrdersInv' /\ AllForward
         /\ CloseRefused(w) => OrdersInv' /\ AllForward
         /\ CloseUnclear(w) => OrdersInv' /\ AllForward
         /\ CloseAsksAgain(w) => OrdersInv' /\ AllForward
<1> DEFINE t == worker[w]
           p == worker[w].pay
<1>1. t.at \in {"close", "reask"} =>
        /\ p \in Payments /\ t \in Request /\ t.draft \in Row
        /\ t.draft.st \in Open /\ t.draft.key = NoKey /\ t.draft.bid
        /\ row[p].st \in Open /\ row[p].st \notin Counted /\ t.op \in Closing
        /\ AloneWith(w, p) /\ Told(t, row[p], bank[p])
        /\ p \notin overtaken => One(bank[p])
        /\ \A O : Awaited(row[p], O)
  BY WorkerCloses
<1>2. BankTypeOK /\ MoneyFitsStatus /\ OrdersHold
  BY Parts DEF BooksInv, OrdersInv
<1>3. ASSUME CloseAccepted(w)
      PROVE  OrdersInv' /\ AllForward
  <2> DEFINE s == bank'[p].st
             r == After(t.draft, s, TRUE)
  <2>1. t.at = "close" /\ CancelStarts(p) /\ Closed(w, r)
    BY <1>3 DEF CloseAccepted
  <2>2. s \in {"VOIDED", "MOVING", "REFUNDING", "REFUNDED"}
    BY <1>1, <1>2, <2>1, CloseMoves
  <2>3. r.st # "succeeded"
    BY <1>1, <2>1, <2>2
       DEF After, FinalUnpaid, UnpaidAs, Returning, KeyAfter, Row, Open
  <2> HIDE DEF s
  <2>4. r.key = NoKey /\ r.bid
    BY <1>1, <2>1, AfterKeeps
  <2>5. Gives(p, {LinkOrder}) /\ (One(bank[p]) => One(bank'[p]))
    BY <1>1, <1>2, <2>1, CallsOrders
  <2> HIDE DEF r
  <2> QED BY <2>1, <2>3, <2>4, <2>5, ClosedOrders
<1>4. ASSUME CloseRefused(w)
      PROVE  OrdersInv' /\ AllForward
  <2> DEFINE r == [t.draft EXCEPT !.st = "closed"]
  <2>1. t.at = "close" /\ CancelRefused(p) /\ Closed(w, r)
    BY <1>4 DEF CloseRefused
  <2>2. r.st # "succeeded" /\ r.key = NoKey /\ r.bid
    BY <1>1, <2>1 DEF Row
  <2>3. Gives(p, {})
    BY <1>1, <1>2, <2>1, CallsOrders
  <2> HIDE DEF r
  <2> QED BY <2>1, <2>2, <2>3, ClosedOrders DEF Gives, One
<1>5. ASSUME CloseUnclear(w)
      PROVE  OrdersInv' /\ AllForward
  <2> DEFINE u == [t EXCEPT !.at = "reask", !.seen = "none"]
  <2>1. /\ t.at = "close" /\ Becomes(w, u) /\ OnlyRuns
        /\ CancelStarts(p) \/ UNCHANGED bank
    BY <1>5 DEF CloseUnclear
  <2>2. Gives(p, {LinkOrder}) /\ (One(bank[p]) => One(bank'[p]))
    BY <1>1, <1>2, <2>1, CallsOrders, StillOrders DEF Gives
  <2>3. u.at = "reask" /\ u.pay = p /\ u.draft = t.draft /\ u.seen = "none" /\ u.op = t.op
    BY <1>1, <2>1 DEF Request
  <2> HIDE DEF u
  <2>4. Told(u, row[p], bank'[p])
    BY <1>1, <2>1, <2>3 DEF Told, Polling, Returns, Closing
  <2> QED BY <1>1, <2>1, <2>2, <2>3, <2>4, GivesOrders
<1>6. ASSUME CloseAsksAgain(w)
      PROVE  OrdersInv' /\ AllForward
  <2>1. t.at = "reask" /\ Ends(w) /\ UNCHANGED <<bank, overtaken>>
    BY <1>6 DEF CloseAsksAgain, OnlyCommits
  <2>2. PICK answered \in BOOLEAN : Commits(p, row[p], AskAgain(w, answered))
    BY <1>6 DEF CloseAsksAgain
  <2> DEFINE s == bank[p].st
             r == AskAgain(w, answered)
  <2>3. r = t.draft \/ r = After(t.draft, s, bank[p].right)
    BY DEF AskAgain
  <2>4. KeyFits(t.draft) /\ \A O : Awaited(t.draft, O)
    BY <1>1, <2>1 DEF KeyFits, Awaited, Open
  <2>5. s \in {"CONFIRMED", "REJECTED", "PARTIAL_REFUNDED"} => KeysOf(bank[p]) = {}
    BY <1>1, <1>2, <2>1, StateTells
  <2> HIDE DEF r, s
  <2>6. KeyFits(r) /\ r.bid /\ Awaited(r, KeysOf(bank[p]))
    BY <1>1, <2>1, <2>3, <2>4, <2>5, AfterKeeps, AfterOrders
  <2>7. BidFits(r) /\ row[p].st \notin {"refunded", "refund_requested"}
    BY <1>1, <2>1, <2>6 DEF BidFits, Counted
  <2>8. Gives(p, {}) /\ Commits(p, row[p], r)
    BY <1>1, <1>2, <2>1, <2>2, StillOrders DEF r
  <2> QED BY <1>1, <2>1, <2>6, <2>7, <2>8, CommitsOrders
<1> QED BY <1>3, <1>4, <1>5, <1>6

(***************************************************************************)
(* The new row and the one it replaces.                                    *)
(***************************************************************************)
LEMMA CommitsOldOrders ==
  ASSUME TypeInv, BooksInv, PaidInv, SeenInv, OrdersInv, NEW w \in Workers, Ends(w),
         worker[w].at \in Replacing, NEW new, NEW r, CommitsOld(w, new, r),
         UNCHANGED overtaken, BankKeeps,
         \A q \in Payments : KeysOf(bank'[q]) \subseteq KeysOf(bank[q]),
         new \in Payments => /\ worker[w].at = "init" /\ new = worker[w].new
                             /\ KeyFits(r) /\ BidFits(r)
                             /\ r.st \notin {"succeeded", "refund_requested"}
  PROVE  OrdersInv' /\ AllForward
<1> DEFINE t == worker[w]
           S == {q \in Payments : q = new \/ q = t.pay}
<1>1. Touches(S)
  BY DEF Touches, CommitsOld
<1>2. new \in Payments => row[new].st = "absent"
  BY DEF PaidInv, NewRows
<1>3. \A v \in Workers : worker[v].pay \in Payments => row[worker[v].pay].st # "absent"
  BY WorkerKnows DEF Agrees
<1>4. t.pay \in Payments =>
        /\ row[t.pay].st \in Open /\ row[t.pay].st \notin Counted /\ t.draft.bid
        /\ t.draft.key = NoKey /\ t.draft.st # "succeeded" /\ AloneWith(w, t.pay)
  <2>1. ASSUME t.pay \in Payments
        PROVE  /\ row[t.pay].st \in Open /\ t.draft.key = NoKey /\ t.draft.bid
               /\ AloneWith(w, t.pay)
    BY <2>1, WorkerTold, WorkerKnows DEF Told, Replacing, Polling, Closing
  <2>2. t.draft.st # "succeeded"
    BY DEF SeenInv, ReplacesNoMoney
  <2> QED BY <2>1, <2>2 DEF Open, Counted
<1>5. \A q \in Payments \ overtaken' : One(bank'[q])
  BY DEF OrdersInv, OneAwaited, One
<1>6. new \in Payments => Leaves(new) /\ AloneWith(w, new)
  <2> SUFFICES ASSUME new \in Payments
               PROVE  Leaves(new) /\ AloneWith(w, new)
    OBVIOUS
  <2>1. row'[new] = r
    BY DEF CommitsOld
  <2>2. Forward(new)
    BY <1>2 DEF Forward, Counted
  <2>3. Awaited(r, KeysOf(bank'[new]))
    BY DEF Awaited
  <2>4. AloneWith(w, new)
    BY <1>2, <1>3 DEF AloneWith, HoldsLock
  <2> QED BY <1>5, <2>1, <2>2, <2>3, <2>4 DEF Leaves
<1>7. t.pay \in Payments => Leaves(t.pay) /\ AloneWith(w, t.pay)
  <2> SUFFICES ASSUME t.pay \in Payments
               PROVE  Leaves(t.pay) /\ AloneWith(w, t.pay)
    OBVIOUS
  <2>1. row'[t.pay] = t.draft
    BY <1>2, <1>3 DEF CommitsOld
  <2>2. Forward(t.pay)
    BY <1>4 DEF Forward, Counted
  <2>3. KeyFits(t.draft) /\ BidFits(t.draft) /\ Awaited(t.draft, KeysOf(bank'[t.pay]))
    BY <1>4 DEF KeyFits, BidFits, Awaited
  <2> QED BY <1>4, <1>5, <2>1, <2>2, <2>3 DEF Leaves
<1> QED BY <1>1, <1>6, <1>7, IdleTold, OrdersStep

LEMMA InitOrders ==
  ASSUME TypeInv, BooksInv, PaidInv, SeenInv, OrdersInv, NEW w \in Workers,
         InsertAbandoned(w) \/ InitAnswered(w) \/ InitUnanswered(w)
  PROVE  OrdersInv' /\ AllForward
<1> DEFINE t == worker[w]
<1>1. Ends(w) /\ UNCHANGED overtaken /\ t.at \in Replacing
  BY DEF InsertAbandoned, InitAnswered, InitUnanswered, OnlyCommits, Replacing
<1>2. BankTypeOK /\ MoneyFitsStatus /\ OrdersHold
  BY Parts DEF BooksInv, OrdersInv
<1>3. UNCHANGED bank => /\ BankKeeps
                        /\ \A q \in Payments : KeysOf(bank'[q]) \subseteq KeysOf(bank[q])
  BY <1>2 DEF BankKeeps, OrdersHold
<1>4. CASE InsertAbandoned(w)
  <2>1. UNCHANGED bank
    BY <1>4 DEF InsertAbandoned, OnlyCommits
  <2>2. CASE row' = row
    <3>1. Touches({})
      BY <1>1, <1>3, <2>2, <2>1 DEF Touches
    <3> QED BY <1>1, <3>1, IdleTold, OrdersStep
  <2>3. CASE CommitsOld(w, NoPayment, Absent)
    BY <1>1, <1>3, <2>1, <2>3, NoPaymentAssumption, CommitsOldOrders
  <2> QED BY <1>4, <2>2, <2>3 DEF InsertAbandoned
<1>5. CASE InitAnswered(w) \/ InitUnanswered(w)
  <2>1. t.at = "init" /\ t.new \in Payments /\ bank[t.new].st = "none"
    BY <1>5 DEF InitAnswered, InitUnanswered, BooksInv, NewLinks, TypeInv, RequestOK
  <2>2. /\ BankKeeps
        /\ \A q \in Payments : KeysOf(bank'[q]) \subseteq KeysOf(bank[q])
    <3>1. CASE UNCHANGED bank
      BY <1>3, <3>1
    <3>2. CASE InitAccepted(t.new)
      <4>1. Gives(t.new, {})
        BY <1>2, <2>1, <3>2, CallsOrders
      <4> QED BY <4>1 DEF Gives, BankKeeps
    <3> QED BY <1>5, <3>1, <3>2 DEF InitAnswered, InitUnanswered
  <2>3. \A r \in {LinkIssued, InitFailed} :
          KeyFits(r) /\ BidFits(r) /\ r.st \notin {"succeeded", "refund_requested"}
    BY DEF LinkIssued, InitFailed, Absent, KeyFits, BidFits
  <2>4. PICK r \in {LinkIssued, InitFailed} : CommitsOld(w, t.new, r)
    BY <1>5 DEF InitAnswered, InitUnanswered
  <2> QED BY <1>1, <2>1, <2>2, <2>3, <2>4, CommitsOldOrders
<1> QED BY <1>4, <1>5

(***************************************************************************)
(* Refunds.  The draft is the attempt the row waits for, so that the order *)
(* it gives is the one that may be alive already.                          *)
(***************************************************************************)
LEMMA StartRefundOrders ==
  ASSUME TypeInv, BooksInv, PaidInv, OrdersInv, NEW w \in Workers, NEW p \in Payments,
         StartRefund(w, p)
  PROVE  OrdersInv' /\ AllForward
<1> DEFINE t == [Idle EXCEPT !.at = "refund", !.op = "refund", !.pay = p,
                             !.draft = AttemptOf(row[p])]
<1>1. /\ t.at = "refund" /\ t.op = "refund" /\ t.pay = p /\ t.seen = "none"
      /\ t.draft = AttemptOf(row[p])
  BY DEF Idle
<1>2. /\ row[p] \in Row /\ row[p].bid /\ row[p].st \in {"succeeded", "refund_requested"}
      /\ row[p].st = "refund_requested" => row[p].key # NoKey
      /\ Becomes(w, t) /\ OnlyRuns /\ UNCHANGED bank
  BY DEF StartRefund, TypeInv, TypeOK
<1>3. /\ t.draft.st = "refund_requested" /\ t.draft.bid
      /\ t.draft.key # NoKey
  <2>1. row[p].att \in Nat
    BY <1>2, AttemptsAssumption DEF Row, Keys
  <2>2. row[p].att + 1 # NoKey
    BY <2>1 DEF NoKey
  <2> QED BY <1>1, <1>2, <2>2 DEF AttemptOf, NextAttempt, Row
<1> HIDE DEF t
<1>4. Told(t, row[p], bank[p])
  BY <1>1, <1>2, <1>3 DEF Told, KeyFits, Polling, Returns, Closing
<1> QED BY <1>1, <1>2, <1>4, RunsOrders

LEMMA WorkerReturns ==
  ASSUME TypeInv, BooksInv, PaidInv, OrdersInv, NEW w \in Workers, NEW p,
         p = worker[w].pay, worker[w].at \in Returns
  PROVE  /\ p \in Payments /\ worker[w] \in Request /\ row[p] \in Row
         /\ worker[w].draft \in Row /\ worker[w].draft.st = "refund_requested"
         /\ worker[w].draft.bid /\ worker[w].draft.key # NoKey
         /\ worker[w].at = "refund" => worker[w].draft.key \in Keys
         /\ worker[w].draft = AttemptOf(row[p])
         /\ row[p].st \in {"succeeded", "refund_requested"}
         /\ AloneWith(w, p) /\ Told(worker[w], row[p], bank[p])
         /\ p \notin overtaken =>
              One(bank[p]) /\ KeysOf(bank[p]) \subseteq {worker[w].draft.key}
<1>1. p \in Payments
  BY WorkerType DEF RequestFits, Returns
<1>2. /\ worker[w] \in Request /\ worker[w].draft \in Row /\ row[p] \in Row
      /\ worker[w].at = "refund" => worker[w].draft.key \in Keys
  BY <1>1, WorkerType DEF RequestFits
<1>3. /\ Told(worker[w], row[p], bank[p])
      /\ p \notin overtaken => One(bank[p]) /\ Awaited(row[p], KeysOf(bank[p]))
  BY <1>1, WorkerTold
<1>4. /\ worker[w].draft.bid /\ worker[w].draft.key # NoKey
      /\ worker[w].draft = AttemptOf(row[p])
      /\ row[p].st \in {"succeeded", "refund_requested"}
  BY <1>3 DEF Told
<1>5. worker[w].draft.st = "refund_requested" /\ AloneWith(w, p)
  BY <1>1, WorkerKnows DEF Polling, Returns, Agrees
<1>6. p \notin overtaken => KeysOf(bank[p]) \subseteq {worker[w].draft.key}
  <2>1. row[p].st = "succeeded" => worker[w].draft.key = row[p].att + 1
    BY <1>2, <1>4 DEF AttemptOf, NextAttempt, Row
  <2>2. row[p].st = "refund_requested" => worker[w].draft = row[p]
    BY <1>4 DEF AttemptOf
  <2> QED BY <1>3, <1>4, <2>1, <2>2 DEF Awaited
<1> QED BY <1>1, <1>2, <1>3, <1>4, <1>5, <1>6

\* What a refund commits: any row that keeps the attempt, or ends it.
LEMMA ReturnsOrders ==
  ASSUME TypeInv, BooksInv, PaidInv, OrdersInv, NEW w \in Workers, NEW p,
         p = worker[w].pay, worker[w].at \in Returns, Ends(w),
         NEW K, Gives(p, K), K \subseteq {worker[w].draft.key},
         NEW r, Commits(p, worker[w].draft, r), UNCHANGED overtaken,
         KeyFits(r), BidFits(r), r.st \in Counted,
         r.st = "succeeded" => bank[p].orders = {},
         KeysOf(bank'[p]) \subseteq {worker[w].draft.key} => Awaited(r, KeysOf(bank'[p]))
  PROVE  OrdersInv' /\ AllForward
<1>1. /\ p \in Payments /\ AloneWith(w, p)
      /\ row[p].st \in {"succeeded", "refund_requested"}
      /\ p \notin overtaken => KeysOf(bank[p]) \subseteq {worker[w].draft.key}
  BY WorkerReturns
<1>2. p \notin overtaken' => KeysOf(bank'[p]) \subseteq {worker[w].draft.key}
  BY <1>1 DEF Gives
<1>3. p \notin overtaken' => One(bank'[p]) /\ Awaited(r, KeysOf(bank'[p]))
  BY <1>2 DEF One
<1>4. row[p].st # "refunded" /\ (r.st = "succeeded" => row[p].key \notin bank[p].orders)
  BY <1>1
<1> QED BY <1>1, <1>3, <1>4, CommitsOrders

LEMMA RefundsOrders ==
  ASSUME TypeInv, BooksInv, PaidInv, OrdersInv, NEW w \in Workers,
         \/ RefundAnswered(w) \/ RefundUnanswered(w) \/ RefundIsRefused(w)
         \/ RefundAsksState(w)
  PROVE  OrdersInv' /\ AllForward
<1> DEFINE t == worker[w]
           p == worker[w].pay
           d == worker[w].draft
<1>1. t.at \in Returns
  BY DEF RefundAnswered, RefundUnanswered, RefundIsRefused, RefundAsksState, Returns
<1>2. /\ p \in Payments /\ t \in Request /\ d \in Row /\ d.st = "refund_requested"
      /\ d.bid /\ d.key # NoKey /\ (t.at = "refund" => d.key \in Keys)
      /\ Told(t, row[p], bank[p])
  BY <1>1, WorkerReturns
<1>3. BankTypeOK /\ MoneyFitsStatus /\ OrdersHold
  BY Parts DEF BooksInv, OrdersInv
<1>4. /\ KeyFits(d) /\ BidFits(d) /\ d.st \in Counted /\ d.st # "succeeded"
      /\ \A O : O \subseteq {d.key} => Awaited(d, O)
  BY <1>2 DEF KeyFits, BidFits, Counted, Awaited
\* An answer that the money is on its way ends the attempt, or lets it be.
<1>5. ASSUME NEW s \in {"REFUNDING", "REFUNDED"}, NEW r, r = After(d, s, TRUE)
      PROVE  /\ KeyFits(r) /\ BidFits(r) /\ r.st \in Counted /\ r.st # "succeeded"
             /\ \A O : O \subseteq {d.key} => Awaited(r, O)
  <2>1. /\ KeyFits(r) /\ r.bid = d.bid /\ r.st \in Counted
        /\ ~(r.st = "succeeded" /\ d.st # "succeeded")
    BY <1>2, <1>4, <1>5, AfterKeeps
  <2>2. \A O : O \subseteq {d.key} => Awaited(r, O)
    BY <1>2, <1>4, <1>5, AfterOrders
  <2> QED BY <1>2, <1>4, <2>1, <2>2 DEF BidFits
<1>6. CASE RefundAnswered(w)
  <2> DEFINE s == bank'[p].st
             r == After(d, s, TRUE)
  <2>1. /\ t.at = "refund" /\ RefundAccepted(p, d.key) /\ Commits(p, d, r)
        /\ Ends(w) /\ UNCHANGED overtaken
    BY <1>6 DEF RefundAnswered
  <2>2. Gives(p, {d.key}) /\ s \in {"REFUNDING", "REFUNDED"}
    BY <1>2, <1>3, <2>1, CallsOrders
  <2> HIDE DEF s
  <2>3. /\ KeyFits(r) /\ BidFits(r) /\ r.st \in Counted /\ r.st # "succeeded"
        /\ \A O : O \subseteq {d.key} => Awaited(r, O)
    BY <1>5, <2>2
  <2> HIDE DEF r
  <2> QED BY <1>1, <2>1, <2>2, <2>3, ReturnsOrders
<1>7. CASE RefundUnanswered(w)
  <2>1. /\ t.at = "refund" /\ Commits(p, d, d) /\ Ends(w) /\ UNCHANGED overtaken
        /\ RefundAccepted(p, d.key) \/ UNCHANGED bank
    BY <1>7 DEF RefundUnanswered
  <2>2. Gives(p, {d.key})
    BY <1>2, <1>3, <2>1, CallsOrders, StillOrders DEF Gives
  <2> QED BY <1>1, <1>4, <2>1, <2>2, ReturnsOrders
<1>8. CASE RefundIsRefused(w)
  <2> DEFINE u == [t EXCEPT !.at = "refundask"]
  <2>1. u.at = "refundask" /\ u.pay = p /\ u.draft = d /\ u.seen = t.seen /\ u.op = t.op
    BY <1>2 DEF Request
  <2>2. Becomes(w, u) /\ OnlyRuns /\ UNCHANGED bank
    BY <1>8 DEF RefundIsRefused
  <2> HIDE DEF u
  <2>3. Told(u, row[p], bank[p])
    BY <1>1, <1>2, <2>1 DEF Told, Polling, Returns, Closing
  <2> QED BY <2>1, <2>2, <2>3, RunsOrders
<1>9. CASE RefundAsksState(w)
  <2>1. PICK s \in {bank[p].st, "none"} : Commits(p, d, AfterRefusal(d, s))
    BY <1>9 DEF RefundAsksState
  <2>2. Ends(w) /\ UNCHANGED <<bank, overtaken>>
    BY <1>9 DEF RefundAsksState, OnlyCommits
  <2> DEFINE r == AfterRefusal(d, s)
  <2>3. Gives(p, {}) /\ Commits(p, d, r)
    BY <1>2, <1>3, <2>1, <2>2, StillOrders
  <2>4. CASE s = "CONFIRMED"
    <3>1. bank[p].orders = {} /\ KeysOf(bank'[p]) = {}
      BY <1>2, <1>3, <2>2, <2>4, StateTells
    <3>2. r.st = "succeeded" /\ r.key = NoKey /\ r.bid
      BY <1>2, <2>4 DEF AfterRefusal, RefundFailed, Row
    <3> HIDE DEF r
    <3>3. KeyFits(r) /\ BidFits(r) /\ r.st \in Counted /\ Awaited(r, KeysOf(bank'[p]))
      BY <3>1, <3>2 DEF KeyFits, BidFits, Counted, Awaited
    <3> QED BY <1>1, <2>2, <2>3, <3>1, <3>3, ReturnsOrders
  <2>5. CASE s \in {"REFUNDING", "REFUNDED"}
    <3>1. r = After(d, s, TRUE)
      BY <2>5 DEF AfterRefusal
    <3> HIDE DEF r
    <3>2. /\ KeyFits(r) /\ BidFits(r) /\ r.st \in Counted /\ r.st # "succeeded"
          /\ \A O : O \subseteq {d.key} => Awaited(r, O)
      BY <1>5, <2>5, <3>1
    <3> QED BY <1>1, <2>2, <2>3, <3>2, ReturnsOrders
  <2>6. CASE r = d
    <3> HIDE DEF r
    <3> QED BY <1>1, <1>4, <2>2, <2>3, <2>6, ReturnsOrders
  <2> QED BY <2>4, <2>5, <2>6 DEF AfterRefusal
<1> QED BY <1>6, <1>7, <1>8, <1>9

\* A request that dies may have given its order: the next attempt has its key.
LEMMA DiesOrders ==
  ASSUME TypeInv, BooksInv, PaidInv, OrdersInv, NEW w \in Workers, Dies(w)
  PROVE  OrdersInv' /\ AllForward
<1> DEFINE t == worker[w]
           p == worker[w].pay
<1>1. OnlyRuns /\ Becomes(w, Idle) /\ Idle.pay \notin Payments /\ CallMayReachBank(w)
  BY IdleTold DEF Dies
<1>2. BankTypeOK /\ MoneyFitsStatus /\ OrdersHold
  BY Parts DEF BooksInv, OrdersInv
<1>3. CASE UNCHANGED bank
  BY <1>1, <1>3, RunsOrders
<1>4. CASE t.at = "init" /\ InitAccepted(t.new)
  <2>1. t.new \in Payments /\ bank[t.new].st = "none"
    BY <1>4 DEF BooksInv, NewLinks, TypeInv, RequestOK
  <2>2. Gives(t.new, {})
    BY <1>2, <1>4, <2>1, CallsOrders
  <2>3. Touches({})
    BY <1>1, <2>2 DEF OnlyRuns, Touches, BankKeeps, Gives
  <2> QED BY <1>1, <2>3, OrdersStep
<1>5. CASE t.at = "refund" /\ RefundAccepted(p, t.draft.key)
  <2>1. /\ p \in Payments /\ AloneWith(w, p) /\ t.draft.key \in Keys
        /\ t.draft = AttemptOf(row[p]) /\ row[p] \in Row
        /\ row[p].st \in {"succeeded", "refund_requested"}
        /\ p \notin overtaken => KeysOf(bank[p]) \subseteq {t.draft.key}
    BY <1>5, WorkerReturns DEF Returns
  <2>2. Gives(p, {t.draft.key})
    BY <1>2, <1>5, <2>1, CallsOrders
  <2>3. p \notin overtaken => KeysOf(bank'[p]) \subseteq {t.draft.key}
    BY <2>1, <2>2 DEF Gives
  <2>4. /\ row[p].st = "succeeded" => t.draft.key = row[p].att + 1
        /\ row[p].st = "refund_requested" => t.draft.key = row[p].key
    BY <2>1 DEF AttemptOf, NextAttempt, Row
  <2>5. p \notin overtaken => One(bank'[p]) /\ Awaited(row[p], KeysOf(bank'[p]))
    BY <2>1, <2>3, <2>4 DEF One, Awaited
  <2> QED BY <1>1, <2>1, <2>2, <2>5, GivesOrders
<1> QED BY <1>1, <1>3, <1>4, <1>5 DEF CallMayReachBank

LEMMA NoticesOrders ==
  ASSUME TypeInv, BooksInv, PaidInv, OrdersInv, NEW p \in Payments, NEW s \in Announced
  PROVE  \A w \in Workers : Notified(w, p, s) => OrdersInv' /\ AllForward
  BY AsksOrders DEF Notified

\* The buyer, the clock, the cabinet: no request moves.
LEMMA WorldOrders ==
  ASSUME TypeInv, OrdersInv, NEW p \in Payments, Gives(p, {}),
         UNCHANGED <<row, worker, overtaken>>
  PROVE  OrdersInv' /\ AllForward
<1>1. \A q \in Payments : /\ OrdersFit(bank'[q])
                          /\ ByCabinet(bank[q]) => ByCabinet(bank'[q])
                          /\ KeysOf(bank'[q]) \subseteq KeysOf(bank[q])
  BY DEF Gives
<1>2. OrdersHold' /\ RowsFit'
  BY <1>1 DEF OrdersHold, OrdersInv, RowsFit
<1>3. RequestsTold'
  <2>1. \A q \in Payments : \A t : Told(t, row[q], bank[q]) => Told(t, row[q], bank'[q])
    BY <1>1 DEF Told
  <2> QED BY <2>1 DEF OrdersInv, RequestsTold
<1>4. OneAwaited'
  BY <1>1, AwaitedStays DEF OrdersInv, OneAwaited, One
<1>5. AllForward
  BY DEF AllForward, Forward
<1> QED BY <1>2, <1>3, <1>4, <1>5 DEF OrdersInv

LEMMA QuietOrders ==
  ASSUME OrdersInv, UNCHANGED <<bank, row, worker, overtaken>>
  PROVE  OrdersInv' /\ AllForward
<1>1. OrdersInv'
  BY DEF OrdersInv, OrdersHold, RowsFit, RequestsTold, OneAwaited
<1> QED BY <1>1 DEF AllForward, Forward

LEMMA NextOrders ==
  ASSUME TypeInv, BooksInv, PaidInv, SeenInv, OrdersInv, [Next]_vars
  PROVE  OrdersInv' /\ AllForward
<1>1. ASSUME NEW w \in Workers, Works(w)
      PROVE  OrdersInv' /\ AllForward
  <2>1. ASSUME NEW p \in Payments,
               \/ InitiateOverDeadLink(w, p) \/ InsertPayment(w, p) \/ CancelLink(w, p)
               \/ RetireLink(w, p) \/ StartRefund(w, p) \/ StartPoll(w, p)
               \/ \E s \in Announced : Notified(w, p, s)
        PROVE  OrdersInv' /\ AllForward
    BY <2>1, InitiateOrders, InsertOrders, StartRefundOrders, PollOrders, NoticesOrders
  <2> QED BY <1>1, <2>1, InitiateOrders, AskedOrders, CloseOrders, InitOrders, RefundsOrders,
             PollOrders, DiesOrders DEF Works
<1>2. ASSUME NEW p \in Payments, World(p)
      PROVE  OrdersInv' /\ AllForward
  <2>1. Gives(p, {}) /\ UNCHANGED <<row, worker, overtaken>>
    BY <1>2, BankNextOrders, Parts DEF World, BuyerPays, BooksInv, OrdersInv
  <2> QED BY <2>1, WorldOrders
<1>3. ASSUME NEW p \in Payments, NEW s \in Announced, NotificationIgnored(p, s)
      PROVE  OrdersInv' /\ AllForward
  BY <1>3, QuietOrders DEF NotificationIgnored
<1>4. CASE UNCHANGED vars
  BY <1>4, QuietOrders DEF vars
<1> QED BY <1>1, <1>2, <1>3, <1>4 DEF Next

LEMMA FirstOrders ==
  Init => OrdersInv
<1> SUFFICES ASSUME Init PROVE OrdersInv
  OBVIOUS
<1>1. \A p \in Payments : bank[p] = Unknown /\ row[p] = Absent
  BY DEF Init, BankInit
<1>2. OrdersHold /\ RowsFit /\ OneAwaited
  BY <1>1 DEF Unknown, OrdersHold, OrdersFit, RowsFit, KeyFits, BidFits, Absent, OneAwaited,
              One, KeysOf, Awaited
<1>3. RequestsTold
  BY NoPaymentAssumption DEF Init, Idle, RequestsTold
<1> QED BY <1>2, <1>3 DEF OrdersInv

(***************************************************************************)
(* The invariant about orders, attempts and requests under way.            *)
(***************************************************************************)
THEOREM OrdersInductive == Spec => []OrdersInv
  BY FirstOrders, NextOrders, TypeInductive, BooksInductive, PaidInductive, SeenInductive, PTL
     DEF Spec

(***************************************************************************)
(* A counted payment is never unpaid again, a refunded one stays as it is, *)
(* and an attempt is called failed only when its order is not alive at the *)
(* bank, overtaken polls aside: for any payments, requests and attempts    *)
(* (apply_bank_state, _refund_tbank).                                      *)
(***************************************************************************)
THEOREM BooksGoForward == Spec => OnlyForward
<1> DEFINE A == AllForward
<1>1. TypeInv /\ BooksInv /\ PaidInv /\ SeenInv /\ OrdersInv /\ [Next]_vars => [A]_vars
  BY NextOrders
<1>2. Spec => [][A]_vars
  <2> HIDE DEF A
  <2> QED BY <1>1, TypeInductive, BooksInductive, PaidInductive, SeenInductive,
             OrdersInductive, PTL DEF Spec
<1> QED BY <1>2 DEF AllForward, Forward, OnlyForward

LEMMA OneOrderHolds ==
  OrdersInv => OneRefundOrder
<1> SUFFICES ASSUME OrdersInv, NEW p \in Payments \ overtaken
             PROVE  Cardinality(OwnOrders(p)) <= 1
  BY DEF OneRefundOrder
<1>1. \A j, k \in OwnOrders(p) : j = k
  BY DEF OrdersInv, OneAwaited, One, OwnOrders, KeysOf
<1>2. CASE OwnOrders(p) = {}
  BY <1>2, FS_EmptySet
<1>3. CASE \E k : OwnOrders(p) = {k}
  <2>1. PICK k : OwnOrders(p) = {k}
    BY <1>3
  <2>2. Cardinality({k}) = 1
    BY FS_Singleton
  <2> QED BY <2>1, <2>2
<1> QED BY <1>1, <1>2, <1>3

(***************************************************************************)
(* At most one refund order of ours is alive at the bank for a payment,    *)
(* whatever answers were lost and whatever processes died between the call *)
(* and the commit, overtaken polls aside (_refund_tbank).                  *)
(***************************************************************************)
THEOREM OneOrderAtATime == Spec => []OneRefundOrder
  BY OneOrderHolds, OrdersInductive, PTL

(***************************************************************************)
(* Links.  A row that is off stands for a link that is dead: the bank has  *)
(* let it go, or has refused to cancel it while nobody had paid it.  Dead  *)
(* links do not come back, so that what an old answer or a draft says of   *)
(* them stays true; and only Init makes a row open, when no other is.      *)
(* Along with it: a row on its way back without a key of ours is one whose *)
(* money the bank did begin to return; and one written off for good is one *)
(* that cannot be paid any more in the sum of the order.  The latter       *)
(* needs to know how the bank's answers age: who has been told of a status *)
(* the bank settles in will not see the payment confirmed afterwards.      *)
(***************************************************************************)
Live == {"none", "NEW", "MOVING"}
Dead(b) == b.st \notin Live \/ b.refused
Off(r) == r.st \notin Open \union {"absent"} /\ r.prov # "INIT_ERROR"
Keyless(r) == r.st = "refund_requested" /\ r.key = NoKey

\* Nobody polls the row, nor may he have to: over is what cannot be paid.
WrittenOff(r) == \/ r.prov = "MISMATCH"
                 \/ r.bid /\ \/ r.st \in {"absent", "failed"}
                             \/ r.st = "closed" /\ r.prov # "NEW"
Over(b) == b.st \notin Live /\ (b.st = "CONFIRMED" => ~b.right)
ToldLast(s, right, b) ==
  s \notin Live /\ b.st = "CONFIRMED" => s = "CONFIRMED" /\ right = b.right

Vouched(r, b) == /\ Off(r) => Dead(b)
                 /\ Keyless(r) => WasReturned(b)
                 /\ WrittenOff(r) => Over(b)
Asked(t, b) == /\ t.seen \notin Live => b.st \notin Live
               /\ ToldLast(t.seen, t.right, b)
               /\ t.at = "asked" /\ t.op = "notify" => t.seen \notin Live
               /\ t.at = "close" /\ t.seen = "NEW" => t.draft.prov \in {"NEW", "MISMATCH"}
               /\ t.seen # "none" => b.st # "none"
               /\ t.seen \in {"REFUNDING", "REFUNDED"} => WasReturned(b)
               /\ Vouched(t.draft, b)

RowsOff == \A p \in Payments : Vouched(row[p], bank[p])
OneOpen == \A p, q \in Active : p = q
RequestsAsked == \A w \in Workers : worker[w].pay \in Payments =>
                   Asked(worker[w], bank[worker[w].pay])
Replaces(t) == /\ t.at \in Replacing => t.draft.st \notin Open
               /\ t.at = "init" => Active \subseteq {t.pay}
OnlyOffReplaced == \A w \in Workers : Replaces(worker[w])

LinkInv == RowsOff /\ OneOpen /\ RequestsAsked /\ OnlyOffReplaced

\* A link that is announced is not to be paid any more, or has been.
NotesCome == \A p \in Payments : \A s \in Announced :
               <<p, s>> \in inbox => bank[p].st \notin Live

(***************************************************************************)
(* What the bank does to links.                                            *)
(***************************************************************************)
RejectedFits(b) == b.rejected # {} => b.money # "none" /\ b.st # "CONFIRMED"
Older(b, c) == /\ b.st \notin Live => c.st \notin Live
               /\ b.st # "none" => c.st # "none"
               /\ b.refused => c.refused
               /\ WasReturned(b) => WasReturned(c)
               /\ b.money # "none" => c.money # "none"
               /\ c.st = b.st => c.right = b.right
               /\ b.st \in {"REFUNDED", "VOIDED"} => c.st = b.st
               /\ c.st = "CONFIRMED" /\ b.st # "CONFIRMED" => b.st \in Live /\ b.money = "none"
               /\ RejectedFits(b) => RejectedFits(c)
Ages == \A q \in Payments : Older(bank[q], bank'[q])

LEMMA MovesAge ==
  ASSUME BankTypeOK, NEW p \in Payments, NEW b, Moves(p, b), Older(bank[p], b)
  PROVE  Ages
  BY DEF BankTypeOK, Moves, Ages, Older

LEMMA StillAges ==
  ASSUME UNCHANGED bank
  PROVE  Ages
  BY DEF Ages, Older

LEMMA BankNextAges ==
  ASSUME BankTypeOK, MoneyFitsStatus, RefundsFit, NEW p \in Payments,
         BankNext(p) \/ PayerPays(p)
  PROVE  Ages
<1> bank[p] \in BankRecord /\ MoneyFits(bank[p]) /\ RefundFits(bank[p])
  BY DEF BankTypeOK, MoneyFitsStatus, RefundsFit
<1> USE DEF BankRecord, Older, Live, WasReturned, RejectedFits, MoneyFits, RefundFits
<1>1. CASE PayerPays(p)
  BY <1>1, MovesAge DEF PayerPays
<1>2. CASE PayerFails(p)
  BY <1>2, MovesAge DEF PayerFails
<1>3. CASE Confirms(p)
  BY <1>3, MovesAge DEF Confirms
<1>4. CASE LinkExpires(p)
  BY <1>4, MovesAge DEF LinkExpires
<1>5. CASE RefundCompletes(p)
  BY <1>5, MovesAge DEF RefundCompletes
<1>6. CASE RefundIsRejected(p)
  BY <1>6, MovesAge DEF RefundIsRejected
<1>7. CASE CabinetRefund(p)
  BY <1>7, MovesAge DEF CabinetRefund, Refundable, KeepsMoney, Refunding
<1>8. CASE CabinetPartialRefund(p)
  BY <1>8, MovesAge DEF CabinetPartialRefund
<1> QED BY <1>1, <1>2, <1>3, <1>4, <1>5, <1>6, <1>7, <1>8 DEF BankNext

LEMMA CallsAge ==
  ASSUME BankTypeOK, MoneyFitsStatus, OrdersHold, NEW p \in Payments
  PROVE  /\ InitAccepted(p) /\ bank[p].st = "none" => Ages /\ bank'[p].st = "NEW"
         /\ CancelStarts(p) => Ages
         /\ CancelRefused(p) => Ages /\ (bank[p].st # "none" => Dead(bank'[p]))
         /\ \A k \in Keys : RefundAccepted(p, k) => Ages /\ bank'[p].st \notin Live
<1> bank[p] \in BankRecord /\ OrdersFit(bank[p]) /\ MoneyFits(bank[p])
  BY DEF BankTypeOK, OrdersHold, MoneyFitsStatus
<1>0. \A b : Moves(p, b) => bank'[p] = b
  BY DEF Moves, BankTypeOK
<1> USE DEF BankRecord, Older, Live, WasReturned, RejectedFits, MoneyFits
<1>1. InitAccepted(p) /\ bank[p].st = "none" => Ages /\ bank'[p].st = "NEW"
  BY <1>0, MovesAge DEF InitAccepted
<1>2. CancelVoids(p) => Ages
  BY MovesAge DEF CancelVoids, Payable
<1>3. CancelReturnsMoney(p) => Ages
  BY MovesAge DEF CancelReturnsMoney, Refundable, KeepsMoney, Refunding, Refunded
<1>4. CancelStarts(p) => Ages
  BY <1>2, <1>3, StillAges DEF CancelStarts, CancelReverses
<1>5. ASSUME CancelRefused(p)
      PROVE  Ages /\ (bank[p].st # "none" => Dead(bank'[p]))
  <2> DEFINE b == [bank[p] EXCEPT !.refused = @ \/ Payable(p)]
  <2>1. bank' = [bank EXCEPT ![p] = b]
    BY <1>5 DEF CancelRefused
  <2>2. /\ b.st = bank[p].st /\ b.money = bank[p].money /\ b.right = bank[p].right
        /\ b.rejected = bank[p].rejected
    OBVIOUS
  <2>3. (bank[p].refused => b.refused) /\ (Payable(p) => b.refused)
    OBVIOUS
  <2> HIDE DEF b
  <2>4. bank'[p] = b /\ \A q \in Payments : q # p => bank'[q] = bank[q]
    BY <2>1 DEF BankTypeOK
  <2>5. Ages
    BY <2>2, <2>3, <2>4 DEF Ages
  <2> QED BY <2>2, <2>3, <2>4, <2>5 DEF Dead, Payable
<1>6. ASSUME NEW k \in Keys, RefundAccepted(p, k)
      PROVE  Ages /\ bank'[p].st \notin Live
  <2>1. CASE k \in bank[p].orders /\ UNCHANGED bank
    BY <1>6, <2>1, StillAges DEF OrdersFit
  <2>2. CASE /\ Refundable(p) \/ bank[p].st = "REFUNDING"
             /\ \E b \in {Refunding(p, k), Refunded(p, k)} : Moves(p, b)
    <3>1. PICK b \in {Refunding(p, k), Refunded(p, k)} : Moves(p, b)
      BY <2>2
    <3>2. /\ b.st \in {"REFUNDING", "REFUNDED"} /\ b.refused = bank[p].refused
          /\ b.right = bank[p].right /\ b.rejected = bank[p].rejected
          /\ b.money \in {bank[p].money, "back"}
      BY DEF Refunding, Refunded
    <3>3. Older(bank[p], b)
      BY <2>2, <3>2 DEF Refundable, KeepsMoney
    <3> HIDE DEF Older
    <3> QED BY <1>0, <3>1, <3>2, <3>3, MovesAge
  <2> QED BY <1>6, <2>1, <2>2 DEF RefundAccepted
<1> QED BY <1>1, <1>4, <1>5, <1>6

LEMMA StaysDead ==
  ASSUME NEW r, NEW b, NEW c, Vouched(r, b), Older(b, c)
  PROVE  Vouched(r, c)
  BY DEF Vouched, Dead, Over, Older

LEMMA StaysAsked ==
  ASSUME NEW t, NEW b, NEW c, Asked(t, b), Older(b, c)
  PROVE  Asked(t, c)
  BY StaysDead DEF Asked, ToldLast, Older

\* A row goes off by an answer that the link is dead, and is never reopened.
LEMMA AfterOff ==
  ASSUME NEW r \in Row, NEW s, NEW right \in BOOLEAN, NEW b, Vouched(r, b),
         s \notin Live => b.st \notin Live,
         s \in {"REFUNDING", "REFUNDED"} => WasReturned(b),
         ToldLast(s, right, b) \/ s \in {"REFUNDING", "REFUNDED"}
  PROVE  /\ Vouched(After(r, s, right), b)
         /\ After(r, s, right).st \in Open => r.st \in Open
<1>1. After(r, s, right).st \in Open => r.st \in Open
  BY DEF After, PaidAs, UnpaidAs, FinalUnpaid, RefundFailed, Returning, KeyAfter, MayCount,
         Row, Counted, Open
<1>2. s \in Live => After(r, s, right) = r \/ After(r, s, right).st \in Open
  BY DEF After, FinalUnpaid, MayCount, Row, Live
<1>3. Keyless(After(r, s, right)) => Keyless(r) \/ s \in {"REFUNDING", "REFUNDED"}
  BY DEF After, PaidAs, UnpaidAs, FinalUnpaid, RefundFailed, Returning, KeyAfter, MayCount,
         Row, Counted, Open, Keyless, NoKey
<1>4. WrittenOff(After(r, s, right)) =>
        \/ WrittenOff(r)
        \/ s = "CONFIRMED" /\ ~right
        \/ s \in {"REJECTED", "VOIDED"}
  BY DEF After, PaidAs, UnpaidAs, FinalUnpaid, RefundFailed, Returning, KeyAfter, MayCount,
         Row, Counted, Open, WrittenOff
<1>5. s \in {"CONFIRMED", "REJECTED", "VOIDED"} => s \notin Live
  BY DEF Live
<1>6. WrittenOff(After(r, s, right)) => Over(b)
  BY <1>4, <1>5 DEF Vouched, ToldLast, Over
<1> QED BY <1>1, <1>2, <1>3, <1>6 DEF Vouched, Off, Dead

(***************************************************************************)
(* A step that opens no row and puts off only what is dead.                *)
(***************************************************************************)
Renews ==
  /\ Ages
  /\ \A q \in Payments :
       /\ row[q].st = "absent" /\ row'[q].st # "absent" => bank'[q].st \in {"none", "NEW"}
       /\ row'[q].st \in Open => row[q].st \in Open \union {"absent"}

LEMMA LinksStep ==
  ASSUME TypeInv, LinkInv, Ages, NEW w \in Workers, NEW t, Becomes(w, t),
         \A q \in Payments : row'[q] = row[q] \/ Vouched(row'[q], bank'[q]),
         \A q \in Payments : row'[q].st \in Open => row[q].st \in Open,
         \A q \in Payments : row[q].st = "absent" => row'[q].st = "absent",
         t.pay \in Payments => Asked(t, bank'[t.pay]), Replaces(t)
  PROVE  LinkInv' /\ Renews
<1>1. \A v \in Workers : worker'[v] = IF v = w THEN t ELSE worker[v]
  BY DEF Becomes, TypeInv, TypeOK
<1>2. Active' \subseteq Active
  BY DEF Active
<1>3. RowsOff'
  BY StaysDead DEF RowsOff, LinkInv, Ages
<1>4. OneOpen'
  BY <1>2 DEF OneOpen, LinkInv
<1>5. RequestsAsked'
  <2> SUFFICES ASSUME NEW v \in Workers, worker'[v].pay \in Payments
               PROVE  Asked(worker'[v], bank'[worker'[v].pay])
    BY DEF RequestsAsked
  <2>1. CASE v = w
    BY <1>1, <2>1
  <2>2. CASE v # w
    <3>1. worker'[v] = worker[v]
      BY <1>1, <2>2
    <3>2. Asked(worker[v], bank[worker[v].pay])
      BY <3>1 DEF LinkInv, RequestsAsked
    <3> QED BY <3>1, <3>2, StaysAsked DEF Ages
  <2> QED BY <2>1, <2>2
<1>6. OnlyOffReplaced'
  BY <1>1, <1>2 DEF OnlyOffReplaced, LinkInv, Replaces
<1>7. Renews
  BY DEF Renews
<1> QED BY <1>3, <1>4, <1>5, <1>6, <1>7 DEF LinkInv

LEMMA RunsLinks ==
  ASSUME TypeInv, LinkInv, OnlyRuns, Ages, NEW w \in Workers, NEW t, Becomes(w, t),
         t.pay \in Payments => Asked(t, bank'[t.pay]), Replaces(t)
  PROVE  LinkInv' /\ Renews
  BY LinksStep DEF OnlyRuns

LEMMA IdleLinks ==
  ASSUME NEW w \in Workers, Ends(w)
  PROVE  Becomes(w, Idle) /\ Idle.pay \notin Payments /\ Replaces(Idle)
  BY NoPaymentAssumption DEF Ends, Idle, Replaces, Replacing

LEMMA CommitsLinks ==
  ASSUME TypeInv, LinkInv, Ages, NEW w \in Workers, Ends(w), NEW p \in Payments,
         NEW old, NEW r, Commits(p, old, r), Vouched(r, bank'[p]),
         row[p].st # "absent", r.st \in Open => row[p].st \in Open
  PROVE  LinkInv' /\ Renews
<1>1. \A q \in Payments : row'[q] = IF q = p THEN r ELSE row[q]
  BY DEF Commits, TypeInv, TypeOK
<1> QED BY <1>1, IdleLinks, LinksStep

LEMMA WorkerAsked ==
  ASSUME TypeInv, LinkInv, NEW w \in Workers, worker[w].pay \in Payments
  PROVE  /\ Asked(worker[w], bank[worker[w].pay])
         /\ Vouched(worker[w].draft, bank[worker[w].pay])
         /\ Vouched(row[worker[w].pay], bank[worker[w].pay])
         /\ Vouched(Applied(w), bank[worker[w].pay])
         /\ Applied(w).st \in Open => row[worker[w].pay].st \in Open
<1> DEFINE p == worker[w].pay
<1>1. Asked(worker[w], bank[p]) /\ Vouched(row[p], bank[p])
  BY DEF LinkInv, RowsOff, RequestsAsked
<1>2. row[p] \in Row /\ worker[w].right \in BOOLEAN
  BY WorkerType DEF Request
<1>3. /\ Vouched(Applied(w), bank[p])
      /\ Applied(w).st \in Open => row[p].st \in Open
  BY <1>1, <1>2, AfterOff DEF Asked, Applied
<1> QED BY <1>1, <1>3 DEF Asked

(***************************************************************************)
(* Action by action.                                                       *)
(***************************************************************************)
LEMMA AsksLinks ==
  ASSUME TypeInv, LinkInv, NEW w \in Workers, NEW p \in Payments, NEW op, NEW n,
         Asks(w, op, p, n), op = "notify" => bank[p].st \notin Live
  PROVE  LinkInv' /\ Renews
<1> DEFINE t == [Idle EXCEPT !.at = "asked", !.op = op, !.pay = p,
                             !.draft = row[p], !.seen = bank[p].st,
                             !.right = bank[p].right, !.note = n]
<1>1. /\ t.at = "asked" /\ t.op = op /\ t.pay = p /\ t.draft = row[p]
      /\ t.seen = bank[p].st /\ t.right = bank[p].right
  BY DEF Idle
<1>2. Becomes(w, t) /\ OnlyRuns /\ UNCHANGED bank
  BY DEF Asks
<1> HIDE DEF t
<1>3. Asked(t, bank'[p]) /\ Replaces(t)
  BY <1>1, <1>2
     DEF Asked, ToldLast, Replaces, Replacing, LinkInv, RowsOff, WasReturned
<1> QED BY <1>1, <1>2, <1>3, StillAges, RunsLinks

LEMMA StartsLinks ==
  ASSUME TypeInv, LinkInv, NotesCome, NEW w \in Workers
  PROVE  /\ InitiateFresh(w) => LinkInv' /\ Renews
         /\ \A p \in Payments :
              \/ InitiateOverDeadLink(w, p) \/ CancelLink(w, p) \/ StartRefund(w, p)
              \/ RetireLink(w, p) \/ StartPoll(w, p) \/ InsertPayment(w, p)
              \/ \E s \in Announced : Notified(w, p, s)
              => LinkInv' /\ Renews
<1>1. ASSUME InitiateFresh(w)
      PROVE  LinkInv' /\ Renews
  <2> DEFINE t == ReadyToInsert(NoPayment, Absent)
  <2>1. t.pay \notin Payments /\ Replaces(t)
    BY NoPaymentAssumption DEF ReadyToInsert, Idle, Replaces, Absent, Open
  <2>2. Becomes(w, t) /\ OnlyRuns /\ UNCHANGED bank
    BY <1>1 DEF InitiateFresh
  <2> HIDE DEF t
  <2> QED BY <2>1, <2>2, StillAges, RunsLinks
<1>2. ASSUME NEW p \in Payments, StartRefund(w, p)
      PROVE  LinkInv' /\ Renews
  <2> DEFINE t == [Idle EXCEPT !.at = "refund", !.op = "refund", !.pay = p,
                               !.draft = AttemptOf(row[p])]
  <2>1. t.at = "refund" /\ t.pay = p /\ t.seen = "none" /\ t.draft = AttemptOf(row[p])
    BY DEF Idle
  <2>2. /\ row[p] \in Row /\ Becomes(w, t) /\ OnlyRuns /\ UNCHANGED bank
        /\ row[p].st \in {"succeeded", "refund_requested"}
    BY <1>2 DEF StartRefund, TypeInv, TypeOK
  <2>3. /\ Off(AttemptOf(row[p])) => Off(row[p])
        /\ Keyless(AttemptOf(row[p])) => Keyless(row[p])
        /\ WrittenOff(AttemptOf(row[p])) => WrittenOff(row[p])
    BY <2>2, AttemptsAssumption
       DEF Off, Keyless, WrittenOff, NoKey, Keys, AttemptOf, NextAttempt, Row, Open
  <2> HIDE DEF t
  <2>4. Asked(t, bank'[p]) /\ Replaces(t)
    BY <2>1, <2>2, <2>3
       DEF Asked, ToldLast, Vouched, Replaces, Replacing, LinkInv, RowsOff, Live
  <2> QED BY <2>1, <2>2, <2>4, StillAges, RunsLinks
<1>3. ASSUME NEW p \in Payments, StartPoll(w, p)
      PROVE  LinkInv' /\ Renews
  <2> DEFINE t == [Idle EXCEPT !.at = "polled", !.op = "poll", !.pay = p, !.draft = row[p]]
  <2>1. t.at = "polled" /\ t.pay = p /\ t.draft = row[p] /\ t.seen = "none"
    BY DEF Idle
  <2>2. Becomes(w, t) /\ OnlyRuns /\ UNCHANGED bank
    BY <1>3 DEF StartPoll
  <2> HIDE DEF t
  <2>3. Asked(t, bank'[p]) /\ Replaces(t)
    BY <2>1, <2>2 DEF Asked, ToldLast, Replaces, Replacing, LinkInv, RowsOff, Live
  <2> QED BY <2>1, <2>2, <2>3, StillAges, RunsLinks
<1>4. ASSUME NEW p \in Payments, InsertPayment(w, p)
      PROVE  LinkInv' /\ Renews
  <2> DEFINE t == [worker[w] EXCEPT !.at = "init", !.new = p]
  <2>1. /\ Becomes(w, t) /\ OnlyRuns /\ UNCHANGED bank /\ worker[w].at = "insert"
        /\ worker[w] \in Request /\ Active \subseteq {worker[w].pay}
    BY <1>4 DEF InsertPayment, TypeInv, TypeOK
  <2>2. /\ t.at = "init" /\ t.pay = worker[w].pay /\ t.draft = worker[w].draft
        /\ t.seen = worker[w].seen /\ t.right = worker[w].right
    BY <2>1 DEF Request
  <2> HIDE DEF t
  <2>3. worker[w].draft.st \notin Open
    BY <2>1 DEF LinkInv, OnlyOffReplaced, Replaces, Replacing
  <2>4. (t.pay \in Payments => Asked(t, bank'[t.pay])) /\ Replaces(t)
    BY <2>1, <2>2, <2>3, WorkerAsked DEF Asked, Replaces
  <2> QED BY <2>1, <2>4, StillAges, RunsLinks
<1>5. ASSUME NEW p \in Payments, NEW s \in Announced, Notified(w, p, s)
      PROVE  LinkInv' /\ Renews
  BY <1>5, AsksLinks DEF Notified, NotesCome
<1> QED BY <1>1, <1>2, <1>3, <1>4, <1>5, AsksLinks DEF InitiateOverDeadLink, CancelLink, RetireLink

\* A request that goes on to the new link over a row that is off.
LEMMA ReadyLinks ==
  ASSUME TypeInv, LinkInv, OnlyRuns, Ages, NEW w \in Workers, NEW p \in Payments, NEW r,
         Becomes(w, ReadyToInsert(p, r)), r.st \notin Open, Vouched(r, bank'[p])
  PROVE  LinkInv' /\ Renews
<1> DEFINE t == ReadyToInsert(p, r)
<1>1. t.at = "insert" /\ t.pay = p /\ t.draft = r /\ t.seen = "none"
  BY DEF ReadyToInsert, Idle
<1> HIDE DEF t
<1>2. Asked(t, bank'[p]) /\ Replaces(t)
  BY <1>1 DEF Asked, ToldLast, Replaces, Live
<1>3. Becomes(w, t)
  BY DEF t
<1> QED BY <1>1, <1>2, <1>3, RunsLinks

LEMMA AskedLinks ==
  ASSUME TypeInv, BooksInv, PaidInv, LinkInv, NEW w \in Workers
  PROVE  /\ AskedAndLeft(w) => LinkInv' /\ Renews
         /\ AskedAndGoesOn(w) => LinkInv' /\ Renews
         /\ NotificationApplied(w) => LinkInv' /\ Renews
         /\ PollAnswered(w) => LinkInv' /\ Renews
         /\ PollApplied(w) => LinkInv' /\ Renews
         /\ PollDiscarded(w) => LinkInv' /\ Renews
<1> DEFINE t == worker[w]
           p == worker[w].pay
<1>1. t.at \in {"asked", "polled", "pollseen"} =>
        /\ p \in Payments /\ t \in Request /\ Applied(w) \in Row
        /\ Asked(t, bank[p]) /\ Vouched(Applied(w), bank[p])
        /\ Applied(w).st \in Open => row[p].st \in Open
        /\ row[p].st # "absent"
  BY WorkerType, WorkerAsked, WorkerKnows DEF RequestFits, Agrees
<1>2. CASE AskedAndLeft(w)
  <2>1. /\ t.at = "asked" /\ Commits(p, t.draft, Applied(w)) /\ Ends(w) /\ UNCHANGED bank
    BY <1>2 DEF AskedAndLeft, OnlyCommits
  <2> QED BY <1>1, <2>1, StillAges, CommitsLinks
<1>3. CASE AskedAndGoesOn(w)
  <2> DEFINE r == Applied(w)
  <2>1. t.at = "asked" /\ OnlyRuns /\ UNCHANGED bank
    BY <1>3 DEF AskedAndGoesOn
  <2>2. CASE r.st \in Open /\ Becomes(w, [t EXCEPT !.at = "close", !.draft = r])
    <3> DEFINE u == [t EXCEPT !.at = "close", !.draft = r]
    <3>1. /\ u.at = "close" /\ u.pay = p /\ u.draft = r /\ u.seen = t.seen
          /\ u.right = t.right
      BY <1>1, <2>1 DEF Request
    <3>2. Becomes(w, u)
      BY <2>2
    <3>4. t.seen = "NEW" => r.prov \in {"NEW", "MISMATCH"}
      BY <1>1, <2>1, <2>2, WorkerType
         DEF Applied, After, FinalUnpaid, MayCount, Row, Open, Counted
    <3> HIDE DEF u, r
    <3>3. Asked(u, bank'[p]) /\ Replaces(u)
      BY <1>1, <2>1, <3>1, <3>4 DEF Asked, Replaces, Replacing, r
    <3> QED BY <1>1, <2>1, <3>1, <3>2, <3>3, StillAges, RunsLinks
  <2>3. CASE Becomes(w, ReadyToInsert(p, r)) /\ r.st \notin Open
    BY <1>1, <2>1, <2>3, StillAges, ReadyLinks
  <2> QED BY <1>3, <2>2, <2>3 DEF AskedAndGoesOn
<1>4. CASE NotificationApplied(w)
  <2> DEFINE r == [Applied(w) EXCEPT !.bid = TRUE]
  <2>1. t.at = "asked" /\ Commits(p, t.draft, r) /\ Ends(w) /\ UNCHANGED bank
    BY <1>4 DEF NotificationApplied
  <2>2. r.st = Applied(w).st /\ r.prov = Applied(w).prov
    BY <1>1, <2>1 DEF Row
  <2>5. WrittenOff(r) => Over(bank[p])
    <3>1. t.seen \notin Live /\ bank[p].st \notin Live
      BY <1>4, <1>1 DEF NotificationApplied, Asked
    <3>2. CASE Applied(w).prov = "MISMATCH"
      BY <1>1, <2>1, <3>2 DEF Vouched, WrittenOff
    <3>3. CASE bank[p].st = "CONFIRMED" /\ bank[p].right
      <4>1. t.seen = "CONFIRMED" /\ t.right
        BY <1>1, <2>1, <3>1, <3>3 DEF Asked, ToldLast
      <4>2. Applied(w).st \in Counted
        <5>1. Applied(w) = After(row[p], "CONFIRMED", TRUE) /\ row[p] \in Row
          BY <1>1, <2>1, <4>1, WorkerType DEF Applied
        <5> HIDE DEF r
        <5> QED BY <5>1 DEF After, PaidAs, FinalUnpaid, MayCount, Row, Counted
      <4> HIDE DEF r
      <4>3. r.st \notin {"absent", "failed", "closed"}
        BY <2>2, <4>2 DEF Counted
      <4>4. WrittenOff(r) => Applied(w).prov = "MISMATCH"
        BY <2>2, <4>3 DEF WrittenOff
      <4> QED BY <3>2, <4>4
    <3> QED BY <3>1, <3>3 DEF Over
  <2>4. r.key = Applied(w).key
    BY <1>1, <2>1 DEF Row
  <2> HIDE DEF r
  <2>3. Vouched(r, bank'[p]) /\ (r.st \in Open => row[p].st \in Open)
    BY <1>1, <2>1, <2>2, <2>4, <2>5 DEF Vouched, Off, Keyless
  <2> QED BY <1>1, <2>1, <2>3, StillAges, CommitsLinks
<1>5. CASE PollAnswered(w)
  <2> DEFINE u == [t EXCEPT !.at = "pollseen", !.seen = bank[t.pay].st,
                            !.right = bank[t.pay].right]
  <2>1. t.at = "polled" /\ Becomes(w, u) /\ OnlyRuns /\ UNCHANGED bank
    BY <1>5 DEF PollAnswered
  <2>2. /\ u.at = "pollseen" /\ u.pay = p /\ u.draft = t.draft /\ u.seen = bank[p].st
        /\ u.right = bank[p].right
    BY <1>1, <2>1 DEF Request
  <2> HIDE DEF u
  <2>3. Asked(u, bank'[p]) /\ Replaces(u)
    BY <1>1, <2>1, <2>2 DEF Asked, ToldLast, Replaces, Replacing, WasReturned
  <2> QED BY <2>1, <2>2, <2>3, StillAges, RunsLinks
<1>6. CASE PollApplied(w)
  <2>1. t.at = "pollseen" /\ Commits(p, row[p], Applied(w)) /\ Ends(w) /\ UNCHANGED bank
    BY <1>6 DEF PollApplied
  <2> QED BY <1>1, <2>1, StillAges, CommitsLinks
<1>7. CASE PollDiscarded(w)
  BY <1>7, StillAges, IdleLinks, RunsLinks DEF PollDiscarded
<1> QED BY <1>2, <1>3, <1>4, <1>5, <1>6, <1>7

LEMMA CancelNotConfirms ==
  ASSUME BankTypeOK, NEW p \in Payments, CancelStarts(p)
  PROVE  bank'[p].st # "CONFIRMED"
<1>1. bank[p] \in BankRecord
  BY DEF BankTypeOK
<1>2. \A b : Moves(p, b) => bank'[p] = b
  BY DEF Moves, BankTypeOK
<1> QED BY <1>1, <1>2 DEF BankRecord, CancelStarts, CancelVoids, CancelReverses,
           CancelReturnsMoney, Refunding, Refunded

\* The answer to a Cancel: the link is dead, or the row stays open.
LEMMA ClosedLinks ==
  ASSUME TypeInv, LinkInv, Ages, NEW w \in Workers, worker[w].pay \in Payments,
         row[worker[w].pay].st \in Open,
         NEW r, Vouched(r, bank'[worker[w].pay]), Closed(w, r)
  PROVE  LinkInv' /\ Renews
<1> DEFINE p == worker[w].pay
<1>1. CASE Becomes(w, ReadyToInsert(p, r)) /\ OnlyRuns /\ r.st \notin Open
  BY <1>1, ReadyLinks
<1>2. CASE Commits(p, row[p], r) /\ Ends(w)
  BY <1>2, CommitsLinks DEF Open
<1> QED BY <1>1, <1>2 DEF Closed

LEMMA CloseLinks ==
  ASSUME TypeInv, BooksInv, PaidInv, OrdersInv, LinkInv, NEW w \in Workers
  PROVE  /\ CloseAccepted(w) => LinkInv' /\ Renews
         /\ CloseRefused(w) => LinkInv' /\ Renews
         /\ CloseUnclear(w) => LinkInv' /\ Renews
         /\ CloseAsksAgain(w) => LinkInv' /\ Renews
<1> DEFINE t == worker[w]
           p == worker[w].pay
<1>1. t.at \in {"close", "reask"} =>
        /\ p \in Payments /\ t \in Request /\ t.draft \in Row /\ Asked(t, bank[p])
        /\ t.draft.st \in Open /\ row[p].st \in Open
  BY WorkerType, WorkerAsked, WorkerKnows DEF RequestFits, Agrees
<1>2. BankTypeOK /\ OrdersHold /\ MoneyFitsStatus
  BY Parts DEF OrdersInv, BooksInv
<1>3. t.at \in {"close", "reask"} => Vouched(t.draft, bank[p])
  BY <1>1 DEF Asked
<1>4. ASSUME CloseAccepted(w)
      PROVE  LinkInv' /\ Renews
  <2> DEFINE s == bank'[p].st
             r == After(t.draft, s, TRUE)
  <2>1. t.at = "close" /\ CancelStarts(p) /\ Closed(w, r)
    BY <1>4 DEF CloseAccepted
  <2>2. Ages
    BY <1>1, <1>2, <2>1, CallsAge
  <2>4. Vouched(t.draft, bank'[p])
    BY <1>1, <1>3, <2>1, <2>2, StaysDead DEF Ages
  <2>5. s # "CONFIRMED"
    BY <1>1, <1>2, <2>1, CancelNotConfirms
  <2>3. Vouched(r, bank'[p])
    BY <1>1, <2>1, <2>4, <2>5, AfterOff DEF WasReturned, ToldLast
  <2> HIDE DEF r
  <2> QED BY <1>1, <2>1, <2>2, <2>3, ClosedLinks
<1>5. ASSUME CloseRefused(w)
      PROVE  LinkInv' /\ Renews
  <2> DEFINE r == [t.draft EXCEPT !.st = "closed"]
  <2>1. t.at = "close" /\ t.seen = "NEW" /\ CancelRefused(p) /\ Closed(w, r)
    BY <1>5 DEF CloseRefused
  <2>3. Ages /\ (Off(r) => Dead(bank'[p])) /\ ~Keyless(r)
    BY <1>1, <1>2, <2>1, CallsAge DEF Asked, Keyless, Row
  <2>4. WrittenOff(r) => WrittenOff(t.draft)
    BY <1>1, <2>1 DEF Asked, WrittenOff, Row
  <2>2. Ages /\ Vouched(r, bank'[p])
    BY <1>1, <1>3, <2>1, <2>3, <2>4, StaysDead DEF Vouched, Ages
  <2> HIDE DEF r
  <2> QED BY <1>1, <2>1, <2>2, ClosedLinks
<1>6. ASSUME CloseUnclear(w)
      PROVE  LinkInv' /\ Renews
  <2> DEFINE u == [t EXCEPT !.at = "reask", !.seen = "none"]
  <2>1. /\ t.at = "close" /\ Becomes(w, u) /\ OnlyRuns
        /\ CancelStarts(p) \/ UNCHANGED bank
    BY <1>6 DEF CloseUnclear
  <2>2. Ages
    BY <1>1, <1>2, <2>1, CallsAge, StillAges
  <2>3. u.at = "reask" /\ u.pay = p /\ u.draft = t.draft /\ u.seen = "none"
    BY <1>1, <2>1 DEF Request
  <2> HIDE DEF u
  <2>5. Vouched(t.draft, bank'[p])
    BY <1>1, <1>3, <2>1, <2>2, StaysDead DEF Ages
  <2>4. Asked(u, bank'[p]) /\ Replaces(u)
    BY <2>1, <2>3, <2>5 DEF Asked, ToldLast, Replaces, Replacing, Live
  <2> QED BY <2>1, <2>2, <2>3, <2>4, RunsLinks
<1>7. ASSUME CloseAsksAgain(w)
      PROVE  LinkInv' /\ Renews
  <2>1. t.at = "reask" /\ Ends(w) /\ UNCHANGED bank
    BY <1>7 DEF CloseAsksAgain, OnlyCommits
  <2>2. PICK answered \in BOOLEAN : Commits(p, row[p], AskAgain(w, answered))
    BY <1>7 DEF CloseAsksAgain
  <2>3. Vouched(AskAgain(w, answered), bank'[p])
    <3>1. bank[p].right \in BOOLEAN
      BY <1>1, <1>2, <2>1 DEF BankTypeOK, BankRecord
    <3> QED BY <1>1, <1>3, <2>1, <3>1, AfterOff DEF AskAgain, WasReturned, ToldLast
  <2> QED BY <1>1, <2>1, <2>2, <2>3, StillAges, CommitsLinks DEF Open
<1> QED BY <1>4, <1>5, <1>6, <1>7

LEMMA RefundIsUnderWay ==
  ASSUME BankTypeOK, OrdersHold, NEW p \in Payments, NEW k \in Keys, RefundAccepted(p, k)
  PROVE  bank'[p].st \in {"REFUNDING", "REFUNDED"}
<1>1. bank[p] \in BankRecord /\ OrdersFit(bank[p])
  BY DEF BankTypeOK, OrdersHold
<1>2. \A b : Moves(p, b) => bank'[p] = b
  BY DEF Moves, BankTypeOK
<1> QED BY <1>1, <1>2 DEF BankRecord, RefundAccepted, Refunding, Refunded, OrdersFit

LEMMA RefundsLinks ==
  ASSUME TypeInv, BooksInv, PaidInv, OrdersInv, LinkInv, NEW w \in Workers,
         \/ RefundAnswered(w) \/ RefundUnanswered(w) \/ RefundIsRefused(w)
         \/ RefundAsksState(w)
  PROVE  LinkInv' /\ Renews
<1> DEFINE t == worker[w]
           p == worker[w].pay
           d == worker[w].draft
<1>1. t.at \in Returns
  BY DEF RefundAnswered, RefundUnanswered, RefundIsRefused, RefundAsksState, Returns
<1>2. /\ p \in Payments /\ t \in Request /\ d \in Row /\ d.st = "refund_requested"
      /\ t.at = "refund" => d.key \in Keys
      /\ row[p].st # "absent"
  BY <1>1, WorkerReturns
<1>3. Asked(t, bank[p]) /\ Vouched(d, bank[p]) /\ d.st \notin Open
  BY <1>2, WorkerAsked DEF Open
<1>4. BankTypeOK /\ OrdersHold /\ MoneyFitsStatus
  BY Parts DEF OrdersInv, BooksInv
<1>5. CASE RefundAnswered(w)
  <2> DEFINE r == After(d, bank'[p].st, TRUE)
  <2>1. t.at = "refund" /\ RefundAccepted(p, d.key) /\ Commits(p, d, r) /\ Ends(w)
    BY <1>5 DEF RefundAnswered
  <2>2. Ages /\ bank'[p].st \notin Live
    BY <1>2, <1>4, <2>1, CallsAge
  <2>4. Vouched(d, bank'[p])
    BY <1>2, <1>3, <2>2, StaysDead DEF Ages
  <2>5. bank'[p].st \in {"REFUNDING", "REFUNDED"}
    BY <1>2, <1>4, <2>1, RefundIsUnderWay
  <2>3. Vouched(r, bank'[p]) /\ (r.st \in Open => row[p].st \in Open)
    BY <1>2, <1>3, <2>2, <2>4, <2>5, AfterOff DEF WasReturned
  <2> HIDE DEF r
  <2> QED BY <1>2, <2>1, <2>2, <2>3, CommitsLinks
<1>6. CASE RefundUnanswered(w)
  <2>1. /\ t.at = "refund" /\ Commits(p, d, d) /\ Ends(w)
        /\ RefundAccepted(p, d.key) \/ UNCHANGED bank
    BY <1>6 DEF RefundUnanswered
  <2>2. Ages
    BY <1>2, <1>4, <2>1, CallsAge, StillAges
  <2>3. Vouched(d, bank'[p])
    BY <1>2, <1>3, <2>2, StaysDead DEF Ages
  <2> QED BY <1>2, <1>3, <2>1, <2>2, <2>3, CommitsLinks
<1>7. CASE RefundIsRefused(w)
  <2> DEFINE u == [t EXCEPT !.at = "refundask"]
  <2>1. /\ u.at = "refundask" /\ u.pay = p /\ u.draft = d /\ u.seen = t.seen
        /\ u.right = t.right
    BY <1>2 DEF Request
  <2>2. Becomes(w, u) /\ OnlyRuns /\ UNCHANGED bank
    BY <1>7 DEF RefundIsRefused
  <2> HIDE DEF u
  <2>3. Asked(u, bank'[p]) /\ Replaces(u)
    BY <1>3, <2>1, <2>2 DEF Asked, Replaces, Replacing
  <2> QED BY <2>1, <2>2, <2>3, StillAges, RunsLinks
<1>8. CASE RefundAsksState(w)
  <2>1. PICK s \in {bank[p].st, "none"} : Commits(p, d, AfterRefusal(d, s))
    BY <1>8 DEF RefundAsksState
  <2>2. Ends(w) /\ UNCHANGED bank
    BY <1>8 DEF RefundAsksState, OnlyCommits
  <2> DEFINE r == AfterRefusal(d, s)
  <2>3. Vouched(r, bank'[p]) /\ r.st \notin Open
    <3>1. CASE s = "CONFIRMED"
      <4>1. r.st = "succeeded" /\ r.prov = "REJECTED" /\ Dead(bank'[p])
        BY <1>2, <2>1, <2>2, <3>1 DEF AfterRefusal, RefundFailed, Row, Dead, Live
      <4> QED BY <4>1 DEF Vouched, WrittenOff, Open, Keyless
    <3>2. CASE s \in {"REFUNDING", "REFUNDED"} /\ s # "CONFIRMED"
      <4>1. r = After(d, s, TRUE)
        BY <3>2 DEF AfterRefusal
      <4>2. s \notin Live => bank'[p].st \notin Live
        BY <2>1, <2>2 DEF Live
      <4> HIDE DEF r
      <4> QED BY <1>2, <1>3, <2>1, <2>2, <3>2, <4>1, <4>2, AfterOff DEF WasReturned
    <3>3. CASE r = d
      <4> HIDE DEF r
      <4> QED BY <1>3, <2>2, <3>3
    <3> QED BY <3>1, <3>2, <3>3 DEF AfterRefusal
  <2>4. Commits(p, d, r)
    BY <2>1
  <2> HIDE DEF r
  <2> QED BY <1>2, <2>2, <2>3, <2>4, StillAges, CommitsLinks
<1> QED BY <1>5, <1>6, <1>7, <1>8

LEMMA DiesLinks ==
  ASSUME TypeInv, BooksInv, PaidInv, OrdersInv, LinkInv, NEW w \in Workers, Dies(w)
  PROVE  LinkInv' /\ Renews
<1> DEFINE t == worker[w]
<1>1. OnlyRuns /\ Ends(w) /\ CallMayReachBank(w)
  BY DEF Dies
<1>2. t.at = "init" => t.new \in Payments /\ bank[t.new].st = "none"
  BY DEF BooksInv, NewLinks, TypeInv, RequestOK
<1>3. t.at = "refund" => t.pay \in Payments /\ t.draft.key \in Keys
  BY WorkerType DEF RequestFits
<1>4. BankTypeOK /\ OrdersHold /\ MoneyFitsStatus
  BY Parts DEF OrdersInv, BooksInv
<1>5. Ages
  BY <1>1, <1>2, <1>3, <1>4, CallsAge, StillAges DEF CallMayReachBank
<1> QED BY <1>1, <1>5, IdleLinks, RunsLinks

(***************************************************************************)
(* The new link: its request found no other, and no other request may call *)
(* Init meanwhile; what it replaces is off.                                *)
(***************************************************************************)
LEMMA CommitsOldLinks ==
  ASSUME TypeInv, BooksInv, PaidInv, LinkInv, Ages,
         NEW w \in Workers, Ends(w), worker[w].at \in Replacing,
         NEW new, NEW r, CommitsOld(w, new, r),
         new \in Payments => /\ worker[w].at = "init"
                             /\ ~Off(r) /\ ~Keyless(r) /\ ~WrittenOff(r)
                             /\ row[new].st = "absent" /\ bank'[new].st \in {"none", "NEW"}
                             /\ \A v \in Workers : worker[v].at = "init" => v = w
  PROVE  LinkInv' /\ Renews
<1> DEFINE t == worker[w]
<1>1. t.draft.st \notin Open /\ (t.at = "init" => Active \subseteq {t.pay})
  BY DEF LinkInv, OnlyOffReplaced, Replaces
<1>2. \A q \in Payments : row'[q] = IF q = new THEN r
                                    ELSE IF q = t.pay THEN t.draft ELSE row[q]
  BY DEF CommitsOld
<1>3. t.pay \in Payments => Vouched(t.draft, bank'[t.pay])
  BY WorkerAsked, StaysDead DEF Ages
<1>4. \A v \in Workers : worker'[v] = IF v = w THEN Idle ELSE worker[v]
  BY DEF Ends, Becomes, TypeInv, TypeOK
<1>7. t.pay \in Payments => row[t.pay].st # "absent"
  BY WorkerKnows DEF Agrees
<1>5. CASE new \notin Payments
  BY <1>1, <1>2, <1>3, <1>5, <1>7, IdleLinks, LinksStep
<1>6. CASE new \in Payments
  <2>1. RowsOff'
    BY <1>2, <1>3, <1>6, StaysDead DEF RowsOff, LinkInv, Ages, Vouched
  <2>2. Active' \subseteq {new}
    BY <1>1, <1>2, <1>6 DEF Active
  <2>3. RequestsAsked'
    <3> SUFFICES ASSUME NEW v \in Workers, worker'[v].pay \in Payments
                 PROVE  Asked(worker'[v], bank'[worker'[v].pay])
      BY DEF RequestsAsked
    <3>1. worker'[v] = worker[v]
      BY <1>4, NoPaymentAssumption DEF Idle
    <3>2. Asked(worker[v], bank[worker[v].pay])
      BY <3>1 DEF LinkInv, RequestsAsked
    <3> QED BY <3>1, <3>2, StaysAsked DEF Ages
  <2>4. OnlyOffReplaced'
    <3>1. \A v \in Workers : worker'[v].at # "init"
      BY <1>4, <1>6 DEF Idle
    <3>2. \A v \in Workers : worker'[v].at \in Replacing => worker'[v].draft.st \notin Open
      BY <1>4 DEF Idle, Replacing, LinkInv, OnlyOffReplaced, Replaces
    <3> QED BY <3>1, <3>2 DEF OnlyOffReplaced, Replaces
  <2>5. OneOpen'
    BY <2>2 DEF OneOpen
  <2>6. Renews
    BY <1>1, <1>2, <1>6, <1>7 DEF Renews
  <2> QED BY <2>1, <2>3, <2>4, <2>5, <2>6 DEF LinkInv
<1> QED BY <1>5, <1>6

LEMMA InitLinks ==
  ASSUME TypeInv, BooksInv, PaidInv, OrdersInv, LinkInv, NEW w \in Workers,
         InsertAbandoned(w) \/ InitAnswered(w) \/ InitUnanswered(w)
  PROVE  LinkInv' /\ Renews
<1> DEFINE t == worker[w]
<1>1. Ends(w) /\ t.at \in Replacing
  BY DEF InsertAbandoned, InitAnswered, InitUnanswered, Replacing
<1>2. BankTypeOK /\ OrdersHold /\ MoneyFitsStatus
  BY Parts DEF OrdersInv, BooksInv
<1>3. CASE InsertAbandoned(w)
  <2>1. Ages
    BY <1>3, StillAges DEF InsertAbandoned, OnlyCommits
  <2>2. CASE row' = row
    BY <1>1, <2>1, <2>2, IdleLinks, LinksStep
  <2>3. CASE CommitsOld(w, NoPayment, Absent)
    BY <1>1, <2>1, <2>3, NoPaymentAssumption, CommitsOldLinks
  <2> QED BY <1>3, <2>2, <2>3 DEF InsertAbandoned
<1>4. CASE InitAnswered(w) \/ InitUnanswered(w)
  <2>1. /\ t.at = "init" /\ t.new \in Payments /\ bank[t.new].st = "none"
        /\ \A v \in Workers : worker[v].at = "init" => v = w
    BY <1>4 DEF InitAnswered, InitUnanswered, BooksInv, NewLinks, TypeInv, RequestOK
  <2>5. row[t.new].st = "absent"
    BY <2>1 DEF PaidInv, NewRows
  <2>2. Ages /\ bank'[t.new].st \in {"none", "NEW"}
    BY <1>2, <1>4, <2>1, CallsAge, StillAges DEF InitAnswered, InitUnanswered
  <2>3. \A r \in {LinkIssued, InitFailed} : ~Off(r) /\ ~Keyless(r) /\ ~WrittenOff(r)
    <3>1. /\ LinkIssued.st = "awaiting_user" /\ LinkIssued.prov = "NEW"
          /\ InitFailed.st = "failed" /\ InitFailed.prov = "INIT_ERROR" /\ ~InitFailed.bid
      BY DEF LinkIssued, InitFailed, Absent
    <3> QED BY <3>1 DEF Off, Open, Keyless, WrittenOff
  <2>4. PICK r \in {LinkIssued, InitFailed} : CommitsOld(w, t.new, r)
    BY <1>4 DEF InitAnswered, InitUnanswered
  <2> QED BY <1>1, <2>1, <2>2, <2>3, <2>4, <2>5, CommitsOldLinks
<1> QED BY <1>3, <1>4

LEMMA WorldLinks ==
  ASSUME LinkInv, Ages, UNCHANGED <<row, worker>>
  PROVE  LinkInv' /\ Renews
<1>1. RowsOff' /\ OneOpen' /\ OnlyOffReplaced'
  BY StaysDead DEF LinkInv, RowsOff, OneOpen, Active, OnlyOffReplaced, Replaces, Ages
<1>2. RequestsAsked'
  BY StaysAsked DEF LinkInv, RequestsAsked, Ages
<1>3. Renews
  BY DEF Renews
<1> QED BY <1>1, <1>2, <1>3 DEF LinkInv

LEMMA NextLinks ==
  ASSUME TypeInv, BooksInv, PaidInv, OrdersInv, LinkInv, NotesCome, [Next]_vars
  PROVE  LinkInv' /\ Renews
<1>1. ASSUME NEW w \in Workers, Works(w) PROVE LinkInv' /\ Renews
  BY <1>1, StartsLinks, AskedLinks, CloseLinks, InitLinks, RefundsLinks, DiesLinks
     DEF Works
<1>2. ASSUME NEW p \in Payments, World(p) PROVE LinkInv' /\ Renews
  BY <1>2, BankNextAges, WorldLinks, Parts DEF World, BuyerPays, PaidInv, BooksInv
<1>3. ASSUME NEW p \in Payments, NEW s \in Announced, NotificationIgnored(p, s)
      PROVE  LinkInv' /\ Renews
  BY <1>3, StillAges, WorldLinks DEF NotificationIgnored
<1>4. CASE UNCHANGED vars
  BY <1>4, StillAges, WorldLinks DEF vars
<1> QED BY <1>1, <1>2, <1>3, <1>4 DEF Next

(***************************************************************************)
(* Nothing is forgotten.  The bank announces the statuses it settles in,   *)
(* and comes to each of them once; so its present one is announced and not *)
(* yet answered, or the row already says it.  A note a request answers     *)
(* tells what the request has seen, if the bank is still there.            *)
(***************************************************************************)
Lasting == {"CONFIRMED", "REFUNDED", "VOIDED"}

\* The bank's record b has come to status s: it does not come to it again.
Came(s, b) == /\ s = "CONFIRMED" => b.money # "none"
              /\ s \in {"REFUNDED", "VOIDED"} => b.st = s
Sent == inbox \union journal
Reflects(r, b) ==
  /\ b.st = "CONFIRMED" /\ b.right =>
       r.st = "succeeded" \/ (r.st = "refund_requested" /\ r.key # NoKey)
  /\ b.st = "REFUNDED" => r.st = "refunded"
  /\ b.st = "VOIDED" => r.st \notin Open
Awaits(p) == <<p, bank[p].st>> \in inbox \ journal
Answers(t, b, sent) ==
  t.at = "asked" /\ t.op = "notify" =>
    /\ <<t.pay, t.note>> \in sent
    /\ b.st = t.note /\ b.st \in Lasting => t.seen = b.st /\ t.right = b.right

NoneRejected == \A p \in Payments : RejectedFits(bank[p])
SentHasCome == \A p \in Payments : \A s \in Announced : <<p, s>> \in Sent => Came(s, bank[p])
NotesAnswer == \A w \in Workers : worker[w].pay \in Payments =>
                 Answers(worker[w], bank[worker[w].pay], Sent)
Heard == \A p \in Payments :
           row[p].st = "absent" \/ Awaits(p) \/ Reflects(row[p], bank[p])

HeardInv == NoneRejected /\ SentHasCome /\ NotesAnswer /\ Heard

(***************************************************************************)
(* What the bank announces.                                                *)
(***************************************************************************)
Posts == /\ inbox \subseteq inbox'
         /\ \A q \in Payments : \A s \in Announced :
              <<q, s>> \in inbox' => <<q, s>> \in inbox \/ s = bank'[q].st
         /\ \A q \in Payments : bank'[q].st # bank[q].st /\ bank'[q].st \in Lasting =>
              <<q, bank'[q].st>> \in inbox'

LEMMA MovesPost ==
  ASSUME BankTypeOK, NEW p \in Payments, NEW b, Moves(p, b)
  PROVE  Posts
<1>1. \A q \in Payments : bank'[q] = IF q = p THEN b ELSE bank[q]
  BY DEF Moves, BankTypeOK
<1>2. Lasting \subseteq Announced
  BY DEF Lasting, Announced, BankStatus
<1>3. CASE b.st # bank[p].st /\ b.st \in Announced
  BY <1>1, <1>2, <1>3 DEF Moves, Posts
<1>4. CASE ~(b.st # bank[p].st /\ b.st \in Announced)
  BY <1>1, <1>2, <1>4 DEF Moves, Posts
<1> QED BY <1>3, <1>4

LEMMA StillPosts ==
  ASSUME UNCHANGED <<bank, inbox>>
  PROVE  Posts
  BY DEF Posts

LEMMA BankNextPosts ==
  ASSUME BankTypeOK, NEW p \in Payments, BankNext(p) \/ PayerPays(p)
  PROVE  Posts
<1>1. \E b : Moves(p, b)
  BY DEF BankNext, PayerPays, PayerFails, Confirms, LinkExpires, RefundCompletes,
         RefundIsRejected, CabinetRefund, CabinetPartialRefund
<1> QED BY <1>1, MovesPost

LEMMA CallsPost ==
  ASSUME BankTypeOK, NEW p \in Payments
  PROVE  /\ InitAccepted(p) => Posts
         /\ CancelStarts(p) => Posts
         /\ CancelRefused(p) => Posts
         /\ \A k \in Keys : RefundAccepted(p, k) => Posts
<1>1. InitAccepted(p) => Posts
  BY MovesPost DEF InitAccepted
<1>2. CancelStarts(p) => Posts
  BY MovesPost, StillPosts DEF CancelStarts, CancelVoids, CancelReverses, CancelReturnsMoney
<1>3. ASSUME CancelRefused(p) PROVE Posts
  <2>1. \A q \in Payments : bank'[q].st = bank[q].st
    BY <1>3 DEF CancelRefused, BankTypeOK, BankRecord
  <2> QED BY <1>3, <2>1 DEF CancelRefused, Posts
<1>4. \A k \in Keys : RefundAccepted(p, k) => Posts
  BY MovesPost, StillPosts DEF RefundAccepted
<1> QED BY <1>1, <1>2, <1>3, <1>4

(***************************************************************************)
(* What stays true of the bank and of the notes.                           *)
(***************************************************************************)
LEMMA CameStays ==
  ASSUME NEW s, NEW b, NEW c, Came(s, b), Older(b, c)
  PROVE  Came(s, c)
  BY DEF Came, Older

\* A status the bank newly comes to was not announced before.
LEMMA NewlyCome ==
  ASSUME NEW b, NEW c, Older(b, c), c.st # b.st, c.st \in Lasting
  PROVE  ~Came(c.st, b)
  BY DEF Came, Older, Lasting

LEMMA AnswersStay ==
  ASSUME NEW t, NEW b, NEW c, NEW sent, NEW more, sent \subseteq more, Older(b, c),
         Answers(t, b, sent), <<t.pay, t.note>> \in sent => Came(t.note, b)
  PROVE  Answers(t, c, more)
  BY NewlyCome DEF Answers, Older

LEMMA NotesStep ==
  ASSUME TypeInv, SentHasCome, NotesAnswer, Ages, Sent \subseteq Sent',
         \A v \in Workers : worker'[v].pay \in Payments =>
           \/ worker'[v] = worker[v]
           \/ Answers(worker'[v], bank'[worker'[v].pay], Sent')
  PROVE  NotesAnswer'
<1> SUFFICES ASSUME NEW v \in Workers, worker'[v].pay \in Payments
             PROVE  Answers(worker'[v], bank'[worker'[v].pay], Sent')
  BY DEF NotesAnswer
<1>1. CASE worker'[v] = worker[v]
  <2> DEFINE t == worker[v]
  <2>1. Answers(t, bank[t.pay], Sent) /\ Older(bank[t.pay], bank'[t.pay])
    BY <1>1 DEF NotesAnswer, Ages
  <2>2. t.op = "notify" => t.note \in Announced
    BY DEF TypeInv, RequestOK
  <2>3. CASE t.op = "notify"
    <3>1. <<t.pay, t.note>> \in Sent => Came(t.note, bank[t.pay])
      BY <1>1, <2>2, <2>3 DEF SentHasCome
    <3> QED BY <1>1, <2>1, <3>1, AnswersStay
  <2>4. CASE t.op # "notify"
    BY <1>1, <2>4 DEF Answers
  <2> QED BY <2>3, <2>4
<1> QED BY <1>1

(***************************************************************************)
(* What stays true of the rows.  A counted payment the bank confirms is    *)
(* not on its way back but by an order of ours.                            *)
(***************************************************************************)
LEMMA CountedReflects ==
  ASSUME NEW r, NEW b, b.st = "CONFIRMED", MoneyFits(b), RejectedFits(b),
         Backs(b, r.st), Vouched(r, b), r.st \in Counted
  PROVE  Reflects(r, b)
  BY DEF MoneyFits, RejectedFits, Backs, Vouched, Keyless, WasReturned, Reflects, Counted

Onward(r, s) == /\ r.st \in Counted => s.st \in Counted
                /\ r.st = "refunded" => s = r
                /\ s.st \in Open => r.st \in Open

LEMMA ReflectsStays ==
  ASSUME NEW r, NEW s, NEW b, NEW c, Reflects(r, b), Older(b, c), c.st = b.st, Onward(r, s),
         MoneyFits(c), RejectedFits(c), Backs(c, s.st), Vouched(s, c)
  PROVE  Reflects(s, c)
<1>1. c.right = b.right
  BY DEF Older
<1>2. CASE c.st = "CONFIRMED"
  <2>1. c.right => s.st \in Counted
    BY <1>1, <1>2 DEF Reflects, Onward, Counted
  <2> QED BY <1>2, <2>1, CountedReflects DEF Reflects
<1>3. CASE c.st # "CONFIRMED"
  BY <1>3 DEF Reflects, Onward
<1> QED BY <1>2, <1>3

\* What the other invariants give of a step.
Goes == /\ TypeInv /\ MoneyFitsStatus' /\ BooksFollowBank' /\ RowsOff'
          /\ AllForward /\ Renews

LEMMA RowsGoOn ==
  ASSUME Goes, NoneRejected, NEW p \in Payments
  PROVE  /\ row[p].st # "absent" => Onward(row[p], row'[p])
         /\ MoneyFits(bank'[p]) /\ RejectedFits(bank'[p])
         /\ Backs(bank'[p], row'[p].st) /\ Vouched(row'[p], bank'[p])
         /\ row[p].st = "absent" /\ row'[p].st # "absent" => Reflects(row'[p], bank'[p])
<1>1. row[p].st # "absent" => Onward(row[p], row'[p])
  BY DEF Goes, AllForward, Forward, Renews, Onward
<1>2. MoneyFits(bank'[p]) /\ RejectedFits(bank'[p])
  BY DEF Goes, MoneyFitsStatus, NoneRejected, Renews, Ages, Older
<1>3. Backs(bank'[p], row'[p].st) /\ Vouched(row'[p], bank'[p])
  BY DEF Goes, BooksFollowBank, Backs, RowsOff
<1>4. row[p].st = "absent" /\ row'[p].st # "absent" => Reflects(row'[p], bank'[p])
  BY DEF Goes, Renews, Reflects
<1> QED BY <1>1, <1>2, <1>3, <1>4

LEMMA HeardStays ==
  ASSUME Goes, HeardInv, NEW p \in Payments, bank'[p].st = bank[p].st,
         Awaits(p) => Awaits(p)' \/ Reflects(row'[p], bank'[p])
  PROVE  row'[p].st = "absent" \/ Awaits(p)' \/ Reflects(row'[p], bank'[p])
<1>1. row[p].st = "absent" \/ Awaits(p) \/ Reflects(row[p], bank[p])
  BY DEF HeardInv, Heard
<1>2. NoneRejected /\ Older(bank[p], bank'[p])
  BY DEF HeardInv, Goes, Renews, Ages
<1>3. CASE row[p].st = "absent"
  BY <1>2, <1>3, RowsGoOn
<1>4. CASE row[p].st # "absent" /\ Reflects(row[p], bank[p])
  BY <1>2, <1>4, RowsGoOn, ReflectsStays
<1> QED BY <1>1, <1>3, <1>4

(***************************************************************************)
(* A step that answers no notification.                                    *)
(***************************************************************************)
LEMMA HeardStep ==
  ASSUME Goes, HeardInv, Posts, UNCHANGED journal,
         \A v \in Workers : worker'[v].pay \in Payments =>
           \/ worker'[v] = worker[v]
           \/ Answers(worker'[v], bank'[worker'[v].pay], Sent')
  PROVE  HeardInv'
<1> Ages
  BY DEF Goes, Renews
<1> USE DEF Goes
<1>1. NoneRejected'
  BY RowsGoOn DEF NoneRejected, HeardInv
<1>2. SentHasCome'
  <2> SUFFICES ASSUME NEW p \in Payments, NEW s \in Announced, <<p, s>> \in Sent'
               PROVE  Came(s, bank'[p])
    BY DEF SentHasCome
  <2>1. CASE <<p, s>> \in Sent
    BY <2>1, CameStays DEF HeardInv, SentHasCome, Ages
  <2>2. CASE s = bank'[p].st
    BY <2>2 DEF Came, MoneyFitsStatus, MoneyFits
  <2> QED BY <2>1, <2>2 DEF Posts, Sent
<1>3. NotesAnswer'
  BY NotesStep DEF HeardInv, Posts, Sent
<1>4. Heard'
  <2> SUFFICES ASSUME NEW p \in Payments
               PROVE  row'[p].st = "absent" \/ Awaits(p)' \/ Reflects(row'[p], bank'[p])
    BY DEF Heard
  <2>1. CASE bank'[p].st = bank[p].st
    <3>1. Awaits(p) => Awaits(p)'
      BY <2>1 DEF Awaits, Posts
    <3> QED BY <2>1, <3>1, HeardStays
  <2>2. CASE bank'[p].st # bank[p].st /\ bank'[p].st \in Lasting
    <3>1. bank'[p].st \in Announced
      BY <2>2 DEF Lasting, Announced, BankStatus
    <3>2. ~Came(bank'[p].st, bank[p])
      BY <2>2, NewlyCome DEF Ages
    <3>3. <<p, bank'[p].st>> \notin journal
      BY <3>1, <3>2 DEF HeardInv, SentHasCome, Sent
    <3> QED BY <2>2, <3>3 DEF Posts, Awaits
  <2>3. CASE bank'[p].st \notin Lasting
    BY <2>3 DEF Reflects, Lasting
  <2> QED BY <2>1, <2>2, <2>3
<1> QED BY <1>1, <1>2, <1>3, <1>4 DEF HeardInv

\* The request of w does not turn to answering a notification, and turns to a
\* refund only of a payment the cabinet has returned no part of.
Whole(t, u) == t.at \in Returns =>
                 \/ t.draft.prov # "PARTIAL_REFUNDED"
                 \/ u.at \in Returns /\ t.draft = u.draft
Unnoted(w) == \E t : /\ Becomes(w, t) /\ Whole(t, worker[w])
                     /\ ~(t.at = "asked" /\ t.op = "notify")

LEMMA UnnotedStep ==
  ASSUME Goes, HeardInv, NEW w \in Workers, Unnoted(w), Posts, UNCHANGED journal
  PROVE  HeardInv'
<1>1. PICK t : Becomes(w, t) /\ ~(t.at = "asked" /\ t.op = "notify")
  BY DEF Unnoted
<1>2. \A v \in Workers : worker'[v] = IF v = w THEN t ELSE worker[v]
  BY <1>1 DEF Becomes, Goes, TypeInv, TypeOK
<1>3. \A v \in Workers : \/ worker'[v] = worker[v]
                         \/ Answers(worker'[v], bank'[worker'[v].pay], Sent')
  BY <1>1, <1>2 DEF Answers
<1> QED BY <1>3, HeardStep

LEMMA EndsUnnoted ==
  ASSUME NEW w \in Workers, Ends(w)
  PROVE  Unnoted(w)
  BY DEF Ends, Idle, Unnoted, Whole, Returns

LEMMA ReadyUnnoted ==
  ASSUME NEW w \in Workers, NEW p, NEW r, Becomes(w, ReadyToInsert(p, r))
  PROVE  Unnoted(w)
<1>1. ReadyToInsert(p, r).at = "insert"
  BY DEF ReadyToInsert, Idle
<1> QED BY <1>1 DEF Unnoted, Whole, Returns

LEMMA StartsPost ==
  ASSUME TypeInv, NEW w \in Workers
  PROVE  /\ InitiateFresh(w) => Unnoted(w) /\ Posts /\ UNCHANGED journal
         /\ \A p \in Payments :
              \/ InitiateOverDeadLink(w, p) \/ InsertPayment(w, p) \/ CancelLink(w, p)
              \/ RetireLink(w, p) \/ StartRefund(w, p) \/ StartPoll(w, p)
              => Unnoted(w) /\ Posts /\ UNCHANGED journal
<1>1. ASSUME InitiateFresh(w)
      PROVE  Unnoted(w) /\ Posts /\ UNCHANGED journal
  BY <1>1, ReadyUnnoted, StillPosts DEF InitiateFresh, OnlyRuns
<1>2. ASSUME NEW p \in Payments, NEW op \in Closing, Asks(w, op, p, "-")
      PROVE  Unnoted(w) /\ Posts /\ UNCHANGED journal
  <2> DEFINE t == [Idle EXCEPT !.at = "asked", !.op = op, !.pay = p,
                               !.draft = row[p], !.seen = bank[p].st,
                               !.right = bank[p].right, !.note = "-"]
  <2>1. t.op = op /\ t.at = "asked"
    BY DEF Idle
  <2>2. Becomes(w, t) /\ OnlyRuns /\ UNCHANGED <<bank, inbox>>
    BY <1>2 DEF Asks
  <2> HIDE DEF t
  <2> QED BY <2>1, <2>2, StillPosts DEF Unnoted, OnlyRuns, Whole, Returns, Closing
<1>3. ASSUME NEW p \in Payments, InsertPayment(w, p)
      PROVE  Unnoted(w) /\ Posts /\ UNCHANGED journal
  <2> DEFINE t == [worker[w] EXCEPT !.at = "init", !.new = p]
  <2>1. t.at = "init"
    BY DEF TypeInv, TypeOK, Request
  <2>2. Becomes(w, t) /\ OnlyRuns /\ UNCHANGED <<bank, inbox>>
    BY <1>3 DEF InsertPayment
  <2> HIDE DEF t
  <2> QED BY <2>1, <2>2, StillPosts DEF Unnoted, OnlyRuns, Whole, Returns
<1>4. ASSUME NEW p \in Payments, StartRefund(w, p)
      PROVE  Unnoted(w) /\ Posts /\ UNCHANGED journal
  <2> DEFINE t == [Idle EXCEPT !.at = "refund", !.op = "refund", !.pay = p,
                               !.draft = AttemptOf(row[p])]
  <2>1. t.at = "refund" /\ t.draft = AttemptOf(row[p])
    BY DEF Idle
  <2>2. Becomes(w, t) /\ UNCHANGED <<bank, inbox, journal>>
    BY <1>4 DEF StartRefund, OnlyRuns
  <2>3. AttemptOf(row[p]).prov = row[p].prov /\ row[p].prov # "PARTIAL_REFUNDED"
    BY <1>4 DEF StartRefund, AttemptOf, NextAttempt, TypeInv, TypeOK, Row
  <2> HIDE DEF t
  <2> QED BY <2>1, <2>2, <2>3, StillPosts DEF Unnoted, Whole
<1>5. ASSUME NEW p \in Payments, StartPoll(w, p)
      PROVE  Unnoted(w) /\ Posts /\ UNCHANGED journal
  <2> DEFINE t == [Idle EXCEPT !.at = "polled", !.op = "poll", !.pay = p, !.draft = row[p]]
  <2>1. t.at = "polled"
    BY DEF Idle
  <2>2. Becomes(w, t) /\ UNCHANGED <<bank, inbox, journal>>
    BY <1>5 DEF StartPoll, OnlyRuns
  <2> HIDE DEF t
  <2> QED BY <2>1, <2>2, StillPosts DEF Unnoted, Whole, Returns
<1> QED BY <1>1, <1>2, <1>3, <1>4, <1>5 DEF InitiateOverDeadLink, CancelLink, RetireLink, Closing

LEMMA WorksPost ==
  ASSUME TypeInv, NEW w \in Workers
  PROVE  /\ AskedAndLeft(w) \/ AskedAndGoesOn(w) \/ CloseAccepted(w) \/ CloseRefused(w)
            \/ CloseUnclear(w) \/ CloseAsksAgain(w)
            => Unnoted(w) /\ Posts /\ UNCHANGED journal
         /\ InsertAbandoned(w) \/ InitAnswered(w) \/ InitUnanswered(w) \/ RefundAnswered(w)
            \/ RefundUnanswered(w) \/ RefundIsRefused(w) \/ RefundAsksState(w)
            => Unnoted(w) /\ Posts /\ UNCHANGED journal
         /\ PollAnswered(w) \/ PollApplied(w) \/ PollDiscarded(w) \/ Dies(w)
            => Unnoted(w) /\ Posts /\ UNCHANGED journal
<1> DEFINE t == worker[w]
<1>1. /\ t \in Request
      /\ t.at \in {"close", "refund"} => t.pay \in Payments
      /\ t.at = "refund" => t.draft.key \in Keys
      /\ t.at = "init" => t.new \in Payments
      /\ BankTypeOK
  BY DEF TypeInv, TypeOK, RequestOK
<1>2. [t EXCEPT !.at = "refundask"].draft = t.draft
  BY <1>1 DEF Request
<1>3. ASSUME AskedAndLeft(w) \/ CloseAsksAgain(w) \/ InsertAbandoned(w)
             \/ RefundAsksState(w) \/ PollApplied(w) \/ PollDiscarded(w)
      PROVE  Unnoted(w) /\ Posts /\ UNCHANGED journal
  <2>1. Ends(w) /\ UNCHANGED <<bank, inbox, journal>>
    BY <1>3 DEF AskedAndLeft, CloseAsksAgain, InsertAbandoned, RefundAsksState,
                PollApplied, PollDiscarded, OnlyCommits, OnlyRuns
  <2> QED BY <2>1, EndsUnnoted, StillPosts
<1>4. ASSUME AskedAndGoesOn(w)
      PROVE  Unnoted(w) /\ Posts /\ UNCHANGED journal
  <2>1. UNCHANGED <<bank, inbox, journal>>
    BY <1>4 DEF AskedAndGoesOn, OnlyRuns
  <2>2. CASE Becomes(w, [t EXCEPT !.at = "close", !.draft = Applied(w)])
    <3>1. [t EXCEPT !.at = "close", !.draft = Applied(w)].at = "close"
      BY <1>1 DEF Request
    <3> QED BY <2>1, <2>2, <3>1, StillPosts DEF Unnoted, Whole, Returns
  <2>3. CASE Becomes(w, ReadyToInsert(t.pay, Applied(w)))
    BY <2>1, <2>3, ReadyUnnoted, StillPosts
  <2> QED BY <1>4, <2>2, <2>3 DEF AskedAndGoesOn
<1>5. ASSUME CloseAccepted(w) \/ CloseRefused(w)
      PROVE  Unnoted(w) /\ Posts /\ UNCHANGED journal
  <2>1. PICK r : Closed(w, r)
    BY <1>5 DEF CloseAccepted, CloseRefused
  <2>2. Posts
    BY <1>1, <1>5, CallsPost DEF CloseAccepted, CloseRefused
  <2> QED BY <2>1, <2>2, EndsUnnoted, ReadyUnnoted DEF Closed, OnlyRuns
<1>6. ASSUME CloseUnclear(w)
      PROVE  Unnoted(w) /\ Posts /\ UNCHANGED journal
  <2>1. [t EXCEPT !.at = "reask", !.seen = "none"].at = "reask"
    BY <1>1 DEF Request
  <2>2. Posts
    BY <1>1, <1>6, CallsPost, StillPosts DEF CloseUnclear
  <2> QED BY <1>6, <2>1, <2>2 DEF CloseUnclear, Unnoted, OnlyRuns, Whole, Returns
<1>7. ASSUME InitAnswered(w) \/ InitUnanswered(w) \/ RefundAnswered(w) \/ RefundUnanswered(w)
      PROVE  Unnoted(w) /\ Posts /\ UNCHANGED journal
  <2>1. Ends(w) /\ UNCHANGED journal
    BY <1>7 DEF InitAnswered, InitUnanswered, RefundAnswered, RefundUnanswered
  <2>2. Posts
    BY <1>1, <1>7, CallsPost, StillPosts
       DEF InitAnswered, InitUnanswered, RefundAnswered, RefundUnanswered
  <2> QED BY <2>1, <2>2, EndsUnnoted
<1>8. ASSUME RefundIsRefused(w)
      PROVE  Unnoted(w) /\ Posts /\ UNCHANGED journal
  <2>1. [t EXCEPT !.at = "refundask"].at = "refundask" /\ t.at = "refund"
    BY <1>1, <1>8 DEF Request, RefundIsRefused
  <2> QED BY <1>2, <1>8, <2>1, StillPosts
          DEF RefundIsRefused, Unnoted, OnlyRuns, Whole, Returns
<1>9. ASSUME PollAnswered(w)
      PROVE  Unnoted(w) /\ Posts /\ UNCHANGED journal
  <2>1. [t EXCEPT !.at = "pollseen", !.seen = bank[t.pay].st,
                  !.right = bank[t.pay].right].at = "pollseen"
    BY <1>1 DEF Request
  <2> QED BY <1>9, <2>1, StillPosts DEF PollAnswered, Unnoted, OnlyRuns, Whole, Returns
<1>10. ASSUME Dies(w)
       PROVE  Unnoted(w) /\ Posts /\ UNCHANGED journal
  BY <1>1, <1>10, CallsPost, StillPosts, EndsUnnoted DEF Dies, CallMayReachBank, OnlyRuns
<1> QED BY <1>3, <1>4, <1>5, <1>6, <1>7, <1>8, <1>9, <1>10

(***************************************************************************)
(* What is announced has come, and with it the end of the link.            *)
(***************************************************************************)
LEMMA NotesStay ==
  ASSUME NotesCome, Ages,
         \A q \in Payments : \A s \in Announced :
           <<q, s>> \in inbox' => <<q, s>> \in inbox \/ s = bank'[q].st
  PROVE  NotesCome'
<1>1. \A s \in Announced : s \notin Live
  BY DEF Announced, BankStatus, Live
<1> QED BY <1>1 DEF NotesCome, Ages, Older

LEMMA NextNotes ==
  ASSUME TypeInv, NotesCome, Ages, [Next]_vars
  PROVE  NotesCome'
<1>1. CASE Posts
  BY <1>1, NotesStay DEF Posts
<1>2. CASE inbox' \subseteq inbox
  BY <1>2, NotesStay
<1>3. ASSUME NEW w \in Workers, Works(w)
      PROVE  Posts \/ inbox' \subseteq inbox
  <2>1. ASSUME NEW p \in Payments, NEW s \in Announced, Notified(w, p, s)
        PROVE  UNCHANGED inbox
    BY <2>1 DEF Notified, Asks
  <2>2. NotificationApplied(w) => inbox' \subseteq inbox
    BY DEF NotificationApplied
  <2>3. ASSUME NEW p \in Payments,
               \/ InitiateOverDeadLink(w, p) \/ InsertPayment(w, p) \/ CancelLink(w, p)
               \/ RetireLink(w, p) \/ StartRefund(w, p) \/ StartPoll(w, p)
        PROVE  Posts
    BY <2>3, StartsPost
  <2> QED BY <1>3, <2>1, <2>2, <2>3, StartsPost, WorksPost DEF Works
<1>4. ASSUME NEW p \in Payments, World(p) PROVE Posts
  BY <1>4, BankNextPosts, Parts DEF World, BuyerPays
<1>5. ASSUME NEW p \in Payments, NEW s \in Announced, NotificationIgnored(p, s)
      PROVE  inbox' \subseteq inbox
  BY <1>5 DEF NotificationIgnored
<1>6. UNCHANGED vars => inbox' \subseteq inbox
  BY DEF vars
<1> QED BY <1>1, <1>2, <1>3, <1>4, <1>5, <1>6 DEF Next

LEMMA FirstLinks ==
  Init => LinkInv
<1> SUFFICES ASSUME Init PROVE LinkInv
  OBVIOUS
<1>1. RowsOff /\ OneOpen
  BY DEF Init, Absent, RowsOff, Vouched, Off, Keyless, WrittenOff, OneOpen, Active, Open
<1>2. RequestsAsked /\ OnlyOffReplaced
  BY NoPaymentAssumption DEF Init, Idle, RequestsAsked, OnlyOffReplaced, Replaces, Replacing
<1> QED BY <1>1, <1>2 DEF LinkInv

(***************************************************************************)
(* The invariant about open rows, dead links and requests under way.       *)
(***************************************************************************)
THEOREM LinksInductive == Spec => [](LinkInv /\ NotesCome)
<1>1. Init => LinkInv /\ NotesCome
  BY FirstLinks DEF Init, BankInit, NotesCome
<1>2. /\ TypeInv /\ BooksInv /\ PaidInv /\ OrdersInv /\ LinkInv /\ NotesCome /\ [Next]_vars
      => (LinkInv /\ NotesCome)'
  BY NextLinks, NextNotes DEF Renews
<1> QED BY <1>1, <1>2, TypeInductive, BooksInductive, PaidInductive, OrdersInductive, PTL
        DEF Spec

LEMMA LinkHolds ==
  LinkInv => OneLinkToPay
  BY DEF LinkInv, RowsOff, OneOpen, Active, OneLinkToPay, HandedOut, Payable, Vouched, Off,
         Dead, Live

(***************************************************************************)
(* The buyer never has two links to pay for one application, unless the    *)
(* bank has refused to cancel one: for any number of payments and of       *)
(* requests at once (_initiate_tbank, _close_unpaid_link).                 *)
(***************************************************************************)
THEOREM OneLinkHolds == Spec => []OneLinkToPay
  BY LinkHolds, LinksInductive, PTL

(***************************************************************************)
(* Notifications.                                                          *)
(***************************************************************************)
LEMMA NotifiedHeard ==
  ASSUME Goes, HeardInv, NEW w \in Workers, NEW p \in Payments, NEW s \in Announced,
         Notified(w, p, s)
  PROVE  HeardInv'
<1> DEFINE t == [Idle EXCEPT !.at = "asked", !.op = "notify", !.pay = p,
                             !.draft = row[p], !.seen = bank[p].st,
                             !.right = bank[p].right, !.note = s]
<1>1. t.pay = p /\ t.note = s /\ t.seen = bank[p].st /\ t.right = bank[p].right
  BY DEF Idle
<1>2. Becomes(w, t) /\ UNCHANGED <<bank, inbox, journal>> /\ <<p, s>> \in inbox
  BY DEF Notified, Asks, OnlyRuns
<1> HIDE DEF t
<1>3. Answers(t, bank'[t.pay], Sent')
  BY <1>1, <1>2 DEF Answers, Sent
<1>4. \A v \in Workers : worker'[v] = worker[v] \/ worker'[v] = t
  BY <1>2 DEF Becomes, Goes, TypeInv, TypeOK
<1> QED BY <1>2, <1>3, <1>4, StillPosts, HeardStep

\* The answered note settles the row, if the bank is still there.
LEMMA AppliedReflects ==
  ASSUME Goes, HeardInv, NEW w \in Workers, NotificationApplied(w),
         UNCHANGED bank, bank[worker[w].pay].st = worker[w].note
  PROVE  Reflects(row'[worker[w].pay], bank'[worker[w].pay])
<1> DEFINE t == worker[w]
           p == worker[w].pay
           b == bank[worker[w].pay]
           r == row[worker[w].pay]
<1>1. /\ p \in Payments /\ r \in Row /\ Applied(w) \in Row /\ t.at = "asked"
      /\ t.op = "notify"
  BY WorkerType DEF NotificationApplied, Goes, RequestFits
<1>2. b.st \in Lasting => t.seen = b.st /\ t.right = b.right
  BY <1>1 DEF HeardInv, NotesAnswer, Answers
<1>3. row'[p].st = Applied(w).st /\ row'[p].key = Applied(w).key
  <2>1. row'[p] = [Applied(w) EXCEPT !.bid = TRUE]
    BY <1>1 DEF NotificationApplied, Commits, Goes, TypeInv, TypeOK
  <2> QED BY <1>1, <2>1 DEF Row
<1>4. Applied(w) = After(r, t.seen, t.right)
  BY DEF Applied
<1>5. CASE b.st = "CONFIRMED"
  <2>1. b.right => Applied(w).st \in Counted
    BY <1>1, <1>2, <1>4, <1>5
       DEF After, MayCount, PaidAs, Counted, FinalUnpaid, Row, Lasting
  <2>2. /\ MoneyFits(bank'[p]) /\ RejectedFits(bank'[p])
        /\ Backs(bank'[p], row'[p].st) /\ Vouched(row'[p], bank'[p])
    BY <1>1, RowsGoOn DEF HeardInv
  <2> QED BY <1>3, <1>5, <2>1, <2>2, CountedReflects DEF Reflects
<1>6. CASE b.st = "REFUNDED"
  <2>1. Applied(w).st = "refunded"
    BY <1>1, <1>2, <1>4, <1>6 DEF After, Returning, FinalUnpaid, Row, Lasting
  <2> QED BY <1>3, <1>6, <2>1 DEF Reflects
<1>7. CASE b.st = "VOIDED"
  <2>1. Applied(w).st \notin Open
    BY <1>1, <1>2, <1>4, <1>7 DEF After, UnpaidAs, FinalUnpaid, Row, Lasting, Open
  <2> QED BY <1>3, <1>7, <2>1 DEF Reflects
<1> QED BY <1>5, <1>6, <1>7 DEF Reflects

LEMMA AnswersHeard ==
  ASSUME Goes, HeardInv, UNCHANGED bank, NEW p \in Payments, NEW s \in Announced,
         <<p, s>> \in Sent,
         journal' = journal \union {<<p, s>>}, inbox' = inbox \ {<<p, s>>},
         \A v \in Workers : worker'[v] = worker[v] \/ worker'[v].pay \notin Payments,
         bank[p].st = s => <<p, s>> \in journal \/ row'[p].st = "absent"
                           \/ Reflects(row'[p], bank'[p])
  PROVE  HeardInv'
<1> Ages
  BY DEF Goes, Renews
<1> USE DEF Goes
<1>1. NoneRejected'
  BY RowsGoOn DEF NoneRejected, HeardInv
<1>2. Sent' = Sent
  BY DEF Sent
<1>3. SentHasCome'
  BY <1>2 DEF HeardInv, SentHasCome
<1>4. NotesAnswer'
  BY <1>2, NotesStep DEF HeardInv
<1>5. Heard'
  <2> SUFFICES ASSUME NEW q \in Payments
               PROVE  row'[q].st = "absent" \/ Awaits(q)' \/ Reflects(row'[q], bank'[q])
    BY DEF Heard
  <2>1. CASE q = p /\ bank[p].st = s /\ (row'[p].st = "absent" \/ Reflects(row'[p], bank'[p]))
    BY <2>1
  <2>2. CASE ~(q = p /\ bank[p].st = s) \/ <<p, s>> \in journal
    <3>1. Awaits(q) => Awaits(q)'
      BY <2>2 DEF Awaits
    <3> QED BY <3>1, HeardStays
  <2> QED BY <2>1, <2>2
<1> QED BY <1>1, <1>3, <1>4, <1>5 DEF HeardInv

LEMMA NotificationsHeard ==
  ASSUME Goes, HeardInv
  PROVE  /\ \A w \in Workers : NotificationApplied(w) => HeardInv'
         /\ \A p \in Payments, s \in Announced : NotificationIgnored(p, s) => HeardInv'
<1>1. ASSUME NEW w \in Workers, NotificationApplied(w) PROVE HeardInv'
  <2> DEFINE t == worker[w]
  <2>1. t.pay \in Payments /\ t.note \in Announced /\ t.at = "asked" /\ t.op = "notify"
    BY <1>1, WorkerType DEF NotificationApplied, Goes, RequestFits
  <2>2. /\ journal' = journal \union {<<t.pay, t.note>>}
        /\ inbox' = inbox \ {<<t.pay, t.note>>} /\ UNCHANGED bank
    BY <1>1 DEF NotificationApplied
  <2>3. <<t.pay, t.note>> \in Sent
    BY <2>1 DEF HeardInv, NotesAnswer, Answers
  <2>4. \A v \in Workers : worker'[v] = worker[v] \/ worker'[v].pay \notin Payments
    BY <1>1, NoPaymentAssumption
       DEF NotificationApplied, Ends, Becomes, Idle, Goes, TypeInv, TypeOK
  <2>5. bank[t.pay].st = t.note => Reflects(row'[t.pay], bank'[t.pay])
    BY <1>1, <2>2, AppliedReflects
  <2> QED BY <2>1, <2>2, <2>3, <2>4, <2>5, AnswersHeard
<1>2. ASSUME NEW p \in Payments, NEW s \in Announced, NotificationIgnored(p, s)
      PROVE  HeardInv'
  BY <1>2, AnswersHeard DEF NotificationIgnored, Sent
<1> QED BY <1>1, <1>2

LEMMA NextHeard ==
  ASSUME Goes, HeardInv, [Next]_vars
  PROVE  HeardInv'
<1> TypeInv
  BY DEF Goes
<1>1. ASSUME NEW w \in Workers, Works(w) PROVE HeardInv'
  <2>1. CASE \E p \in Payments : \E s \in Announced : Notified(w, p, s)
    BY <2>1, NotifiedHeard
  <2>2. CASE NotificationApplied(w)
    BY <2>2, NotificationsHeard
  <2>3. CASE Unnoted(w) /\ Posts /\ UNCHANGED journal
    BY <2>3, UnnotedStep
  <2>4. ASSUME NEW p \in Payments,
               \/ InitiateOverDeadLink(w, p) \/ InsertPayment(w, p) \/ CancelLink(w, p)
               \/ RetireLink(w, p) \/ StartRefund(w, p) \/ StartPoll(w, p)
        PROVE  Unnoted(w) /\ Posts /\ UNCHANGED journal
    BY <2>4, StartsPost
  <2> QED BY <1>1, <2>1, <2>2, <2>3, <2>4, StartsPost, WorksPost DEF Works
<1>2. ASSUME NEW p \in Payments, World(p) PROVE HeardInv'
  <2>1. Posts /\ UNCHANGED <<journal, worker>>
    BY <1>2, BankNextPosts, Parts DEF World, BuyerPays
  <2> QED BY <2>1, HeardStep
<1>3. ASSUME NEW p \in Payments, NEW s \in Announced, NotificationIgnored(p, s)
      PROVE  HeardInv'
  BY <1>3, NotificationsHeard
<1>4. CASE UNCHANGED vars
  BY <1>4, StillPosts, HeardStep DEF vars
<1> QED BY <1>1, <1>2, <1>3, <1>4 DEF Next

(***************************************************************************)
(* The invariant about notifications, answered and not.                    *)
(***************************************************************************)
THEOREM HeardInductive == Spec => []HeardInv
<1>1. Init => HeardInv
  <2> SUFFICES ASSUME Init PROVE HeardInv
    OBVIOUS
  <2>1. NoneRejected /\ Heard
    BY DEF Init, BankInit, Unknown, Absent, NoneRejected, RejectedFits, Heard
  <2>2. SentHasCome /\ NotesAnswer
    BY NoPaymentAssumption DEF Init, BankInit, Idle, Sent, SentHasCome, NotesAnswer
  <2> QED BY <2>1, <2>2 DEF HeardInv
<1> DEFINE Others == /\ TypeInv /\ BooksInv /\ PaidInv /\ SeenInv /\ OrdersInv
                     /\ LinkInv /\ NotesCome
<1>2. Others /\ BooksInv' /\ HeardInv /\ [Next]_vars => HeardInv'
  <2> SUFFICES ASSUME Others, BooksInv', HeardInv, [Next]_vars PROVE HeardInv'
    OBVIOUS
  <2>1. AllForward /\ LinkInv' /\ Renews
    BY NextOrders, NextLinks
  <2>2. Goes
    BY <2>1 DEF Goes, BooksInv, LinkInv
  <2> QED BY <2>2, NextHeard
<1>3. Spec => []Others
  BY TypeInductive, BooksInductive, PaidInductive, SeenInductive, OrdersInductive,
     LinksInductive, PTL
<1> HIDE DEF Others
<1>4. Others => BooksInv
  BY DEF Others
<1> QED BY <1>1, <1>2, <1>3, <1>4, PTL DEF Spec

(***************************************************************************)
(* When the notifications about a payment are answered, the books say what *)
(* the bank has settled in: for any number of payments, of requests and of *)
(* deaths between a call and its commit (apply_bank_state, the             *)
(* notification handler).                                                  *)
(***************************************************************************)
THEOREM NothingForgotten == Spec => []NothingIsForgotten
<1>1. TypeInv /\ HeardInv => NothingIsForgotten
  <2> SUFFICES ASSUME TypeInv, HeardInv, NEW p \in Payments, Quiet(p)
               PROVE  Reflects(row[p], bank[p])
    BY DEF NothingIsForgotten, Reflects
  <2>1. ~Awaits(p)
    BY DEF TypeInv, TypeOK, BankTypeOK, Quiet, Awaits
  <2> QED BY <2>1 DEF HeardInv, Heard, Quiet
<1> QED BY <1>1, TypeInductive, HeardInductive, PTL

(***************************************************************************)
(* The settlement.  A step moves the money of at most one payment, and the *)
(* books of the same payment; the order is paid in the step that counts    *)
(* the payment.  The last needs two facts more: the admin is told of money *)
(* only when the application is PAID already or the terminal is DEMO, and  *)
(* no refund is asked of a payment a part of which was returned by hand,   *)
(* the only one that may be counted while the application waits.           *)
(***************************************************************************)
ToldFits == \A p \in flagged : paidBy # NoPayment \/ p \in DemoPayments
RefundsWhole == \A w \in Workers : worker[w].at \in Returns =>
                                     worker[w].draft.prov # "PARTIAL_REFUNDED"
TellInv == ToldFits /\ RefundsWhole

LEMMA CommitsFit ==
  ASSUME TellInv, NEW p \in Payments, NEW old, NEW r, Commits(p, old, r)
  PROVE  ToldFits'
<1>1. CASE OnPaid(p)
  BY <1>1, NoPaymentAssumption DEF OnPaid, AwaitingPayment, TellInv, ToldFits
<1>2. CASE UNCHANGED <<paidBy, flagged>>
  BY <1>2 DEF TellInv, ToldFits
<1> QED BY <1>1, <1>2 DEF Commits, Consequences

LEMMA StaysTold ==
  ASSUME TellInv, UNCHANGED <<paidBy, flagged>>
  PROVE  ToldFits'
  BY DEF TellInv, ToldFits

LEMMA WorksFit ==
  ASSUME TypeInv, TellInv, NEW w \in Workers, Works(w)
  PROVE  ToldFits'
<1> DEFINE p == worker[w].pay
<1>1. worker[w].at \notin {"idle", "insert", "init"} => p \in Payments
  BY DEF TypeInv, RequestOK
<1>2. ASSUME \/ InitiateFresh(w) \/ AskedAndGoesOn(w) \/ CloseUnclear(w)
             \/ InsertAbandoned(w) \/ InitAnswered(w) \/ InitUnanswered(w)
             \/ RefundIsRefused(w) \/ PollAnswered(w) \/ PollDiscarded(w) \/ Dies(w)
      PROVE  ToldFits'
  <2>1. UNCHANGED <<paidBy, flagged>>
    BY <1>2 DEF InitiateFresh, AskedAndGoesOn, CloseUnclear, InsertAbandoned, InitAnswered,
                InitUnanswered, RefundIsRefused, PollAnswered, PollDiscarded, Dies, OnlyRuns
  <2> QED BY <2>1, StaysTold
<1>3. ASSUME NEW q \in Payments,
             \/ InitiateOverDeadLink(w, q) \/ InsertPayment(w, q) \/ CancelLink(w, q)
             \/ RetireLink(w, q) \/ StartRefund(w, q) \/ StartPoll(w, q)
             \/ \E s \in Announced : Notified(w, q, s)
      PROVE  ToldFits'
  <2>1. UNCHANGED <<paidBy, flagged>>
    BY <1>3 DEF InitiateOverDeadLink, InsertPayment, CancelLink, RetireLink, StartRefund, StartPoll,
                Notified, Asks, OnlyRuns
  <2> QED BY <2>1, StaysTold
<1>4. ASSUME AskedAndLeft(w) \/ CloseAsksAgain(w) \/ RefundAnswered(w) \/ RefundUnanswered(w)
             \/ RefundAsksState(w) \/ NotificationApplied(w) \/ PollApplied(w)
      PROVE  ToldFits'
  <2>1. p \in Payments
    BY <1>1, <1>4 DEF AskedAndLeft, CloseAsksAgain, RefundAnswered, RefundUnanswered,
                      RefundAsksState, NotificationApplied, PollApplied
  <2>2. \E old, r : Commits(p, old, r)
    BY <1>4 DEF AskedAndLeft, CloseAsksAgain, RefundAnswered, RefundUnanswered,
                RefundAsksState, NotificationApplied, PollApplied
  <2> QED BY <2>1, <2>2, CommitsFit
<1>5. ASSUME CloseAccepted(w) \/ CloseRefused(w)
      PROVE  ToldFits'
  <2>1. PICK r : Closed(w, r)
    BY <1>5 DEF CloseAccepted, CloseRefused
  <2>2. p \in Payments
    BY <1>1, <1>5 DEF CloseAccepted, CloseRefused
  <2> QED BY <2>1, <2>2, CommitsFit, StaysTold DEF Closed, OnlyRuns
<1> QED BY <1>2, <1>3, <1>4, <1>5 DEF Works

LEMMA WorksWhole ==
  ASSUME TypeInv, TellInv, NEW w \in Workers, Works(w)
  PROVE  RefundsWhole'
<1> DEFINE Good(t) == Becomes(w, t) /\ Whole(t, worker[w])
<1>1. \E t : Good(t)
  <2>1. CASE NotificationApplied(w)
    BY <2>1 DEF NotificationApplied, Ends, Idle, Whole, Returns
  <2>2. ASSUME NEW p \in Payments, NEW s \in Announced, Notified(w, p, s)
        PROVE  \E t : Good(t)
    <3> DEFINE t == [Idle EXCEPT !.at = "asked", !.op = "notify", !.pay = p,
                                 !.draft = row[p], !.seen = bank[p].st,
                                 !.right = bank[p].right, !.note = s]
    <3>1. t.at = "asked"
      BY DEF Idle
    <3>2. Becomes(w, t)
      BY <2>2 DEF Notified, Asks
    <3> HIDE DEF t
    <3> QED BY <3>1, <3>2 DEF Whole, Returns
  <2>3. CASE Unnoted(w)
    BY <2>3 DEF Unnoted
  <2>4. ASSUME NEW p \in Payments,
               \/ InitiateOverDeadLink(w, p) \/ InsertPayment(w, p) \/ CancelLink(w, p)
               \/ RetireLink(w, p) \/ StartRefund(w, p) \/ StartPoll(w, p)
        PROVE  Unnoted(w)
    BY <2>4, StartsPost
  <2> HIDE DEF Good
  <2> QED BY <2>1, <2>2, <2>3, <2>4, StartsPost, WorksPost DEF Works
<1>2. PICK t : Good(t)
  BY <1>1
<1>3. \A v \in Workers : worker'[v] = IF v = w THEN t ELSE worker[v]
  BY <1>2 DEF Becomes, TypeInv, TypeOK
<1> QED BY <1>2, <1>3 DEF RefundsWhole, TellInv, Whole

LEMMA NextTells ==
  ASSUME TypeInv, TellInv, [Next]_vars
  PROVE  TellInv'
<1>1. CASE \E w \in Workers : Works(w)
  BY <1>1, WorksFit, WorksWhole DEF TellInv
<1>2. CASE UNCHANGED <<paidBy, flagged, worker>>
  BY <1>2 DEF TellInv, ToldFits, RefundsWhole
<1>3. ASSUME NEW p \in Payments, NEW s \in Announced,
             World(p) \/ NotificationIgnored(p, s)
      PROVE  UNCHANGED <<paidBy, flagged, worker>>
  BY <1>3 DEF World, NotificationIgnored
<1>4. UNCHANGED vars => UNCHANGED <<paidBy, flagged, worker>>
  BY DEF vars
<1>5. ASSUME NEW p \in Payments, World(p)
      PROVE  UNCHANGED <<paidBy, flagged, worker>>
  BY <1>5 DEF World
<1> QED BY <1>1, <1>2, <1>3, <1>4, <1>5 DEF Next

(***************************************************************************)
(* What a step does to the money of p.                                     *)
(***************************************************************************)
MoneyHeld(p) == \A q \in Payments : q # p => bank'[q].money = bank[q].money
Gone(m, n) == n = m \/ (m \in {"kept", "part"} /\ n = "back")
Comes(m, n) == (m = "none" /\ n = "kept") \/ (m = "kept" /\ n = "part")
MoneyGoes(p) == Gone(bank[p].money, bank'[p].money)
MoneyComes(p) == Comes(bank[p].money, bank'[p].money)

LEMMA MovesGo ==
  ASSUME BankTypeOK, NEW p \in Payments, NEW b, Moves(p, b)
  PROVE  /\ MoneyHeld(p)
         /\ Gone(bank[p].money, b.money) => MoneyGoes(p)
         /\ Comes(bank[p].money, b.money) => MoneyComes(p)
         /\ b.money = bank[p].money => \A q \in Payments : bank'[q].money = bank[q].money
  BY DEF BankTypeOK, Moves, MoneyHeld, MoneyGoes, MoneyComes

LEMMA MovesOrComes ==
  ASSUME BankTypeOK, NEW p \in Payments, NEW b, Moves(p, b),
         Gone(bank[p].money, b.money) \/ Comes(bank[p].money, b.money)
  PROVE  MoneyHeld(p) /\ (MoneyGoes(p) \/ MoneyComes(p))
  BY MovesGo

LEMMA StillHeld ==
  ASSUME NEW p \in Payments, UNCHANGED bank
  PROVE  MoneyHeld(p) /\ MoneyGoes(p)
  BY DEF MoneyHeld, MoneyGoes, Gone

LEMMA BankNextGoes ==
  ASSUME BankTypeOK, MoneyFitsStatus, NEW p \in Payments, BankNext(p) \/ PayerPays(p)
  PROVE  MoneyHeld(p) /\ (MoneyGoes(p) \/ MoneyComes(p))
<1> bank[p] \in BankRecord /\ MoneyFits(bank[p])
  BY DEF BankTypeOK, MoneyFitsStatus
<1> USE DEF BankRecord, Money, MoneyFits, Gone, Comes
<1>1. CASE PayerPays(p)
  BY <1>1, MovesOrComes DEF PayerPays
<1>2. CASE PayerFails(p)
  BY <1>2, MovesOrComes DEF PayerFails
<1>3. CASE Confirms(p)
  BY <1>3, MovesOrComes DEF Confirms
<1>4. CASE LinkExpires(p)
  BY <1>4, MovesOrComes DEF LinkExpires
<1>5. CASE RefundCompletes(p)
  BY <1>5, MovesOrComes DEF RefundCompletes
<1>6. CASE RefundIsRejected(p)
  BY <1>6, MovesOrComes DEF RefundIsRejected
<1>7. CASE CabinetRefund(p)
  BY <1>7, MovesOrComes DEF CabinetRefund, Refunding
<1>8. CASE CabinetPartialRefund(p)
  BY <1>8, MovesOrComes DEF CabinetPartialRefund
<1> QED BY <1>1, <1>2, <1>3, <1>4, <1>5, <1>6, <1>7, <1>8 DEF BankNext

LEMMA CallsGo ==
  ASSUME BankTypeOK, MoneyFitsStatus, NEW p \in Payments
  PROVE  /\ InitAccepted(p) => \A q \in Payments : bank'[q].money = bank[q].money
         /\ CancelStarts(p) => MoneyHeld(p) /\ MoneyGoes(p)
         /\ CancelRefused(p) => \A q \in Payments : bank'[q].money = bank[q].money
         /\ \A k \in Keys : RefundAccepted(p, k) => MoneyHeld(p) /\ MoneyGoes(p)
<1> bank[p] \in BankRecord /\ MoneyFits(bank[p])
  BY DEF BankTypeOK, MoneyFitsStatus
<1>1. InitAccepted(p) => \A q \in Payments : bank'[q].money = bank[q].money
  BY MovesGo DEF InitAccepted, BankRecord
<1>2. CancelVoids(p) => MoneyHeld(p) /\ MoneyGoes(p)
  BY MovesGo DEF CancelVoids, BankRecord, Gone
<1>3. CancelReturnsMoney(p) => MoneyHeld(p) /\ MoneyGoes(p)
  BY MovesGo DEF CancelReturnsMoney, Refundable, KeepsMoney, Refunding, Refunded,
                 BankRecord, Gone
<1>4. CancelStarts(p) => MoneyHeld(p) /\ MoneyGoes(p)
  BY <1>2, <1>3, StillHeld DEF CancelStarts, CancelReverses
<1>5. CancelRefused(p) => \A q \in Payments : bank'[q].money = bank[q].money
  BY DEF CancelRefused, BankTypeOK, BankRecord
<1>6. ASSUME NEW k \in Keys, RefundAccepted(p, k)
      PROVE  MoneyHeld(p) /\ MoneyGoes(p)
  <2>1. CASE UNCHANGED bank
    BY <2>1, StillHeld
  <2>2. CASE /\ Refundable(p) \/ bank[p].st = "REFUNDING"
             /\ \E b \in {Refunding(p, k), Refunded(p, k)} : Moves(p, b)
    BY <2>2, MovesGo DEF Refundable, KeepsMoney, Refunding, Refunded, BankRecord,
                          MoneyFits, Gone
  <2> QED BY <1>6, <2>1, <2>2 DEF RefundAccepted
<1> QED BY <1>1, <1>4, <1>5, <1>6

(***************************************************************************)
(* A step that settles p, and what it is a step of.                        *)
(***************************************************************************)
PaysBy(p) == \/ paidBy' = paidBy
             \/ /\ paidBy = NoPayment /\ paidBy' = p
                /\ row[p].st # "succeeded" /\ row'[p].st = "succeeded"
Settles(p) ==
  /\ MoneyHeld(p) /\ MoneyGoes(p)
  /\ \A q \in Payments : q # p => BookOf(row'[q]) = BookOf(row[q])
  /\ row'[p].st = "succeeded" /\ row[p].st # "succeeded" => bank'[p].money = bank[p].money
  /\ PaysBy(p)

LEMMA BookTable ==
  ASSUME NEW r
  PROVE  /\ BookOf(r) = "counted" <=> r.st = "succeeded"
         /\ BookOf(r) = "returning" <=> r.st = "refund_requested"
         /\ BookOf(r) = "refunded" <=> r.st = "refunded"
         /\ BookOf(r) = "unpaid" <=> r.st \notin Counted
         /\ BookOf(r) \in {"unpaid", "counted", "returning", "refunded"}
  BY DEF BookOf, Counted

\* The mapped variables, and how one payment changes them.
LEMMA MappedChange ==
  ASSUME NEW p \in Payments, MoneyHeld(p),
         \A q \in Payments : q # p => BookOf(row'[q]) = BookOf(row[q])
  PROVE  /\ [q \in Payments |-> bank'[q].money]
              = [[q \in Payments |-> bank[q].money] EXCEPT ![p] = bank'[p].money]
         /\ [q \in Payments |-> BookOf(row'[q])]
              = [[q \in Payments |-> BookOf(row[q])] EXCEPT ![p] = BookOf(row'[p])]
  BY DEF MoneyHeld

LEMMA SettlesPromised ==
  ASSUME BooksFollowBank', AllForward, NEW p \in Payments, Settles(p)
  PROVE  [Promise!Next]_(Promise!vars)
<1> DEFINE m == [q \in Payments |-> bank[q].money]
           n == [q \in Payments |-> bank'[q].money]
           b == [q \in Payments |-> BookOf(row[q])]
           c == [q \in Payments |-> BookOf(row'[q])]
<1>1. n = [m EXCEPT ![p] = n[p]] /\ c = [b EXCEPT ![p] = c[p]]
  BY MappedChange DEF Settles
<1>2. m[p] = bank[p].money /\ n[p] = bank'[p].money
  OBVIOUS
<1>3. b[p] = BookOf(row[p]) /\ c[p] = BookOf(row'[p])
  OBVIOUS
<1>4. n[p] = m[p] \/ (m[p] \in {"kept", "part"} /\ n[p] = "back")
  BY <1>2 DEF Settles, MoneyGoes, Gone
<1>5. /\ c[p] \in {"counted", "returning", "refunded"} => n[p] # "none"
      /\ c[p] = "refunded" => n[p] = "back"
  BY <1>2, <1>3, BookTable DEF BooksFollowBank, Counted
<1>6. /\ c[p] = "unpaid" => b[p] = "unpaid"
      /\ b[p] = "refunded" => c[p] = "refunded"
  BY <1>3, BookTable DEF AllForward, Forward
<1>7. c[p] = "counted" /\ b[p] # "counted" => n[p] = m[p]
  BY <1>2, <1>3, BookTable DEF Settles
<1>8. \/ paidBy' = paidBy
      \/ paidBy = NoPayment /\ paidBy' = p /\ b[p] # "counted" /\ c[p] = "counted"
  BY <1>3, BookTable DEF Settles, PaysBy
<1>9. /\ b[p] \in {"unpaid", "counted", "returning", "refunded"}
      /\ c[p] \in {"unpaid", "counted", "returning", "refunded"}
  BY <1>3, BookTable
<1>10. /\ n[p] = m[p] => n = m
       /\ c[p] = b[p] => c = b
  BY <1>1
<1> HIDE DEF m, n, b, c
<1>11. CASE c[p] = b[p] /\ n[p] = m[p]
  BY <1>8, <1>10, <1>11 DEF Promise!vars, m, n, b, c
<1>12. CASE c[p] = b[p] /\ n[p] # m[p]
  <2>1. m[p] \in {"kept", "part"} /\ n = [m EXCEPT ![p] = "back"] /\ c = b /\ paidBy' = paidBy
    BY <1>1, <1>4, <1>8, <1>10, <1>12
  <2>2. Promise!MoneyMoves(p)
    BY <2>1 DEF Promise!MoneyMoves, m, n, b, c
  <2> QED BY <2>2 DEF Promise!Next
<1>13. CASE c[p] = "counted" /\ b[p] # "counted"
  <2>1. /\ b[p] \in {"unpaid", "returning"} /\ m[p] # "none" /\ n = m
        /\ c = [b EXCEPT ![p] = "counted"]
        /\ paidBy' \in {paidBy} \union (IF paidBy = NoPayment THEN {p} ELSE {})
    BY <1>1, <1>5, <1>6, <1>7, <1>8, <1>9, <1>10, <1>13
  <2>2. Promise!Counts(p)
    BY <2>1 DEF Promise!Counts, m, n, b, c
  <2> QED BY <2>2 DEF Promise!Next
<1>14. CASE c[p] = "returning" /\ b[p] # "returning"
  <2>1. /\ b[p] \in {"unpaid", "counted"} /\ c = [b EXCEPT ![p] = "returning"]
        /\ paidBy' = paidBy
        /\ \/ m[p] # "none" /\ n = m
           \/ m[p] \in {"kept", "part"} /\ n = [m EXCEPT ![p] = "back"]
    BY <1>1, <1>4, <1>5, <1>6, <1>8, <1>9, <1>10, <1>14
  <2>2. Promise!Returns(p)
    BY <2>1 DEF Promise!Returns, Promise!GoesBack, m, n, b, c
  <2> QED BY <2>2 DEF Promise!Next
<1>15. CASE c[p] = "refunded" /\ b[p] # "refunded"
  <2>1. /\ c = [b EXCEPT ![p] = "refunded"] /\ paidBy' = paidBy
        /\ \/ m[p] = "back" /\ n = m
           \/ m[p] \in {"kept", "part"} /\ n = [m EXCEPT ![p] = "back"]
    BY <1>1, <1>4, <1>5, <1>8, <1>9, <1>10, <1>15
  <2>2. Promise!Refunds(p)
    BY <1>15, <2>1 DEF Promise!Refunds, Promise!GoesBack, m, n, b, c
  <2> QED BY <2>2 DEF Promise!Next
<1> QED BY <1>6, <1>9, <1>11, <1>12, <1>13, <1>14, <1>15

LEMMA WorldPromised ==
  ASSUME TypeInv, BooksInv, BooksFollowBank', AllForward, NEW p \in Payments, World(p)
  PROVE  [Promise!Next]_(Promise!vars)
<1>1. UNCHANGED <<row, paidBy>> /\ MoneyHeld(p) /\ (MoneyGoes(p) \/ MoneyComes(p))
  BY BankNextGoes, Parts DEF World, BuyerPays, BooksInv
<1>2. CASE MoneyGoes(p)
  <2>1. Settles(p)
    BY <1>1, <1>2 DEF Settles, PaysBy
  <2> QED BY <2>1, SettlesPromised
<1>3. CASE MoneyComes(p)
  <2> DEFINE m == [q \in Payments |-> bank[q].money]
             n == [q \in Payments |-> bank'[q].money]
  <2>1. n = [m EXCEPT ![p] = bank'[p].money] /\ m[p] = bank[p].money
    BY <1>1, MappedChange
  <2> HIDE DEF m, n
  <2>2. \/ m[p] = "none" /\ n = [m EXCEPT ![p] = "kept"]
        \/ m[p] = "kept" /\ n = [m EXCEPT ![p] = "part"]
    BY <1>3, <2>1 DEF MoneyComes, Comes
  <2>3. [q \in Payments |-> BookOf(row'[q])] = [q \in Payments |-> BookOf(row[q])]
    BY <1>1
  <2>4. Promise!MoneyMoves(p)
    BY <1>1, <2>2, <2>3 DEF Promise!MoneyMoves, m, n
  <2> QED BY <2>4 DEF Promise!Next
<1> QED BY <1>1, <1>2, <1>3

LEMMA StillPromised ==
  ASSUME UNCHANGED <<bank, row, paidBy>>
  PROVE  [Promise!Next]_(Promise!vars)
  BY DEF Promise!vars

\* A commit over the row itself, or over an attempt at a payment that is no
\* longer needed for the application.
Begins(p, old) == \/ old.st = row[p].st
                  \/ /\ old.st = "refund_requested"
                     /\ paidBy # NoPayment \/ p \in DemoPayments

LEMMA CommitsSettle ==
  ASSUME TypeInv, NEW p \in Payments, NEW old, NEW r, Commits(p, old, r), Begins(p, old),
         MoneyHeld(p), MoneyGoes(p),
         r.st = "succeeded" => bank'[p].money = bank[p].money
  PROVE  Settles(p)
<1>1. \A q \in Payments : row'[q] = IF q = p THEN r ELSE row[q]
  BY DEF Commits, TypeInv, TypeOK
<1>2. PaysBy(p)
  <2>1. CASE (NewlyCounted(old, r) \/ (GaveRefundUp(old, r) /\ AwaitingPayment)) /\ OnPaid(p)
    <3>1. old.st # "succeeded" /\ r.st = "succeeded"
      BY <2>1 DEF NewlyCounted, GaveRefundUp, Counted
    <3>2. CASE paidBy' # paidBy
      <4>1. paidBy' = p /\ paidBy = NoPayment /\ p \notin DemoPayments
        BY <2>1, <3>2 DEF OnPaid, AwaitingPayment
      <4> QED BY <1>1, <3>1, <4>1 DEF Begins, PaysBy
    <3> QED BY <3>2 DEF PaysBy
  <2>2. CASE UNCHANGED <<paidBy, flagged>>
    BY <2>2 DEF PaysBy
  <2> QED BY <2>1, <2>2 DEF Commits, Consequences
<1> QED BY <1>1, <1>2 DEF Settles

LEMMA RunsSettle ==
  ASSUME NEW p \in Payments, OnlyRuns, MoneyHeld(p), MoneyGoes(p)
  PROVE  Settles(p)
  BY DEF OnlyRuns, Settles, PaysBy

\* The bank's calls that move no money settle whatever p.
LEMMA SameSettles ==
  ASSUME NEW p \in Payments, \A q \in Payments : bank'[q].money = bank[q].money
  PROVE  MoneyHeld(p) /\ MoneyGoes(p)
  BY DEF MoneyHeld, MoneyGoes, Gone

LEMMA AskedSettle ==
  ASSUME TypeInv, BooksInv, PaidInv, NEW w \in Workers,
         \/ AskedAndLeft(w) \/ NotificationApplied(w) \/ PollApplied(w) \/ CloseAsksAgain(w)
  PROVE  \E p \in Payments : Settles(p)
<1> DEFINE p == worker[w].pay
<1>1. p \in Payments
  BY DEF TypeInv, RequestOK, AskedAndLeft, NotificationApplied, PollApplied, CloseAsksAgain
<1>2. UNCHANGED bank
  BY DEF AskedAndLeft, NotificationApplied, PollApplied, CloseAsksAgain, OnlyCommits
<1>3. worker[w].at = "asked" => worker[w].draft = row[p]
  BY <1>1, WorkerKnows DEF Agrees
<1>4. PICK r : Commits(p, row[p], r)
  BY <1>3 DEF AskedAndLeft, NotificationApplied, PollApplied, CloseAsksAgain
<1>5. Settles(p)
  BY <1>1, <1>2, <1>4, StillHeld, CommitsSettle DEF Begins
<1> QED BY <1>1, <1>5

LEMMA CloseSettles ==
  ASSUME TypeInv, BooksInv, PaidInv, OrdersInv, NEW w \in Workers,
         CloseAccepted(w) \/ CloseRefused(w) \/ CloseUnclear(w)
  PROVE  \E p \in Payments : Settles(p)
<1> DEFINE p == worker[w].pay
           d == worker[w].draft
<1>1. /\ p \in Payments /\ d \in Row /\ d.st \in Open
      /\ BankTypeOK /\ MoneyFitsStatus
  BY WorkerCloses, Parts DEF CloseAccepted, CloseRefused, CloseUnclear, BooksInv
<1>2. CASE CloseAccepted(w)
  <2> DEFINE r == After(d, bank'[p].st, TRUE)
  <2>1. CancelStarts(p) /\ Closed(w, r)
    BY <1>2 DEF CloseAccepted
  <2>2. MoneyHeld(p) /\ MoneyGoes(p)
    BY <1>1, <2>1, CallsGo
  <2>3. r.st # "succeeded"
    BY <1>1, <2>1, CloseMoves
       DEF After, FinalUnpaid, UnpaidAs, Returning, KeyAfter, Row, Open
  <2> HIDE DEF r
  <2>4. Settles(p)
    BY <1>1, <2>1, <2>2, <2>3, RunsSettle, CommitsSettle DEF Closed, Begins
  <2> QED BY <1>1, <2>4
<1>3. CASE CloseRefused(w)
  <2> DEFINE r == [d EXCEPT !.st = "closed"]
  <2>1. CancelRefused(p) /\ Closed(w, r)
    BY <1>3 DEF CloseRefused
  <2>2. \A q \in Payments : bank'[q].money = bank[q].money
    BY <1>1, <2>1, CallsGo
  <2> HIDE DEF r
  <2>3. Settles(p)
    BY <1>1, <2>1, <2>2, SameSettles, RunsSettle, CommitsSettle DEF Closed, Begins
  <2> QED BY <1>1, <2>3
<1>4. CASE CloseUnclear(w)
  BY <1>1, <1>4, CallsGo, StillHeld, RunsSettle DEF CloseUnclear
<1> QED BY <1>2, <1>3, <1>4

LEMMA RefundsSettle ==
  ASSUME TypeInv, BooksInv, PaidInv, SeenInv, OrdersInv, TellInv, NEW w \in Workers,
         RefundAnswered(w) \/ RefundUnanswered(w) \/ RefundAsksState(w)
  PROVE  \E p \in Payments : Settles(p)
<1> DEFINE p == worker[w].pay
           d == worker[w].draft
<1>1. worker[w].at \in Returns
  BY DEF RefundAnswered, RefundUnanswered, RefundAsksState, Returns
<1>2. /\ p \in Payments /\ row[p] \in Row /\ d \in Row /\ d.st = "refund_requested"
      /\ d = AttemptOf(row[p]) /\ row[p].st \in {"succeeded", "refund_requested"}
      /\ worker[w].at = "refund" => d.key \in Keys
      /\ BankTypeOK /\ MoneyFitsStatus
  BY <1>1, WorkerReturns, Parts DEF BooksInv
<1>3. Begins(p, d)
  <2>1. CASE row[p].st = "succeeded"
    <3>1. d.prov = row[p].prov /\ d.prov # "PARTIAL_REFUNDED"
      BY <1>1, <1>2, <2>1 DEF AttemptOf, NextAttempt, Row, TellInv, RefundsWhole
    <3>2. paidBy # NoPayment \/ p \in flagged
      BY <1>2, <2>1, <3>1 DEF SeenInv, CountedIsSeen, Seen
    <3> QED BY <1>2, <3>2 DEF Begins, TellInv, ToldFits
  <2>2. CASE row[p].st = "refund_requested"
    BY <1>2, <2>2 DEF Begins
  <2> QED BY <1>2, <2>1, <2>2
<1>4. CASE RefundAnswered(w)
  <2> DEFINE r == After(d, bank'[p].st, TRUE)
  <2>1. RefundAccepted(p, d.key) /\ Commits(p, d, r) /\ worker[w].at = "refund"
    BY <1>4 DEF RefundAnswered
  <2>2. MoneyHeld(p) /\ MoneyGoes(p)
    BY <1>2, <2>1, CallsGo
  <2>3. bank'[p].st \in {"REFUNDING", "REFUNDED"}
    BY <1>2, <2>1, CallsOrders DEF OrdersInv
  <2>4. r.st # "succeeded"
    BY <1>2, <2>3 DEF After, FinalUnpaid, Returning, KeyAfter, Row
  <2> HIDE DEF r
  <2>5. Settles(p)
    BY <1>2, <1>3, <2>1, <2>2, <2>4, CommitsSettle
  <2> QED BY <1>2, <2>5
<1>5. CASE RefundUnanswered(w)
  <2>1. /\ RefundAccepted(p, d.key) \/ UNCHANGED bank
        /\ Commits(p, d, d) /\ worker[w].at = "refund"
    BY <1>5 DEF RefundUnanswered
  <2>2. MoneyHeld(p) /\ MoneyGoes(p)
    BY <1>2, <2>1, CallsGo, StillHeld
  <2>3. Settles(p)
    BY <1>2, <1>3, <2>1, <2>2, CommitsSettle
  <2> QED BY <1>2, <2>3
<1>6. CASE RefundAsksState(w)
  <2>1. UNCHANGED bank /\ \E r : Commits(p, d, r)
    BY <1>6 DEF RefundAsksState, OnlyCommits
  <2>2. Settles(p)
    BY <1>2, <1>3, <2>1, StillHeld, CommitsSettle
  <2> QED BY <1>2, <2>2
<1> QED BY <1>4, <1>5, <1>6

LEMMA InitSettles ==
  ASSUME TypeInv, BooksInv, PaidInv, SeenInv, NEW w \in Workers, Payments # {},
         InsertAbandoned(w) \/ InitAnswered(w) \/ InitUnanswered(w)
  PROVE  \E p \in Payments : Settles(p)
<1> DEFINE t == worker[w]
<1>1. \A q \in Payments : bank'[q].money = bank[q].money
  BY CallsGo, Parts
     DEF InsertAbandoned, InitAnswered, InitUnanswered, OnlyCommits, BooksInv, TypeInv, RequestOK
<1>2. UNCHANGED paidBy
  BY DEF InsertAbandoned, InitAnswered, InitUnanswered
<1>3. t.draft.st # "succeeded"
  BY DEF InsertAbandoned, InitAnswered, InitUnanswered, SeenInv, ReplacesNoMoney, Replacing
<1>4. PICK p \in Payments : t.pay \in Payments => p = t.pay
  OBVIOUS
<1>5. CASE row' = row
  BY <1>1, <1>2, <1>4, <1>5, SameSettles DEF Settles, PaysBy
<1>6. ASSUME NEW new, NEW r, CommitsOld(w, new, r), r.st \notin Counted,
             new \in Payments => row[new].st = "absent"
      PROVE  Settles(p)
  <2>1. \A q \in Payments : row'[q] = IF q = new THEN r
                                      ELSE IF q = t.pay THEN t.draft ELSE row[q]
    BY <1>6 DEF CommitsOld
  <2>2. \A q \in Payments : q # p => BookOf(row'[q]) = BookOf(row[q])
    <3> SUFFICES ASSUME NEW q \in Payments, q # p
                 PROVE  BookOf(row'[q]) = BookOf(row[q])
      OBVIOUS
    <3>1. CASE q = new
      <4>1. BookOf(r) = "unpaid" /\ BookOf(row[q]) = "unpaid"
        BY <1>6, <3>1, BookTable DEF Counted
      <4> QED BY <2>1, <3>1, <4>1
    <3>2. CASE q # new
      BY <1>4, <2>1, <3>2
    <3> QED BY <3>1, <3>2
  <2>3. row'[p].st = "succeeded" => row[p].st = "succeeded"
    BY <1>3, <1>6, <2>1 DEF Counted
  <2> QED BY <1>1, <1>2, <2>2, <2>3, SameSettles DEF Settles, PaysBy
<1>7. CASE InsertAbandoned(w) /\ CommitsOld(w, NoPayment, Absent)
  BY <1>4, <1>6, <1>7, NoPaymentAssumption DEF Absent, Counted
<1>8. CASE InitAnswered(w) \/ InitUnanswered(w)
  <2>1. row[t.new].st = "absent"
    BY <1>8 DEF InitAnswered, InitUnanswered, PaidInv, NewRows
  <2>2. PICK r \in {LinkIssued, InitFailed} : CommitsOld(w, t.new, r)
    BY <1>8 DEF InitAnswered, InitUnanswered
  <2>3. r.st \notin Counted
    BY <2>2 DEF LinkIssued, InitFailed, Absent, Counted
  <2> QED BY <1>4, <1>6, <2>1, <2>2, <2>3
<1> QED BY <1>4, <1>5, <1>7, <1>8 DEF InsertAbandoned

LEMMA DiesSettles ==
  ASSUME TypeInv, BooksInv, NEW w \in Workers, Dies(w)
  PROVE  [Promise!Next]_(Promise!vars) \/ \E p \in Payments : Settles(p)
<1> DEFINE t == worker[w]
<1>1. /\ t.at = "init" => t.new \in Payments
      /\ t.at = "refund" => t.pay \in Payments /\ t.draft.key \in Keys
      /\ BankTypeOK /\ MoneyFitsStatus /\ OnlyRuns
  BY Parts DEF TypeInv, RequestOK, BooksInv, Dies
<1>2. CASE UNCHANGED bank
  BY <1>1, <1>2, StillPromised DEF OnlyRuns
<1>3. CASE t.at = "init" /\ InitAccepted(t.new)
  BY <1>1, <1>3, CallsGo, SameSettles, RunsSettle
<1>4. CASE t.at = "refund" /\ RefundAccepted(t.pay, t.draft.key)
  BY <1>1, <1>4, CallsGo, RunsSettle
<1> QED BY <1>2, <1>3, <1>4 DEF Dies, CallMayReachBank

LEMMA WorksPromised ==
  ASSUME TypeInv, BooksInv, PaidInv, SeenInv, OrdersInv, TellInv, BooksFollowBank', AllForward,
         NEW w \in Workers, Works(w)
  PROVE  [Promise!Next]_(Promise!vars)
<1>1. CASE \E p \in Payments : Settles(p)
  BY <1>1, SettlesPromised
<1>2. ASSUME \/ InitiateFresh(w) \/ AskedAndGoesOn(w) \/ RefundIsRefused(w)
             \/ PollAnswered(w) \/ PollDiscarded(w)
      PROVE  [Promise!Next]_(Promise!vars)
  BY <1>2, StillPromised
     DEF InitiateFresh, AskedAndGoesOn, RefundIsRefused, PollAnswered, PollDiscarded, OnlyRuns
<1>3. ASSUME NEW p \in Payments,
             \/ InitiateOverDeadLink(w, p) \/ InsertPayment(w, p) \/ CancelLink(w, p)
             \/ RetireLink(w, p) \/ StartRefund(w, p) \/ StartPoll(w, p)
             \/ \E s \in Announced : Notified(w, p, s)
      PROVE  [Promise!Next]_(Promise!vars)
  BY <1>3, StillPromised DEF InitiateOverDeadLink, InsertPayment, CancelLink, RetireLink,
     StartRefund,
                             StartPoll, Notified, Asks, OnlyRuns
<1>4. ASSUME InsertAbandoned(w) \/ InitAnswered(w) \/ InitUnanswered(w)
      PROVE  [Promise!Next]_(Promise!vars)
  <2>1. CASE Payments # {}
    BY <1>1, <1>4, <2>1, InitSettles
  <2>2. CASE Payments = {}
    <3>1. UNCHANGED paidBy
      BY <1>4 DEF InsertAbandoned, InitAnswered, InitUnanswered
    <3> QED BY <2>2, <3>1 DEF Promise!vars
  <2> QED BY <2>1, <2>2
<1> QED BY <1>1, <1>2, <1>3, <1>4, AskedSettle, CloseSettles, RefundsSettle, DiesSettles
        DEF Works

LEMMA FirstTells ==
  Init => TellInv
  BY DEF Init, Idle, TellInv, ToldFits, RefundsWhole, Returns

(***************************************************************************)
(* The invariant about what the admin is told and what may be refunded.    *)
(***************************************************************************)
THEOREM TellInductive == Spec => []TellInv
  BY FirstTells, NextTells, TypeInductive, PTL DEF Spec

LEMMA NextPromised ==
  ASSUME TypeInv, BooksInv, PaidInv, SeenInv, OrdersInv, TellInv, BooksInv', [Next]_vars
  PROVE  [Promise!Next]_(Promise!vars)
<1>1. AllForward /\ BooksFollowBank'
  BY NextOrders DEF BooksInv
<1>2. ASSUME NEW w \in Workers, Works(w)
      PROVE  [Promise!Next]_(Promise!vars)
  BY <1>1, <1>2, WorksPromised
<1>3. ASSUME NEW p \in Payments, World(p)
      PROVE  [Promise!Next]_(Promise!vars)
  BY <1>1, <1>3, WorldPromised
<1>4. ASSUME NEW p \in Payments, NEW s \in Announced, NotificationIgnored(p, s)
      PROVE  [Promise!Next]_(Promise!vars)
  BY <1>4, StillPromised DEF NotificationIgnored
<1>5. CASE UNCHANGED vars
  BY <1>5, StillPromised DEF vars
<1> QED BY <1>2, <1>3, <1>4, <1>5 DEF Next

(***************************************************************************)
(* Refinement: with any payments, requests and attempts, what the          *)
(* handlers, the bank and the buyer do is what Settlement allows.          *)
(***************************************************************************)
THEOREM PaymentsKeepThePromise == Spec => BooksKeepThePromise
<1> DEFINE Others == TypeInv /\ BooksInv /\ PaidInv /\ SeenInv /\ OrdersInv /\ TellInv
<1>1. Init => Promise!Init
  BY DEF Init, BankInit, Unknown, Absent, BookOf, Promise!Init
<1>2. Others /\ BooksInv' /\ [Next]_vars => [Promise!Next]_(Promise!vars)
  BY NextPromised
<1>3. Spec => []Others
  BY TypeInductive, BooksInductive, PaidInductive, SeenInductive, OrdersInductive,
     TellInductive, PTL
<1>4. Others => BooksInv
  BY DEF Others
<1> HIDE DEF Others
<1> QED BY <1>1, <1>2, <1>3, <1>4, BooksInductive, PTL
        DEF Spec, BooksKeepThePromise, Promise!Spec

(***************************************************************************)
(* Notifications that get lost (TBankReconcile).  A lost notification is a *)
(* stutter of everything but the inbox, and of all that was proved above   *)
(* only NothingIsForgotten speaks of the inbox: so the rest holds for any  *)
(* notifications lost, on any days, and with it that money not counted     *)
(* here stays where the cron polls.                                        *)
(***************************************************************************)
AllInv == /\ TypeInv /\ BooksInv /\ PaidInv /\ SeenInv /\ OrdersInv /\ LinkInv /\ TellInv
          /\ NotesCome

LEMMA FirstAll ==
  Init => AllInv
<1>1. Init => NotesCome
  BY DEF Init, BankInit, NotesCome
<1> QED BY <1>1, FirstType, FirstBooks, FirstPaid, FirstSeen, FirstOrders, FirstLinks,
           FirstTells DEF AllInv

LEMMA NextAll ==
  ASSUME AllInv, [Next]_vars
  PROVE  AllInv'
<1>1. TypeInv' /\ BooksInv' /\ PaidInv' /\ SeenInv'
  BY NextType, NextBooks, NextPaid, NextSeen DEF AllInv
<1>2. OrdersInv' /\ TellInv'
  BY NextOrders, NextTells DEF AllInv
<1>3. LinkInv' /\ Renews
  BY NextLinks DEF AllInv
<1>4. NotesCome'
  BY <1>3, NextNotes DEF AllInv, Renews
<1> QED BY <1>1, <1>2, <1>3, <1>4 DEF AllInv

Loses == /\ inbox' \subseteq inbox
         /\ UNCHANGED <<bank, row, paidBy, flagged, journal, worker, overtaken>>

LEMMA LosesAll ==
  ASSUME AllInv, Loses
  PROVE  AllInv'
<1>1. TypeInv'
  BY DEF AllInv, Loses, TypeInv, TypeOK, BankTypeOK, RequestOK
<1>2. BooksInv'
  BY DEF AllInv, Loses, BooksInv, MoneyFitsStatus, BooksFollowBank, RequestsBacked, NewLinks
<1>3. PaidInv' /\ SeenInv'
  BY StillPaid, StillSeen DEF AllInv, Loses
<1>4. OrdersInv'
  BY QuietOrders DEF AllInv, Loses
<1>5. LinkInv'
  BY StillAges, WorldLinks DEF AllInv, Loses
<1>6. TellInv' /\ NotesCome'
  BY DEF AllInv, Loses, TellInv, ToldFits, RefundsWhole, NotesCome
<1> QED BY <1>1, <1>2, <1>3, <1>4, <1>5, <1>6 DEF AllInv

\* What begun on a calm day goes on as on any other.
LEMMA LossyStep ==
  [LossyNext]_allVars => [Next]_vars \/ Loses
<1> SUFFICES ASSUME [LossyNext]_allVars PROVE [Next]_vars \/ Loses
  OBVIOUS
<1>1. CASE Restless
  BY <1>1 DEF Restless, NotificationLost, Loses
<1>2. CASE Calm
  BY <1>2 DEF Calm, GoesOn, Next, Works
<1>3. CASE UNCHANGED vars
  BY <1>3
<1> QED BY <1>1, <1>2, <1>3 DEF LossyNext, DayTurnsCalm, allVars

LEMMA LossyInductive == LossySpec => []AllInv
<1>1. AllInv /\ [LossyNext]_allVars => AllInv'
  BY LossyStep, NextAll, LosesAll
<1> QED BY <1>1, FirstAll, PTL DEF LossySpec

(***************************************************************************)
(* Whatever notifications are lost: the books do not run ahead of the bank *)
(* (apply_bank_state), the application is PAID only by money and the admin *)
(* is told of the rest (_on_paid), one refund order is alive at a time     *)
(* (_refund_tbank), and the buyer has one link to pay                      *)
(* (_close_unpaid_link).                                                   *)
(***************************************************************************)
THEOREM LossHarmsNothing ==
  LossySpec => [](/\ TypeOK /\ BooksFollowBank /\ OrderIsPaidByMoney /\ CountedMoneyIsSeen
                  /\ OneRefundOrder /\ OneLinkToPay)
<1> DEFINE Safe == /\ TypeOK /\ BooksFollowBank /\ OrderIsPaidByMoney /\ CountedMoneyIsSeen
                   /\ OneRefundOrder /\ OneLinkToPay
<1>1. AllInv => Safe
  <2>1. AllInv => TypeOK /\ BooksFollowBank
    BY DEF AllInv, TypeInv, BooksInv
  <2>2. AllInv => OrderIsPaidByMoney
    BY OrderHolds DEF AllInv
  <2>3. AllInv => CountedMoneyIsSeen
    BY SeenHolds DEF AllInv
  <2>4. AllInv => OneRefundOrder /\ OneLinkToPay
    BY OneOrderHolds, LinkHolds DEF AllInv
  <2> QED BY <2>1, <2>2, <2>3, <2>4
<1> QED BY <1>1, LossyInductive, PTL

(***************************************************************************)
(* Whatever notifications are lost, a step takes no counted money back, no *)
(* counted payment becomes unpaid, and what the handlers, the bank and the *)
(* buyer do is what Settlement allows.                                     *)
(***************************************************************************)
THEOREM LossUndoesNothing ==
  LossySpec => ClosingTakesNothingBack /\ OnlyForward /\ BooksKeepThePromise
<1> DEFINE A == AllForward
           B == TakesNothingBack
           P == [Promise!Next]_(Promise!vars)
<1>1. AllInv /\ AllInv' /\ [LossyNext]_allVars => [A]_vars /\ [B]_vars /\ P
  <2> SUFFICES ASSUME AllInv, AllInv', [LossyNext]_allVars
               PROVE  A /\ B /\ P
    OBVIOUS
  <2>1. CASE [Next]_vars
    BY <2>1, NextOrders, NextTakesNothing, NextPromised DEF AllInv
  <2>2. CASE Loses
    <3>1. A
      BY <2>2, QuietOrders DEF Loses, AllInv
    <3>2. B
      BY <2>2 DEF Loses, TakesNothingBack
    <3>3. P
      BY <2>2, StillPromised DEF Loses
    <3> QED BY <3>1, <3>2, <3>3
  <2> QED BY <2>1, <2>2, LossyStep
<1>2. Init => Promise!Init
  BY DEF Init, BankInit, Unknown, Absent, BookOf, Promise!Init
<1>3. LossySpec => [][A]_vars /\ [][B]_vars /\ Init /\ [][Promise!Next]_(Promise!vars)
  <2> HIDE DEF A, B
  <2> QED BY <1>1, LossyInductive, PTL DEF LossySpec
<1>4. LossySpec => BooksKeepThePromise
  BY <1>2, <1>3, PTL DEF BooksKeepThePromise, Promise!Spec
<1> QED BY <1>3, <1>4
        DEF AllForward, Forward, OnlyForward, TakesNothingBack, ClosingTakesNothingBack

(***************************************************************************)
(* Money the bank holds in the right sum and the books do not count is on  *)
(* a row that reconcile_tbank_payments.py polls: a link is written off     *)
(* only when it cannot be paid any more, however its notification was      *)
(* lost, its Cancel refused or its request dead before the commit.         *)
(***************************************************************************)
THEOREM MoneyStaysInReach == LossySpec => []NoMoneyOutOfReach
<1>1. AllInv => NoMoneyOutOfReach
  <2> SUFFICES ASSUME AllInv, NEW p \in Payments, bank[p].st = "CONFIRMED", bank[p].right,
                      row[p].bid, row[p].st \notin Counted
               PROVE  Reached(p)
    BY DEF NoMoneyOutOfReach
  <2>1. ~WrittenOff(row[p])
    BY DEF AllInv, LinkInv, RowsOff, Vouched, Over
  <2>2. row[p].st \in Open \union {"absent", "failed", "closed"}
    BY DEF AllInv, TypeInv, TypeOK, Row, PaymentStatus, UnpaidClosed
  <2>3. row[p].st \notin {"absent", "failed"} /\ (row[p].st = "closed" => row[p].prov = "NEW")
    BY <2>1 DEF WrittenOff
  <2> QED BY <2>2, <2>3 DEF Reached, Polled, ClosedOnlyHere
<1> QED BY <1>1, LossyInductive, PTL
=============================================================================
