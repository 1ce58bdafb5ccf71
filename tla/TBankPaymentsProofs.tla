------------------------ MODULE TBankPaymentsProofs ------------------------
(***************************************************************************)
(* Proofs about TBankPayments, for any number of payments, workers and     *)
(* refund attempts.                                                        *)
(***************************************************************************)
EXTENDS TBankPayments, TLAPS

(***************************************************************************)
(* Type correctness.  TypeOK is not inductive: that a refund order has a   *)
(* key and a journalled notification a status depends on what a request    *)
(* must have at each of its steps.                                         *)
(***************************************************************************)
RequestOK ==
  \A w \in Workers :
    /\ worker[w].at \notin {"idle", "insert", "init"} => worker[w].pay \in Payments
    /\ worker[w].at = "init" => worker[w].new \in Payments
    /\ worker[w].at = "refund" => worker[w].draft.key \in Keys
    /\ worker[w].op = "notify" => worker[w].note \in Announced

TypeInv == TypeOK /\ RequestOK

(***************************************************************************)
(* Every move of the bank keeps its record a record.                       *)
(***************************************************************************)
LEMMA MovesType ==
  ASSUME BankTypeOK, NEW p \in Payments, NEW b \in BankRecord, Moves(p, b)
  PROVE  BankTypeOK'
<1>1. bank' \in [Payments -> BankRecord]
  BY DEF BankTypeOK, Moves
<1>2. inbox' \subseteq Payments \X Announced
  BY DEF BankTypeOK, Moves
<1> QED BY <1>1, <1>2 DEF BankTypeOK

LEMMA RefundRecords ==
  ASSUME BankTypeOK, NEW p \in Payments, NEW k \in RefundOrders
  PROVE  Refunding(p, k) \in BankRecord /\ Refunded(p, k) \in BankRecord
  BY DEF BankTypeOK, BankRecord, BankStatus, Money, Refunding, Refunded

LEMMA BankNextType ==
  ASSUME BankTypeOK, NEW p \in Payments, BankNext(p) \/ PayerPays(p)
  PROVE  BankTypeOK'
<1> USE DEF BankTypeOK, BankRecord, BankStatus, Money
<1>1. CASE PayerPays(p)
  BY <1>1, MovesType DEF PayerPays
<1>2. CASE PayerFails(p)
  BY <1>2, MovesType DEF PayerFails
<1>3. CASE Confirms(p)
  BY <1>3, MovesType DEF Confirms
<1>4. CASE LinkExpires(p)
  BY <1>4, MovesType DEF LinkExpires
<1>5. CASE RefundCompletes(p)
  BY <1>5, MovesType DEF RefundCompletes
<1>6. CASE RefundIsRejected(p)
  BY <1>6, MovesType DEF RefundIsRejected
<1>7. CASE CabinetRefund(p)
  BY <1>7, MovesType, RefundRecords DEF CabinetRefund, RefundOrders
<1>8. CASE CabinetPartialRefund(p)
  BY <1>8, MovesType DEF CabinetPartialRefund
<1> QED BY <1>1, <1>2, <1>3, <1>4, <1>5, <1>6, <1>7, <1>8 DEF BankNext

LEMMA CallsType ==
  ASSUME BankTypeOK, NEW p \in Payments
  PROVE  /\ InitAccepted(p) => BankTypeOK'
         /\ CancelStarts(p) => BankTypeOK'
         /\ CancelRefused(p) => BankTypeOK'
         /\ \A k \in Keys : RefundAccepted(p, k) => BankTypeOK'
         /\ UNCHANGED <<bank, inbox>> => BankTypeOK'
<1>1. InitAccepted(p) => BankTypeOK'
  BY MovesType DEF InitAccepted, BankTypeOK, BankRecord, BankStatus
<1>2. CancelVoids(p) => BankTypeOK'
  BY MovesType DEF CancelVoids, BankTypeOK, BankRecord, BankStatus
<1>3. UNCHANGED <<bank, inbox>> => BankTypeOK'
  BY DEF BankTypeOK
<1>4. CancelReturnsMoney(p) => BankTypeOK'
  BY MovesType, RefundRecords DEF CancelReturnsMoney, RefundOrders
<1>5. CancelStarts(p) => BankTypeOK'
  BY <1>2, <1>3, <1>4 DEF CancelStarts, CancelReverses
<1>6. CancelRefused(p) => BankTypeOK'
  BY DEF CancelRefused, BankTypeOK, BankRecord
<1>7. ASSUME NEW k \in Keys, RefundAccepted(p, k)
      PROVE  BankTypeOK'
  BY <1>3, <1>7, MovesType, RefundRecords DEF RefundAccepted, RefundOrders
<1> QED BY <1>1, <1>3, <1>5, <1>6, <1>7

(***************************************************************************)
(* What the automaton makes of a row is a row.                             *)
(***************************************************************************)
LEMMA RowConstants ==
  Absent \in Row /\ LinkIssued \in Row /\ InitFailed \in Row
  BY DEF Absent, LinkIssued, InitFailed, Row, PaymentStatus, ProviderStatus, Open,
         UnpaidClosed, Counted, NoKey, BankStatus

LEMMA AfterType ==
  ASSUME NEW r \in Row, NEW s \in BankStatus, NEW right \in BOOLEAN
  PROVE  After(r, s, right) \in Row
  BY DEF After, PaidAs, UnpaidAs, FinalUnpaid, RefundFailed, Returning, KeyAfter,
         MayCount, Row, PaymentStatus, ProviderStatus, Open, UnpaidClosed, Counted,
         NoKey, BankStatus

LEMMA AttemptType ==
  ASSUME NEW r \in Row, r.st = "succeeded" => r.att < MaxAttempts
  PROVE  /\ AttemptOf(r) \in Row
         /\ r.st = "succeeded" => AttemptOf(r).key \in Keys
<1>1. r.att \in Nat /\ (r.st = "succeeded" => r.att + 1 \in Keys)
  BY AttemptsAssumption DEF Row, Keys
<1> QED BY <1>1 DEF AttemptOf, NextAttempt, Row, PaymentStatus, Open, UnpaidClosed,
                    Counted

LEMMA RefusalType ==
  ASSUME NEW r \in Row, NEW s \in BankStatus
  PROVE  AfterRefusal(r, s) \in Row
<1>1. RefundFailed(r) \in Row
  BY DEF RefundFailed, Row, PaymentStatus, ProviderStatus, Counted, NoKey, BankStatus
<1> QED BY <1>1, AfterType DEF AfterRefusal

LEMMA CommitsType ==
  ASSUME TypeOK, NEW p \in Payments, NEW old \in Row, NEW r \in Row, Commits(p, old, r)
  PROVE  /\ row' \in [Payments -> Row]
         /\ paidBy' \in Payments \union {NoPayment}
         /\ flagged' \subseteq Payments
  BY DEF TypeOK, Commits, Consequences, OnPaid

(***************************************************************************)
(* One step of one request.  Requests are changed by Becomes alone.        *)
(***************************************************************************)
RequestFits(t) ==
  /\ t \in Request
  /\ t.at \notin {"idle", "insert", "init"} => t.pay \in Payments
  /\ t.at = "init" => t.new \in Payments
  /\ t.at = "refund" => t.draft.key \in Keys
  /\ t.op = "notify" => t.note \in Announced

LEMMA IdleFits == RequestFits(Idle)
  BY RowConstants DEF RequestFits, Idle, Request, Steps, Ops, BankStatus

LEMMA BecomesType ==
  ASSUME TypeInv, NEW w \in Workers, NEW t, RequestFits(t), Becomes(w, t)
  PROVE  worker' \in [Workers -> Request] /\ RequestOK'
  BY DEF TypeInv, TypeOK, RequestOK, RequestFits, Becomes

LEMMA EndsType ==
  ASSUME TypeInv, NEW w \in Workers, Ends(w)
  PROVE  worker' \in [Workers -> Request] /\ RequestOK'
  BY IdleFits, BecomesType DEF Ends

LEMMA WorkerType ==
  ASSUME TypeInv, NEW w \in Workers
  PROVE  /\ RequestFits(worker[w])
         /\ worker[w].at \in Steps
         /\ worker[w].draft \in Row
         /\ worker[w].seen \in BankStatus
         /\ worker[w].right \in BOOLEAN
         /\ worker[w].pay \in Payments => row[worker[w].pay] \in Row
         /\ (worker[w].pay \in Payments) => Applied(w) \in Row
<1>1. RequestFits(worker[w])
  BY DEF TypeInv, TypeOK, RequestOK, RequestFits
<1>2. /\ worker[w].at \in Steps
      /\ worker[w].draft \in Row
      /\ worker[w].seen \in BankStatus
      /\ worker[w].right \in BOOLEAN
  BY <1>1 DEF RequestFits, Request
<1>3. worker[w].pay \in Payments => row[worker[w].pay] \in Row
  BY DEF TypeInv, TypeOK
<1> QED BY <1>1, <1>2, <1>3, AfterType DEF Applied

LEMMA ReadyToInsertFits ==
  ASSUME NEW old \in Payments \union {NoPayment}, NEW r \in Row
  PROVE  RequestFits(ReadyToInsert(old, r))
  BY RowConstants DEF RequestFits, ReadyToInsert, Idle, Request, Steps, Ops, BankStatus

(***************************************************************************)
(* The parts of the state a step leaves alone or commits.                  *)
(***************************************************************************)
Committed == /\ row \in [Payments -> Row]
             /\ paidBy \in Payments \union {NoPayment}
             /\ flagged \subseteq Payments
Logged == journal \subseteq Payments \X Announced /\ overtaken \subseteq Payments
Running == worker \in [Workers -> Request] /\ RequestOK

LEMMA Parts == TypeInv <=> BankTypeOK /\ Committed /\ Logged /\ Running
  BY DEF TypeInv, TypeOK, Committed, Logged, Running

LEMMA PartsNext ==
  ASSUME BankTypeOK', Committed', Logged', Running'
  PROVE  TypeInv'
  BY DEF TypeInv, TypeOK, Committed, Logged, Running

LEMMA CommitsCommitted ==
  ASSUME TypeInv, NEW p \in Payments, NEW old \in Row, NEW r \in Row, Commits(p, old, r)
  PROVE  Committed'
  BY CommitsType DEF TypeInv, Committed

LEMMA OnlyRunsType ==
  ASSUME TypeInv, OnlyRuns
  PROVE  Committed' /\ Logged'
  BY Parts DEF OnlyRuns, Committed, Logged

LEMMA AsksType ==
  ASSUME TypeInv, NEW w \in Workers, NEW p \in Payments, NEW op \in Ops,
         NEW n \in Announced \union {"-"}, op = "notify" => n \in Announced,
         Asks(w, op, p, n)
  PROVE  TypeInv'
<1>1. bank[p].st \in BankStatus /\ bank[p].right \in BOOLEAN /\ row[p] \in Row
  BY Parts DEF BankTypeOK, BankRecord, Committed
<1> DEFINE t == [Idle EXCEPT !.at = "asked", !.op = op, !.pay = p,
                             !.draft = row[p], !.seen = bank[p].st,
                             !.right = bank[p].right, !.note = n]
<1>2. RequestFits(t)
  BY <1>1 DEF RequestFits, Idle, Request, Steps, Ops
<1>3. Becomes(w, t) /\ OnlyRuns /\ UNCHANGED <<bank, inbox>>
  BY DEF Asks
<1>4. Running'
  BY <1>2, <1>3, BecomesType DEF Running
<1>5. BankTypeOK'
  BY <1>3, CallsType, Parts
<1> QED BY <1>3, <1>4, <1>5, OnlyRunsType, PartsNext

(***************************************************************************)
(* The requests, action by action.                                         *)
(***************************************************************************)
LEMMA InitiateFreshType ==
  ASSUME TypeInv, NEW w \in Workers, InitiateFresh(w)
  PROVE  TypeInv'
<1>1. RequestFits(ReadyToInsert(NoPayment, Absent))
  BY RowConstants, ReadyToInsertFits
<1>2. BankTypeOK' /\ Running'
  BY <1>1, BecomesType, Parts DEF InitiateFresh, Running, BankTypeOK
<1> QED BY <1>2, OnlyRunsType, PartsNext DEF InitiateFresh

LEMMA InitiateType ==
  ASSUME TypeInv, NEW w \in Workers, NEW p \in Payments,
         InitiateOverDeadLink(w, p) \/ InsertPayment(w, p) \/ CancelLink(w, p) \/ RetireLink(w, p)
  PROVE  TypeInv'
<1>1. CASE InitiateOverDeadLink(w, p)
  BY <1>1, AsksType DEF InitiateOverDeadLink, Ops
<1>2. CASE InsertPayment(w, p)
  <2>1. RequestFits([worker[w] EXCEPT !.at = "init", !.new = p])
    BY WorkerType, <1>2 DEF InsertPayment, RequestFits, Request, Steps
  <2>2. Running'
    BY <1>2, <2>1, BecomesType DEF InsertPayment, Running
  <2> QED BY <1>2, <2>2, OnlyRunsType, CallsType, Parts, PartsNext DEF InsertPayment
<1>3. CASE CancelLink(w, p) \/ RetireLink(w, p)
  BY <1>3, AsksType DEF CancelLink, RetireLink, Ops
<1> QED BY <1>1, <1>2, <1>3

LEMMA AskedType ==
  ASSUME TypeInv, NEW w \in Workers, AskedAndLeft(w) \/ AskedAndGoesOn(w)
  PROVE  TypeInv'
<1> DEFINE t == worker[w]
<1>1. t.at = "asked" /\ t.pay \in Payments /\ t.draft \in Row /\ Applied(w) \in Row
  BY WorkerType DEF AskedAndLeft, AskedAndGoesOn, RequestFits
<1>2. CASE AskedAndLeft(w)
  <2>1. Committed' /\ Running'
    BY <1>1, <1>2, CommitsCommitted, EndsType DEF AskedAndLeft, Running
  <2>2. BankTypeOK' /\ Logged'
    BY <1>1, <1>2, CallsType, Parts DEF AskedAndLeft, OnlyCommits, Logged
  <2> QED BY <2>1, <2>2, PartsNext
<1>3. CASE AskedAndGoesOn(w)
  <2>1. OnlyRuns /\ UNCHANGED <<bank, inbox>>
    BY <1>3 DEF AskedAndGoesOn
  <2>2. RequestFits([t EXCEPT !.at = "close", !.draft = Applied(w)])
    BY <1>1, WorkerType DEF RequestFits, Request, Steps
  <2>3. RequestFits(ReadyToInsert(t.pay, Applied(w)))
    BY <1>1, ReadyToInsertFits
  <2>4. Running'
    BY <1>3, <2>2, <2>3, BecomesType DEF AskedAndGoesOn, Running
  <2> QED BY <1>1, <2>1, <2>4, OnlyRunsType, CallsType, Parts, PartsNext
<1> QED BY <1>2, <1>3

LEMMA ClosedType ==
  ASSUME TypeInv, NEW w \in Workers, worker[w].at = "close", NEW r \in Row, Closed(w, r)
  PROVE  Committed' /\ Logged' /\ Running'
<1> DEFINE t == worker[w]
<1>1. t.pay \in Payments /\ row[t.pay] \in Row
  BY WorkerType DEF RequestFits
<1>2. CASE t.op = "initiate" /\ r.st \notin Open
  <2>1. RequestFits(ReadyToInsert(t.pay, r))
    BY <1>1, ReadyToInsertFits
  <2> QED BY <1>2, <2>1, OnlyRunsType, BecomesType DEF Closed, Running
<1>3. CASE ~(t.op = "initiate" /\ r.st \notin Open)
  <2>1. Commits(t.pay, row[t.pay], r) /\ Ends(w) /\ UNCHANGED <<journal, overtaken>>
    BY <1>3 DEF Closed
  <2> QED BY <1>1, <2>1, CommitsCommitted, EndsType, Parts DEF Running, Logged
<1> QED BY <1>2, <1>3

LEMMA CloseType ==
  ASSUME TypeInv, NEW w \in Workers,
         CloseAccepted(w) \/ CloseRefused(w) \/ CloseUnclear(w) \/ CloseAsksAgain(w)
  PROVE  TypeInv'
<1> DEFINE t == worker[w]
<1>1. t.pay \in Payments /\ t.draft \in Row /\ row[t.pay] \in Row /\ BankTypeOK
  BY WorkerType, Parts
     DEF CloseAccepted, CloseRefused, CloseUnclear, CloseAsksAgain, RequestFits
<1>2. CASE CloseAccepted(w)
  <2>1. BankTypeOK'
    BY <1>1, <1>2, CallsType DEF CloseAccepted
  <2>2. After(t.draft, bank'[t.pay].st, TRUE) \in Row
    BY <1>1, <2>1, AfterType DEF BankTypeOK, BankRecord
  <2> QED BY <1>2, <2>1, <2>2, ClosedType, PartsNext DEF CloseAccepted
<1>3. CASE CloseRefused(w)
  <2>1. BankTypeOK'
    BY <1>1, <1>3, CallsType DEF CloseRefused
  <2>2. [t.draft EXCEPT !.st = "closed"] \in Row
    BY <1>1 DEF Row, PaymentStatus, UnpaidClosed
  <2> QED BY <1>3, <2>1, <2>2, ClosedType, PartsNext DEF CloseRefused
<1>4. CASE CloseUnclear(w)
  <2>1. BankTypeOK'
    BY <1>1, <1>4, CallsType DEF CloseUnclear
  <2>2. RequestFits([t EXCEPT !.at = "reask", !.seen = "none"])
    BY <1>1, WorkerType DEF RequestFits, Request, Steps, BankStatus
  <2> QED BY <1>4, <2>1, <2>2, BecomesType, OnlyRunsType, PartsNext
          DEF CloseUnclear, Running
<1>5. CASE CloseAsksAgain(w)
  <2>1. PICK answered \in BOOLEAN : Commits(t.pay, row[t.pay], AskAgain(w, answered))
    BY <1>5 DEF CloseAsksAgain
  <2>2. AskAgain(w, answered) \in Row
    BY <1>1, AfterType DEF AskAgain, BankTypeOK, BankRecord
  <2>3. BankTypeOK' /\ Logged' /\ Running'
    BY <1>1, <1>5, CallsType, EndsType, Parts
       DEF CloseAsksAgain, OnlyCommits, Logged, Running
  <2> QED BY <1>1, <2>1, <2>2, <2>3, CommitsCommitted, PartsNext
<1> QED BY <1>2, <1>3, <1>4, <1>5

LEMMA InitType ==
  ASSUME TypeInv, NEW w \in Workers,
         InsertAbandoned(w) \/ InitAnswered(w) \/ InitUnanswered(w)
  PROVE  TypeInv'
<1> DEFINE t == worker[w]
<1>1. \A new, r : r \in Row /\ CommitsOld(w, new, r) => row' \in [Payments -> Row]
  BY WorkerType DEF CommitsOld, TypeInv, TypeOK
<1>2. CASE InsertAbandoned(w)
  <2>1. row' \in [Payments -> Row]
    BY <1>1, <1>2, RowConstants DEF InsertAbandoned, TypeInv, TypeOK
  <2>2. Committed' /\ Logged'
    BY <1>2, <2>1 DEF InsertAbandoned, OnlyCommits, Committed, Logged, TypeInv, TypeOK
  <2>3. BankTypeOK' /\ Running'
    BY <1>2, EndsType, Parts DEF InsertAbandoned, OnlyCommits, Running, BankTypeOK
  <2> QED BY <2>2, <2>3, PartsNext
<1>3. CASE InitAnswered(w) \/ InitUnanswered(w)
  <2>1. row' \in [Payments -> Row]
    BY <1>1, <1>3, RowConstants DEF InitAnswered, InitUnanswered
  <2>2. Committed' /\ Logged'
    BY <1>3, <2>1 DEF InitAnswered, InitUnanswered, Committed, Logged, TypeInv, TypeOK
  <2>3. t.new \in Payments
    BY <1>3, WorkerType DEF InitAnswered, InitUnanswered, RequestFits
  <2>4. BankTypeOK' /\ Running'
    BY <1>3, <2>3, EndsType, CallsType, Parts DEF InitAnswered, InitUnanswered, Running
  <2> QED BY <2>2, <2>4, PartsNext
<1> QED BY <1>2, <1>3

LEMMA StartRefundType ==
  ASSUME TypeInv, NEW w \in Workers, NEW p \in Payments, StartRefund(w, p)
  PROVE  TypeInv'
<1> DEFINE r == AttemptOf(row[p])
<1>1. row[p] \in Row /\ (row[p].st = "succeeded" => row[p].att < MaxAttempts)
  BY DEF StartRefund, TypeInv, TypeOK
<1>2. r \in Row
  BY <1>1, AttemptType
<1>3. r.key \in Keys
  <2>1. CASE row[p].st = "succeeded"
    BY <1>1, <2>1, AttemptType
  <2>2. CASE row[p].st # "succeeded"
    BY <1>1, <2>2 DEF StartRefund, AttemptOf, Row
  <2> QED BY <2>1, <2>2
<1>4. RequestFits([Idle EXCEPT !.at = "refund", !.op = "refund", !.pay = p, !.draft = r])
  BY <1>2, <1>3 DEF RequestFits, Idle, Request, Steps, Ops, BankStatus
<1>5. Running'
  BY <1>4, BecomesType DEF StartRefund, Running
<1> QED BY <1>5, OnlyRunsType, CallsType, Parts, PartsNext DEF StartRefund

LEMMA RefundType ==
  ASSUME TypeInv, NEW w \in Workers,
         \/ RefundAnswered(w) \/ RefundUnanswered(w) \/ RefundIsRefused(w)
         \/ RefundAsksState(w)
  PROVE  TypeInv'
<1> DEFINE t == worker[w]
<1>1. t.pay \in Payments /\ t.draft \in Row /\ BankTypeOK
      /\ (t.at = "refund" => t.draft.key \in Keys)
  BY WorkerType, Parts
     DEF RefundAnswered, RefundUnanswered, RefundIsRefused, RefundAsksState, RequestFits
<1>2. CASE RefundAnswered(w)
  <2>1. BankTypeOK'
    BY <1>1, <1>2, CallsType DEF RefundAnswered
  <2>2. After(t.draft, bank'[t.pay].st, TRUE) \in Row
    BY <1>1, <2>1, AfterType DEF BankTypeOK, BankRecord
  <2>3. Committed'
    BY <1>1, <1>2, <2>2, CommitsCommitted DEF RefundAnswered
  <2> QED BY <1>2, <2>1, <2>3, EndsType, Parts, PartsNext
          DEF RefundAnswered, Logged, Running
<1>3. CASE RefundUnanswered(w)
  <2>1. BankTypeOK'
    BY <1>1, <1>3, CallsType DEF RefundUnanswered
  <2>2. Committed'
    BY <1>1, <1>3, CommitsCommitted DEF RefundUnanswered
  <2> QED BY <1>3, <2>1, <2>2, EndsType, Parts, PartsNext
          DEF RefundUnanswered, Logged, Running
<1>4. CASE RefundIsRefused(w)
  <2>1. RequestFits([t EXCEPT !.at = "refundask"])
    BY <1>1, WorkerType DEF RequestFits, Request, Steps
  <2>2. Running'
    BY <1>4, <2>1, BecomesType DEF RefundIsRefused, Running
  <2> QED BY <1>1, <1>4, <2>2, OnlyRunsType, CallsType, PartsNext DEF RefundIsRefused
<1>5. CASE RefundAsksState(w)
  <2>1. PICK s \in {bank[t.pay].st, "none"} :
          Commits(t.pay, t.draft, AfterRefusal(t.draft, s))
    BY <1>5 DEF RefundAsksState
  <2>2. s \in BankStatus
    BY <1>1, <2>1 DEF BankTypeOK, BankRecord, BankStatus
  <2>3. Committed'
    BY <1>1, <2>1, <2>2, RefusalType, CommitsCommitted
  <2>4. BankTypeOK' /\ Logged' /\ Running'
    BY <1>1, <1>5, CallsType, EndsType, Parts
       DEF RefundAsksState, OnlyCommits, Logged, Running
  <2> QED BY <2>3, <2>4, PartsNext
<1> QED BY <1>2, <1>3, <1>4, <1>5

LEMMA NotificationType ==
  ASSUME TypeInv
  PROVE  /\ \A w \in Workers : NotificationApplied(w) => TypeInv'
         /\ \A p \in Payments, s \in Announced :
              /\ NotificationIgnored(p, s) => TypeInv'
              /\ \A w \in Workers : Notified(w, p, s) => TypeInv'
<1>1. ASSUME NEW w \in Workers, NotificationApplied(w)
      PROVE  TypeInv'
  <2> DEFINE t == worker[w]
  <2>1. t.pay \in Payments /\ t.draft \in Row /\ t.note \in Announced
        /\ Applied(w) \in Row
    BY <1>1, WorkerType DEF NotificationApplied, RequestFits
  <2>2. [Applied(w) EXCEPT !.bid = TRUE] \in Row
    BY <2>1 DEF Row
  <2>3. Committed'
    BY <1>1, <2>1, <2>2, CommitsCommitted DEF NotificationApplied
  <2>4. BankTypeOK' /\ Logged'
    BY <1>1, <2>1, Parts DEF NotificationApplied, Logged, BankTypeOK
  <2>5. Running'
    BY <1>1, EndsType DEF NotificationApplied, Running
  <2> QED BY <2>3, <2>4, <2>5, PartsNext
<1>2. ASSUME NEW p \in Payments, NEW s \in Announced, NotificationIgnored(p, s)
      PROVE  TypeInv'
  BY <1>2 DEF NotificationIgnored, TypeInv, TypeOK, BankTypeOK, RequestOK
<1>3. ASSUME NEW p \in Payments, NEW s \in Announced, NEW w \in Workers, Notified(w, p, s)
      PROVE  TypeInv'
  BY <1>3, AsksType DEF Notified, Ops
<1> QED BY <1>1, <1>2, <1>3

LEMMA PollType ==
  ASSUME TypeInv, NEW w \in Workers
  PROVE  /\ \A p \in Payments : StartPoll(w, p) => TypeInv'
         /\ PollAnswered(w) \/ PollApplied(w) \/ PollDiscarded(w) \/ Dies(w) => TypeInv'
<1> DEFINE t == worker[w]
<1>1. ASSUME NEW p \in Payments, StartPoll(w, p)
      PROVE  TypeInv'
  <2>1. row[p] \in Row
    BY DEF TypeInv, TypeOK
  <2>2. RequestFits([Idle EXCEPT !.at = "polled", !.op = "poll", !.pay = p,
                                 !.draft = row[p]])
    BY <2>1 DEF RequestFits, Idle, Request, Steps, Ops, BankStatus
  <2>3. Running'
    BY <1>1, <2>2, BecomesType DEF StartPoll, Running
  <2> QED BY <1>1, <2>3, OnlyRunsType, CallsType, Parts, PartsNext DEF StartPoll
<1>2. CASE PollAnswered(w)
  <2>1. t.pay \in Payments /\ BankTypeOK
    BY <1>2, WorkerType, Parts DEF PollAnswered, RequestFits
  <2>2. RequestFits([t EXCEPT !.at = "pollseen", !.seen = bank[t.pay].st,
                              !.right = bank[t.pay].right])
    BY <2>1, WorkerType DEF RequestFits, Request, Steps, BankTypeOK, BankRecord
  <2>3. Running'
    BY <1>2, <2>2, BecomesType DEF PollAnswered, Running
  <2> QED BY <1>2, <2>1, <2>3, OnlyRunsType, CallsType, PartsNext DEF PollAnswered
<1>3. CASE PollApplied(w)
  <2>1. t.pay \in Payments /\ row[t.pay] \in Row /\ Applied(w) \in Row
    BY <1>3, WorkerType DEF PollApplied, RequestFits
  <2>2. Committed'
    BY <1>3, <2>1, CommitsCommitted DEF PollApplied
  <2>3. BankTypeOK' /\ Logged' /\ Running'
    BY <1>3, <2>1, CallsType, EndsType, Parts DEF PollApplied, Logged, Running
  <2> QED BY <2>2, <2>3, PartsNext
<1>4. CASE PollDiscarded(w) \/ Dies(w)
  <2>1. Ends(w) /\ OnlyRuns /\ (UNCHANGED <<bank, inbox>> \/ CallMayReachBank(w))
    BY <1>4 DEF PollDiscarded, Dies
  <2>2. BankTypeOK'
    BY <2>1, WorkerType, CallsType, Parts DEF CallMayReachBank, RequestFits, BankTypeOK
  <2>3. Running'
    BY <2>1, EndsType DEF Running
  <2> QED BY <2>1, <2>2, <2>3, OnlyRunsType, PartsNext
<1> QED BY <1>1, <1>2, <1>3, <1>4

LEMMA WorldType ==
  ASSUME TypeInv, NEW p \in Payments, World(p)
  PROVE  TypeInv'
<1>1. BankTypeOK'
  BY BankNextType, Parts DEF World, BuyerPays
<1> QED BY <1>1 DEF World, TypeInv, TypeOK, RequestOK

LEMMA FirstType ==
  Init => TypeInv
<1> SUFFICES ASSUME Init PROVE TypeInv
  OBVIOUS
<1>1. BankTypeOK
  BY DEF Init, BankInit, BankTypeOK, Unknown, BankRecord, BankStatus, Money
<1>2. Running
  BY IdleFits DEF Init, Running, RequestOK, RequestFits
<1> QED BY <1>1, <1>2, Parts, RowConstants DEF Init, Committed, Logged

LEMMA NextType ==
  TypeInv /\ [Next]_vars => TypeInv'
<1> SUFFICES ASSUME TypeInv, [Next]_vars PROVE TypeInv'
  OBVIOUS
<1>1. ASSUME NEW w \in Workers, Works(w) PROVE TypeInv'
  <2>1. ASSUME NEW p \in Payments,
               \/ InitiateOverDeadLink(w, p) \/ InsertPayment(w, p) \/ CancelLink(w, p)
               \/ RetireLink(w, p) \/ StartRefund(w, p) \/ StartPoll(w, p)
               \/ \E s \in Announced : Notified(w, p, s)
        PROVE  TypeInv'
    BY <2>1, InitiateType, StartRefundType, PollType, NotificationType
  <2> QED BY <1>1, <2>1, InitiateFreshType, AskedType, CloseType, InitType, RefundType,
             NotificationType, PollType DEF Works
<1>2. CASE UNCHANGED vars
  BY <1>2 DEF vars, TypeInv, TypeOK, BankTypeOK, RequestOK
<1> QED BY <1>1, <1>2, WorldType, NotificationType DEF Next

(***************************************************************************)
(* Every value the payments, the requests, the bank and the journal take   *)
(* is of its type, for any number of payments, workers and attempts.       *)
(***************************************************************************)
THEOREM TypeInductive == Spec => []TypeInv
  BY FirstType, NextType, PTL DEF Spec

THEOREM TypeCorrect == Spec => []TypeOK
<1>1. TypeInv => TypeOK
  BY DEF TypeInv
<1> QED BY <1>1, TypeInductive, PTL

=============================================================================
