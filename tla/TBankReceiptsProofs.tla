------------------------ MODULE TBankReceiptsProofs ------------------------
(***************************************************************************)
(* The payments and the closing receipts side by side (TBankReceipts), for *)
(* any payments, workers, senders and attempts: the payments run as they   *)
(* did alone, they do to the receipts' money nothing that ClosingReceipts  *)
(* does not expect, and so money the bank has returned is reported, which  *)
(* neither of the two models says by itself.                               *)
(***************************************************************************)
EXTENDS TBankReceipts, TBankBooksProofs

\* ClosingReceipts with its theorems, over the same rows.
Proved == INSTANCE ClosingReceiptsProofs WITH MaxAttempts <- MaxTries, Surprises <- Spoilers

(***************************************************************************)
(* What a transaction may do to the money of a row, as the receipts see    *)
(* it: nothing, or one of the actions Money of ClosingReceipts.            *)
(***************************************************************************)
SameMoney(old, r) == PayOf(r) = PayOf(old) /\ PartOf(r) = PartOf(old)
Pays(old, r) == PayOf(old) = "open" /\ PayOf(r) = "paid" /\ ~PartOf(r)
Undone(old, r) == PayOf(old) = "open" /\ PayOf(r) \in {"returning", "refunded"}
GoneBack(old, r) == PayOf(old) = "paid" /\ PayOf(r) \in {"returning", "refunded"}
Done(old, r) == PayOf(old) \in {"ordered", "returning"} /\ PayOf(r) = "refunded"
Rejected(old, r) == /\ PayOf(old) \in {"ordered", "returning"}
                    /\ PayOf(r) = "paid" /\ ~PartOf(r) /\ GaveRefundUp(old, r)
Halved(old, r) == /\ PayOf(old) \in {"paid", "ordered", "returning"} /\ ~PartOf(old)
                  /\ PayOf(r) = "paid" /\ PartOf(r)
Expected(old, r) ==
  \/ SameMoney(old, r) \/ Pays(old, r) \/ Undone(old, r) \/ GoneBack(old, r)
  \/ Done(old, r) \/ Rejected(old, r) \/ Halved(old, r)

LEMMA MoneyTable ==
  ASSUME NEW r \in Row
  PROVE  /\ PayOf(r) = "paid" <=> r.st = "succeeded"
         /\ PayOf(r) = "refunded" <=> r.st = "refunded"
         /\ PayOf(r) = "ordered" <=> r.st = "refund_requested" /\ r.key # NoKey
         /\ PayOf(r) = "returning" <=> r.st = "refund_requested" /\ r.key = NoKey
         /\ PayOf(r) = "open" <=> r.st \notin Counted
         /\ PartOf(r) <=> r.st = "succeeded" /\ r.prov = "PARTIAL_REFUNDED"
         /\ PartOf(r) \in BOOLEAN
  BY DEF PayOf, PartOf, Counted

\* apply_bank_state does nothing else.
LEMMA AfterExpected ==
  ASSUME NEW r \in Row, KeyFits(r), NEW s \in BankStatus, NEW right \in BOOLEAN,
         After(r, s, right) \in Row
  PROVE  Expected(r, After(r, s, right))
<1> DEFINE x == After(r, s, right)
<1>1. CASE s = "CONFIRMED"
  <2>1. x = IF r.st \notin Counted THEN PaidAs(r, right) ELSE r
    BY <1>1 DEF After, FinalUnpaid, MayCount
  <2>2. SameMoney(r, x) \/ Pays(r, x)
    BY <2>1 DEF PaidAs, Row, SameMoney, Pays, PayOf, PartOf, Counted
  <2> QED BY <2>2 DEF Expected
<1>2. CASE s \in {"NEW", "MOVING", "none"}
  <2>1. x = r \/ (r.st \in Open /\ x = [r EXCEPT !.prov = s])
    BY <1>2 DEF After, FinalUnpaid
  <2>2. SameMoney(r, x)
    BY <2>1 DEF Row, SameMoney, PayOf, PartOf, Open
  <2> QED BY <2>2 DEF Expected
<1>3. CASE s \in FinalUnpaid
  <2>1. \/ x = r
        \/ r.st \in Open /\ x = [r EXCEPT !.st = UnpaidAs(s), !.prov = s]
        \/ r.st = "refund_requested" /\ x = RefundFailed(r)
    BY <1>3 DEF After, FinalUnpaid
  <2>2. SameMoney(r, x) \/ Rejected(r, x)
    BY <2>1 DEF Row, SameMoney, Rejected, GaveRefundUp, PayOf, PartOf, Open, UnpaidAs, RefundFailed
  <2> QED BY <2>2 DEF Expected
<1>4. CASE s \in {"REFUNDING", "REFUNDED"}
  <2>1. x = IF r.st # "refunded"
            THEN [r EXCEPT !.st = Returning(s), !.prov = s, !.key = KeyAfter(r, s)] ELSE r
    BY <1>4 DEF After, FinalUnpaid
  <2>2. r.st \notin {"refund_requested", "refunded"} => r.key = NoKey
    BY DEF KeyFits
  <2>3. SameMoney(r, x) \/ Undone(r, x) \/ GoneBack(r, x) \/ Done(r, x)
    BY <1>4, <2>1, <2>2
       DEF Row, SameMoney, Undone, GoneBack, Done, PayOf, PartOf, Returning, KeyAfter
  <2> QED BY <2>3 DEF Expected
<1>5. CASE s = "PARTIAL_REFUNDED"
  <2>1. x = IF r.prov # s /\ r.st \in {"succeeded", "refund_requested"}
            THEN [r EXCEPT !.st = "succeeded", !.prov = s, !.key = NoKey] ELSE r
    BY <1>5 DEF After, FinalUnpaid
  <2>2. SameMoney(r, x) \/ Halved(r, x)
    BY <1>5, <2>1 DEF Row, SameMoney, Halved, PayOf, PartOf
  <2> QED BY <2>2 DEF Expected
<1> QED BY <1>1, <1>2, <1>3, <1>4, <1>5 DEF BankStatus, FinalUnpaid

\* From an open row nothing but Same, Pays and Undone is expected.
LEMMA OpenExpected ==
  ASSUME NEW r, NEW d, NEW x, PayOf(r) = "open", PayOf(d) = "open", ~PartOf(r), ~PartOf(d),
         Expected(d, x)
  PROVE  Expected(r, x)
  BY DEF Expected, SameMoney, Pays, Undone, GoneBack, Done, Rejected, Halved, PartOf

\* At most one payment's money is touched.
OthersSame(p) == \A q \in Payments : q # p => SameMoney(row[q], row'[q])
OneMoves == \E p \in Payments : Expected(row[p], row'[p]) /\ OthersSame(p)
Moved == OneMoves \/ \A q \in Payments : SameMoney(row[q], row'[q])

LEMMA StillRows ==
  ASSUME UNCHANGED row
  PROVE  Moved
  BY DEF Moved, SameMoney

LEMMA CommitsMoved ==
  ASSUME TypeInv, NEW p \in Payments, NEW old, NEW r, Commits(p, old, r),
         Expected(row[p], r)
  PROVE  Moved
<1>1. \A q \in Payments : row'[q] = IF q = p THEN r ELSE row[q]
  BY DEF Commits, TypeInv, TypeOK
<1> QED BY <1>1 DEF Moved, OneMoves, OthersSame, SameMoney

(***************************************************************************)
(* The handlers that settle a payment: by what the bank told, under the    *)
(* lock or by a poll that is still fresh.                                  *)
(***************************************************************************)
LEMMA AskedMoved ==
  ASSUME AllInv, TypeInv', NEW w \in Workers,
         \/ AskedAndLeft(w) \/ NotificationApplied(w) \/ PollApplied(w)
  PROVE  Moved
<1> DEFINE p == worker[w].pay
           x == Applied(w)
<1>1. p \in Payments /\ row[p] \in Row /\ worker[w] \in Request /\ KeyFits(row[p])
  BY DEF AllInv, TypeInv, TypeOK, RequestOK, OrdersInv, RowsFit, AskedAndLeft,
         NotificationApplied, PollApplied
<1>2. x \in Row
  BY <1>1, AfterType DEF Applied, Request
<1>3. Expected(row[p], x)
  BY <1>1, <1>2, AfterExpected DEF Applied, Request
<1>4. Expected(row[p], [x EXCEPT !.bid = TRUE])
  BY <1>2, <1>3
     DEF Expected, SameMoney, Pays, Undone, GoneBack, Done, Rejected, Halved, GaveRefundUp,
         PayOf, PartOf, Row
<1>5. \E old : Commits(p, old, x) \/ Commits(p, old, [x EXCEPT !.bid = TRUE])
  BY DEF AskedAndLeft, NotificationApplied, PollApplied
<1> HIDE DEF x, p
<1> QED BY <1>1, <1>3, <1>4, <1>5, CommitsMoved DEF AllInv

(***************************************************************************)
(* Closing a link: its row is open in the books and in the draft.          *)
(***************************************************************************)
LEMMA OpenMoney ==
  ASSUME NEW r \in Row, r.st \in Open
  PROVE  PayOf(r) = "open" /\ ~PartOf(r)
  BY DEF Open, PayOf, PartOf

LEMMA CloseMoved ==
  ASSUME AllInv, NEW w \in Workers,
         \/ CloseAccepted(w) \/ CloseRefused(w) \/ CloseUnclear(w) \/ CloseAsksAgain(w)
  PROVE  Moved
<1> DEFINE p == worker[w].pay
           d == worker[w].draft
<1>1. worker[w].at \in {"close", "reask"}
  BY DEF CloseAccepted, CloseRefused, CloseUnclear, CloseAsksAgain
<1>2. /\ p \in Payments /\ d \in Row /\ d.st \in Open /\ d.key = NoKey
      /\ row[p] \in Row /\ row[p].st \in Open /\ BankTypeOK
  BY <1>1, WorkerCloses DEF AllInv, TypeInv, TypeOK
<1>3. /\ PayOf(row[p]) = "open" /\ ~PartOf(row[p])
      /\ PayOf(d) = "open" /\ ~PartOf(d) /\ KeyFits(d)
  BY <1>2, OpenMoney DEF KeyFits
<1>4. ASSUME NEW s \in BankStatus, NEW right \in BOOLEAN
      PROVE  Expected(row[p], After(d, s, right))
  BY <1>2, <1>3, AfterType, AfterExpected, OpenExpected
<1>5. Expected(row[p], d) /\ Expected(row[p], [d EXCEPT !.st = "closed"])
  <2>1. SameMoney(row[p], d)
    BY <1>3 DEF SameMoney, PartOf
  <2>2. SameMoney(row[p], [d EXCEPT !.st = "closed"])
    BY <1>2, <1>3 DEF SameMoney, PartOf, PayOf, Row
  <2> QED BY <2>1, <2>2 DEF Expected
<1>6. ASSUME NEW r, Expected(row[p], r), Closed(w, r)
      PROVE  Moved
  <2>1. CASE OnlyRuns
    BY <2>1, StillRows DEF OnlyRuns
  <2>2. CASE Commits(p, row[p], r)
    BY <1>2, <1>6, <2>2, CommitsMoved DEF AllInv
  <2> QED BY <1>6, <2>1, <2>2 DEF Closed
<1>7. CASE CloseAccepted(w)
  <2>1. CancelStarts(p) /\ Closed(w, After(d, bank'[p].st, TRUE))
    BY <1>7 DEF CloseAccepted
  <2>2. bank'[p].st \in BankStatus
    BY <1>2, <2>1, CallsType DEF BankTypeOK, BankRecord
  <2> HIDE DEF p, d
  <2> QED BY <1>4, <1>6, <2>1, <2>2
<1>8. CASE CloseRefused(w)
  BY <1>5, <1>6, <1>8 DEF CloseRefused
<1>9. CASE CloseUnclear(w)
  BY <1>9, StillRows DEF CloseUnclear, OnlyRuns
<1>10. CASE CloseAsksAgain(w)
  <2>1. bank[p].st \in BankStatus /\ bank[p].right \in BOOLEAN
    BY <1>2 DEF BankTypeOK, BankRecord
  <2>2. \E answered \in BOOLEAN : Commits(p, row[p], AskAgain(w, answered))
    BY <1>10 DEF CloseAsksAgain
  <2>3. \A answered \in BOOLEAN : Expected(row[p], AskAgain(w, answered))
    BY <1>4, <1>5, <2>1 DEF AskAgain
  <2> QED BY <1>2, <2>2, <2>3, CommitsMoved DEF AllInv
<1> QED BY <1>7, <1>8, <1>9, <1>10

(***************************************************************************)
(* A new link: what the request did to the old one is committed with it.   *)
(***************************************************************************)
LEMMA ReplacedMoves ==
  ASSUME AllInv, NEW w \in Workers, worker[w].at \in Replacing, NEW new, NEW r,
         CommitsOld(w, new, r), PayOf(r) = "open", ~PartOf(r),
         new \in Payments => row[new].st = "absent"
  PROVE  Moved
<1> DEFINE t == worker[w]
           p == t.pay
<1>1. \A q \in Payments : row'[q] = IF q = new THEN r ELSE IF q = p THEN t.draft ELSE row[q]
  BY DEF CommitsOld
<1>2. \A q \in Payments : row[q] \in Row
  BY DEF AllInv, TypeInv, TypeOK
<1>3. new \in Payments => SameMoney(row[new], row'[new])
  BY <1>1, <1>2, MoneyTable DEF Counted, SameMoney, PartOf
<1>4. \A q \in Payments : q # p => SameMoney(row[q], row'[q])
  BY <1>1, <1>3 DEF SameMoney
<1>5. ASSUME p \in Payments, p # new
      PROVE  Expected(row[p], row'[p])
  <2>1. t.op \in Closing
    BY <1>5, WorkerTold DEF AllInv, Told, Replacing
  <2>2. t.draft.key = NoKey /\ row[p].st \in Open
    BY <1>5, <2>1, WorkerTold DEF AllInv, Told
  <2>3. t.draft.st # "succeeded" /\ t.draft \in Row
    BY DEF AllInv, SeenInv, ReplacesNoMoney, TypeInv, TypeOK, Request
  <2>4. PayOf(row[p]) = "open" /\ ~PartOf(row[p])
    BY <1>2, <1>5, <2>2, OpenMoney
  <2>5. PayOf(t.draft) \in {"open", "returning", "refunded"} /\ ~PartOf(t.draft)
    BY <2>2, <2>3 DEF PayOf, PartOf
  <2>6. row'[p] = t.draft
    BY <1>1, <1>5
  <2> QED BY <2>4, <2>5, <2>6 DEF Expected, SameMoney, Undone, PartOf
<1>6. p \in Payments => Expected(row[p], row'[p])
  BY <1>3, <1>5 DEF Expected
<1> QED BY <1>4, <1>6 DEF Moved, OneMoves, OthersSame

LEMMA InitMoved ==
  ASSUME AllInv, NEW w \in Workers,
         InsertAbandoned(w) \/ InitAnswered(w) \/ InitUnanswered(w)
  PROVE  Moved
<1>1. worker[w].at \in Replacing
  BY DEF InsertAbandoned, InitAnswered, InitUnanswered, Replacing
<1>2. \A r \in {Absent, LinkIssued, InitFailed} : PayOf(r) = "open" /\ ~PartOf(r)
  <2>1. \A r \in {Absent, LinkIssued, InitFailed} : r \in Row
    BY RowConstants
  <2>2. Absent.st = "absent" /\ LinkIssued.st = "awaiting_user" /\ InitFailed.st = "failed"
    BY DEF Absent, LinkIssued, InitFailed
  <2> QED BY <2>1, <2>2, MoneyTable DEF Counted
<1>3. CASE InsertAbandoned(w)
  <2>1. row' = row \/ CommitsOld(w, NoPayment, Absent)
    BY <1>3 DEF InsertAbandoned
  <2> QED BY <1>1, <1>2, <2>1, StillRows, ReplacedMoves, NoPaymentAssumption
<1>4. CASE InitAnswered(w) \/ InitUnanswered(w)
  <2>1. row[worker[w].new].st = "absent"
    BY <1>4 DEF InitAnswered, InitUnanswered, AllInv, PaidInv, NewRows
  <2>2. PICK r \in {LinkIssued, InitFailed} : CommitsOld(w, worker[w].new, r)
    BY <1>4 DEF InitAnswered, InitUnanswered
  <2> QED BY <1>1, <1>2, <2>1, <2>2, ReplacedMoves
<1> QED BY <1>3, <1>4

(***************************************************************************)
(* All handlers but those that wait for the answer to a refund of ours.    *)
(***************************************************************************)
LEMMA OthersMoved ==
  ASSUME AllInv, TypeInv', NEW w \in Workers, Works(w), ~InRefund(w)
  PROVE  Moved
<1>1. CASE \/ InitiateFresh(w) \/ AskedAndGoesOn(w) \/ PollAnswered(w) \/ PollDiscarded(w)
           \/ Dies(w)
  BY <1>1, StillRows
     DEF InitiateFresh, AskedAndGoesOn, PollAnswered, PollDiscarded, Dies, OnlyRuns
<1>2. ASSUME NEW p \in Payments,
             \/ InitiateOverDeadLink(w, p) \/ InsertPayment(w, p) \/ CancelLink(w, p)
             \/ RetireLink(w, p) \/ StartRefund(w, p) \/ StartPoll(w, p)
             \/ \E s \in Announced : Notified(w, p, s)
      PROVE  Moved
  BY <1>2, StillRows DEF InitiateOverDeadLink, InsertPayment, CancelLink, RetireLink, StartRefund,
                         StartPoll, Notified, Asks, OnlyRuns
<1>3. ~(\/ RefundAnswered(w) \/ RefundUnanswered(w) \/ RefundIsRefused(w)
        \/ RefundAsksState(w))
  BY DEF RefundAnswered, RefundUnanswered, RefundIsRefused, RefundAsksState, InRefund
<1> QED BY <1>1, <1>2, <1>3, AskedMoved, CloseMoved, InitMoved DEF Works

(***************************************************************************)
(* The same as the receipts see it: with the alert, the queue and the end  *)
(* of retries that belong to it, each change is an action of theirs.       *)
(***************************************************************************)
LEMMA PayMovesAlone ==
  ASSUME NEW p \in Payments, OthersSame(p)
  PROVE  Receipts!PayMoves(p, PayOf(row'[p]), PartOf(row'[p]))
  BY DEF OthersSame, SameMoney, Receipts!PayMoves, pay, part

LEMMA NothingForReceipts ==
  ASSUME \A q \in Payments : SameMoney(row[q], row'[q]), UNCHANGED receiptVars
  PROVE  UNCHANGED Receipts!vars
  BY DEF SameMoney, receiptVars, Receipts!vars, pay, part

LEMMA PaidForReceipts ==
  {p \in Payments : pay'[p] = "paid"} = {p \in Payments : row'[p].st = "succeeded"}
  BY DEF pay, PayOf

LEMMA DueForReceipts ==
  ASSUME NEW w, MarksDueFor(w)
  PROVE  /\ IF docs = "issued"
            THEN Receipts!MarksDue({p \in Payments : pay'[p] = "paid"}, part')
            ELSE UNCHANGED <<cr, tries, told>>
         /\ UNCHANGED <<docs, sender, late, accepted, printed, notices,
                        ordered, refused, checked, unheard>>
  BY PaidForReceipts DEF MarksDueFor, part

LEMMA NoHookForReceipts ==
  ASSUME NEW p \in Payments, OthersSame(p), UNCHANGED receiptVars,
         \/ Pays(row[p], row'[p]) \/ Undone(row[p], row'[p]) \/ Done(row[p], row'[p])
  PROVE  Receipts!Money(p)
<1>1. Receipts!PayMoves(p, PayOf(row'[p]), PartOf(row'[p])) /\ pay[p] = PayOf(row[p])
  BY PayMovesAlone DEF pay
<1>2. PayOf(row'[p]) # "paid" => PartOf(row'[p]) = FALSE
  BY DEF PayOf, PartOf
<1>3. CASE Pays(row[p], row'[p])
  <2>1. PartOf(row'[p]) = FALSE
    BY <1>3 DEF Pays, PartOf
  <2>2. PartOf(row[p]) = FALSE
    BY <1>3 DEF Pays, PayOf, PartOf
  <2>3. \A q \in Payments : PartOf(row'[q]) = PartOf(row[q])
    BY <2>1, <2>2 DEF OthersSame, SameMoney
  <2>4. UNCHANGED part
    BY <2>3 DEF part
  <2>5. pay[p] = "open" /\ pay' = [pay EXCEPT ![p] = "paid"]
    BY <1>1, <1>3 DEF Pays, Receipts!PayMoves
  <2>6. Receipts!Paid(p)
    BY <2>4, <2>5, ReceiptsAssumption DEF Receipts!Paid, receiptVars
  <2> QED BY <2>6 DEF Receipts!Money
<1>4. CASE Undone(row[p], row'[p])
  <2>1. Receipts!PaidAndReturned(p)
    BY <1>1, <1>2, <1>4, ReceiptsAssumption DEF Undone, Receipts!PaidAndReturned, receiptVars
  <2> QED BY <2>1 DEF Receipts!Money
<1>5. CASE Done(row[p], row'[p])
  <2>1. Receipts!RefundDone(p)
    BY <1>1, <1>2, <1>5 DEF Done, Receipts!RefundDone, receiptVars
  <2> QED BY <2>1 DEF Receipts!Money
<1> QED BY <1>3, <1>4, <1>5

LEMMA AlertForReceipts ==
  ASSUME NEW p \in Payments, OthersSame(p), GoneBack(row[p], row'[p]), AlertsOf(p)
  PROVE  Receipts!Money(p)
<1>1. Receipts!PayMoves(p, PayOf(row'[p]), PartOf(row'[p])) /\ pay[p] = PayOf(row[p])
  BY PayMovesAlone DEF pay
<1>2. PartOf(row'[p]) = FALSE
  BY DEF GoneBack, PayOf, PartOf
<1>3. Receipts!CabinetRefundSeen(p)
  BY <1>1, <1>2 DEF GoneBack, AlertsOf, Receipts!CabinetRefundSeen
<1> QED BY <1>3 DEF Receipts!Money

LEMMA PartForReceipts ==
  ASSUME NEW p \in Payments, OthersSame(p), Halved(row[p], row'[p]), GivesUpOn(p)
  PROVE  Receipts!Money(p)
<1>1. /\ Receipts!PayMoves(p, PayOf(row'[p]), PartOf(row'[p]))
      /\ pay[p] = PayOf(row[p]) /\ part[p] = PartOf(row[p])
  BY PayMovesAlone DEF pay, part
<1>2. PartOf(row'[p]) = TRUE
  BY DEF Halved, PartOf
<1>3. Receipts!PartialRefundSeen(p)
  BY <1>1, <1>2 DEF Halved, GivesUpOn, Receipts!PartialRefundSeen
<1> QED BY <1>3 DEF Receipts!Money

LEMMA RejectionForReceipts ==
  ASSUME NEW p \in Payments, OthersSame(p), Rejected(row[p], row'[p]), NEW w, MarksDueFor(w)
  PROVE  Receipts!Money(p)
<1>1. Receipts!PayMoves(p, PayOf(row'[p]), PartOf(row'[p])) /\ pay[p] = PayOf(row[p])
  BY PayMovesAlone DEF pay
<1>2. PartOf(row'[p]) = FALSE
  BY DEF Rejected, PartOf
<1>3. Receipts!RefundFails(p)
  BY <1>1, <1>2, DueForReceipts DEF Rejected, Receipts!MayRefund, Receipts!RefundFails
<1> QED BY <1>3 DEF Receipts!Money

\* The hooks of apply_bank_state fire for the payment that moves, if any.
LEMMA HooksFit ==
  ASSUME NEW old, NEW r, Expected(old, r)
  PROVE  /\ GoesBack(old, r) => GoneBack(old, r)
         /\ GoesInPart(old, r) => Halved(old, r)
         /\ GaveRefundUp(old, r) => Rejected(old, r)
         /\ GoneBack(old, r) => GoesBack(old, r)
         /\ Halved(old, r) => GoesInPart(old, r)
  BY DEF GoesBack, GoesInPart, GaveRefundUp, Expected, SameMoney, Pays, Undone, GoneBack,
         Done, Rejected, Halved, PayOf, PartOf

LEMMA OtherStepExpected ==
  ASSUME AllInv, TypeInv', NEW w \in Workers, OtherStep(w), ~InRefund(w)
  PROVE  [Receipts!Next]_(Receipts!vars)
<1>1. Moved
  BY OthersMoved DEF OtherStep
<1>2. ASSUME NEW p \in Payments, Receipts!Money(p)
      PROVE  [Receipts!Next]_(Receipts!vars)
  BY <1>2 DEF Receipts!Next
<1>3. \A q \in Payments : SameMoney(row[q], row'[q]) => Expected(row[q], row'[q])
  BY DEF Expected
<1>4. ASSUME NEW p \in Payments, SameMoney(row[p], row'[p])
      PROVE  /\ ~GoesBack(row[p], row'[p]) /\ ~GoesInPart(row[p], row'[p])
             /\ ~GaveRefundUp(row[p], row'[p])
  BY <1>4 DEF SameMoney, GoesBack, GoesInPart, GaveRefundUp, PayOf, PartOf
<1>5. CASE \A q \in Payments : SameMoney(row[q], row'[q])
  <2>1. UNCHANGED receiptVars
    BY <1>4, <1>5 DEF OtherStep
  <2> QED BY <1>5, <2>1, NothingForReceipts
<1>6. CASE OneMoves
  <2>1. PICK p \in Payments : Expected(row[p], row'[p]) /\ OthersSame(p)
    BY <1>6 DEF OneMoves
  <2>2. \A q \in Payments : q # p => /\ ~GoesBack(row[q], row'[q])
                                    /\ ~GoesInPart(row[q], row'[q])
                                    /\ ~GaveRefundUp(row[q], row'[q])
    BY <1>4, <2>1 DEF OthersSame
  <2>3. CASE GoesBack(row[p], row'[p]) /\ AlertsOf(p)
    BY <1>2, <2>1, <2>3, HooksFit, AlertForReceipts
  <2>4. CASE GoesInPart(row[p], row'[p]) /\ GivesUpOn(p)
    BY <1>2, <2>1, <2>4, HooksFit, PartForReceipts
  <2>5. CASE GaveRefundUp(row[p], row'[p]) /\ MarksDueFor(w)
    BY <1>2, <2>1, <2>5, HooksFit, RejectionForReceipts
  <2>6. CASE /\ ~GoesBack(row[p], row'[p]) /\ ~GoesInPart(row[p], row'[p])
             /\ ~GaveRefundUp(row[p], row'[p])
             /\ UNCHANGED receiptVars
    <3>1. \/ SameMoney(row[p], row'[p]) \/ Pays(row[p], row'[p]) \/ Undone(row[p], row'[p])
          \/ Done(row[p], row'[p])
      BY <2>1, <2>6, HooksFit DEF Expected, Rejected
    <3>2. CASE SameMoney(row[p], row'[p])
      BY <2>1, <2>6, <3>2, NothingForReceipts DEF OthersSame
    <3> QED BY <1>2, <2>1, <2>6, <3>1, <3>2, NoHookForReceipts
  <2> QED BY <2>2, <2>3, <2>4, <2>5, <2>6 DEF OtherStep
<1> QED BY <1>1, <1>5, <1>6 DEF Moved

(***************************************************************************)
(* A refund of ours: the row is locked from the attempt to the commit, and *)
(* what is committed is the attempt, its end, or its failure.              *)
(***************************************************************************)
LEMMA RefundExpected ==
  ASSUME AllInv, NEW w \in Workers, RefundStep(w)
  PROVE  [Receipts!Next]_(Receipts!vars)
<1> DEFINE p == worker[w].pay
           d == worker[w].draft
<1>1. CASE (RefundIsRefused(w) \/ Dies(w)) /\ UNCHANGED receiptVars
  <2>1. UNCHANGED row
    BY <1>1 DEF RefundIsRefused, Dies, OnlyRuns
  <2> QED BY <1>1, <2>1, NothingForReceipts DEF SameMoney
<1>2. CASE RefundAnswered(w) \/ RefundUnanswered(w) \/ RefundAsksState(w)
  <2>1. worker[w].at \in Returns
    BY <1>2 DEF RefundAnswered, RefundUnanswered, RefundAsksState, Returns
  <2>2. /\ p \in Payments /\ row[p] \in Row /\ d \in Row /\ d.st = "refund_requested"
        /\ d.key # NoKey /\ d = AttemptOf(row[p])
        /\ row[p].st \in {"succeeded", "refund_requested"}
        /\ worker[w].at = "refund" => d.key \in Keys
    BY <2>1, WorkerReturns DEF AllInv
  <2>3. d.prov # "PARTIAL_REFUNDED"
    BY <2>1 DEF AllInv, TellInv, RefundsWhole
  <2>4. Receipts!MayRefund(p)
    <3>1. row[p].st = "succeeded" => d.prov = row[p].prov
      BY <2>2 DEF AttemptOf, NextAttempt, Row
    <3>2. row[p].st = "refund_requested" => row[p].key # NoKey
      BY <2>2 DEF AttemptOf
    <3>3. \/ PayOf(row[p]) = "paid" /\ ~PartOf(row[p])
          \/ PayOf(row[p]) = "ordered"
      BY <2>2, <2>3, <3>1, <3>2, MoneyTable
    <3> QED BY <2>2, <3>3 DEF Receipts!MayRefund, Receipts!Closable, pay, part
  <2>5. ASSUME NEW r, Commits(p, d, r)
        PROVE  /\ row'[p] = r
               /\ Receipts!PayMoves(p, PayOf(r), PartOf(r))
    <3>1. \A q \in Payments : row'[q] = IF q = p THEN r ELSE row[q]
      BY <2>5 DEF Commits, AllInv, TypeInv, TypeOK
    <3>2. row'[p] = r /\ OthersSame(p)
      BY <2>2, <3>1 DEF OthersSame, SameMoney
    <3> QED BY <2>2, <3>2, PayMovesAlone
  <2>6. \A s \in {"REFUNDING", "REFUNDED"} :
          PayOf(After(d, s, TRUE)) \in {"ordered", "refunded"} /\ PartOf(After(d, s, TRUE)) = FALSE
    BY <2>2 DEF After, FinalUnpaid, Returning, KeyAfter, Row, PayOf, PartOf
  <2>7. PayOf(d) = "ordered" /\ PartOf(d) = FALSE
    BY <2>2 DEF PayOf, PartOf
  <2>8. Receipts!Money(p) => [Receipts!Next]_(Receipts!vars)
    BY <2>2 DEF Receipts!Next
  <2>9. CASE RefundAnswered(w) /\ AlertsOf(p)
    <3>1. RefundAccepted(p, d.key) /\ Commits(p, d, After(d, bank'[p].st, TRUE))
          /\ worker[w].at = "refund"
      BY <2>9 DEF RefundAnswered
    <3>2. bank'[p].st \in {"REFUNDING", "REFUNDED"}
      BY <2>2, <3>1, CallsOrders DEF AllInv, OrdersInv, TypeInv, TypeOK, BooksInv
    <3>3. \E status \in {"ordered", "refunded"} : Receipts!PayMoves(p, status, FALSE)
      BY <2>5, <2>6, <3>1, <3>2
    <3>4. Receipts!RefundAnswered(p)
      BY <2>4, <2>9, <3>3 DEF AlertsOf, Receipts!RefundAnswered
    <3> QED BY <2>8, <3>4 DEF Receipts!Money
  <2>10. CASE RefundUnanswered(w) /\ UnheardOf(p)
    <3>1. Commits(p, d, d)
      BY <2>10 DEF RefundUnanswered
    <3>2. Receipts!PayMoves(p, "ordered", FALSE)
      BY <2>5, <2>7, <3>1
    <3>3. Receipts!RefundUnheard(p)
      BY <2>4, <2>10, <3>2 DEF UnheardOf, Receipts!RefundUnheard
    <3> QED BY <2>8, <3>3 DEF Receipts!Money
  <2>11. CASE /\ RefundAsksState(w)
              /\ IF GaveRefundUp(d, row'[p]) THEN MarksDueFor(w) ELSE UnheardOf(p)
    <3>1. PICK s \in {bank[p].st, "none"} : Commits(p, d, AfterRefusal(d, s))
      BY <2>11 DEF RefundAsksState
    <3>2. CASE s = "CONFIRMED"
      <4>1. row'[p] = RefundFailed(d) /\ Receipts!PayMoves(p, PayOf(row'[p]), PartOf(row'[p]))
        BY <2>5, <3>1, <3>2 DEF AfterRefusal
      <4>2. /\ GaveRefundUp(d, row'[p])
            /\ PayOf(row'[p]) = "paid" /\ PartOf(row'[p]) = FALSE
        BY <2>2, <4>1 DEF RefundFailed, GaveRefundUp, Row, PayOf, PartOf
      <4>3. Receipts!RefundFails(p)
        BY <2>4, <2>11, <4>1, <4>2, DueForReceipts DEF Receipts!RefundFails
      <4> QED BY <2>8, <4>3 DEF Receipts!Money
    <3>3. CASE s # "CONFIRMED"
      <4>1. \/ AfterRefusal(d, s) = d
            \/ s \in {"REFUNDING", "REFUNDED"} /\ AfterRefusal(d, s) = After(d, s, TRUE)
        BY <3>3 DEF AfterRefusal
      <4>2. /\ PayOf(AfterRefusal(d, s)) \in {"ordered", "refunded"}
            /\ PartOf(AfterRefusal(d, s)) = FALSE
        BY <2>6, <2>7, <4>1
      <4>3. \E status \in {"ordered", "refunded"} : Receipts!PayMoves(p, status, FALSE)
        BY <2>5, <3>1, <4>2
      <4>4. ~GaveRefundUp(d, row'[p])
        BY <2>5, <3>1, <4>2 DEF GaveRefundUp, PayOf
      <4>5. Receipts!RefundUnheard(p)
        BY <2>4, <2>11, <4>3, <4>4 DEF UnheardOf, Receipts!RefundUnheard
      <4> QED BY <2>8, <4>5 DEF Receipts!Money
    <3> QED BY <3>2, <3>3
  <2> QED BY <2>9, <2>10, <2>11, <1>1 DEF RefundStep
<1> QED BY <1>1, <1>2 DEF RefundStep

(***************************************************************************)
(* The receipts' own steps, and those of the world, leave the money as it  *)
(* is in the books.                                                        *)
(***************************************************************************)
LEMMA ReceiptsExpected ==
  ASSUME ReceiptStep
  PROVE  Receipts!Next
<1>1. CASE Receipts!IssueDocuments \/ Receipts!CancelDisputed
  BY <1>1 DEF Receipts!Next
<1>2. CASE \E s \in Senders : Receipts!Sends(s)
  BY <1>2 DEF Receipts!Next
<1>3. CASE \E p \in Payments :
             Receipts!ExpireStale(p) \/ Receipts!Kassa(p) \/ Receipts!Admin(p)
  BY <1>3 DEF Receipts!Next
<1> QED BY <1>1, <1>2, <1>3 DEF ReceiptStep

LEMMA PaymentStepRuns ==
  ASSUME PaymentStep
  PROVE  Next
<1>1. \A w \in Workers : RefundStep(w) => Works(w)
  BY DEF RefundStep, Works
<1> QED BY <1>1 DEF PaymentStep, OtherStep, Next

LEMMA ComposedRuns ==
  ASSUME [ComposedNext]_composedVars
  PROVE  [Next]_vars
  BY PaymentStepRuns DEF ComposedNext, ReceiptStep, composedVars

LEMMA ComposedExpected ==
  ASSUME AllInv, AllInv', [ComposedNext]_composedVars
  PROVE  [Receipts!Next]_(Receipts!vars)
<1>1. ASSUME NEW w \in Workers, IF InRefund(w) THEN RefundStep(w) ELSE OtherStep(w)
      PROVE  [Receipts!Next]_(Receipts!vars)
  BY <1>1, RefundExpected, OtherStepExpected DEF AllInv
<1>2. CASE UNCHANGED row /\ UNCHANGED receiptVars
  BY <1>2, NothingForReceipts DEF SameMoney
<1>3. ASSUME NEW p \in Payments, World(p), UNCHANGED receiptVars
      PROVE  [Receipts!Next]_(Receipts!vars)
  BY <1>2, <1>3 DEF World
<1>4. ASSUME NEW p \in Payments, NEW s \in Announced, NotificationIgnored(p, s),
             UNCHANGED receiptVars
      PROVE  [Receipts!Next]_(Receipts!vars)
  BY <1>2, <1>4 DEF NotificationIgnored
<1>5. CASE ReceiptStep
  BY <1>5, ReceiptsExpected
<1>6. CASE UNCHANGED composedVars
  BY <1>2, <1>6 DEF composedVars, vars
<1> QED BY <1>1, <1>3, <1>4, <1>5, <1>6 DEF ComposedNext, PaymentStep

(***************************************************************************)
(* Beside the receipts the payments run as they do alone: all that is      *)
(* proved of TBankPayments holds here.  The locks the receipts wait for    *)
(* only take steps away.                                                   *)
(***************************************************************************)
THEOREM PaymentsRunOn == ComposedSpec => Spec
  BY ComposedRuns, PTL DEF ComposedSpec, ComposedInit, Spec

LEMMA ComposedInductive == ComposedSpec => []AllInv
<1>1. Spec => []AllInv
  BY FirstAll, NextAll, PTL DEF Spec
<1> QED BY <1>1, PaymentsRunOn, PTL

(***************************************************************************)
(* Refinement: of the money the receipts see all that can happen to it.    *)
(* ClosingReceipts, which has an idea of the money of its own, loses       *)
(* nothing by it, and what is proved there holds for these payments.       *)
(***************************************************************************)
THEOREM MoneyIsAsReceiptsExpect == ComposedSpec => ReceiptsKnowTheMoney
<1>1. ComposedInit => Receipts!Init
  BY DEF ComposedInit
<1>2. AllInv /\ AllInv' /\ [ComposedNext]_composedVars => [Receipts!Next]_(Receipts!vars)
  BY ComposedExpected
<1> QED BY <1>1, <1>2, ComposedInductive, PTL
        DEF ComposedSpec, ReceiptsKnowTheMoney, Receipts!Spec

\* The two instances of ClosingReceipts are one, definition by definition.
LEMMA SameNext ==
  Receipts!Next => Proved!Next
  BY DEF Receipts!Closable, Proved!Closable, Receipts!RetryAllowed, Proved!RetryAllowed,
         Receipts!NothingToMark, Proved!NothingToMark, Receipts!GivesUp, Proved!GivesUp,
         Receipts!MarksDue, Proved!MarksDue, Receipts!IssueDocuments, Proved!IssueDocuments,
         Receipts!CancelDisputed, Proved!CancelDisputed, Receipts!Paid, Proved!Paid,
         Receipts!Steps, Proved!Steps, Receipts!Sets, Proved!Sets,
         Receipts!Claim, Proved!Claim, Receipts!CannotSend, Proved!CannotSend,
         Receipts!Answered, Proved!Answered, Receipts!BankAccepts, Proved!BankAccepts,
         Receipts!BankDoesNot, Proved!BankDoesNot, Receipts!NotSent, Proved!NotSent,
         Receipts!Straggles, Proved!Straggles, Receipts!Outcome, Proved!Outcome,
         Receipts!TriesAfter, Proved!TriesAfter,
         Receipts!WritesOutcome, Proved!WritesOutcome, Receipts!Dies, Proved!Dies,
         Receipts!LiveOn, Proved!LiveOn, Receipts!AtBank, Proved!AtBank,
         Receipts!Stale, Proved!Stale, Receipts!ExpireStale, Proved!ExpireStale,
         Receipts!StragglerEnds, Proved!StragglerEnds,
         Receipts!KassaPrints, Proved!KassaPrints, Receipts!KassaFails, Proved!KassaFails,
         Receipts!ToldOfFailure, Proved!ToldOfFailure,
         Receipts!ReceiptFailed, Proved!ReceiptFailed, Receipts!Stopped, Proved!Stopped,
         Receipts!MarkSent, Proved!MarkSent, Receipts!MayResend, Proved!MayResend,
         Receipts!OrderResend, Proved!OrderResend, Receipts!MayExist, Proved!MayExist,
         Receipts!Alerts, Proved!Alerts, Receipts!PayMoves, Proved!PayMoves,
         Receipts!MayRefund, Proved!MayRefund,
         Receipts!RefundAnswered, Proved!RefundAnswered,
         Receipts!RefundUnheard, Proved!RefundUnheard,
         Receipts!RefundFails, Proved!RefundFails,
         Receipts!CabinetRefundSeen, Proved!CabinetRefundSeen,
         Receipts!PaidAndReturned, Proved!PaidAndReturned,
         Receipts!RefundDone, Proved!RefundDone,
         Receipts!PartialRefundSeen, Proved!PartialRefundSeen, Receipts!Sends, Proved!Sends,
         Receipts!Kassa, Proved!Kassa, Receipts!Admin, Proved!Admin,
         Receipts!Money, Proved!Money, Receipts!Next, Proved!Next,
         Receipts!Idle, Proved!Idle, Receipts!Answers, Proved!Answers,
         Receipts!ManyRefusals, Proved!ManyRefusals

(***************************************************************************)
(* From the bank to the accountant.  The payments bring every return the   *)
(* bank has announced into the books (NothingForgotten); the receipts, of  *)
(* the money in the books, report what was printed (RefundIsFlaggedHolds). *)
(* Neither sees the other's half.                                          *)
(***************************************************************************)
THEOREM ReturnsAreReported == ComposedSpec => []ReturnedMoneyIsReported
<1>1. ReceiptsKnowTheMoney => Proved!Spec
  <2>1. Receipts!Init => Proved!Init
    BY DEF Receipts!Init, Proved!Init, Receipts!Zero, Proved!Zero,
           Receipts!Idle, Proved!Idle
  <2>2. [Receipts!Next]_(Receipts!vars) => [Proved!Next]_(Proved!vars)
    BY SameNext DEF Receipts!vars, Proved!vars
  <2> QED BY <2>1, <2>2, PTL DEF ReceiptsKnowTheMoney, Receipts!Spec, Proved!Spec
<1>2. Proved!Spec => []Proved!RefundIsFlagged
  <2>1. Spoilers \subseteq Proved!SurpriseKinds
    BY ReceiptsAssumption DEF Receipts!SurpriseKinds, Proved!SurpriseKinds
  <2>2. Proved!IsFiniteSet(Senders)
    BY ReceiptsAssumption DEF IsFiniteSet, Proved!IsFiniteSet
  <2> QED BY <2>1, <2>2, ReceiptsAssumption, Proved!RefundIsFlaggedHolds
<1>3. ASSUME NothingIsForgotten, Proved!RefundIsFlagged
      PROVE  ReturnedMoneyIsReported
  <2> SUFFICES ASSUME NEW p \in Payments, Quiet(p), bank[p].st = "REFUNDED", printed[p] > 0,
                      ordered[p] = 0
               PROVE  p \in checked \union unheard
    BY DEF ReturnedMoneyIsReported
  <2>1. row[p].st = "refunded"
    BY <1>3, Zenon DEF NothingIsForgotten
  <2>2. pay[p] = "refunded"
    BY <2>1 DEF pay, PayOf
  <2> QED BY <1>3, <2>2 DEF Proved!RefundIsFlagged
<1> QED BY <1>1, <1>2, <1>3, PaymentsRunOn, NothingForgotten, MoneyIsAsReceiptsExpect, PTL
=============================================================================
