----------------------- MODULE ClosingReceiptsProofs -----------------------
(***************************************************************************)
(* Proofs about ClosingReceipts, for any payments, senders, limits and     *)
(* surprises: with senders that are slow or late and an admin who does not *)
(* look, the automation by itself still prints one receipt at most.        *)
(***************************************************************************)
EXTENDS ClosingReceipts, FiniteSetTheorems, TLAPS

(***************************************************************************)
(* Type correctness needs that a receipt in the queue has an attempt left, *)
(* and that an attempt under way has been counted.                         *)
(***************************************************************************)
AttemptsCounted ==
  /\ \A p \in Payments : /\ cr[p] = "due" => tries[p] < MaxAttempts
                         /\ cr[p] = "none" => tries[p] = 0
  /\ \A s \in Senders : sender[s] # Idle => sender[s].tries > 0

TypeInv == TypeOK /\ AttemptsCounted

(***************************************************************************)
(* The budget.  What has been or may be printed for p: what the bank has,  *)
(* the failures to be reported, which may put the receipt up for a resend, *)
(* the senders that may still ask the bank or put the receipt back into    *)
(* the queue, and the receipt in the queue itself.                         *)
(***************************************************************************)
Unspent == {"claimed", "refused", "not_sent"}
HoldsIt(b, p) == b # Idle /\ b.p = p /\ b.at \in Unspent
Holders(f, p) == {s \in Senders : HoldsIt(f[s], p)}
One(b) == IF b THEN 1 ELSE 0
Queued(p) == One(cr[p] \in {"due", "failed"})
Spent(p) == AtBank(p) + notices[p] + Cardinality(Holders(sender, p)) + Queued(p)

BudgetKept ==
  \A p \in Payments : /\ Spent(p) <= 1 + ordered[p]
                      /\ cr[p] = "none" => Spent(p) = 0

IInv == TypeInv /\ BudgetKept

LEMMA BusySender ==
  ASSUME TypeOK, NEW s \in Senders, sender[s] # Idle
  PROVE  /\ sender[s] \in Sending
         /\ sender[s].p \in Payments /\ sender[s].tries \in 0..MaxAttempts
  BY DEF TypeOK, Sending

LEMMA MarkingType ==
  ASSUME TypeInv, NEW paid \in SUBSET Payments, NEW partial, MarksDue(paid, partial)
  PROVE  /\ cr' \in [Payments -> ReceiptStatus] /\ tries' \in [Payments -> 0..MaxAttempts]
         /\ told' \subseteq Payments
         /\ \A p \in Payments : /\ cr'[p] = "due" => tries'[p] < MaxAttempts
                                /\ cr'[p] = "none" => tries'[p] = 0
<1> USE MaxAttemptsAssumption DEF TypeInv, TypeOK, AttemptsCounted, ReceiptStatus
<1>1. CASE NothingToMark(paid)
  BY <1>1 DEF MarksDue
<1>2. CASE ~NothingToMark(paid)
  <2>1. \A p \in Payments : cr[p] = "none"
    BY <1>2 DEF NothingToMark
  <2>2. PICK p \in paid :
          \/ cr' = [cr EXCEPT ![p] = "due"] /\ UNCHANGED <<tries, told>>
          \/ GivesUp(p) /\ told' = told \union {p}
    BY <1>2 DEF MarksDue
  <2> QED BY <2>1, <2>2 DEF GivesUp
<1> QED BY <1>1, <1>2

LEMMA SendsType ==
  ASSUME TypeInv, NEW s \in Senders, Sends(s)
  PROVE  TypeInv'
<1> USE MaxAttemptsAssumption DEF TypeInv, TypeOK, AttemptsCounted, ReceiptStatus, Steps, Sets
<1>1. ASSUME NEW p \in Payments, Claim(s, p)  PROVE TypeInv'
  <2>1. tries[p] + 1 \in 1..MaxAttempts
    BY <1>1 DEF Claim, RetryAllowed
  <2>2. [at |-> "claimed", p |-> p, tries |-> tries[p] + 1] \in Sending
    BY <2>1 DEF Sending
  <2> QED BY <1>1, <2>1, <2>2 DEF Claim
<1>2. ASSUME NEW a \in Answers, Answered(s, a),
             late' \in [Payments -> Nat], accepted' \in [Payments -> Nat]
      PROVE  TypeInv'
  <2>1. sender[s] \in Sending /\ sender[s].tries > 0
    BY <1>2, BusySender DEF Answered
  <2>2. /\ [sender[s] EXCEPT !.at = a] \in Sending
        /\ [sender[s] EXCEPT !.at = a].tries > 0
    BY <2>1 DEF Sending
  <2> QED BY <1>2, <2>2 DEF Answered
<1>10. \A a : Answered(s, a) => sender[s].p \in Payments
  BY BusySender DEF Answered
<1>3. CASE CannotSend(s)
  BY <1>3, BusySender DEF CannotSend, GivesUp
<1>4. CASE BankAccepts(s)
  <2>1. PICK a \in Answers : Answered(s, a)
    BY <1>4 DEF BankAccepts, Answers
  <2>2. late' \in [Payments -> Nat] /\ accepted' \in [Payments -> Nat]
    BY <1>4, <1>10, <2>1 DEF BankAccepts
  <2> QED BY <1>2, <2>1, <2>2
<1>5. CASE BankDoesNot(s)
  <2>1. PICK a \in Answers : Answered(s, a)
    BY <1>5 DEF BankDoesNot, Answers
  <2>2. late' \in [Payments -> Nat] /\ accepted' \in [Payments -> Nat]
    BY <1>5, <1>10, <2>1 DEF BankDoesNot
  <2> QED BY <1>2, <2>1, <2>2
<1>6. CASE NotSent(s)
  <2>1. PICK a \in Answers : Answered(s, a)
    BY <1>6 DEF NotSent, Answers
  <2>2. late' \in [Payments -> Nat] /\ accepted' \in [Payments -> Nat]
    BY <1>6, <1>10, <2>1 DEF NotSent
  <2> QED BY <1>2, <2>1, <2>2
<1>7. CASE Straggles(s)
  <2>1. PICK a \in Answers : Answered(s, a)
    BY <1>7 DEF Straggles, Answers
  <2>2. late' \in [Payments -> Nat] /\ accepted' \in [Payments -> Nat]
    BY <1>7, <1>10, <2>1 DEF Straggles
  <2> QED BY <1>2, <2>1, <2>2
<1>8. CASE WritesOutcome(s)
  <2>1. sender[s].p \in Payments /\ sender[s].tries \in 1..MaxAttempts
    BY <1>8, BusySender DEF WritesOutcome
  <2>2. cr' \in [Payments -> ReceiptStatus]
    BY <1>8, <2>1 DEF WritesOutcome, Outcome, Answers
  <2>3. tries' \in [Payments -> 0..MaxAttempts]
    BY <1>8, <2>1 DEF WritesOutcome, TriesAfter
  <2>4. refused' \in [Payments -> 0..ManyRefusals]
    BY <1>8, <2>1 DEF WritesOutcome, ManyRefusals
  <2>5. told' \subseteq Payments
    BY <1>8, <2>1 DEF WritesOutcome
  <2>6. \A p \in Payments : /\ cr'[p] = "due" => tries'[p] < MaxAttempts
                            /\ cr'[p] = "none" => tries'[p] = 0
    BY <1>8, <2>1 DEF WritesOutcome, Outcome, TriesAfter, Answers
  <2>7. /\ sender' \in [Senders -> {Idle} \union Sending]
        /\ \A r \in Senders : sender'[r] # Idle => sender'[r].tries > 0
    BY <1>8 DEF WritesOutcome
  <2> QED BY <1>8, <2>2, <2>3, <2>4, <2>5, <2>6, <2>7 DEF WritesOutcome
<1>9. CASE Dies(s)
  BY <1>9 DEF Dies
<1> QED BY <1>1, <1>3, <1>4, <1>5, <1>6, <1>7, <1>8, <1>9 DEF Sends

LEMMA PaymentStepsType ==
  ASSUME TypeInv, NEW p \in Payments, ExpireStale(p) \/ Kassa(p) \/ Admin(p) \/ Money(p)
  PROVE  TypeInv'
<1> USE MaxAttemptsAssumption, MaxOrdersAssumption
    DEF TypeInv, TypeOK, AttemptsCounted, ReceiptStatus, PayStatus, Sets, GivesUp, PayMoves
<1>1. CASE ExpireStale(p)
  BY <1>1 DEF ExpireStale, Stale
<1>2. CASE StragglerEnds(p)
  BY <1>2 DEF StragglerEnds
<1>3. CASE KassaPrints(p)
  BY <1>3 DEF KassaPrints
<1>4. CASE KassaFails(p)
  BY <1>4 DEF KassaFails
<1>5. CASE ReceiptFailed(p)
  BY <1>5 DEF ReceiptFailed, ToldOfFailure
<1>6. CASE MarkSent(p)
  BY <1>6 DEF MarkSent
<1>7. CASE OrderResend(p)
  BY <1>7 DEF OrderResend, ManyRefusals
<1>8. CASE Paid(p)
  BY <1>8 DEF Paid
<1>9. CASE RefundAnswered(p)
  BY <1>9 DEF RefundAnswered, Alerts
<1>10. CASE RefundUnheard(p)
  BY <1>10 DEF RefundUnheard
<1>11. CASE RefundFails(p)
  <2>1. pay' \in [Payments -> PayStatus] /\ part' \in [Payments -> BOOLEAN]
    BY <1>11 DEF RefundFails
  <2>2. /\ cr' \in [Payments -> ReceiptStatus] /\ tries' \in [Payments -> 0..MaxAttempts]
        /\ told' \subseteq Payments
        /\ \A q \in Payments : /\ cr'[q] = "due" => tries'[q] < MaxAttempts
                               /\ cr'[q] = "none" => tries'[q] = 0
    <3>1. CASE docs = "issued"
      <4>1. MarksDue({q \in Payments : pay'[q] = "paid"}, part')
        BY <1>11, <3>1 DEF RefundFails
      <4> QED BY <4>1, MarkingType
    <3>2. CASE docs # "issued"
      BY <1>11, <3>2 DEF RefundFails
    <3> QED BY <3>1, <3>2
  <2> QED BY <1>11, <2>1, <2>2 DEF RefundFails
<1>12. CASE CabinetRefundSeen(p) \/ PaidAndReturned(p)
  BY <1>12 DEF CabinetRefundSeen, PaidAndReturned, Alerts
<1>13. CASE RefundDone(p)
  BY <1>13 DEF RefundDone
<1>14. CASE PartialRefundSeen(p)
  BY <1>14 DEF PartialRefundSeen
<1> QED BY <1>1, <1>2, <1>3, <1>4, <1>5, <1>6, <1>7, <1>8, <1>9, <1>10, <1>11,
           <1>12, <1>13, <1>14 DEF Kassa, Admin, Money

THEOREM ReceiptsTypeInductive == Spec => []TypeInv
<1>1. Init => TypeInv
  BY MaxAttemptsAssumption, MaxOrdersAssumption
  DEF Init, TypeInv, TypeOK, AttemptsCounted, PayStatus, ReceiptStatus, Zero, ManyRefusals
<1>2. TypeInv /\ [Next]_vars => TypeInv'
  <2> SUFFICES ASSUME TypeInv, [Next]_vars  PROVE TypeInv'
    OBVIOUS
  <2>1. CASE IssueDocuments
    <3>1. MarksDue({p \in Payments : pay[p] = "paid"}, part)
      BY <2>1 DEF IssueDocuments
    <3>2. /\ cr' \in [Payments -> ReceiptStatus] /\ tries' \in [Payments -> 0..MaxAttempts]
          /\ told' \subseteq Payments
          /\ \A p \in Payments : /\ cr'[p] = "due" => tries'[p] < MaxAttempts
                                 /\ cr'[p] = "none" => tries'[p] = 0
      BY <3>1, MarkingType
    <3> QED BY <2>1, <3>2 DEF IssueDocuments, TypeInv, TypeOK, AttemptsCounted
  <2>2. CASE CancelDisputed
    BY <2>2 DEF CancelDisputed, TypeInv, TypeOK, AttemptsCounted
  <2>3. CASE \E s \in Senders : Sends(s)
    BY <2>3, SendsType
  <2>4. CASE \E p \in Payments : ExpireStale(p) \/ Kassa(p) \/ Admin(p) \/ Money(p)
    BY <2>4, PaymentStepsType
  <2>5. CASE UNCHANGED vars
    BY <2>5 DEF vars, TypeInv, TypeOK, AttemptsCounted
  <2> QED BY <2>1, <2>2, <2>3, <2>4, <2>5 DEF Next
<1> QED BY <1>1, <1>2, PTL DEF Spec

(***************************************************************************)
(* A step of one sender changes the number of holders of a payment by what *)
(* the sender held before and what it holds after.                         *)
(***************************************************************************)
LEMMA HoldersAreCounted ==
  ASSUME NEW f, NEW p
  PROVE  IsFiniteSet(Holders(f, p)) /\ Cardinality(Holders(f, p)) \in Nat
<1>1. Holders(f, p) \in SUBSET Senders
  BY DEF Holders
<1>2. IsFiniteSet(Holders(f, p))
  BY <1>1, SendersAssumption, FS_Subset
<1> QED BY <1>2, FS_CardinalityType

LEMMA HolderMoves ==
  ASSUME NEW D, NEW f \in [Senders -> D], NEW s \in Senders, NEW b, NEW p
  PROVE  Cardinality(Holders([f EXCEPT ![s] = b], p))
           = Cardinality(Holders(f, p)) + One(HoldsIt(b, p)) - One(HoldsIt(f[s], p))
<1> DEFINE H == Holders(f, p)
           G == Holders([f EXCEPT ![s] = b], p)
<1>1. IsFiniteSet(H) /\ Cardinality(H) \in Nat
  BY HoldersAreCounted
<1>2. s \in H <=> HoldsIt(f[s], p)
  BY DEF Holders
<1>3. CASE HoldsIt(b, p)
  <2>1. G = H \union {s}
    BY <1>3 DEF Holders
  <2>2. Cardinality(G) = IF s \in H THEN Cardinality(H) ELSE Cardinality(H) + 1
    BY <1>1, <2>1, FS_AddElement
  <2> QED BY <1>1, <1>2, <1>3, <2>2 DEF One
<1>4. CASE ~HoldsIt(b, p)
  <2>1. G = H \ {s}
    BY <1>4 DEF Holders
  <2>2. Cardinality(G) = IF s \in H THEN Cardinality(H) - 1 ELSE Cardinality(H)
    BY <1>1, <2>1, FS_RemoveElement
  <2> QED BY <1>1, <1>2, <1>4, <2>2 DEF One
<1> QED BY <1>3, <1>4

(***************************************************************************)
(* What a step must show for payment q: the budget still holds of it.      *)
(***************************************************************************)
WithinBudget(q) == /\ Spent(q) <= 1 + ordered[q]
                   /\ cr[q] = "none" => Spent(q) = 0

(* What the bank has of q and what comes of it, apart from the senders. *)
Outside(q) == AtBank(q) + notices[q] + Queued(q)

LEMMA SpentIsNat ==
  ASSUME TypeOK, NEW q \in Payments
  PROVE  /\ Outside(q) \in Nat /\ Cardinality(Holders(sender, q)) \in Nat
         /\ Spent(q) = Outside(q) + Cardinality(Holders(sender, q))
         /\ ordered[q] \in Nat
  BY HoldersAreCounted, MaxOrdersAssumption
  DEF TypeOK, Outside, Spent, AtBank, Queued, One

LEMMA SpentIsNatNext ==
  ASSUME TypeOK', NEW q \in Payments
  PROVE  /\ Outside(q)' \in Nat /\ Cardinality(Holders(sender', q)) \in Nat
         /\ Spent(q)' = Outside(q)' + Cardinality(Holders(sender', q))
         /\ ordered'[q] \in Nat
  BY HoldersAreCounted, MaxOrdersAssumption
  DEF TypeOK, Outside, Spent, AtBank, Queued, One

LEMMA SenderMoves ==
  ASSUME TypeOK, NEW s \in Senders, NEW b, Steps(s, b), NEW q
  PROVE  Cardinality(Holders(sender', q))
           = Cardinality(Holders(sender, q)) + One(HoldsIt(b, q)) - One(HoldsIt(sender[s], q))
  BY HolderMoves DEF TypeOK, Steps

(* A step of no sender that spends nothing new. *)
LEMMA NothingSpent ==
  ASSUME IInv, TypeOK', NEW q \in Payments, sender' = sender, ordered' = ordered,
         Outside(q)' <= Outside(q), cr'[q] = "none" => cr[q] = "none"
  PROVE  WithinBudget(q)'
<1>1. TypeOK /\ WithinBudget(q)
  BY DEF IInv, TypeInv, BudgetKept, WithinBudget
<1> QED BY <1>1, SpentIsNat, SpentIsNatNext DEF WithinBudget

LEMMA MarkingIsPaidFor ==
  ASSUME IInv, TypeOK', NEW q \in Payments, NEW paid \in SUBSET Payments, NEW partial,
         MarksDue(paid, partial), UNCHANGED <<sender, ordered, bankVars>>
  PROVE  WithinBudget(q)'
<1>1. TypeOK /\ WithinBudget(q)
  BY DEF IInv, TypeInv, BudgetKept, WithinBudget
<1>2. Outside(q)' - Queued(q)' = Outside(q) - Queued(q)
  BY <1>1 DEF Outside, AtBank, Queued, One, bankVars, TypeOK
<1>3. CASE cr'[q] = cr[q]
  <2>1. Outside(q)' = Outside(q)
    BY <1>1, <1>3 DEF Outside, AtBank, Queued, One, bankVars, TypeOK
  <2> QED BY <2>1, <1>3, NothingSpent, <1>1, SpentIsNat
<1>4. CASE cr'[q] # cr[q]
  <2>1. cr[q] = "none" /\ cr'[q] # "none"
    BY <1>1, <1>4 DEF MarksDue, NothingToMark, GivesUp, TypeOK
  <2>2. Spent(q) = 0 /\ Queued(q) = 0 /\ Queued(q)' \in 0..1
    BY <1>1, <2>1 DEF WithinBudget, Queued, One
  <2> QED BY <1>1, <1>2, <2>1, <2>2, SpentIsNat, SpentIsNatNext DEF WithinBudget
<1> QED BY <1>3, <1>4

LEMMA PaymentStepsBudget ==
  ASSUME IInv, TypeOK', NEW q \in Payments, NEW p \in Payments,
         ExpireStale(p) \/ Kassa(p) \/ Admin(p) \/ Money(p)
  PROVE  WithinBudget(q)'
<1>1. TypeOK /\ WithinBudget(q)
  BY DEF IInv, TypeInv, BudgetKept, WithinBudget
<1> USE <1>1 DEF TypeOK, Outside, AtBank, Queued, One, Sets, GivesUp
<1>2. CASE ExpireStale(p) \/ MarkSent(p)
  BY <1>2, NothingSpent DEF ExpireStale, Stale, MarkSent, Stopped
<1>3. CASE StragglerEnds(p) \/ KassaPrints(p) \/ KassaFails(p)
  BY <1>3, NothingSpent DEF StragglerEnds, KassaPrints, KassaFails
<1>4. CASE ReceiptFailed(p)
  BY <1>4, NothingSpent DEF ReceiptFailed
<1>5. CASE OrderResend(p)
  <2>1. CASE q = p
    <3>1. /\ Outside(q)' <= Outside(q) + 1 /\ ordered'[q] = ordered[q] + 1
          /\ sender' = sender /\ cr'[q] # "none"
      BY <1>5, <2>1 DEF OrderResend
    <3> QED BY <3>1, SpentIsNat, SpentIsNatNext DEF WithinBudget
  <2>2. CASE q # p
    <3>1. /\ Outside(q)' = Outside(q) /\ ordered'[q] = ordered[q]
          /\ sender' = sender /\ cr'[q] = cr[q]
      BY <1>5, <2>2 DEF OrderResend
    <3> QED BY <3>1, SpentIsNat, SpentIsNatNext DEF WithinBudget
  <2> QED BY <2>1, <2>2
<1>6. CASE RefundFails(p)
  <2>1. CASE docs = "issued"
    <3>1. MarksDue({r \in Payments : pay'[r] = "paid"}, part')
      BY <1>6, <2>1 DEF RefundFails
    <3>2. UNCHANGED <<sender, ordered, bankVars>>
      BY <1>6 DEF RefundFails, bankVars
    <3> QED BY <3>1, <3>2, MarkingIsPaidFor
  <2>2. CASE docs # "issued"
    BY <1>6, <2>2, NothingSpent DEF RefundFails
  <2> QED BY <2>1, <2>2
<1>7. CASE PartialRefundSeen(p)
  BY <1>7, NothingSpent DEF PartialRefundSeen
<1>8. CASE Paid(p) \/ RefundAnswered(p) \/ RefundUnheard(p) \/ CabinetRefundSeen(p)
           \/ PaidAndReturned(p)
           \/ RefundDone(p)
  <2>1. UNCHANGED <<cr, sender, late, accepted, printed, notices, ordered>>
    BY <1>8 DEF Paid, RefundAnswered, RefundUnheard, CabinetRefundSeen, PaidAndReturned, RefundDone
  <2>2. Outside(q)' = Outside(q)
    BY <2>1
  <2> QED BY <2>1, <2>2, NothingSpent, SpentIsNat
<1> QED BY <1>2, <1>3, <1>4, <1>5, <1>6, <1>7, <1>8 DEF Kassa, Admin, Money

LEMMA SendsBudget ==
  ASSUME IInv, TypeOK', NEW q \in Payments, NEW s \in Senders, Sends(s)
  PROVE  WithinBudget(q)'
<1>1. TypeOK /\ WithinBudget(q)
  BY DEF IInv, TypeInv, BudgetKept, WithinBudget
<1> DEFINE h == Cardinality(Holders(sender, q))
           hh == Cardinality(Holders(sender', q))
<1>2. /\ Outside(q) \in Nat /\ h \in Nat /\ Spent(q) = Outside(q) + h /\ ordered[q] \in Nat
      /\ Outside(q)' \in Nat /\ hh \in Nat /\ Spent(q)' = Outside(q)' + hh
  BY <1>1, SpentIsNat, SpentIsNatNext
(* It is enough that a step gives back what it takes, *)
<1>3. ASSUME Outside(q)' + hh <= Outside(q) + h, ordered'[q] = ordered[q],
             cr'[q] = "none" => cr[q] = "none"
      PROVE  WithinBudget(q)'
  <2> HIDE DEF h, hh
  <2> QED BY <1>1, <1>2, <1>3 DEF WithinBudget
<1>4. ASSUME NEW b, Steps(s, b)
      PROVE  hh = h + One(HoldsIt(b, q)) - One(HoldsIt(sender[s], q))
  BY <1>1, <1>4, SenderMoves
<1>12. ASSUME NEW a \in Answers, Answered(s, a)
       PROVE  /\ sender[s].p \in Payments
              /\ hh = h - One(sender[s].p = q /\ a \notin Unspent)
  <2> DEFINE b == [sender[s] EXCEPT !.at = a]
  <2>1. sender[s] \in Sending /\ sender[s].at = "claimed" /\ Steps(s, b)
    BY <1>1, <1>12, BusySender DEF Answered
  <2>2. b \in Sending /\ b.p = sender[s].p /\ b.at = a
    BY <2>1 DEF Sending
  <2>3. b # Idle /\ sender[s] # Idle
    BY <1>12, <2>2 DEF Answered, Idle, Answers
  <2>4. /\ HoldsIt(b, q) <=> (sender[s].p = q /\ a \in Unspent)
        /\ HoldsIt(sender[s], q) <=> sender[s].p = q
    BY <2>1, <2>2, <2>3 DEF HoldsIt, Unspent
  <2>5. hh = h + One(HoldsIt(b, q)) - One(HoldsIt(sender[s], q))
    BY <1>4, <2>1
  <2> HIDE DEF h, hh, b
  <2> QED BY <1>2, <2>1, <2>4, <2>5 DEF One, Sending
<1> HIDE DEF h, hh
<1> USE <1>1, <1>2 DEF TypeOK, Outside, AtBank, Queued, One, HoldsIt, Unspent, Sets
<1>5. CASE \E p \in Payments : Claim(s, p)
  <2>1. PICK p \in Payments : Claim(s, p)
    BY <1>5
  <2>2. hh = h + One(p = q)
    BY <2>1, <1>4 DEF Claim, Idle
  <2>3. cr[p] \in {"due", "failed"}
    BY <2>1 DEF Claim, RetryAllowed
  <2> QED BY <1>3, <2>1, <2>2, <2>3 DEF Claim
<1>6. CASE CannotSend(s)
  <2>1. hh = h - One(sender[s].p = q)
    BY <1>6, <1>4 DEF CannotSend
  <2> QED BY <1>3, <1>6, <2>1 DEF CannotSend, GivesUp
<1>7. CASE BankAccepts(s)
  <2>1. PICK a \in {"accepted", "lost"} : Answered(s, a)
    BY <1>7 DEF BankAccepts
  <2>2. sender[s].p \in Payments /\ hh = h - One(sender[s].p = q)
    BY <1>12, <2>1 DEF Answers
  <2>3. /\ accepted' = [accepted EXCEPT ![sender[s].p] = @ + 1]
        /\ UNCHANGED <<cr, late, printed, notices, ordered>>
    BY <1>7, <2>1 DEF BankAccepts, Answered
  <2> QED BY <1>3, <2>2, <2>3
<1>8. CASE BankDoesNot(s) \/ NotSent(s)
  <2>1. PICK a \in Answers : Answered(s, a)
    BY <1>8 DEF BankDoesNot, NotSent, Answers
  <2>2. hh <= h
    BY <1>12, <2>1
  <2>3. UNCHANGED <<cr, late, accepted, printed, notices, ordered>>
    BY <1>8, <2>1 DEF BankDoesNot, NotSent, Answered
  <2> QED BY <1>3, <2>2, <2>3
<1>9. CASE Straggles(s)
  <2>1. Answered(s, "lost")
    BY <1>9 DEF Straggles
  <2>2. sender[s].p \in Payments /\ hh = h - One(sender[s].p = q)
    BY <1>12, <2>1 DEF Answers
  <2>3. /\ late' = [late EXCEPT ![sender[s].p] = @ + 1]
        /\ UNCHANGED <<cr, accepted, printed, notices, ordered>>
    BY <1>9, <2>1 DEF Straggles, Answered
  <2> QED BY <1>3, <2>2, <2>3
<1>10. CASE WritesOutcome(s)
  <2>1. hh = h - One(sender[s].p = q /\ sender[s].at \in {"refused", "not_sent"})
    BY <1>10, <1>4 DEF WritesOutcome, Answers
  <2> QED BY <1>3, <1>10, <2>1 DEF WritesOutcome, Outcome, Answers
<1>11. CASE Dies(s)
  <2>1. hh <= h
    BY <1>11, <1>4 DEF Dies
  <2> QED BY <1>3, <1>11, <2>1 DEF Dies
<1> QED BY <1>5, <1>6, <1>7, <1>8, <1>9, <1>10, <1>11 DEF Sends

LEMMA BudgetAlways == Spec => [](TypeInv /\ BudgetKept)
<1>1. Init => BudgetKept
  <2> SUFFICES ASSUME Init, NEW p \in Payments
               PROVE  Spent(p) = 0 /\ ordered[p] = 0
    BY DEF BudgetKept
  <2>1. Holders(sender, p) = {}
    BY DEF Init, Holders, HoldsIt
  <2> QED BY <2>1, FS_EmptySet DEF Init, Spent, AtBank, Queued, One, Zero
<1>2. BudgetKept /\ TypeInv /\ TypeInv' /\ [Next]_vars => BudgetKept'
  <2> SUFFICES ASSUME IInv, TypeOK', [Next]_vars, NEW q \in Payments  PROVE WithinBudget(q)'
    BY DEF IInv, TypeInv, BudgetKept, WithinBudget
  <2>1. CASE IssueDocuments
    <3>1. MarksDue({p \in Payments : pay[p] = "paid"}, part)
      BY <2>1 DEF IssueDocuments
    <3>2. UNCHANGED <<sender, ordered, bankVars>>
      BY <2>1 DEF IssueDocuments, bankVars
    <3> QED BY <3>1, <3>2, MarkingIsPaidFor
  <2>2. CASE CancelDisputed \/ UNCHANGED vars
    <3>1. /\ Outside(q)' = Outside(q) /\ UNCHANGED <<sender, ordered, cr>>
      BY <2>2 DEF CancelDisputed, vars, Outside, AtBank, Queued
    <3> QED BY <3>1, NothingSpent, SpentIsNat DEF IInv, TypeInv
  <2>3. CASE \E s \in Senders : Sends(s)
    BY <2>3, SendsBudget
  <2>4. CASE \E p \in Payments : ExpireStale(p) \/ Kassa(p) \/ Admin(p) \/ Money(p)
    BY <2>4, PaymentStepsBudget
  <2> QED BY <2>1, <2>2, <2>3, <2>4 DEF Next
<1> QED BY <1>1, <1>2, ReceiptsTypeInductive, PTL DEF Spec

(***************************************************************************)
(* The automation prints one receipt at most; each further one was ordered *)
(* by the admin (_claim, send_closing_receipt, expire_stale_sending).      *)
(***************************************************************************)
THEOREM OneReceiptPerOrderHolds == Spec => []OneReceiptPerOrder
<1>1. TypeInv /\ BudgetKept => OneReceiptPerOrder
  <2> SUFFICES ASSUME TypeOK, BudgetKept, NEW p \in Payments
               PROVE  AtBank(p) <= 1 + ordered[p]
    BY DEF OneReceiptPerOrder, TypeInv
  <2>1. Spent(p) <= 1 + ordered[p] /\ AtBank(p) <= Outside(p)
    BY DEF BudgetKept, TypeOK, Outside, AtBank, Queued, One
  <2> QED BY <2>1, SpentIsNat DEF TypeOK, AtBank
<1> QED BY <1>1, BudgetAlways, PTL

(***************************************************************************)
(* One closing receipt per application.  Only mark_closing_receipt_due     *)
(* gives a payment its first status, and it looks at all of them; nothing  *)
(* takes a status away.  A sender works on a payment that has one.         *)
(***************************************************************************)
SendersKnowTheirs == \A s \in Senders : sender[s] # Idle => cr[sender[s].p] # "none"

SameHaveOne == \A p \in Payments : cr'[p] = "none" <=> cr[p] = "none"

LEMMA MarkingIsTheFirst ==
  ASSUME TypeOK, NEW paid \in SUBSET Payments, NEW partial, MarksDue(paid, partial),
         OnePaymentIsClosed
  PROVE  OnePaymentIsClosed' /\ \A p \in Payments : cr'[p] = "none" => cr[p] = "none"
<1>1. CASE NothingToMark(paid)
  BY <1>1 DEF MarksDue, OnePaymentIsClosed
<1>2. CASE ~NothingToMark(paid)
  <2>1. \A p \in Payments : cr[p] = "none"
    BY <1>2 DEF NothingToMark
  <2>2. PICK p \in paid : \E st \in {"due", "failed"} : cr' = [cr EXCEPT ![p] = st]
    BY <1>2 DEF MarksDue, GivesUp
  <2> QED BY <2>1, <2>2 DEF TypeOK, OnePaymentIsClosed
<1> QED BY <1>1, <1>2

LEMMA SendsKeepStatuses ==
  ASSUME TypeOK, SendersKnowTheirs, NEW s \in Senders, Sends(s)
  PROVE  SameHaveOne /\ SendersKnowTheirs'
<1> USE DEF TypeOK, SendersKnowTheirs, SameHaveOne, Steps, Sets
<1>1. ASSUME NEW p \in Payments, Claim(s, p)  PROVE SameHaveOne /\ SendersKnowTheirs'
  <2>1. cr[p] # "none" /\ cr'[p] # "none"
    BY <1>1 DEF Claim, RetryAllowed
  <2>2. SameHaveOne
    BY <1>1, <2>1 DEF Claim
  <2>3. sender' = [sender EXCEPT ![s] = [at |-> "claimed", p |-> p, tries |-> tries[p] + 1]]
    BY <1>1 DEF Claim
  <2>4. \A r \in Senders : sender[r] # Idle => sender[r].p \in Payments
    BY BusySender
  <2> QED BY <2>1, <2>2, <2>3, <2>4
<1>2. ASSUME NEW a, Answered(s, a)  PROVE SameHaveOne /\ SendersKnowTheirs'
  <2>1. sender[s] \in Sending /\ sender[s] # Idle
    BY <1>2, BusySender DEF Answered
  <2>2. [sender[s] EXCEPT !.at = a].p = sender[s].p
    BY <2>1 DEF Sending
  <2> QED BY <1>2, <2>1, <2>2 DEF Answered
<1>3. CASE CannotSend(s) \/ WritesOutcome(s)
  <2>1. sender[s] # Idle /\ sender[s].p \in Payments
    BY <1>3, BusySender DEF CannotSend, WritesOutcome
  <2>2. \E st \in ReceiptStatus \ {"none"} : cr' = [cr EXCEPT ![sender[s].p] = st]
    BY <1>3 DEF CannotSend, GivesUp, WritesOutcome, Outcome, Answers, ReceiptStatus
  <2>3. SameHaveOne
    BY <2>1, <2>2
  <2>4. sender' = [sender EXCEPT ![s] = Idle]
    BY <1>3 DEF CannotSend, WritesOutcome
  <2>5. \A r \in Senders : sender[r] # Idle => sender[r].p \in Payments
    BY BusySender
  <2> QED BY <2>3, <2>4, <2>5
<1>4. CASE Dies(s)
  BY <1>4 DEF Dies
<1> QED BY <1>1, <1>2, <1>3, <1>4 DEF Sends, BankAccepts, BankDoesNot, NotSent, Straggles

LEMMA PaymentStepsKeepStatuses ==
  ASSUME TypeOK, NEW p \in Payments,
         ExpireStale(p) \/ Kassa(p) \/ Admin(p) \/ (Money(p) /\ ~RefundFails(p))
  PROVE  SameHaveOne /\ sender' = sender
<1> USE DEF TypeOK, SameHaveOne, Sets, GivesUp
<1>1. CASE ExpireStale(p) \/ Admin(p)
  BY <1>1 DEF ExpireStale, Stale, Admin, MarkSent, OrderResend, MayResend, Stopped
<1>2. CASE Kassa(p)
  BY <1>2 DEF Kassa, StragglerEnds, KassaPrints, KassaFails, ReceiptFailed
<1>3. CASE PartialRefundSeen(p)
  BY <1>3 DEF PartialRefundSeen
<1>4. CASE Paid(p) \/ RefundAnswered(p) \/ RefundUnheard(p) \/ CabinetRefundSeen(p)
           \/ PaidAndReturned(p)
           \/ RefundDone(p)
  BY <1>4 DEF Paid, RefundAnswered, RefundUnheard, CabinetRefundSeen, PaidAndReturned, RefundDone
<1> QED BY <1>1, <1>2, <1>3, <1>4 DEF Money

THEOREM OnePaymentIsClosedHolds == Spec => []OnePaymentIsClosed
<1>1. Init => OnePaymentIsClosed /\ SendersKnowTheirs
  BY DEF Init, OnePaymentIsClosed, SendersKnowTheirs
<1>2. OnePaymentIsClosed /\ SendersKnowTheirs /\ TypeInv /\ [Next]_vars
        => (OnePaymentIsClosed /\ SendersKnowTheirs)'
  <2> SUFFICES ASSUME OnePaymentIsClosed, SendersKnowTheirs, TypeOK, [Next]_vars
               PROVE  OnePaymentIsClosed' /\ SendersKnowTheirs'
    BY DEF TypeInv
  <2>1. SameHaveOne => OnePaymentIsClosed'
    BY DEF SameHaveOne, OnePaymentIsClosed
  <2>2. (\A p \in Payments : cr'[p] = "none" => cr[p] = "none") /\ sender' = sender
          => SendersKnowTheirs'
    BY BusySender DEF SendersKnowTheirs
  <2>3. ASSUME NEW paid \in SUBSET Payments, NEW partial, MarksDue(paid, partial),
               sender' = sender
        PROVE  OnePaymentIsClosed' /\ SendersKnowTheirs'
    BY <2>2, <2>3, MarkingIsTheFirst
  <2>4. CASE IssueDocuments
    BY <2>3, <2>4 DEF IssueDocuments
  <2>5. CASE CancelDisputed \/ UNCHANGED vars
    BY <2>1, <2>2, <2>5 DEF CancelDisputed, vars, SameHaveOne
  <2>6. CASE \E s \in Senders : Sends(s)
    BY <2>1, <2>6, SendsKeepStatuses
  <2>7. ASSUME NEW p \in Payments, RefundFails(p)
        PROVE  OnePaymentIsClosed' /\ SendersKnowTheirs'
    <3>1. CASE docs = "issued"
      BY <2>3, <2>7, <3>1 DEF RefundFails
    <3>2. CASE docs # "issued"
      BY <2>1, <2>2, <2>7, <3>2 DEF RefundFails, SameHaveOne
    <3> QED BY <3>1, <3>2
  <2>8. CASE \E p \in Payments :
               ExpireStale(p) \/ Kassa(p) \/ Admin(p) \/ (Money(p) /\ ~RefundFails(p))
    BY <2>1, <2>2, <2>8, PaymentStepsKeepStatuses DEF SameHaveOne
  <2> QED BY <2>4, <2>5, <2>6, <2>7, <2>8 DEF Next
<1> QED BY <1>1, <1>2, ReceiptsTypeInductive, PTL DEF Spec

(***************************************************************************)
(* A refund after a receipt of full payment.  By the budget, a payment     *)
(* whose status says that no receipt may exist has none, and no sender is  *)
(* about to make one; and until money comes, and once it goes back, nobody *)
(* claims the payment.                                                     *)
(***************************************************************************)
GoesUnflagged(p) == /\ pay[p] # "paid"
                    /\ ordered[p] = 0 /\ p \notin checked \union unheard
NoneToCome(p) == AtBank(p) = 0 /\ \A s \in Senders : ~HoldsIt(sender[s], p)
UnflaggedHasNone == \A p \in Payments : GoesUnflagged(p) => NoneToCome(p)

LEMMA NoneIfNotMayExist ==
  ASSUME IInv, NEW p \in Payments, ordered[p] = 0, ~MayExist(p)
  PROVE  NoneToCome(p)
<1>1. TypeOK /\ Spent(p) <= 1 /\ (cr[p] = "none" => Spent(p) = 0)
  BY DEF IInv, TypeInv, BudgetKept
<1>2. cr[p] = "none" \/ Queued(p) = 1
  BY <1>1 DEF MayExist, TypeOK, ReceiptStatus, Queued, One
<1>3. AtBank(p) \in Nat /\ notices[p] \in Nat /\ Queued(p) \in Nat
  BY <1>1 DEF TypeOK, AtBank, Queued, One
<1>4. Spent(p) = AtBank(p) + notices[p] + Cardinality(Holders(sender, p)) + Queued(p)
      /\ Cardinality(Holders(sender, p)) \in Nat
  BY HoldersAreCounted DEF Spent
<1>5. AtBank(p) = 0 /\ Cardinality(Holders(sender, p)) = 0
  BY <1>1, <1>2, <1>3, <1>4
<1>6. Holders(sender, p) = {}
  BY <1>5, HoldersAreCounted, FS_EmptySet
<1> QED BY <1>5, <1>6 DEF NoneToCome, Holders

LEMMA NoneOfEach ==
  ASSUME NEW a \in Nat, NEW b \in Nat, NEW c \in Nat, a + b + c = 0
  PROVE  a = 0 /\ b = 0 /\ c = 0
  OBVIOUS

LEMMA SendsKeepNone ==
  ASSUME TypeOK, NEW s \in Senders, Sends(s), NEW p \in Payments, GoesUnflagged(p),
         NoneToCome(p)
  PROVE  NoneToCome(p)'
<1>1. late[p] = 0 /\ accepted[p] = 0 /\ printed[p] = 0
  <2>1. late[p] + accepted[p] + printed[p] = 0
    BY DEF NoneToCome, AtBank
  <2>2. late[p] \in Nat /\ accepted[p] \in Nat /\ printed[p] \in Nat
    BY DEF TypeOK
  <2> QED BY <2>1, <2>2, NoneOfEach
<1>2. ASSUME NEW q \in Payments, Claim(s, q)
      PROVE  NoneToCome(p)'
  <2>1. q # p
    BY <1>2 DEF Claim, Closable, GoesUnflagged
  <2> QED BY <1>2, <2>1 DEF Claim, NoneToCome, AtBank, HoldsIt, Steps, TypeOK
<1>3. ASSUME NEW a \in Answers, Answered(s, a)
      PROVE  sender[s].p # p /\ \A r \in Senders : ~HoldsIt(sender'[r], p)
  <2>1. sender[s] \in Sending /\ sender[s].p # p
    BY <1>3, BusySender DEF Answered, NoneToCome, HoldsIt, Unspent
  <2>2. [sender[s] EXCEPT !.at = a].p # p
    BY <2>1 DEF Sending
  <2>3. sender' = [sender EXCEPT ![s] = [sender[s] EXCEPT !.at = a]]
    BY <1>3 DEF Answered, Steps
  <2> QED BY <2>1, <2>2, <2>3 DEF NoneToCome, HoldsIt, TypeOK
<1>4. CASE BankAccepts(s) \/ BankDoesNot(s) \/ NotSent(s) \/ Straggles(s)
  <2>1. PICK a \in Answers : Answered(s, a)
    BY <1>4 DEF BankAccepts, BankDoesNot, NotSent, Straggles, Answers
  <2>2. late'[p] = late[p] /\ accepted'[p] = accepted[p] /\ printed' = printed
    BY <1>3, <1>4, <2>1 DEF BankAccepts, BankDoesNot, NotSent, Straggles, Answered, TypeOK
  <2> QED BY <1>1, <1>3, <2>1, <2>2 DEF NoneToCome, AtBank
<1>5. CASE CannotSend(s) \/ WritesOutcome(s) \/ Dies(s)
  BY <1>5 DEF CannotSend, WritesOutcome, Dies, NoneToCome, AtBank, HoldsIt, Steps, TypeOK
<1> QED BY <1>2, <1>4, <1>5 DEF Sends

LEMMA SendsChangeNoMoney ==
  ASSUME NEW s \in Senders, Sends(s)
  PROVE  UNCHANGED <<pay, ordered, checked, unheard>>
  BY DEF Sends, Claim, CannotSend, BankAccepts, BankDoesNot, NotSent, Straggles, Answered,
         WritesOutcome, Dies

LEMMA PaymentStepsKeepNone ==
  ASSUME IInv, UnflaggedHasNone, NEW p \in Payments, NEW q \in Payments,
         ExpireStale(p) \/ Kassa(p) \/ Admin(p) \/ Money(p), GoesUnflagged(q)'
  PROVE  NoneToCome(q)'
<1>1. TypeOK
  BY DEF IInv, TypeInv
<1>2. sender' = sender
  BY DEF ExpireStale, Kassa, StragglerEnds, KassaPrints, KassaFails, ReceiptFailed, Admin,
         MarkSent, OrderResend, Money, Paid, RefundAnswered, RefundUnheard, RefundFails,
         CabinetRefundSeen, PaidAndReturned, RefundDone, PartialRefundSeen
<1>3. GoesUnflagged(q) => late[q] = 0 /\ accepted[q] = 0 /\ printed[q] = 0
  BY <1>1 DEF UnflaggedHasNone, NoneToCome, AtBank, TypeOK
<1>4. CASE ExpireStale(p) \/ MarkSent(p) \/ ReceiptFailed(p)
  <2>1. UNCHANGED <<pay, ordered, checked, unheard, late, accepted, printed>>
    BY <1>4 DEF ExpireStale, MarkSent, ReceiptFailed
  <2> QED BY <1>2, <2>1 DEF UnflaggedHasNone, GoesUnflagged, NoneToCome, AtBank
<1>5. CASE OrderResend(p)
  <2>1. UNCHANGED <<pay, checked, unheard, late, accepted, printed>>
    BY <1>5 DEF OrderResend
  <2>2. q # p => ordered'[q] = ordered[q]
    BY <1>1, <1>5 DEF OrderResend, TypeOK
  <2>3. q # p
    BY <1>5, <2>1 DEF OrderResend, Closable, GoesUnflagged
  <2> QED BY <1>2, <2>1, <2>2, <2>3 DEF UnflaggedHasNone, GoesUnflagged, NoneToCome, AtBank
<1>6. CASE StragglerEnds(p) \/ KassaPrints(p) \/ KassaFails(p)
  <2>1. GoesUnflagged(q)
    BY <1>6 DEF StragglerEnds, KassaPrints, KassaFails, GoesUnflagged
  <2>2. p # q
    BY <1>3, <1>6, <2>1 DEF StragglerEnds, KassaPrints, KassaFails
  <2>3. late'[q] = late[q] /\ accepted'[q] = accepted[q] /\ printed'[q] = printed[q]
    BY <1>1, <1>6, <2>2 DEF StragglerEnds, KassaPrints, KassaFails, TypeOK
  <2> QED BY <1>2, <2>1, <2>3 DEF UnflaggedHasNone, NoneToCome, AtBank
<1>7. CASE RefundAnswered(p) \/ CabinetRefundSeen(p)
  <2>1. /\ UNCHANGED <<cr, ordered, unheard, late, accepted, printed>>
        /\ checked' = IF MayExist(p) THEN checked \union {p} ELSE checked
        /\ p # q => pay'[q] = pay[q]
    BY <1>1, <1>7 DEF RefundAnswered, CabinetRefundSeen, Alerts, PayMoves, TypeOK
  <2>2. CASE p = q
    <3>1. ~MayExist(q) /\ ordered[q] = 0
      BY <2>1, <2>2 DEF GoesUnflagged
    <3> QED BY <1>2, <2>1, <3>1, NoneIfNotMayExist DEF NoneToCome, AtBank
  <2>3. CASE p # q
    <3>1. GoesUnflagged(q)
      BY <2>1, <2>3 DEF GoesUnflagged
    <3> QED BY <1>2, <2>1, <3>1 DEF UnflaggedHasNone, NoneToCome, AtBank
  <2> QED BY <2>2, <2>3
<1>8. CASE RefundUnheard(p) \/ RefundFails(p) \/ PartialRefundSeen(p) \/ Paid(p)
  <2>1. /\ UNCHANGED <<ordered, checked, late, accepted, printed>>
        /\ unheard \subseteq unheard' /\ (p # q => pay'[q] = pay[q])
    BY <1>1, <1>8
       DEF RefundUnheard, RefundFails, PartialRefundSeen, Paid, PayMoves, TypeOK
  <2>2. p # q
    BY <1>1, <1>8 DEF RefundUnheard, RefundFails, PartialRefundSeen, Paid, PayMoves, TypeOK,
                       GoesUnflagged
  <2>3. GoesUnflagged(q)
    BY <2>1, <2>2 DEF GoesUnflagged
  <2> QED BY <1>2, <2>1, <2>3 DEF UnflaggedHasNone, NoneToCome, AtBank
<1>9. CASE RefundDone(p) \/ PaidAndReturned(p)
  <2>1. /\ UNCHANGED <<ordered, checked, unheard, late, accepted, printed>>
        /\ pay[p] # "paid" /\ (p # q => pay'[q] = pay[q])
    BY <1>1, <1>9 DEF RefundDone, PaidAndReturned, PayMoves, TypeOK
  <2>2. GoesUnflagged(q)
    BY <2>1 DEF GoesUnflagged
  <2> QED BY <1>2, <2>1, <2>2 DEF UnflaggedHasNone, NoneToCome, AtBank
<1> QED BY <1>4, <1>5, <1>6, <1>7, <1>8, <1>9 DEF Kassa, Admin, Money

(***************************************************************************)
(* Money returned after a receipt of full payment was printed: the admin   *)
(* was told to check the refund receipt, in whatever order the sender and  *)
(* the refund committed (alert_if_closing_receipt_may_exist).              *)
(***************************************************************************)
THEOREM RefundIsFlaggedHolds == Spec => []RefundIsFlagged
<1>1. Init => UnflaggedHasNone
  BY DEF Init, UnflaggedHasNone, GoesUnflagged, NoneToCome, AtBank, Zero, HoldsIt
<1>2. UnflaggedHasNone /\ TypeInv /\ BudgetKept /\ [Next]_vars => UnflaggedHasNone'
  <2> SUFFICES ASSUME UnflaggedHasNone, IInv, [Next]_vars, NEW q \in Payments,
                      GoesUnflagged(q)'
               PROVE  NoneToCome(q)'
    BY DEF UnflaggedHasNone, IInv
  <2>1. CASE IssueDocuments \/ CancelDisputed \/ UNCHANGED vars
    <3>1. UNCHANGED <<pay, ordered, checked, unheard, sender, late, accepted, printed>>
      BY <2>1 DEF IssueDocuments, CancelDisputed, vars
    <3> QED BY <3>1 DEF UnflaggedHasNone, GoesUnflagged, NoneToCome, AtBank
  <2>2. ASSUME NEW s \in Senders, Sends(s)
        PROVE  NoneToCome(q)'
    <3>1. GoesUnflagged(q)
      BY <2>2, SendsChangeNoMoney DEF GoesUnflagged
    <3> QED BY <2>2, <3>1, SendsKeepNone DEF UnflaggedHasNone, IInv, TypeInv
  <2>3. CASE \E p \in Payments : ExpireStale(p) \/ Kassa(p) \/ Admin(p) \/ Money(p)
    BY <2>3, PaymentStepsKeepNone
  <2> QED BY <2>1, <2>2, <2>3 DEF Next
<1>3. UnflaggedHasNone /\ TypeInv => RefundIsFlagged
  BY DEF UnflaggedHasNone, GoesUnflagged, NoneToCome, AtBank, RefundIsFlagged, TypeInv, TypeOK
<1> QED BY <1>1, <1>2, <1>3, BudgetAlways, PTL DEF Spec

(***************************************************************************)
(* With senders that live no longer than SENDING_STALE_AFTER an attempt    *)
(* under way is alone with its payment, and the row is as it claimed it.   *)
(***************************************************************************)
SendersOwn == \A s \in Senders : sender[s] # Idle =>
  /\ cr[sender[s].p] = "sending" /\ sender[s].tries = tries[sender[s].p]
  /\ refused[sender[s].p] < tries[sender[s].p]
  /\ \A r \in Senders : sender[r] # Idle /\ sender[r].p = sender[s].p => r = s
RefusalsWereTried == \A p \in Payments : refused[p] <= tries[p]
AttemptsInv == TypeInv /\ SendersOwn /\ RefusalsWereTried

LEMMA SendersRest ==
  ASSUME AttemptsInv, sender' = sender, TypeOK',
         \A p \in Payments :
           \/ cr'[p] = cr[p] /\ tries'[p] = tries[p] /\ refused'[p] = refused[p]
           \/ (cr[p] # "sending" \/ LiveOn(p) = {}) /\ refused'[p] <= tries'[p]
  PROVE  SendersOwn' /\ RefusalsWereTried'
<1>1. ASSUME NEW s \in Senders, sender[s] # Idle
      PROVE  /\ sender[s].p \in Payments /\ cr[sender[s].p] = "sending"
             /\ LiveOn(sender[s].p) # {}
  BY <1>1, BusySender DEF AttemptsInv, TypeInv, SendersOwn, LiveOn
<1>2. SendersOwn'
  BY <1>1 DEF AttemptsInv, SendersOwn
<1>3. RefusalsWereTried'
  BY DEF AttemptsInv, RefusalsWereTried
<1> QED BY <1>2, <1>3

LEMMA MarkingRests ==
  ASSUME AttemptsInv, TypeOK', NEW paid \in SUBSET Payments, NEW partial,
         MarksDue(paid, partial), UNCHANGED <<sender, refused>>
  PROVE  SendersOwn' /\ RefusalsWereTried'
<1>1. TypeOK /\ RefusalsWereTried
  BY DEF AttemptsInv, TypeInv
<1>2. \A p \in Payments : /\ tries[p] \in Nat /\ tries[p] <= MaxAttempts
                          /\ refused[p] \in Nat /\ refused[p] <= tries[p]
  BY <1>1, MaxAttemptsAssumption DEF TypeOK, RefusalsWereTried, ManyRefusals
<1>3. CASE NothingToMark(paid)
  BY <1>3, SendersRest DEF MarksDue
<1>4. CASE ~NothingToMark(paid)
  <2>1. \A p \in Payments : cr[p] = "none"
    BY <1>4 DEF NothingToMark
  <2>2. PICK p \in paid : UNCHANGED tries \/ GivesUp(p)
    BY <1>4 DEF MarksDue
  <2>3. \A q \in Payments : refused'[q] <= tries'[q]
    BY <1>1, <1>2, <2>2, MaxAttemptsAssumption DEF GivesUp, TypeOK
  <2> QED BY <2>1, <2>3, SendersRest
<1> QED BY <1>3, <1>4

LEMMA PaymentStepsRest ==
  ASSUME "slow" \notin Surprises, AttemptsInv, TypeOK', NEW p \in Payments,
         ExpireStale(p) \/ Kassa(p) \/ Admin(p) \/ Money(p)
  PROVE  SendersOwn' /\ RefusalsWereTried'
<1>1. TypeOK /\ RefusalsWereTried
  BY DEF AttemptsInv, TypeInv
<1>2. \A q \in Payments : /\ tries[q] \in Nat /\ tries[q] <= MaxAttempts
                          /\ refused[q] \in Nat /\ refused[q] <= tries[q]
  BY <1>1, MaxAttemptsAssumption DEF TypeOK, RefusalsWereTried, ManyRefusals
<1>3. CASE ExpireStale(p)
  <2>1. LiveOn(p) = {} /\ UNCHANGED <<sender, tries, refused>>
        /\ cr' = [cr EXCEPT ![p] = "unknown"]
    BY <1>3 DEF ExpireStale, Stale, Sets
  <2> QED BY <1>1, <1>2, <2>1, SendersRest DEF TypeOK
<1>4. CASE StragglerEnds(p) \/ KassaPrints(p) \/ KassaFails(p) \/ Paid(p) \/ RefundAnswered(p)
           \/ RefundUnheard(p) \/ CabinetRefundSeen(p) \/ RefundDone(p) \/ PaidAndReturned(p)
  <2>1. UNCHANGED <<sender, cr, tries, refused>>
    BY <1>4 DEF StragglerEnds, KassaPrints, KassaFails, Paid, RefundAnswered, RefundUnheard,
                CabinetRefundSeen, PaidAndReturned, RefundDone
  <2> QED BY <2>1, SendersRest
<1>5. CASE ReceiptFailed(p) \/ PartialRefundSeen(p)
  <2>1. /\ UNCHANGED <<sender, refused>>
        /\ UNCHANGED <<cr, tries>> \/ (cr[p] # "sending" /\ GivesUp(p))
    BY <1>5 DEF ReceiptFailed, PartialRefundSeen
  <2>2. \A q \in Payments : \/ cr'[q] = cr[q] /\ tries'[q] = tries[q]
                            \/ cr[q] # "sending" /\ refused'[q] <= tries'[q]
    BY <1>1, <1>2, <2>1 DEF GivesUp, TypeOK
  <2> QED BY <2>1, <2>2, SendersRest
<1>6. CASE MarkSent(p)
  <2>1. UNCHANGED <<sender, tries, refused>> /\ cr[p] # "sending"
        /\ \A q \in Payments : q # p => cr'[q] = cr[q]
    BY <1>1, <1>6 DEF MarkSent, Stopped, Sets, TypeOK
  <2> QED BY <1>2, <2>1, SendersRest
<1>7. CASE OrderResend(p)
  <2>1. /\ sender' = sender /\ cr[p] # "sending" /\ tries'[p] = 0 /\ refused'[p] = 0
        /\ \A q \in Payments : q # p => /\ cr'[q] = cr[q] /\ tries'[q] = tries[q]
                                        /\ refused'[q] = refused[q]
    BY <1>1, <1>7 DEF OrderResend, MayResend, Stopped, Sets, TypeOK
  <2> QED BY <2>1, SendersRest
<1>8. CASE RefundFails(p)
  <2>1. UNCHANGED <<sender, refused>>
    BY <1>8 DEF RefundFails
  <2>2. CASE docs = "issued"
    <3>1. MarksDue({r \in Payments : pay'[r] = "paid"}, part')
      BY <1>8, <2>2 DEF RefundFails
    <3> QED BY <2>1, <3>1, MarkingRests
  <2>3. CASE docs # "issued"
    <3>1. UNCHANGED <<cr, tries>>
      BY <1>8, <2>3 DEF RefundFails
    <3> QED BY <2>1, <3>1, SendersRest
  <2> QED BY <2>2, <2>3
<1> QED BY <1>3, <1>4, <1>5, <1>6, <1>7, <1>8 DEF Kassa, Admin, Money

(* A sender that has done with its payment leaves it to nobody.            *)
LEMMA SenderLetsGo ==
  ASSUME AttemptsInv, TypeOK', NEW s \in Senders, sender[s] # Idle, Steps(s, Idle),
         \A q \in Payments : q # sender[s].p => /\ cr'[q] = cr[q] /\ tries'[q] = tries[q]
                                                /\ refused'[q] = refused[q],
         refused'[sender[s].p] <= tries'[sender[s].p]
  PROVE  SendersOwn' /\ RefusalsWereTried'
<1>1. sender \in [Senders -> {Idle} \union Sending] /\ sender' = [sender EXCEPT ![s] = Idle]
  BY DEF AttemptsInv, TypeInv, TypeOK, Steps
<1>2. \A r \in Senders : sender[r] # Idle => sender[r].p \in Payments
  BY BusySender DEF AttemptsInv, TypeInv
<1>3. \A r \in Senders : sender'[r] # Idle =>
        /\ r # s /\ sender'[r] = sender[r] /\ sender[r].p # sender[s].p
  BY <1>1 DEF AttemptsInv, SendersOwn
<1>4. SendersOwn'
  BY <1>2, <1>3 DEF AttemptsInv, SendersOwn
<1>5. RefusalsWereTried'
  BY DEF AttemptsInv, RefusalsWereTried
<1> QED BY <1>4, <1>5

LEMMA SendsOwn ==
  ASSUME AttemptsInv, TypeOK', NEW s \in Senders, Sends(s)
  PROVE  SendersOwn' /\ RefusalsWereTried'
<1>1. TypeOK /\ RefusalsWereTried /\ SendersOwn
  BY DEF AttemptsInv, TypeInv
<1>2. \A q \in Payments : /\ tries[q] \in Nat /\ tries[q] <= MaxAttempts
                          /\ refused[q] \in Nat /\ refused[q] <= tries[q]
  BY <1>1, MaxAttemptsAssumption DEF TypeOK, RefusalsWereTried, ManyRefusals
<1>3. \A r \in Senders : sender[r] # Idle => sender[r].p \in Payments
  BY <1>1, BusySender
<1>4. ASSUME NEW p \in Payments, Claim(s, p)
      PROVE  SendersOwn' /\ RefusalsWereTried'
  <2>1. PICK b : b = [at |-> "claimed", p |-> p, tries |-> tries[p] + 1]
    OBVIOUS
  <2>2. /\ sender' = [sender EXCEPT ![s] = b] /\ b.p = p /\ b.tries = tries[p] + 1
        /\ cr' = [cr EXCEPT ![p] = "sending"] /\ refused' = refused
        /\ tries' = [tries EXCEPT ![p] = tries[p] + 1] /\ cr[p] # "sending"
    BY <1>4, <2>1 DEF Claim, Steps, Sets, RetryAllowed
  <2>3. /\ cr'[p] = "sending" /\ tries'[p] = tries[p] + 1
        /\ \A q \in Payments : q # p => cr'[q] = cr[q] /\ tries'[q] = tries[q]
    BY <1>1, <2>2 DEF TypeOK
  <2>4. /\ sender'[s] = b
        /\ \A r \in Senders : r # s => sender'[r] = sender[r]
    BY <1>1, <2>2 DEF TypeOK
  <2>5. \A r \in Senders : sender[r] # Idle => sender[r].p # p
    BY <1>1, <2>2 DEF SendersOwn
  <2>6. SendersOwn'
    BY <1>1, <1>2, <1>3, <2>2, <2>3, <2>4, <2>5 DEF SendersOwn
  <2>7. RefusalsWereTried'
    BY <1>1, <1>2, <2>2, <2>3 DEF RefusalsWereTried
  <2> QED BY <2>6, <2>7
<1>5. CASE BankAccepts(s) \/ BankDoesNot(s) \/ NotSent(s) \/ Straggles(s)
  <2>1. PICK a \in Answers : Answered(s, a)
    BY <1>5 DEF BankAccepts, BankDoesNot, NotSent, Straggles, Answers
  <2>2. PICK b : b = [sender[s] EXCEPT !.at = a]
    OBVIOUS
  <2>3. sender[s] \in Sending /\ sender[s] # Idle
    BY <1>1, <2>1, BusySender DEF Answered
  <2>4. b.p = sender[s].p /\ b.tries = sender[s].tries
    BY <2>2, <2>3 DEF Sending
  <2>5. sender' = [sender EXCEPT ![s] = b] /\ UNCHANGED <<cr, tries, refused>>
    BY <2>1, <2>2 DEF Answered, Steps
  <2>6. sender'[s] = b /\ \A r \in Senders : r # s => sender'[r] = sender[r]
    BY <1>1, <2>5 DEF TypeOK
  <2>7. SendersOwn'
    BY <1>1, <2>3, <2>4, <2>5, <2>6 DEF SendersOwn
  <2> QED BY <1>1, <2>5, <2>7 DEF RefusalsWereTried
<1>6. CASE CannotSend(s)
  <2>1. sender[s] # Idle /\ GivesUp(sender[s].p) /\ Steps(s, Idle) /\ refused' = refused
    BY <1>6 DEF CannotSend
  <2>2. sender[s].p \in Payments
    BY <1>3, <2>1
  <2>3. /\ tries'[sender[s].p] = MaxAttempts
        /\ \A q \in Payments : q # sender[s].p => cr'[q] = cr[q] /\ tries'[q] = tries[q]
    BY <1>1, <2>1, <2>2 DEF GivesUp, TypeOK
  <2>4. refused'[sender[s].p] <= tries'[sender[s].p]
    BY <1>2, <2>1, <2>2, <2>3, MaxAttemptsAssumption
  <2> QED BY <2>1, <2>3, <2>4, SenderLetsGo
<1>7. CASE WritesOutcome(s)
  <2>1. /\ sender[s] # Idle /\ sender[s].p \in Payments /\ sender[s].tries = tries[sender[s].p]
        /\ refused[sender[s].p] < tries[sender[s].p] /\ Steps(s, Idle)
        /\ cr' = [cr EXCEPT ![sender[s].p] = Outcome(sender[s].at)]
    BY <1>1, <1>3, <1>7 DEF WritesOutcome, SendersOwn, Sets
  <2>2. \A q \in Payments : q # sender[s].p => /\ cr'[q] = cr[q] /\ tries'[q] = tries[q]
                                               /\ refused'[q] = refused[q]
    BY <1>1, <1>7, <2>1 DEF WritesOutcome, TriesAfter, TypeOK
  <2>3. CASE sender[s].at = "not_sent"
    <3>1. tries'[sender[s].p] = tries[sender[s].p] - 1 /\ refused' = refused
      BY <1>1, <1>7, <2>1, <2>3 DEF WritesOutcome, TriesAfter, TypeOK
    <3> QED BY <1>2, <2>1, <2>2, <3>1, SenderLetsGo
  <2>4. CASE sender[s].at # "not_sent"
    <3>1. /\ tries' = tries
          /\ \/ refused'[sender[s].p] = refused[sender[s].p] + 1
             \/ refused'[sender[s].p] = refused[sender[s].p]
      BY <1>1, <1>7, <2>1, <2>4 DEF WritesOutcome, TriesAfter, TypeOK
    <3> QED BY <1>2, <2>1, <2>2, <3>1, SenderLetsGo
  <2> QED BY <2>3, <2>4
<1>8. CASE Dies(s)
  <2>1. sender[s] # Idle /\ Steps(s, Idle) /\ UNCHANGED <<cr, tries, refused>>
    BY <1>8 DEF Dies
  <2>2. sender[s].p \in Payments
    BY <1>3, <2>1
  <2> QED BY <1>2, <2>1, <2>2, SenderLetsGo
<1> QED BY <1>4, <1>5, <1>6, <1>7, <1>8 DEF Sends

LEMMA AttemptsAlways ==
  ASSUME "slow" \notin Surprises
  PROVE  Spec => []AttemptsInv
<1>1. Init => SendersOwn /\ RefusalsWereTried
  BY DEF Init, SendersOwn, RefusalsWereTried, Zero
<1>2. SendersOwn /\ RefusalsWereTried /\ TypeInv /\ TypeInv' /\ [Next]_vars
        => SendersOwn' /\ RefusalsWereTried'
  <2> SUFFICES ASSUME AttemptsInv, TypeOK', [Next]_vars
               PROVE  SendersOwn' /\ RefusalsWereTried'
    BY DEF AttemptsInv, TypeInv
  <2>1. CASE IssueDocuments
    <3>1. MarksDue({p \in Payments : pay[p] = "paid"}, part) /\ UNCHANGED <<sender, refused>>
      BY <2>1 DEF IssueDocuments
    <3> QED BY <3>1, MarkingRests
  <2>2. CASE CancelDisputed \/ UNCHANGED vars
    <3>1. UNCHANGED <<sender, cr, tries, refused>>
      BY <2>2 DEF CancelDisputed, vars
    <3> QED BY <3>1, SendersRest
  <2>3. CASE \E s \in Senders : Sends(s)
    BY <2>3, SendsOwn
  <2>4. CASE \E p \in Payments : ExpireStale(p) \/ Kassa(p) \/ Admin(p) \/ Money(p)
    BY <2>4, PaymentStepsRest
  <2> QED BY <2>1, <2>2, <2>3, <2>4 DEF Next
<1> QED BY <1>1, <1>2, ReceiptsTypeInductive, PTL DEF Spec, AttemptsInv

(***************************************************************************)
(* Between two orders of the admin the bank refuses at most MaxAttempts    *)
(* times, whatever attempts were not sent: an attempt that is not sent     *)
(* gives back no more than it took (send_closing_receipt).                 *)
(***************************************************************************)
THEOREM RefusalsStayBounded ==
  ASSUME "slow" \notin Surprises
  PROVE  Spec => []RefusalsAreBounded
<1>1. AttemptsInv => RefusalsAreBounded
  <2> SUFFICES ASSUME AttemptsInv, NEW p \in Payments
               PROVE  refused[p] <= MaxAttempts
    BY DEF RefusalsAreBounded
  <2>1. refused[p] \in Nat /\ tries[p] \in Nat /\ tries[p] <= MaxAttempts
        /\ refused[p] <= tries[p]
    BY MaxAttemptsAssumption
    DEF AttemptsInv, TypeInv, TypeOK, RefusalsWereTried, ManyRefusals
  <2> QED BY <2>1, MaxAttemptsAssumption
<1> QED BY <1>1, AttemptsAlways, PTL

(***************************************************************************)
(* A receipt the books call sent, and one a sender has heard accepted, is  *)
(* with the kassa or printed, or its failure is under way; a request the   *)
(* bank has not answered yet would not do, for it may come to nothing.     *)
(***************************************************************************)
Backed(p) == accepted[p] + printed[p] + notices[p] > 0 \/ p \in told
SentIsBacked == \A p \in Payments : cr[p] = "sent" => Backed(p)
HeardIsBacked == \A s \in Senders :
  sender[s] # Idle /\ sender[s].at = "accepted" => Backed(sender[s].p)
BackedInv == SentIsBacked /\ HeardIsBacked

(* A step that takes nothing from what backs a receipt and calls nothing   *)
(* sent or accepted that is not backed.                                    *)
LEMMA BackedStays ==
  ASSUME TypeOK, TypeOK', BackedInv,
         \A p \in Payments : Backed(p) =>
           \/ Backed(p)'
           \/ cr'[p] # "sent" /\ \A s \in Senders : sender'[s] # Idle => sender'[s].p # p,
         \A p \in Payments : cr'[p] = "sent" => cr[p] = "sent" \/ Backed(p)',
         \A s \in Senders, p \in Payments :
           sender'[s] # Idle /\ sender'[s].at = "accepted" /\ sender'[s].p = p
             => sender'[s] = sender[s] \/ Backed(p)'
  PROVE  BackedInv'
<1>1. SentIsBacked'
  BY DEF BackedInv, SentIsBacked
<1>2. \A s \in Senders : /\ sender[s] # Idle => sender[s].p \in Payments
                         /\ sender'[s] # Idle => sender'[s].p \in Payments
  BY DEF TypeOK, Sending
<1>3. ASSUME NEW s \in Senders, sender'[s] # Idle, sender'[s].at = "accepted"
      PROVE  Backed(sender[s].p)'
  BY <1>2, <1>3 DEF BackedInv, HeardIsBacked
<1> QED BY <1>1, <1>3 DEF BackedInv, HeardIsBacked

LEMMA SendsBacked ==
  ASSUME AttemptsInv, TypeOK', BackedInv, NEW s \in Senders, Sends(s)
  PROVE  BackedInv'
<1>1. TypeOK /\ SendersOwn
  BY DEF AttemptsInv, TypeInv
<1>2. \A p \in Payments : /\ accepted[p] \in Nat /\ printed[p] \in Nat /\ notices[p] \in Nat
  BY <1>1 DEF TypeOK
<1>3. \A r \in Senders : sender[r] # Idle => sender[r].p \in Payments
  BY <1>1, BusySender
<1>4. ASSUME NEW p \in Payments, Claim(s, p)
      PROVE  BackedInv'
  <2>1. PICK b : b = [at |-> "claimed", p |-> p, tries |-> tries[p] + 1]
    OBVIOUS
  <2>2. /\ sender' = [sender EXCEPT ![s] = b] /\ b.at = "claimed"
        /\ cr' = [cr EXCEPT ![p] = "sending"] /\ UNCHANGED <<accepted, printed, notices, told>>
    BY <1>4, <2>1 DEF Claim, Steps, Sets
  <2>3. \A q \in Payments : /\ Backed(q) => Backed(q)'
                            /\ cr'[q] = "sent" => cr[q] = "sent"
    BY <1>1, <2>2 DEF Backed, TypeOK
  <2>4. sender'[s] = b /\ \A r \in Senders : r # s => sender'[r] = sender[r]
    BY <1>1, <2>2 DEF TypeOK
  <2> QED BY <1>1, <2>2, <2>3, <2>4, BackedStays
<1>5. ASSUME NEW a \in Answers, Answered(s, a), a = "accepted" => ~UNCHANGED accepted,
             \/ UNCHANGED accepted
             \/ accepted' = [accepted EXCEPT ![sender[s].p] = @ + 1]
      PROVE  BackedInv'
  <2>1. sender[s] \in Sending /\ sender[s] # Idle /\ sender[s].p \in Payments
    BY <1>1, <1>5, BusySender DEF Answered
  <2>2. PICK b : b = [sender[s] EXCEPT !.at = a]
    OBVIOUS
  <2>3. b.p = sender[s].p /\ b.at = a
    BY <2>1, <2>2 DEF Sending
  <2>4. sender' = [sender EXCEPT ![s] = b] /\ UNCHANGED <<cr, printed, notices, told>>
    BY <1>5, <2>2 DEF Answered, Steps
  <2>5. sender'[s] = b /\ \A r \in Senders : r # s => sender'[r] = sender[r]
    BY <1>1, <2>4 DEF TypeOK
  <2>6. \A q \in Payments : Backed(q) => Backed(q)'
    BY <1>1, <1>2, <1>5, <2>1, <2>4 DEF Backed, TypeOK
  <2>7. a = "accepted" => Backed(sender[s].p)'
    <3>1. SUFFICES ASSUME a = "accepted" PROVE Backed(sender[s].p)'
      OBVIOUS
    <3>2. PICK p \in Payments : p = sender[s].p
      BY <2>1
    <3>3. accepted'[p] = accepted[p] + 1
      BY <1>1, <1>5, <3>1, <3>2 DEF TypeOK
    <3>4. Backed(p)'
      BY <1>2, <2>4, <3>3 DEF Backed
    <3> QED BY <3>2, <3>4, <2>3, <2>5
  <2>8. \A r \in Senders, p \in Payments :
           sender'[r] # Idle /\ sender'[r].at = "accepted" /\ sender'[r].p = p
             => sender'[r] = sender[r] \/ Backed(p)'
    BY <2>3, <2>5, <2>7
  <2>9. \A q \in Payments : cr'[q] = "sent" => cr[q] = "sent"
    BY <2>4
  <2> QED BY <1>1, <2>6, <2>8, <2>9, BackedStays
<1>6. CASE BankAccepts(s)
  <2>1. PICK a \in Answers : Answered(s, a)
    BY <1>6 DEF BankAccepts, Answers
  <2>2. accepted' = [accepted EXCEPT ![sender[s].p] = @ + 1] /\ sender[s].p \in Payments
    BY <1>3, <1>6, <2>1 DEF BankAccepts, Answered
  <2>3. accepted' # accepted
    BY <1>1, <1>2, <2>2 DEF TypeOK
  <2> QED BY <1>5, <2>1, <2>2, <2>3
<1>7. CASE BankDoesNot(s) \/ NotSent(s) \/ Straggles(s)
  <2>1. PICK a \in Answers : Answered(s, a) /\ a # "accepted"
    BY <1>7 DEF BankDoesNot, NotSent, Straggles, Answers
  <2>2. UNCHANGED accepted
    BY <1>7 DEF BankDoesNot, NotSent, Straggles
  <2> QED BY <1>5, <2>1, <2>2
<1>8. CASE CannotSend(s) \/ WritesOutcome(s) \/ Dies(s)
  <2>1. /\ sender[s] # Idle /\ sender' = [sender EXCEPT ![s] = Idle] /\ told \subseteq told'
        /\ UNCHANGED <<accepted, printed, notices>>
    BY <1>8 DEF CannotSend, WritesOutcome, Dies, Steps
  <2>2. sender'[s] = Idle /\ \A r \in Senders : r # s => sender'[r] = sender[r]
    BY <1>1, <2>1 DEF TypeOK
  <2>3. \A q \in Payments : Backed(q) => Backed(q)'
    BY <2>1 DEF Backed
  <2>4. ASSUME NEW q \in Payments, cr'[q] = "sent"
        PROVE  cr[q] = "sent" \/ Backed(q)'
    <3>1. cr[q] = "sent" \/ (sender[s].p = q /\ sender[s].at = "accepted")
      BY <1>1, <1>3, <1>8, <2>1, <2>4
      DEF CannotSend, GivesUp, WritesOutcome, Outcome, Answers, Sets, Dies, TypeOK
    <3>2. CASE sender[s].p = q /\ sender[s].at = "accepted"
      <4>1. Backed(q)
        BY <2>1, <3>2 DEF BackedInv, HeardIsBacked
      <4> QED BY <2>3, <4>1
    <3> QED BY <3>1, <3>2
  <2> QED BY <1>1, <2>2, <2>3, <2>4, BackedStays
<1> QED BY <1>4, <1>6, <1>7, <1>8 DEF Sends

LEMMA MarkingCallsNoneSent ==
  ASSUME TypeOK, NEW paid \in SUBSET Payments, NEW partial, MarksDue(paid, partial)
  PROVE  told \subseteq told' /\ \A q \in Payments : cr'[q] = "sent" => cr[q] = "sent"
<1>1. \/ UNCHANGED <<cr, told>>
      \/ /\ told \subseteq told'
         /\ \E p \in Payments, st \in {"due", "failed"} : cr' = [cr EXCEPT ![p] = st]
  BY DEF MarksDue, GivesUp
<1> QED BY <1>1 DEF TypeOK

LEMMA PaymentStepsBacked ==
  ASSUME "careless" \notin Surprises, AttemptsInv, TypeOK', BackedInv, NEW p \in Payments,
         ExpireStale(p) \/ Kassa(p) \/ Admin(p) \/ Money(p)
  PROVE  BackedInv'
<1>1. TypeOK /\ SendersOwn
  BY DEF AttemptsInv, TypeInv
<1>2. \A q \in Payments : /\ accepted[q] \in Nat /\ printed[q] \in Nat /\ notices[q] \in Nat
  BY <1>1 DEF TypeOK
<1>3. sender' = sender
  BY DEF ExpireStale, Kassa, StragglerEnds, KassaPrints, KassaFails, ReceiptFailed, Admin,
         MarkSent, OrderResend, Money, Paid, RefundAnswered, RefundUnheard, RefundFails,
         CabinetRefundSeen, PaidAndReturned, RefundDone, PartialRefundSeen
(* All but the admin's orders take nothing away and call nothing sent.     *)
<1>4. ASSUME \A q \in Payments : Backed(q) => Backed(q)',
             \A q \in Payments : cr'[q] = "sent" => cr[q] = "sent" \/ Backed(q)'
      PROVE  BackedInv'
  BY <1>1, <1>3, <1>4, BackedStays
<1>5. CASE ExpireStale(p) \/ PartialRefundSeen(p)
  <2>1. told \subseteq told' /\ UNCHANGED <<accepted, printed, notices>>
    BY <1>5 DEF ExpireStale, PartialRefundSeen
  <2>2. \A q \in Payments : cr'[q] = "sent" => cr[q] = "sent"
    BY <1>1, <1>5 DEF ExpireStale, PartialRefundSeen, Sets, GivesUp, TypeOK
  <2> QED BY <1>4, <2>1, <2>2 DEF Backed
<1>6. CASE StragglerEnds(p) \/ KassaPrints(p) \/ KassaFails(p)
  <2>1. \A q \in Payments : accepted[q] + printed[q] + notices[q]
                            <= accepted'[q] + printed'[q] + notices'[q]
    BY <1>1, <1>2, <1>6 DEF StragglerEnds, KassaPrints, KassaFails, TypeOK
  <2>2. UNCHANGED <<cr, told>>
    BY <1>6 DEF StragglerEnds, KassaPrints, KassaFails
  <2>3. \A q \in Payments : /\ accepted'[q] \in Nat /\ printed'[q] \in Nat
                            /\ notices'[q] \in Nat
    BY DEF TypeOK
  <2>4. \A q \in Payments : Backed(q) => Backed(q)'
    BY <1>2, <2>1, <2>2, <2>3 DEF Backed
  <2> QED BY <1>4, <2>2, <2>4
<1>7. CASE ReceiptFailed(p)
  <2>1. /\ told' = told \union {p} /\ UNCHANGED <<accepted, printed>>
        /\ \A q \in Payments : q # p => notices'[q] = notices[q]
    BY <1>1, <1>7 DEF ReceiptFailed, ToldOfFailure, TypeOK
  <2>2. \A q \in Payments : cr'[q] = "sent" => cr[q] = "sent"
    BY <1>1, <1>7 DEF ReceiptFailed, GivesUp, TypeOK
  <2>3. \A q \in Payments : Backed(q) => Backed(q)'
    BY <2>1 DEF Backed
  <2> QED BY <1>4, <2>2, <2>3
<1>8. CASE MarkSent(p)
  <2>1. /\ printed[p] > 0 /\ told' = told \ {p} /\ UNCHANGED <<accepted, printed, notices>>
        /\ \A q \in Payments : q # p => cr'[q] = cr[q]
    BY <1>1, <1>8 DEF MarkSent, Sets, TypeOK
  <2>2. Backed(p)'
    BY <1>2, <2>1 DEF Backed
  <2>3. \A q \in Payments : Backed(q) => Backed(q)'
    BY <2>1, <2>2 DEF Backed
  <2> QED BY <1>4, <2>1, <2>2, <2>3
<1>9. CASE OrderResend(p)
  <2>1. /\ told' = told \ {p} /\ UNCHANGED <<accepted, printed, notices>>
        /\ cr'[p] = "due" /\ cr[p] # "sending" /\ \A q \in Payments : q # p => cr'[q] = cr[q]
    BY <1>1, <1>9 DEF OrderResend, MayResend, Stopped, Sets, TypeOK
  <2>2. \A s \in Senders : sender[s] # Idle => sender[s].p # p
    BY <1>1, <2>1 DEF SendersOwn
  <2>3. \A q \in Payments : q # p => (Backed(q) => Backed(q)')
    BY <2>1 DEF Backed
  <2> QED BY <1>1, <1>3, <2>1, <2>2, <2>3, BackedStays
<1>10. CASE Paid(p) \/ RefundAnswered(p) \/ RefundUnheard(p) \/ CabinetRefundSeen(p)
           \/ PaidAndReturned(p)
            \/ RefundDone(p)
  <2>1. UNCHANGED <<cr, told, accepted, printed, notices>>
    BY <1>10 DEF Paid, RefundAnswered, RefundUnheard, CabinetRefundSeen, PaidAndReturned, RefundDone
  <2> QED BY <1>4, <2>1 DEF Backed
<1>11. CASE RefundFails(p)
  <2>1. UNCHANGED <<accepted, printed, notices>>
    BY <1>11 DEF RefundFails
  <2>2. CASE UNCHANGED <<cr, told>>
    BY <1>4, <2>1, <2>2 DEF Backed
  <2>3. CASE docs = "issued"
    <3>1. MarksDue({r \in Payments : pay'[r] = "paid"}, part')
      BY <1>11, <2>3 DEF RefundFails
    <3>2. told \subseteq told' /\ \A q \in Payments : cr'[q] = "sent" => cr[q] = "sent"
      BY <1>1, <3>1, MarkingCallsNoneSent
    <3> QED BY <1>4, <2>1, <3>2 DEF Backed
  <2> QED BY <1>11, <2>2, <2>3 DEF RefundFails
<1> QED BY <1>5, <1>6, <1>7, <1>8, <1>9, <1>10, <1>11 DEF Kassa, Admin, Money

(***************************************************************************)
(* A receipt the books call sent exists, is being printed or its failure   *)
(* is under way; or the admin has been told to see to it: for senders that *)
(* are not slow and an admin who looks into the cabinet first.             *)
(***************************************************************************)
THEOREM SentStaysBacked ==
  ASSUME "slow" \notin Surprises, "careless" \notin Surprises
  PROVE  Spec => []SentIsBackedOrTold
<1>1. Init => BackedInv
  BY DEF Init, BackedInv, SentIsBacked, HeardIsBacked
<1>2. BackedInv /\ AttemptsInv /\ AttemptsInv' /\ [Next]_vars => BackedInv'
  <2> SUFFICES ASSUME BackedInv, AttemptsInv, TypeOK', [Next]_vars  PROVE BackedInv'
    BY DEF AttemptsInv, TypeInv
  <2>1. TypeOK
    BY DEF AttemptsInv, TypeInv
  <2>2. CASE IssueDocuments
    <3>1. /\ MarksDue({p \in Payments : pay[p] = "paid"}, part)
          /\ UNCHANGED <<sender, accepted, printed, notices>>
      BY <2>2 DEF IssueDocuments
    <3>2. told \subseteq told' /\ \A q \in Payments : cr'[q] = "sent" => cr[q] = "sent"
      BY <2>1, <3>1, MarkingCallsNoneSent
    <3>3. \A q \in Payments : Backed(q) => Backed(q)'
      BY <3>1, <3>2 DEF Backed
    <3> QED BY <2>1, <3>1, <3>2, <3>3, BackedStays
  <2>3. CASE CancelDisputed \/ UNCHANGED vars
    <3>1. UNCHANGED <<sender, cr, told, accepted, printed, notices>>
      BY <2>3 DEF CancelDisputed, vars
    <3> QED BY <3>1 DEF BackedInv, SentIsBacked, HeardIsBacked, Backed
  <2>4. CASE \E s \in Senders : Sends(s)
    BY <2>4, SendsBacked
  <2>5. CASE \E p \in Payments : ExpireStale(p) \/ Kassa(p) \/ Admin(p) \/ Money(p)
    BY <2>5, PaymentStepsBacked
  <2> QED BY <2>2, <2>3, <2>4, <2>5 DEF Next
<1>3. BackedInv /\ AttemptsInv => SentIsBackedOrTold
  <2> SUFFICES ASSUME BackedInv, TypeOK, NEW p \in Payments, cr[p] = "sent", p \notin told
               PROVE  AtBank(p) + notices[p] > 0
    BY DEF SentIsBackedOrTold, AttemptsInv, TypeInv
  <2>1. accepted[p] + printed[p] + notices[p] > 0
    BY DEF BackedInv, SentIsBacked, Backed
  <2>2. late[p] \in Nat /\ accepted[p] \in Nat /\ printed[p] \in Nat /\ notices[p] \in Nat
    BY DEF TypeOK
  <2> QED BY <2>1, <2>2 DEF AtBank
<1> QED BY <1>1, <1>2, <1>3, AttemptsAlways, PTL DEF Spec
=============================================================================
