------------------------- MODULE OwnerPayoutsProofs -------------------------
(***************************************************************************)
(* Proofs about OwnerPayouts, for any payments of the three providers and  *)
(* any number of requests at once.                                         *)
(***************************************************************************)
EXTENDS OwnerPayouts, TLAPS

(***************************************************************************)
(* What a step may do to payouts.                                          *)
(***************************************************************************)
(* Only payments to the platform have a payout.                            *)
PayoutsOfPlatform == \A p \in Payments \ Platform : payout[p] = "none"

TypeInv == TypeOK /\ PayoutsOfPlatform

Turns(p, from, to) == payout[p] = from /\ payout' = [payout EXCEPT ![p] = to]

PayoutStep ==
  \/ UNCHANGED payout /\ confirmed' \in {confirmed, TRUE}
  \/ \E p \in Platform : /\ Active = {} /\ Turns(p, "none", "awaiting")
                         /\ confirmed' \in {confirmed, TRUE}
  \/ \E p \in Platform : /\ \/ Active = {} /\ Turns(p, "none", "due")
                            \/ Turns(p, "awaiting", "due")
                         /\ confirmed' = TRUE
  \/ \E p \in Platform : ~Blocked(p) /\ Turns(p, "due", "paid") /\ UNCHANGED confirmed
  \/ \E p \in Platform : /\ \/ Turns(p, "awaiting", "cancelled")
                            \/ Turns(p, "due", "cancelled")
                         /\ UNCHANGED confirmed

LEMMA KnownPayments ==
  /\ TBank \subseteq Payments /\ Cdek \subseteq Payments /\ Invoices \subseteq Payments
  /\ Platform \subseteq Payments /\ Unlocked \subseteq Payments
  /\ Cdek \subseteq Platform /\ TBank \subseteq Platform
BY DEF Payments, Platform, Unlocked

(* A start, where nothing else happens to payouts.                         *)
LEMMA StartStep ==
  ASSUME NEW p, payout' = Started(p), confirmed' \in {confirmed, TRUE}
  PROVE  PayoutStep
BY DEF Started, MayStart, PayoutStep, Turns

LEMMA ReceivesStep ==
  ASSUME NEW p, Receives(p), UNCHANGED confirmed
  PROVE  PayoutStep
BY StartStep DEF Receives, PayoutStep

(* A confirmation: a start, a release, both or neither.                    *)
LEMMA ConfirmsStep ==
  ASSUME TypeInv, NEW p \in Platform, Confirms(p), confirmed' = TRUE
  PROVE  PayoutStep
<1> DEFINE q == Ensured(p)
<1>1. CASE payout' = Started(p)
  BY <1>1, StartStep
<1>2. CASE /\ Started(p)[q] = "awaiting"
           /\ payout' = [Started(p) EXCEPT ![q] = "due"]
  <2>1. CASE MayStart(p)
    <3>1. q = p /\ Active = {} /\ payout[p] = "none"
      BY <2>1 DEF MayStart, Ensured
    <3>2. payout' = [payout EXCEPT ![p] = "due"]
      BY <1>2, <2>1, <3>1, KnownPayments DEF Started, TypeInv, TypeOK
    <3> QED BY <3>1, <3>2 DEF PayoutStep, Turns
  <2>2. CASE ~MayStart(p)
    <3>1. Turns(q, "awaiting", "due")
      BY <1>2, <2>2 DEF Started, Turns
    <3>2. q \in Payments
      BY KnownPayments DEF Ensured, Active
    <3>3. q \in Platform
      BY <3>1, <3>2 DEF Turns, TypeInv, PayoutsOfPlatform
    <3> QED BY <3>1, <3>3 DEF PayoutStep
  <2> QED BY <2>1, <2>2
<1> QED BY <1>1, <1>2 DEF Confirms

LEMMA PayoutSteps ==
  ASSUME TypeInv, Next  PROVE PayoutStep
<1> USE DEF payVars, payoutVars, ReadsOnly
<1>1. ASSUME UNCHANGED payoutVars  PROVE PayoutStep
  BY <1>1 DEF PayoutStep
<1>2. ASSUME NEW r \in Requests, Workflow(r)  PROVE PayoutStep
  BY <1>1, <1>2 DEF Workflow
<1>3. ASSUME NEW r \in Requests, Handlers(r)  PROVE PayoutStep
  <2>1. CASE ReceivedWritten(r)
    BY <2>1, <1>1, StartStep DEF ReceivedWritten
  <2>2. CASE Confirm(r)
    <3>1. request[r].p # NoPayment => request[r].p \in Platform
      BY <2>2 DEF Confirm, Is, TypeInv, TypeOK, Idle, Moving, Carrying
    <3>2. CASE UNCHANGED payout
      BY <2>2, <3>2 DEF Confirm, PayoutStep
    <3>3. CASE request[r].p # NoPayment /\ Confirms(request[r].p)
      BY <2>2, <3>1, <3>3, ConfirmsStep DEF Confirm
    <3> QED BY <2>2, <3>2, <3>3 DEF Confirm
  <2>3. CASE UNCHANGED payoutVars
    BY <1>1, <2>3
  <2> QED BY <1>3, <2>1, <2>2, <2>3
          DEF Handlers, PaymentCallback, RefundRead, InvoiceRead, CloseRead, RefundWritten,
              CloseWritten, ConfirmRead
<1>4. ASSUME NEW p \in Platform, Initiate(p)  PROVE PayoutStep
  BY <1>1, <1>4 DEF Initiate
<1>5. ASSUME NEW p \in TBank, TBankMoves(p)  PROVE PayoutStep
  <2>1. CASE TBankPaid(p) \/ TBankRefundFails(p)
    BY <2>1, ReceivesStep DEF TBankPaid, TBankRefundFails
  <2>2. CASE UNCHANGED payoutVars
    BY <1>1, <2>2
  <2> QED BY <1>5, <2>1, <2>2
          DEF TBankMoves, TBankCloses, TBankRefunds, TBankRefunded, TBankPartlyRefunded
<1>6. ASSUME NEW p \in Cdek, CdekMoves(p)  PROVE PayoutStep
  BY <1>1, <1>6 DEF CdekMoves, BuyerPays, MoneyReturns, MoneyGoes, RefundCallback
<1>7. ASSUME NEW p \in Payments, MarkPaid(p) \/ CancelPayout(p)  PROVE PayoutStep
  <2>1. payout[p] # "none"
    BY <1>7 DEF MarkPaid, CancelPayout
  <2>2. p \in Platform
    BY <2>1 DEF TypeInv, PayoutsOfPlatform
  <2> QED BY <1>7, <2>2 DEF MarkPaid, CancelPayout, PayoutMoves, PayoutStep, Turns
<1> QED BY <1>2, <1>3, <1>4, <1>5, <1>6, <1>7 DEF Next

LEMMA PayoutType ==
  ASSUME TypeInv, Next
  PROVE  payout' \in [Payments -> PayoutStatus] /\ PayoutsOfPlatform'
BY PayoutSteps, KnownPayments
   DEF PayoutStep, Turns, TypeInv, TypeOK, PayoutStatus, PayoutsOfPlatform

(***************************************************************************)
(* Types.                                                                  *)
(***************************************************************************)
LEMMA RequestKinds ==
  ASSUME TypeOK, NEW r \in Requests
  PROVE  /\ Is(r, "move") => request[r] \in Moving
         /\ Is(r, "receive") => /\ request[r].p \in Unlocked
                                /\ request[r].waits \in BOOLEAN
                                /\ request[r].makes \in BOOLEAN
         /\ Is(r, "close") \/ Is(r, "refund") => request[r].p \in Unlocked
         /\ Is(r, "confirm") => request[r].p \in Platform \union {NoPayment}
BY DEF TypeOK, Is, Idle, Moving, Carrying

(* Every move leads to a status, none back to the wait for the payment,    *)
(* and the documents are shown only by their approval.                     *)
LEMMA MovesLead ==
  ASSUME NEW m \in Moves
  PROVE  /\ From(m) \in Statuses /\ To(m) \in Statuses \ {"awaiting_payment"}
         /\ To(m) \in Shown => From(m) \in Shown \/ m[3] = "approve_documents"
BY DEF Moves, Transitions, Uploads, From, To, Statuses, Shown

LEMMA StartedType ==
  ASSUME TypeOK, NEW p
  PROVE  Started(p) \in [Payments -> PayoutStatus]
BY KnownPayments DEF TypeOK, Started, MayStart, PayoutStatus

LEMMA WorkflowType ==
  ASSUME TypeOK, NEW r \in Requests, Workflow(r)
  PROVE  TypeOK'
<1> USE DEF TypeOK, payVars, payoutVars, Steps
<1>1. ASSUME NEW m \in Moves, Reads(r, m)  PROVE TypeOK'
  <2>1. [at |-> "move", move |-> m] \in Moving
    BY DEF Moving
  <2> QED BY <1>1, <2>1 DEF Workflow, Reads
<1>2. CASE Writes(r)
  <2>1. request[r].move \in Moves
    BY <1>2, RequestKinds DEF Writes, Moving
  <2>2. To(request[r].move) \in Statuses
    BY <2>1, MovesLead
  <2>3. approved' \in BOOLEAN
    BY <1>2 DEF Writes
  <2> QED BY <1>2, <2>2, <2>3 DEF Workflow, Writes
<1>3. CASE Fails(r)
  BY <1>3 DEF Workflow, Fails
<1> QED BY <1>1, <1>2, <1>3 DEF Workflow

LEMMA ReceivesType ==
  ASSUME TypeOK, NEW p \in Platform, Receives(p)
  PROVE  /\ status' \in Statuses /\ payout' \in [Payments -> PayoutStatus]
         /\ counted' \subseteq Payments
BY StartedType, KnownPayments DEF TypeOK, Receives, Statuses

LEMMA MoneyType ==
  ASSUME TypeOK,
         \/ \E p \in Platform : Initiate(p)
         \/ \E p \in TBank : TBankMoves(p)
         \/ \E p \in Cdek : CdekMoves(p)
  PROVE  TypeOK'
<1> USE KnownPayments
    DEF TypeOK, Pays, Parts, PayStatus, workflowVars, payVars, payoutVars
<1>1. ASSUME NEW p \in Platform, Initiate(p)  PROVE TypeOK'
  BY <1>1 DEF Initiate
<1>2. ASSUME NEW p \in TBank, TBankMoves(p)  PROVE TypeOK'
  <2>1. CASE TBankCloses(p)
    BY <2>1 DEF TBankCloses
  <2>2. CASE TBankPaid(p)
    BY <2>2, ReceivesType DEF TBankPaid
  <2>3. CASE TBankRefunds(p)
    BY <2>3 DEF TBankRefunds
  <2>4. CASE TBankRefunded(p)
    BY <2>4 DEF TBankRefunded
  <2>5. CASE TBankRefundFails(p)
    BY <2>5, ReceivesType DEF TBankRefundFails
  <2>6. CASE TBankPartlyRefunded(p)
    BY <2>6 DEF TBankPartlyRefunded
  <2> QED BY <1>2, <2>1, <2>2, <2>3, <2>4, <2>5, <2>6 DEF TBankMoves
<1>3. ASSUME NEW p \in Cdek, CdekMoves(p)  PROVE TypeOK'
  <2>1. CASE BuyerPays(p) \/ MoneyReturns(p)
    BY <2>1 DEF BuyerPays, MoneyReturns, MoneyGoes
  <2>2. CASE RefundCallback(p)
    BY <2>2 DEF RefundCallback
  <2> QED BY <1>3, <2>1, <2>2 DEF CdekMoves
<1> QED BY <1>1, <1>2, <1>3

LEMMA HandlersType ==
  ASSUME TypeInv, NEW r \in Requests, Handlers(r)
  PROVE  TypeOK'
<1> USE KnownPayments
    DEF TypeInv, TypeOK, Pays, Steps, PayStatus, ReadsOnly, workflowVars, payVars, payoutVars
<1>1. ASSUME NEW p \in Unlocked, NEW b \in BOOLEAN, NEW c \in BOOLEAN, ReadsOnly,
             Steps(r, [at |-> "receive", p |-> p, waits |-> b, makes |-> c])
      PROVE  TypeOK'
  <2>1. [at |-> "receive", p |-> p, waits |-> b, makes |-> c] \in Carrying
    BY DEF Carrying
  <2> QED BY <1>1, <2>1
<1>2. ASSUME NEW p \in Cdek, PaymentCallback(r, p)  PROVE TypeOK'
  BY <1>1, <1>2 DEF PaymentCallback, MayStart, Unlocked
<1>3. ASSUME NEW p \in Invoices, InvoiceRead(r, p)  PROVE TypeOK'
  BY <1>1, <1>3 DEF InvoiceRead, Unlocked
<1>4. ASSUME NEW p \in Unlocked, NEW step \in {"close", "refund"},
             Steps(r, [at |-> step, p |-> p]), ReadsOnly
      PROVE  TypeOK'
  <2>1. [at |-> step, p |-> p] \in Carrying
    BY DEF Carrying
  <2> QED BY <1>4, <2>1
<1>5. ASSUME NEW p \in Cdek, RefundRead(r, p)  PROVE TypeOK'
  BY <1>4, <1>5 DEF RefundRead, Unlocked
<1>6. ASSUME NEW p \in Unlocked, CloseRead(r, p)  PROVE TypeOK'
  BY <1>4, <1>6 DEF CloseRead
<1>7. CASE RefundWritten(r) \/ CloseWritten(r)
  BY <1>7, RequestKinds DEF RefundWritten, CloseWritten
<1>8. CASE ReceivedWritten(r)
  <2>1. request[r].p \in Unlocked
    BY <1>8, RequestKinds DEF ReceivedWritten
  <2>2. payout' \in [Payments -> PayoutStatus]
    BY <1>8, StartedType DEF ReceivedWritten
  <2>3. status' \in Statuses /\ counted' \subseteq Payments
    BY <1>8, <2>1 DEF ReceivedWritten, Statuses
  <2> QED BY <1>8, <2>1, <2>2, <2>3 DEF ReceivedWritten
<1>9. CASE ConfirmRead(r)
  <2>1. PICK p \in Chosen : Steps(r, [at |-> "confirm", p |-> p])
    BY <1>9 DEF ConfirmRead
  <2>2. p \in Platform \union {NoPayment}
    BY DEF Chosen, Active, Received, PayoutsOfPlatform
  <2>3. [at |-> "confirm", p |-> p] \in Carrying
    BY <2>2 DEF Carrying
  <2> QED BY <1>9, <2>1, <2>3 DEF ConfirmRead
<1>10. CASE Confirm(r)
  <2>1. Next
    BY <1>10 DEF Next, Handlers
  <2>2. payout' \in [Payments -> PayoutStatus]
    BY <2>1, PayoutType
  <2> QED BY <1>10, <2>2 DEF Confirm
<1> QED BY <1>2, <1>3, <1>5, <1>6, <1>7, <1>8, <1>9, <1>10 DEF Handlers

LEMMA TypeHolds ==
  ASSUME TypeInv, Next  PROVE TypeInv'
<1>1. ASSUME NEW p \in Payments, MarkPaid(p) \/ CancelPayout(p)  PROVE TypeOK'
  BY <1>1, PayoutType DEF TypeInv, TypeOK, MarkPaid, CancelPayout, PayoutMoves,
                          workflowVars, payVars
<1>2. TypeOK'
  BY <1>1, WorkflowType, HandlersType, MoneyType DEF TypeInv, Next
<1>3. PayoutsOfPlatform'
  BY PayoutType
<1> QED BY <1>2, <1>3 DEF TypeInv

LEMMA TypeInit ==
  ASSUME Init  PROVE TypeInv
BY DEF Init, InitWorkflow, TypeInv, TypeOK, PayoutsOfPlatform, Statuses, PayStatus, PayoutStatus

(* Types are kept, with no bound on payments or requests.                  *)
THEOREM PayoutTypesHold == Spec => []TypeOK
<1>1. TypeInv /\ [Next]_vars => TypeInv'
  <2>1. CASE UNCHANGED vars
    BY <2>1 DEF TypeInv, TypeOK, PayoutsOfPlatform, vars, workflowVars, payVars, payoutVars
  <2> QED BY <2>1, TypeHolds
<1>2. TypeInv => TypeOK
  BY DEF TypeInv
<1> QED BY TypeInit, <1>1, <1>2, PTL DEF Spec

(***************************************************************************)
(* Documents are approved before they are shown.                           *)
(***************************************************************************)
(* A request may write a move it checked long ago: out of what is shown,   *)
(* only if the documents had been approved by then.                        *)
ApprovedWhenShown ==
  /\ status \in Shown => approved
  /\ \A r \in Requests : Is(r, "move") /\ From(request[r].move) \in Shown => approved
  /\ confirmed => approved

(* What r does now leaves it at another step than this one.                *)
NextIsNot(r, step) == \E b : Steps(r, b) /\ b.at # step

LEMMA ApprovedWorkflow ==
  ASSUME TypeInv, ApprovedWhenShown, NEW r \in Requests, Workflow(r)
  PROVE  ApprovedWhenShown'
<1> USE DEF TypeInv, TypeOK, ApprovedWhenShown, Steps, Is, payoutVars, Idle
<1>1. ASSUME NEW m \in Moves, Reads(r, m)  PROVE ApprovedWhenShown'
  BY <1>1 DEF Workflow, Reads, payVars
<1>2. CASE Writes(r)
  <2>1. request[r].move \in Moves
    BY <1>2, RequestKinds DEF Writes, Moving
  <2>2. status' \in Shown => approved'
    BY <1>2, <2>1, MovesLead DEF Writes
  <2>3. approved => approved'
    BY <1>2 DEF Writes
  <2> QED BY <1>2, <2>2, <2>3 DEF Writes, Workflow
<1>3. CASE Fails(r)
  BY <1>3 DEF Fails, Workflow
<1> QED BY <1>1, <1>2, <1>3 DEF Workflow

LEMMA ApprovedHolds ==
  ASSUME TypeInv, ApprovedWhenShown, Next
  PROVE  ApprovedWhenShown'
<1> USE DEF TypeInv, TypeOK, ApprovedWhenShown
<1>1. ASSUME status' \in {status, "paid"}, UNCHANGED <<approved, confirmed>>,
             \A r \in Requests : request'[r] = request[r] \/ request'[r].at # "move"
      PROVE  ApprovedWhenShown'
  BY <1>1 DEF Shown, Is
<1>2. ASSUME NEW r \in Requests, Handlers(r)  PROVE ApprovedWhenShown'
  <2>1. CASE Confirm(r)
    BY <2>1 DEF Confirm, Allowed, Shown, Steps, Is, Idle
  <2>2. CASE ReceivedWritten(r)
    BY <2>2, <1>1 DEF ReceivedWritten, Steps, Idle
  <2>3. CASE ~Confirm(r) /\ ~ReceivedWritten(r)
    <3>1. UNCHANGED <<status, approved, confirmed>>
      BY <1>2, <2>3 DEF Handlers, PaymentCallback, RefundRead, InvoiceRead, CloseRead,
                        RefundWritten, CloseWritten, ConfirmRead, ReadsOnly, payoutVars
    <3>2. NextIsNot(r, "move")
      <4>1. ASSUME NEW p \in Cdek, PaymentCallback(r, p) \/ RefundRead(r, p)
            PROVE  NextIsNot(r, "move")
        BY <4>1 DEF PaymentCallback, RefundRead, NextIsNot
      <4>2. ASSUME NEW p \in Invoices, InvoiceRead(r, p)
            PROVE  NextIsNot(r, "move")
        BY <4>2 DEF InvoiceRead, NextIsNot
      <4>3. ASSUME NEW p \in Unlocked, CloseRead(r, p)
            PROVE  NextIsNot(r, "move")
        BY <4>3 DEF CloseRead, NextIsNot
      <4>4. CASE RefundWritten(r) \/ CloseWritten(r)
        BY <4>4 DEF RefundWritten, CloseWritten, Idle, NextIsNot
      <4>5. CASE ConfirmRead(r)
        BY <4>5 DEF ConfirmRead, NextIsNot
      <4> QED BY <1>2, <2>3, <4>1, <4>2, <4>3, <4>4, <4>5 DEF Handlers
    <3>3. \A s \in Requests : request'[s] = request[s] \/ request'[s].at # "move"
      BY <3>2 DEF Steps, NextIsNot
    <3> QED BY <1>1, <3>1, <3>3
  <2> QED BY <2>1, <2>2, <2>3
<1>3. CASE \/ \E p \in Platform : Initiate(p)
           \/ \E p \in TBank : TBankMoves(p)
           \/ \E p \in Cdek : CdekMoves(p)
           \/ \E p \in Payments : MarkPaid(p) \/ CancelPayout(p)
  <2>1. status' \in {status, "paid"} /\ UNCHANGED <<approved, confirmed, request>>
    BY <1>3 DEF Initiate, TBankMoves, TBankCloses, TBankPaid, TBankRefunds, TBankRefunded,
                TBankRefundFails, TBankPartlyRefunded, Receives, CdekMoves, BuyerPays,
                MoneyReturns, MoneyGoes, RefundCallback, MarkPaid, CancelPayout, PayoutMoves,
                workflowVars, payoutVars
  <2> QED BY <2>1, <1>1
<1> QED BY <1>2, <1>3, ApprovedWorkflow DEF Next

(* The registration is confirmed only for approved documents.              *)
THEOREM DocumentsAreApprovedHolds == Spec => []DocumentsAreApproved
<1> DEFINE Inv == TypeInv /\ ApprovedWhenShown
<1>1. Init => Inv
  <2> SUFFICES ASSUME Init  PROVE Inv
    OBVIOUS
  <2>1. status \notin Shown /\ ~confirmed
    BY DEF Init, InitWorkflow, Shown
  <2>2. \A r \in Requests : ~Is(r, "move")
    BY DEF Init, InitWorkflow, Is, Idle
  <2> QED BY <2>1, <2>2, TypeInit DEF ApprovedWhenShown
<1>2. Inv /\ [Next]_vars => Inv'
  <2>1. CASE UNCHANGED vars
    BY <2>1 DEF TypeInv, TypeOK, PayoutsOfPlatform, ApprovedWhenShown, Is, vars, workflowVars,
                payVars, payoutVars
  <2> QED BY <2>1, TypeHolds, ApprovedHolds
<1>3. Inv => DocumentsAreApproved
  BY DEF ApprovedWhenShown, DocumentsAreApproved
<1> QED BY <1>1, <1>2, <1>3, PTL DEF Spec

(***************************************************************************)
(* An order paid to the platform has a payout.                             *)
(***************************************************************************)
(* No payout is started while the payment is awaited, so that the first    *)
(* payment to arrive starts its own; a callback that found the application *)
(* waiting has found that it may start the payout.                         *)
StartsOnTime ==
  /\ status = "awaiting_payment" => \A p \in Payments : payout[p] = "none"
  /\ \A r \in Requests : Is(r, "receive") =>
       /\ request[r].makes => request[r].waits
       /\ request[r].waits /\ request[r].p \in Platform => request[r].makes
  /\ PaidOrderHasPayout

(* Once there, a payout stays, and no step returns to the wait.            *)
LEMMA PayoutsStay ==
  ASSUME TypeInv, Next, NEW p \in Payments, payout[p] # "none"
  PROVE  payout'[p] # "none"
BY PayoutSteps DEF PayoutStep, Turns, TypeInv, TypeOK

LEMMA ReceivesOnTime ==
  ASSUME TypeInv, StartsOnTime, NEW p \in Platform, Receives(p), UNCHANGED request, Next
  PROVE  StartsOnTime'
<1> USE KnownPayments DEF TypeInv, TypeOK, StartsOnTime
<1>1. CASE status = "awaiting_payment"
  <2>1. MayStart(p)
    BY <1>1 DEF MayStart, Active
  <2>2. payout' = [payout EXCEPT ![p] = "awaiting"] /\ status' = "paid"
        /\ counted' = counted \union {p}
    BY <1>1, <2>1 DEF Receives, Started
  <2> QED BY <2>2 DEF PaidOrderHasPayout, Is
<1>2. CASE status # "awaiting_payment"
  BY <1>2 DEF Receives, PaidOrderHasPayout, Is
<1> QED BY <1>1, <1>2

LEMMA ReceivedOnTime ==
  ASSUME TypeInv, StartsOnTime, NEW r \in Requests, ReceivedWritten(r), Next
  PROVE  StartsOnTime'
<1> DEFINE p == request[r].p
<1> USE KnownPayments DEF TypeInv, TypeOK, StartsOnTime
<1>0. p \in Payments /\ Is(r, "receive")
  BY RequestKinds DEF ReceivedWritten
<1>1. \A s \in Requests : Is(s, "receive")' => Is(s, "receive") /\ request'[s] = request[s]
  BY DEF ReceivedWritten, Steps, Is, Idle
<1>2. CASE request[r].makes
  <2>1. payout' = [payout EXCEPT ![p] = "awaiting"] /\ status' = "paid"
        /\ counted' = counted \union {p}
    BY <1>0, <1>2 DEF ReceivedWritten, Started
  <2> QED BY <1>0, <1>1, <2>1 DEF PaidOrderHasPayout
<1>3. CASE ~request[r].makes
  <2>1. UNCHANGED payout /\ (status' = status \/ status' = "paid")
    BY <1>3 DEF ReceivedWritten
  <2>2. counted' \intersect Platform = counted \intersect Platform
    BY <1>0, <1>3 DEF ReceivedWritten
  <2> QED BY <1>1, <2>1, <2>2 DEF PaidOrderHasPayout
<1> QED BY <1>2, <1>3

LEMMA OnTimeElsewhere ==
  ASSUME TypeInv, StartsOnTime, Next, UNCHANGED counted,
         status' = "awaiting_payment" =>
           status = "awaiting_payment" /\ UNCHANGED payout,
         \A r \in Requests : Is(r, "receive")' => request'[r] = request[r]
  PROVE  StartsOnTime'
BY KnownPayments, PayoutsStay
   DEF StartsOnTime, PaidOrderHasPayout, TypeInv, TypeOK, Is

(* A callback that finds the application waiting finds no payout.          *)
LEMMA ReadOnTime ==
  ASSUME TypeInv, StartsOnTime, NEW r \in Requests, NEW p \in Unlocked, ReadsOnly, Next,
         NEW b \in BOOLEAN, NEW c \in BOOLEAN,
         c => b, b /\ p \in Platform => c,
         Steps(r, [at |-> "receive", p |-> p, waits |-> b, makes |-> c])
  PROVE  StartsOnTime'
<1>1. request' = [request EXCEPT ![r] = [at |-> "receive", p |-> p, waits |-> b, makes |-> c]]
  BY DEF Steps
<1>2. UNCHANGED <<status, payout, counted>>
  BY DEF ReadsOnly, payoutVars
<1>3. \A s \in Requests : s # r => request'[s] = request[s]
  BY <1>1
<1>4. request'[r] = [at |-> "receive", p |-> p, waits |-> b, makes |-> c]
  BY <1>1 DEF TypeInv, TypeOK
<1> QED BY <1>2, <1>3, <1>4 DEF StartsOnTime, PaidOrderHasPayout, Is

LEMMA OnTimeHolds ==
  ASSUME TypeInv, StartsOnTime, Next
  PROVE  StartsOnTime'
<1>1. ASSUME NEW r \in Requests, Workflow(r)  PROVE StartsOnTime'
  <2>1. UNCHANGED <<counted, payout>>
    BY <1>1 DEF Workflow, payoutVars
  <2>2. status' = "awaiting_payment" => status = "awaiting_payment"
    <3>1. CASE Writes(r)
      BY <3>1, RequestKinds, MovesLead DEF Writes, Moving, TypeInv
    <3> QED BY <1>1, <3>1 DEF Workflow, Reads, Fails
  <2>3. NextIsNot(r, "receive")
    <3>1. ASSUME NEW m \in Moves, Reads(r, m)  PROVE NextIsNot(r, "receive")
      BY <3>1 DEF Reads, NextIsNot
    <3>2. CASE Writes(r) \/ Fails(r)
      BY <3>2 DEF Writes, Fails, Idle, NextIsNot
    <3> QED BY <1>1, <3>1, <3>2 DEF Workflow
  <2>4. \A s \in Requests : Is(s, "receive")' => request'[s] = request[s]
    BY <2>3 DEF NextIsNot, Steps, Is, TypeInv, TypeOK
  <2> QED BY <2>1, <2>2, <2>4, OnTimeElsewhere
<1>2. ASSUME NEW r \in Requests, Handlers(r)  PROVE StartsOnTime'
  <2>1. CASE ReceivedWritten(r)
    BY <2>1, ReceivedOnTime
  <2>2. ASSUME NEW p \in Cdek, PaymentCallback(r, p)  PROVE StartsOnTime'
    <3>1. status = "awaiting_payment" => MayStart(p)
      BY KnownPayments DEF StartsOnTime, MayStart, Active
    <3> DEFINE waiting == status = "awaiting_payment"
               starting == status = "awaiting_payment" /\ MayStart(p)
    <3>2. Steps(r, [at |-> "receive", p |-> p, waits |-> waiting, makes |-> starting])
          /\ ReadsOnly
      BY <2>2 DEF PaymentCallback
    <3>3. /\ waiting \in BOOLEAN /\ starting \in BOOLEAN /\ p \in Unlocked
          /\ starting => waiting
          /\ waiting /\ p \in Platform => starting
      BY <3>1 DEF MayStart, Unlocked
    <3> HIDE DEF waiting, starting
    <3> QED BY <3>2, <3>3, ReadOnTime
  <2>3. ASSUME NEW p \in Invoices, InvoiceRead(r, p)  PROVE StartsOnTime'
    <3> DEFINE waiting == status = "awaiting_payment"
    <3>1. Steps(r, [at |-> "receive", p |-> p, waits |-> waiting, makes |-> FALSE])
          /\ ReadsOnly
      BY <2>3 DEF InvoiceRead
    <3>2. waiting \in BOOLEAN /\ p \in Unlocked /\ p \notin Platform
      BY ProvidersAssumption DEF Unlocked, Platform
    <3> HIDE DEF waiting
    <3> QED BY <3>1, <3>2, ReadOnTime
  <2>4. CASE /\ ~ReceivedWritten(r)
             /\ \A p \in Cdek : ~PaymentCallback(r, p)
             /\ \A p \in Invoices : ~InvoiceRead(r, p)
    <3>1. UNCHANGED <<status, counted>>
      BY <1>2, <2>4 DEF Handlers, RefundRead, CloseRead, RefundWritten, CloseWritten,
                        ConfirmRead, Confirm, ReadsOnly
    <3>2. status = "awaiting_payment" => UNCHANGED payout
      BY <1>2, <2>4 DEF Handlers, RefundRead, CloseRead, RefundWritten, CloseWritten,
                        ConfirmRead, Confirm, Allowed, ReadsOnly, payoutVars
    <3>3. NextIsNot(r, "receive")
      <4>1. ASSUME NEW p \in Unlocked, RefundRead(r, p) \/ CloseRead(r, p)
            PROVE  NextIsNot(r, "receive")
        BY <4>1 DEF RefundRead, CloseRead, NextIsNot
      <4>2. CASE RefundWritten(r) \/ CloseWritten(r) \/ Confirm(r)
        BY <4>2 DEF RefundWritten, CloseWritten, Confirm, Idle, NextIsNot
      <4>3. CASE ConfirmRead(r)
        BY <4>3 DEF ConfirmRead, NextIsNot
      <4> QED BY <1>2, <2>4, <4>1, <4>2, <4>3 DEF Handlers, Unlocked
    <3>4. \A s \in Requests : Is(s, "receive")' => request'[s] = request[s]
      BY <3>3 DEF NextIsNot, Steps, Is, TypeInv, TypeOK
    <3> QED BY <3>1, <3>2, <3>4, OnTimeElsewhere
  <2> QED BY <2>1, <2>2, <2>3, <2>4
<1>3. ASSUME NEW p \in TBank, TBankPaid(p) \/ TBankRefundFails(p)  PROVE StartsOnTime'
  BY <1>3, ReceivesOnTime, KnownPayments DEF TBankPaid, TBankRefundFails
<1>4. CASE \/ \E p \in Platform : Initiate(p)
           \/ \E p \in TBank : \/ TBankCloses(p) \/ TBankRefunds(p) \/ TBankRefunded(p)
                               \/ TBankPartlyRefunded(p)
           \/ \E p \in Cdek : CdekMoves(p)
           \/ \E p \in Payments : MarkPaid(p) \/ CancelPayout(p)
  <2>1. UNCHANGED <<status, counted, request>>
    BY <1>4 DEF Initiate, TBankCloses, TBankRefunds, TBankRefunded, TBankPartlyRefunded,
                CdekMoves, BuyerPays, MoneyReturns, MoneyGoes, RefundCallback, MarkPaid,
                CancelPayout, PayoutMoves, workflowVars
  <2>2. status = "awaiting_payment" => UNCHANGED payout
    BY <1>4 DEF Initiate, TBankCloses, TBankRefunds, TBankRefunded, TBankPartlyRefunded,
                CdekMoves, BuyerPays, MoneyReturns, MoneyGoes, RefundCallback, MarkPaid,
                CancelPayout, StartsOnTime, payoutVars
  <2> QED BY <2>1, <2>2, OnTimeElsewhere
<1> QED BY <1>1, <1>2, <1>3, <1>4 DEF Next, TBankMoves

(* Money of the platform that moved an application to paid has a payout.   *)
THEOREM PaidOrderHasPayoutHolds == Spec => []PaidOrderHasPayout
<1> DEFINE Inv == TypeInv /\ StartsOnTime
<1>1. Init => Inv
  <2> SUFFICES ASSUME Init  PROVE Inv
    OBVIOUS
  <2>1. \A r \in Requests : ~Is(r, "receive")
    BY DEF Init, InitWorkflow, Is, Idle
  <2>2. counted = {} /\ \A p \in Payments : payout[p] = "none"
    BY DEF Init
  <2> QED BY <2>1, <2>2, TypeInit DEF StartsOnTime, PaidOrderHasPayout
<1>2. Inv /\ [Next]_vars => Inv'
  <2>1. CASE UNCHANGED vars
    BY <2>1 DEF TypeInv, TypeOK, PayoutsOfPlatform, StartsOnTime, PaidOrderHasPayout, Is,
                vars, workflowVars, payVars, payoutVars
  <2> QED BY <2>1, TypeHolds, OnTimeHolds
<1>3. Inv => PaidOrderHasPayout
  BY DEF StartsOnTime
<1> QED BY <1>1, <1>2, <1>3, PTL DEF Spec

(***************************************************************************)
(* The promise to the owner.                                               *)
(***************************************************************************)
(* One payout is not cancelled at a time, and none is released before the  *)
(* registration is confirmed.                                              *)
PayoutsInOrder ==
  /\ \A p, q \in Active : p = q
  /\ \A p \in Payments : payout[p] \in {"due", "paid"} => confirmed

LEMMA InOrderHolds ==
  ASSUME TypeInv, PayoutsInOrder, PayoutStep
  PROVE  PayoutsInOrder'
<1> USE KnownPayments DEF TypeInv, TypeOK, PayoutsInOrder, Active
<1>1. CASE UNCHANGED payout /\ confirmed' \in {confirmed, TRUE}
  BY <1>1
<1>2. ASSUME NEW p \in Platform, NEW s \in {"awaiting", "due"},
             Active = {}, Turns(p, "none", s), confirmed' \in {confirmed, TRUE},
             s = "due" => confirmed' = TRUE
      PROVE  PayoutsInOrder'
  BY <1>2 DEF Turns
<1>3. ASSUME NEW p \in Platform, NEW s \in {"awaiting", "due"}, NEW t \in PayoutStatus,
             Turns(p, s, t), t # "none", confirmed' \in {confirmed, TRUE},
             t \in {"due", "paid"} => confirmed' = TRUE \/ s = "due"
      PROVE  PayoutsInOrder'
  <2>1. p \in Active /\ payout' = [payout EXCEPT ![p] = t]
    BY <1>3 DEF Turns
  <2>2. Active' \subseteq Active
    BY <2>1
  <2>3. \A q \in Payments : q # p => payout'[q] = payout[q]
    BY <2>1
  <2>4. payout'[p] = t
    BY <2>1
  <2>5. confirmed => confirmed'
    BY <1>3
  <2>6. s = "due" => confirmed
    BY <1>3 DEF Turns
  <2>7. t \in {"due", "paid"} => confirmed'
    BY <1>3, <2>5, <2>6
  <2>8. \A x, y \in Active' : x = y
    BY <2>2
  <2>9. \A q \in Payments : payout'[q] \in {"due", "paid"} => confirmed'
    BY <2>3, <2>4, <2>5, <2>7
  <2> QED BY <2>8, <2>9
<1> QED BY <1>1, <1>2, <1>3 DEF PayoutStep, PayoutStatus

(* What is owed is what the one payout not cancelled says.                 *)
LEMMA OwedIs ==
  ASSUME PayoutsInOrder, NEW p \in Active
  PROVE  Owed = IF payout[p] = "awaiting" THEN "held" ELSE payout[p]
<1>1. (CHOOSE q \in Active : TRUE) = p
  BY DEF PayoutsInOrder
<1> QED BY <1>1 DEF Owed

LEMMA OwedIsNow ==
  ASSUME PayoutsInOrder', NEW p \in Active'
  PROVE  Owed' = IF payout'[p] = "awaiting" THEN "held" ELSE payout'[p]
<1>1. (CHOOSE q \in Active' : TRUE) = p
  BY DEF PayoutsInOrder
<1> QED BY <1>1 DEF Owed

LEMMA PromiseStep ==
  ASSUME TypeInv, PayoutsInOrder, PayoutsInOrder', PayoutStep
  PROVE  Promise!Next
<1> USE KnownPayments DEF Promise!Next
<1>1. Clear' \in BOOLEAN
  BY DEF Clear
<1>2. CASE UNCHANGED payout /\ confirmed' \in {confirmed, TRUE}
  <2>1. UNCHANGED Owed
    BY <1>2 DEF Owed, Active
  <2> QED BY <1>1, <1>2, <2>1 DEF Promise!Register, TypeInv, TypeOK
<1>3. ASSUME NEW p \in Platform, NEW s \in {"awaiting", "due"},
             Active = {}, Turns(p, "none", s), confirmed' \in {confirmed, TRUE},
             s = "due" => confirmed' = TRUE
      PROVE  Promise!Next
  <2>1. Owed = "nothing"
    BY <1>3 DEF Owed
  <2>2. p \in Active' /\ payout'[p] = s
    BY <1>3 DEF Turns, Active, TypeInv, TypeOK
  <2>3. Owed' = IF s = "awaiting" THEN "held" ELSE "due"
    BY <2>2, OwedIsNow
  <2> QED BY <1>1, <1>3, <2>1, <2>3 DEF Promise!Start, Promise!Register
<1>4. ASSUME NEW p \in Platform, NEW s \in {"awaiting", "due"}, NEW t \in {"due", "paid"},
             Turns(p, s, t)
      PROVE  /\ Owed = IF s = "awaiting" THEN "held" ELSE "due"
             /\ Owed' = t /\ p \in Active
  <2>1. p \in Active /\ payout[p] = s
    BY <1>4 DEF Turns, Active
  <2>2. p \in Active' /\ payout'[p] = t
    BY <1>4 DEF Turns, Active, TypeInv, TypeOK
  <2> QED BY <2>1, <2>2, OwedIs, OwedIsNow
<1>5. ASSUME NEW p \in Platform, Turns(p, "awaiting", "due"), confirmed' = TRUE
      PROVE  Promise!Next
  BY <1>1, <1>4, <1>5 DEF Promise!Register
<1>6. ASSUME NEW p \in Platform, ~Blocked(p), Turns(p, "due", "paid"), UNCHANGED confirmed
      PROVE  Promise!Next
  <2>1. Owed = "due" /\ Owed' = "paid" /\ p \in Active
    BY <1>4, <1>6
  <2>2. Clear
    BY <1>6, <2>1 DEF Clear, Blocked
  <2>3. confirmed
    BY <1>6 DEF PayoutsInOrder, Turns
  <2> QED BY <1>1, <1>6, <2>1, <2>2, <2>3 DEF Promise!Pay
<1>7. ASSUME NEW p \in Platform, NEW s \in {"awaiting", "due"}, Turns(p, s, "cancelled"),
             UNCHANGED confirmed
      PROVE  Promise!Next
  <2>1. p \in Active /\ payout[p] = s
    BY <1>7 DEF Turns, Active
  <2>2. Owed \in {"held", "due"}
    BY <2>1, OwedIs
  <2>3. Active' = {}
    BY <1>7, <2>1 DEF Turns, Active, PayoutsInOrder, TypeInv, TypeOK
  <2>4. Owed' = "nothing"
    BY <2>3 DEF Owed
  <2> QED BY <1>1, <1>7, <2>2, <2>4 DEF Promise!Drop
<1> QED BY <1>2, <1>3, <1>5, <1>6, <1>7 DEF PayoutStep

(* The owner is paid once, after the registration, and not while the money *)
(* is held back, whatever payments and however many requests there are.    *)
THEOREM PayoutsKeepThePromiseHolds == Spec => PayoutsKeepThePromise
<1> DEFINE Inv == TypeInv /\ PayoutsInOrder
<1>1. Init => Inv /\ Promise!Init
  <2> SUFFICES ASSUME Init  PROVE Inv /\ Promise!Init
    OBVIOUS
  <2>1. Active = {} /\ confirmed = FALSE /\ \A p \in Payments : payout[p] = "none"
    BY DEF Init, Active
  <2> QED BY <2>1, TypeInit DEF PayoutsInOrder, Promise!Init, Owed, Clear
<1>2. Inv /\ [Next]_vars => Inv' /\ [Promise!Next]_(Promise!vars)
  <2>1. CASE UNCHANGED vars
    <3>1. UNCHANGED Promise!vars
      BY <2>1 DEF vars, workflowVars, payVars, payoutVars, Promise!vars, Owed, Clear, Active
    <3>2. Inv => Inv'
      BY <2>1 DEF vars, workflowVars, payVars, payoutVars, TypeInv, TypeOK,
                  PayoutsOfPlatform, PayoutsInOrder, Active
    <3> QED BY <3>1, <3>2
  <2>2. ASSUME Inv, Next  PROVE Inv' /\ Promise!Next
    BY <2>2, TypeHolds, PayoutSteps, InOrderHolds, PromiseStep
  <2> QED BY <2>1, <2>2
<1> QED BY <1>1, <1>2, PTL DEF Spec, PayoutsKeepThePromise, Promise!Spec
=============================================================================
