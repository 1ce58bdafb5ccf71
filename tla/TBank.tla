------------------------------- MODULE TBank -------------------------------
(***************************************************************************)
(* T-Bank internet acquiring, as src/app/services/tbank_acquiring.py and   *)
(* its callers use it: an external service.  For each payment order the    *)
(* bank keeps a status, the buyer's money and the refund orders it has     *)
(* accepted, and it posts a notification at every final or money-moving    *)
(* change of status, again and again until it is answered OK.              *)
(*                                                                         *)
(* Bank statuses are grouped the way the source groups them:               *)
(*   NEW      NON_MONEY (NEW, FORM_SHOWED, AUTH_FAIL, 3DS_CHECKING)        *)
(*   MOVING   MONEY_MOVING (AUTHORIZING .. REVERSING)                      *)
(*   VOIDED   CANCELED, REVERSED, PARTIAL_REVERSED, DEADLINE_EXPIRED       *)
(*   REJECTED REJECTED, ATTEMPTS_EXPIRED, and also what the bank reports   *)
(*            of a refund that failed (docs/tbank-acquiring.md, part 8)    *)
(*   REFUNDING  REFUNDING, ASYNC_REFUNDING                                 *)
(***************************************************************************)
EXTENDS Integers, FiniteSets

CONSTANTS Payments,     \* payment ids, used as OrderId at the bank
          MaxAttempts,  \* bound: refund attempts of one payment
          Surprises     \* what else the bank may show, see below

ASSUME AttemptsAssumption == MaxAttempts \in Nat

(***************************************************************************)
(* "cabinet"   staff refund, in full or in part, in the bank's own cabinet *)
(* "rejection" a refund the bank has accepted is rejected later            *)
(* "sum"       the sum paid is not the sum of the order                    *)
(***************************************************************************)
ASSUME SurprisesAssumption == Surprises \subseteq {"cabinet", "rejection", "sum"}

VARIABLES bank,   \* bank[p]: the bank's record of p
          inbox   \* notifications sent and not yet answered OK: <<p, status>>

(***************************************************************************)
(* A refund order is named by its ExternalRequestId: the number of the     *)
(* attempt.  A Cancel without a key (closing a link) and a refund made in  *)
(* the cabinet have names of their own.                                    *)
(***************************************************************************)
LinkOrder == -1
CabinetOrder == -2
Keys == 1..MaxAttempts
RefundOrders == Keys \union {LinkOrder, CabinetOrder}

BankStatus == {"none", "NEW", "MOVING", "CONFIRMED", "REJECTED", "VOIDED",
               "REFUNDING", "REFUNDED", "PARTIAL_REFUNDED"}
Announced == BankStatus \ {"none", "NEW", "MOVING"}
Money == {"none", "kept", "part", "back"}

BankRecord == [st: BankStatus,
               money: Money,            \* the buyer's money
               right: BOOLEAN,          \* the sum paid is the sum of the order
               orders: SUBSET RefundOrders,    \* accepted and not rejected
               rejected: SUBSET RefundOrders,
               refused: BOOLEAN]        \* a Cancel of the open link was refused

Unknown == [st |-> "none", money |-> "none", right |-> TRUE,
            orders |-> {}, rejected |-> {}, refused |-> FALSE]

BankTypeOK == /\ bank \in [Payments -> BankRecord]
              /\ inbox \subseteq Payments \X Announced

BankInit == /\ bank = [p \in Payments |-> Unknown]
            /\ inbox = {}

(***************************************************************************)
(* The bank's record of p becomes b; a new status is announced.            *)
(***************************************************************************)
Moves(p, b) ==
  /\ bank' = [bank EXCEPT ![p] = b]
  /\ inbox' = IF b.st # bank[p].st /\ b.st \in Announced
              THEN inbox \union {<<p, b.st>>} ELSE inbox

Payable(p) == bank[p].st \in {"NEW", "MOVING"}
KeepsMoney(p) == bank[p].money = "kept"

(***************************************************************************)
(* The buyer and the clock.                                                *)
(***************************************************************************)
PayerPays(p) == /\ bank[p].st = "NEW"
                /\ Moves(p, [bank[p] EXCEPT !.st = "MOVING"])

PayerFails(p) ==
  /\ bank[p].st = "MOVING"
  /\ \E s \in {"NEW", "REJECTED", "VOIDED"} :
        Moves(p, [bank[p] EXCEPT !.st = s])

Confirms(p) ==
  /\ bank[p].st = "MOVING"
  /\ \E ok \in {TRUE, "sum" \notin Surprises} :
        Moves(p, [bank[p] EXCEPT !.st = "CONFIRMED", !.money = "kept", !.right = ok])

LinkExpires(p) == /\ bank[p].st = "NEW"
                  /\ Moves(p, [bank[p] EXCEPT !.st = "VOIDED"])

(***************************************************************************)
(* Refunds.  A refund order, once accepted, is executed or rejected; the   *)
(* shop then keeps the money and the order may be given anew.              *)
(***************************************************************************)
Refundable(p) == bank[p].st \in {"CONFIRMED", "REJECTED"} /\ KeepsMoney(p)

Refunding(p, k) == [bank[p] EXCEPT !.st = "REFUNDING", !.orders = @ \union {k}]
Refunded(p, k) == [bank[p] EXCEPT !.st = "REFUNDED", !.money = "back",
                                  !.orders = @ \union {k}]

RefundCompletes(p) ==
  /\ bank[p].st = "REFUNDING"
  /\ Moves(p, [bank[p] EXCEPT !.st = "REFUNDED", !.money = "back"])

RefundIsRejected(p) ==
  /\ "rejection" \in Surprises
  /\ bank[p].st = "REFUNDING"
  /\ Moves(p, [bank[p] EXCEPT !.st = "REJECTED", !.orders = {},
                              !.rejected = @ \union bank[p].orders])

CabinetRefund(p) ==
  /\ "cabinet" \in Surprises
  /\ Refundable(p) \/ bank[p].st = "PARTIAL_REFUNDED"
  /\ Moves(p, Refunding(p, CabinetOrder))

CabinetPartialRefund(p) ==
  /\ "cabinet" \in Surprises
  /\ bank[p].st = "CONFIRMED"
  /\ Moves(p, [bank[p] EXCEPT !.st = "PARTIAL_REFUNDED", !.money = "part"])

BankNext(p) ==
  \/ PayerFails(p) \/ Confirms(p) \/ LinkExpires(p)
  \/ RefundCompletes(p) \/ RefundIsRejected(p)
  \/ CabinetRefund(p) \/ CabinetPartialRefund(p)

(***************************************************************************)
(* The calls the application makes.  Init creates the order.  Cancel of an *)
(* unpaid link voids it; of a paid one it is a refund.  Cancel with a key  *)
(* the bank has accepted changes nothing; with a new key it is one more    *)
(* order: only the key tells the bank that two requests are one, so that a *)
(* second order may be accepted while the first is being executed.         *)
(***************************************************************************)
InitAccepted(p) == Moves(p, [bank[p] EXCEPT !.st = "NEW"])

CancelVoids(p) == /\ Payable(p)
                  /\ Moves(p, [bank[p] EXCEPT !.st = "VOIDED"])

CancelReturnsMoney(p) ==
  /\ Refundable(p)
  /\ \E b \in {Refunding(p, LinkOrder), Refunded(p, LinkOrder)} : Moves(p, b)

\* A reversal that takes time is answered REVERSING: the money still moves.
CancelReverses(p) == bank[p].st = "MOVING" /\ UNCHANGED <<bank, inbox>>

CancelStarts(p) == CancelVoids(p) \/ CancelReverses(p) \/ CancelReturnsMoney(p)

CancelRefused(p) ==
  /\ bank' = [bank EXCEPT ![p].refused = @ \/ Payable(p)]
  /\ UNCHANGED inbox

RefundAccepted(p, k) ==
  \/ /\ k \in bank[p].orders
     /\ UNCHANGED <<bank, inbox>>
  \/ /\ k \notin bank[p].orders \union bank[p].rejected
     /\ Refundable(p) \/ (bank[p].st = "REFUNDING" /\ CabinetOrder \notin bank[p].orders)
     /\ \E b \in {Refunding(p, k), Refunded(p, k)} : Moves(p, b)
=============================================================================
