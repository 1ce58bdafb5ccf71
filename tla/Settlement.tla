----------------------------- MODULE Settlement -----------------------------
(***************************************************************************)
(* What the payments of one application promise, whatever the protocol     *)
(* between the application and the bank: the books follow the money.  A    *)
(* payment is counted or on its way back only if the buyer's money came, a *)
(* payment is refunded only when the money has gone back, a refunded       *)
(* payment is settled for good, and the application is paid once, by a     *)
(* payment counted at that moment.                                         *)
(***************************************************************************)
CONSTANTS Payments, NoPayment

VARIABLES money,   \* money[p]: what the bank holds of the buyer's money
          book,    \* book[p]: what the application's books say of p
          order    \* the payment that paid for the application, or NoPayment

vars == <<money, book, order>>

Books == {"unpaid", "counted", "returning", "refunded"}
TypeOK == /\ money \in [Payments -> {"none", "kept", "part", "back"}]
          /\ book \in [Payments -> Books]
          /\ order \in Payments \union {NoPayment}

Init == /\ money = [p \in Payments |-> "none"]
        /\ book = [p \in Payments |-> "unpaid"]
        /\ order = NoPayment

(***************************************************************************)
(* The money comes, and goes in part or in full.                           *)
(***************************************************************************)
MoneyMoves(p) ==
  /\ \/ money[p] = "none" /\ money' = [money EXCEPT ![p] = "kept"]
     \/ money[p] = "kept" /\ money' = [money EXCEPT ![p] = "part"]
     \/ money[p] \in {"kept", "part"} /\ money' = [money EXCEPT ![p] = "back"]
  /\ UNCHANGED <<book, order>>

(***************************************************************************)
(* The books follow.  The answer of the bank to a refund may carry the     *)
(* money's last move.                                                      *)
(***************************************************************************)
Counts(p) == /\ book[p] \in {"unpaid", "returning"}
             /\ money[p] # "none"
             /\ book' = [book EXCEPT ![p] = "counted"]
             /\ order' \in {order} \union (IF order = NoPayment THEN {p} ELSE {})
             /\ UNCHANGED money

GoesBack(p) == money[p] \in {"kept", "part"} /\ money' = [money EXCEPT ![p] = "back"]

Returns(p) == /\ book[p] \in {"unpaid", "counted"}
              /\ \/ money[p] # "none" /\ UNCHANGED money
                 \/ GoesBack(p)
              /\ book' = [book EXCEPT ![p] = "returning"]
              /\ UNCHANGED order

Refunds(p) == /\ book[p] # "refunded"
              /\ \/ money[p] = "back" /\ UNCHANGED money
                 \/ GoesBack(p)
              /\ book' = [book EXCEPT ![p] = "refunded"]
              /\ UNCHANGED order

Next == \E p \in Payments : MoneyMoves(p) \/ Counts(p) \/ Returns(p) \/ Refunds(p)

Spec == Init /\ [][Next]_vars
=============================================================================
