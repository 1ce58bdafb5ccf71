-------------------------- MODULE MCTBankReceipts --------------------------
(***************************************************************************)
(* Payments and closing receipts on small instances: either two payments   *)
(* and two requests before the documents are issued, one poll among them,  *)
(* without refunds of what was counted, links retired by an admin once the *)
(* application is paid; or one payment and one request at a time, with all *)
(* that may happen to its money and its receipt, except that a refund made *)
(* in the cabinet and one the bank rejects do not meet, neither comes to a *)
(* cancelled application, and no Cancel of a link was refused.             *)
(***************************************************************************)
EXTENDS TBankReceipts, TLC

Known(p) == \/ row[p].st # "absent" \/ bank[p].st # "none"
            \/ \E w \in Workers : worker[w].new = p
CabinetTouched(p) == \/ CabinetOrder \in bank[p].orders \union bank[p].rejected
                     \/ bank[p].money = "part"

TwoLinks == /\ docs = "review"
            /\ \A p \in Payments : /\ row[p].att = 0
                                   /\ bank[p].rejected = {} /\ ~CabinetTouched(p)
            /\ \A w \in Workers : ~InRefund(w)
            /\ \A v, w \in Workers : worker[v].op = "poll" /\ worker[w].op = "poll" => v = w
            /\ \A w \in Workers : worker[w].op = "retire" => ~AwaitingPayment

OnePayment == /\ \A p, q \in Payments : Known(p) /\ Known(q) => p = q
              /\ \A v, w \in Workers : worker[v] # Idle /\ worker[w] # Idle => v = w
              /\ overtaken = {} /\ \A p \in Payments : ~bank[p].refused
              /\ \A p \in Payments : ~CabinetTouched(p) \/ bank[p].rejected = {}
              /\ docs = "cancelled" =>
                   \A p \in Payments : ~CabinetTouched(p) /\ bank[p].rejected = {}

MCNext == ComposedNext /\ (TwoLinks \/ OnePayment)'
MCSpec == ComposedInit /\ [][MCNext]_composedVars

\* Workers are alike, and so are payments that are all of a real terminal.
Symmetry == Permutations(Workers) \union Permutations(Payments)
=============================================================================
