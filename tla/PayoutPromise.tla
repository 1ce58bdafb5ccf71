--------------------------- MODULE PayoutPromise ---------------------------
(***************************************************************************)
(* What the platform promises the owner of an address for one application  *)
(* (the life cycle at the head of src/app/services/owner_payouts.py):      *)
(* whatever is paid and returned around it, the owner is paid once, after  *)
(* the registration, and at a moment when nothing holds the money back.    *)
(***************************************************************************)
VARIABLES owed,        \* the payout that is not cancelled
          registered,  \* the registration is confirmed
          clear        \* nothing holds the money back; moves as it likes

vars == <<owed, registered, clear>>

Init == owed = "nothing" /\ registered = FALSE /\ clear = FALSE

Start == owed = "nothing" /\ owed' = "held" /\ UNCHANGED registered

(* A confirmation may start the payout it releases, and may leave it held. *)
Register ==
  /\ registered' = TRUE
  /\ \/ UNCHANGED owed
     \/ owed \in {"nothing", "held"} /\ owed' \in {"held", "due"}

Pay == /\ owed = "due" /\ registered /\ clear
       /\ owed' = "paid" /\ UNCHANGED registered

Drop == owed \in {"held", "due"} /\ owed' = "nothing" /\ UNCHANGED registered

Next == /\ clear' \in BOOLEAN
        /\ Start \/ Register \/ Pay \/ Drop \/ UNCHANGED <<owed, registered>>

Spec == Init /\ [][Next]_vars
=============================================================================
