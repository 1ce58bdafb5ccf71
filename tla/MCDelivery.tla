----------------------------- MODULE MCDelivery -----------------------------
(***************************************************************************)
(* Calls to others on small instances: the deliveries to subscribers, and  *)
(* the breaker in front of a service.  They share no state: the first      *)
(* choice decides which of them moves.                                     *)
(***************************************************************************)
EXTENDS OutgoingWebhooks, CircuitBreaker

VARIABLE part

vars == <<part, webhookVars, breakerVars>>

Init == InitWebhooks /\ InitBreaker /\ part \in {"webhooks", "breaker"}
Next ==
  \/ part = "webhooks" /\ NextWebhooks /\ UNCHANGED <<breakerVars, part>>
  \/ part = "breaker" /\ NextBreaker /\ UNCHANGED <<webhookVars, part>>

\* Each part is fair while it is the one that moves.
Fairness == (part = "webhooks" => WebhooksFairness) /\ (part = "breaker" => BreakerFairness)
Spec == Init /\ [][Next]_vars /\ Fairness

(* The type invariants of the parts. *)
DeliveryTypeOK == WebhooksTypeOK /\ BreakerTypeOK
=============================================================================
