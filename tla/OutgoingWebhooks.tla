-------------------------- MODULE OutgoingWebhooks --------------------------
(***************************************************************************)
(* Webhooks to subscribers: an event enqueues a delivery for every active  *)
(* subscription in its own transaction; a worker started every minute      *)
(* claims the deliveries that are due, POSTs them one after another and    *)
(* commits the whole batch at the end.  The claim ('in_progress') is never *)
(* committed by itself: it lives as row locks of the open transaction.     *)
(***************************************************************************)
EXTENDS Naturals, FiniteSets

CONSTANTS Events,       \* application events (bound)
          Subscriptions,
          Couriers,     \* runs of scripts/deliver_webhooks at one time
          BatchLimit,   \* --limit
          MaxTries,     \* MAX_ATTEMPTS
          MaxCrashes    \* bound: runs that die before their commit

ASSUME WebhooksAssumption ==
  BatchLimit \in Nat \ {0} /\ MaxTries \in Nat \ {0} /\ MaxCrashes \in Nat

VARIABLES subs,      \* webhook_subscriptions
          event,     \* application_events and the transactions that make them
          delivery,  \* webhook_deliveries
          courier,   \* what each run has in hand
          taken,     \* history: 2xx answers given by the subscriber
          crashes
webhookVars == <<subs, event, delivery, courier, taken, crashes>>

Deliveries == Events \X Subscriptions
DeliveryRow == [status : {"none", "pending", "sent", "dead", "gone"},
                attempts : 0..MaxTries, due : BOOLEAN]
Resting == [at |-> "rest", batch |-> {}, ok |-> {}, failed |-> {}]

InitWebhooks ==
  /\ subs = [s \in Subscriptions |-> "active"]
  /\ event = [e \in Events |-> [status |-> "none", to |-> {}]]
  /\ delivery = [d \in Deliveries |-> [status |-> "none", attempts |-> 0, due |-> FALSE]]
  /\ courier = [c \in Couriers |-> Resting]
  /\ taken = {} /\ crashes = 0

\* Row locks of a run that has claimed.
InHand(c) == IF courier[c].at = "posting" THEN courier[c].batch ELSE {}
Free(D) == \A c \in Couriers : InHand(c) \cap D = {}

-----------------------------------------------------------------------------
(* create_application_event: the active subscriptions are read, then the   *)
(* rows inserted; a subscription deleted in between breaks the insert and  *)
(* with it the transaction, swallowed exception or not.                    *)
EventReads(e) ==
  /\ event[e].status = "none"
  /\ event' = [event EXCEPT ![e] = [status |-> "open",
                                    to |-> {s \in Subscriptions : subs[s] = "active"}]]
  /\ UNCHANGED <<subs, delivery, courier, taken, crashes>>
DispatchBreaks(e) == \E s \in event[e].to : subs[s] = "deleted"
EventCommits(e) ==
  /\ event[e].status = "open" /\ ~DispatchBreaks(e)
  /\ event' = [event EXCEPT ![e].status = "committed"]
  /\ delivery' = [d \in Deliveries |->
       IF d[1] = e /\ d[2] \in event[e].to
       THEN [status |-> "pending", attempts |-> 0, due |-> TRUE] ELSE delivery[d]]
  /\ UNCHANGED <<subs, courier, taken, crashes>>
EventBreaks(e) ==
  /\ event[e].status = "open" /\ DispatchBreaks(e)
  /\ event' = [event EXCEPT ![e].status = "broken"]
  /\ UNCHANGED <<subs, delivery, courier, taken, crashes>>

(* Subscriptions: pausing stops new deliveries, those enqueued still go    *)
(* out; deleting takes the deliveries along and waits for a run that holds *)
(* one of them.                                                            *)
SwitchSubscription(s) ==
  /\ subs[s] \in {"active", "paused"}
  /\ subs' = [subs EXCEPT ![s] = IF @ = "active" THEN "paused" ELSE "active"]
  /\ UNCHANGED <<event, delivery, courier, taken, crashes>>
DeleteSubscription(s) ==
  /\ subs[s] # "deleted" /\ Free(Events \X {s})
  /\ subs' = [subs EXCEPT ![s] = "deleted"]
  /\ delivery' = [d \in Deliveries |-> IF d[2] = s /\ delivery[d].status # "none"
                                       THEN [delivery[d] EXCEPT !.status = "gone"] ELSE delivery[d]]
  /\ UNCHANGED <<event, courier, taken, crashes>>

-----------------------------------------------------------------------------
(* The delivery worker *)
Due == {d \in Deliveries : delivery[d].status = "pending" /\ delivery[d].due}
PickCandidates(c) ==
  /\ courier[c] = Resting /\ Due # {}
  /\ \E D \in SUBSET Due :
       /\ Cardinality(D) = IF Cardinality(Due) < BatchLimit THEN Cardinality(Due) ELSE BatchLimit
       /\ courier' = [courier EXCEPT ![c] = [Resting EXCEPT !.at = "picked", !.batch = D]]
  /\ UNCHANGED <<subs, event, delivery, taken, crashes>>

MayClaimUnlocked(D) == TRUE                                   \* mutant
\* The UPDATE waits for the rows another run holds, then looks at the status again,
\* and at the status alone.
MayClaim(D) == Free(D)
Claim(c) ==
  /\ courier[c].at = "picked" /\ MayClaim(courier[c].batch)
  /\ LET D == {d \in courier[c].batch : delivery[d].status = "pending"} IN
     courier' = [courier EXCEPT ![c] = IF D = {} THEN Resting
                                       ELSE [Resting EXCEPT !.at = "posting", !.batch = D]]
  /\ UNCHANGED <<subs, event, delivery, taken, crashes>>

ToPost(c) == InHand(c) \ (courier[c].ok \cup courier[c].failed)
CountsAnyAnswer(answer) == answer \in {"2xx", "error"}        \* mutant
\* Any answer of 2xx is a success; a subscriber may take the POST and answer nothing.
CountsAsSent(answer) == answer = "2xx"
Post(c, d, answer) ==
  /\ d \in ToPost(c)
  /\ taken' = IF answer = "2xx" THEN taken \cup {d} ELSE taken
  /\ courier' = IF CountsAsSent(answer) THEN [courier EXCEPT ![c].ok = @ \cup {d}]
                                        ELSE [courier EXCEPT ![c].failed = @ \cup {d}]
  /\ UNCHANGED <<subs, event, delivery, crashes>>

After1Forever(row) == [status |-> "pending", attempts |-> row.attempts, due |-> FALSE]  \* mutant
After1(row) == LET n == row.attempts + 1 IN
  IF n >= MaxTries THEN [status |-> "dead", attempts |-> n, due |-> FALSE]
                   ELSE [status |-> "pending", attempts |-> n, due |-> FALSE]
CommitBatch(c) ==
  /\ courier[c].at = "posting" /\ ToPost(c) = {}
  /\ delivery' = [d \in Deliveries |->
       CASE d \in courier[c].ok -> [delivery[d] EXCEPT !.status = "sent", !.attempts = @ + 1]
         [] d \in courier[c].failed -> After1(delivery[d])
         [] OTHER -> delivery[d]]
  /\ courier' = [courier EXCEPT ![c] = Resting]
  /\ UNCHANGED <<subs, event, taken, crashes>>

\* The run dies, or an exception other than a transport error ends it: rolled back.
Crash(c) ==
  /\ courier[c] # Resting /\ crashes < MaxCrashes
  /\ crashes' = crashes + 1
  /\ courier' = [courier EXCEPT ![c] = Resting]
  /\ UNCHANGED <<subs, event, delivery, taken>>

BackoffPasses(d) ==
  /\ delivery[d].status = "pending" /\ ~delivery[d].due
  /\ delivery' = [delivery EXCEPT ![d].due = TRUE]
  /\ UNCHANGED <<subs, event, courier, taken, crashes>>

NextWebhooks ==
  \/ \E e \in Events : EventReads(e) \/ EventCommits(e) \/ EventBreaks(e)
  \/ \E s \in Subscriptions : SwitchSubscription(s) \/ DeleteSubscription(s)
  \/ \E c \in Couriers : PickCandidates(c) \/ Claim(c) \/ CommitBatch(c) \/ Crash(c)
  \/ \E c \in Couriers, d \in Deliveries, answer \in {"2xx", "error", "silence"} : Post(c, d, answer)
  \/ \E d \in Deliveries : BackoffPasses(d)

\* Cron starts the worker every minute and a run it has started goes on; POSTs time
\* out; time passes.
WebhooksFairness ==
  /\ \A c \in Couriers :
       /\ WF_webhookVars(PickCandidates(c)) /\ WF_webhookVars(CommitBatch(c))
       /\ SF_webhookVars(Claim(c))
       /\ WF_webhookVars(\E d \in Deliveries, answer \in {"2xx", "error", "silence"} : Post(c, d, answer))
  /\ \A d \in Deliveries : WF_webhookVars(BackoffPasses(d))

SpecWebhooks == InitWebhooks /\ [][NextWebhooks]_webhookVars /\ WebhooksFairness

-----------------------------------------------------------------------------
(* Type invariant. *)
WebhooksTypeOK ==
  /\ subs \in [Subscriptions -> {"active", "paused", "deleted"}]
  /\ event \in [Events -> [status : {"none", "open", "committed", "broken"}, to : SUBSET Subscriptions]]
  /\ delivery \in [Deliveries -> DeliveryRow]
  /\ courier \in [Couriers -> [at : {"rest", "picked", "posting"}, batch : SUBSET Deliveries,
                               ok : SUBSET Deliveries, failed : SUBSET Deliveries]]
  /\ taken \subseteq Deliveries /\ crashes \in 0..MaxCrashes

(* Two runs at one time never have one delivery in hand, though the mark   *)
(* 'in_progress' is not committed (_claim_pending).                        *)
OneCourierPerDelivery ==
  \A c, k \in Couriers : c # k => InHand(c) \cap InHand(k) = {}

(* 'sent' says that the subscriber answered with success, whatever runs    *)
(* died and were repeated before (deliver_pending).                        *)
SentWasTaken == \A d \in Deliveries : delivery[d].status = "sent" => d \in taken

(* Every delivery comes to an end: sent, given up after MAX_ATTEMPTS, or   *)
(* deleted with its subscription; it is not retried for ever and no run    *)
(* that died leaves it in progress.                                        *)
EveryDeliveryEnds ==
  \A d \in Deliveries : delivery[d].status = "pending" ~> delivery[d].status # "pending"
=============================================================================
