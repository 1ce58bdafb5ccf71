--------------------------- MODULE DeliveryProofs ---------------------------
(***************************************************************************)
(* The delivery of webhooks for any events, subscriptions, runs and        *)
(* limits: rows in hand wait for an answer, belong to one run, and what    *)
(* that run counts as delivered the subscriber took.                       *)
(***************************************************************************)
EXTENDS OutgoingWebhooks, TLAPS

CourierRow == [at : {"rest", "picked", "posting"}, batch : SUBSET Deliveries,
               ok : SUBSET Deliveries, failed : SUBSET Deliveries]

(* A delivery has no row before its event is committed. *)
NotBeforeEvent == \A d \in Deliveries :
  event[d[1]].status \in {"none", "open"} => delivery[d].status = "none"
(* A row that may be tried has a try left: so the last try is the end.     *)
TriesLeft == \A d \in Deliveries : delivery[d].status = "pending" => delivery[d].attempts < MaxTries
(* Nobody deletes or finishes a row that a run holds; the run counts each  *)
(* of them once.                                                           *)
HeldIsPending == \A c \in Couriers : \A d \in InHand(c) : delivery[d].status = "pending"
OkIsTaken == \A c \in Couriers : courier[c].ok \subseteq taken /\ courier[c].ok \subseteq InHand(c)
                                 /\ courier[c].failed \subseteq InHand(c)
                                 /\ courier[c].ok \cap courier[c].failed = {}
WebhooksInv == /\ WebhooksTypeOK /\ NotBeforeEvent /\ TriesLeft /\ HeldIsPending /\ OkIsTaken
               /\ OneCourierPerDelivery /\ SentWasTaken

-----------------------------------------------------------------------------
LEMMA WebhooksBegin == InitWebhooks => WebhooksInv
<1> SUFFICES ASSUME InitWebhooks PROVE WebhooksInv
  OBVIOUS
<1>1. WebhooksTypeOK
  BY WebhooksAssumption DEF InitWebhooks, WebhooksTypeOK, DeliveryRow, Resting
<1>2. \A c \in Couriers : InHand(c) = {} /\ courier[c].ok = {} /\ courier[c].failed = {}
  BY DEF InitWebhooks, InHand, Resting
<1>3. NotBeforeEvent /\ TriesLeft /\ SentWasTaken
  BY DEF InitWebhooks, NotBeforeEvent, TriesLeft, SentWasTaken
<1>4. HeldIsPending /\ OkIsTaken /\ OneCourierPerDelivery
  BY <1>2 DEF HeldIsPending, OkIsTaken, OneCourierPerDelivery
<1> QED BY <1>1, <1>3, <1>4 DEF WebhooksInv

(* Events and subscriptions while the runs stand still: the rows in hand   *)
(* are left alone.                                                         *)
LEMMA CouriersStand ==
  ASSUME WebhooksInv, WebhooksTypeOK', NotBeforeEvent', TriesLeft', UNCHANGED <<courier, taken>>,
         \A c \in Couriers : \A d \in InHand(c) : delivery'[d].status = "pending",
         \A d \in Deliveries : delivery'[d].status = "sent" => delivery[d].status = "sent"
  PROVE  WebhooksInv'
<1>1. \A c \in Couriers : InHand(c)' = InHand(c)
  BY DEF InHand
<1>2. HeldIsPending'
  BY <1>1 DEF HeldIsPending
<1>3. OkIsTaken' /\ OneCourierPerDelivery'
  BY <1>1 DEF WebhooksInv, OkIsTaken, OneCourierPerDelivery
<1>4. SentWasTaken'
  BY DEF WebhooksInv, SentWasTaken
<1> QED BY <1>2, <1>3, <1>4 DEF WebhooksInv

LEMMA EventKeeps ==
  ASSUME WebhooksInv, NEW e \in Events, EventReads(e) \/ EventBreaks(e)
  PROVE  WebhooksInv'
<1>1. UNCHANGED <<subs, delivery, courier, taken, crashes>>
  BY DEF EventReads, EventBreaks
<1>2. event[e].status \in {"none", "open"} /\ \A f \in Events \ {e} : event'[f] = event[f]
  BY DEF EventReads, EventBreaks, WebhooksInv, WebhooksTypeOK
<1>3. WebhooksTypeOK'
  BY <1>1 DEF EventReads, EventBreaks, WebhooksInv, WebhooksTypeOK
<1>4. NotBeforeEvent' /\ TriesLeft'
  BY <1>1, <1>2 DEF WebhooksInv, NotBeforeEvent, TriesLeft, Deliveries
<1>5. \A c \in Couriers : \A d \in InHand(c) : delivery'[d].status = "pending"
  BY <1>1 DEF WebhooksInv, HeldIsPending
<1> QED BY <1>1, <1>3, <1>4, <1>5, CouriersStand

LEMMA HandsAreRows ==
  ASSUME WebhooksTypeOK, NEW c \in Couriers
  PROVE  InHand(c) \subseteq Deliveries /\ courier[c] \in CourierRow
  BY DEF WebhooksTypeOK, InHand, CourierRow

LEMMA CommitKeeps ==
  ASSUME WebhooksInv, NEW e \in Events, EventCommits(e)
  PROVE  WebhooksInv'
<1> DEFINE fresh == [status |-> "pending", attempts |-> 0, due |-> TRUE]
           made == {d \in Deliveries : d[1] = e /\ d[2] \in event[e].to}
<1>1. UNCHANGED <<subs, courier, taken, crashes>> /\ event[e].status = "open"
  BY DEF EventCommits
<1>2. \A d \in Deliveries : delivery'[d] = IF d \in made THEN fresh ELSE delivery[d]
  BY DEF EventCommits
<1>3. fresh \in DeliveryRow
  BY WebhooksAssumption DEF DeliveryRow
<1>4. \A d \in made : delivery[d].status = "none" /\ d[1] = e
  BY <1>1 DEF WebhooksInv, NotBeforeEvent
<1>5. /\ \A f \in Events \ {e} : event'[f] = event[f]
      /\ event'[e].status = "committed" /\ event'[e].to = event[e].to
      /\ event' \in [Events -> [status : {"none", "open", "committed", "broken"}, to : SUBSET Subscriptions]]
  BY DEF EventCommits, WebhooksInv, WebhooksTypeOK
<1>6. delivery' \in [Deliveries -> DeliveryRow]
  <2>1. delivery' = [d \in Deliveries |-> IF d \in made THEN fresh ELSE delivery[d]]
    BY DEF EventCommits
  <2> HIDE DEF fresh, made
  <2> QED BY <2>1, <1>3 DEF WebhooksInv, WebhooksTypeOK
<1>7. WebhooksTypeOK'
  BY <1>1, <1>5, <1>6 DEF WebhooksInv, WebhooksTypeOK
<1>8. NotBeforeEvent'
  <2> SUFFICES ASSUME NEW d \in Deliveries, event'[d[1]].status \in {"none", "open"}
               PROVE  delivery'[d].status = "none"
    BY DEF NotBeforeEvent
  <2>1. d[1] \in Events /\ d[1] # e
    BY <1>5 DEF Deliveries
  <2>2. event[d[1]].status \in {"none", "open"} /\ d \notin made
    BY <2>1, <1>5
  <2> QED BY <2>2, <1>2 DEF WebhooksInv, NotBeforeEvent
<1>9. TriesLeft'
  BY <1>2, WebhooksAssumption DEF WebhooksInv, TriesLeft
<1>10. \A c \in Couriers : \A d \in InHand(c) : delivery'[d].status = "pending"
  BY <1>2, <1>4, HandsAreRows DEF WebhooksInv, HeldIsPending
<1>11. \A d \in Deliveries : delivery'[d].status = "sent" => delivery[d].status = "sent"
  BY <1>2
<1> QED BY <1>1, <1>7, <1>8, <1>9, <1>10, <1>11, CouriersStand

LEMMA SubscriptionKeeps ==
  ASSUME WebhooksInv, NEW s \in Subscriptions, SwitchSubscription(s) \/ DeleteSubscription(s)
  PROVE  WebhooksInv'
<1>1. CASE SwitchSubscription(s)
  <2>1. WebhooksTypeOK' /\ NotBeforeEvent' /\ TriesLeft'
    BY <1>1 DEF SwitchSubscription, WebhooksInv, WebhooksTypeOK, NotBeforeEvent, TriesLeft
  <2>2. UNCHANGED <<delivery, courier, taken>>
    BY <1>1 DEF SwitchSubscription
  <2> QED BY <2>1, <2>2, CouriersStand DEF WebhooksInv, HeldIsPending
<1>2. CASE DeleteSubscription(s)
  <2> DEFINE lost == {d \in Deliveries : d[2] = s /\ delivery[d].status # "none"}
             gone(d) == [delivery[d] EXCEPT !.status = "gone"]
  <2>1. UNCHANGED <<event, courier, taken, crashes>> /\ subs' = [subs EXCEPT ![s] = "deleted"]
        /\ delivery' = [d \in Deliveries |-> IF d \in lost THEN gone(d) ELSE delivery[d]]
    BY <1>2 DEF DeleteSubscription
  <2>2. \A d \in Deliveries : gone(d) \in DeliveryRow /\ gone(d).status = "gone"
    BY DEF DeliveryRow, WebhooksInv, WebhooksTypeOK
  <2>3. \A c \in Couriers : InHand(c) \cap lost = {}
    <3>1. \A d \in lost : d \in Events \X {s}
      BY DEF Deliveries
    <3> QED BY <1>2, <3>1 DEF DeleteSubscription, Free
  <2>4. \A d \in lost : delivery[d].status # "none"
    OBVIOUS
  <2> HIDE DEF lost, gone
  <2>5. \A d \in Deliveries : delivery'[d] = IF d \in lost THEN gone(d) ELSE delivery[d]
    BY <2>1
  <2>6. WebhooksTypeOK'
    BY <2>1, <2>2 DEF WebhooksInv, WebhooksTypeOK
  <2>7. NotBeforeEvent' /\ TriesLeft'
    BY <2>1, <2>2, <2>4, <2>5 DEF WebhooksInv, NotBeforeEvent, TriesLeft
  <2>8. \A c \in Couriers : \A d \in InHand(c) : delivery'[d].status = "pending"
    BY <2>3, <2>5, HandsAreRows DEF WebhooksInv, HeldIsPending
  <2>9. \A d \in Deliveries : delivery'[d].status = "sent" => delivery[d].status = "sent"
    BY <2>2, <2>5
  <2> QED BY <2>1, <2>6, <2>7, <2>8, <2>9, CouriersStand
<1> QED BY <1>1, <1>2

LEMMA BackoffKeeps ==
  ASSUME WebhooksInv, NEW d \in Deliveries, BackoffPasses(d)
  PROVE  WebhooksInv'
<1>1. UNCHANGED <<subs, event, courier, taken, crashes>>
      /\ delivery' = [delivery EXCEPT ![d] = [delivery[d] EXCEPT !.due = TRUE]]
  BY DEF BackoffPasses, WebhooksInv, WebhooksTypeOK
<1>2. \A k \in Deliveries : delivery'[k].status = delivery[k].status
                            /\ delivery'[k].attempts = delivery[k].attempts
  BY <1>1 DEF WebhooksInv, WebhooksTypeOK, DeliveryRow
<1>3. WebhooksTypeOK'
  BY <1>1 DEF WebhooksInv, WebhooksTypeOK, DeliveryRow
<1>4. NotBeforeEvent' /\ TriesLeft'
  BY <1>1, <1>2 DEF WebhooksInv, NotBeforeEvent, TriesLeft
<1>5. \A c \in Couriers : \A k \in InHand(c) : delivery'[k].status = "pending"
  BY <1>2, HandsAreRows DEF WebhooksInv, HeldIsPending
<1> QED BY <1>1, <1>2, <1>3, <1>4, <1>5, CouriersStand

-----------------------------------------------------------------------------
(* Steps of a run *)
(* A run that lets go of what it had, without a change of rows. *)
LEMMA RowsStand ==
  ASSUME WebhooksInv, NEW c \in Couriers, NEW row \in CourierRow, row.at # "posting",
         row.ok = {}, row.failed = {}, courier' = [courier EXCEPT ![c] = row],
         UNCHANGED <<subs, event, delivery, taken>>, crashes' \in 0..MaxCrashes
  PROVE  WebhooksInv'
<1>1. \A k \in Couriers : courier'[k] = IF k = c THEN row ELSE courier[k]
  BY DEF WebhooksInv, WebhooksTypeOK
<1>2. WebhooksTypeOK'
  BY <1>1 DEF WebhooksInv, WebhooksTypeOK, CourierRow
<1>3. \A k \in Couriers : InHand(k)' = IF k = c THEN {} ELSE InHand(k)
  BY <1>1 DEF InHand
<1>4. NotBeforeEvent' /\ TriesLeft' /\ SentWasTaken'
  BY DEF WebhooksInv, NotBeforeEvent, TriesLeft, SentWasTaken
<1>5. HeldIsPending' /\ OneCourierPerDelivery'
  BY <1>3 DEF WebhooksInv, HeldIsPending, OneCourierPerDelivery
<1>6. OkIsTaken'
  BY <1>1, <1>3 DEF WebhooksInv, OkIsTaken
<1> QED BY <1>2, <1>4, <1>5, <1>6 DEF WebhooksInv

LEMMA RestingTyped == Resting \in CourierRow /\ Resting.at = "rest" /\ Resting.ok = {} /\ Resting.failed = {}
  BY DEF Resting, CourierRow

LEMMA PickKeeps ==
  ASSUME WebhooksInv, NEW c \in Couriers, PickCandidates(c)
  PROVE  WebhooksInv'
<1>1. PICK D \in SUBSET Due : courier' = [courier EXCEPT ![c] = [Resting EXCEPT !.at = "picked", !.batch = D]]
  BY DEF PickCandidates
<1> DEFINE row == [Resting EXCEPT !.at = "picked", !.batch = D]
<1>2. row \in CourierRow /\ row.at = "picked" /\ row.ok = {} /\ row.failed = {}
  BY DEF Resting, CourierRow, Due
<1>3. UNCHANGED <<subs, event, delivery, taken>> /\ crashes' \in 0..MaxCrashes
  BY DEF PickCandidates, WebhooksInv, WebhooksTypeOK
<1> HIDE DEF row
<1> QED BY <1>1, <1>2, <1>3, RowsStand DEF row

LEMMA CrashKeeps ==
  ASSUME WebhooksInv, NEW c \in Couriers, Crash(c)
  PROVE  WebhooksInv'
<1>1. crashes' \in 0..MaxCrashes
  BY WebhooksAssumption DEF Crash, WebhooksInv, WebhooksTypeOK
<1> QED BY <1>1, RestingTyped, RowsStand DEF Crash

LEMMA ClaimKeeps ==
  ASSUME WebhooksInv, NEW c \in Couriers, Claim(c)
  PROVE  WebhooksInv'
<1> DEFINE D == {d \in courier[c].batch : delivery[d].status = "pending"}
           row == [Resting EXCEPT !.at = "posting", !.batch = D]
<1>1. courier' = [courier EXCEPT ![c] = IF D = {} THEN Resting ELSE row]
      /\ UNCHANGED <<subs, event, delivery, taken, crashes>>
  BY DEF Claim
<1>2. D \subseteq Deliveries /\ (\A d \in D : delivery[d].status = "pending")
      /\ \A k \in Couriers : InHand(k) \cap D = {}
  <2>1. courier[c].batch \subseteq Deliveries
    BY HandsAreRows DEF WebhooksInv, CourierRow
  <2>2. Free(courier[c].batch)
    BY DEF Claim, MayClaim
  <2> QED BY <2>1, <2>2 DEF Free
<1> HIDE DEF D
<1>3. CASE D = {}
  <2>1. crashes' \in 0..MaxCrashes
    BY <1>1 DEF WebhooksInv, WebhooksTypeOK
  <2> QED BY <1>1, <1>3, <2>1, RestingTyped, RowsStand
<1>4. CASE D # {}
  <2>1. row \in CourierRow /\ row.at = "posting" /\ row.batch = D /\ row.ok = {} /\ row.failed = {}
    BY <1>2 DEF Resting, CourierRow
  <2>2. courier' = [courier EXCEPT ![c] = row]
    BY <1>1, <1>4
  <2> HIDE DEF row
  <2>3. \A k \in Couriers : courier'[k] = IF k = c THEN row ELSE courier[k]
    BY <2>2 DEF WebhooksInv, WebhooksTypeOK
  <2>4. \A k \in Couriers : InHand(k)' = IF k = c THEN D ELSE InHand(k)
    BY <2>1, <2>3 DEF InHand
  <2>5. WebhooksTypeOK'
    BY <1>1, <2>1, <2>2 DEF WebhooksInv, WebhooksTypeOK, CourierRow
  <2>6. NotBeforeEvent' /\ TriesLeft' /\ SentWasTaken'
    BY <1>1 DEF WebhooksInv, NotBeforeEvent, TriesLeft, SentWasTaken
  <2>7. HeldIsPending' /\ OneCourierPerDelivery'
    BY <1>1, <1>2, <2>4 DEF WebhooksInv, HeldIsPending, OneCourierPerDelivery
  <2>8. OkIsTaken'
    BY <1>1, <2>1, <2>3, <2>4 DEF WebhooksInv, OkIsTaken
  <2> QED BY <2>5, <2>6, <2>7, <2>8 DEF WebhooksInv
<1> QED BY <1>3, <1>4

LEMMA PostKeeps ==
  ASSUME WebhooksInv, NEW c \in Couriers, NEW d \in Deliveries, NEW answer, Post(c, d, answer)
  PROVE  WebhooksInv'
<1> DEFINE row == IF CountsAsSent(answer) THEN [courier[c] EXCEPT !.ok = courier[c].ok \cup {d}]
                                          ELSE [courier[c] EXCEPT !.failed = courier[c].failed \cup {d}]
<1>1. d \in InHand(c) /\ courier[c] \in CourierRow
  BY HandsAreRows DEF Post, ToPost, WebhooksInv
<1>once. d \notin courier[c].ok /\ d \notin courier[c].failed
  BY DEF Post, ToPost
<1>2. /\ row \in CourierRow /\ row.at = courier[c].at /\ row.batch = courier[c].batch
      /\ row.ok \subseteq courier[c].ok \cup {d} /\ row.failed \subseteq courier[c].failed \cup {d}
      /\ d \in row.ok => d \in courier[c].ok \/ answer = "2xx"
      /\ ~(d \in row.ok /\ d \in row.failed)
  BY <1>1, <1>once DEF CourierRow, CountsAsSent
<1>3. courier' = [courier EXCEPT ![c] = row] /\ UNCHANGED <<subs, event, delivery, crashes>>
  BY DEF Post
<1>4. taken \subseteq taken' /\ taken' \subseteq Deliveries /\ (answer = "2xx" => d \in taken')
  BY DEF Post, WebhooksInv, WebhooksTypeOK
<1> HIDE DEF row
<1>5. \A k \in Couriers : courier'[k] = IF k = c THEN row ELSE courier[k]
  BY <1>3 DEF WebhooksInv, WebhooksTypeOK
<1>6. \A k \in Couriers : InHand(k)' = InHand(k)
  BY <1>2, <1>5 DEF InHand
<1>7. WebhooksTypeOK'
  BY <1>2, <1>3, <1>4 DEF WebhooksInv, WebhooksTypeOK, CourierRow
<1>8. NotBeforeEvent' /\ TriesLeft' /\ SentWasTaken'
  BY <1>3, <1>4 DEF WebhooksInv, NotBeforeEvent, TriesLeft, SentWasTaken
<1>9. HeldIsPending' /\ OneCourierPerDelivery'
  BY <1>3, <1>6 DEF WebhooksInv, HeldIsPending, OneCourierPerDelivery
<1>10. OkIsTaken'
  <2> SUFFICES ASSUME NEW k \in Couriers
               PROVE  /\ courier'[k].ok \subseteq taken' /\ courier'[k].ok \subseteq InHand(k)
                      /\ courier'[k].failed \subseteq InHand(k)
                      /\ courier'[k].ok \cap courier'[k].failed = {}
    BY <1>6 DEF OkIsTaken
  <2>1. /\ courier[k].ok \subseteq taken /\ courier[k].ok \subseteq InHand(k)
        /\ courier[k].failed \subseteq InHand(k) /\ courier[k].ok \cap courier[k].failed = {}
    BY DEF WebhooksInv, OkIsTaken
  <2>2. CASE k # c
    BY <1>4, <1>5, <2>1, <2>2
  <2>3. CASE k = c
    BY <1>1, <1>2, <1>4, <1>5, <2>1, <2>3
  <2> QED BY <2>2, <2>3
<1> QED BY <1>7, <1>8, <1>9, <1>10 DEF WebhooksInv

LEMMA BatchKeeps ==
  ASSUME WebhooksInv, NEW c \in Couriers, CommitBatch(c)
  PROVE  WebhooksInv'
<1> DEFINE took(d) == [delivery[d] EXCEPT !.status = "sent", !.attempts = delivery[d].attempts + 1]
           ok == courier[c].ok
           failed == courier[c].failed
<1>1. courier' = [courier EXCEPT ![c] = Resting] /\ UNCHANGED <<subs, event, taken, crashes>>
  BY DEF CommitBatch
<1> DEFINE row(d) == CASE d \in ok -> took(d) [] d \in failed -> After1(delivery[d])
                       [] OTHER -> delivery[d]
<1>dom. delivery' = [d \in Deliveries |-> row(d)]
  BY DEF CommitBatch
<1>2. ok \subseteq taken /\ ok \subseteq InHand(c) /\ failed \subseteq InHand(c)
      /\ InHand(c) \subseteq Deliveries /\ ok \cap failed = {}
  BY HandsAreRows DEF WebhooksInv, OkIsTaken
<1>3. \A d \in Deliveries : /\ d \in ok => delivery'[d] = took(d)
                            /\ d \notin ok /\ d \in failed => delivery'[d] = After1(delivery[d])
                            /\ d \notin ok /\ d \notin failed => delivery'[d] = delivery[d]
  <2> HIDE DEF took, ok, failed
  <2> QED BY <1>dom, <1>2
<1>4. \A d \in InHand(c) : delivery[d].status = "pending" /\ delivery[d].attempts < MaxTries
                           /\ delivery[d] \in DeliveryRow
  BY <1>2 DEF WebhooksInv, WebhooksTypeOK, HeldIsPending, TriesLeft
<1>5. \A d \in InHand(c) : took(d) \in DeliveryRow /\ took(d).status = "sent"
  <2> SUFFICES ASSUME NEW d \in InHand(c)
               PROVE  took(d) \in DeliveryRow /\ took(d).status = "sent"
    OBVIOUS
  <2>1. delivery[d] \in [status : {"none", "pending", "sent", "dead", "gone"},
                         attempts : 0..MaxTries, due : BOOLEAN]
    BY <1>4 DEF DeliveryRow
  <2>2. delivery[d].attempts + 1 \in 0..MaxTries
    BY <1>4, <2>1, WebhooksAssumption
  <2> QED BY <2>1, <2>2 DEF DeliveryRow
<1>6. \A d \in InHand(c) : /\ After1(delivery[d]) \in DeliveryRow
                           /\ After1(delivery[d]).status \in {"dead", "pending"}
                           /\ After1(delivery[d]).status = "pending" => After1(delivery[d]).attempts < MaxTries
  BY <1>4, WebhooksAssumption DEF DeliveryRow, After1
<1> HIDE DEF took, ok, failed
<1>7. \A d \in Deliveries : delivery'[d] \in DeliveryRow
  BY <1>3, <1>2, <1>5, <1>6 DEF WebhooksInv, WebhooksTypeOK
<1>8. delivery' \in [Deliveries -> DeliveryRow]
  <2> HIDE DEF row
  <2> QED BY <1>dom, <1>7
<1>9. \A k \in Couriers : courier'[k] = IF k = c THEN Resting ELSE courier[k]
  BY <1>1 DEF WebhooksInv, WebhooksTypeOK
<1>10. WebhooksTypeOK'
  BY <1>1, <1>8, RestingTyped DEF WebhooksInv, WebhooksTypeOK, CourierRow
<1>11. \A k \in Couriers : InHand(k)' = IF k = c THEN {} ELSE InHand(k)
  BY <1>9, RestingTyped DEF InHand
<1>12. NotBeforeEvent'
  BY <1>1, <1>3, <1>2, <1>4 DEF WebhooksInv, NotBeforeEvent
<1>13. TriesLeft'
  BY <1>3, <1>2, <1>5, <1>6 DEF WebhooksInv, TriesLeft
<1>14. HeldIsPending'
  <2> SUFFICES ASSUME NEW k \in Couriers, k # c, NEW d \in InHand(k)
               PROVE  delivery'[d].status = "pending"
    BY <1>11 DEF HeldIsPending
  <2>1. d \in Deliveries /\ d \notin InHand(c) /\ delivery[d].status = "pending"
    BY HandsAreRows DEF WebhooksInv, OneCourierPerDelivery, HeldIsPending
  <2> QED BY <2>1, <1>3, <1>2
<1>15. OneCourierPerDelivery'
  BY <1>11 DEF WebhooksInv, OneCourierPerDelivery
<1>16. OkIsTaken'
  BY <1>1, <1>9, <1>11, RestingTyped DEF WebhooksInv, OkIsTaken
<1>17. SentWasTaken'
  BY <1>1, <1>3, <1>2, <1>6 DEF WebhooksInv, SentWasTaken
<1> QED BY <1>10, <1>12, <1>13, <1>14, <1>15, <1>16, <1>17 DEF WebhooksInv

-----------------------------------------------------------------------------
LEMMA WebhooksPreserved ==
  ASSUME WebhooksInv, [NextWebhooks]_webhookVars
  PROVE  WebhooksInv'
<1>1. ASSUME NEW e \in Events, EventReads(e) \/ EventCommits(e) \/ EventBreaks(e)
      PROVE  WebhooksInv'
  BY <1>1, EventKeeps, CommitKeeps
<1>2. ASSUME NEW s \in Subscriptions, SwitchSubscription(s) \/ DeleteSubscription(s)
      PROVE  WebhooksInv'
  BY <1>2, SubscriptionKeeps
<1>3. ASSUME NEW c \in Couriers, PickCandidates(c) \/ Claim(c) \/ CommitBatch(c) \/ Crash(c)
      PROVE  WebhooksInv'
  BY <1>3, PickKeeps, ClaimKeeps, BatchKeeps, CrashKeeps
<1>4. ASSUME NEW c \in Couriers, NEW d \in Deliveries, NEW answer \in {"2xx", "error", "silence"},
             Post(c, d, answer)
      PROVE  WebhooksInv'
  BY <1>4, PostKeeps
<1>5. ASSUME NEW d \in Deliveries, BackoffPasses(d)
      PROVE  WebhooksInv'
  BY <1>5, BackoffKeeps
<1>6. CASE UNCHANGED webhookVars
  BY <1>6 DEF webhookVars, WebhooksInv, WebhooksTypeOK, NotBeforeEvent, TriesLeft, HeldIsPending,
     OkIsTaken, InHand, OneCourierPerDelivery, SentWasTaken
<1> QED BY <1>1, <1>2, <1>3, <1>4, <1>5, <1>6 DEF NextWebhooks

(* Two runs never have one delivery in hand, though the mark of a claimed  *)
(* row is not committed (_claim_pending).                                  *)
THEOREM OneCourier == SpecWebhooks => []OneCourierPerDelivery
<1>1. WebhooksInv /\ [NextWebhooks]_webhookVars => WebhooksInv'
  BY WebhooksPreserved
<1>2. WebhooksInv => OneCourierPerDelivery
  BY DEF WebhooksInv
<1> QED BY WebhooksBegin, <1>1, <1>2, PTL DEF SpecWebhooks

(* 'took' is what the subscriber answered, whatever runs died before       *)
(* (deliver_pending).                                                      *)
THEOREM SentIsTaken == SpecWebhooks => []SentWasTaken
<1>1. WebhooksInv /\ [NextWebhooks]_webhookVars => WebhooksInv'
  BY WebhooksPreserved
<1>2. WebhooksInv => SentWasTaken
  BY DEF WebhooksInv
<1> QED BY WebhooksBegin, <1>1, <1>2, PTL DEF SpecWebhooks

(* No delivery is tried more than MAX_ATTEMPTS times, and what a run holds *)
(* is neither deleted nor finished by another.                             *)
THEOREM TriesAreBounded == SpecWebhooks => [](WebhooksTypeOK /\ HeldIsPending)
<1>1. WebhooksInv /\ [NextWebhooks]_webhookVars => WebhooksInv'
  BY WebhooksPreserved
<1>2. WebhooksInv => WebhooksTypeOK /\ HeldIsPending
  BY DEF WebhooksInv
<1> QED BY WebhooksBegin, <1>1, <1>2, PTL DEF SpecWebhooks
=============================================================================
