# Verification of legal_address_service

TLA+ models of the service, model-checked with TLC on small instances, and theorems about
them proved with TLAPS for every value of the constants. Paths are relative to the
repository. `PROJECT.json` maps every definition to the lines it models, lists each hazard of
the code at its line, and names for each checked property a plausible bug that breaks it.

## 1. The system

A marketplace of legal addresses: a client files an application, pays, the owner of the
address makes the documents ready, the platform prints the fiscal receipts and pays the
owner out once the tax office has registered the address. A FastAPI application with
asynchronous SQLAlchemy over PostgreSQL (READ COMMITTED), one process, cron scripts, and
external services: T-Bank acquiring, CDEK Pay, DaData, e-mail, web push, object storage.

| Component | State | Operations | Talks to |
|---|---|---|---|
| T-Bank payment automaton `app/services/tbank_payments.py` | a payment's `status`, `provider_status`, refund attempt and key; the application's status | `apply_bank_state`, `recheck_payment`, `refund_failed`, `_on_paid` | T-Bank, owner payouts, closing receipts |
| Payment handlers `app/routers/payments.py` | the same rows, under `FOR UPDATE` | initiate, cancel, refund, retire links when receipt data change, page poll; manual invoice, CDEK | the automaton, T-Bank, CDEK Pay |
| Inbound webhooks `app/routers/webhooks.py` | the journal `incoming_webhooks` | `tbank_notification`, CDEK callbacks | the automaton |
| Reconciliation cron `scripts/reconcile_tbank_payments.py` | none of its own | polls payments, sends receipts | the automaton, closing receipts |
| T-Bank client `app/services/tbank_acquiring.py` | circuit breaker | Init, GetState, Cancel, SendClosingReceipt | the bank |
| Closing fiscal receipts `app/services/tbank_receipts.py` | `closing_receipt_status`, attempts | due, claim, send, expire, resend, mark sent | T-Bank client, workflow |
| Owner payouts `app/services/owner_payouts.py`, `app/routers/owner_payouts.py` | payout rows | ensure, compare with EGRUL, confirm registration, mark paid, cancel | payments, applications, DaData |
| Application workflow `app/services/application_workflow.py` | the application's status, its deadline | the actions of client, owner, admin | documents, receipts, payouts |
| Manual invoices, CDEK Pay | payment rows, callbacks | invoice, receipt, callbacks | workflow |
| Files `app/services/storage.py`, `application_documents.py`, `routers/egrn.py`, ... | objects in the storage, `stored_files`, what refers to them | upload, replace, delete | workflow |
| Sessions and sign-in `app/routers/auth.py`, `mobile_auth.py`, `services/auth_sessions.py` | `user_sessions`, `users.is_active` | login, refresh, logout, logout of the others, switch off and on | rate limits |
| Rate limits `app/services/rate_limit.py` | attempts in a window | count, record, forget | sign-in, onboarding |
| Onboarding `app/routers/provider_requests.py`, `marketplace.py`, `services/email_verification.py` | connection requests, invitations, users, tokens | apply, review, approve, accept, confirm | e-mail |
| Chats `app/routers/address_chats.py`, `services/chat_threads.py`, `web_push.py` | threads, messages, read marks; sockets in memory | open, post, read, broadcast, push | inbox |
| Inbox and errands `app/services/notifications.py`, `routers/owner_tasks.py` | events, notices, errands | write, list, mark read; give, complete, cancel | everybody |
| Reminders `app/services/*_reminders.py` | what was told, deadlines | four mailers cron starts | workflow, inbox |
| Outgoing webhooks `app/services/webhooks.py`, `scripts/deliver_webhooks.py` | subscriptions, deliveries | enqueue, claim, post, retry | subscribers |
| Circuit breaker and cache `app/services/dadata.py` | failures in a row, when it opened | allow, record | DaData, CDEK, T-Bank |
| Page of an address `routers/address_moderation.py`, `address_photos.py`, `address_services.py`, `address_reviews.py` | publication, photos, services, reviews | submit, moderate, upload, review, reply | catalogue |
| Catalogue and figures `routers/marketplace.py`, `services/application_pricing.py`, `owner_address_stats.py`, `provider_rating.py`, `validators.py` | none | queries and formulas | — |

Payments, applications and files are shared state; the unit of atomicity is a database
transaction. Three habits of the code make its behaviour hard:

* a T-Bank handler locks the payment row and calls the bank **while holding the lock**; a poll
  calls the bank with **no** lock and validates a fingerprint afterwards. Requests interleave at
  every bank call; the bank and the buyer move meanwhile; an answer may be lost after the call
  was executed; the process may die between the call and the commit; notifications are
  repeated, reordered or lost;
* everything else reads a row, checks it, works, and commits later, **without a lock**: what
  it checked may be stale. SQLAlchemy writes only the columns whose value differs from the one
  loaded, so late commits overwrite each other column by column; the session does not flush by
  itself; unique indexes and conditional UPDATEs decide what readings cannot;
* what leaves the process (a letter, bytes, a push, a POST, a message over a socket) leaves
  before or after the commit, and one of the two may fail alone.

What makes each component correct:

* automaton and handlers: the books never run ahead of the bank, never go backwards and never
  lose confirmed money from sight; one link to pay; one refund order alive; an application is
  PAID only by real money;
* cron: what notifications miss, polling finishes;
* closing receipts: at most one closing receipt of a payment unless a person decides to send
  another, and none for money that went back unless somebody is told;
* payouts: an owner is paid once, for money the platform still has, and after a registration
  that was compared with the register;
* workflow: documents are approved before they are issued, also with two actions at once;
* callbacks: an effect once, however often they come;
* sessions: one heir of a refresh token, and switching an account off closes for good every
  session it had when that began;
* limits on attempts and on photos: passed by no more than the requests in flight;
* onboarding: an invitation makes one account, and an owner leads back to a request;
* chats and inbox: nobody is left out, nothing unread is uncounted, what is shown opens;
* reminders: each once, and to those concerned;
* webhooks: no two couriers with one delivery, `sent` means taken, every delivery ends;
* files: a row has its bytes; one current extract;
* breaker: a service that came back is reached again;
* catalogue: what is counted is what is listed, and what is listed opens.

## 2. Modules

| Module | Models |
|---|---|
| `TBank` | the bank, external, as the source uses it: statuses in the groups of `tbank_payments.py:58-93`, the buyer's money, refund orders by idempotency key, notifications |
| `TBankPayments` | the payments of one application: automaton, handlers, notifications, polls; the core |
| `Settlement` | abstract: what payments promise, as books that follow money |
| `TBankSettlement` | refinement mapping of `TBankPayments` to `Settlement` |
| `TBankReconcile` | `TBankPayments` with lost notifications and the cron; fairness and liveness |
| `TBankClaims` | a comment about payments that the code does not keep |
| `ClosingReceipts` | the closing fiscal receipt of an application: queue, senders, the kassa, the admin, refunds around it; fairness and liveness |
| `ClosingReceiptsClaims` | a statement of the docs about closing receipts that the code does not keep |
| `TBankReceipts` | `TBankPayments` and `ClosingReceipts` on the same rows: what the handlers of payments do to receipts in their transactions; refines `ClosingReceipts` |
| `ApplicationWorkflow` | the application's status: the table of transitions, actions of people that read and write without a lock |
| `OwnerPayouts` | `ApplicationWorkflow` with the payouts to the owner and all payments they depend on, T-Bank, CDEK Pay and invoices |
| `PayoutPromise` | abstract: what the owner is owed and when it is paid; `OwnerPayouts` refines it |
| `RegistrationCheck` | the comparison with EGRUL before a confirmation: addresses, names, answers that grow old |
| `OutsidePayments` | CDEK Pay and invoices by themselves: links, callbacks and their journal, people |
| `StoredFiles` | bytes, rows and what refers to them; extracts |
| `Reminders` | `ApplicationWorkflow` with its deadlines and the four mailers |
| `Sessions`, `RateLimits`, `Onboarding` | accounts: sign-in, limits on attempts, how accounts come to be |
| `AddressChats`, `ChatHub`, `Notices` | correspondence: threads and read marks; sockets, notices and pushes; the inbox and errands |
| `AddressPage`, `AddressReviews` | the page of an address: publication, photos, services; reviews |
| `OutgoingWebhooks`, `CircuitBreaker` | calls to others: deliveries to subscribers; the breaker before a service; fairness and liveness of both |
| `Catalogue`, `ProviderRating`, `Requisites` | pure: queries and prices; the rating of owners; check digits |
| `MCTBankPayments`, `MCTBankReceipts`, `MCOwnerPayouts` | the above with symmetry and bounds for TLC |
| `MCPlatform`, `MCOnboarding`, `MCDelivery` | instances of several modules side by side |
| `MCCatalogue` | sample rows on which TLC compares the pure operators with their definitions |
| `TBankPaymentsProofs`, `TBankBooksProofs`, `ClosingReceiptsProofs`, `TBankReceiptsProofs`, `OwnerPayoutsProofs`, `PlatformProofs`, `OnboardingProofs`, `DeliveryProofs` | theorems |

How they compose. `OwnerPayouts` and `Reminders` extend `ApplicationWorkflow` and add to its
actions; `TBankReconcile` extends `TBankPayments`. `ClosingReceipts` sees a payment by what the
receipt depends on (paid, a refund ordered by us or begun in the cabinet, refunded, partly
refunded) and replaces the machinery of `TBankPayments` by the moves it can make; each of its
money actions names the branch it stands for. That these are all the moves there are is no
assumption: `TBankReceipts` puts the two side by side, and its payments are proved to do to
receipts nothing that `ClosingReceipts` does not expect. `OwnerPayouts` likewise reduces the T-Bank
handlers to what they do to a payment. The modules of the rest of the platform speak of tables
of their own. `MCPlatform`, `MCOnboarding` and `MCDelivery` put them side by side without
multiplying them: a variable `part` is chosen at the start and only that part moves, so the
state space is the sum of the parts, not their product, and sharing the names of model values
lets one permutation act on all of them.

### How TBankPayments corresponds to the code

* `row[p]` is the committed payment row; `worker[w]` a running request with what it has read
  from the bank (`seen`) and written but not committed (`draft`). `paidBy` is the payment that
  moved the application to PAID (`AWAITING_PAYMENT` while there is none); `flagged` the
  payments reported to the admin as not awaited; `journal` the table `incoming_webhooks`.
* `After` is `apply_bank_state`, one case per branch; `Consequences` and `OnPaid` are what it
  does to the application, in the same transaction.
* a request moves through `Steps`: `asked` (the row is locked, GetState answered), `close`
  (about to Cancel), `reask` (the Cancel was unclear, ask again), `insert` and `init` (the
  PENDING row, then Init), `refund`, `refundask`; a poll through `polled` and `pollseen`
  without a lock. `HoldsLock` is `FOR UPDATE`; `NoOtherInit` the partial unique index on
  active payments, at which an insert waits for an uncommitted one.
* three handlers ask for a link to be closed (`Closing`): initiate, which goes on to a new one, the
  admin's cancellation, and `RetireLink`, which closes links whose receipt data have been corrected,
  whatever the application waits for, and issues nothing.
* `Dies` is a crash, a failed GetState or any other exception before the commit: a rollback.
  It may strike at every step of a request, also between a call the bank has executed (Init, a
  refund; of a Cancel, `CloseUnclear` and then `Dies`) and the commit: what the bank has done
  stays done, while the row, the attempt and its key are as before.
* `overtaken` is a history variable: payments settled by a poll whose answer was older than an
  order of ours at the bank (see the findings). The properties that such a poll breaks exempt
  these payments, and only these.

Abstractions. `expired` and `cancelled` are one status `closed`. A PENDING row exists only
inside a transaction. Amounts are reduced to whether the sum paid is the sum of the order.
Payments on another terminal are not modelled; a DEMO terminal is (`DemoPayments`). GetState
under the lock and the lock itself are one step, so are apply and commit. A Cancel whose
client has given up is executed before that or never. Time is a nondeterministic choice: a
link may be found past its term, or its receipt out of date, at any moment; the cron's
one-hour window after the term is not modelled. Events are abstracted to `flagged`.

### How ClosingReceipts corresponds to the code

* `cr[p]` is `closing_receipt_status` (`none` is NULL), `tries[p]` `closing_receipt_attempts`,
  `pay[p]` and `part[p]` the payment's `status` and whether its `provider_status` is
  PARTIAL_REFUNDED. `docs` is the application as far as receipts look at it: `issued` stands
  for ready for the client, completed and in dispute.
* `sender[s]` is a running `send_closing_receipt`: `claimed` after the committed conditional
  UPDATE of `_claim`, then the answer it has got and not written yet. The outcome is written
  without a lock and without looking at the row again (`WritesOutcome`), which is the heart of
  the component: everything may have happened in between.
* at the bank: `accepted` requests become `printed` receipts or fail and leave a `notices`
  RECEIPT notification; `late` requests are those the sender gave up while the bank still has
  them.
* `told` are the payments whose receipt the admin was told to see to and has not touched since
  (the alerts of `_give_up`, `unknown`, exhausted attempts, a RECEIPT failure); `checked` those
  with the alert to check the refund receipt.
* history: `ordered` counts the admin's resends, `refused` the bank's refusals since the last
  one, `unheard` the payments whose refund was ordered by a Cancel that told nothing.
* `Surprises` switches on what may happen besides: `late` (the bank accepts after the
  timeout), `slow` (a sender outlives the ten minutes after which the cron calls it dead),
  `careless` (the admin does not look into the bank's cabinet although the panel asks for it),
  `unreadable` (a RECEIPT notification that does not tell which receipt), `extra` (a link is
  paid after the documents).

Abstractions. Which of several paid payments is the latest is data, so any of them is chosen.
`_claim` and the reload after it are one step. The refund handler is one step because it holds
the row lock across the bank call and the receipt's UPDATE waits for it. Issuing the documents
is one transaction; `ApplicationWorkflow` has the statuses around it. Formatting and contents of receipts are left out; a snapshot that cannot be read is `CannotSend`.
A payment that is counted here and already partly returned at the bank is `PaidAndReturned`.

### How TBankReceipts corresponds to the code

* `pay` and `part` of `ClosingReceipts` are no variables here but read off the rows (`PayOf`,
  `PartOf`): a row on its way back under a key of ours is `ordered`, without one `returning`.
* a step of `TBankPayments` takes the receipt along by what it commits. A row that leaves
  `succeeded` for a refund tells the admin if a receipt may exist (`AlertsOf`); a partial refund
  gives up a queued receipt (`GivesUpOn`); a rejected refund puts receipts that are due back into
  the queue (`MarksDueFor`), for which it locks all payments of the application
  (`AllUnlockedFor`). In a refund of ours (`RefundStep`) the alert comes from the handler, after
  the bank's answer and not with the commit of the attempt; a Cancel whose answer told nothing
  is remembered in `unheard`.
* a step of the receipts that writes a row waits for the lock a payment handler has on it
  (`WaitsForLocks`), and so do the documents, whose issue looks for the latest paid payment.

Every payment is assumed to have the snapshot of its prepayment receipt, as it has when receipts
are switched on, and links may be paid after the documents (`extra`), since nothing in the payments forbids it.
Limits, senders and surprises of the two modules are independent constants.

### How OwnerPayouts corresponds to the code

* `status` is the application's, `pay[p]` and `part[p]` a payment's `status` and
  PARTIAL_REFUNDED, `payout[p]` the status of the payout row of payment `p`, `confirmed`
  `registration_confirmed_at`. `money` and `mail` are CDEK's side: the buyer's money and the
  callbacks it repeats until one is handled.
* `request[r]` is a request over an unlocked session: what it read, then the commit of what
  follows from that reading, whatever happened in between. So work the actions of the workflow
  (`db.get`, the check, an UPDATE by id), CDEK callbacks, the admin's CDEK refund, closing and
  paying of invoices. A refund callback is one step: it depends on nothing it reads.
* T-Bank's handlers lock the payment and the application, so each is one step, reduced to what
  it does to the payment and the payout; `TBankPayments` has their insides.
* `Started` is `ensure_payout`. The unique indexes (one payout of a payment, one active payout
  of an application) are the guard of `ReceivedWritten`: a violation is a rollback, `Fails`,
  and the callback is repeated.
* confirming the registration chooses its payment without a lock (`ConfirmRead`) and locks it,
  the application and the payout afterwards (`Confirm`).
* history: `approved`, that an admin approved the documents; `counted`, the payments that moved
  the application to paid.

Abstractions. Sums, the commission, its percent and the comparison with EGRUL are data. Which
of several received payments the confirmation takes for the latest is data. A payment of
another environment of T-Bank is not modelled. Corrections and comments of the workflow change
no status; deadlines are left out.

### The rest of the platform: how handlers are modelled

In every module below a handler that awaits anything between reading and committing is two
actions (or more): one that reads, checks and takes what it read into a record of running
requests (`req`, `visit`, `hand`, `desk`, `job`, `clerk`, `post`, `work`, `upload`, `courier`), and one
that commits from that record, whatever happened in between. A unique index or a conditional
UPDATE is a guard of the commit, and its violation an action of its own that leaves nothing
but what had left the process already. A column whose value equals the one loaded is not
written (`Changed`, `Reopened`, `ReviewedRow`, `MoveWrites`). Reads without consequences, lists
and wording are left out.

* `Sessions`. `sess[s]` is a row of `user_sessions` (`access` and `refresh` say which token has not
  run out, `heirOf` is history), `req[r]` a request. `RefreshConsumes` is the UPDATE ... RETURNING
  of `atomic_consume_refresh`, which holds the row (`Locked`) until the commit; sign-outs wait
  for it. Switching off and logging out the others choose their sessions first (`ToRevoke`,
  `OthersToClose`) and close them later. Passwords and cookies are left out, and so are roles
  but for who may switch accounts.
* `RateLimits`. `counted` are the attempts inside the window that the rules of a scope count,
  `handling` the requests between `assert_within_rate_limit` and `record_attempt`.
* `Onboarding`. `conn`, `inv`, `acct` are connection requests, invitations and users; `mailed` the
  letters that have left. A public application inserts its account, sends the letter, and
  commits, so another insert of the e-mail waits (`EmailHeld`).
* `RegistrationCheck`. An address is a set of labelled texts; `Parse` and `AddressesMatch` are
  `_parse_address` and `addresses_match`, down to a room number taken for missing premises. The
  spelling of names and numbers (normalisation to the labelled texts) is abstracted.
  `fitted` is history: companies that once fitted the application.
* `OutsidePayments`. `link` and `sent` are CDEK's side. Storing a callback in
  `incoming_webhooks` and acting on it are one transaction whose insert makes a second copy wait
  (`MayStore`). `acted` counts effects.
* `StoredFiles`. `bytes` are objects in the storage, put before and outside the transaction that
  makes the row; two uploads of the same content share a key. An IFNS receipt, a payment's
  attachment, a document of an application or of an address and an extract differ in when
  they are allowed, in what they do to the status and in what the index asks of them.
* `Reminders`. Day 1 is a Wednesday; `AddBusinessDays` counts to the deadline of a stage. Each
  mailer looks for what it told, adds the rest and commits. There is one run at a time (`mailer`),
  which may die or be refused by the database: nothing locks a run, but cron starts each mailer
  once a day (`deploy/setup-ops.sh:72-90`); a run that takes a day, or one started by hand beside
  another, is left out. The four mailers are kinds of one run.
* `AddressChats`. `clock` gives the time stamps, no two equal; a message has the stamp of its
  transaction's start and becomes visible at its commit. `seen` is history: what was committed
  and what was under way when a reader's mark was committed.
* `ChatHub`. `socket` is the hub's memory and whether the connection is alive, which the hub
  does not know; `heardOf` is history. A restart empties the sockets and ends the requests. A notice
  the database refuses is caught, but the rollback expires what was loaded, so the request breaks
  at the next member, before the pushes (`NoticesBreak`); the message stays, and
  `NobodyIsLeftOut`, which is about messages published to the end, says nothing of it.
* `Notices`. One application, one chat; `event` has one row per audience, whose mark is
  everybody's; `notice` keeps its link only if it opened for the addressee when it was written.
* `AddressPage`, `AddressReviews`. One address. A row deleted after it was loaded makes the
  commit fail (`stale`). The picture of a photo, the text of a review and the prices of
  services are data.
* `OutgoingWebhooks`. `event` is the transaction that makes deliveries, `courier` a run of the
  script: the claim lives as row locks of its open transaction (`InHand`), since it is not
  committed before the POSTs. `taken` is history: what the subscriber answered with 2xx.
* `CircuitBreaker`. `calling` are requests at the await; in an outage some of those on the way
  are lost. `opened` is `_opened_at` with the recovery time passed or not. The mapping of
  answers is data; what is cached is one answer.
* `Catalogue`, `ProviderRating`, `Requisites` change nothing: queries, prices, figures, ratings
  and check digits as operators over rows, in the order of the code's clauses, each beside a
  definition of what it is for. A nullable column is a set of at most one value; the text
  index is a set of hits. Scores are whole percents, rounded down where the code keeps
  fractions.

## 3. Runs

Passing runs (distinct states in brackets; all end within the time limit on 2 workers):

* `one_link` (3.2 M): one payment, two requests, one refund attempt, all surprises of the bank
  (cabinet refunds, rejected refunds, wrong sums). `TypeOK`, `BooksFollowBank`,
  `OrderIsPaidByMoney`, `NothingIsForgotten`, `ClosingTakesNothingBack`, `OnlyForward`, and
  `BooksKeepThePromise`: the protocol implements `Settlement`.
* `links_and_receipts` (1.2 M): payments and closing receipts on the same rows, within bounds that
  `MCTBankReceipts` names. Either two payments and two requests at once, before the documents and
  without refunds of what was counted (`TwoLinks`; links are retired once the application is paid,
  for before that it is `InitiateOverDeadLink` that issues nothing): `OneLinkToPay`, `CountedMoneyIsSeen`. Or one payment, one
  request at a time and one sender, with all that may happen to the money (`OnePayment`):
  `ReceiptsKnowTheMoney`, the composition refines `ClosingReceipts`, and `ReturnedMoneyIsReported`.
* `reconcile` (0.12 M): liveness when all notifications may be lost, refunds retried and
  rejected, `PaidLinkIsCounted`, `EverythingSettles`; over two refund attempts, `OneRefundOrder`;
  and `NoMoneyOutOfReach`: confirmed money that is not counted is on a row the cron polls.
* `receipts` (0.24 M): two payments that may both be paid, two attempts, one resend, late and
  unreadable answers. `OneReceiptPerOrder`, `OnePaymentIsClosed`, `RefusalsAreBounded`,
  `SentIsBackedOrTold`, `RefundIsFlagged`, and `DueIsSettled` under fairness.
* `payouts` (6.4 M): one payment of each provider, two requests over stale readings.
  `DocumentsAreApproved`, `PaidOrderHasPayout`, and `PayoutsKeepThePromise`: payouts implement
  `PayoutPromise`.
* `onboarding` (1.6 M): two visitors, two mailboxes, accounts and invitations, one connection
  request, two tokens: `InvitationMakesOneAccount`, `OwnersLeadBackToRequest`. Two handlers around
  limits of two (by e-mail) and three (by address): `OvershootIsBounded`. One admin, two
  companies, two addresses of one street, a room: `MatchedOrAccepted`. On loading,
  `MatchesAreSound` over the sample addresses, and all of `MCCatalogue`, `WaitsAgree` and
  `RatingsAgree` among it.
* `platform` (1.3 M): nine parts, two requests at once in most of them. Sessions (two accounts,
  three sessions: `OneHeirPerRefresh`, `DisableCutsForGood`), read marks (two readers, two
  messages, six time stamps: `OnlyOpenMessagesAreLost`), the hub (one message, two members and
  devices, with restarts: `NobodyIsLeftOut`), reminders (three days, two runs that commit, one
  move under way: `OneReminderPerMilestone`), files (two keys, three rows: `OneCurrentExtract`),
  the page (three photos, a limit of two: `PhotosAreBounded`), payments outside
  T-Bank (two of them: `CallbackActsOnce`). Reviews (two moderators) and the inbox (two people, two
  organisations) run beside them; what is stated of these two, and the types of all parts,
  is proved (section 4) and not asked again.
* `delivery` (17 K): two couriers, two events, two tries, one crash: `OneCourierPerDelivery`,
  `SentWasTaken`, and `EveryDeliveryEnds` under fairness; three callers of a breaker with a
  threshold of two, two outages: `BreakerLetsGo`.

The pure modules are checked by assumptions TLC evaluates when `onboarding` starts.
`PricesAgree`: every price screen shows the price the order gets. `CountsAgree`: what the
catalogue counts by city and by tax office is what it lists. `ListedOpens`: what is listed has
a page. `PagesPartition`: pages have no address twice and none outside the results, at every
order and page size. `PictureIsApproved`, `PhotosStayPrivate`: the public sees approved photos
only. `RevenueAgrees`: an owner's figures are the sum of its payments. `TyposAreNoticed`,
`SwapsAreNoticed`, `RemainderAgrees`: what the check digits of INN and OGRN catch.
`WaitsAgree`, `RatingsAgree`: the one-pass rating computes what its definition says.
`TiesMaySkip` states a failure, see below.

Why the bounds suffice. Payments: every property speaks of one payment, of a pair, or of one
payment and the application; every hazard found in the code is between two requests (the lock
admits one holder, a poll races it). A third request adds nothing but a third copy. In
`links_and_receipts` two polls at once are left to `one_link`, and what two requests do to one receipt,
beyond eight million states, to the proof, which is for any number of payments, requests and
senders.
`MaxAttempts` bounds refund attempts: two are needed to see a key reused or renewed. Liveness
(`reconcile`) has one worker: the lock already excludes two holders, the safety runs have the
interleavings, and what is in question is whether the cron alone finishes what a request that
died has left. `OneRefundOrder` is about a key kept over an attempt whose process died, one
request after the other. No run has a DEMO
payment: it differs only in that `OnPaid` ignores it, it would end the symmetry of payments, and
`PaidByMoney` (section 4) is proved with any set of them. Receipts: two senders
matter only when the first outlives its deadline, for otherwise the conditional UPDATE admits
one; `receipts` has one, and what two could do to the number of receipts is proved for any
number (section 4). Two attempts show a retry and the limit; `MaxOrders` bounds resends;
`ManyRefusals` (one above the limit) caps the count of refusals. Payouts: two payments to the
platform compete for the one active payout, the invoice moves the application without one; two
requests are what one stale reading and what overtakes it need. The rest of the platform: a
property breaks when one request overtakes another, so two suffice, and the rows a run has are
one more than a limit or a unique index admits; the proofs cover every number. Three days see a
milestone before, on and after a date, two runs a repetition; six stamps are two messages and
two marks each of which begins and ends. Webhooks: two couriers compete for one batch; two
tries are a retry and the limit; `Outages` bounds how often a service goes down, and a breaker
with a threshold of two and three callers has a late failure recorded after it opened.
Symmetry is used in the runs without liveness, among requests and among rows of one table.
Deadlock is not checked: the system may stop when everything is settled and nobody clicks.

Fairness of payments (`TBankReconcile`): until the day turns calm people, crashes and losses do
as they like; then a request that has begun is carried on by its process (weak), the cron
starts a poll of each payment it selects again and again (strong, it is started every ten
minutes and a poll discarded or skipped does not count against it), the bank finishes what it
began (weak) and a link ends at its deadline although the buyer keeps trying (strong). Nothing
is assumed of people.

Fairness of receipts (`Fairness` in `ClosingReceipts`): the cron claims what it selects and
expires what is stale (weak: it runs every ten minutes and both conditions stay until someone
acts); a call that has begun is answered or gives up, and its outcome is written, unless the
process dies (weak); a request tried again and again gets through to the bank at some time
(strong; without it `not_sent` could repeat for ever, which the code allows on purpose, for
such attempts are not counted). Nothing is assumed of the admin, the kassa or of crashes.

Fairness of webhooks (`WebhooksFairness`): cron starts a run every minute and a run that has
begun goes on (weak), a claim that waits for the rows of another run gets them when that run
ends, again and again (strong), a POST times out at the latest (weak), time passes (weak).
Crashes are bounded by `MaxCrashes`, since a run that always dies before its commit delivers
nothing. Nothing is assumed of subscribers.

Fairness of the breaker (`BreakerFairness`): time passes, an outage ends, a request on the way
fails by its timeout (weak); people go on asking, and not every answer is a refusal of the
operation (strong: `BusinessRefusal` records neither success nor failure, so refusals alone
could keep the breaker half open).

Violations, each a disagreement between the repository's words and its code:

* `claim_unpaid_final`: `REJECTED` of a refund closes a paid payment as never paid.
* `claim_duplicate`: a RECEIPT notification of the first attempt marks the resent receipt as
  failed, and from `failed` the panel sends again without asking to look: two receipts.
* `claim_logout_all`: logging out the others leaves a session whose access token has run out,
  and its refresh token revives it (`routers/auth.py:203`).
* `claim_mailer`: the database refuses the notice about a document that is about to expire
  (CHECK of `user_notifications`), so the run that found it tells nobody, every day again. The
  same CHECK refuses the notices of an errand (giving one to an organisation with an active
  owner fails) and of a moderated review.

Seen while modelling, without a run of their own. Payments:

* a poll whose answer is older than a Cancel that was executed and not answered counts money
  that is going back: the fingerprint does not see such a request (`tbank_payments.py:391`).
  `overtaken` marks these payments;
* `refund_failed` pays the application with a sum that did not match (`tbank_payments.py:456`);
* a refund after the closing receipt whose Cancel got no answer ends without the alert to
  check the refund receipt (`unheard`);
* a partial refund of a payment that is not counted yet is neither counted nor reported
  (`docs/tbank-acquiring.md:167`, `tbank_payments.py:306`);
* a RECEIPT notification that overtakes the sender's commit changes no status; the commit then
  writes `sent`, from which the panel offers no resend (`docs/tbank-acquiring.md:222`);
* a partial refund is remembered in `provider_status` only; a later full refund that is
  rejected overwrites it, a receipt of the full sum is sent (`tbank_receipts.py:34`) and the
  owner is paid in full (`docs/owner-payouts.md:43-45`, `tbank_payments.py:446`);
* documents issued while a refund is under way start no receipt; if the refund ends as a
  partial one nothing starts it afterwards (`tbank_payments.py:306`);
* CDEK's callback of a payment that is handled after that of its refund makes the payment paid
  again and its payout payable (`payments.py:1490`);
* the admin's cancellation of a CDEK payment may overwrite its callback; the money is there, the
  payment closed and its payout held back (`payments.py:745`); invoices are confirmed, rejected
  and marked paid without a lock as well (`payments.py:786`);
* money of CDEK for an application that does not wait for it is reported to nobody
  (`payments.py:1500`);
* confirming the registration asks the blockers of the payment it chose and may release the
  payout of another one; `mark_paid` still asks for that one (`routers/owner_payouts.py:377`);
* an application may be paid by an invoice, to the owner, and by a late payment to the platform,
  whose payout is started by the confirmation.

Applications and people:

* a stale writer without a lock may set an application that went on back to paid, and an approval
  may be overwritten by a request for revision made at the same moment, or follow it
  (`application_workflow.py:329-331`);
* `promote_to_contract` (`routers/applications.py:219-254`) asks neither whether the guarantee
  letter was issued nor whether the application has been promoted before: two children;
* a receipt of the tax office may be stored after the registration was confirmed, by an upload
  that had passed its checks;
* a refresh under way while its account is switched off opens a session that the handler did not
  see (`routers/auth.py:352`); the session has no access as long as the account is off, and comes
  back to life when it is switched on. `DisableCutsForGood` is about the sessions the handler saw;
* a read mark may go backward: two tabs compare with the mark they loaded, and the earlier moment
  is committed last (`services/chat_threads.py:247`), although the docstring says that it only goes
  forward (`chat_threads.py:233`, «Метка только вперёд»). Read messages become unread again; none is lost;
* a message whose notices the database refuses reaches the sockets and nobody else
  (`routers/address_chats.py:347-378`), though the handler means to go on to the pushes;
* the docstring of the breaker promises a single trial after the recovery time
  (`services/dadata.py:200-202`); `allow_request` lets everybody through until one of them has
  failed (`dadata.py:222`), and so does `CircuitBreaker`;
* two administrators may switch each other off at once, and none is left, which the comment at
  `routers/auth.py:336` rules out;
* a text edited while it is moderated is published unread: the decision is written over the
  reopened review (`routers/address_reviews.py`);
* `signatory_basis`, a field a manager enters (`schemas/client.py:51`), is set back to «Устава»
  by every application of that client (`client_data.py:64`).

Figures:

* `sort=price_asc`, `price_desc` and `newest` break no ties: an address of the same price as
  another may be on no page (`TiesMaySkip`); and they sort and filter by the price of eleven
  months, also when six are asked for (`routers/marketplace.py:408-412`);
* the rating takes staff's answers in a chat for the owner's, as the comment at
  `provider_rating.py:168` says of everybody but the client, and counts as sets of documents the
  events of one upload once for every audience, those of the tax office's receipt included;
* an INN of zeros has right check digits (`validators.py:24-30`).

## 4. Proofs

`TBankPaymentsProofs` proves `Spec => []TypeOK` (`TypeCorrect`). `TypeOK` is not inductive: a
refund order must have a key, Init a payment, an answered notification a status. `RequestOK`
adds what a request has at each of its steps; one lemma per group of actions.

`TBankBooksProofs` proves `Spec => []BooksFollowBank` (`BooksAreBacked`). A request commits what
it computed from an answer that may be old, so the invariant must speak of requests under way:
`MoneyFitsStatus` (the bank's status tells where the money is), `RequestsBacked` (whatever a
request has seen or drafted is backed by the buyer's money **now**) and `NewLinks` (Init is
called for a payment the bank does not know, by one request at a time). It is preserved since
money that has come never un-comes and money that is back stays back (`MoneyStays`), and since
the automaton never says more than what it was told (`AfterBacked`).

The second part of `TBankBooksProofs` proves two more properties from one more invariant,
`PaidInv`. `PaidByMoney`, `Spec => []OrderIsPaidByMoney`: an application is PAID only by a payment
of a real terminal that is counted and that came in the right sum, or was kept when the bank
rejected its refund. The first count of a payment asks for the sum, but `refund_failed` pays
without looking at it, so the argument must know that whoever gets there has a rejected refund:
`CountedIsExplained` says that a counted payment of an application nobody has paid belongs to a
DEMO terminal or the bank has begun a refund of it, and the bank never shows CONFIRMED
after that unless it has rejected one. `Agreement` says what a request at each of its steps and
the row it has locked have to do with each other (`OneHolder`: one request holds it), and
`Knowledge` that an old answer still tells something of the bank as it is (`Answer`). From the
same invariant follows `NothingTakenBack`, `Spec => ClosingTakesNothingBack`: a request that calls
Cancel without a key holds a row that is open, and nothing else gives such an order.

`CountedIsTold`, `Spec => []CountedMoneyIsSeen`, rests on `SeenInv`. Its first half says which
counted payments the admin need not be told of: the one that paid the application, and one whose
refund was given up once the application is paid. Every commit but two runs `_on_paid` for a row
that begins to count (`AfterFollows`: a row that counts has just begun to, or counted the same
before). The two that do not are those that write a new link together with the old row, and the
second half (`ReplacesNoMoney`) says that what they replace is never counted.

`BooksGoForward`, `Spec => OnlyForward`, and `OneOrderAtATime`, `Spec => []OneRefundOrder`, rest on
`OrdersInv`. A process that dies between the bank's call and its commit leaves an order at the
bank of which no row knows, so that "an order alive is the order of the row" is no invariant;
`Awaited` is what holds: a counted row has at most the order its **next** attempt would give
alive at the bank, a row on its way back at most its own, because the rolled back attempt takes
its number with it. `RequestsTold` says that while a row is locked, what its request was told of
refunds stays true (the bank rejects or executes orders by itself, but only the holder of the row
gives new ones), and `ByCabinet` that money returned in part by hand takes no order of ours.
What a poll was told, it was told without the lock: payments settled by an answer older than an
order (`overtaken`) are excepted, as they are in the two properties.

`OneLinkHolds`, `Spec => []OneLinkToPay`, rests on `LinkInv`: a row that is off stands for a link
that is dead at the bank (`RowsOff`), which answers and drafts may say late but not wrongly, since
a dead link does not come back (`Ages`); at most one row is open (`OneOpen`); and the request that
calls Init found no open row but the one it replaces, whose draft is off (`OnlyOffReplaced`), while
the unique index keeps every other request from calling Init.

`NothingForgotten`, `Spec => []NothingIsForgotten`, rests on `HeardInv`. The bank comes to each of
`CONFIRMED`, `REFUNDED` and `VOIDED` once (`Came`), so that its present status, if it is one of
them, is in the inbox and not in the journal, or the row already says it (`Heard`). The request
that answers the note may have seen an older status, but not if the bank is still where the note
says (`NotesAnswer`): it asks after the note is posted. And what a row says it goes on saying: a
counted row of confirmed money is succeeded or on its way back under a key of ours, because a row
on its way back without one was told of a refund (`Vouched`), which leaves the bank's record
`CONFIRMED` no more. The proof needs no lock to be free: committed rows are right while other
requests are at work, and the property says so.

`PaymentsKeepThePromise`, `Spec => BooksKeepThePromise`, is the refinement. `Settles` says what a
step does in the terms of `Settlement`: the money and the books of one payment, the order paid only
in the step that counts the payment; `SettlesPromised` shows, from `BooksFollowBank` after the step
and from what `OnlyForward` says of it, that such a step is one of Settlement's or changes nothing
it sees. What is left is that a refund the bank refuses does not pay the order a second time over a
row that stays counted: `TellInv` has it that the admin is told only when the application is PAID or
the terminal is DEMO, and that no refund is asked of a payment returned in part.

The third part of `TBankBooksProofs` is about the same payments when any notification may be lost
and the cron polls (`LossySpec` of `TBankReconcile`). A lost notification changes the inbox only, which
none of the invariants but `HeardInv` speaks of, so all the others are inductive for `LossySpec` too
(`LossyInductive`): `LossHarmsNothing` states six of the invariants above for it,
`LossUndoesNothing` `ClosingTakesNothingBack`, `OnlyForward` and the refinement of `Settlement`.
`NothingIsForgotten` is false there, of course; what takes its place is `MoneyStaysInReach`,
`LossySpec => []NoMoneyOutOfReach`: money that the bank holds in the right sum and that is not counted
is on a row `reconcile_tbank_payments.py` selects. It is the safety half of `PaidLinkIsCounted`, and
rests on the third conjunct of `Vouched`: a row is written off (a wrong sum, a failed Init, a
link closed for any reason but an unanswered Cancel) only when the bank can hold no such money.

These theorems assume what the modules assume of constants: `MaxAttempts \in Nat`,
`NoPayment \notin Payments`, `DemoPayments \subseteq Payments`, `Surprises` among the three known;
nothing about finiteness.

`ClosingReceiptsProofs` proves all five invariants of the `receipts` run.

* `OneReceiptPerOrderHolds`, `Spec => []OneReceiptPerOrder`: at most one receipt and one more
  for each order of the admin, with senders as slow, and admins as careless, as they like. The
  argument is a budget: what the bank has or has had of a payment, failed receipts whose
  notification is under way, senders that may still call the bank, and one if the receipt is
  queued for sending (`due`, or `failed` with attempts left) together never exceed
  `1 + ordered`. A claim moves the unit of the queue to a sender, a call moves it to the
  bank, a refusal or an unsent attempt gives it back to the queue by the outcome the sender
  writes, and only `OrderResend` makes a new one. Cardinalities of the senders need `Senders`
  finite; the type needs that attempts in flight lie within the limit.
* `OnePaymentIsClosedHolds`, `Spec => []OnePaymentIsClosed`: at most one payment has a closing
  receipt. A sender writes to the row it claimed, so the invariant adds `SendersKnowTheirs`:
  the payment of a running sender has a receipt status.
* `RefundIsFlaggedHolds`, `Spec => []RefundIsFlagged`, with every surprise. The budget gives that a
  payment never ordered again whose status says that no receipt may exist has none and no sender
  about to make one (`NoneIfNotMayExist`); a refund that begins there without a word to the
  admin leaves it so (`UnflaggedHasNone`), because nobody claims a payment that is not paid.
* `RefusalsStayBounded`, if no sender outlives `SENDING_STALE_AFTER` (`"slow" \notin Surprises`): a
  sender is then alone with its payment and finds the row as it claimed it (`SendersOwn`), so
  the attempts written cover the refusals. With slow senders the refusal of an attempt older
  than the admin's order counts against that order, and the bound does not hold.
* `SentStaysBacked`, if no sender is slow and the admin looks into the cabinet before he marks or
  resends (`"careless" \notin Surprises`). The invariant (`BackedInv`) is stronger than the
  property: what backs a receipt is accepted, printed or reported, not merely under way.

They assume `MaxAttempts \in Nat \ {0}`, `MaxOrders \in Nat`, finite `Senders` and known
`Surprises`; nothing of `Payments`.

`TBankReceiptsProofs` proves the composition, for any number of payments, requests and senders.

* `PaymentsRunOn`, `ComposedSpec => Spec` of `TBankPayments`: receipts take nothing from payments, so
  that every theorem above holds of the composed system.
* `MoneyIsAsReceiptsExpect`, `ComposedSpec => ReceiptsKnowTheMoney`: the composed system refines
  `ClosingReceipts`, with `pay` and `part` read off the rows. `Moved` and `Expected` say how one
  step may move a row in the terms of receipts; every action of `TBankPayments` moves at most one
  (`OneMoves`) and as expected, which needs the invariants of `TBankBooksProofs`: that a draft fits the
  row it replaces, that a counted row never becomes unpaid, that a locked row is the one
  its request loaded.
* `ReturnsAreReported`, `ComposedSpec => []ReturnedMoneyIsReported`. From the bank to the accountant:
  when the bank has the money back and all notifications are answered, the row says so
  (`NothingForgotten`, through `PaymentsRunOn`), and of a row that says so a printed receipt has been
  reported (`RefundIsFlaggedHolds`, through `MoneyIsAsReceiptsExpect`); a proof from two theorems of two
  modules, whose invariants nobody has to look at again.

They assume what the two modules do, and `extra`.

`OwnerPayoutsProofs` proves the types and all three properties of the `payouts` run, for any sets of payments
of the three providers and any number of requests at once.

* `PayoutTypesHold`, `Spec => []TypeOK`. It needs `PayoutsOfPlatform`: only payments to the
  platform have a payout, so that what a confirmation chooses is one of them.
* `DocumentsAreApprovedHolds`. Writers overwrite each other, so the invariant
  (`ApprovedWhenShown`) speaks of requests too: whoever is about to write a move out of a status
  in which the documents are shown has read that status after an approval.
* `PaidOrderHasPayoutHolds`. No payout exists while the payment is awaited and no move leads back
  there, so the first payment starts its own (`StartsOnTime`); a callback that read the
  application as waiting also read that it may start the payout, or its commit fails.
* `PayoutsKeepThePromiseHolds`, the refinement. `PayoutSteps` reduces every step of the system
  to five things that happen to payouts; from them follow `PayoutsInOrder` (one payout that is
  not cancelled, none released before the confirmation) and the step of `PayoutPromise`.

They assume that no payment is of two providers (used only where an invoice must not be taken
for a payment to the platform).

`PlatformProofs` is about the nine parts of `MCPlatform`, each with an invariant of its own, for any
number of people, rows and requests.

* `PlatformTypes`, `Spec => []PlatformTypeOK`: the types of all nine, of which those of the
  inbox, of the reminders and of the page need proofs of their own. A deadline is a day:
  `AddBusinessDays` walks over weekends and stops at the last day, so a move that sets one keeps the
  type (`RemindersTyped`). `PartsRunAlone` says that a behaviour of the whole is one of each part,
  which is why what is proved of a part holds in the `platform` run.
* `OneHeir` and `CutForGood`, from `SessionsInv`. A refresh consumes its token in an uncommitted
  transaction, so the invariant knows that the row a refresh holds is still open (`HeldIsOpen`),
  that one request holds it (`OneHolder`), and of a request that switches an account off that
  whatever it has not chosen to close is closed (`DisableKnows`).
* `NobodyIsLeftOutHolds`: a message in hand has one worker, a posted one an author, whoever is in
  the room is reached by the socket or by the notice, a pushed one was reached (`HubInv`).
  `OnlyOpenAreLost`: a read mark that covers a message it has not shown was set while that message
  was being committed (`OpenOrYounger`).
* `ShownCanBeOpenedHolds`: four places decide who sees what, and links of notices are kept only
  where they opened when written (`LinksHold`). `RemindedOnce`: what a mailer is about to add it
  has looked for in vain, and nobody else adds (`AddsAreNew`), since runs do not overlap.
* `OneIsCurrent` and `BytesStay` from `FilesInv`: bytes are put before the row (`PutIsThere`), the
  newest committed extract is the current one (`NewestIsCurrent`), and a handler that has looked for
  the current extract is uploading an extract.
* `PhotosStayBounded`: photos and counted uploads together stay below the limit plus the staff,
  which is finite. `DecisionKeepsModerator`: what a desk has loaded of a review shows a moderator
  exactly when it is decided (`LoadedRight`), and writing only the columns that differ keeps the two
  together.
* `CallbacksActOnce`, about CDEK's callbacks: a callback in hand is not stored yet and in one hand
  (`InOneHand`), which is what the unique index on the journal's key gives.

`OnboardingProofs` is about the parts of `MCOnboarding`, for any number of requests, invitations,
accounts, mailboxes and companies.

* `OvershootStaysBounded`: attempts counted and requests between the count and the record together,
  plus one, never exceed the limit plus the number of handlers (`RoomForFlying`); `Handlers` is
  finite.
* `OneAccountPerInvitation` and `OwnersNeverLost`, from `OnboardingInv`: an invitation that is
  accepted names an account and the account names it back, with the same e-mail (`MadeByUsed`,
  `UsedMade`), so that two people who opened one link cannot both be inserted; an application
  under way holds an e-mail nobody has (`FitsVisit`, `OneApplies`); and a request and its latest
  invitation name each other (`LatestNamesRequest`), because a review writes the status and
  nothing else.
* `RecordedFitted`: what an answer of EGRUL in hand says fitted the application when it was asked
  (`AnswersFitted`), so what is recorded fitted once, or an admin wrote a comment.

`DeliveryProofs`. `OneCourier`, `SentIsTaken`, `TriesAreBounded` from `WebhooksInv`: a delivery in
hand is pending and has a try left, what a courier has heard as 2xx was taken by the
subscriber, no two couriers hold one delivery; for any number of couriers, events,
subscriptions, crashes and tries.

The modules of this section assume that the names of nobody and nothing are not those of people, rows
or keys, that limits are natural numbers and staff finite where it is counted, and that the days of
`Reminders` are `1..n` with the dates of contract and documents among them.

Every invariant, action property and refinement a passing run checks is also a theorem; a few
theorems (`PlatformTypes`, `PayoutTypesHold`, `DecisionKeepsModerator`, `ShownCanBeOpenedHolds`,
`BytesStay`, `TriesAreBounded`) state what no run asks. Only
model-checked: the pure operators, which TLC compares with their definitions on bounded inputs; and everything
temporal under fairness (`PaidLinkIsCounted`, `EverythingSettles`, `DueIsSettled`,
`EveryDeliveryEnds`, `BreakerLetsGo`): liveness under fairness and ENABLED are out of the prover's
reach.

## 5. Not modelled

* row locks one by one, and so the cycle between `refund_failed`, which holds its payment and the
  application and then locks all payments of the application, and `_on_paid` of another payment,
  which waits for the application: PostgreSQL breaks it by failing one request, which is `Dies`
  (the wait for the payments is in `TBankReceipts`, `AllUnlockedFor`; the application's lock is not);
* payments on a terminal that is no longer the current one; the hour after its term in which the
  cron still polls a link;
* client cards, contract texts and documents made from templates, dashboards and lists, the
  address directory, seeds and smoke tests: single-row reads and writes, or none at all;
* applications entered by managers and their promotion to a contract;
* formatting of receipts, messages and letters, parsing of files and of the HTTP answers of DaData,
  CDEK and T-Bank, signatures and TLS: data to the models, down to the distinctions their
  properties make;
* passwords, cookies and, except where an action asks for them, roles;
* the web and mobile clients, which show what the API returns and keep no state of the protocol.
