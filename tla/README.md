# OpenWrapper in TLA+

OpenWrapper is a payment gateway (Rust, `apps/gateway`, `crates/`) with a web
application (TypeScript, `apps/web`), SDKs and a demo shop. It puts one API in
front of several payment providers. This directory holds TLA+ models of these
parts, the TLC configurations that check them on small instances, and TLAPS
proofs for instances of any size.

## 1. The system

| Part | State | Operations | Talks to |
|---|---|---|---|
| State machine (`crates/core/src/payment.rs`) | none | `validate_transition`, `is_terminal` | everyone who writes a status |
| `POST /v1/payments` (`handlers.rs`) | where each handler is | `begin_payment_with_owner`, provider call, then `record_creation_result`, `mark_terminal_without_provider_reference` or `mark_unknown` | store, provider |
| Store, SQLite and Postgres (`store/`) | tables `payments`, `webhook_events`, `refunds`, `events`, ... | the `PaymentStore` trait | handlers, reconciler |
| `POST /v1/webhooks/:provider` | none of its own | verification, `apply_webhook_event` or a queue | provider, store, message bus |
| `GET /v1/payments/:id` | the row it has read | `inquire_status`, `apply_reconciliation_result` | provider, store |
| Reconciler (`reconciler.rs`) | one pass at a time | `list_stale_unknown_payments`, `inquire_status`, `apply_reconciliation_result`, `touch_reconciliation_attempt` | provider, store, message bus |
| Message bus (`amqp.rs`) | two queues, one channel | publish, consume, acknowledge, republish | store, provider |
| Refunds (`handlers.rs::create_refund`) | what each call has read | status check, balance check, `provider.refund`, `record_refund`, `emit_event` | provider, store |
| Outbound webhooks (`outbound_webhook.rs`) | bounded channel, events, deliveries | `emit_event`, `dispatch_single_event` | merchants |
| Rate limiter (`rate_limit.rs`) | token bucket or shared window counters | `try_acquire` | Redis |
| Provider adapters (`crates/providers`) | none | `create_payment`, `inquire_status`, `verify_and_parse_webhook`, `refund` | the outside world |
| Web payment routes and ledger (`apps/web/app/api`, `lib`) | the same `payments` table, `webhook_events` | idempotency lookup, forward to the gateway, fallbacks, upsert, four webhook routes | gateway, providers |
| TypeScript SDK (`sdk/typescript`) | one call with its attempts | timeouts, retries, keys | web routes, gateway |
| Sandbox checkout and mock payment page | form, panel | choose, send, settle through the mock webhook | web routes |
| API keys, settings, dashboard (`apps/web`) | keys, cached figures, the webhook secret, mode, tables | routes, server actions, pages | database |
| Database initialisation (`lib/db/init.ts`, `scripts/init-db.mjs`) | the schema | one statement after another | database |
| Checkout demo (`examples/checkout-demo`) | an in-memory map; a page with a poller | checkout, status, settlement | gateway, providers |
| Release tool (`scripts/version.mjs`) | the version in 35 places | check, sync, bump | files |

What is hard here: every handler is a sequence of awaits, and between two of
them anything may happen. Clients retry; providers answer late, ambiguously or
not at all; webhooks are lost, duplicated and reordered; a handler is dropped by
the 30 s `TimeoutLayer`, by a client that goes away or by a crash; replicas
share a Postgres database, and the web application writes the same tables with
upserts of its own; pages change what they show before the server has answered.
`PROJECT.json` lists the hazards one by one, at the line where each bites.

What makes the parts correct:

* creation: at most one charge per `Idempotency-Key`; a replay is answered from
  an identical request;
* status: moves only along the state machine; a final status is the truth;
* webhooks: consumed exactly when applied; applied once; an event answered 200
  is lost on the way in known cases only;
* inquiries, reconciler and bus: a settled charge is found out in the end,
  without any webhook; a stale answer does no harm; no row starves another;
* refunds: never more than was paid; the status says what was paid back; the
  merchant's endpoints hear of it;
* rate limiter: no interval admits more than the configured rate allows;
* web routes and SDK: a call makes one payment, which its caller finds; nothing
  invents an outcome; a second order or a simulated one only in known cases;
* pages: what is shown at rest is what is stored, or the exception is known.

## 2. Modules

| Module | Models | Notes |
|---|---|---|
| `PaymentStatus` | the statuses and `validate_transition` | no state |
| `PaymentPromise` | abstract specification: what a merchant may rely on, per key | no handler, table or message |
| `GatewayBase` | tables, create handler up to the provider call, provider, inquiries; the invariants both stores share | extended by the next two |
| `SqliteGateway` | the store operations of `store/sqlite.rs`, each one atomic under its mutex | implements `PaymentPromise` |
| `PostgresGateway` | the statements of `store/postgres.rs`, each one a step of its own | several replicas |
| `MessageBus` | the reconciler's batches, both queues of `amqp.rs` and their consumers | both stores' `updated_at` rules |
| `Refunds` | `create_refund` and `record_refund` on one payment | SQLite store |
| `OutboundWebhooks` | events ledger, bounded channel, worker, endpoints | |
| `RateLimiter` | token bucket and sliding window counter | |
| `WebPayments` | the web application's payment routes over the shared table | |
| `SdkClient`, `MerchantCalls` | the SDK's retry loop; SDK and web routes composed | |
| `DemoServer`, `DemoPage`, `DemoStore` | the demo's server; its page; both composed | |
| `HostedCheckout` | sandbox checkout form and mock payment panel | |
| `ApiKeyVault` | API keys: route, action, optimistic list; cached dashboard figures | |
| `MerchantSettings` | the webhook signing secret | |
| `DashboardView` | live/test mode across tabs, the two tables | |
| `SchemaInit` | database initialisation and migration | |
| `ReleaseTool` | `version.mjs` | |
| `GatewayBase_proofs` | what both stores keep, whatever their statements | lemmas for the next two |
| `SqliteGateway_proofs`, `PostgresGateway_proofs` | theorems about the two stores | TLAPS |
| `MessageBus_proofs`, `RefundsAndRates_proofs` | theorems about the bus, refunds, the rate limiter | TLAPS |
| `MerchantCalls_proofs` | theorems about the web routes and the SDK | TLAPS |
| `ControlPlane_proofs` | theorems about keys, settings, dashboard, schema, release tool | TLAPS |
| `Storefront_proofs` | theorems about the demo and the sandbox checkout | TLAPS |
| `MC*` | small instances | TLC |

An `MC` module that covers several parts which share no state lets a variable
`scene` choose one of them; the parts are then explored one by one in one run.

### The gateway: `GatewayBase`, `SqliteGateway`, `PostgresGateway`

`payments` is the table by its UNIQUE `idempotency_key`; a row has the id of the
create call that inserted it, its fingerprint, status, provider reference and
whether a next action is stored. Ids and references are named by the create
call: a payment id is a fresh ULID and a provider's reference belongs to the
order it was returned for. (That is an assumption: a Fawry reference is the
caller's `merchant_reference`, and `provider_reference` has no UNIQUE index.)
`webhook_events` holds the consumed event ids. `pc`
is where each create handler is, `inquiry` what each GET and each reconciler has
read and been told, `hook` (Postgres) what each webhook handler has read.
`charge` and `event` belong to the provider: what became of each order, and
which events it has signed.

One action is the code from one await that touches shared state to the next:

| Action | Code |
|---|---|
| `BeginProceed`, `BeginReturnExisting`, `BeginConflict` | the three outcomes of `begin_payment_with_owner`; the first sends the order at once |
| `RecordCreation`, `MarkFailed`, `MarkUnknown` | the three ends of the `Proceed` arm: `Ok`, a definite refusal (`is_definite_non_occurrence`), anything else |
| `CancelCreate` | the handler dies at its await, or its store call fails |
| `ApplyWebhookEvent` | SQLite's one transaction |
| `HookRead`, `HookInsert`, `HookUpdate`, `HookCancel` | Postgres's three statements, and death between them |
| `GetStart`, `ReconcileStart`, `InquiryAnswered`, `InquiryDropped` | the inquiry |
| `ApplyReconciliation`; `ReconcileRead`, `ReconcileWrite` | SQLite's one lock; Postgres's two statements |
| `AcceptCharge`, `RefuseCharge`, `SettleCharge`, `EmitEvent` | the provider (external) |

A delivery that finds no payment, a duplicate delivery, an answer of `Unknown`
and `touch_reconciliation_attempt` change none of the modelled state.

Assumptions about the provider, which are not OpenWrapper's to establish: an
order settles once, for good; what a provider reports was true when it said so;
a refusal the code classifies as definite is one. (The Stripe adapter reports a
PaymentIntent that awaits another card as Failed; whether that is final is a
hazard on the list, and for the adapters' own module.)

### The message bus and the reconciler: `MessageBus`

The subject is which rows are ever asked about, and what becomes of an event
that was answered 200. A row enters the model when its creation is recorded
(`Recorded`), with its reference; the provider may settle it, and send a webhook
about it, before that. `mbAge` is the order of `updated_at` among the open rows, `mbPass`
what is left of a batch (`RunOnce` takes the first `BatchLimit`), `mbJobs` and
`mbHooks` are the queues. The channel is not in confirm mode, so `AcceptWebhook`
answers 200 with the event on the wire (`mbWire`), `BrokerTakes` (external) puts
it into the queue, and a channel that breaks loses what is on the wire (`mbCut`).
The consumer acknowledges an event it finds no payment for (`HookNotFound`,
`mbEarly`) or whose store call failed (`mbLost`) like any other.

Without a bus a pass asks the provider itself (`InlineAnswered`, `InlineUseless`); with one it publishes (`PublishJob`,
`PublishFails`) and the consumer asks (`JobAnswered`, `JobUnknown`,
`JobFailed`, which republishes up to `MaxRetries`). With prefetch 1 the message
in hand is the head of its queue and leaves it when acknowledged. `Restart`,
`ChannelCloses` and `AckFails` are the faults; a restart that cannot reach the
broker goes on without a bus. An inquiry and the store call behind it are one
step, since their races are the gateway modules' subject. Passes (60 s apart by
default) are further apart than `MIN_AGE` (30 s), so every open row is old
enough. `mbSetup` fixes a deployment: bus or not, the store, which rows were
created Unknown, which the provider never answers about (`down`), which get
webhooks. Inquiries about other rows fail at most `MbFaults` times.

### Refunds, outbound webhooks, rate limiter

`Refunds`: `status`, `refunds` and `call` are the payment's row, the refunds
table and the handlers. `paid` is the money the provider has returned or
promised. `serial` is a history variable: TRUE as long as no two calls were
between balance check and record at the same time, every refund succeeded at
once, and every one was recorded. It is read by `SerialRefundsExact` only.

`OutboundWebhooks`: `emit_event` is `RecordEvent`, then `Send`, which waits
while the channel holds `ObCapacity` events; `DropHandler` is the `TimeoutLayer`.
The worker takes an event and the active endpoints (`Receive`), and for each
endpoint POSTs and records the delivery (`Post`). `GatewayDies` empties what is
in memory. `obLost` is history.

`RateLimiter`: time is counted in ticks, `RlSecond` to the second, and a token
is worth `RlSecond` microtokens, so the arithmetic is the code's with smaller
constants. `TakeToken` runs under the mutex. In the distributed limiter a
request reads the clock (`ReadClock`) before the cache counts it
(`CountRequest`), or the cache fails and the request passes (`CacheFails`).
`rlMark` is a moment an observer chooses; `rlSince` what was admitted from then
on; `rlSlack` records the two events that lift the bound. Replicas share one
clock; saturation of 64 bit integers and the expiry of old keys are left out.

### The web application: `WebPayments`, `SdkClient`, `MerchantCalls`

A POST handler goes through lookup (`LookupHit`, `LookupMiss`,
`LookupConflict`, `LookupFails`), `Forward`, the gateway's answer
(`TakeRailReply`, `TakeStripeReply`, `TakeMockReply`, `GatewayError`) or none
(`Unreachable`), the fallback of each provider, and the upsert
(`PersistPaymentRecord`, `PersistFails`). The gateway's `create_payment` works on
the same table, in the steps of its handler: `GatewayBegins` finds or inserts
the row, `GatewayPlaces` sends the order, `GatewayRecords` stores the result; a
call that was cut off may be served all the same. A row's fingerprint is the web
application's or the gateway's, whoever wrote it last; they hash different
documents, so neither ever accepts the other's.

Webhook handlers and GETs hold the row they read until they write. The mock
route finds any payment, by any of its names and unsigned, and writes status and
reference; `mocked` is the history of the payments it wrote to. A Stripe session
may be complete and not paid, and GET and the dashboard's payments page count
that as paid (`Inquired`). The page writes unconditionally (`PaymentsPage`). A GET
may go through the gateway, which then asks the provider itself
(`GatewayInquires`).

`SdkClient` is one call of `payments.create` with its attempts: `fetch`, abort on
timeout, the errors that are retried. In `MerchantCalls` the attempts are
`Requests` of the web application. Which class of error is thrown, and the calls
for refunds and endpoint registration (with a key only if the caller gives one),
are not followed; what the gateway does with a repeated refund is in `Refunds`.

Assumptions: where a gateway is configured it created the table, with its UNIQUE
(`idempotency_key`); all requests share one merchant reference; telemetry rows
and scheduled records are outside. The scenes of `MCMerchantCalls` are
deployments with two requests; `Once` follows a single attempt, and some have
two webhook deliveries at a time, of which one may come to the mock route.

### The two checkouts: `DemoServer`, `DemoPage`, `DemoStore`, `HostedCheckout`

`DemoServer` keeps the server's map: a name (payment id or merchant reference)
refers to a record, records are objects shared by several names, and a handler
that fetched one sees later writes. Checkout, status and settlement handlers
interleave at their awaits; `restarts` and `faults` bound what goes wrong. The
gateway's creation is in flight (`InFlight`) between `GatewayBegins` and
`GatewayAnswers`, or `GatewayFinishes` if nobody waits for it any more;
`GatewayReplays` answers a repeated request with the row as it is, in flight
without a next step. The gateway finds a payment by its id or its merchant
reference (`FoundBy`); the server's own look at Stripe takes a complete session
for a success (`SessionSays`). A settlement by hand is forwarded to the gateway
under the record's merchant reference (`SettlementForwarded`, `SyncServed`).
`DemoPage` is the order form, with what is drawn from it, and the poller.
`DemoStore` puts them together: a page that is left, returned to or turned to
another payment; answers to requests it gave up. A `use` bounds the customer,
not the code. Payment ids are interchangeable; provider reference names are not
followed; `MaxPollErrors` is 5 in the code and 2 here; the order a failed direct
call may leave at a provider is left out.

`HostedCheckout` has the form's currency, plan, custom amount and test vector,
and the panel of one simulated payment with its webhook call, the 800 ms after
which the route answers while its work goes on, and the panel's own timeout.

### The control plane

`ApiKeyVault`: an operation of the page goes to the route or to the server
action (`kvOps`), the list changes early (`kvList`), and a refresh renders what
it read (`kvSnap`). `kvCache` is the memory of
`dashboard-telemetry-service.ts`, whose figures are represented by the keys
they were computed from. A database outcome that stays unknown to the server, a
refresh that fails and `revalidatePath` beside the refresh are left out.
`MerchantSettings` follows the signing secret through the tabs: the first insert
and its losers (`lost`), a roll that is not saved (`rolled`), a save from
elsewhere (`stale`), a save that arrives after its tab was told it failed
(`LateSave`). The secret signs nothing but the test delivery, and
`regenerateWebhookSecretAction` is exported and called by nobody.
`SchemaInit` runs the statements of `init.ts` and `init-db.mjs` in order, each
committed on its own, over fresh tables or those of an older release; a column
stands for all that are treated alike, one legacy row is followed, and the
statements that normalise environments (375-386) are left out. Only `api_keys`
and `payments` are followed: unique indexes that fail over legacy duplicates, and
the tables `init-db.mjs` does not create, are outside. `ReleaseTool` has
targets of every category and of the three kinds of patterns instead of all 35
files, and leaves out `Cargo.lock`; what a command still has to do is a set, worked
off in the order of the table. `DashboardView` has cookie, storage and tabs,
and pages through the rows of each mode, which a use fixes and which may be none;
`TableBody` is what the table shows, the empty message included. Sorting, a refresh that fails
and the recheck button are left out.

## 3. Runs

All configurations say `CHECK_DEADLOCK FALSE`: the sets of requests, events,
clicks and faults are finite, and the system may come to rest when they are
used up.

| Run | Instance | Properties |
|---|---|---|
| `sqlite_safety` | 3 calls on one key (2 alike, 1 with another body), 2 events, 1 GET, 1 reconciler; 303k states | `TypeOK`, `Coherent`, `AtMostOneCharge`, `ReplayIsSameRequest`, `StoredOutcomeIsTrue`, `ConsumedEventIsApplied`, `SettledHasNoAction`, `PromiseKept` (refinement) |
| `postgres_safety` | 2 calls on one key, 2 events, 2 webhook handlers, 1 GET, 1 reconciler; 1.3M states | `StoredOutcomeIsTrue`, `CreatorIsSoleWriter`, `OneDeliveryApplies` |
| `postgres_heals` | 1 payment, 2 events, 1 webhook handler, 1 reconciler | `HealsWithReference` |
| `long_run` | 2 payments on SQLite without webhooks; 3 rows in batches of 2, with and without bus, 1 fault; 2 events, 2 endpoints, a channel of 1, 1 fault; 32k states | `SettlesWithReference`, `ReconcilerReachesAll`, `LedgerIsPosted` (liveness), `AcceptedEventSurvives` |
| `refunds_and_rates` | 3 calls on a payment of 3 minor units; rates 1 and 3, 4 ticks to the second, 2 requests in progress, 3 windows; 517k states | `RefundOnlyPaid`, `StatusHasRefund`, `SerialRefundsExact`, `AdmissionsBounded` |
| `web_payments` | 22 deployments, 2 requests, up to 2 webhook handlers, 1 GET; 2.4M states | `AnsweredIsListed`, `ConflictIsAnothers`, `OutcomeIsReal`, `SimulatedOnlyCutOff`, `SecondOrderOnlyCutOff`, `CallMakesOnePayment` |
| `storefront` | 4 customers of the demo, 2 payments, 2 order references, a restart or a failing call; the sandbox checkout; 585k states | `OneOpenOrder`, `ShownIsFound`, `FinalUndoneOnlyByOverlap` (action), `SettledIsShown` (liveness), `DrawnIsCurrent`, `SentIsPayable`, `ReceiptIsStored` |
| `control_plane` | 2 operations and 2 faults on keys; 2 tabs; a server and the command line tool; 2 commands of the release tool; 2.8M states | `QuietListIsTrue`, `FiguresStaleOnlyByOverlap`, `ShownSecretIsStored`, `QuietTabAgrees`, `PageIsNeverBlank`, `ReadyMeansMigrated`, `SyncRepairs` |
| `sqlite_unknown` | 1 payment, 1 event, 1 GET, 1 reconciler, all diligent | violation of `UnknownIsResolved` |
| `postgres_illegal` | as `postgres_safety` with 1 call, no GET | violation of `TerminalIsNeverReopened` |
| `postgres_lost_event` | 1 payment, 1 event, 1 webhook handler | violation of `ConsumedEventIsApplied` |
| `refund_failed` | as `refunds_and_rates`, refunds only | violation of `RefundedMeansPaidBack` |

Each property is stated in words above its definition. Many have the form "only
if": the code does not promise the strong property, and the run shows exactly
which race or fault breaks it and that nothing else does. For
example a live payment is simulated only after the configured gateway gave no
answer, and figures in memory are stale only if the render that stored them
overlapped a write. `OutcomeIsReal` exempts payments that an event of the mock
route was written to, and counts a complete Stripe session as paid, as the code
does; for the others a final status is the outcome of an order, and on Stripe of
the payment's own order. (Paymob's events name the merchant reference only,
which payments share.) An "only if" leaves out the race it names: that a stale
status overwrites a settlement (`FinalUndoneOnlyByOverlap`), that refunds in
parallel exceed the payment (`SerialRefundsExact`), that a receipt contradicts
the ledger after a call was given up (`ReceiptIsStored`), that figures or a mode
are stale after an overlap (`FiguresStaleOnlyByOverlap`, `QuietTabAgrees`) happens
in the models as in the code; section 4 lists these. Each property has a mutant: a plausible slip in the code
under which TLC finds the property violated.

Why the bounds are enough. Keys do not interact in the gateway's safety: every
statement touches the row of one key, so one key with several calls is the
interesting case (the proofs remove the bound anyway). Three calls allow a
winner, a replay and a conflict. Two events allow reordering and contradiction,
two webhook handlers a race of one event with itself or with another, and one
GET beside one reconciler a race of inquiries. For liveness two keys compete for
one reconciler; three rows in batches of two are the least number with which one
is left out of a batch. A queue of one makes publishers wait. Three refunds of
three units allow every split and a refund after a completed one. Three windows
allow an interval of a second to cross a boundary with a full window behind it.
Two requests at the web routes are two attempts or two callers; what a third
could do to a row is an upsert like the second's. Two tabs, two operations and
two endpoints allow each race between two of them. `Symmetry` permutes event ids
and webhook handlers, or refund calls, which no definition tells apart; it is
used in safety runs only.

Fairness.

* `SqliteGateway` and `PostgresGateway`: strong fairness, per reconciler and key,
  of starting an inquiry, of getting an answer worth applying and of applying
  it. The reconciler is a tokio task that loops for ever; strong, because an
  inquiry may fail any number of times as long as it does not fail for ever.
  Nothing is assumed of clients, webhooks or create handlers. `DiligentSpec`,
  used only to refute `UnknownIsResolved`, adds a client that polls GET for ever
  and a provider that signs and delivers its events.
* `MessageBus`: weak fairness of the reconciler's loop and of the reconcile
  consumer's. The order of rows is in the model, so nothing is assumed about
  which row is visited.
* `OutboundWebhooks`: weak fairness of the worker's loop, whose POSTs are bounded
  by a timeout; a waiting handler is woken or dropped.
* `DemoStore`: weak fairness of the poller's ticks, of their answers and of the
  steps of the status handler.

Postgres. What `postgres_safety` shows is what survives without transactions:
the unconditional UPDATEs of the create handler are harmless because nobody else
can find the row (`CreatorIsSoleWriter`), and of several deliveries of an event
only one gets past the INSERT (`OneDeliveryApplies`). What does not survive are
the two violations; `HealsWithReference` says that the reconciler repairs both,
provided the reference is stored.

The reconciler in the long run. `ReconcilerReachesAll` has two exceptions.
A row leaves the head of the batch only when its `updated_at` changes. An inquiry
that fails or answers Unknown touches it (that is what the mutant drops), but an
answer that changes nothing does not on the SQLite store (`sqlite.rs:496`), an
answer of Pending about an Unknown row does not on either, and a failing inquiry
does not on the bus. If `BATCH_LIMIT` (100) such rows exist, later rows are never
asked about. And when the AMQP channel has closed, consumers have exited and
publishing fails until somebody restarts the gateway; there is no fallback.

The rate limiter. The bound for the window counter is the rate plus the rate's
share of the observed interval: an interval of almost a second can see almost
twice the rate. Requests counted late and a cache that fails lift the bound.

## 4. Findings

1. `sqlite_unknown`: a payment that the create handler marks Unknown has no
   provider reference, and GET, reconciler and webhook lookup all need one. It
   stays Unknown for ever, even if the customer has paid. The documentation
   (`docs/STATE_MACHINE.md:90`) says the next GET or webhook resolves it. The same
   happens on Postgres.
2. `postgres_illegal`: `apply_webhook_event` and `apply_reconciliation_result`
   validate the status they read before and write without a condition: a
   terminal payment can go back to Pending or Unknown
   (`docs/STATE_MACHINE.md:26`).
3. `postgres_lost_event`: the event id is committed before the payment is
   updated (`store/mod.rs:153` promises atomicity).
4. `refund_failed`: a refund that failed or is pending turns the payment
   Refunded (`docs/STATE_MACHINE.md:10`).

Also seen while modelling, without a violation run of their own (the models
have these behaviours, and the properties name them as exceptions):

* Refunds: two concurrent refunds can exceed the payment, and the one recorded
  last can take the status from Refunded back to PartiallyRefunded; the
  deduplication that `docs/IDEMPOTENCY.md:25` describes does not exist, and the
  SDK retries refunds, without a key unless the caller gives one
  (`client.ts:371`, `:501`).
* Reconciler: starvation as described above, where `store/mod.rs:200` speaks of
  "fair round-robin scheduling without starvation".
* Bus: messages whose processing failed are acknowledged, never dead-lettered,
  although `OPERATIONS.md:50` mentions dead-lettering. That includes an event
  that comes before its payment has a reference (`amqp.rs:281`). Publishing is
  not confirmed (`amqp.rs:90`), so an event answered 200 may never reach the
  broker.
* Outbound: a handler dropped while the channel is full, or a restart, leaves an
  event in the ledger that is never sent; failed deliveries get a
  `next_retry_at` that nothing reads.
* Web routes: a live payment is simulated when the gateway does not answer
  (`payments/route.ts:392`); a Stripe session is opened beside an order the
  gateway may have placed (`:487`); the upsert writes back what was read earlier
  and moves a row to the tenant and environment of a caller with the same key
  (`payment-ledger-service.ts:131`); webhook routes check and write in separate
  statements (`webhooks/paymob/route.ts:57`). The mock route finds any payment
  and asks for no signature (`webhooks/mock/route.ts:27`, `:54`). A retry that
  meets the other side's fingerprint is answered 409 (`postgres.rs:606`,
  `payments/route.ts:239`). A session that is complete but not paid counts as
  succeeded (`payments/[id]/route.ts:151`, `stripe/client.rs:396`).
* Demo: a checkout repeated, after a lost answer, while the gateway is still
  creating the payment is answered without a next step (`handlers.rs:163`), and the server makes an order
  of its own beside it (`server.js:618`). A status inquiry can overwrite a settlement made during its await
  (`server.js:756`); the poller's error count is carried from one payment to the
  next (`app.js:749`).
* Mock payment page: the panel can show a success after its call was given up
  while the ledger keeps a failure (`webhooks/mock/route.ts:113`).
* API keys: a lost answer of the create call makes a second key
  (`credential-vault-manager.tsx:102`); an action that throws leaves an active
  key out of the list (`:134`); figures read before a revocation are cached after
  it (`dashboard-telemetry-service.ts:83`).
* Settings: two first visits show a secret that was never stored
  (`merchant-settings-service.ts:88`); a save of the whole form undoes a roll
  made in another tab.
* Initialisation: `SET DEFAULT` precedes `ADD COLUMN` (`init.ts:274`), so a legacy
  `payments` table makes every start fail until `init-db.mjs` is run; the copy of
  legacy values is skipped for columns that were added with a default.
* Release tool: digit-only patterns do not match prerelease versions
  (`version.mjs:612`), and files are written one at a time, not "atomically"
  (`:5`). A pattern that no longer matches is skipped without a word and its file
  reported with a check mark (`:799`).
* Dashboard: the payment ledger keeps the rows it was opened with
  (`authoritative-transaction-ledger-table.tsx:53`), and hides them behind the
  empty message when the page's new list is empty (`:258`); with blocked storage the
  cookie is not written (`environment-context.tsx:58`).

## 5. Proofs

The theorems hold for every value of the constants that satisfies the `ASSUME`s
of the modules: any number of requests, keys, replicas, tabs, rows, retries and
faults. Each states a property that a run checks on a small instance.

| Module | Theorem | Statement |
|---|---|---|
| `SqliteGateway_proofs` | `TypeCorrect` | `Spec => []TypeOK` |
| | `AlwaysCoherent` | `Spec => []Coherent` |
| | `NoDoubleCharge` | `Spec => []AtMostOneCharge` |
| | `ReplaysAreHonest` | `Spec => []ReplayIsSameRequest` |
| | `OutcomesAreTrue` | `Spec => []StoredOutcomeIsTrue` |
| | `NoEventLost` | `Spec => []ConsumedEventIsApplied` |
| | `NothingLeftToDo` | `Spec => []SettledHasNoAction` |
| | `GatewayKeepsPromise` | `Spec => PromiseKept`: refinement of `PaymentPromise` |
| `PostgresGateway_proofs` | `CreatorWritesAlone` | `Spec => []CreatorIsSoleWriter` |
| | `EventsApplyOnce` | `Spec => []OneDeliveryApplies` |
| | `StaleWritesAreTrue` | `Spec => []StoredOutcomeIsTrue` |
| | `ReplicasChargeOnce` | `Spec => []AtMostOneCharge` |
| | `ReplicasAgree` | `Spec => [](TypeOK /\ Coherent)` |
| `MessageBus_proofs` | `NoAcceptedEventVanishes` | `BusSpec => []AcceptedEventSurvives` |
| `RefundsAndRates_proofs` | `RefundTypes` | `Spec => []TypeOK` |
| | `RefundsArePaidFor` | `Spec => []RefundOnlyPaid` |
| | `RefundedHasRow` | `Spec => []StatusHasRefund` |
| | `SerialRefundsAreExact` | `Spec => []SerialRefundsExact` |
| | `RateIsKept` | `LimiterSpec => []AdmissionsBounded` |
| `MerchantCalls_proofs` | `AcceptedCallsAreListed` | `CallsSpec => []AnsweredIsListed` |
| | `ConflictsAreAnothers` | `CallsSpec => []ConflictIsAnothers` |
| | `OutcomesAreReal` | `CallsSpec => []OutcomeIsReal` |
| | `LiveSimulationsAreCutOff` | `CallsSpec => []SimulatedOnlyCutOff` |
| | `SecondOrdersAreCutOff` | `CallsSpec => []SecondOrderOnlyCutOff` |
| | `ReturnedCallMadeOne` | `CallsSpec => []CallMakesOnePayment` |
| `ControlPlane_proofs` | `RestingListIsTrue` | `VaultSpec => []QuietListIsTrue` |
| | `StaleFiguresOverlapped` | `VaultSpec => []FiguresStaleOnlyByOverlap` |
| | `FormsShowTheSecret` | `SettingsSpec => []ShownSecretIsStored` |
| | `RestingTabAgrees` | `ViewSpec => []QuietTabAgrees` |
| | `NoBlankPage` | `ViewSpec => []PageIsNeverBlank` |
| | `ReadyTablesAreMigrated` | `SchemaSpec => []ReadyMeansMigrated` |
| | `SyncsRepair` | `ReleaseSpec => []SyncRepairs` |
| `Storefront_proofs` | `FormSendsPayable` | `HostedSpec => []SentIsPayable` |
| | `ReceiptsAreStored` | `HostedSpec => []ReceiptIsStored` |
| | `OneOrderIsOpen` | `StoreSpec => []OneOpenOrder` |
| | `FormIsDrawn` | `StoreSpec => []DrawnIsCurrent` |
| | `FinalsAreOvertaken` | `StoreSpec => FinalUndoneOnlyByOverlap` (action property) |
| | `ShownPaymentsAreFound` | `StoreSpec => []ShownIsFound` |

Hardly any of the properties is inductive. What each needs beside itself is the
interesting part of its proof:

* **The gateway, SQLite.** `AtMostOneCharge` needs to know that a charge comes
  from a handler that got through `begin_payment`, and that such a handler is the
  one its row names; `StoredOutcomeIsTrue` needs to know that no event or answer
  still on its way is false; `ConsumedEventIsApplied` needs both. `Coherent` says
  all that (TLC checks it in `sqlite_safety`), and `IInv` is the conjunction of
  `TypeOK`, `Coherent` and the four other invariants. Only `BeginProceed` inserts
  a row. Every other step is `Quiet`: rows move along the state machine, to a
  final status only if it is true, handlers stay on their side of
  `begin_payment`, and settled charges stay settled. For the refinement, the
  merchant sees the row's status (`Shown`) and the charge of the row's owner, an
  order on the wire counting as none (`Truth`); `BeginProceed` is `Accept`, a move
  that changes the status is `Learn`, the provider's steps are `Take`, `Refuse`
  and `Settle`, and everything else is invisible.
* **The gateway, either store.** `GatewayBase_proofs` asks of a store's statement
  only that it is a `StoreStep`: it writes rows of handlers that got through
  `begin_payment`, and final statuses only if they are true. That is enough for
  `BaseInv`, in which nothing is said of the state machine; so it survives the
  backward moves that Postgres allows.
* **The gateway, Postgres.** Each autocommitted statement is a `StoreStep`. For
  `CreatorIsSoleWriter` the invariant adds that whoever is about to write a row,
  a webhook handler past its SELECT (`HooksAreLate`) or an inquiry
  (`InquiriesAreLate`), knows a reference that the creator has already recorded,
  so the creator is past its unconditional UPDATE.
* **The bus.** An accepted event is on the wire, in the queue, in the store, or
  in one of the three histories; the contents of wire and queue are followed as the range of a sequence (the message in hand stays in
  the queue until it is acknowledged).
* **Refunds.** `get_total_refunded_minor_units` is a fold over a table of any
  finite size. What such a sum does when one row changes is shown first, by
  induction over the finite subsets of the table, stated as a set of subsets
  that is closed under the induction step. `RefundsIInv` then relates the total to
  the status (`StatusFollowsTotal`), to what a call has read, and, as long as the
  history is serial, to the one call between check and record (`OneAtATime`).
* **The rate limiter.** `BucketBalance`: at the last refill, what was admitted
  since the observer's start and what is left in the bucket come to at most a
  full bucket and the refills of the interval. `WindowBalance`: within a second of
  its start the observer saw at most what the two windows it touches counted, of
  the first at most the rate, and no more than the bound.
* **The web routes.** They copy a row, wait, and write the copy back. `WebInv`
  says the same of every copy of a payment's status and reference there is: in
  the row (`RowOk`), in the draft of a POST handler (`DraftOk`), in a reply of the
  gateway (`ReplyOk`), with a webhook handler (`HookOk`) or a GET (`GetOk`). A copy
  is real and its reference the payment's own, or the mock route was there
  (`CopyOk`). The gateway works for one request per key (`OneAtWork`), on the row
  of that key (`AtWork`); an accepted call finds its payment (`AnswerOk`), a 409 has
  another request behind it (`ConflictOk`), orders have a payment or a cut-off call
  behind them (`OrdersAreKnown`), and a handler falls back only where it must
  (`FallbackForced`). `CallsIInv` adds what the SDK's calls got back.
* **API keys and figures.** With only harmless operations under way (`Harmless`)
  and no refresh due, the list, or the refresh that will replace it, is the
  table's (`ListFollows`). Cached figures are right unless a write that will
  forget them has not done so yet (`FiguresFollow`, `Threatened`).
* **Settings.** A form is open only where a row is stored, and its secret is the
  row's unless it was rolled, is stale, or the first insert was lost (`TabOk`);
  every step that stores a secret marks the forms that hold another.
* **The dashboard.** The mode shown is the one of whichever rendering comes last:
  the refresh due, the one on its way, or the page (`ModeFollows`); the rows
  follow the page (`RowsFollow`). For `NoBlankPage`, a page of filtered rows within `safePage` has a row, and the
  empty message stands in its place only where the rows do not follow the page.
* **The schema.** Every statement a process is past has had its effect, and no
  step of any process takes an effect back (`Effect`, `Established`, `Grows`);
  that a column which appears later cannot be missed follows from the order of
  look and drop in both programs (`ProgramFacts`).
* **The release tool.** While no prerelease was named no file carries a suffix, so
  every pattern matches (`PlainWrite`), the targets a command is done with carry
  its version, and the first is `Cargo.toml` (`CargoIsFirst`).
* **The sandbox checkout.** A test vector stays selected only with its own amount
  (`OrderOk`), and what was sent carries a currency its rail accepts and the
  amount of its vector if the currency has two decimals (`SentOk`), which the mock
  rail answers as the vector says. For the receipts, a success on the panel or
  answered to it is no longer pending in the ledger (`ClaimsAreStored`), and a
  failure in the ledger or on its way there was asked for (`FailuresAreAsked`).
* **The demo's server.** The gateway's answer is what the checkout remembers when
  it falls back (`CheckoutOk`), and what the gateway reports is a status
  (`PayOk`); an inquiry that went on to ask found nothing final (`StatusOk`), so
  `FinalUndoneOnlyByOverlap` only has to look at the steps that write records.
* **One open order.** As long as no call failed and nothing was restarted
  (`OrdersInv`): a key has one row at the gateway (`OneKey`), a creation in flight
  has its caller (`FlightOk`), and no two checkouts in flight share a reference,
  since the page waits for the one it sent and comes back with another reference
  (`AloneOk`). So nobody meets a row in flight, what a checkout was answered is
  its own recorded row (`AskedOk`), and an own order's reference is shut at the
  gateway (`OwnOk`, `Shut`), which no later step opens again.
* **The demo as a whole.** `ShownIsFound` follows a payment from the checkout to
  the Map to the page and, over the redirect, back: what a checkout holds is of
  its own reference (`RefOk`), an answered checkout is stored under both its names
  (`StoredOk`), what the page waits for was sent under the reference it shows
  (`WaitsOk`), and every name leads to the record of the payment it names
  (`NameOk`). A settlement by hand makes a record of its own only for a name the
  server does not know, which the page cannot show before a restart.

Assumptions the proofs use, beside the types of constants:
`GatewayAssumption` (a GET is not a reconciler, `None` is no value),
`NamesAssumption` (ids made by the web application are not the gateway's; `None`
is no name),
`CallsAssumption` (the attempts of an SDK call send the same headers and body, as
`client.ts` does), `RefundsAssumption` (finitely many calls),
`SchemaAssumption` (a server is not the script), `OptionsAssumption` (the
categories of the table; any other selects no target), `HostedAssumption` (the
four methods of the form; `"none"` is no id), `ServerAssumption` (`None` is no name,
a checkout is neither a status inquiry nor a settlement), `UsesAssumption` (the
first reference of a page is one of `OrderRefs`).

Only model-checked: liveness (`SettlesWithReference`, `HealsWithReference`,
`ReconcilerReachesAll`, `LedgerIsPosted`, `SettledIsShown`), which needs fairness
and ENABLED and is out of the prover's reach. Every safety invariant and action
property of a passing run is stated by a theorem.

## 6. Plan

In this order, next:

1. `ProviderAdapters`: the status tables of the four adapters and the error
   classes as operators, against what each provider's record means.
2. Operators: `retry.rs` (`compute_delay`), `money.rs`.
3. `record_refund` on the Postgres store beside its stale status writes.

## 7. Not modelled

Signature verification, HTTP and wire formats, request validation, logging,
metrics and configuration: they decide whether an operation happens at all, and
change no shared state. The SDK's other calls and its error classes. Authentication and ownership: lookups. The gRPC server
and its bridge and the GraphQL route: second fronts of the same operations and
tables. The PHP and .NET SDKs and demo servers: the TypeScript ones again.
Pages that only present (documentation, code samples, animations), sign-in
(a third-party library), deployment files, tests. Amounts and currencies in the
gateway models are reduced to whether an event's amount agrees with the stored
one. `PROJECT.json` says so component by component.
