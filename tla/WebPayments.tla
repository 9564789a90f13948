----------------------------- MODULE WebPayments -----------------------------
(***************************************************************************)
(* The payment routes of the web application (apps/web): POST /payments    *)
(* with its idempotency lookup, the forward to the Rust gateway and the    *)
(* fallbacks behind it, the upsert into the payments table that web and    *)
(* gateway share, GET /payments/:id, and the four webhook routes.          *)
(*                                                                         *)
(* An action is the code between two awaits that touch the database or the *)
(* network.  A payment the web application mints is named by its request,  *)
(* one the gateway mints by its Idempotency-Key.  All requests carry the   *)
(* same merchant reference, which no index makes unique.  Left out are the *)
(* next-action columns, which decide nothing (an unknown payment without   *)
(* reference has none), and the audit log webhook_events, which these      *)
(* routes only write.                                                      *)
(***************************************************************************)
CONSTANTS
    Requests,   \* POST /payments calls that reach the server
    Keys,       \* Idempotency-Key values
    Users,      \* tenants; usr_sandbox_demo is the one of the demo keys
    Bodies,     \* request bodies, up to computeCanonicalFingerprint
    Demo,       \* usr_sandbox_demo
    Scenes,     \* deployments (provider, gateway URL, Stripe key, whether
                \* anybody asks for outcomes, which deliveries are the
                \* provider's and which come to the mock route) with what
                \* the requests ask: user, key, body and environment
    Hooks,      \* webhook deliveries in progress
    Getters,    \* GET /payments/:id calls in progress
    None

VARIABLES
    world,         \* the deployment
    ask,           \* the user, key, body and environment of every request
    payments,      \* the payments table, by id
    mocked,        \* history: the payments an event of the mock route was
                   \* written to
    pc,            \* where each POST handler is
    fwd,           \* its call of the gateway, and the gateway's reply
    draft,         \* what the handler will write and answer
    ans,           \* its HTTP status and the payment it names
    charge,        \* the orders the providers know
    hook,          \* the row a webhook handler read and the event it holds
    get            \* the row a GET read and the answers it waits for

webVars == <<world, ask, payments, mocked, pc, fwd, draft, ans, charge, hook, get>>

Ids    == Requests \union Keys
Orders == [by : {"gateway", "session"}, key : Keys]
Sim    == [by |-> "sim", key |-> None]
Refs   == Orders \union {Sim}

WebTerminal(s) == s \in {"succeeded", "failed"}

(* extractApiToken, the authenticated key and paymentInputSchema: what is  *)
(* left of a request that the route accepts.                               *)
Ask == [user : Users, key : Keys, body : Bodies, live : BOOLEAN]

World == [provider : {"paymob", "fawry", "stripe", "mock"}, gateway : BOOLEAN,
          stripeKey : BOOLEAN, polls : BOOLEAN,
          hooks : SUBSET Hooks, mocks : SUBSET Hooks]

ASSUME ScenesAssumption ==
    \A s \in Scenes : s.world \in World /\ s.ask \in [Requests -> Ask]

(* The ids the web application mints are not the gateway's. *)
ASSUME NamesAssumption ==
    /\ Requests \intersect Keys = {}
    /\ None \notin Requests \union Keys \union Users \union Refs

(* The columns of payments that the routes read back.  The fingerprint of  *)
(* the body is the web application's or the gateway's: the two hash        *)
(* different documents, so that one never equals the other.                *)
NoPayment == [user |-> None, key |-> None, body |-> None, hash |-> "web", live |-> FALSE,
              ref |-> None, status |-> "unknown"]

NoDraft == [id |-> None, ref |-> None, status |-> "unknown"]

NoFwd == [at |-> "no", cut |-> FALSE, data |-> NoDraft]

NoAns == [code |-> 0, id |-> None]

NoHook == [at |-> "idle", mock |-> FALSE, ref |-> None, status |-> "unknown",
           id |-> None, was |-> "unknown"]
NoGet  == [at |-> "idle", id |-> None, was |-> NoDraft, status |-> "unknown", ref |-> None]

WebInit ==
    /\ \E s \in Scenes : world = s.world /\ ask = s.ask
    /\ payments = [i \in Ids |-> NoPayment]
    /\ mocked = {}
    /\ pc = [r \in Requests |-> "idle"]
    /\ fwd = [r \in Requests |-> NoFwd]
    /\ draft = [r \in Requests |-> NoDraft]
    /\ ans = [r \in Requests |-> NoAns]
    /\ charge = [o \in Orders |-> "none"]
    /\ hook = [h \in Hooks |-> NoHook]
    /\ get = [g \in Getters |-> NoGet]

Stored     == {i \in Ids : payments[i].key # None}
KeyOf(r)   == ask[r].key
RowView(i) == [id |-> i, ref |-> payments[i].ref, status |-> payments[i].status]

(* authenticateApiRequest: the tenant of the API key; the demo and ambient *)
(* keys belong to usr_sandbox_demo.                                        *)
Tenant(r) == ask[r].user

(* The environment of the key, the header or the token's prefix.           *)
IsLive(r) == ask[r].live

(* paymentToApiResponse with the HTTP status, or an error body.            *)
Answer(r, c, i) ==
    /\ pc' = [pc EXCEPT ![r] = "answered"]
    /\ ans' = [ans EXCEPT ![r] = [code |-> c, id |-> i]]
    /\ fwd' = [fwd EXCEPT ![r].data = NoDraft]
    /\ draft' = [draft EXCEPT ![r] = NoDraft]
Ready(r, d) ==
    /\ pc' = [pc EXCEPT ![r] = "ready"]
    /\ draft' = [draft EXCEPT ![r] = d]
    /\ UNCHANGED ans

------------------------------------------------------------------------------
(* POST /payments *)

(* getGatewayUrl *)
GatewayUrl == world.gateway

(* validateProviderCredentials: test mode needs none; live needs ambient   *)
(* ones or the caller's headers, which only Stripe's calls may lack here.  *)
CredentialsOk(r) ==
    \/ ~IsLive(r)
    \/ world.provider # "stripe"
    \/ world.stripeKey

Arrive(r) ==
    /\ pc[r] = "idle"
    /\ pc' = [pc EXCEPT ![r] = "arrived"]
    /\ UNCHANGED <<world, ask, payments, mocked, fwd, draft, ans, charge,
                   hook, get>>

(* Version, API key, Idempotency-Key, body size and schema are checked     *)
(* before anything is read: 400, 401, 413 or 422.                          *)
RejectRequest(r) ==
    /\ pc[r] = "arrived"
    /\ Answer(r, 400, None)
    /\ UNCHANGED <<world, ask, payments, mocked, charge, hook, get>>

(* findIdempotentPayment: the caller's row of this key and environment,    *)
(* else any tenant's.                                                      *)
FindIdempotent(r) ==
    LET all  == {i \in Stored : /\ payments[i].key = KeyOf(r)
                                /\ payments[i].live = IsLive(r)}
        mine == {i \in all : payments[i].user = Tenant(r)}
    IN  IF mine # {} THEN mine ELSE all

(* Mutation: a stored payment is another tenant's whenever it has one.     *)
MutCrossTenant(i, r) == payments[i].user # None

CrossTenant(i, r) == payments[i].user \notin {Tenant(r), None}

(* Mutation: the fingerprint of a stored payment is not compared.          *)
MutSameFingerprint(i, r, hash) == TRUE

SameFingerprint(i, r, hash) == payments[i].body = ask[r].body /\ payments[i].hash = hash

LookupConflict(r) ==
    /\ pc[r] = "arrived"
    /\ \E i \in FindIdempotent(r) : CrossTenant(i, r) \/ ~SameFingerprint(i, r, "web")
    /\ Answer(r, 409, None)
    /\ UNCHANGED <<world, ask, payments, mocked, charge, hook, get>>

(* The stored payment is read now and written back, as read, later.        *)
LookupHit(r) ==
    /\ pc[r] = "arrived"
    /\ \E i \in FindIdempotent(r) :
          /\ ~CrossTenant(i, r) /\ SameFingerprint(i, r, "web")
          /\ draft' = [draft EXCEPT ![r] = RowView(i)]
    /\ pc' = [pc EXCEPT ![r] = "replaying"]
    /\ UNCHANGED <<world, ask, payments, mocked, fwd, ans, charge, hook, get>>

LookupMiss(r) ==
    /\ pc[r] = "arrived"
    /\ FindIdempotent(r) = {}
    /\ IF CredentialsOk(r)
       THEN pc' = [pc EXCEPT ![r] = "routing"] /\ UNCHANGED <<ans, fwd, draft>>
       ELSE Answer(r, 422, None)
    /\ UNCHANGED <<world, ask, payments, mocked, charge, hook, get>>

(* findIdempotentPayment throws: 500, except for the demo user, for whom   *)
(* the failure reads as "no such payment".                                 *)
LookupFails(r) ==
    /\ pc[r] = "arrived"
    /\ IF Tenant(r) = Demo
       THEN pc' = [pc EXCEPT ![r] = "routing"] /\ UNCHANGED <<ans, fwd, draft>>
       ELSE Answer(r, 500, None)
    /\ UNCHANGED <<world, ask, payments, mocked, charge, hook, get>>

(* The gateway is at work on the request: the row is inserted, or the      *)
(* provider has answered.                                                  *)
Working == {"begun", "placed", "unclear", "declined"}

(* forwardPaymentToRustGateway: the request leaves, or there is no URL.    *)
Forward(r) ==
    /\ pc[r] = "routing"
    /\ IF GatewayUrl
       THEN /\ pc' = [pc EXCEPT ![r] = "forwarding"]
            /\ fwd' = [fwd EXCEPT ![r].at = "sent"]
       ELSE /\ pc' = [pc EXCEPT ![r] = "fallback"]
            /\ UNCHANGED fwd
    /\ UNCHANGED <<world, ask, payments, mocked, draft, ans, charge, hook, get>>

(* The gateway could not be reached, or did not answer in 15 s; in the     *)
(* second case it may still go on with the request.                        *)
Unreachable(r) ==
    /\ pc[r] = "forwarding"
    /\ \/ fwd[r].at \in Working \union {"sent"} /\ fwd' = [fwd EXCEPT ![r].cut = TRUE]
       \/ fwd' = [fwd EXCEPT ![r] = [NoFwd EXCEPT !.cut = TRUE]]
    /\ pc' = [pc EXCEPT ![r] = "fallback"]
    /\ UNCHANGED <<world, ask, payments, mocked, draft, ans, charge, hook, get>>

(* The gateway's create_payment, on the table it shares with the web       *)
(* application.  Its answer reaches a route that still waits.              *)
Reply(r, a, d) ==
    fwd' = [fwd EXCEPT ![r] = IF pc[r] = "forwarding" THEN [at |-> a, cut |-> FALSE, data |-> d]
                              ELSE [NoFwd EXCEPT !.cut = TRUE]]

(* The gateway's order for the Idempotency-Key of a request.               *)
GatewayOrder(r) == [by |-> "gateway", key |-> KeyOf(r)]

(* Refused before anything is stored; or begin_payment_with_owner: a row   *)
(* of this key is replayed, settled or still in flight, if its fingerprint *)
(* is the gateway's own; else the row is inserted.                         *)
GatewayBegins(r) ==
    LET same == {i \in Stored : payments[i].key = KeyOf(r)} IN
    /\ fwd[r].at = "sent"
    /\ \/ Reply(r, "refused", NoDraft) /\ UNCHANGED payments
       \/ \E i \in same :
             /\ \/ SameFingerprint(i, r, "gateway") /\ Reply(r, "ok", RowView(i))
                \/ ~SameFingerprint(i, r, "gateway") /\ Reply(r, "conflict", NoDraft)
             /\ UNCHANGED payments
       \/ /\ same = {}
          /\ payments' = [payments EXCEPT ![KeyOf(r)] =
                            [user |-> Tenant(r), key |-> KeyOf(r), body |-> ask[r].body,
                             hash |-> "gateway", live |-> IsLive(r), ref |-> None,
                             status |-> "pending"]]
          /\ fwd' = [fwd EXCEPT ![r].at = "begun"]
    /\ UNCHANGED <<world, ask, mocked, pc, draft, ans, charge, hook, get>>

(* provider.create_payment: the order is placed, refused for certain, or   *)
(* nobody knows.                                                           *)
GatewayPlaces(r) ==
    /\ fwd[r].at = "begun"
    /\ \E a \in {"placed", "unclear", "declined"}, c \in {"none", "open", "refused"} :
          /\ a = "placed" => c = "open"
          /\ a = "unclear" => c # "refused"
          /\ a = "declined" => c = "refused"
          /\ fwd' = [fwd EXCEPT ![r].at = a]
          /\ charge' = [charge EXCEPT ![GatewayOrder(r)] = c]
    /\ UNCHANGED <<world, ask, payments, mocked, pc, draft, ans, hook, get>>

(* record_creation_result, mark_unknown or                                 *)
(* mark_terminal_without_provider_reference, each an UPDATE by id whatever *)
(* the row has become, and the answer.                                     *)
GatewayRecords(r) ==
    LET k == KeyOf(r) IN
    /\ \/ /\ fwd[r].at = "placed"
          /\ payments' = [payments EXCEPT ![k].ref = GatewayOrder(r), ![k].status = "pending"]
          /\ Reply(r, "ok", [id |-> k, ref |-> GatewayOrder(r), status |-> "pending"])
       \/ /\ fwd[r].at = "unclear"
          /\ payments' = [payments EXCEPT ![k].status = "unknown"]
          /\ Reply(r, "ok", [id |-> k, ref |-> payments[k].ref, status |-> "unknown"])
       \/ /\ fwd[r].at = "declined"
          /\ payments' = [payments EXCEPT ![k].status = "failed"]
          /\ Reply(r, "refused", NoDraft)
    /\ UNCHANGED <<world, ask, mocked, pc, draft, ans, charge, hook, get>>

(* The gateway answered with an error of its own: it is passed on.         *)
GatewayError(r) ==
    /\ pc[r] = "forwarding"
    /\ fwd[r].at \in {"conflict", "refused"}
    /\ Answer(r, IF fwd[r].at = "conflict" THEN 409 ELSE 502, None)
    /\ UNCHANGED <<world, ask, payments, mocked, charge, hook, get>>

EmptyUnknown(d) == d.status = "unknown" /\ d.ref = None

(* paymob and fawry: an unknown outcome with nothing to show is a 502 in   *)
(* live mode and falls through to the simulation in test mode.             *)
TakeRailReply(r) ==
    /\ pc[r] = "forwarding" /\ fwd[r].at = "ok"
    /\ world.provider \in {"paymob", "fawry"}
    /\ IF ~EmptyUnknown(fwd[r].data)
       THEN Ready(r, fwd[r].data) /\ UNCHANGED fwd
       ELSE IF IsLive(r)
       THEN Answer(r, 502, None)
       ELSE pc' = [pc EXCEPT ![r] = "fallback"] /\ UNCHANGED <<fwd, draft, ans>>
    /\ UNCHANGED <<world, ask, payments, mocked, charge, hook, get>>

(* Mutation: an unknown outcome is taken for an unreached gateway.         *)
MutTakeStripeReply(r) ==
    /\ pc[r] = "forwarding" /\ fwd[r].at = "ok" /\ world.provider = "stripe"
    /\ IF fwd[r].data.status = "unknown"
       THEN pc' = [pc EXCEPT ![r] = "fallback"] /\ UNCHANGED <<draft, ans>>
       ELSE Ready(r, fwd[r].data)
    /\ UNCHANGED <<world, ask, payments, mocked, fwd, charge, hook, get>>

(* stripe and mock: whatever the gateway answered is taken over.           *)
TakeStripeReply(r) ==
    /\ pc[r] = "forwarding" /\ fwd[r].at = "ok" /\ world.provider = "stripe"
    /\ Ready(r, fwd[r].data)
    /\ UNCHANGED <<world, ask, payments, mocked, fwd, charge, hook, get>>

TakeMockReply(r) ==
    /\ pc[r] = "forwarding" /\ fwd[r].at = "ok" /\ world.provider = "mock"
    /\ Ready(r, fwd[r].data)
    /\ UNCHANGED <<world, ask, payments, mocked, fwd, charge, hook, get>>

Simulated(r) == [id |-> r, ref |-> Sim, status |-> "pending"]

(* Mutation: live Paymob and Fawry payments are simulated without gateway. *)
MutMaySimulate(r) == TRUE

(* 503 without a gateway URL in live mode, the simulation otherwise: also  *)
(* in live mode when the configured gateway could not be reached.          *)
MaySimulate(r) == ~IsLive(r) \/ GatewayUrl

RailFallback(r) ==
    /\ pc[r] = "fallback"
    /\ world.provider \in {"paymob", "fawry"}
    /\ IF MaySimulate(r)
       THEN Ready(r, Simulated(r)) /\ UNCHANGED fwd
       ELSE Answer(r, 503, None)
    /\ UNCHANGED <<world, ask, payments, mocked, charge, hook, get>>

(* createStripeCheckoutSession: Stripe keeps one session per               *)
(* Idempotency-Key of the account.                                         *)
CreateSession(s) == [charge EXCEPT ![s] = IF @ = "none" THEN "open" ELSE @]

(* Test mode without any key gets a made-up session.  A session whose      *)
(* creation failed here may still exist at Stripe.                         *)
StripeFallback(r) ==
    /\ pc[r] = "fallback" /\ world.provider = "stripe"
    /\ LET s == [by |-> "session", key |-> KeyOf(r)] IN
       \/ /\ ~IsLive(r) /\ ~world.stripeKey
          /\ Ready(r, Simulated(r))
          /\ UNCHANGED <<fwd, charge>>
       \/ /\ world.stripeKey
          /\ charge' = CreateSession(s)
          /\ Ready(r, [id |-> r, ref |-> s, status |-> "pending"])
          /\ UNCHANGED fwd
       \/ /\ world.stripeKey
          /\ charge' \in {charge, CreateSession(s)}
          /\ Answer(r, 502, None)
    /\ UNCHANGED <<world, ask, payments, mocked, hook, get>>

(* Amounts ending in 99 and 88 are declined and time out; nothing stored.  *)
MockFallback(r) ==
    /\ pc[r] = "fallback" /\ world.provider = "mock"
    /\ \/ Ready(r, Simulated(r)) /\ UNCHANGED fwd
       \/ \E c \in {402, 504} : Answer(r, c, None)
    /\ UNCHANGED <<world, ask, payments, mocked, charge, hook, get>>

(* Mutation: no unique index on the tenant's Idempotency-Key.              *)
MutInsertable(i, r) == TRUE

(* UNIQUE (user_id, idempotency_key), and the gateway's UNIQUE             *)
(* (idempotency_key) where it created the table.                           *)
Insertable(i, r) ==
    \A j \in Stored \ {i} :
        payments[j].key = KeyOf(r) =>
            /\ payments[j].user # Tenant(r)
            /\ ~GatewayUrl

(* persistPaymentRecord: INSERT ... ON CONFLICT (id) DO UPDATE.            *)
Upsert(r, d) ==
    [payments EXCEPT ![d.id] =
        [user |-> Tenant(r), key |-> IF @.key = None THEN KeyOf(r) ELSE @.key,
         body |-> ask[r].body, hash |-> "web", live |-> IsLive(r), ref |-> d.ref,
         status |-> d.status]]

PersistPaymentRecord(r) ==
    /\ pc[r] \in {"replaying", "ready"}
    /\ draft[r].id \in Stored \/ Insertable(draft[r].id, r)
    /\ payments' = Upsert(r, draft[r])
    /\ Answer(r, IF pc[r] = "ready" THEN 201 ELSE 200, draft[r].id)
    /\ UNCHANGED <<world, ask, mocked, charge, hook, get>>

(* The statement fails, by an index or otherwise: 500, or, for the demo    *)
(* user, the answer of a payment that was never stored.                    *)
PersistFails(r) ==
    /\ pc[r] \in {"replaying", "ready"}
    /\ IF Tenant(r) = Demo
       THEN Answer(r, IF pc[r] = "ready" THEN 201 ELSE 200, draft[r].id)
       ELSE Answer(r, 500, None)
    /\ UNCHANGED <<world, ask, payments, mocked, charge, hook, get>>

(* GET /payments: the caller's payments of one environment.                *)
ListPayments(u, live) ==
    {i \in Stored : payments[i].user = u /\ payments[i].live = live}

CreateNext ==
    \E r \in Requests :
        \/ RejectRequest(r)    \/ LookupConflict(r)  \/ LookupHit(r)
        \/ LookupMiss(r)       \/ LookupFails(r)     \/ Forward(r)
        \/ Unreachable(r)      \/ GatewayError(r)
        \/ GatewayBegins(r)    \/ GatewayPlaces(r)   \/ GatewayRecords(r)
        \/ TakeRailReply(r)    \/ TakeStripeReply(r) \/ TakeMockReply(r)
        \/ RailFallback(r)     \/ StripeFallback(r)  \/ MockFallback(r)
        \/ PersistPaymentRecord(r)  \/ PersistFails(r)

------------------------------------------------------------------------------
(* The providers, and POST /webhooks/:provider *)

(* The customer pays, or the order is declined or expires.  A Stripe       *)
(* session may also be complete while the payment is still unpaid, and be  *)
(* paid or fail ("reversed") later.                                        *)
Outcomes(c) ==
    IF c = "complete" THEN {"succeeded", "reversed"}
    ELSE {"succeeded", "failed"} \union (IF world.provider = "stripe" THEN {"complete"} ELSE {})

ProviderSettles(o) ==
    /\ charge[o] \in {"open", "complete"}
    /\ \E c \in Outcomes(charge[o]) : charge' = [charge EXCEPT ![o] = c]
    /\ UNCHANGED <<world, ask, payments, mocked, pc, fwd, draft, ans, hook, get>>

(* The answer to an inquiry.  A complete session counts as paid, in the    *)
(* gateway's Stripe adapter as in the routes here.                         *)
Inquired(o) ==
    IF charge[o] \in {"succeeded", "complete", "reversed"} THEN "succeeded"
    ELSE IF charge[o] \in {"failed", "refused"} THEN "failed" ELSE "pending"

(* What an event about order o may report: events sent before the order    *)
(* was settled can arrive after it.  An unpaid session is reported as      *)
(* pending, complete or not.                                               *)
Eventual(o) ==
    {"pending"} \union {s \in {"succeeded", "failed"} :
                           charge[o] = s \/ (charge[o] = "reversed" /\ s = "failed")}

Sends(o) == charge[o] \notin {"none", "refused"}

(* Each route looks for the payment in its own way: Paymob by the merchant *)
(* reference the event echoes, Fawry by it or by the provider reference,   *)
(* Stripe by the session.  LIMIT 1: one of the rows.  An event that finds  *)
(* none changes nothing.                                                   *)
(* Mutation: Stripe events are matched by the merchant reference.          *)
MutStripeFinds(o) == Stored

PaymobFinds(o) == Stored
FawryFinds(o)  == Stored
StripeFinds(o) == {i \in Stored : payments[i].ref = o}

(* The mock route: any payment, by its id, its merchant reference or its   *)
(* provider reference, whoever carries it.                                 *)
MockFinds(o) == Stored

(* The references a mock event may carry: none, a simulated payment's, or  *)
(* one that the merchant was given.                                        *)
MockRefs == {None, Sim} \union {payments[i].ref : i \in Stored}

(* The read half of a webhook route: signature, identifiers, status        *)
(* mapping and the SELECT.  Without a reference the one of the row is      *)
(* written back as it was read.                                            *)
Reads(h, mock, o, s, found) ==
    /\ hook[h].at = "idle" /\ h \in (IF mock THEN world.mocks ELSE world.hooks)
    /\ \E i \in found :
          hook' = [hook EXCEPT ![h] =
                     [at |-> "read", mock |-> mock,
                      ref |-> IF o = None THEN payments[i].ref ELSE o,
                      status |-> s, id |-> i, was |-> payments[i].status]]
    /\ UNCHANGED <<world, ask, payments, mocked, pc, fwd, draft, ans, charge, get>>

PaymobWebhook(h) ==
    /\ world.provider = "paymob"
    /\ \E o \in Orders : Sends(o) /\ \E s \in Eventual(o) : Reads(h, FALSE, o, s, PaymobFinds(o))

FawryWebhook(h)  ==
    /\ world.provider = "fawry"
    /\ \E o \in Orders : Sends(o) /\ \E s \in Eventual(o) : Reads(h, FALSE, o, s, FawryFinds(o))

StripeWebhook(h) ==
    /\ world.provider = "stripe"
    /\ \E o \in Orders : Sends(o) /\ \E s \in Eventual(o) : Reads(h, FALSE, o, s, StripeFinds(o))

(* The mock route takes the status from the event; a signature is checked  *)
(* only if there is one.                                                   *)
MockWebhook(h)   ==
    \E o \in MockRefs, s \in {"pending", "succeeded", "failed"} :
        Reads(h, TRUE, o, s, MockFinds(o))

(* Invariant I13: terminal states are immutable *)
IsIllegal(was, s) == WebTerminal(was) /\ was # s

(* What each route writes into the row it found: the Stripe route only the *)
(* status, the others the reference too.                                   *)
PaymobRow(e) == [payments[e.id] EXCEPT !.status = e.status, !.ref = e.ref]
FawryRow(e)  == [payments[e.id] EXCEPT !.status = e.status, !.ref = e.ref]
StripeRow(e) == [payments[e.id] EXCEPT !.status = e.status]
MockRow(e)   == [payments[e.id] EXCEPT !.status = e.status, !.ref = e.ref]

(* The write half: UPDATE ... WHERE id, on the strength of the row that    *)
(* was read.                                                               *)
ApplyWebhook(h, row) ==
    LET e == hook[h] IN
    /\ \/ /\ ~IsIllegal(e.was, e.status)
          /\ payments' = [payments EXCEPT ![e.id] = row]
          /\ mocked' = IF e.mock THEN mocked \union {e.id} ELSE mocked
       \/ IsIllegal(e.was, e.status) /\ UNCHANGED <<payments, mocked>>
    /\ hook' = [hook EXCEPT ![h] = NoHook]
    /\ UNCHANGED <<world, ask, pc, fwd, draft, ans, charge, get>>

Holds(h, mock) == hook[h].at = "read" /\ hook[h].mock = mock

PaymobApplies(h) == world.provider = "paymob" /\ Holds(h, FALSE) /\ ApplyWebhook(h, PaymobRow(hook[h]))
FawryApplies(h)  == world.provider = "fawry"  /\ Holds(h, FALSE) /\ ApplyWebhook(h, FawryRow(hook[h]))
StripeApplies(h) == world.provider = "stripe" /\ Holds(h, FALSE) /\ ApplyWebhook(h, StripeRow(hook[h]))
MockApplies(h)   == Holds(h, TRUE) /\ ApplyWebhook(h, MockRow(hook[h]))

WebhookNext ==
    \/ \E o \in Orders : ProviderSettles(o)
    \/ \E h \in Hooks : \/ PaymobWebhook(h) \/ FawryWebhook(h) \/ StripeWebhook(h)
                         \/ MockWebhook(h)
                         \/ PaymobApplies(h) \/ FawryApplies(h) \/ StripeApplies(h)
                         \/ MockApplies(h)

------------------------------------------------------------------------------
(* GET /payments/:id *)

(* The row is read; an open one makes the route ask the gateway.           *)
GetPayment(g) ==
    /\ get[g].at = "idle" /\ world.polls
    /\ \E i \in Stored :
          /\ payments[i].status \in {"pending", "unknown"}
          /\ get' = [get EXCEPT ![g] = [at |-> "asking", id |-> i, was |-> RowView(i),
                                        status |-> payments[i].status,
                                        ref |-> payments[i].ref]]
    /\ UNCHANGED <<world, ask, payments, mocked, pc, fwd, draft, ans, charge, hook>>

(* The gateway asks the provider, for a GET or in its reconciler, and      *)
(* applies the answer to the shared row.  (How such steps interleave on    *)
(* the table is the subject of PostgresGateway.)                           *)
GatewayInquires(i) ==
    /\ GatewayUrl /\ world.polls /\ i \in Stored
    /\ ~WebTerminal(payments[i].status) /\ payments[i].ref \in Orders
    /\ WebTerminal(Inquired(payments[i].ref))
    /\ payments' = [payments EXCEPT ![i].status = Inquired(payments[i].ref)]
    /\ UNCHANGED <<world, ask, mocked, pc, fwd, draft, ans, charge, hook, get>>

(* getPaymentFromRustGateway: no answer, or the row as the gateway reads   *)
(* it.                                                                     *)
GatewayTells(g) ==
    LET e == get[g]
        p == payments[e.id]
    IN  /\ e.at = "asking"
        /\ \/ get' = [get EXCEPT ![g].at = "session"]
           \/ /\ GatewayUrl
              /\ get' = [get EXCEPT ![g].at = "gateway", ![g].status = p.status,
                                    ![g].ref = IF p.ref = None THEN e.ref ELSE p.ref]
        /\ UNCHANGED <<world, ask, payments, mocked, pc, fwd, draft, ans, charge, hook>>

(* The status is written if it or the reference differs from the row that  *)
(* was READ, whatever the row is by now.                                   *)
StoreGatewayStatus(g) ==
    LET e == get[g] IN
    /\ e.at = "gateway"
    /\ payments' = IF e.status = e.was.status /\ e.ref = e.was.ref THEN payments
                   ELSE [payments EXCEPT ![e.id].status = e.status, ![e.id].ref = e.ref]
    /\ get' = [get EXCEPT ![g].at = "session"]
    /\ UNCHANGED <<world, ask, mocked, pc, fwd, draft, ans, charge, hook>>

(* The dashboard's page of payments reconciles the pending Stripe rows it  *)
(* read, without the gateway.                                              *)
PaymentsPage(g) ==
    /\ get[g].at = "idle" /\ world.polls
    /\ world.provider = "stripe" /\ world.stripeKey
    /\ \E i \in Stored :
          /\ payments[i].status = "pending" /\ payments[i].ref \in Orders
          /\ get' = [get EXCEPT ![g] = [at |-> "session", id |-> i, was |-> RowView(i),
                                        status |-> "pending", ref |-> payments[i].ref]]
    /\ UNCHANGED <<world, ask, payments, mocked, pc, fwd, draft, ans, charge, hook>>

(* checkout.sessions.retrieve of a session that is still pending here; the *)
(* gateway's Stripe references are sessions too.                           *)
RetrieveSession(g) ==
    LET e == get[g] IN
    /\ e.at = "session"
    /\ \/ get' = [get EXCEPT ![g] = NoGet]
       \/ /\ e.status = "pending" /\ world.provider = "stripe" /\ world.stripeKey
          /\ e.ref \in Orders /\ WebTerminal(Inquired(e.ref))
          /\ get' = [get EXCEPT ![g].at = "settle", ![g].status = Inquired(e.ref)]
    /\ UNCHANGED <<world, ask, payments, mocked, pc, fwd, draft, ans, charge, hook>>

StoreSessionStatus(g) ==
    /\ get[g].at = "settle"
    /\ payments' = [payments EXCEPT ![get[g].id].status = get[g].status]
    /\ get' = [get EXCEPT ![g] = NoGet]
    /\ UNCHANGED <<world, ask, mocked, pc, fwd, draft, ans, charge, hook>>

GetNext ==
    \/ \E i \in Ids : GatewayInquires(i)
    \/ \E g \in Getters : \/ GetPayment(g)      \/ GatewayTells(g)    \/ StoreGatewayStatus(g)
                          \/ PaymentsPage(g)    \/ RetrieveSession(g) \/ StoreSessionStatus(g)

WebNext == CreateNext \/ WebhookNext \/ GetNext

------------------------------------------------------------------------------
(* Properties *)

Accepted(r) == ans[r].code \in {200, 201}

Twins(r, q) == KeyOf(r) = KeyOf(q) /\ ask[r].body = ask[q].body

(* An accepted call finds its payment, with its body, in its own list of   *)
(* its own environment, unless a call with the very same key and body from *)
(* another tenant or environment took the row over through the gateway.    *)
AnsweredIsListed ==
    \A r \in Requests :
        Accepted(r) /\ Tenant(r) # Demo =>
            \/ /\ ans[r].id \in ListPayments(Tenant(r), IsLive(r))
               /\ payments[ans[r].id].body = ask[r].body
            \/ \E q \in Requests : /\ Twins(r, q)
                                   /\ <<Tenant(q), IsLive(q)>> # <<Tenant(r), IsLive(r)>>

(* 409 is never the answer to the only request with its key, and without a *)
(* gateway never to a retry: another request then has the key with another *)
(* body or from another tenant.  (With a gateway a retry may be told so:   *)
(* it finds the gateway's row before the first attempt has put its own     *)
(* fingerprint there, or meets that fingerprint at the gateway.)           *)
ConflictIsAnothers ==
    \A r \in Requests :
        ans[r].code = 409 =>
            \E q \in Requests \ {r} :
                /\ KeyOf(q) = KeyOf(r)
                /\ GatewayUrl \/ ~Twins(r, q) \/ Tenant(q) # Tenant(r)

(* The order that is placed for a payment: by the gateway for the payments *)
(* it mints, and at Stripe by the route itself for its own.                *)
OwnOrder(i) == IF i \in Keys THEN [by |-> "gateway", key |-> i]
               ELSE [by |-> "session", key |-> KeyOf(i)]

Outcome(o, s) == Inquired(o) = s \/ (charge[o] = "reversed" /\ s = "failed")

(* No stale write, late event, poll or fallback invents an outcome.  A     *)
(* settled payment has the outcome of an order that settled so, and on     *)
(* Stripe, whose events name the session, of its own order.  Two           *)
(* exceptions: payments an event of the mock route was written to, and     *)
(* complete sessions, which count as paid.                                 *)
OutcomeIsReal ==
    \A i \in Stored \ mocked :
        WebTerminal(payments[i].status) =>
            \E o \in IF world.provider = "stripe" THEN {OwnOrder(i)} ELSE Orders :
                Outcome(o, payments[i].status)

(* A live Paymob or Fawry payment that the web application minted (the     *)
(* fallback simulation, without an order behind it) is stored only after   *)
(* the configured gateway was asked for its key and gave no answer.        *)
SimulatedOnlyCutOff ==
    \A i \in Stored \ Keys :
        payments[i].live /\ world.provider \in {"paymob", "fawry"}
        => \E r \in Requests : fwd[r].cut /\ KeyOf(r) = payments[i].key

(* One Idempotency-Key is charged twice only on Stripe, and only when the  *)
(* gateway's answer was lost or late and the route went to Stripe itself.  *)
SecondOrderOnlyCutOff ==
    \A k \in Keys :
        (\A b \in {"gateway", "session"} :
             charge[[by |-> b, key |-> k]] \notin {"none", "refused"})
        => /\ world.provider = "stripe"
           /\ \E r \in Requests : KeyOf(r) = k /\ fwd[r].cut

==============================================================================
