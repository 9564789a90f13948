----------------------------- MODULE DemoServer -----------------------------
(***************************************************************************)
(* The TypeScript server of the checkout demo: POST /api/checkout, GET     *)
(* /api/payment-status/:id and POST /api/simulate-settlement over one      *)
(* in-memory Map.  The handlers interleave at their awaits.  The Map holds *)
(* references: a record stored under several names is one object, and a    *)
(* handler that fetched it before an await sees what others wrote into it. *)
(***************************************************************************)
EXTENDS Naturals, FiniteSets

CONSTANTS
    PayIds,         \* payment ids, random and so interchangeable
    OrderRefs,      \* merchant references typed into the form
    Baskets,        \* what a checkout asks for: [provider, product]
    DirectKeys,     \* the providers whose keys are in the environment
    Checkouts, Statuses, Settlements,   \* the requests in flight, by kind
    MaxRestarts,    \* bound on server restarts
    MaxFaults       \* bound on calls that fail or lose their answer

None == "none"
Final == {"succeeded", "failed"}
Names == PayIds \union OrderRefs

ASSUME ServerAssumption ==
    /\ None \notin Names
    /\ Checkouts \intersect Statuses = {} /\ Checkouts \intersect Settlements = {}

VARIABLES
    pays,      \* every payment there is, by id: at the gateway, at a provider, or simulated
    heap,      \* the newest record object of each payment_id
    store,     \* transactions: name -> the payment_id of the object it refers to
    checkouts, statuses, settlements,   \* the handlers, by request
    restarts, faults   \* how many restarts and failing calls are still to come

serverVars == <<pays, heap, store, checkouts, statuses, settlements, restarts, faults>>

(* truth is what became of the payment at the provider, and None while the *)
(* gateway's own call to it runs; sync, that a settlement found at Stripe  *)
(* is on its way to the mock webhook.  A record's next step is left out:   *)
(* the page reads it in the answer to the checkout only.                   *)
NoPay == [kind |-> None, ref |-> None, basket |-> None, status |-> None,
          action |-> None, truth |-> None, sync |-> FALSE]
NoRec == [pay |-> None, ref |-> None, status |-> None]
Idle  == [at |-> "idle"]

ServerInit ==
    /\ pays = [p \in PayIds |-> NoPay]
    /\ heap = [n \in Names |-> NoRec]
    /\ store = [n \in Names |-> None]
    /\ checkouts = [c \in Checkouts |-> Idle]
    /\ statuses = [q \in Statuses |-> Idle]
    /\ settlements = [s \in Settlements |-> Idle]
    /\ restarts \in 0..MaxRestarts /\ faults \in 0..MaxFaults

(* The object a status inquiry fetched: still the one in the store, or one *)
(* replaced since, which nothing changes any more.                         *)
Cached(q) == IF statuses[q].holds # None THEN heap[statuses[q].holds] ELSE statuses[q].copy
Replaced(x, ss) ==
    [q \in Statuses |-> IF ss[q].at = "asking" /\ ss[q].holds = x
                        THEN [ss[q] EXCEPT !.holds = None, !.copy = heap[x]] ELSE ss[q]]

(* A new object, stored under every name in names. *)
PutUnder(names, new, ss) ==
    /\ store' = [n \in Names |-> IF n \in names THEN new.pay ELSE store[n]]
    /\ heap' = [heap EXCEPT ![new.pay] = new]
    /\ statuses' = Replaced(new.pay, ss)

-----------------------------------------------------------------------------
(* POST /api/checkout *)

CheckoutBegins(c, ref, basket) ==
    /\ checkouts[c].at = "idle"
    /\ checkouts' = [checkouts EXCEPT ![c] =
          [at |-> "gateway", ref |-> ref, basket |-> basket, pay |-> None,
           status |-> None, action |-> None]]

(* A kiosk code to pay at, or a page to be sent to. *)
ActionOf(provider) == IF provider = "fawry" THEN "code" ELSE "url"

GatewayPays == {p \in PayIds : pays[p].kind = "gateway"}
UnusedIds   == {p \in PayIds : pays[p].kind = None}
NewId       == CHOOSE p \in UnusedIds : TRUE
SameKey(c)  == {p \in GatewayPays : pays[p].ref = checkouts[c].ref}

(* The first attempt asks the gateway under the merchant reference as key. *)
(* The gateway inserts the row and calls the provider; the row is pending  *)
(* without a next step until that call is recorded.                        *)
GatewayBegins(c) ==
    /\ checkouts[c].at = "gateway" /\ SameKey(c) = {} /\ UnusedIds # {}
    /\ pays' = [pays EXCEPT ![NewId] =
          [kind |-> "gateway", ref |-> checkouts[c].ref, basket |-> checkouts[c].basket,
           status |-> "pending", action |-> None, truth |-> None, sync |-> FALSE]]
    /\ checkouts' = [checkouts EXCEPT ![c].at = "creating", ![c].pay = NewId]
    /\ UNCHANGED <<heap, store, statuses, settlements, restarts, faults>>

InFlight(p) == p \in GatewayPays /\ pays[p].truth = None

(* The provider made the order, did not answer, or refused. *)
Outcomes(provider) ==
    {[status |-> "pending", action |-> ActionOf(provider), truth |-> "open"],
     [status |-> "unknown", action |-> None, truth |-> "open"],
     [status |-> "failed", action |-> None, truth |-> "failed"]}

Recorded(p, o) ==
    [pays EXCEPT ![p].status = o.status, ![p].action = o.action, ![p].truth = o.truth]

(* The call is recorded, whatever a mock webhook wrote into the row since, *)
(* and answered; a refusal is an error to the SDK.                         *)
GatewayAnswers(c) ==
    /\ checkouts[c].at = "creating" /\ InFlight(checkouts[c].pay)
    /\ \E o \in Outcomes(checkouts[c].basket.provider) :
          /\ pays' = Recorded(checkouts[c].pay, o)
          /\ checkouts' = [checkouts EXCEPT ![c].at = IF o.status = "failed" THEN "fallback" ELSE "replied",
                              ![c].status = o.status, ![c].action = o.action]
    /\ UNCHANGED <<heap, store, statuses, settlements, restarts, faults>>

(* The gateway goes on for a caller who no longer waits. *)
GatewayFinishes(p) ==
    /\ InFlight(p)
    /\ \A c \in Checkouts : ~(checkouts[c].at = "creating" /\ checkouts[c].pay = p)
    /\ \E o \in Outcomes(pays[p].basket.provider) : pays' = Recorded(p, o)
    /\ UNCHANGED <<heap, store, checkouts, statuses, settlements, restarts, faults>>

(* The same request again gets the row as it is, in flight or not. *)
GatewayReplays(c) ==
    /\ checkouts[c].at = "gateway"
    /\ \E p \in SameKey(c) :
          /\ pays[p].basket = checkouts[c].basket
          /\ checkouts' = [checkouts EXCEPT ![c].at = "replied", ![c].pay = p,
                              ![c].status = pays[p].status, ![c].action = pays[p].action]
    /\ UNCHANGED <<pays, heap, store, statuses, settlements, restarts, faults>>

(* The SDK call throws: a conflict, or a call that fails or is not heard   *)
(* of again, which the SDK may also send once more.                        *)
GatewayThrows(c) ==
    /\ \/ /\ checkouts[c].at = "gateway"
          /\ \E p \in SameKey(c) : pays[p].basket # checkouts[c].basket
          /\ checkouts' = [checkouts EXCEPT ![c].at = "fallback"]
          /\ UNCHANGED faults
       \/ /\ checkouts[c].at \in {"gateway", "creating"}
          /\ faults > 0 /\ faults' = faults - 1
          /\ \E at \in {"fallback", "gateway"} : checkouts' = [checkouts EXCEPT ![c].at = at]
    /\ UNCHANGED <<pays, heap, store, statuses, settlements, restarts>>

(* Mutation: a kiosk code is not taken for a next step. *)
MutUsable(c) == checkouts[c].action = "url" \/ checkouts[c].status = "succeeded"

(* A gateway payment is taken only with a next step or already paid. *)
Usable(c) == checkouts[c].action # None \/ checkouts[c].status = "succeeded"

Rejected(c) ==
    /\ checkouts[c].at = "replied" /\ ~Usable(c)
    /\ checkouts' = [checkouts EXCEPT ![c].at = "fallback"]
    /\ UNCHANGED <<pays, heap, store, statuses, settlements, restarts, faults>>

(* An order of the server's own: at the provider when its key is there and *)
(* the call works, otherwise simulated.  Neither knows an idempotency key. *)
OwnOrder(c, kind, action) ==
    /\ UnusedIds # {}
    /\ pays' = [pays EXCEPT ![NewId] =
          [kind |-> kind, ref |-> checkouts[c].ref, basket |-> checkouts[c].basket,
           status |-> "pending", action |-> action, truth |-> "open", sync |-> FALSE]]
    /\ checkouts' = [checkouts EXCEPT ![c].at = "made", ![c].pay = NewId,
                        ![c].status = "pending", ![c].action = action]

(* What each provider's own API answers with: a page, or a kiosk code. *)
TryDirectPaymob == [provider |-> "paymob", action |-> "url"]
TryDirectStripe == [provider |-> "stripe", action |-> "url"]
TryDirectFawry  == [provider |-> "fawry", action |-> "code"]

Configured(provider) == provider \in DirectKeys

(* A call that fails may have left an order at the provider; nobody is     *)
(* ever shown its page, so it is left out.                                 *)
TryDirect(c) ==
    /\ checkouts[c].at = "fallback"
    /\ Configured(checkouts[c].basket.provider)
    /\ \/ /\ \E d \in {TryDirectPaymob, TryDirectStripe, TryDirectFawry} :
                d.provider = checkouts[c].basket.provider /\ OwnOrder(c, "direct", d.action)
          /\ UNCHANGED faults
       \/ /\ faults > 0 /\ faults' = faults - 1
          /\ checkouts' = [checkouts EXCEPT ![c].at = "sandbox"]
          /\ UNCHANGED pays
    /\ UNCHANGED <<heap, store, statuses, settlements, restarts>>

(* The simulated payment of the mock rail has no next step. *)
SandboxAction(provider) == IF provider = "mock" THEN None ELSE ActionOf(provider)

GenerateSandboxPayment(c) ==
    /\ \/ checkouts[c].at = "sandbox"
       \/ checkouts[c].at = "fallback" /\ ~Configured(checkouts[c].basket.provider)
    /\ OwnOrder(c, "sandbox", SandboxAction(checkouts[c].basket.provider))
    /\ UNCHANGED <<heap, store, statuses, settlements, restarts, faults>>

(* Mutation: a payment is stored under its id only. *)
MutNamesOf(p, ref) == {p}

(* The names a payment is stored under.  Its provider reference, under     *)
(* which nothing looks, is left out.                                       *)
NamesOf(p, ref) == {p} \union ({ref} \ {None})

SavePayment(c) ==
    /\ \/ checkouts[c].at = "made"
       \/ checkouts[c].at = "replied" /\ Usable(c)
    /\ PutUnder(NamesOf(checkouts[c].pay, checkouts[c].ref),
                [pay |-> checkouts[c].pay, ref |-> checkouts[c].ref,
                 status |-> checkouts[c].status], statuses)
    /\ checkouts' = [checkouts EXCEPT ![c].at = "answered"]
    /\ UNCHANGED <<pays, settlements, restarts, faults>>

-----------------------------------------------------------------------------
(* GET /api/payment-status/:id *)

(* Mutation: a settled record is asked about again. *)
MutAnswersFromStore(n) == store[n] # None /\ heap[store[n]].status = "failed"

(* Mutation: any record is the answer. *)
MutAnswersAlways(n) == store[n] # None

AnswersFromStore(n) == store[n] # None /\ heap[store[n]].status \in Final

(* A record already final is the answer; otherwise the gateway is asked by *)
(* the id in the record, or by the name itself.                            *)
StatusBegins(q, n) ==
    /\ statuses[q].at = "idle"
    /\ statuses' = [statuses EXCEPT ![q] =
          [at |-> IF AnswersFromStore(n) THEN "answered" ELSE "asking", name |-> n,
           holds |-> IF AnswersFromStore(n) THEN None ELSE store[n], copy |-> NoRec, pay |-> None,
           status |-> IF AnswersFromStore(n) THEN heap[store[n]].status ELSE None,
           began |-> IF store[n] = None THEN None ELSE heap[store[n]].status]]

QueryId(q) == IF Cached(q) # NoRec THEN Cached(q).pay ELSE statuses[q].name

(* The gateway finds a payment by id or by merchant reference. *)
FoundBy(n) == {p \in GatewayPays : p = n \/ pays[p].ref = n}

(* A pending Stripe payment with a session is looked up at Stripe when the *)
(* key is there: a session that is complete counts as paid, and is passed  *)
(* on to the mock webhook.                                                 *)
LooksUp(p) ==
    /\ pays[p].status = "pending" /\ pays[p].action # None
    /\ pays[p].basket.provider = "stripe" /\ Configured("stripe")
SessionSays(truth) == IF truth = "failed" THEN "failed" ELSE "succeeded"

(* The gateway's answer, taken when the gateway gives it and used later. *)
GatewayTellsStatus(q) ==
    /\ statuses[q].at = "asking"
    /\ \E p \in FoundBy(QueryId(q)), looked \in BOOLEAN :
          /\ looked => LooksUp(p) /\ pays[p].truth # "open"
          /\ LET s == IF looked THEN SessionSays(pays[p].truth) ELSE pays[p].status
             IN /\ statuses' = [statuses EXCEPT ![q].at = "told", ![q].pay = p, ![q].status = s,
                                                ![q].holds = None, ![q].copy = NoRec]
                /\ pays' = [pays EXCEPT ![p].sync = @ \/ (looked /\ s = "succeeded")]
    /\ UNCHANGED <<heap, store, checkouts, settlements, restarts, faults>>

StatusStores(q) ==
    /\ statuses[q].at = "told"
    /\ LET p == statuses[q].pay
       IN PutUnder(NamesOf(p, pays[p].ref),
                   [pay |-> p, ref |-> pays[p].ref, status |-> statuses[q].status],
                   [statuses EXCEPT ![q].at = "answered"])
    /\ UNCHANGED <<pays, checkouts, settlements, restarts, faults>>

(* The gateway knows no such payment, or the call fails: the cached object *)
(* as it is by now, or 404.                                                *)
StatusFallsBack(q) ==
    /\ statuses[q].at = "asking"
    /\ \/ FoundBy(QueryId(q)) = {} /\ UNCHANGED faults
       \/ faults > 0 /\ faults' = faults - 1
    /\ statuses' = [statuses EXCEPT ![q].at = "answered", ![q].holds = None, ![q].copy = NoRec,
                                    ![q].status = Cached(q).status]
    /\ UNCHANGED <<pays, heap, store, checkouts, settlements, restarts>>

-----------------------------------------------------------------------------
(* POST /api/simulate-settlement: the record found is changed in place, an *)
(* unknown name gets a record of its own.  The merchant reference to pass  *)
(* on is the record's, or the name.                                        *)
SettlementBegins(s, n) ==
    /\ settlements[s].at = "idle"
    /\ IF store[n] # None
       THEN /\ heap' = [heap EXCEPT ![store[n]].status = "succeeded"]
            /\ UNCHANGED <<store, statuses>>
       ELSE PutUnder({n}, [pay |-> n, ref |-> None, status |-> "succeeded"], statuses)
    /\ settlements' = [settlements EXCEPT ![s] =
          [at |-> "forwarding",
           ref |-> IF store[n] # None /\ heap[store[n]].ref # None THEN heap[store[n]].ref ELSE n]]

(* The mock webhook settles what is not settled and has the reference; its *)
(* errors, or its absence at the configured base URL, are ignored.         *)
MarkPaid(p) == [pays EXCEPT ![p].status = "succeeded", ![p].action = None]

SettlementForwarded(s) ==
    /\ settlements[s].at = "forwarding"
    /\ \/ UNCHANGED pays
       \/ \E p \in GatewayPays : /\ pays[p].ref = settlements[s].ref
                                 /\ pays[p].status \notin Final
                                 /\ pays' = MarkPaid(p)
    /\ settlements' = [settlements EXCEPT ![s].at = "answered"]
    /\ UNCHANGED <<heap, store, checkouts, statuses, restarts, faults>>

(* The settlement a status inquiry passed on and did not wait for. *)
SyncServed(p) ==
    /\ p \in GatewayPays /\ pays[p].sync
    /\ pays' = [(IF pays[p].status \in Final THEN pays ELSE MarkPaid(p)) EXCEPT ![p].sync = FALSE]
    /\ UNCHANGED <<heap, store, checkouts, statuses, settlements, restarts, faults>>

-----------------------------------------------------------------------------
(* The customer pays or gives up at the provider; a session may be through *)
(* before the money is.  The gateway hears of the end.  What becomes of an *)
(* order of its own the server never learns.                               *)
ProviderDecides(p) ==
    /\ p \in GatewayPays /\ pays[p].truth \in {"open", "complete"}
    /\ \E t \in Final \union {"complete"} :
          /\ t = "complete" => pays[p].basket.provider = "stripe"
          /\ pays' = [pays EXCEPT ![p].truth = t]
    /\ UNCHANGED <<heap, store, checkouts, statuses, settlements, restarts, faults>>

GatewayLearns(p) ==
    /\ p \in GatewayPays /\ pays[p].status \notin Final /\ pays[p].truth \in Final
    /\ pays' = [pays EXCEPT ![p].status = pays[p].truth, ![p].action = None]
    /\ UNCHANGED <<heap, store, checkouts, statuses, settlements, restarts, faults>>

(* The store is in memory: a restart loses it and every request in flight. *)
Restart ==
    /\ restarts > 0 /\ restarts' = restarts - 1
    /\ store' = [n \in Names |-> None]
    /\ heap' = [n \in Names |-> NoRec]
    /\ checkouts' = [c \in Checkouts |-> IF checkouts[c].at = "idle" THEN Idle ELSE [checkouts[c] EXCEPT !.at = "dead"]]
    /\ statuses' = [q \in Statuses |-> IF statuses[q].at = "idle" THEN Idle
                                       ELSE [statuses[q] EXCEPT !.at = "dead", !.holds = None, !.copy = NoRec]]
    /\ settlements' = [s \in Settlements |-> IF settlements[s].at = "idle" THEN Idle
                                             ELSE [settlements[s] EXCEPT !.at = "dead"]]
    /\ UNCHANGED <<pays, faults>>

ServerNext ==
    \/ \E c \in Checkouts : \/ GatewayBegins(c) \/ GatewayAnswers(c)
                            \/ GatewayReplays(c) \/ GatewayThrows(c) \/ Rejected(c)
                            \/ TryDirect(c) \/ GenerateSandboxPayment(c) \/ SavePayment(c)
    \/ \E q \in Statuses : GatewayTellsStatus(q) \/ StatusStores(q) \/ StatusFallsBack(q)
    \/ \E s \in Settlements : SettlementForwarded(s)
    \/ \E p \in PayIds : \/ GatewayFinishes(p) \/ SyncServed(p)
                         \/ ProviderDecides(p) \/ GatewayLearns(p)
    \/ Restart

-----------------------------------------------------------------------------
(* A name whose record was final loses that status only to a new checkout, *)
(* to a restart, or to a status inquiry that found no final record when it *)
(* began and was overtaken; one begun after a settlement answers from the  *)
(* store and undoes nothing.                                               *)
FinalUndoneOnlyByOverlap ==
    [][\A n \in Names :
          /\ store[n] # None /\ heap[store[n]].status \in Final
          /\ ~(store'[n] # None /\ heap'[store'[n]].status \in Final)
          => \/ restarts' # restarts
             \/ \E c \in Checkouts : checkouts[c].at # "answered" /\ checkouts'[c].at = "answered"
             \/ \E q \in Statuses : /\ statuses[q].at = "told" /\ statuses'[q].at = "answered"
                                    /\ statuses[q].began \notin Final]_serverVars

=============================================================================
