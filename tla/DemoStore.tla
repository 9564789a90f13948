------------------------------ MODULE DemoStore ------------------------------
(***************************************************************************)
(* The checkout demo as a whole: the page in a browser, the TypeScript     *)
(* server behind it, the gateway and the providers behind the server.      *)
(* Requests the page gave up run on at the server; answers to a page that  *)
(* was left go nowhere.                                                    *)
(***************************************************************************)
EXTENDS DemoPage

CONSTANTS Uses   \* what a customer does: browse the form or check out, and the first method and reference

ASSUME UsesAssumption == \A u \in Uses : u.ref \in OrderRefs

VARIABLE use

storeVars == <<serverVars, pageVars, use>>

StoreInit ==
    /\ ServerInit
    /\ use \in Uses
    /\ restarts = use.restarts /\ faults = use.faults
    /\ \E m \in use.methods : form = WithMethod(NewForm("typescript", use.ref), m)
    /\ page = NewPage /\ waits = {}

Basket == [provider |-> form.provider, product |-> form.product]
Here   == page.at = "open" /\ form.backend = "typescript"

(* handleCheckout: the button is disabled until the answer. *)
Submit(c) ==
    /\ Here /\ ~use.browses /\ waits \intersect Checkouts = {}
    /\ Basket \in Baskets
    /\ CheckoutBegins(c, form.ref, Basket)
    /\ waits' = waits \union {c}
    /\ UNCHANGED <<pays, heap, store, statuses, settlements, restarts, faults, form, page, use>>

CheckoutAnswered(c) ==
    /\ checkouts[c].at \in {"answered", "dead"}
    /\ page' = IF c \in waits /\ checkouts[c].at = "answered"
               THEN ShowCreated(page, checkouts[c].pay, checkouts[c].status, checkouts[c].action)
               ELSE page
    /\ waits' = waits \ {c}
    /\ checkouts' = [checkouts EXCEPT ![c] = Idle]
    /\ UNCHANGED <<pays, heap, store, statuses, settlements, restarts, faults, form, use>>

(* The poller's tick, every 3 s whether or not the last one was answered.  *)
(* The payment asked for is the one on the panel now.                      *)
PollTick(q) ==
    /\ Here /\ page.polling /\ page.current # None
    /\ StatusBegins(q, page.current)
    /\ waits' = waits \union {q}
    /\ UNCHANGED <<pays, heap, store, checkouts, settlements, restarts, faults, form, page, use>>

(* 200 shows the status, an error body only resets the count, no answer at *)
(* all counts.                                                             *)
PollAnswered(q) ==
    /\ statuses[q].at \in {"answered", "dead"}
    /\ page' = IF q \notin waits THEN page
               ELSE IF statuses[q].at = "dead" THEN CountError(page)
               ELSE IF statuses[q].status = None THEN [page EXCEPT !.errors = 0]
               ELSE ShowStatus(page, statuses[q].status)
    /\ waits' = waits \ {q}
    /\ statuses' = [statuses EXCEPT ![q] = Idle]
    /\ UNCHANGED <<pays, heap, store, checkouts, settlements, restarts, faults, form, use>>

(* The browser gets no answer, though the server goes on. *)
PollLost(q) ==
    /\ q \in waits \intersect Statuses
    /\ faults > 0 /\ faults' = faults - 1
    /\ page' = CountError(page)
    /\ waits' = waits \ {q}
    /\ UNCHANGED <<pays, heap, store, checkouts, statuses, settlements, restarts, form, use>>

(* simulateSettlement: its button is disabled until the answer. *)
Settle(s) ==
    /\ Here /\ use.settles /\ page.current # None /\ waits \intersect Settlements = {}
    /\ SettlementBegins(s, page.current)
    /\ waits' = waits \union {s}
    /\ UNCHANGED <<pays, checkouts, restarts, faults, form, page, use>>

SettlementAnswered(s) ==
    /\ settlements[s].at \in {"answered", "dead"}
    /\ page' = IF s \in waits /\ settlements[s].at = "answered" THEN ShowSettled(page) ELSE page
    /\ waits' = waits \ {s}
    /\ settlements' = [settlements EXCEPT ![s] = Idle]
    /\ UNCHANGED <<pays, heap, store, checkouts, statuses, restarts, faults, form, use>>

(* The page goes to the provider 700 ms after an answer with a URL; the    *)
(* return URL names the merchant reference.                                *)
Redirect ==
    /\ page.at = "open" /\ page.shows = "url"
    /\ page' = [NewPage EXCEPT !.at = "away", !.back = form.ref]
    /\ waits' = {}
    /\ UNCHANGED <<serverVars, form, use>>

(* Each page load makes up a reference; OrderRefs bounds how many. *)
UnusedRefs == {r \in OrderRefs : /\ r # page.back /\ \A p \in PayIds : pays[p].ref # r
                                 /\ \A c \in Checkouts : checkouts[c] # Idle => checkouts[c].ref # r}

(* checkReturnRedirect: a fresh page on that reference, asked for once and *)
(* not polled.                                                             *)
ReturnFrom(q) ==
    /\ page.at = "away" /\ form.backend = "typescript"
    /\ StatusBegins(q, page.back)
    /\ page' = [NewPage EXCEPT !.current = page.back]
    /\ \E r \in UnusedRefs : form' = NewForm("typescript", r)
    /\ waits' = {q}
    /\ UNCHANGED <<pays, heap, store, checkouts, settlements, restarts, faults, use>>

(* The cancel URL: a fresh page that asks nothing. *)
ReturnCancelled ==
    /\ page.at = "away" /\ form.backend = "typescript"
    /\ page' = NewPage
    /\ \E r \in UnusedRefs : form' = NewForm("typescript", r)
    /\ waits' = {}
    /\ UNCHANGED <<serverVars, use>>

(* A browsing customer uses every control of the form, one who checks out  *)
(* only the methods of use: what is in flight does not lock the form.      *)
ChangeForm ==
    /\ \/ use.browses /\ FormNext
       \/ /\ ~use.browses /\ page.at = "open"
          /\ \E m \in use.methods : SelectPaymentMethod(m)
          /\ UNCHANGED <<page, waits>>
    /\ UNCHANGED <<serverVars, use>>

PageNext ==
    \/ \E c \in Checkouts : Submit(c) \/ CheckoutAnswered(c)
    \/ \E q \in Statuses : PollTick(q) \/ PollAnswered(q) \/ PollLost(q) \/ ReturnFrom(q)
    \/ \E s \in Settlements : Settle(s) \/ SettlementAnswered(s)
    \/ Redirect \/ ReturnCancelled
    \/ ChangeForm

StoreNext ==
    \/ ServerNext /\ UNCHANGED <<pageVars, use>>
    \/ PageNext

(* The event loop runs what is ready, calls return or fail, and the timer  *)
(* goes on while it is set.  Nothing is assumed of the customer.           *)
StoreFairness ==
    /\ \A q \in Statuses : /\ WF_storeVars(PollTick(q))
                           /\ WF_storeVars(PollAnswered(q))
                           /\ WF_storeVars(/\ GatewayTellsStatus(q) \/ StatusStores(q) \/ StatusFallsBack(q)
                                           /\ UNCHANGED <<pageVars, use>>)

StoreSpec == StoreInit /\ [][StoreNext]_storeVars /\ StoreFairness

-----------------------------------------------------------------------------
(* The payment on the page is one the server finds: under its id, or under *)
(* the merchant reference after a return, there is a record of a payment   *)
(* of that name, unless the server lost its memory since.                  *)
ShownIsFound ==
    page.current # None /\ restarts = use.restarts =>
        /\ store[page.current] # None
        /\ LET r == heap[store[page.current]] IN r.pay = page.current \/ r.ref = page.current

Undisturbed == faults = use.faults /\ restarts = use.restarts

(* Without a failing call or a restart the customer is never given a       *)
(* second order beside an open one: an order of the server's own is made   *)
(* for a reference and basket only when the gateway's payment for them, if *)
(* any, has no next step, though the gateway answers a repeated request    *)
(* with whatever row it has.  A retry or a fallback after a fault may.     *)
OneOpenOrder ==
    Undisturbed =>
        \A p, g \in PayIds :
            /\ pays[p].kind \in {"direct", "sandbox"} /\ pays[g].kind = "gateway"
            /\ pays[p].ref = pays[g].ref /\ pays[p].basket = pays[g].basket
            => pays[g].action = None

(* No call fails any more, and the page waits for no request a restart     *)
(* dropped.                                                                *)
Calm == faults = 0 /\ restarts = 0 /\ \A q \in waits \intersect Statuses : statuses[q].at # "dead"

(* Once calls stop failing, a payment the gateway has settled and a poller *)
(* is running for gets a final badge, unless the page turns to another     *)
(* payment: the poller does not pause, and no record left in the store     *)
(* hides the gateway's answer for ever.                                    *)
SettledIsShown ==
    \A p \in PayIds :
        (/\ Calm /\ page.polling /\ page.current = p
         /\ pays[p].kind = "gateway" /\ ~InFlight(p) /\ pays[p].status \in Final)
            ~> (page.badge \in Final \/ page.current # p)

=============================================================================
