--------------------------- MODULE HostedCheckout ---------------------------
(***************************************************************************)
(* The web application's own checkout: the form of the sandbox checkout    *)
(* page (MultiRailCheckoutExperience), and the page its simulated payments *)
(* send the customer to (/mock/pay/:id), whose panel settles the payment   *)
(* through the mock webhook.  Amounts are integers; a custom amount is     *)
(* kept in hundredths of the major unit.                                   *)
(***************************************************************************)
EXTENDS Integers, FiniteSets

CONSTANTS
    HcIds,            \* ids of the payments made through the form
    HcMethods,        \* "card", "fawry", "wallet", "mock"
    HcCurrencies,     \* the currencies the customer tries
    HcCustom,         \* custom amounts typed in, in hundredths
    HcSettlements     \* bound on the webhook calls of the panel

ASSUME HostedAssumption ==
    /\ HcMethods \subseteq {"card", "fawry", "wallet", "mock"}
    /\ "none" \notin HcIds

VARIABLES
    order,      \* the form: [method, plan, currency, major, vector]
    sent,       \* the last request of the form and its answer
    ledger,     \* the payments table, by id: a status, or "none"
    panel,      \* the panel of one payment
    hook,       \* the panel's webhook call
    late,       \* a call the panel gave up, still on its way
    declined,   \* the payments the panel asked to decline
    calls,      \* how many calls there were
    visit       \* "form": a customer at the form; "pay": one sent to the panel

panelVars  == <<ledger, panel, hook, late, declined, calls>>
hostedVars == <<order, sent, panelVars, visit>>

CurrenciesByProvider ==
    [paymob |-> <<"EGP", "USD", "EUR", "SAR", "AED">>,
     fawry  |-> <<"EGP">>,
     stripe |-> <<"USD", "EUR", "GBP", "EGP", "SAR", "AED", "JPY">>,
     mock   |-> <<"EGP", "USD", "EUR", "GBP", "SAR", "AED", "KWD", "BHD", "OMR", "JPY">>]

Accepted(provider) == {CurrenciesByProvider[provider][i] : i \in DOMAIN CurrenciesByProvider[provider]}

(* getCurrencyMultiplier *)
Multiplier(c) == CASE c = "JPY" -> 1 [] c \in {"KWD", "BHD", "OMR"} -> 1000 [] OTHER -> 100

PlanAmounts ==
    [pro     |-> [USD |-> 49, EUR |-> 45, GBP |-> 39, EGP |-> 1500, SAR |-> 185, AED |-> 180,
                  KWD |-> 15, BHD |-> 18, OMR |-> 19, JPY |-> 7500],
     starter |-> [USD |-> 19, EUR |-> 18, GBP |-> 15, EGP |-> 600, SAR |-> 70, AED |-> 70,
                  KWD |-> 6, BHD |-> 7, OMR |-> 7, JPY |-> 2900]]

(* Cards go to Paymob in pounds and to Stripe in any other currency. *)
Rail(o) == CASE o.method = "card" -> (IF o.currency = "EGP" THEN "paymob" ELSE "stripe")
             [] o.method = "wallet" -> "paymob"
             [] OTHER -> o.method

(* Mutation: only Fawry's currency is forced. *)
MutEffectiveCurrency(o) == IF Rail(o) = "fawry" THEN "EGP" ELSE o.currency

EffectiveCurrency(o) ==
    IF o.currency \in Accepted(Rail(o)) THEN o.currency ELSE CurrenciesByProvider[Rail(o)][1]

(* Math.round, then at least 1; an emptied field counts as 1. *)
AmountMinorUnits(o) ==
    LET m == Multiplier(EffectiveCurrency(o))
        hundredths == IF o.major = 0 THEN 100 ELSE o.major
        rounded == (hundredths * m + 50) \div 100
    IN IF o.plan = "custom" THEN (IF rounded < 1 THEN 1 ELSE rounded)
       ELSE PlanAmounts[o.plan][EffectiveCurrency(o)] * m

NotSent == [at |-> "none"]
NoPanel == [id |-> "none"]
NoHook  == [at |-> "idle"]

HostedInit ==
    /\ order = [method |-> "card", plan |-> "pro", currency |-> "USD", major |-> 10000, vector |-> "none"]
    /\ sent = NotSent
    /\ visit \in {"form", "pay"}
    /\ IF visit = "form" THEN ledger = [i \in HcIds |-> "none"]
                         ELSE ledger \in [HcIds -> {"none", "pending"}]
    /\ panel = NoPanel /\ hook = NoHook /\ late = NoHook /\ declined = {} /\ calls = 0

-----------------------------------------------------------------------------
(* The form *)

HandleMethodChange(m) ==
    order' = [order EXCEPT !.method = m, !.currency = IF m = "fawry" THEN "EGP" ELSE @]

SelectPlan(p) == order' = [order EXCEPT !.plan = p, !.vector = "none"]

(* The list offers what the rail accepts; Fawry has no list. *)
SelectCurrency(c) ==
    /\ Rail(order) # "fawry" /\ c \in Accepted(Rail(order))
    /\ order' = [order EXCEPT !.currency = c]

TypeAmount(h) ==
    /\ order.plan = "custom"
    /\ order' = [order EXCEPT !.major = h, !.vector = "none"]

VectorAmount(v) == CASE v = "success" -> 10000 [] v = "decline" -> 9999 [] v = "timeout" -> 8888

HandleMockTestVector(v) ==
    /\ order.method = "mock"
    /\ order' = [order EXCEPT !.method = "mock", !.plan = "custom", !.major = VectorAmount(v), !.vector = v]

FormStep ==
    /\ \/ \E m \in HcMethods : HandleMethodChange(m)
       \/ \E p \in {"pro", "starter", "custom"} : SelectPlan(p)
       \/ \E c \in HcCurrencies : SelectCurrency(c)
       \/ \E h \in HcCustom : TypeAmount(h)
       \/ \E v \in {"success", "decline", "timeout"} : HandleMockTestVector(v)
    /\ UNCHANGED <<sent, panelVars>>

(* The form's button is disabled until the answer. *)
Submittable == sent.at # "loading"

(* handleSubmit with the sandbox key: a key of its own each time. *)
HandleSubmit ==
    /\ Submittable
    /\ sent' = [at |-> "loading", provider |-> Rail(order), currency |-> EffectiveCurrency(order),
                amount |-> AmountMinorUnits(order), vector |-> order.vector,
                id |-> "none", code |-> 0]
    /\ UNCHANGED <<order, panelVars>>

(* The route's simulation, as WebPayments has it: only the mock rail looks *)
(* at the amount.  A new payment is listed as pending.                     *)
AnswerOf(s) == CASE s.provider = "mock" /\ s.amount % 100 = 99 -> 402
                 [] s.provider = "mock" /\ s.amount % 100 = 88 -> 504
                 [] OTHER -> 201

RouteAnswers ==
    /\ sent.at = "loading"
    /\ IF AnswerOf(sent) = 201
       THEN \E i \in HcIds : /\ ledger[i] = "none"
                             /\ ledger' = [ledger EXCEPT ![i] = "pending"]
                             /\ sent' = [sent EXCEPT !.at = "result", !.id = i, !.code = 201]
       ELSE /\ sent' = [sent EXCEPT !.at = "error", !.code = AnswerOf(sent)]
            /\ UNCHANGED ledger
    /\ UNCHANGED <<order, panel, hook, late, declined, calls>>

(* The request got no answer: the form shows an error. *)
SubmitFails ==
    /\ sent.at = "loading"
    /\ sent' = [sent EXCEPT !.at = "error", !.code = -1]
    /\ UNCHANGED <<order, panelVars>>

(* "Test another payment" on the card that shows the result. *)
DismissResult ==
    /\ sent.at = "result"
    /\ sent' = NotSent
    /\ UNCHANGED <<order, panelVars>>

-----------------------------------------------------------------------------
(* /mock/pay/:id, also of an id the ledger does not list.  The row is read *)
(* within 600 ms, or the page says pending whatever the row says.          *)
OpenPanel(i) ==
    /\ panel = NoPanel
    /\ \E s \in ({ledger[i]} \ {"none"}) \union {"pending"} :
          panel' = [id |-> i, status |-> s, method |-> "card", card |-> "visa", open3ds |-> FALSE,
                    confirmed |-> FALSE, cutoff |-> FALSE]
    /\ UNCHANGED <<ledger, hook, late, declined, calls>>

PanelShown == panel # NoPanel
Free == PanelShown /\ hook.at = "idle" /\ panel.status # "succeeded"

PickMethod(m) == Free /\ ~panel.open3ds /\ panel' = [panel EXCEPT !.method = m]
PickCard(k)   == Free /\ ~panel.open3ds /\ panel.method = "card" /\ panel' = [panel EXCEPT !.card = k]

(* A card that declines declines whatever the method shown: the number     *)
(* stays in its hidden field.                                              *)
Desired == IF panel.card = "decline" THEN "failed" ELSE "succeeded"

(* The webhook call of the panel. *)
Send ==
    /\ calls < HcSettlements /\ calls' = calls + 1
    /\ hook' = [at |-> "sent", status |-> Desired]
    /\ declined' = IF Desired = "failed" THEN declined \union {panel.id} ELSE declined

(* handlePayment from the button: the challenge first, or the webhook. *)
HandlePayment ==
    /\ Free /\ ~panel.open3ds
    /\ LET is3ds == panel.method = "card" /\ panel.card = "3ds"
       IN IF is3ds /\ ~panel.confirmed
          THEN panel' = [panel EXCEPT !.open3ds = TRUE] /\ UNCHANGED <<hook, declined, calls>>
          ELSE Send /\ UNCHANGED panel

(* The challenge's buttons. *)
Authorize ==
    /\ Free /\ panel.open3ds
    /\ Send
    /\ panel' = [panel EXCEPT !.open3ds = FALSE, !.confirmed = TRUE]

CancelChallenge ==
    /\ Free /\ panel.open3ds
    /\ panel' = [panel EXCEPT !.open3ds = FALSE]

(* "Make another payment" on the receipt: the same payment, unlocked. *)
MakeAnotherPayment(p) == [p EXCEPT !.status = "pending", !.confirmed = FALSE]

Again ==
    /\ PanelShown /\ hook.at = "idle" /\ panel.status = "succeeded"
    /\ panel' = MakeAnotherPayment(panel)

PanelStep ==
    /\ \/ HandlePayment \/ Authorize
       \/ /\ \/ \E m \in {"card", "fawry", "wallet"} : PickMethod(m)
             \/ \E k \in {"visa", "3ds", "decline"} : PickCard(k)
             \/ CancelChallenge \/ Again
          /\ UNCHANGED <<hook, declined, calls>>
    /\ UNCHANGED <<ledger, late>>

Illegal(old, new) == old \in {"succeeded", "failed"} /\ old # new

(* Mutation: the row is written as failed whatever was asked. *)
MutSettled(i, status) == [ledger EXCEPT ![i] = IF @ = "none" THEN @ ELSE "failed"]

(* The row after the mock webhook: a final one keeps its status. *)
Settled(i, status) ==
    [ledger EXCEPT ![i] = IF @ = "none" \/ Illegal(@, status) THEN @ ELSE status]

(* It answers 200 whether or not the database did its work within 800 ms;  *)
(* slow work goes on and may still be done, or fails.                      *)
WebhookServes ==
    /\ hook.at = "sent"
    /\ \/ /\ ledger' = Settled(panel.id, hook.status)
          /\ UNCHANGED <<late, panel>>
       \/ /\ late' \in {late, [at |-> panel.id, status |-> hook.status]}
          /\ panel' = [panel EXCEPT !.cutoff = TRUE]
          /\ UNCHANGED ledger
    /\ hook' = [hook EXCEPT !.at = "acknowledged"]
    /\ UNCHANGED <<declined, calls>>

PanelAnswered ==
    /\ hook.at = "acknowledged"
    /\ panel' = [panel EXCEPT !.status = hook.status]
    /\ hook' = NoHook
    /\ UNCHANGED <<ledger, late, declined, calls>>

(* 2.5 s without an answer, or a broken connection: the panel shows the    *)
(* outcome it asked for.  The webhook may still arrive.                    *)
PanelGivesUp ==
    /\ hook.at = "sent"
    /\ panel' = [panel EXCEPT !.status = hook.status, !.cutoff = TRUE]
    /\ late' \in {late, [at |-> panel.id, status |-> hook.status]}
    /\ hook' = NoHook
    /\ UNCHANGED <<ledger, declined, calls>>

LateWebhook ==
    /\ late # NoHook
    /\ ledger' = Settled(late.at, late.status)
    /\ late' = NoHook
    /\ UNCHANGED <<panel, hook, declined, calls>>

ClosePanel ==
    /\ PanelShown /\ hook.at = "idle"
    /\ panel' = NoPanel
    /\ UNCHANGED <<ledger, hook, late, declined, calls>>

HostedNext ==
    /\ \/ visit = "form" /\ (FormStep \/ HandleSubmit \/ RouteAnswers \/ SubmitFails \/ DismissResult)
       \/ /\ visit = "pay"
          /\ \/ \E i \in HcIds : OpenPanel(i)
             \/ PanelStep \/ WebhookServes \/ PanelAnswered \/ PanelGivesUp
             \/ LateWebhook \/ ClosePanel
          /\ UNCHANGED <<order, sent>>
    /\ UNCHANGED visit

HostedSpec == HostedInit /\ [][HostedNext]_hostedVars

-----------------------------------------------------------------------------
(* Whatever was clicked before, the form never sends a rail a currency it  *)
(* does not take, and the sandbox's decline and timeout vectors do decline *)
(* and time out in every currency of two decimals (in KWD or JPY they      *)
(* quietly succeed).                                                       *)
SentIsPayable ==
    sent.at # "none" =>
        /\ sent.currency \in Accepted(sent.provider)
        /\ sent.provider = "mock" /\ sent.vector # "none" /\ Multiplier(sent.currency) = 100
           /\ sent.code > 0
           => sent.code = CASE sent.vector = "success" -> 201
                            [] sent.vector = "decline" -> 402
                            [] sent.vector = "timeout" -> 504

(* A receipt on the panel stands for a payment the ledger lists as paid,   *)
(* unless the panel was cut off from the ledger, the ledger never had the  *)
(* payment, or a decline was asked for before: then the ledger keeps the   *)
(* failure while the panel shows a success.                                *)
ReceiptIsStored ==
    PanelShown /\ panel.status = "succeeded" =>
        \/ ledger[panel.id] \in {"succeeded", "none"}
        \/ panel.cutoff \/ panel.id \in declined

=============================================================================
