------------------------- MODULE Storefront_proofs ---------------------------
(***************************************************************************)
(* The invariants of the two checkouts a customer meets: the form and the  *)
(* mock payment panel of the web application, for any payments, currencies *)
(* and amounts; and the demo shop, page and server together, for any       *)
(* number of payments, requests, faults and restarts.                      *)
(***************************************************************************)
EXTENDS DemoStore, HostedCheckout, TLAPS

(***************************************************************************)
(*                       The form of the web application                   *)
(***************************************************************************)
Rails == {"paymob", "fawry", "stripe", "mock"}
Vectors == {"success", "decline", "timeout"}

OrderShape(o) ==
    o = [method |-> o.method, plan |-> o.plan, currency |-> o.currency, major |-> o.major,
         vector |-> o.vector]

SentShape(s) ==
    s = [at |-> s.at, provider |-> s.provider, currency |-> s.currency, amount |-> s.amount,
         vector |-> s.vector, id |-> s.id, code |-> s.code]

(* A test vector stays selected only with its own amount. *)
OrderOk(o) ==
    /\ OrderShape(o)
    /\ o.method \in {"card", "fawry", "wallet", "mock"}
    /\ o.vector \in Vectors \cup {"none"}
    /\ o.vector # "none" => o.plan = "custom" /\ o.major = VectorAmount(o.vector)

(* What was sent is payable, carries the amount of its vector, and was     *)
(* answered, if at all, as the route answers it.                           *)
SentOk(s) ==
    /\ SentShape(s)
    /\ s.provider \in Rails /\ s.currency \in Accepted(s.provider)
    /\ s.vector \in Vectors \cup {"none"}
    /\ s.vector # "none" /\ Multiplier(s.currency) = 100 => s.amount = VectorAmount(s.vector)
    /\ s.code \in {0, -1} \/ s.code = AnswerOf(s)

FormInv == OrderOk(order) /\ (sent = NotSent \/ SentOk(sent))

(* Every method has a rail. *)
LEMMA RailIs == ASSUME NEW o, OrderOk(o) PROVE Rail(o) \in Rails
BY DEF OrderOk, Rail, Rails

(* Every rail has a first currency, and the form falls back on it. *)
LEMMA EffectiveIsAccepted ==
    ASSUME NEW o, Rail(o) \in Rails
    PROVE  EffectiveCurrency(o) \in Accepted(Rail(o))
<1>1. /\ 1 \in DOMAIN CurrenciesByProvider["paymob"] /\ 1 \in DOMAIN CurrenciesByProvider["fawry"]
      /\ 1 \in DOMAIN CurrenciesByProvider["stripe"] /\ 1 \in DOMAIN CurrenciesByProvider["mock"]
  BY DEF CurrenciesByProvider
<1>2. 1 \in DOMAIN CurrenciesByProvider[Rail(o)]
  BY <1>1 DEF Rails
<1>3. CurrenciesByProvider[Rail(o)][1] \in Accepted(Rail(o))
  BY <1>2 DEF Accepted
<1> QED
  BY <1>3 DEF EffectiveCurrency

(* The amounts of the vectors survive the rounding, and are what the mock  *)
(* rail looks for.                                                         *)
LEMMA VectorSurvives ==
    ASSUME NEW o, OrderOk(o), o.vector # "none", Multiplier(EffectiveCurrency(o)) = 100
    PROVE  AmountMinorUnits(o) = VectorAmount(o.vector)
<1>1. o.plan = "custom" /\ o.major = VectorAmount(o.vector) /\ o.vector \in Vectors
  BY DEF OrderOk
<1>2. o.major \in {10000, 9999, 8888}
  BY <1>1 DEF VectorAmount, Vectors
<1>3. /\ (10000 * 100 + 50) \div 100 = 10000 /\ (9999 * 100 + 50) \div 100 = 9999
      /\ (8888 * 100 + 50) \div 100 = 8888
  OBVIOUS
<1> QED
  BY <1>1, <1>2, <1>3 DEF AmountMinorUnits

(* How the mock rail answers a vector's amount. *)
LEMMA VectorIsAnswered ==
    ASSUME NEW s, s.provider = "mock", s.vector \in Vectors, s.amount = VectorAmount(s.vector)
    PROVE  AnswerOf(s) = CASE s.vector = "success" -> 201
                           [] s.vector = "decline" -> 402
                           [] s.vector = "timeout" -> 504
<1>1. 10000 % 100 = 0 /\ 9999 % 100 = 99 /\ 8888 % 100 = 88
  OBVIOUS
<1>2. CASE s.vector = "success"
  BY <1>1, <1>2 DEF AnswerOf, VectorAmount
<1>3. CASE s.vector = "decline"
  BY <1>1, <1>3 DEF AnswerOf, VectorAmount
<1>4. CASE s.vector = "timeout"
  BY <1>1, <1>4 DEF AnswerOf, VectorAmount
<1> QED
  BY <1>2, <1>3, <1>4 DEF Vectors

(* No handler of the form parts a vector from its amount. *)
LEMMA FormStepKeeps == ASSUME FormInv, FormStep PROVE FormInv'
<1>1. OrderOk(order) /\ OrderShape(order) /\ sent' = sent
  BY DEF FormInv, OrderOk, FormStep
<1>2. OrderOk(order')
  <2>1. CASE \E m \in HcMethods : HandleMethodChange(m)
    BY <1>1, <2>1, HostedAssumption DEF HandleMethodChange, OrderOk, OrderShape
  <2>2. CASE \E p \in {"pro", "starter", "custom"} : SelectPlan(p)
    BY <1>1, <2>2 DEF SelectPlan, OrderOk, OrderShape
  <2>3. CASE \E c \in HcCurrencies : SelectCurrency(c)
    BY <1>1, <2>3 DEF SelectCurrency, OrderOk, OrderShape
  <2>4. CASE \E h \in HcCustom : TypeAmount(h)
    BY <1>1, <2>4 DEF TypeAmount, OrderOk, OrderShape
  <2>5. CASE \E v \in Vectors : HandleMockTestVector(v)
    <3>1. PICK v \in Vectors : HandleMockTestVector(v)
      BY <2>5
    <3>2. order' = [order EXCEPT !.method = "mock", !.plan = "custom", !.major = VectorAmount(v),
                                 !.vector = v]
      BY <3>1 DEF HandleMockTestVector
    <3>3. /\ order'.method = "mock" /\ order'.plan = "custom" /\ order'.vector = v
          /\ order'.major = VectorAmount(v) /\ OrderShape(order')
      BY <1>1, <3>2 DEF OrderShape
    <3> QED
      BY <3>3 DEF OrderOk
  <2> QED
    BY <2>1, <2>2, <2>3, <2>4, <2>5 DEF FormStep, Vectors
<1> QED
  BY <1>1, <1>2 DEF FormInv

(* The request carries the rail, a currency it takes and the amount. *)
LEMMA HandleSubmitKeeps == ASSUME FormInv, HandleSubmit PROVE FormInv'
<1>1. OrderOk(order) /\ order' = order
  BY DEF FormInv, HandleSubmit
<1> DEFINE r == [at |-> "loading", provider |-> Rail(order), currency |-> EffectiveCurrency(order),
                 amount |-> AmountMinorUnits(order), vector |-> order.vector,
                 id |-> "none", code |-> 0]
<1>2. sent' = r
  BY DEF HandleSubmit
<1>3. Rail(order) \in Rails /\ EffectiveCurrency(order) \in Accepted(Rail(order))
  BY <1>1, RailIs, EffectiveIsAccepted
<1>4. order.vector \in Vectors \cup {"none"}
  BY <1>1 DEF OrderOk
<1>5. order.vector # "none" /\ Multiplier(EffectiveCurrency(order)) = 100
      => AmountMinorUnits(order) = VectorAmount(order.vector)
  BY <1>1, VectorSurvives
<1>6. SentOk(r)
  BY <1>3, <1>4, <1>5 DEF SentOk, SentShape
<1> QED
  BY <1>1, <1>2, <1>6 DEF FormInv

(* An answer, or none, changes nothing of what was asked. *)
LEMMA AnswersKeep ==
    ASSUME FormInv, RouteAnswers \/ SubmitFails \/ DismissResult
    PROVE  FormInv'
<1>1. sent.at # "none" /\ order' = order
  BY DEF RouteAnswers, SubmitFails, DismissResult
<1>2. sent # NotSent
  BY <1>1 DEF NotSent
<1>3. SentOk(sent) /\ SentShape(sent) /\ OrderOk(order)
  BY <1>2 DEF FormInv, SentOk
<1>4. ASSUME NEW a, NEW i, NEW k, k = -1 \/ k = AnswerOf(sent),
             sent' = [at |-> a, provider |-> sent.provider, currency |-> sent.currency,
                      amount |-> sent.amount, vector |-> sent.vector, id |-> i, code |-> k]
      PROVE  SentOk(sent')
  <2>1. /\ sent'.provider = sent.provider /\ sent'.currency = sent.currency
        /\ sent'.amount = sent.amount /\ sent'.vector = sent.vector /\ sent'.code = k
        /\ SentShape(sent')
    BY <1>4 DEF SentShape
  <2>2. AnswerOf(sent') = AnswerOf(sent)
    BY <2>1 DEF AnswerOf
  <2> QED
    BY <1>3, <1>4, <2>1, <2>2 DEF SentOk
<1>5. CASE RouteAnswers
  <2>1. CASE AnswerOf(sent) = 201
    <3>1. PICK i \in HcIds : sent' = [sent EXCEPT !.at = "result", !.id = i, !.code = 201]
      BY <1>5, <2>1 DEF RouteAnswers
    <3>2. sent' = [at |-> "result", provider |-> sent.provider, currency |-> sent.currency,
                   amount |-> sent.amount, vector |-> sent.vector, id |-> i, code |-> 201]
      BY <1>3, <3>1 DEF SentShape
    <3> QED
      BY <1>1, <1>3, <1>4, <2>1, <3>2 DEF FormInv
  <2>2. CASE AnswerOf(sent) # 201
    <3>1. sent' = [sent EXCEPT !.at = "error", !.code = AnswerOf(sent)]
      BY <1>5, <2>2 DEF RouteAnswers
    <3>2. sent' = [at |-> "error", provider |-> sent.provider, currency |-> sent.currency,
                   amount |-> sent.amount, vector |-> sent.vector, id |-> sent.id,
                   code |-> AnswerOf(sent)]
      BY <1>3, <3>1 DEF SentShape
    <3> QED
      BY <1>1, <1>3, <1>4, <3>2 DEF FormInv
  <2> QED
    BY <2>1, <2>2
<1>6. CASE SubmitFails
  <2>1. sent' = [sent EXCEPT !.at = "error", !.code = -1]
    BY <1>6 DEF SubmitFails
  <2>2. sent' = [at |-> "error", provider |-> sent.provider, currency |-> sent.currency,
                 amount |-> sent.amount, vector |-> sent.vector, id |-> sent.id, code |-> -1]
    BY <1>3, <2>1 DEF SentShape
  <2> QED
    BY <1>1, <1>3, <1>4, <2>2 DEF FormInv
<1>7. CASE DismissResult
  BY <1>1, <1>3, <1>7 DEF DismissResult, FormInv
<1> QED
  BY <1>5, <1>6, <1>7

(* Whatever was clicked before, MultiRailCheckoutExperience never sends a  *)
(* rail a currency it does not take, and its test vectors do what they     *)
(* say: for any set of currencies, custom amounts and payments.            *)
THEOREM FormSendsPayable == HostedSpec => []SentIsPayable
<1>1. HostedInit => FormInv
  <2> SUFFICES ASSUME HostedInit PROVE FormInv
    OBVIOUS
  <2>1. /\ order = [method |-> "card", plan |-> "pro", currency |-> "USD", major |-> 10000,
                    vector |-> "none"]
        /\ sent = NotSent
    BY DEF HostedInit
  <2> QED
    BY <2>1 DEF FormInv, OrderOk, OrderShape
<1>2. FormInv /\ [HostedNext]_hostedVars => FormInv'
  <2> SUFFICES ASSUME FormInv, [HostedNext]_hostedVars PROVE FormInv'
    OBVIOUS
  <2>1. CASE UNCHANGED <<order, sent>>
    BY <2>1 DEF FormInv
  <2> QED
    BY <2>1, FormStepKeeps, HandleSubmitKeeps, AnswersKeep DEF HostedNext, hostedVars
<1>3. FormInv => SentIsPayable
  <2> SUFFICES ASSUME FormInv, sent.at # "none"
               PROVE  /\ sent.currency \in Accepted(sent.provider)
                      /\ sent.provider = "mock" /\ sent.vector # "none"
                         /\ Multiplier(sent.currency) = 100 /\ sent.code > 0
                         => sent.code = CASE sent.vector = "success" -> 201
                                          [] sent.vector = "decline" -> 402
                                          [] sent.vector = "timeout" -> 504
    BY DEF SentIsPayable
  <2>1. SentOk(sent)
    BY DEF FormInv, NotSent
  <2>2. ASSUME sent.provider = "mock", sent.vector # "none", Multiplier(sent.currency) = 100,
               sent.code > 0
        PROVE  sent.code = AnswerOf(sent) /\ sent.vector \in Vectors
               /\ sent.amount = VectorAmount(sent.vector)
    BY <2>1, <2>2 DEF SentOk
  <2> QED
    BY <2>1, <2>2, VectorIsAnswered DEF SentOk
<1> QED
  BY <1>1, <1>2, <1>3, PTL DEF HostedSpec

------------------------------------------------------------------------------
(***************************************************************************)
(*                         The mock payment panel                          *)
(***************************************************************************)
HcStatus == {"pending", "succeeded", "failed"}
HcPanel == [id : HcIds, status : HcStatus, method : {"card", "fawry", "wallet"},
            card : {"visa", "3ds", "decline"}, open3ds : BOOLEAN, confirmed : BOOLEAN,
            cutoff : BOOLEAN]

HookTypes(h) == h = NoHook \/ h \in [at : {"sent", "acknowledged"}, status : {"succeeded", "failed"}]
LateTypes(h) == h = NoHook \/ h \in [at : HcIds, status : {"succeeded", "failed"}]

PanelTypes ==
    /\ ledger \in [HcIds -> HcStatus \cup {"none"}]
    /\ panel = NoPanel \/ panel \in HcPanel
    /\ HookTypes(hook) /\ LateTypes(late)
    /\ hook # NoHook => PanelShown
    /\ visit = "form" => panel = NoPanel /\ hook = NoHook /\ late = NoHook

(* A success on the panel of p, or one its webhook has answered with. *)
Claims(p, h) == p.status = "succeeded" \/ (h.at = "acknowledged" /\ h.status = "succeeded")

(* A failure in the ledger, or on its way there, was asked for. *)
FailuresAreAsked ==
    /\ \A i \in HcIds : ledger[i] = "failed" => i \in declined
    /\ hook # NoHook /\ hook.status = "failed" => panel.id \in declined
    /\ late # NoHook /\ late.status = "failed" => late.at \in declined

ClaimsAreStored ==
    PanelShown /\ Claims(panel, hook) =>
        ledger[panel.id] # "pending" \/ panel.cutoff

PanelInv == PanelTypes /\ FailuresAreAsked /\ ClaimsAreStored

(* A panel, a call and an idle panel are told apart. *)
LEMMA PanelMarks ==
    /\ \A p \in HcPanel : p # NoPanel
    /\ \A h \in [at : {"sent", "acknowledged"}, status : {"succeeded", "failed"}] : h # NoHook
    /\ NoHook.at = "idle"
<1>1. NoPanel.id = "none" /\ NoHook.at = "idle"
  BY DEF NoPanel, NoHook
<1> QED
  BY <1>1, HostedAssumption DEF HcPanel

(* A row once settled stays as it is, and one that is not listed is not    *)
(* made up.                                                                *)
LEMMA SettledIs ==
    ASSUME PanelTypes, NEW i \in HcIds, NEW s \in {"succeeded", "failed"}
    PROVE  /\ Settled(i, s) \in [HcIds -> HcStatus \cup {"none"}]
           /\ \A j \in HcIds : /\ ledger[j] # "pending" => Settled(i, s)[j] = ledger[j]
                               /\ Settled(i, s)[j] \in {ledger[j], s}
                               /\ j # i => Settled(i, s)[j] = ledger[j]
           /\ Settled(i, s)[i] # "pending"
<1>1. ledger \in [HcIds -> HcStatus \cup {"none"}]
  BY DEF PanelTypes
<1> QED
  BY <1>1 DEF Settled, Illegal, HcStatus

(* Opening, choosing and closing: the call is idle or its panel stays.     *)
LEMMA PanelQuietKeeps ==
    ASSUME PanelInv, NEW p, panel' = p, p = NoPanel \/ p \in HcPanel, hook = NoHook,
           p \in HcPanel /\ p.status = "succeeded" => ledger[p.id] # "pending" \/ p.cutoff,
           visit # "form", UNCHANGED <<ledger, hook, late, declined, visit>>
    PROVE  PanelInv'
<1>1. PanelTypes'
  BY DEF PanelInv, PanelTypes
<1>2. FailuresAreAsked'
  BY DEF PanelInv, FailuresAreAsked
<1>3. ClaimsAreStored'
  BY PanelMarks DEF ClaimsAreStored, PanelShown, Claims
<1> QED
  BY <1>1, <1>2, <1>3 DEF PanelInv

(* The panel calls the webhook, and remembers what it asked for. *)
LEMMA SendKeeps ==
    ASSUME PanelInv, Send, panel \in HcPanel, NEW p \in HcPanel, panel' = p, p.id = panel.id,
           p.status = panel.status, p.cutoff = panel.cutoff, panel.status # "succeeded",
           visit # "form", UNCHANGED <<ledger, late, visit>>
    PROVE  PanelInv'
<1>1. /\ hook' \in [at : {"sent", "acknowledged"}, status : {"succeeded", "failed"}]
      /\ hook'.at = "sent" /\ hook'.status = Desired
      /\ declined \subseteq declined' /\ (Desired = "failed" => panel.id \in declined')
  BY DEF Send, Desired
<1>2. PanelTypes'
  BY <1>1, PanelMarks DEF PanelInv, PanelTypes, HookTypes, PanelShown
<1>3. FailuresAreAsked'
  BY <1>1 DEF PanelInv, FailuresAreAsked, PanelTypes
<1>4. ClaimsAreStored'
  BY <1>1 DEF ClaimsAreStored, Claims
<1> QED
  BY <1>2, <1>3, <1>4 DEF PanelInv

(* A call is idle exactly when there is none. *)
LEMMA HookIdle == ASSUME PanelTypes, hook.at = "idle" PROVE hook = NoHook
BY DEF PanelTypes, HookTypes

(* /mock/pay/:id shows what it read, or pending. *)
LEMMA OpenPanelKeeps ==
    ASSUME PanelInv, visit = "pay", visit' = visit, NEW i \in HcIds, OpenPanel(i)
    PROVE  PanelInv'
<1>1. hook = NoHook
  BY DEF OpenPanel, PanelInv, PanelTypes, PanelShown
<1>2. PICK s \in ({ledger[i]} \ {"none"}) \union {"pending"} :
          panel' = [id |-> i, status |-> s, method |-> "card", card |-> "visa", open3ds |-> FALSE,
                    confirmed |-> FALSE, cutoff |-> FALSE]
  BY DEF OpenPanel
<1>3. s \in HcStatus /\ (s = "succeeded" => ledger[i] = "succeeded")
  BY DEF PanelInv, PanelTypes, HcStatus
<1>4. panel' \in HcPanel /\ panel'.id = i /\ panel'.status = s
  BY <1>2, <1>3 DEF HcPanel
<1>5. UNCHANGED <<ledger, hook, late, declined, visit>> /\ visit # "form"
  BY DEF OpenPanel
<1>6. PICK p : p = panel'
  OBVIOUS
<1>7. p \in HcPanel /\ (p.status = "succeeded" => ledger[p.id] # "pending")
  BY <1>3, <1>4, <1>6
<1> QED
  BY <1>1, <1>5, <1>6, <1>7, PanelQuietKeeps

(* The panel's own controls. *)
LEMMA PanelStepKeeps ==
    ASSUME PanelInv, visit = "pay", visit' = visit, PanelStep
    PROVE  PanelInv'
<1>1. PanelShown /\ hook.at = "idle"
  BY DEF PanelStep, HandlePayment, Authorize, PickMethod, PickCard, CancelChallenge, Again, Free
<1>2. panel \in HcPanel /\ hook = NoHook
  BY <1>1, HookIdle DEF PanelInv, PanelTypes, PanelShown
<1>3. UNCHANGED <<ledger, late, visit>> /\ visit # "form"
  BY DEF PanelStep
<1>4. PICK p : p = panel'
  OBVIOUS
<1>5. ASSUME Send, panel.status # "succeeded",
             panel' = panel \/ panel' = [panel EXCEPT !.open3ds = FALSE, !.confirmed = TRUE]
      PROVE  PanelInv'
  <2>1. p \in HcPanel /\ p.id = panel.id /\ p.status = panel.status /\ p.cutoff = panel.cutoff
    BY <1>2, <1>4, <1>5 DEF HcPanel
  <2> QED
    BY <1>2, <1>3, <1>4, <1>5, <2>1, SendKeeps
<1>6. ASSUME panel' \in HcPanel, panel'.id = panel.id, panel'.cutoff = panel.cutoff,
             panel'.status # "succeeded", UNCHANGED <<hook, declined>>
      PROVE  PanelInv'
  <2>1. p \in HcPanel /\ p.status # "succeeded"
    BY <1>4, <1>6
  <2> QED
    BY <1>2, <1>3, <1>4, <1>6, <2>1, PanelQuietKeeps
<1>7. CASE HandlePayment
  <2>1. panel.status # "succeeded"
    BY <1>7 DEF HandlePayment, Free
  <2>2. \/ Send /\ panel' = panel
        \/ panel' = [panel EXCEPT !.open3ds = TRUE] /\ UNCHANGED <<hook, declined>>
    BY <1>7 DEF HandlePayment
  <2>3. CASE panel' = [panel EXCEPT !.open3ds = TRUE] /\ UNCHANGED <<hook, declined>>
    <3>1. /\ panel' \in HcPanel /\ panel'.id = panel.id /\ panel'.cutoff = panel.cutoff
          /\ panel'.status = panel.status
      BY <1>2, <2>3 DEF HcPanel
    <3> QED
      BY <1>6, <2>1, <2>3, <3>1
  <2> QED
    BY <1>5, <2>1, <2>2, <2>3
<1>8. CASE Authorize
  BY <1>5, <1>8 DEF Authorize, Free
<1>9. CASE /\ \/ \E m \in {"card", "fawry", "wallet"} : PickMethod(m)
              \/ \E k \in {"visa", "3ds", "decline"} : PickCard(k)
              \/ CancelChallenge \/ Again
           /\ UNCHANGED <<hook, declined, calls>>
  <2>1. /\ panel' \in HcPanel /\ panel'.id = panel.id /\ panel'.cutoff = panel.cutoff
        /\ panel'.status # "succeeded"
    <3>1. CASE \E m \in {"card", "fawry", "wallet"} : PickMethod(m)
      BY <1>2, <3>1 DEF PickMethod, Free, HcPanel
    <3>2. CASE \E k \in {"visa", "3ds", "decline"} : PickCard(k)
      BY <1>2, <3>2 DEF PickCard, Free, HcPanel
    <3>3. CASE CancelChallenge
      BY <1>2, <3>3 DEF CancelChallenge, Free, HcPanel
    <3>4. CASE Again
      BY <1>2, <3>4 DEF Again, MakeAnotherPayment, HcPanel, HcStatus
    <3> QED
      BY <1>9, <3>1, <3>2, <3>3, <3>4
  <2> QED
    BY <1>6, <1>9, <2>1
<1> QED
  BY <1>7, <1>8, <1>9 DEF PanelStep

(* The webhook settles the row, or answers before its work is done. *)
LEMMA WebhookServesKeeps ==
    ASSUME PanelInv, visit = "pay", visit' = visit, WebhookServes
    PROVE  PanelInv'
<1>1. /\ hook # NoHook /\ hook.at = "sent" /\ hook.status \in {"succeeded", "failed"}
      /\ hook \in [at : {"sent", "acknowledged"}, status : {"succeeded", "failed"}]
      /\ panel \in HcPanel /\ panel.id \in HcIds
  BY PanelMarks DEF WebhookServes, PanelInv, PanelTypes, HookTypes, PanelShown, HcPanel
<1>2. /\ hook' \in [at : {"sent", "acknowledged"}, status : {"succeeded", "failed"}]
      /\ hook'.at = "acknowledged" /\ hook'.status = hook.status /\ declined' = declined
  BY <1>1 DEF WebhookServes
<1>3. CASE ledger' = Settled(panel.id, hook.status) /\ UNCHANGED <<late, panel>>
  <2>1. /\ ledger' \in [HcIds -> HcStatus \cup {"none"}]
        /\ \A j \in HcIds : /\ ledger'[j] \in {ledger[j], hook.status}
                            /\ j # panel.id => ledger'[j] = ledger[j]
        /\ ledger'[panel.id] # "pending"
    BY <1>1, <1>3, SettledIs DEF PanelInv
  <2>2. PanelTypes'
    BY <1>1, <1>2, <1>3, <2>1, PanelMarks DEF PanelInv, PanelTypes, HookTypes, PanelShown
  <2>3. FailuresAreAsked'
    BY <1>1, <1>2, <1>3, <2>1, PanelMarks DEF PanelInv, FailuresAreAsked
  <2>4. ClaimsAreStored'
    BY <1>3, <2>1 DEF ClaimsAreStored
  <2> QED
    BY <2>2, <2>3, <2>4 DEF PanelInv
<1>4. CASE /\ late' \in {late, [at |-> panel.id, status |-> hook.status]}
           /\ panel' = [panel EXCEPT !.cutoff = TRUE]
           /\ UNCHANGED ledger
  <2>1. panel' \in HcPanel /\ panel'.id = panel.id /\ panel'.cutoff = TRUE
    BY <1>1, <1>4 DEF HcPanel
  <2>2. /\ LateTypes(late)'
        /\ late' # NoHook /\ late'.status = "failed" => late'.at \in declined
    <3>1. CASE late' = late
      BY <3>1 DEF PanelInv, PanelTypes, LateTypes, FailuresAreAsked
    <3>2. CASE late' = [at |-> panel.id, status |-> hook.status]
      BY <1>1, <3>2 DEF PanelInv, LateTypes, FailuresAreAsked
    <3> QED
      BY <1>4, <3>1, <3>2
  <2>3. PanelTypes'
    BY <1>2, <1>4, <2>1, <2>2, PanelMarks DEF PanelInv, PanelTypes, HookTypes, PanelShown
  <2>4. FailuresAreAsked'
    BY <1>1, <1>2, <1>4, <2>1, <2>2 DEF PanelInv, FailuresAreAsked
  <2>5. ClaimsAreStored'
    BY <2>1 DEF ClaimsAreStored
  <2> QED
    BY <2>3, <2>4, <2>5 DEF PanelInv
<1> QED
  BY <1>3, <1>4 DEF WebhookServes

(* The panel shows what it asked for, answered or given up. *)
LEMMA PanelShowsKeeps ==
    ASSUME PanelInv, visit = "pay", visit' = visit, PanelAnswered \/ PanelGivesUp
    PROVE  PanelInv'
<1>1. hook # NoHook
  BY PanelMarks DEF PanelAnswered, PanelGivesUp
<1>2. /\ hook.status \in {"succeeded", "failed"}
      /\ panel \in HcPanel /\ panel.id \in HcIds /\ hook' = NoHook
      /\ ledger' = ledger /\ declined' = declined
  BY <1>1 DEF PanelAnswered, PanelGivesUp, PanelInv, PanelTypes, HookTypes, PanelShown, HcPanel
<1>3. /\ panel' \in HcPanel /\ panel'.id = panel.id /\ panel'.status = hook.status
      /\ panel'.cutoff = panel.cutoff \/ panel'.cutoff
      /\ PanelGivesUp => panel'.cutoff
  BY <1>2 DEF PanelAnswered, PanelGivesUp, HcPanel, HcStatus
<1>4. /\ LateTypes(late)'
      /\ late' # NoHook /\ late'.status = "failed" => late'.at \in declined
  <2>1. CASE late' = late
    BY <2>1 DEF PanelInv, PanelTypes, LateTypes, FailuresAreAsked
  <2>2. CASE late' = [at |-> panel.id, status |-> hook.status]
    BY <1>1, <1>2, <2>2 DEF PanelInv, LateTypes, FailuresAreAsked
  <2> QED
    BY <2>1, <2>2 DEF PanelAnswered, PanelGivesUp
<1>5. PanelTypes'
  BY <1>2, <1>3, <1>4 DEF PanelInv, PanelTypes, HookTypes
<1>6. FailuresAreAsked'
  BY <1>2, <1>4 DEF PanelInv, FailuresAreAsked
<1>7. ClaimsAreStored'
  <2>1. CASE PanelGivesUp
    BY <2>1, <1>3 DEF ClaimsAreStored
  <2>2. CASE PanelAnswered
    <3>1. hook.status = "succeeded" => ledger[panel.id] # "pending" \/ panel.cutoff
      BY <1>2, <2>2, PanelMarks DEF PanelAnswered, PanelInv, ClaimsAreStored, Claims, PanelShown
    <3>2. hook'.at = "idle"
      BY <1>2, PanelMarks
    <3> QED
      BY <1>2, <1>3, <3>1, <3>2 DEF ClaimsAreStored, Claims
  <2> QED
    BY <2>1, <2>2
<1> QED
  BY <1>5, <1>6, <1>7 DEF PanelInv

(* Work that was cut off is done after all. *)
LEMMA LateWebhookKeeps ==
    ASSUME PanelInv, visit = "pay", visit' = visit, LateWebhook
    PROVE  PanelInv'
<1>1. late # NoHook /\ late.at \in HcIds /\ late.status \in {"succeeded", "failed"}
  BY DEF LateWebhook, PanelInv, PanelTypes, LateTypes
<1>2. /\ ledger' = Settled(late.at, late.status) /\ late' = NoHook
      /\ UNCHANGED <<panel, hook, declined>>
  BY DEF LateWebhook
<1>3. /\ ledger' \in [HcIds -> HcStatus \cup {"none"}]
      /\ \A j \in HcIds : /\ ledger[j] # "pending" => ledger'[j] = ledger[j]
                          /\ ledger'[j] \in {ledger[j], late.status}
                          /\ j # late.at => ledger'[j] = ledger[j]
  BY <1>1, <1>2, SettledIs DEF PanelInv
<1>4. PanelTypes'
  BY <1>2, <1>3 DEF PanelInv, PanelTypes, HookTypes, LateTypes, PanelShown
<1>5. FailuresAreAsked'
  BY <1>1, <1>2, <1>3 DEF PanelInv, FailuresAreAsked
<1>6. ClaimsAreStored'
  BY <1>2, <1>3 DEF PanelInv, ClaimsAreStored, PanelShown, Claims, PanelTypes, HcPanel
<1> QED
  BY <1>4, <1>5, <1>6 DEF PanelInv

(* The panel is left. *)
LEMMA ClosePanelKeeps ==
    ASSUME PanelInv, visit = "pay", visit' = visit, ClosePanel
    PROVE  PanelInv'
<1>1. /\ panel' = NoPanel /\ hook = NoHook /\ UNCHANGED <<ledger, hook, late, declined, visit>>
      /\ visit # "form"
  BY HookIdle DEF ClosePanel, PanelInv
<1>2. NoPanel \notin HcPanel
  BY PanelMarks
<1> QED
  BY <1>1, <1>2, PanelQuietKeeps

(* At the form no panel is open, and a payment is listed as pending. *)
LEMMA FormKeepsPanel ==
    ASSUME PanelInv, visit = "form", visit' = visit,
           FormStep \/ HandleSubmit \/ RouteAnswers \/ SubmitFails \/ DismissResult
    PROVE  PanelInv'
<1>1. UNCHANGED <<panel, hook, late, declined>> /\ panel = NoPanel /\ hook = NoHook /\ late = NoHook
  BY DEF FormStep, HandleSubmit, RouteAnswers, SubmitFails, DismissResult, panelVars, PanelInv,
         PanelTypes
<1>2. ledger' = ledger \/ \E i \in HcIds : ledger' = [ledger EXCEPT ![i] = "pending"]
  BY DEF FormStep, HandleSubmit, RouteAnswers, SubmitFails, DismissResult, panelVars
<1>3. ledger \in [HcIds -> HcStatus \cup {"none"}]
  BY DEF PanelInv, PanelTypes
<1>4. /\ ledger' \in [HcIds -> HcStatus \cup {"none"}]
      /\ \A j \in HcIds : ledger'[j] = "failed" => ledger[j] = "failed"
  BY <1>2, <1>3 DEF HcStatus
<1>5. PanelTypes'
  BY <1>1, <1>4 DEF PanelTypes, HookTypes, LateTypes, PanelShown
<1>6. FailuresAreAsked' /\ ClaimsAreStored'
  BY <1>1, <1>4 DEF PanelInv, FailuresAreAsked, ClaimsAreStored, PanelShown
<1> QED
  BY <1>5, <1>6 DEF PanelInv

(* The customer starts at the form or is sent to the panel. *)
LEMMA PanelStarts == HostedInit => PanelInv
<1> SUFFICES ASSUME HostedInit PROVE PanelInv
  OBVIOUS
<1>1. /\ ledger \in [HcIds -> {"none", "pending"}] /\ panel = NoPanel /\ hook = NoHook
      /\ late = NoHook
  BY DEF HostedInit
<1>2. PanelTypes
  BY <1>1 DEF PanelTypes, HookTypes, LateTypes, HcStatus
<1>3. FailuresAreAsked /\ ClaimsAreStored
  BY <1>1 DEF FailuresAreAsked, ClaimsAreStored, PanelShown
<1> QED
  BY <1>2, <1>3 DEF PanelInv

(* Every step of the form and of the panel. *)
LEMMA PanelNextKeeps == PanelInv /\ [HostedNext]_hostedVars => PanelInv'
<1> SUFFICES ASSUME PanelInv, [HostedNext]_hostedVars PROVE PanelInv'
  OBVIOUS
<1>1. CASE UNCHANGED hostedVars
  <2>1. UNCHANGED <<ledger, panel, hook, late, declined, visit>>
    BY <1>1 DEF hostedVars, panelVars
  <2> QED
    BY <2>1 DEF PanelInv, PanelTypes, HookTypes, LateTypes, FailuresAreAsked, ClaimsAreStored,
                PanelShown, Claims
<1>2. CASE HostedNext
  BY <1>2, FormKeepsPanel, OpenPanelKeeps, PanelStepKeeps, WebhookServesKeeps, PanelShowsKeeps,
     LateWebhookKeeps, ClosePanelKeeps DEF HostedNext
<1> QED
  BY <1>1, <1>2

(* A receipt on the panel of /mock/pay/:id stands for a row that is paid,  *)
(* apart from the exceptions ReceiptIsStored names: for any payments and   *)
(* any number of webhook calls, answered, cut off, late or given up.       *)
THEOREM ReceiptsAreStored == HostedSpec => []ReceiptIsStored
<1>1. PanelInv => ReceiptIsStored
  <2> SUFFICES ASSUME PanelInv, PanelShown, panel.status = "succeeded"
               PROVE  \/ ledger[panel.id] \in {"succeeded", "none"}
                      \/ panel.cutoff \/ panel.id \in declined
    BY DEF ReceiptIsStored
  <2>1. panel.id \in HcIds
    BY DEF PanelInv, PanelTypes, PanelShown, HcPanel
  <2>2. ledger[panel.id] \in {"pending", "succeeded", "failed", "none"}
    BY <2>1 DEF PanelInv, PanelTypes, HcStatus
  <2>3. ledger[panel.id] # "pending" \/ panel.cutoff
    BY DEF PanelInv, ClaimsAreStored, Claims
  <2>4. ledger[panel.id] = "failed" => panel.id \in declined
    BY <2>1 DEF PanelInv, FailuresAreAsked
  <2> QED
    BY <2>2, <2>3, <2>4
<1> QED
  BY <1>1, PanelStarts, PanelNextKeeps, PTL DEF HostedSpec

------------------------------------------------------------------------------
(***************************************************************************)
(*                             The demo shop                               *)
(***************************************************************************)
Known == {"pending", "unknown", "succeeded", "failed"}
Said == Known \cup {None}
Actions == {None, "code", "url"}

PayRec == [kind : {None, "gateway", "direct", "sandbox"}, ref : OrderRefs \cup {None},
           basket : Baskets \cup {None}, status : Said, action : Actions,
           truth : Final \cup {None, "open", "complete"}, sync : BOOLEAN]
Rec == [pay : Names \cup {None}, ref : OrderRefs \cup {None}, status : Said]
CheckoutRec == [at : {"gateway", "creating", "replied", "fallback", "sandbox", "made", "answered", "dead"},
                ref : OrderRefs, basket : Baskets, pay : PayIds \cup {None}, status : Said,
                action : Actions]
StatusRec == [at : {"asking", "told", "answered", "dead"}, name : Names, holds : Names \cup {None},
              copy : Rec, pay : PayIds \cup {None}, status : Said, began : Said]
SettlementRec == [at : {"forwarding", "answered", "dead"}, ref : Names]
PageRec == [at : {"open", "away"}, current : Names \cup {None}, badge : Said, polling : BOOLEAN,
            errors : Nat, shows : {None, "unknown", "code", "url"}, back : OrderRefs \cup {None}]

ServerTypes ==
    /\ pays \in [PayIds -> PayRec] /\ heap \in [Names -> Rec]
    /\ store \in [Names -> Names \cup {None}]
    /\ checkouts \in [Checkouts -> CheckoutRec \cup {Idle}]
    /\ statuses \in [Statuses -> StatusRec \cup {Idle}]
    /\ settlements \in [Settlements -> SettlementRec \cup {Idle}]
    /\ restarts \in Int

PageTypes == page \in PageRec /\ (page.at = "away" => page.back \in OrderRefs)

FormShape(f) ==
    f = [product |-> f.product, method |-> f.method, provider |-> f.provider,
         carrier |-> f.carrier, backend |-> f.backend, tab |-> f.tab, ref |-> f.ref,
         preview |-> f.preview, label |-> f.label]

(* A form drawn as it is, on a reference of the shop. *)
DrawnForm(f) ==
    /\ FormShape(f) /\ f.ref \in OrderRefs
    /\ f.preview = Preview(f) /\ f.label = Label(f)

(* The gateway has a status for every payment of its own. *)
PayOk(x) == x.kind = "gateway" => x.status \in Known

(* A checkout with a payment names it. *)
CheckoutOk(x) == x.at \in {"creating", "replied", "made", "answered"} => x.pay \in PayIds

(* A handler that went on to ask the gateway found nothing final. *)
StatusOk(x) ==
    /\ x.at \in {"asking", "told"} => x.began \notin Final
    /\ x.at = "told" => x.pay \in PayIds /\ pays[x.pay].kind = "gateway"

ServerInv ==
    /\ ServerTypes
    /\ \A p \in PayIds : PayOk(pays[p])
    /\ \A c \in Checkouts : CheckoutOk(checkouts[c])
    /\ \A q \in Statuses : StatusOk(statuses[q])

(* Every name leads to the record of the payment it names. *)
NameOk(n) ==
    LET p == store[n] IN
    p # None => /\ p \in PayIds /\ pays[p].kind # None
                /\ heap[p].pay = p /\ heap[p].ref = pays[p].ref
                /\ n = p \/ n = pays[p].ref

(* A checkout that has a payment has one of its own reference. *)
RefOk(x) ==
    x.at \in {"creating", "replied", "made", "answered"} =>
        pays[x.pay].kind # None /\ pays[x.pay].ref = x.ref

StoredOk(x) == x.at = "answered" => store[x.pay] # None /\ store[x.ref] # None

PageOk ==
    /\ page.current # None => store[page.current] # None
    /\ page.at = "away" => store[page.back] # None
    /\ page.shows = "url" => store[form.ref] # None

(* What the page waits for was sent under the reference it shows. *)
WaitsOk ==
    /\ \A c \in waits \cap Checkouts : checkouts[c].at # "idle" /\ checkouts[c].ref = form.ref
    /\ use.browses => /\ page.at = "open" /\ page.shows = None
                      /\ waits \cap Checkouts = {}

FoundInv ==
    /\ \A c \in Checkouts : RefOk(checkouts[c])
    /\ WaitsOk /\ use.restarts \in Int /\ restarts <= use.restarts
    /\ restarts = use.restarts =>
          /\ \A n \in Names : NameOk(n)
          /\ \A c \in Checkouts : StoredOk(checkouts[c])
          /\ PageOk

StoreInv == ServerInv /\ PageTypes /\ DrawnForm(form)

(* An idle handler is told from a busy one by where it is. *)
LEMMA IdleIs ==
    /\ Idle.at = "idle" /\ CheckoutOk(Idle) /\ StatusOk(Idle)
    /\ \A x \in CheckoutRec \cup {Idle} : x.at # "idle" => x \in CheckoutRec
    /\ \A x \in StatusRec \cup {Idle} : x.at # "idle" => x \in StatusRec
    /\ \A x \in SettlementRec \cup {Idle} : x.at # "idle" => x \in SettlementRec
<1>1. Idle.at = "idle"
  BY DEF Idle
<1> QED
  BY <1>1 DEF CheckoutOk, StatusOk

(* An id not yet given out is there to be given out. *)
LEMMA NewIdIs == ASSUME UnusedIds # {} PROVE NewId \in PayIds /\ pays[NewId].kind = None
BY DEF NewId, UnusedIds

(* A step of one checkout, with what it does to the payments there are. *)
LEMMA CheckoutMoves ==
    ASSUME ServerInv, NEW c \in Checkouts,
           checkouts' \in [Checkouts -> CheckoutRec \cup {Idle}],
           \A d \in Checkouts : d # c => checkouts'[d] = checkouts[d], CheckoutOk(checkouts'[c]),
           pays' \in [PayIds -> PayRec],
           \A p \in PayIds : PayOk(pays'[p]),
           \A p \in PayIds : pays[p].kind = "gateway" => pays'[p].kind = "gateway",
           UNCHANGED <<heap, store, statuses, settlements, restarts>>
    PROVE  ServerInv'
<1>1. ServerTypes'
  BY DEF ServerInv, ServerTypes
<1>2. \A d \in Checkouts : CheckoutOk(checkouts'[d])
  BY DEF ServerInv
<1>3. ASSUME NEW q \in Statuses PROVE StatusOk(statuses[q])'
  BY DEF ServerInv, StatusOk
<1> QED
  BY <1>1, <1>2, <1>3 DEF ServerInv

(* A new payment is put where there was none. *)
LEMMA NewPay ==
    ASSUME ServerInv, UnusedIds # {}, NEW x \in PayRec, PayOk(x), pays' = [pays EXCEPT ![NewId] = x]
    PROVE  /\ pays' \in [PayIds -> PayRec] /\ \A p \in PayIds : PayOk(pays'[p])
           /\ \A p \in PayIds : pays[p].kind # None => pays'[p] = pays[p]
           /\ pays'[NewId] = x
BY NewIdIs DEF ServerInv, ServerTypes

(* The names of the actions there are. *)
LEMMA ActionsAre ==
    /\ \A v : ActionOf(v) \in Actions /\ ActionOf(v) # None
    /\ \A v : SandboxAction(v) \in Actions
BY DEF ActionOf, SandboxAction, Actions, None

(* The gateway begins a payment. *)
LEMMA GatewayBeginsKeeps ==
    ASSUME ServerInv, NEW c \in Checkouts, GatewayBegins(c) PROVE ServerInv'
<1>1. /\ checkouts \in [Checkouts -> CheckoutRec \cup {Idle}] /\ checkouts[c] \in CheckoutRec
      /\ checkouts[c].ref \in OrderRefs /\ checkouts[c].basket \in Baskets
      /\ pays \in [PayIds -> PayRec] /\ UnusedIds # {}
  BY IdleIs DEF ServerInv, ServerTypes, GatewayBegins, CheckoutRec
<1> DEFINE new == [kind |-> "gateway", ref |-> checkouts[c].ref, basket |-> checkouts[c].basket,
                   status |-> "pending", action |-> None, truth |-> None, sync |-> FALSE]
<1>2. /\ pays' = [pays EXCEPT ![NewId] = new]
      /\ checkouts' = [checkouts EXCEPT ![c].at = "creating", ![c].pay = NewId]
  BY DEF GatewayBegins
<1>3. new \in PayRec /\ PayOk(new)
  BY <1>1 DEF PayRec, PayOk, Said, Known, Actions
<1>4. /\ checkouts' \in [Checkouts -> CheckoutRec \cup {Idle}]
      /\ \A d \in Checkouts : d # c => checkouts'[d] = checkouts[d]
      /\ checkouts'[c].pay = NewId
  BY <1>1, <1>2, NewIdIs DEF CheckoutRec
<1>5. CheckoutOk(checkouts'[c])
  BY <1>1, <1>4, NewIdIs DEF CheckoutOk
<1> HIDE DEF new
<1>6. /\ pays' \in [PayIds -> PayRec] /\ \A p \in PayIds : PayOk(pays'[p])
      /\ \A p \in PayIds : pays[p].kind # None => pays'[p] = pays[p]
  BY <1>1, <1>2, <1>3, NewPay
<1>7. \A p \in PayIds : pays[p].kind = "gateway" => pays'[p].kind = "gateway"
  BY <1>6 DEF None
<1>8. UNCHANGED <<heap, store, statuses, settlements, restarts>>
  BY DEF GatewayBegins
<1> QED
  BY <1>4, <1>5, <1>6, <1>7, <1>8, CheckoutMoves

(* What the payments keep while the gateway learns of them. *)
PaysGoOn ==
    /\ pays' \in [PayIds -> PayRec]
    /\ \A p \in PayIds : PayOk(pays'[p])
    /\ \A p \in PayIds : pays'[p].kind = pays[p].kind /\ pays'[p].ref = pays[p].ref

(* What the gateway's own calls leave alone: which payments are in flight, *)
(* and that there is nothing left to do for one.                           *)
PaysCalm ==
    \A g \in PayIds : /\ pays'[g].basket = pays[g].basket
                      /\ (pays'[g].truth = None) = (pays[g].truth = None)
                      /\ pays[g].action = None => pays'[g].action = None

(* One gateway payment changes, and stays the payment it is. *)
LEMMA PayChanges ==
    ASSUME ServerInv, NEW p \in GatewayPays, NEW x \in PayRec, x.kind = "gateway",
           x.ref = pays[p].ref, x.status \in Known, pays' = [pays EXCEPT ![p] = x]
    PROVE  PaysGoOn /\ pays'[p] = x /\ \A o \in PayIds : o # p => pays'[o] = pays[o]
<1>1. /\ pays \in [PayIds -> PayRec] /\ p \in PayIds /\ pays[p].kind = "gateway"
      /\ \A o \in PayIds : PayOk(pays[o])
  BY DEF ServerInv, ServerTypes, GatewayPays
<1>2. /\ pays' \in [PayIds -> PayRec] /\ pays'[p] = x
      /\ \A o \in PayIds : o # p => pays'[o] = pays[o]
  BY <1>1
<1>3. PayOk(x)
  BY DEF PayOk
<1> QED
  BY <1>1, <1>2, <1>3 DEF PaysGoOn

(* The provider's answer is recorded. *)
LEMMA RecordedIs ==
    ASSUME ServerInv, NEW p \in GatewayPays, NEW v, NEW o \in Outcomes(v), pays' = Recorded(p, o)
    PROVE  /\ PaysGoOn /\ o.status \in Known /\ o.action \in Actions /\ o.truth # None
           /\ (o.status = "failed" => o.action = None)
           /\ pays'[p].basket = pays[p].basket /\ pays'[p].action = o.action /\ pays'[p].truth = o.truth
           /\ \A g \in PayIds : g # p => pays'[g] = pays[g]
<1>1. /\ pays \in [PayIds -> PayRec] /\ p \in PayIds /\ pays[p] \in PayRec /\ pays[p].kind = "gateway"
  BY DEF ServerInv, ServerTypes, GatewayPays
<1>2. /\ o.status \in {"pending", "unknown", "failed"} /\ o.action \in Actions
      /\ o.truth \in {"open", "failed"} /\ (o.status = "failed" => o.action = None)
  BY ActionsAre DEF Outcomes, Actions
<1>3. PICK x : x = [pays[p] EXCEPT !.status = o.status, !.action = o.action, !.truth = o.truth]
  OBVIOUS
<1>4. /\ x \in PayRec /\ x.kind = "gateway" /\ x.ref = pays[p].ref /\ x.basket = pays[p].basket
      /\ x.status = o.status /\ x.action = o.action /\ x.truth = o.truth
  BY <1>1, <1>2, <1>3 DEF PayRec, Said, Known, Final
<1>5. pays' = [pays EXCEPT ![p] = x]
  BY <1>1, <1>3 DEF Recorded
<1>6. x.status \in Known /\ o.truth # None
  BY <1>2, <1>4 DEF Known, None
<1> QED
  BY <1>2, <1>4, <1>5, <1>6, PayChanges

(* Also for a caller who is gone. *)
LEMMA GatewayFinishesIs == ASSUME ServerInv, NEW p \in PayIds, GatewayFinishes(p) PROVE PaysGoOn
<1>1. PICK v : v = pays[p].basket.provider
  OBVIOUS
<1>2. p \in GatewayPays /\ \E o \in Outcomes(v) : pays' = Recorded(p, o)
  BY <1>1 DEF GatewayFinishes, InFlight
<1> QED
  BY <1>2, RecordedIs

(* The gateway answers the checkout that made it begin. *)
LEMMA GatewayAnswersIs ==
    ASSUME ServerInv, NEW c \in Checkouts, GatewayAnswers(c)
    PROVE  /\ PaysGoOn /\ InFlight(checkouts[c].pay) /\ checkouts[c] \in CheckoutRec
           /\ checkouts' \in [Checkouts -> CheckoutRec \cup {Idle}]
           /\ \A d \in Checkouts : d # c => checkouts'[d] = checkouts[d]
           /\ checkouts'[c].pay = checkouts[c].pay /\ checkouts'[c].ref = checkouts[c].ref
           /\ checkouts'[c].basket = checkouts[c].basket
           /\ LET p == checkouts[c].pay
              IN  /\ \A g \in PayIds : g # p => pays'[g] = pays[g]
                  /\ pays'[p].basket = pays[p].basket /\ pays'[p].truth # None
                  /\ pays'[p].action = checkouts'[c].action
                  /\ \/ checkouts'[c].at = "replied"
                     \/ checkouts'[c].at = "fallback" /\ pays'[p].action = None
           /\ UNCHANGED <<heap, store, statuses, settlements, restarts, faults>>
<1>1. /\ checkouts \in [Checkouts -> CheckoutRec \cup {Idle}] /\ checkouts[c] \in CheckoutRec
      /\ InFlight(checkouts[c].pay)
  BY IdleIs DEF ServerInv, ServerTypes, GatewayAnswers
<1>2. PICK v : v = checkouts[c].basket.provider
  OBVIOUS
<1>3. PICK p \in GatewayPays : p = checkouts[c].pay
  BY <1>1 DEF InFlight
<1>4. PICK o \in Outcomes(v) :
          /\ pays' = Recorded(p, o)
          /\ checkouts' = [checkouts EXCEPT ![c].at = IF o.status = "failed" THEN "fallback" ELSE "replied",
                              ![c].status = o.status, ![c].action = o.action]
  BY <1>2, <1>3 DEF GatewayAnswers
<1>5. /\ PaysGoOn /\ o.status \in Known /\ o.action \in Actions /\ o.truth # None
      /\ (o.status = "failed" => o.action = None)
      /\ pays'[p].basket = pays[p].basket /\ pays'[p].action = o.action /\ pays'[p].truth = o.truth
      /\ \A g \in PayIds : g # p => pays'[g] = pays[g]
  BY <1>4, RecordedIs
<1>6. PICK a : a = IF o.status = "failed" THEN "fallback" ELSE "replied"
  OBVIOUS
<1>7. PICK x : x = [checkouts[c] EXCEPT !.at = a, !.status = o.status, !.action = o.action]
  OBVIOUS
<1>8. /\ x \in CheckoutRec /\ x.at = a /\ x.action = o.action
      /\ x.pay = checkouts[c].pay /\ x.ref = checkouts[c].ref /\ x.basket = checkouts[c].basket
  BY <1>1, <1>5, <1>6, <1>7 DEF CheckoutRec, Said
<1>9. checkouts' = [checkouts EXCEPT ![c] = x]
  BY <1>1, <1>4, <1>6, <1>7
<1>10. /\ checkouts' \in [Checkouts -> CheckoutRec \cup {Idle}] /\ checkouts'[c] = x
       /\ \A d \in Checkouts : d # c => checkouts'[d] = checkouts[d]
  BY <1>1, <1>8, <1>9
<1>11. UNCHANGED <<heap, store, statuses, settlements, restarts, faults>>
  BY DEF GatewayAnswers
<1> QED
  BY <1>1, <1>3, <1>5, <1>6, <1>8, <1>10, <1>11

(* So the server's invariant is kept. *)
LEMMA GatewayAnswersKeeps ==
    ASSUME ServerInv, NEW c \in Checkouts, GatewayAnswers(c) PROVE ServerInv'
<1>1. /\ PaysGoOn /\ InFlight(checkouts[c].pay)
      /\ checkouts' \in [Checkouts -> CheckoutRec \cup {Idle}]
      /\ \A d \in Checkouts : d # c => checkouts'[d] = checkouts[d]
      /\ checkouts'[c].pay = checkouts[c].pay
      /\ UNCHANGED <<heap, store, statuses, settlements, restarts>>
  BY GatewayAnswersIs
<1>2. CheckoutOk(checkouts'[c])
  BY <1>1 DEF CheckoutOk, InFlight, GatewayPays
<1> QED
  BY <1>1, <1>2, CheckoutMoves DEF PaysGoOn

(* The gateway answers with the payment of that key. *)
LEMMA GatewayReplaysKeeps ==
    ASSUME ServerInv, NEW c \in Checkouts, GatewayReplays(c) PROVE ServerInv'
<1>1. /\ checkouts \in [Checkouts -> CheckoutRec \cup {Idle}] /\ checkouts[c] \in CheckoutRec
      /\ pays \in [PayIds -> PayRec]
  BY IdleIs DEF ServerInv, ServerTypes, GatewayReplays
<1>2. PICK p \in SameKey(c) :
          checkouts' = [checkouts EXCEPT ![c].at = "replied", ![c].pay = p,
                            ![c].status = pays[p].status, ![c].action = pays[p].action]
  BY DEF GatewayReplays
<1>3. p \in PayIds /\ pays[p].kind = "gateway" /\ pays[p] \in PayRec /\ PayOk(pays[p])
  BY <1>1 DEF SameKey, GatewayPays, ServerInv
<1>4. pays[p].status \in Known /\ pays[p].action \in Actions
  BY <1>3 DEF PayOk, PayRec
<1>5. /\ checkouts' \in [Checkouts -> CheckoutRec \cup {Idle}]
      /\ \A d \in Checkouts : d # c => checkouts'[d] = checkouts[d]
      /\ checkouts'[c].at = "replied" /\ checkouts'[c].pay = p
  BY <1>1, <1>2, <1>3, <1>4 DEF CheckoutRec, Said
<1>6. CheckoutOk(checkouts'[c])
  BY <1>3, <1>4, <1>5 DEF CheckoutOk
<1>7. UNCHANGED <<pays, heap, store, statuses, settlements, restarts>>
  BY DEF GatewayReplays
<1> QED
  BY <1>1, <1>5, <1>6, <1>7, CheckoutMoves DEF ServerInv

(* A checkout that only moves on. *)
LEMMA CheckoutGoesTo ==
    ASSUME ServerInv, NEW c \in Checkouts, checkouts[c].at # "idle",
           NEW a \in {"fallback", "sandbox", "gateway"}, checkouts' = [checkouts EXCEPT ![c].at = a]
    PROVE  /\ checkouts' \in [Checkouts -> CheckoutRec \cup {Idle}]
           /\ \A d \in Checkouts : d # c => checkouts'[d] = checkouts[d]
           /\ CheckoutOk(checkouts'[c])
<1>1. checkouts \in [Checkouts -> CheckoutRec \cup {Idle}] /\ checkouts[c] \in CheckoutRec
  BY IdleIs DEF ServerInv, ServerTypes
<1>2. checkouts'[c] \in CheckoutRec /\ checkouts'[c].at = a
  BY <1>1 DEF CheckoutRec
<1> QED
  BY <1>1, <1>2 DEF CheckoutOk

(* The call to the gateway throws, or is made again. *)
LEMMA GatewayThrowsKeeps ==
    ASSUME ServerInv, NEW c \in Checkouts, GatewayThrows(c) PROVE ServerInv'
<1>1. PICK a \in {"fallback", "sandbox", "gateway"} : checkouts' = [checkouts EXCEPT ![c].at = a]
  BY DEF GatewayThrows
<1>2. checkouts[c].at # "idle" /\ UNCHANGED <<pays, heap, store, statuses, settlements, restarts>>
  BY DEF GatewayThrows
<1>3. /\ checkouts' \in [Checkouts -> CheckoutRec \cup {Idle}]
      /\ \A d \in Checkouts : d # c => checkouts'[d] = checkouts[d]
      /\ CheckoutOk(checkouts'[c])
  BY <1>1, <1>2, CheckoutGoesTo
<1> QED
  BY <1>2, <1>3, CheckoutMoves DEF ServerInv, ServerTypes

(* A gateway payment with nothing to do and not paid is not taken. *)
LEMMA RejectedKeeps ==
    ASSUME ServerInv, NEW c \in Checkouts, Rejected(c) PROVE ServerInv'
<1>1. checkouts[c].at # "idle"
  BY DEF Rejected
<1>2. /\ checkouts' \in [Checkouts -> CheckoutRec \cup {Idle}]
      /\ \A d \in Checkouts : d # c => checkouts'[d] = checkouts[d]
      /\ CheckoutOk(checkouts'[c])
  BY <1>1, CheckoutGoesTo DEF Rejected
<1>3. UNCHANGED <<pays, heap, store, statuses, settlements, restarts>>
  BY DEF Rejected
<1> QED
  BY <1>2, <1>3, CheckoutMoves DEF ServerInv, ServerTypes

(* An order of the server's own is made. *)
LEMMA OwnOrderKeeps ==
    ASSUME ServerInv, NEW c \in Checkouts, NEW kind \in {"direct", "sandbox"},
           NEW action \in Actions, checkouts[c].at \in {"fallback", "sandbox"},
           OwnOrder(c, kind, action), UNCHANGED <<heap, store, statuses, settlements, restarts>>
    PROVE  ServerInv'
<1>1. /\ checkouts \in [Checkouts -> CheckoutRec \cup {Idle}] /\ checkouts[c] \in CheckoutRec
      /\ checkouts[c].ref \in OrderRefs /\ checkouts[c].basket \in Baskets
  BY IdleIs DEF ServerInv, ServerTypes, CheckoutRec
<1> DEFINE x == [kind |-> kind, ref |-> checkouts[c].ref, basket |-> checkouts[c].basket,
                 status |-> "pending", action |-> action, truth |-> "open", sync |-> FALSE]
<1>2. UnusedIds # {} /\ pays' = [pays EXCEPT ![NewId] = x]
  BY DEF OwnOrder
<1>3. x \in PayRec /\ PayOk(x)
  BY <1>1 DEF PayRec, PayOk, Said, Known
<1> HIDE DEF x
<1>4. /\ pays' \in [PayIds -> PayRec] /\ \A p \in PayIds : PayOk(pays'[p])
      /\ \A p \in PayIds : pays[p].kind = "gateway" => pays'[p].kind = "gateway"
  BY <1>2, <1>3, NewPay DEF None
<1>5. checkouts' = [checkouts EXCEPT ![c].at = "made", ![c].pay = NewId,
                        ![c].status = "pending", ![c].action = action]
  BY DEF OwnOrder
<1>6. /\ checkouts' \in [Checkouts -> CheckoutRec \cup {Idle}]
      /\ \A d \in Checkouts : d # c => checkouts'[d] = checkouts[d]
      /\ checkouts'[c].at = "made" /\ checkouts'[c].pay = NewId
  BY <1>1, <1>2, <1>5, NewIdIs DEF CheckoutRec, Said, Known
<1>7. CheckoutOk(checkouts'[c])
  BY <1>2, <1>6, NewIdIs DEF CheckoutOk
<1> QED
  BY <1>4, <1>6, <1>7, CheckoutMoves

(* The provider's own API is tried, or given up. *)
LEMMA TryDirectKeeps ==
    ASSUME ServerInv, NEW c \in Checkouts, TryDirect(c) PROVE ServerInv'
<1>1. UNCHANGED <<heap, store, statuses, settlements, restarts>> /\ checkouts[c].at = "fallback"
  BY DEF TryDirect
<1>2. ASSUME NEW a, OwnOrder(c, "direct", a), a \in Actions PROVE ServerInv'
  BY <1>1, <1>2, OwnOrderKeeps
<1>3. CASE \E d \in {TryDirectPaymob, TryDirectStripe, TryDirectFawry} : OwnOrder(c, "direct", d.action)
  <2>1. \A d \in {TryDirectPaymob, TryDirectStripe, TryDirectFawry} : d.action \in Actions
    BY DEF TryDirectPaymob, TryDirectStripe, TryDirectFawry, Actions
  <2> QED
    BY <1>2, <1>3, <2>1
<1>4. CASE checkouts' = [checkouts EXCEPT ![c].at = "sandbox"] /\ UNCHANGED pays
  <2>1. checkouts[c].at # "idle"
    BY <1>1
  <2>2. /\ checkouts' \in [Checkouts -> CheckoutRec \cup {Idle}]
        /\ \A d \in Checkouts : d # c => checkouts'[d] = checkouts[d]
        /\ CheckoutOk(checkouts'[c])
    BY <1>1, <1>4, <2>1, CheckoutGoesTo
  <2> QED
    BY <1>1, <1>4, <2>2, CheckoutMoves DEF ServerInv, ServerTypes
<1> QED
  BY <1>3, <1>4 DEF TryDirect

(* A simulated payment. *)
LEMMA GenerateSandboxKeeps ==
    ASSUME ServerInv, NEW c \in Checkouts, GenerateSandboxPayment(c) PROVE ServerInv'
<1>1. /\ UNCHANGED <<heap, store, statuses, settlements, restarts>>
      /\ checkouts[c].at \in {"fallback", "sandbox"}
      /\ OwnOrder(c, "sandbox", SandboxAction(checkouts[c].basket.provider))
  BY DEF GenerateSandboxPayment
<1>2. SandboxAction(checkouts[c].basket.provider) \in Actions
  BY ActionsAre
<1> QED
  BY <1>1, <1>2, OwnOrderKeeps

(* A new object in the store leaves the handlers what they hold. *)
LEMMA PutUnderIs ==
    ASSUME ServerTypes, NEW names \in SUBSET Names, NEW new \in Rec, new.pay \in Names,
           NEW ss \in [Statuses -> StatusRec \cup {Idle}], PutUnder(names, new, ss)
    PROVE  /\ store' \in [Names -> Names \cup {None}] /\ heap' \in [Names -> Rec]
           /\ \A n \in Names : store'[n] = IF n \in names THEN new.pay ELSE store[n]
           /\ heap'[new.pay] = new /\ \A n \in Names : n # new.pay => heap'[n] = heap[n]
           /\ statuses' \in [Statuses -> StatusRec \cup {Idle}]
           /\ \A q \in Statuses : /\ statuses'[q].at = ss[q].at
                                  /\ ss[q].at # "asking" => statuses'[q] = ss[q]
                                  /\ ss[q].at = "asking" => statuses'[q].began = ss[q].began
<1>1. store' \in [Names -> Names \cup {None}] /\ heap' \in [Names -> Rec]
  BY DEF PutUnder, ServerTypes
<1>2. /\ \A n \in Names : store'[n] = IF n \in names THEN new.pay ELSE store[n]
      /\ heap'[new.pay] = new /\ \A n \in Names : n # new.pay => heap'[n] = heap[n]
  BY DEF PutUnder, ServerTypes
<1>3. statuses' = [q \in Statuses |-> IF ss[q].at = "asking" /\ ss[q].holds = new.pay
                      THEN [ss[q] EXCEPT !.holds = None, !.copy = heap[new.pay]] ELSE ss[q]]
  BY DEF PutUnder, Replaced
<1>4. heap[new.pay] \in Rec
  BY DEF ServerTypes
<1>5. ASSUME NEW q \in Statuses
      PROVE  /\ statuses'[q] \in StatusRec \cup {Idle} /\ statuses'[q].at = ss[q].at
             /\ ss[q].at # "asking" => statuses'[q] = ss[q]
             /\ ss[q].at = "asking" => statuses'[q].began = ss[q].began
  <2>1. CASE ~(ss[q].at = "asking" /\ ss[q].holds = new.pay)
    BY <1>3, <2>1
  <2>2. CASE ss[q].at = "asking" /\ ss[q].holds = new.pay
    <3>1. ss[q] \in StatusRec
      BY <2>2, IdleIs
    <3>2. statuses'[q] = [ss[q] EXCEPT !.holds = None, !.copy = heap[new.pay]]
      BY <1>3, <2>2
    <3> QED
      BY <1>4, <2>2, <3>1, <3>2 DEF StatusRec
  <2> QED
    BY <2>1, <2>2
<1>6. statuses' \in [Statuses -> StatusRec \cup {Idle}]
  BY <1>3, <1>5
<1> QED
  BY <1>1, <1>2, <1>5, <1>6

(* The names of a payment are names. *)
LEMMA NamesOfIs ==
    ASSUME NEW p \in PayIds, NEW r \in OrderRefs \cup {None}
    PROVE  NamesOf(p, r) \in SUBSET Names /\ p \in NamesOf(p, r) /\ (r # None => r \in NamesOf(p, r))
BY DEF NamesOf, Names

(* A step that leaves the payments alone, and the handlers that ask or     *)
(* were told as they began.                                                *)
LEMMA StatusesMove ==
    ASSUME ServerInv, ServerTypes', pays' = pays,
           \A c \in Checkouts : CheckoutOk(checkouts'[c]),
           \A q \in Statuses : \/ statuses'[q].at \in {"idle", "answered", "dead"}
                               \/ /\ statuses'[q].at = statuses[q].at
                                  /\ statuses'[q].began = statuses[q].began
                                  /\ statuses'[q].at = "told" => statuses'[q].pay = statuses[q].pay
                               \/ StatusOk(statuses'[q])
    PROVE  ServerInv'
<1>1. ASSUME NEW q \in Statuses PROVE StatusOk(statuses[q])'
  <2>1. StatusOk(statuses[q])
    BY DEF ServerInv
  <2> QED
    BY <2>1 DEF StatusOk
<1> QED
  BY <1>1 DEF ServerInv

(* A checkout stores its payment under all its names. *)
LEMMA SavePaymentIs ==
    ASSUME ServerInv, NEW c \in Checkouts, SavePayment(c)
    PROVE  /\ checkouts[c] \in CheckoutRec /\ checkouts[c].pay \in PayIds
           /\ checkouts[c].ref \in OrderRefs /\ checkouts[c].at \in {"replied", "made"}
           /\ PutUnder(NamesOf(checkouts[c].pay, checkouts[c].ref),
                       [pay |-> checkouts[c].pay, ref |-> checkouts[c].ref,
                        status |-> checkouts[c].status], statuses)
           /\ [pay |-> checkouts[c].pay, ref |-> checkouts[c].ref,
               status |-> checkouts[c].status] \in Rec
           /\ checkouts' \in [Checkouts -> CheckoutRec \cup {Idle}]
           /\ \A d \in Checkouts : d # c => checkouts'[d] = checkouts[d]
           /\ checkouts'[c].at = "answered" /\ checkouts'[c].pay = checkouts[c].pay
           /\ checkouts'[c].ref = checkouts[c].ref
           /\ UNCHANGED <<pays, settlements, restarts>>
<1>1. /\ checkouts \in [Checkouts -> CheckoutRec \cup {Idle}]
      /\ checkouts[c] \in CheckoutRec /\ checkouts[c].at \in {"replied", "made"}
  BY IdleIs DEF ServerInv, ServerTypes, SavePayment
<1>2. /\ checkouts[c].ref \in OrderRefs /\ checkouts[c].pay \in PayIds
      /\ checkouts[c].status \in Said
  BY <1>1 DEF CheckoutRec, ServerInv, CheckoutOk
<1>3. checkouts' = [checkouts EXCEPT ![c].at = "answered"]
  BY DEF SavePayment
<1>4. /\ checkouts' \in [Checkouts -> CheckoutRec \cup {Idle}]
      /\ \A d \in Checkouts : d # c => checkouts'[d] = checkouts[d]
      /\ checkouts'[c].at = "answered" /\ checkouts'[c].pay = checkouts[c].pay
      /\ checkouts'[c].ref = checkouts[c].ref
  BY <1>1, <1>3 DEF CheckoutRec
<1>5. [pay |-> checkouts[c].pay, ref |-> checkouts[c].ref,
       status |-> checkouts[c].status] \in Rec
  BY <1>2 DEF Rec, Names
<1> QED
  BY <1>1, <1>2, <1>4, <1>5 DEF SavePayment

(* What it stores and answers keeps the server's invariant. *)
LEMMA SavePaymentKeeps ==
    ASSUME ServerInv, NEW c \in Checkouts, SavePayment(c) PROVE ServerInv'
<1> DEFINE new == [pay |-> checkouts[c].pay, ref |-> checkouts[c].ref,
                   status |-> checkouts[c].status]
<1>1. /\ new \in Rec /\ checkouts[c].pay \in PayIds /\ checkouts[c].ref \in OrderRefs
      /\ PutUnder(NamesOf(checkouts[c].pay, checkouts[c].ref), new, statuses)
      /\ checkouts' \in [Checkouts -> CheckoutRec \cup {Idle}]
      /\ \A d \in Checkouts : d # c => checkouts'[d] = checkouts[d]
      /\ checkouts'[c].at = "answered" /\ checkouts'[c].pay = checkouts[c].pay
      /\ UNCHANGED <<pays, settlements, restarts>>
  BY SavePaymentIs
<1>2. new.pay = checkouts[c].pay /\ new.pay \in Names
  BY <1>1 DEF Names
<1> HIDE DEF new
<1>3. /\ store' \in [Names -> Names \cup {None}] /\ heap' \in [Names -> Rec]
      /\ statuses' \in [Statuses -> StatusRec \cup {Idle}]
      /\ \A q \in Statuses : /\ statuses'[q].at = statuses[q].at
                             /\ statuses[q].at # "asking" => statuses'[q] = statuses[q]
                             /\ statuses[q].at = "asking" => statuses'[q].began = statuses[q].began
  <2> DEFINE ss == statuses
  <2>1. ServerTypes /\ ss \in [Statuses -> StatusRec \cup {Idle}]
    BY DEF ServerInv, ServerTypes
  <2>2. PICK names \in SUBSET Names : PutUnder(names, new, ss)
    BY <1>1, NamesOfIs
  <2>3. new \in Rec /\ new.pay \in Names
    BY <1>1, <1>2
  <2> HIDE DEF ss
  <2>4. /\ store' \in [Names -> Names \cup {None}] /\ heap' \in [Names -> Rec]
        /\ statuses' \in [Statuses -> StatusRec \cup {Idle}]
        /\ \A q \in Statuses : /\ statuses'[q].at = ss[q].at
                               /\ ss[q].at # "asking" => statuses'[q] = ss[q]
                               /\ ss[q].at = "asking" => statuses'[q].began = ss[q].began
    BY <2>1, <2>2, <2>3, PutUnderIs
  <2> QED
    BY <2>4 DEF ss
<1>4. ServerTypes'
  BY <1>1, <1>3 DEF ServerInv, ServerTypes
<1>5. \A d \in Checkouts : CheckoutOk(checkouts'[d])
  BY <1>1 DEF ServerInv, CheckoutOk
<1> QED
  BY <1>1, <1>3, <1>4, <1>5, StatusesMove

(* A settlement is sent to the mock webhook, or has been served there. *)
LEMMA SyncIs ==
    ASSUME ServerInv, NEW p \in GatewayPays, NEW b \in BOOLEAN, pays' = [pays EXCEPT ![p].sync = b]
    PROVE  PaysGoOn /\ PaysCalm
<1>1. /\ pays \in [PayIds -> PayRec] /\ p \in PayIds /\ pays[p] \in PayRec /\ pays[p].kind = "gateway"
      /\ pays[p].status \in Known
  BY DEF ServerInv, ServerTypes, GatewayPays, PayOk
<1>2. PICK x : x = [pays[p] EXCEPT !.sync = b]
  OBVIOUS
<1>3. /\ x \in PayRec /\ x.kind = "gateway" /\ x.ref = pays[p].ref /\ x.status = pays[p].status
      /\ x.basket = pays[p].basket /\ x.truth = pays[p].truth /\ x.action = pays[p].action
  BY <1>1, <1>2 DEF PayRec
<1>4. pays' = [pays EXCEPT ![p] = x]
  BY <1>1, <1>2
<1> QED
  BY <1>1, <1>3, <1>4, PayChanges DEF PaysCalm

(* The gateway answers a status inquiry, and may be sent what Stripe said. *)
LEMMA GatewayTellsIs ==
    ASSUME ServerInv, NEW q \in Statuses, GatewayTellsStatus(q)
    PROVE  /\ PaysGoOn /\ PaysCalm
           /\ \E p \in GatewayPays, s \in Said :
                 statuses' = [statuses EXCEPT ![q].at = "told", ![q].pay = p, ![q].status = s,
                                              ![q].holds = None, ![q].copy = NoRec]
<1>1. pays \in [PayIds -> PayRec]
  BY DEF ServerInv, ServerTypes
<1>2. PICK p \in GatewayPays, s \in Said, b \in BOOLEAN :
          /\ statuses' = [statuses EXCEPT ![q].at = "told", ![q].pay = p, ![q].status = s,
                                          ![q].holds = None, ![q].copy = NoRec]
          /\ pays' = [pays EXCEPT ![p].sync = b]
  <2>1. PICK p \in FoundBy(QueryId(q)), looked \in BOOLEAN :
          LET s == IF looked THEN SessionSays(pays[p].truth) ELSE pays[p].status
          IN /\ statuses' = [statuses EXCEPT ![q].at = "told", ![q].pay = p, ![q].status = s,
                                             ![q].holds = None, ![q].copy = NoRec]
             /\ pays' = [pays EXCEPT ![p].sync = @ \/ (looked /\ s = "succeeded")]
    BY DEF GatewayTellsStatus
  <2>2. PICK s : s = IF looked THEN SessionSays(pays[p].truth) ELSE pays[p].status
    OBVIOUS
  <2>3. p \in GatewayPays /\ p \in PayIds /\ pays[p] \in PayRec
    BY <1>1 DEF FoundBy, GatewayPays
  <2>4. s \in Said /\ pays[p].sync \in BOOLEAN
    BY <2>2, <2>3 DEF PayRec, SessionSays, Said, Known
  <2>5. PICK b : b = (pays[p].sync \/ (looked /\ s = "succeeded"))
    OBVIOUS
  <2>6. b \in BOOLEAN /\ pays' = [pays EXCEPT ![p].sync = b]
    BY <1>1, <2>1, <2>2, <2>3, <2>5
  <2> QED
    BY <2>1, <2>2, <2>3, <2>4, <2>6
<1> QED
  BY <1>2, SyncIs

(* So the server's invariant is kept. *)
LEMMA GatewayTellsKeeps ==
    ASSUME ServerInv, NEW q \in Statuses, GatewayTellsStatus(q) PROVE ServerInv'
<1>1. /\ statuses \in [Statuses -> StatusRec \cup {Idle}] /\ statuses[q] \in StatusRec
      /\ statuses[q].at = "asking" /\ statuses[q].began \notin Final
  BY IdleIs DEF ServerInv, ServerTypes, GatewayTellsStatus, StatusOk
<1>2. PICK p \in GatewayPays, s \in Said :
          statuses' = [statuses EXCEPT ![q].at = "told", ![q].pay = p, ![q].status = s,
                                       ![q].holds = None, ![q].copy = NoRec]
  BY GatewayTellsIs
<1>3. PaysGoOn /\ p \in PayIds /\ pays[p].kind = "gateway"
  BY GatewayTellsIs DEF GatewayPays
<1>4. NoRec \in Rec
  BY DEF NoRec, Rec, Said
<1>5. /\ statuses' \in [Statuses -> StatusRec \cup {Idle}]
      /\ \A r \in Statuses : r # q => statuses'[r] = statuses[r]
      /\ statuses'[q].at = "told" /\ statuses'[q].pay = p /\ statuses'[q].began = statuses[q].began
  <2>1. PICK x : x = [statuses[q] EXCEPT !.at = "told", !.pay = p, !.status = s, !.holds = None, !.copy = NoRec]
    OBVIOUS
  <2>2. x \in StatusRec /\ x.at = "told" /\ x.pay = p /\ x.began = statuses[q].began
    BY <1>1, <1>3, <1>4, <2>1 DEF StatusRec
  <2>3. statuses' = [statuses EXCEPT ![q] = x]
    BY <1>1, <1>2, <2>1
  <2> QED
    BY <1>1, <2>2, <2>3
<1>6. UNCHANGED <<heap, store, checkouts, settlements, restarts>>
  BY DEF GatewayTellsStatus
<1>7. ServerTypes'
  BY <1>3, <1>5, <1>6 DEF ServerInv, ServerTypes, PaysGoOn
<1>8. ASSUME NEW r \in Statuses PROVE StatusOk(statuses[r])'
  <2>1. StatusOk(statuses[r])
    BY DEF ServerInv
  <2> QED
    BY <1>1, <1>3, <1>5, <2>1 DEF StatusOk, PaysGoOn
<1>9. \A c \in Checkouts : CheckoutOk(checkouts'[c])
  BY <1>6 DEF ServerInv
<1> QED
  BY <1>3, <1>7, <1>8, <1>9 DEF ServerInv, PaysGoOn

(* The answer is stored over whatever record there is by now. *)
LEMMA StatusStoresIs ==
    ASSUME ServerInv, NEW q \in Statuses, StatusStores(q)
    PROVE  LET p == statuses[q].pay
               new == [pay |-> p, ref |-> pays[p].ref, status |-> statuses[q].status]
               ss == [statuses EXCEPT ![q].at = "answered"]
           IN /\ p \in PayIds /\ pays[p].kind = "gateway" /\ pays[p].ref \in OrderRefs \cup {None}
              /\ new \in Rec /\ new.pay \in Names /\ new.pay = p /\ new.ref = pays[p].ref
              /\ ss \in [Statuses -> StatusRec \cup {Idle}]
              /\ ss[q].at = "answered" /\ \A r \in Statuses : r # q => ss[r] = statuses[r]
              /\ PutUnder(NamesOf(p, pays[p].ref), new, ss)
              /\ statuses[q].began \notin Final
<1>1. /\ statuses \in [Statuses -> StatusRec \cup {Idle}] /\ statuses[q] \in StatusRec
      /\ statuses[q].began \notin Final /\ statuses[q].pay \in PayIds
      /\ pays[statuses[q].pay].kind = "gateway" /\ pays \in [PayIds -> PayRec]
  BY IdleIs DEF ServerInv, ServerTypes, StatusStores, StatusOk
<1> DEFINE p == statuses[q].pay
           new == [pay |-> p, ref |-> pays[p].ref, status |-> statuses[q].status]
           ss == [statuses EXCEPT ![q].at = "answered"]
<1>2. pays[p].ref \in OrderRefs \cup {None} /\ statuses[q].status \in Said
  BY <1>1 DEF PayRec, StatusRec
<1>3. new \in Rec /\ new.pay \in Names /\ new.pay = p /\ new.ref = pays[p].ref
  BY <1>1, <1>2 DEF Rec, Names
<1>4. /\ ss \in [Statuses -> StatusRec \cup {Idle}]
      /\ ss[q].at = "answered" /\ \A r \in Statuses : r # q => ss[r] = statuses[r]
  BY <1>1 DEF StatusRec
<1>5. PutUnder(NamesOf(p, pays[p].ref), new, ss)
  BY DEF StatusStores
<1> QED
  BY <1>1, <1>2, <1>3, <1>4, <1>5

(* What the inquiry stores keeps the server's invariant. *)
LEMMA StatusStoresKeeps ==
    ASSUME ServerInv, NEW q \in Statuses, StatusStores(q) PROVE ServerInv'
<1> DEFINE p == statuses[q].pay
           new == [pay |-> p, ref |-> pays[p].ref, status |-> statuses[q].status]
           ss == [statuses EXCEPT ![q].at = "answered"]
<1>1. /\ p \in PayIds /\ pays[p].ref \in OrderRefs \cup {None}
      /\ new \in Rec /\ new.pay \in Names
      /\ ss \in [Statuses -> StatusRec \cup {Idle}]
      /\ ss[q].at = "answered" /\ \A r \in Statuses : r # q => ss[r] = statuses[r]
      /\ PutUnder(NamesOf(p, pays[p].ref), new, ss)
  BY StatusStoresIs
<1> HIDE DEF p, new, ss
<1>2. /\ store' \in [Names -> Names \cup {None}] /\ heap' \in [Names -> Rec]
      /\ statuses' \in [Statuses -> StatusRec \cup {Idle}]
      /\ \A r \in Statuses : /\ statuses'[r].at = ss[r].at
                             /\ ss[r].at # "asking" => statuses'[r] = ss[r]
                             /\ ss[r].at = "asking" => statuses'[r].began = ss[r].began
  <2>1. ServerTypes
    BY DEF ServerInv
  <2> QED
    BY <1>1, <2>1, NamesOfIs, PutUnderIs
<1>3. UNCHANGED <<pays, checkouts, settlements, restarts>>
  BY DEF StatusStores
<1>4. ServerTypes'
  BY <1>2, <1>3 DEF ServerInv, ServerTypes
<1>5. \A r \in Statuses : \/ statuses'[r].at = "answered"
                          \/ /\ statuses'[r].at = statuses[r].at
                             /\ statuses'[r].began = statuses[r].began
                             /\ statuses'[r].at = "told" => statuses'[r].pay = statuses[r].pay
  BY <1>1, <1>2
<1> QED
  BY <1>3, <1>4, <1>5, StatusesMove DEF ServerInv

(* The handler answers with the record it fetched, as it is by now. *)
LEMMA StatusFallsBackKeeps ==
    ASSUME ServerInv, NEW q \in Statuses, StatusFallsBack(q) PROVE ServerInv'
<1>1. /\ statuses \in [Statuses -> StatusRec \cup {Idle}] /\ statuses[q] \in StatusRec
      /\ heap \in [Names -> Rec]
  BY IdleIs DEF ServerInv, ServerTypes, StatusFallsBack
<1>2. Cached(q) \in Rec
  BY <1>1 DEF Cached, StatusRec
<1>3. Cached(q).status \in Said /\ NoRec \in Rec
  BY <1>2 DEF Rec, NoRec, Said
<1> DEFINE s == Cached(q).status
<1>4. statuses' = [statuses EXCEPT ![q].at = "answered", ![q].holds = None, ![q].copy = NoRec,
                                   ![q].status = s]
  BY DEF StatusFallsBack
<1>5. s \in Said
  BY <1>3
<1> HIDE DEF s
<1>6. /\ statuses' \in [Statuses -> StatusRec \cup {Idle}]
      /\ \A r \in Statuses : r # q => statuses'[r] = statuses[r]
      /\ statuses'[q].at = "answered"
  BY <1>1, <1>3, <1>4, <1>5 DEF StatusRec
<1>7. UNCHANGED <<pays, heap, store, checkouts, settlements, restarts>>
  BY DEF StatusFallsBack
<1>8. ServerTypes'
  BY <1>6, <1>7 DEF ServerInv, ServerTypes
<1> QED
  BY <1>6, <1>7, <1>8, StatusesMove DEF ServerInv

(* Payments that only go on disturb nobody at the server. *)
LEMMA PaysGoOnKeeps ==
    ASSUME ServerInv, PaysGoOn, settlements' \in [Settlements -> SettlementRec \cup {Idle}],
           UNCHANGED <<heap, store, checkouts, statuses, restarts>>
    PROVE  ServerInv'
<1>1. ServerTypes'
  BY DEF ServerInv, ServerTypes, PaysGoOn
<1>2. ASSUME NEW q \in Statuses PROVE StatusOk(statuses[q])'
  BY DEF ServerInv, StatusOk, PaysGoOn
<1> QED
  BY <1>1, <1>2 DEF ServerInv, PaysGoOn

(* One payment gets a final status, and has nothing left to do. *)
LEMMA PaySettles ==
    ASSUME ServerInv, NEW p \in GatewayPays, NEW s \in Final,
           pays' = [pays EXCEPT ![p].status = s, ![p].action = None]
    PROVE  PaysGoOn /\ PaysCalm
<1>1. /\ pays \in [PayIds -> PayRec] /\ p \in PayIds /\ pays[p] \in PayRec
      /\ pays[p].kind = "gateway"
  BY DEF ServerInv, ServerTypes, GatewayPays
<1>2. PICK x : x = [pays[p] EXCEPT !.status = s, !.action = None]
  OBVIOUS
<1>3. /\ x \in PayRec /\ x.kind = "gateway" /\ x.ref = pays[p].ref /\ x.status = s
      /\ x.basket = pays[p].basket /\ x.truth = pays[p].truth /\ x.action = None
  BY <1>1, <1>2 DEF PayRec, Said, Known, Final, Actions
<1>4. pays' = [pays EXCEPT ![p] = x] /\ x.status \in Known
  BY <1>1, <1>2, <1>3 DEF Final, Known
<1> QED
  BY <1>1, <1>3, <1>4, PayChanges DEF PaysCalm

(* What the payments are when nothing happens to them. *)
LEMMA PaysStay == ASSUME ServerInv, pays' = pays PROVE PaysGoOn /\ PaysCalm
BY DEF ServerInv, ServerTypes, PaysGoOn, PaysCalm

(* The mock webhook settles. *)
LEMMA MarkPaidIs ==
    ASSUME ServerInv, NEW p \in GatewayPays, pays' = MarkPaid(p) PROVE PaysGoOn /\ PaysCalm
<1>1. PICK f \in Final : f = "succeeded"
  BY DEF Final
<1>2. pays' = [pays EXCEPT ![p].status = f, ![p].action = None]
  BY <1>1 DEF MarkPaid
<1> QED
  BY <1>2, PaySettles

(* The settlement reaches the mock webhook, or does not. *)
LEMMA SettlementForwardedIs ==
    ASSUME ServerInv, NEW s \in Settlements, SettlementForwarded(s)
    PROVE  PaysGoOn /\ PaysCalm /\ settlements' \in [Settlements -> SettlementRec \cup {Idle}]
<1>1. settlements \in [Settlements -> SettlementRec \cup {Idle}] /\ settlements[s] \in SettlementRec
  BY IdleIs DEF ServerInv, ServerTypes, SettlementForwarded
<1>2. settlements' \in [Settlements -> SettlementRec \cup {Idle}]
  BY <1>1 DEF SettlementForwarded, SettlementRec
<1>3. CASE pays' = pays
  BY <1>2, <1>3, PaysStay
<1>4. CASE \E p \in GatewayPays : pays' = MarkPaid(p)
  BY <1>2, <1>4, MarkPaidIs
<1> QED
  BY <1>3, <1>4 DEF SettlementForwarded

(* The customer decides; the gateway learns it. *)
LEMMA PaymentGoesOnIs ==
    ASSUME ServerInv, NEW p \in PayIds, ProviderDecides(p) \/ GatewayLearns(p) \/ SyncServed(p)
    PROVE  PaysGoOn /\ PaysCalm
<1>1. pays \in [PayIds -> PayRec] /\ pays[p] \in PayRec
  BY DEF ServerInv, ServerTypes
<1>2. CASE GatewayLearns(p)
  <2>1. PICK f : f = pays[p].truth
    OBVIOUS
  <2>2. p \in GatewayPays /\ f \in Final /\ pays' = [pays EXCEPT ![p].status = f, ![p].action = None]
    BY <1>2, <2>1 DEF GatewayLearns
  <2> QED
    BY <2>2, PaySettles
<1>3. CASE ProviderDecides(p)
  <2>1. PICK t \in Final \cup {"complete"} : pays' = [pays EXCEPT ![p].truth = t]
    BY <1>3 DEF ProviderDecides
  <2>2. p \in GatewayPays /\ pays[p].truth # None /\ pays[p].kind = "gateway" /\ pays[p].status \in Known
    BY <1>3 DEF ProviderDecides, GatewayPays, None, ServerInv, PayOk
  <2>3. PICK x : x = [pays[p] EXCEPT !.truth = t]
    OBVIOUS
  <2>4. /\ x \in PayRec /\ x.kind = pays[p].kind /\ x.ref = pays[p].ref
        /\ x.status = pays[p].status /\ x.basket = pays[p].basket /\ x.action = pays[p].action
        /\ x.truth = t
    BY <1>1, <2>3 DEF PayRec
  <2>5. pays' = [pays EXCEPT ![p] = x] /\ t # None
    BY <1>1, <2>1, <2>3 DEF Final, None
  <2>6. /\ x.kind = "gateway" /\ x.status \in Known
    BY <2>2, <2>4
  <2>7. PaysGoOn /\ pays'[p] = x /\ \A o \in PayIds : o # p => pays'[o] = pays[o]
    BY <2>2, <2>4, <2>5, <2>6, PayChanges
  <2>8. PaysCalm
    BY <2>2, <2>4, <2>5, <2>7 DEF PaysCalm
  <2> QED
    BY <2>7, <2>8
<1>4. CASE SyncServed(p)
  <2>1. pays[p].kind = "gateway" /\ p \in GatewayPays
    BY <1>4 DEF SyncServed, GatewayPays
  <2>2. PICK x : x = [(IF pays[p].status \in Final THEN pays[p]
                       ELSE [pays[p] EXCEPT !.status = "succeeded", !.action = None]) EXCEPT !.sync = FALSE]
    OBVIOUS
  <2>3. /\ x \in PayRec /\ x.kind = "gateway" /\ x.ref = pays[p].ref /\ x.basket = pays[p].basket
        /\ x.truth = pays[p].truth /\ (pays[p].action = None => x.action = None)
        /\ x.status \in {pays[p].status, "succeeded"}
    BY <1>1, <2>1, <2>2 DEF PayRec, Said, Known, Actions
  <2>4. pays' = [pays EXCEPT ![p] = x]
    BY <1>1, <1>4, <2>2 DEF SyncServed, MarkPaid
  <2>5. x.status \in Known
    BY <2>1, <2>3 DEF ServerInv, PayOk, Known
  <2> QED
    BY <2>1, <2>3, <2>4, <2>5, PayChanges DEF PaysCalm
<1> QED
  BY <1>2, <1>3, <1>4

(* The server loses its memory and the requests in flight. *)
LEMMA RestartKeeps == ASSUME ServerInv, Restart PROVE ServerInv'
<1>1. NoRec \in Rec
  BY DEF NoRec, Rec, Said
<1>2. /\ heap' \in [Names -> Rec] /\ store' \in [Names -> Names \cup {None}] /\ pays' = pays
      /\ restarts' \in Int
  <2>1. restarts' \in Int
    <3>1. restarts \in Int
      BY DEF ServerInv, ServerTypes
    <3>2. restarts' = restarts - 1
      BY DEF Restart
    <3> QED
      BY <3>1, <3>2
  <2>2. store' \in [Names -> Names \cup {None}] /\ pays' = pays
    BY DEF Restart
  <2>3. heap' \in [Names -> Rec]
    <3> DEFINE r == NoRec
    <3>1. r \in Rec
      BY <1>1
    <3>2. heap' = [n \in Names |-> r]
      BY DEF Restart
    <3> HIDE DEF r
    <3> QED
      BY <3>1, <3>2
  <2> QED
    BY <2>1, <2>2, <2>3
<1>3. ASSUME NEW c \in Checkouts
      PROVE  checkouts'[c] \in CheckoutRec \cup {Idle} /\ checkouts'[c].at \in {"idle", "dead"}
  <2>1. CASE checkouts[c].at = "idle"
    BY <2>1, IdleIs DEF Restart
  <2>2. CASE checkouts[c].at # "idle"
    <3>1. checkouts[c] \in CheckoutRec /\ checkouts'[c] = [checkouts[c] EXCEPT !.at = "dead"]
      BY <2>2, IdleIs DEF Restart, ServerInv, ServerTypes
    <3> QED
      BY <3>1 DEF CheckoutRec
  <2> QED
    BY <2>1, <2>2
<1>4. ASSUME NEW q \in Statuses
      PROVE  statuses'[q] \in StatusRec \cup {Idle} /\ statuses'[q].at \in {"idle", "dead"}
  <2>1. CASE statuses[q].at = "idle"
    BY <2>1, IdleIs DEF Restart
  <2>2. CASE statuses[q].at # "idle"
    <3>1. statuses[q] \in StatusRec
      BY <2>2, IdleIs DEF ServerInv, ServerTypes
    <3>2. statuses'[q] = [statuses[q] EXCEPT !.at = "dead", !.holds = None, !.copy = NoRec]
      BY <2>2 DEF Restart
    <3> QED
      BY <1>1, <3>1, <3>2 DEF StatusRec
  <2> QED
    BY <2>1, <2>2
<1>5. ASSUME NEW s \in Settlements PROVE settlements'[s] \in SettlementRec \cup {Idle}
  <2>1. CASE settlements[s].at = "idle"
    BY <2>1 DEF Restart
  <2>2. CASE settlements[s].at # "idle"
    <3>1. settlements[s] \in SettlementRec /\ settlements'[s] = [settlements[s] EXCEPT !.at = "dead"]
      BY <2>2, IdleIs DEF Restart, ServerInv, ServerTypes
    <3> QED
      BY <3>1 DEF SettlementRec
  <2> QED
    BY <2>1, <2>2
<1>6. /\ checkouts' \in [Checkouts -> CheckoutRec \cup {Idle}]
      /\ statuses' \in [Statuses -> StatusRec \cup {Idle}]
      /\ settlements' \in [Settlements -> SettlementRec \cup {Idle}]
  <2>1. /\ checkouts' = [c \in Checkouts |-> checkouts'[c]]
        /\ statuses' = [q \in Statuses |-> statuses'[q]]
        /\ settlements' = [s \in Settlements |-> settlements'[s]]
    BY DEF Restart
  <2> QED
    BY <1>3, <1>4, <1>5, <2>1
<1>7. ServerTypes'
  BY <1>2, <1>6 DEF ServerInv, ServerTypes
<1>8. \A c \in Checkouts : CheckoutOk(checkouts'[c])
  BY <1>3 DEF CheckoutOk
<1> QED
  BY <1>2, <1>4, <1>7, <1>8, StatusesMove

(* Every step of the server by itself. *)
LEMMA ServerNextKeeps == ASSUME ServerInv, ServerNext PROVE ServerInv'
<1>1. ASSUME NEW c \in Checkouts,
             \/ GatewayBegins(c) \/ GatewayAnswers(c) \/ GatewayReplays(c) \/ GatewayThrows(c)
             \/ Rejected(c) \/ TryDirect(c) \/ GenerateSandboxPayment(c) \/ SavePayment(c)
      PROVE  ServerInv'
  BY <1>1, GatewayBeginsKeeps, GatewayAnswersKeeps, GatewayReplaysKeeps, GatewayThrowsKeeps, RejectedKeeps,
     TryDirectKeeps, GenerateSandboxKeeps, SavePaymentKeeps
<1>2. ASSUME NEW q \in Statuses, GatewayTellsStatus(q) \/ StatusStores(q) \/ StatusFallsBack(q)
      PROVE  ServerInv'
  BY <1>2, GatewayTellsKeeps, StatusStoresKeeps, StatusFallsBackKeeps
<1>3. ASSUME NEW s \in Settlements, SettlementForwarded(s) PROVE ServerInv'
  <2>1. UNCHANGED <<heap, store, checkouts, statuses, restarts>>
    BY <1>3 DEF SettlementForwarded
  <2> QED
    BY <1>3, <2>1, SettlementForwardedIs, PaysGoOnKeeps
<1>4. ASSUME NEW p \in PayIds,
             ProviderDecides(p) \/ GatewayLearns(p) \/ SyncServed(p) \/ GatewayFinishes(p)
      PROVE  ServerInv'
  <2>1. UNCHANGED <<heap, store, checkouts, statuses, settlements, restarts>>
    BY <1>4 DEF ProviderDecides, GatewayLearns, SyncServed, GatewayFinishes
  <2>2. settlements' \in [Settlements -> SettlementRec \cup {Idle}]
    BY <2>1 DEF ServerInv, ServerTypes
  <2> QED
    BY <1>4, <2>1, <2>2, PaymentGoesOnIs, GatewayFinishesIs, PaysGoOnKeeps
<1> QED
  BY <1>1, <1>2, <1>3, <1>4, RestartKeeps DEF ServerNext

(* The page sends a checkout, or has its answer. *)
LEMMA CheckoutBeginsIs ==
    ASSUME ServerInv, NEW c \in Checkouts, NEW r \in OrderRefs, NEW b \in Baskets,
           CheckoutBegins(c, r, b)
    PROVE  /\ checkouts' \in [Checkouts -> CheckoutRec \cup {Idle}]
           /\ \A d \in Checkouts : d # c => checkouts'[d] = checkouts[d]
           /\ CheckoutOk(checkouts'[c])
           /\ checkouts'[c].at = "gateway" /\ checkouts'[c].ref = r
<1> DEFINE x == [at |-> "gateway", ref |-> r, basket |-> b, pay |-> None,
                 status |-> None, action |-> None]
<1>1. x \in CheckoutRec /\ CheckoutOk(x) /\ x.at = "gateway" /\ x.ref = r
  BY DEF CheckoutRec, CheckoutOk, Said, Actions
<1>2. checkouts' = [checkouts EXCEPT ![c] = x] /\ checkouts \in [Checkouts -> CheckoutRec \cup {Idle}]
  BY DEF CheckoutBegins, ServerInv, ServerTypes
<1> HIDE DEF x
<1> QED
  BY <1>1, <1>2

(* A checkout changes and nothing else does. *)
LEMMA CheckoutAloneKeeps ==
    ASSUME ServerInv, NEW c \in Checkouts,
           checkouts' \in [Checkouts -> CheckoutRec \cup {Idle}],
           \A d \in Checkouts : d # c => checkouts'[d] = checkouts[d], CheckoutOk(checkouts'[c]),
           UNCHANGED <<pays, heap, store, statuses, settlements, restarts>>
    PROVE  ServerInv'
<1>1. /\ pays' \in [PayIds -> PayRec] /\ \A p \in PayIds : PayOk(pays'[p])
      /\ \A p \in PayIds : pays[p].kind = "gateway" => pays'[p].kind = "gateway"
  BY DEF ServerInv, ServerTypes
<1> QED
  BY <1>1, CheckoutMoves

(* A checkout is over. *)
LEMMA CheckoutEndsIs ==
    ASSUME ServerInv, NEW c \in Checkouts, checkouts' = [checkouts EXCEPT ![c] = Idle]
    PROVE  /\ checkouts' \in [Checkouts -> CheckoutRec \cup {Idle}]
           /\ \A d \in Checkouts : d # c => checkouts'[d] = checkouts[d]
           /\ CheckoutOk(checkouts'[c]) /\ checkouts'[c] = Idle
<1>1. checkouts \in [Checkouts -> CheckoutRec \cup {Idle}]
  BY DEF ServerInv, ServerTypes
<1> QED
  BY <1>1, IdleIs

(* A status inquiry arrives. *)
LEMMA StatusBeginsKeeps ==
    ASSUME ServerInv, NEW q \in Statuses, NEW n \in Names, StatusBegins(q, n),
           UNCHANGED <<pays, heap, store, checkouts, settlements, restarts>>
    PROVE  ServerInv'
<1> DEFINE x == [at |-> IF AnswersFromStore(n) THEN "answered" ELSE "asking", name |-> n,
                 holds |-> IF AnswersFromStore(n) THEN None ELSE store[n], copy |-> NoRec, pay |-> None,
                 status |-> IF AnswersFromStore(n) THEN heap[store[n]].status ELSE None,
                 began |-> IF store[n] = None THEN None ELSE heap[store[n]].status]
<1>1. statuses' = [statuses EXCEPT ![q] = x] /\ statuses \in [Statuses -> StatusRec \cup {Idle}]
  BY DEF StatusBegins, ServerInv, ServerTypes
<1>2. NoRec \in Rec /\ None \in Said /\ None \notin Final
  BY DEF NoRec, Rec, Said, Final, None
<1>3. store[n] \in Names \cup {None} /\ (store[n] # None => heap[store[n]].status \in Said)
  BY DEF ServerInv, ServerTypes, Rec
<1>4. x \in StatusRec
  BY <1>2, <1>3 DEF StatusRec, AnswersFromStore
<1>5. x.at = "asking" => x.began \notin Final
  BY <1>2, <1>3 DEF AnswersFromStore
<1>6. x.at \in {"answered", "asking"}
  OBVIOUS
<1> HIDE DEF x
<1>7. /\ statuses' \in [Statuses -> StatusRec \cup {Idle}] /\ statuses'[q] = x
      /\ \A r \in Statuses : r # q => statuses'[r] = statuses[r]
  BY <1>1, <1>4
<1>8. StatusOk(statuses'[q])
  BY <1>5, <1>6, <1>7 DEF StatusOk
<1>9. ServerTypes'
  BY <1>7 DEF ServerInv, ServerTypes
<1>10. \A c \in Checkouts : CheckoutOk(checkouts'[c])
  BY DEF ServerInv
<1> QED
  BY <1>7, <1>8, <1>9, <1>10, StatusesMove

(* A status inquiry is over. *)
LEMMA StatusEndsKeeps ==
    ASSUME ServerInv, NEW q \in Statuses, statuses' = [statuses EXCEPT ![q] = Idle],
           UNCHANGED <<pays, heap, store, checkouts, settlements, restarts>>
    PROVE  ServerInv'
<1>1. statuses \in [Statuses -> StatusRec \cup {Idle}]
  BY DEF ServerInv, ServerTypes
<1>2. /\ statuses' \in [Statuses -> StatusRec \cup {Idle}] /\ statuses'[q].at = "idle"
      /\ \A r \in Statuses : r # q => statuses'[r] = statuses[r]
  BY <1>1, IdleIs
<1>3. ServerTypes'
  BY <1>2 DEF ServerInv, ServerTypes
<1>4. \A c \in Checkouts : CheckoutOk(checkouts'[c])
  BY DEF ServerInv
<1> QED
  BY <1>2, <1>3, <1>4, StatusesMove

(* What a settlement does to the records and the handlers. *)
LEMMA SettlementBeginsIs ==
    ASSUME ServerInv, NEW s \in Settlements, NEW n \in Names, SettlementBegins(s, n)
    PROVE  /\ store' \in [Names -> Names \cup {None}] /\ heap' \in [Names -> Rec]
           /\ statuses' \in [Statuses -> StatusRec \cup {Idle}]
           /\ settlements' \in [Settlements -> SettlementRec \cup {Idle}]
           /\ \A q \in Statuses : /\ statuses'[q].at = statuses[q].at
                                  /\ statuses[q].at # "asking" => statuses'[q] = statuses[q]
                                  /\ statuses[q].at = "asking" => statuses'[q].began = statuses[q].began
           /\ \A m \in Names : store'[m] = store[m] \/ (store[n] = None /\ m = n /\ store'[m] = n)
           /\ \A m \in Names : \/ heap'[m] = heap[m]
                               \/ /\ m = store[n] /\ heap'[m].pay = heap[m].pay
                                  /\ heap'[m].ref = heap[m].ref /\ heap'[m].status = "succeeded"
                               \/ store[n] = None /\ m = n /\ heap'[m].status = "succeeded"
<1>1. /\ heap \in [Names -> Rec] /\ store \in [Names -> Names \cup {None}]
      /\ statuses \in [Statuses -> StatusRec \cup {Idle}]
      /\ settlements \in [Settlements -> SettlementRec \cup {Idle}]
  BY DEF ServerInv, ServerTypes
<1>2. settlements' \in [Settlements -> SettlementRec \cup {Idle}]
  <2>1. PICK r : r = IF store[n] # None /\ heap[store[n]].ref # None THEN heap[store[n]].ref ELSE n
    OBVIOUS
  <2>2. r \in Names
    BY <1>1, <2>1 DEF Rec, Names
  <2>3. [at |-> "forwarding", ref |-> r] \in SettlementRec
    BY <2>2 DEF SettlementRec
  <2>4. settlements' = [settlements EXCEPT ![s] = [at |-> "forwarding", ref |-> r]]
    BY <2>1 DEF SettlementBegins
  <2> QED
    BY <1>1, <2>3, <2>4
<1>3. CASE store[n] # None
  <2>1. store[n] \in Names /\ heap[store[n]] \in Rec
    BY <1>1, <1>3
  <2>2. /\ heap' = [heap EXCEPT ![store[n]] = [@ EXCEPT !.status = "succeeded"]]
        /\ store' = store /\ statuses' = statuses
    BY <1>3 DEF SettlementBegins
  <2>3. /\ heap'[store[n]] \in Rec
        /\ heap'[store[n]].pay = heap[store[n]].pay /\ heap'[store[n]].ref = heap[store[n]].ref
        /\ heap'[store[n]].status = "succeeded"
    BY <1>1, <2>1, <2>2 DEF Rec, Said, Known
  <2>4. heap' \in [Names -> Rec] /\ \A m \in Names : m # store[n] => heap'[m] = heap[m]
    BY <1>1, <2>1, <2>2, <2>3
  <2> QED
    BY <1>1, <1>2, <2>2, <2>3, <2>4
<1>4. CASE store[n] = None
  <2> DEFINE ss == statuses
             new == [pay |-> n, ref |-> None, status |-> "succeeded"]
  <2>1. new \in Rec /\ new.pay = n /\ new.status = "succeeded"
    BY DEF Rec, Said, Known
  <2>2. {n} \in SUBSET Names /\ ss \in [Statuses -> StatusRec \cup {Idle}] /\ ServerTypes
    BY <1>1 DEF ServerInv
  <2>3. PutUnder({n}, new, ss)
    BY <1>4 DEF SettlementBegins
  <2> HIDE DEF ss, new
  <2>4. PICK names \in SUBSET Names : names = {n}
    OBVIOUS
  <2>5. /\ store' \in [Names -> Names \cup {None}] /\ heap' \in [Names -> Rec]
        /\ \A m \in Names : store'[m] = IF m \in names THEN new.pay ELSE store[m]
        /\ heap'[new.pay] = new /\ \A m \in Names : m # new.pay => heap'[m] = heap[m]
        /\ statuses' \in [Statuses -> StatusRec \cup {Idle}]
        /\ \A q \in Statuses : /\ statuses'[q].at = ss[q].at
                               /\ ss[q].at # "asking" => statuses'[q] = ss[q]
                               /\ ss[q].at = "asking" => statuses'[q].began = ss[q].began
    <3>1. PutUnder(names, new, ss) /\ new.pay \in Names
      BY <2>1, <2>3, <2>4
    <3> QED
      BY <2>1, <2>2, <3>1, PutUnderIs
  <2>6. /\ \A m \in Names : store'[m] = store[m] \/ (store[n] = None /\ m = n /\ store'[m] = n)
        /\ \A m \in Names : heap'[m] = heap[m] \/ (store[n] = None /\ m = n /\ heap'[m].status = "succeeded")
    BY <1>4, <2>1, <2>4, <2>5
  <2> QED
    BY <1>2, <2>5, <2>6 DEF ss
<1> QED
  BY <1>3, <1>4

(* A settlement arrives. *)
LEMMA SettlementBeginsKeeps ==
    ASSUME ServerInv, NEW s \in Settlements, NEW n \in Names, SettlementBegins(s, n),
           UNCHANGED <<pays, checkouts, restarts>>
    PROVE  ServerInv'
<1>1. ServerTypes'
  BY SettlementBeginsIs DEF ServerInv, ServerTypes
<1>2. \A q \in Statuses : /\ statuses'[q].at = statuses[q].at
                          /\ statuses'[q].began = statuses[q].began
                          /\ statuses'[q].at = "told" => statuses'[q].pay = statuses[q].pay
  BY SettlementBeginsIs
<1>3. \A c \in Checkouts : CheckoutOk(checkouts'[c])
  BY DEF ServerInv
<1> QED
  BY <1>1, <1>2, <1>3, StatusesMove

(* A settlement is over. *)
LEMMA SettlementEndsKeeps ==
    ASSUME ServerInv, NEW s \in Settlements, settlements' = [settlements EXCEPT ![s] = Idle],
           UNCHANGED <<pays, heap, store, checkouts, statuses, restarts>>
    PROVE  ServerInv'
<1>1. settlements' \in [Settlements -> SettlementRec \cup {Idle}]
  BY DEF ServerInv, ServerTypes
<1> QED
  BY <1>1, PaysStay, PaysGoOnKeeps

(* One field of the form changes. *)
LEMMA FieldsAre ==
    ASSUME NEW g, FormShape(g), NEW x
    PROVE  /\ FormShape([g EXCEPT !.method = x]) /\ [g EXCEPT !.method = x].ref = g.ref
           /\ FormShape([g EXCEPT !.provider = x]) /\ [g EXCEPT !.provider = x].ref = g.ref
           /\ FormShape([g EXCEPT !.backend = x]) /\ [g EXCEPT !.backend = x].ref = g.ref
           /\ FormShape([g EXCEPT !.tab = x]) /\ [g EXCEPT !.tab = x].ref = g.ref
<1>1. FormShape([g EXCEPT !.method = x]) /\ [g EXCEPT !.method = x].ref = g.ref
  BY DEF FormShape
<1>2. FormShape([g EXCEPT !.provider = x]) /\ [g EXCEPT !.provider = x].ref = g.ref
  BY DEF FormShape
<1>3. FormShape([g EXCEPT !.backend = x]) /\ [g EXCEPT !.backend = x].ref = g.ref
  BY DEF FormShape
<1>4. FormShape([g EXCEPT !.tab = x]) /\ [g EXCEPT !.tab = x].ref = g.ref
  BY DEF FormShape
<1> QED
  BY <1>1, <1>2, <1>3, <1>4

(* Redrawing a form leaves what it shows in step with what it holds. *)
LEMMA RedrawIs ==
    ASSUME NEW g, FormShape(g), g.ref \in OrderRefs
    PROVE  DrawnForm(Redraw(g)) /\ Redraw(g).ref = g.ref
<1> DEFINE e == [g EXCEPT !.preview = Preview(g)]
           f == [e EXCEPT !.label = Label(g)]
<1>1. Redraw(g) = f
  BY DEF Redraw
<1>2. /\ FormShape(e) /\ e.product = g.product /\ e.method = g.method /\ e.provider = g.provider
      /\ e.carrier = g.carrier /\ e.backend = g.backend /\ e.tab = g.tab /\ e.ref = g.ref
      /\ e.preview = Preview(g)
  BY DEF FormShape
<1> HIDE DEF e
<1>3. /\ FormShape(f) /\ f.product = e.product /\ f.method = e.method /\ f.provider = e.provider
      /\ f.carrier = e.carrier /\ f.backend = e.backend /\ f.tab = e.tab /\ f.ref = e.ref
      /\ f.preview = e.preview /\ f.label = Label(g)
  BY <1>2 DEF FormShape
<1> HIDE DEF f
<1>4. Preview(f) = Preview(g) /\ Label(f) = Label(g)
  BY <1>2, <1>3 DEF Preview, Label
<1> QED
  BY <1>1, <1>2, <1>3, <1>4 DEF DrawnForm

(* The handlers of the form, each on a form of the right shape. *)
LEMMA WithMethodIs ==
    ASSUME NEW g, FormShape(g), g.ref \in OrderRefs, NEW m
    PROVE  DrawnForm(WithMethod(g, m)) /\ WithMethod(g, m).ref = g.ref
<1> DEFINE e == [g EXCEPT !.method = m]
           h == [e EXCEPT !.provider = ProviderOf(m)]
<1>1. WithMethod(g, m) = Redraw(h)
  BY DEF WithMethod
<1>2. FormShape(h) /\ h.ref = g.ref
  <2>1. FormShape(e) /\ e.ref = g.ref
    BY FieldsAre
  <2> HIDE DEF e
  <2> QED
    BY <2>1, FieldsAre
<1> HIDE DEF h
<1> QED
  BY <1>1, <1>2, RedrawIs

(* The wallet's carrier. *)
LEMMA WithCarrierIs ==
    ASSUME NEW g, FormShape(g), g.ref \in OrderRefs, NEW k
    PROVE  DrawnForm(WithCarrier(g, k)) /\ WithCarrier(g, k).ref = g.ref
<1> DEFINE h == [g EXCEPT !.carrier = k]
<1>1. FormShape(h) /\ h.ref = g.ref
  BY DEF FormShape
<1>2. WithCarrier(g, k) = Redraw(h)
  BY DEF WithCarrier
<1> HIDE DEF h
<1> QED
  BY <1>1, <1>2, RedrawIs

(* A fresh page. *)
LEMMA NewFormIs ==
    ASSUME NEW b, NEW r \in OrderRefs PROVE DrawnForm(NewForm(b, r)) /\ NewForm(b, r).ref = r
<1> DEFINE h == [product |-> "pro", method |-> "cards", provider |-> "paymob", carrier |-> "vodafone",
                 backend |-> b, tab |-> b, ref |-> r, preview |-> None, label |-> None]
<1>1. FormShape(h) /\ h.ref = r
  BY DEF FormShape
<1>2. NewForm(b, r) = Redraw(h)
  BY DEF NewForm
<1> HIDE DEF h
<1> QED
  BY <1>1, <1>2, RedrawIs

(* The tab and the reference are shown by the snippet only, so the button  *)
(* is left as it is.                                                       *)
LEMMA SnippetIs ==
    ASSUME NEW f, DrawnForm(f), NEW t, NEW r \in OrderRefs
    PROVE  /\ DrawnForm([f EXCEPT !.tab = t, !.preview = Preview([f EXCEPT !.tab = t])])
           /\ DrawnForm([f EXCEPT !.ref = r, !.preview = Preview([f EXCEPT !.ref = r])])
<1>1. DrawnForm([f EXCEPT !.tab = t, !.preview = Preview([f EXCEPT !.tab = t])])
  <2> DEFINE g == [f EXCEPT !.tab = t]
             h == [g EXCEPT !.preview = Preview(g)]
  <2>1. /\ FormShape(g) /\ g.product = f.product /\ g.method = f.method /\ g.provider = f.provider
        /\ g.carrier = f.carrier /\ g.backend = f.backend /\ g.tab = t /\ g.ref = f.ref
        /\ g.label = f.label
    BY DEF DrawnForm, FormShape
  <2>2. [f EXCEPT !.tab = t, !.preview = Preview([f EXCEPT !.tab = t])] = h
    OBVIOUS
  <2> HIDE DEF g
  <2>3. /\ FormShape(h) /\ h.product = g.product /\ h.method = g.method /\ h.provider = g.provider
        /\ h.carrier = g.carrier /\ h.backend = g.backend /\ h.tab = g.tab /\ h.ref = g.ref
        /\ h.label = g.label /\ h.preview = Preview(g)
    BY <2>1 DEF FormShape
  <2> HIDE DEF h
  <2>4. Preview(h) = Preview(g) /\ Label(h) = Label(f)
    BY <2>1, <2>3 DEF Preview, Label
  <2> QED
    BY <2>1, <2>2, <2>3, <2>4 DEF DrawnForm
<1>2. DrawnForm([f EXCEPT !.ref = r, !.preview = Preview([f EXCEPT !.ref = r])])
  <2> DEFINE g == [f EXCEPT !.ref = r]
             h == [g EXCEPT !.preview = Preview(g)]
  <2>1. /\ FormShape(g) /\ g.product = f.product /\ g.method = f.method /\ g.provider = f.provider
        /\ g.carrier = f.carrier /\ g.backend = f.backend /\ g.tab = f.tab /\ g.ref = r
        /\ g.label = f.label
    BY DEF DrawnForm, FormShape
  <2>2. [f EXCEPT !.ref = r, !.preview = Preview([f EXCEPT !.ref = r])] = h
    OBVIOUS
  <2> HIDE DEF g
  <2>3. /\ FormShape(h) /\ h.product = g.product /\ h.method = g.method /\ h.provider = g.provider
        /\ h.carrier = g.carrier /\ h.backend = g.backend /\ h.tab = g.tab /\ h.ref = g.ref
        /\ h.label = g.label /\ h.preview = Preview(g)
    BY <2>1 DEF FormShape
  <2> HIDE DEF h
  <2>4. Preview(h) = Preview(g) /\ Label(h) = Label(f)
    BY <2>1, <2>3 DEF Preview, Label
  <2> QED
    BY <2>1, <2>2, <2>3, <2>4 DEF DrawnForm
<1> QED
  BY <1>1, <1>2

(* The customer changes the form: what it shows follows, and one who       *)
(* checks out keeps the reference.                                         *)
LEMMA ChangeFormIs ==
    ASSUME DrawnForm(form), ChangeForm
    PROVE  DrawnForm(form') /\ (~use.browses => form'.ref = form.ref)
<1>1. FormShape(form) /\ form.ref \in OrderRefs
  BY DEF DrawnForm
<1> DEFINE f == form
<1>2. FormShape(f) /\ f.ref \in OrderRefs /\ DrawnForm(f)
  BY <1>1
<1>3. ASSUME NEW m, SelectPaymentMethod(m) PROVE DrawnForm(form') /\ form'.ref = form.ref
  <2>1. form' = WithMethod(f, m)
    BY <1>3 DEF SelectPaymentMethod
  <2> HIDE DEF f
  <2>2. DrawnForm(form') /\ form'.ref = f.ref
    BY <1>2, <2>1, WithMethodIs
  <2> QED
    BY <2>2 DEF f
<1>4. CASE ~use.browses
  BY <1>3, <1>4 DEF ChangeForm
<1>5. CASE use.browses
  <2>1. ASSUME NEW p, SelectProduct(p) PROVE DrawnForm(form')
    <3> DEFINE h == [form EXCEPT !.product = p]
    <3>1. FormShape(h) /\ h.ref = form.ref
      BY <1>1 DEF FormShape
    <3>2. form' = Redraw(h)
      BY <2>1 DEF SelectProduct
    <3> HIDE DEF h
    <3> QED
      BY <1>1, <3>1, <3>2, RedrawIs
  <2>2. ASSUME NEW b, SwitchBackend(b) PROVE DrawnForm(form')
    <3> DEFINE e == [f EXCEPT !.backend = b]
               h == [e EXCEPT !.tab = b]
    <3>1. FormShape(h) /\ h.ref = form.ref
      <4>1. FormShape(e) /\ e.ref = f.ref
        <5> HIDE DEF f
        <5> QED
          BY <1>2, FieldsAre
      <4> HIDE DEF e
      <4> QED
        BY <4>1, FieldsAre
    <3>2. form' = Redraw(h)
      BY <2>2 DEF SwitchBackend
    <3> HIDE DEF h
    <3> QED
      BY <1>1, <3>1, <3>2, RedrawIs
  <2>3. ASSUME NEW k, SelectWalletCarrier(k) PROVE DrawnForm(form')
    <3>1. form' = WithCarrier(f, k)
      BY <2>3 DEF SelectWalletCarrier
    <3> HIDE DEF f
    <3> QED
      BY <1>2, <3>1, WithCarrierIs
  <2>4. ASSUME NEW m, ApplyTestData(m) PROVE DrawnForm(form')
    <3> DEFINE h == WithMethod(f, m)
    <3>1. form' = WithCarrier(h, "vodafone") \/ form' = h
      BY <2>4 DEF ApplyTestData
    <3> HIDE DEF f
    <3>2. DrawnForm(h)
      BY <1>2, WithMethodIs
    <3>3. FormShape(h) /\ h.ref \in OrderRefs
      BY <3>2 DEF DrawnForm
    <3> HIDE DEF h
    <3> QED
      BY <3>1, <3>2, <3>3, WithCarrierIs
  <2>5. ASSUME NEW t, SelectSdkTab(t) PROVE DrawnForm(form')
    <3>1. form' = [f EXCEPT !.tab = t, !.preview = Preview([f EXCEPT !.tab = t])]
      BY <2>5 DEF SelectSdkTab
    <3>2. PICK r : r \in OrderRefs
      BY <1>1
    <3> HIDE DEF f
    <3> QED
      BY <1>2, <3>1, <3>2, SnippetIs
  <2>6. ASSUME NEW r \in OrderRefs, ChangeRef(r) PROVE DrawnForm(form')
    <3>1. form' = [f EXCEPT !.ref = r, !.preview = Preview([f EXCEPT !.ref = r])]
      BY <2>6 DEF ChangeRef
    <3> HIDE DEF f
    <3> QED
      BY <1>2, <3>1, SnippetIs
  <2> QED
    BY <1>3, <1>5, <2>1, <2>2, <2>3, <2>4, <2>5, <2>6 DEF ChangeForm, FormNext
<1> QED
  BY <1>4, <1>5

(* The panel keeps its place and the payment on it. *)
PanelKeeps(pg) ==
    /\ pg \in PageRec /\ pg.at = page.at /\ pg.back = page.back
    /\ pg.current = page.current /\ pg.shows = page.shows

(* What the answers do to the panel. *)
LEMMA PanelIs ==
    ASSUME page \in PageRec, NEW s \in Said
    PROVE  /\ PanelKeeps(page) /\ PanelKeeps([page EXCEPT !.errors = 0])
           /\ PanelKeeps(ShowStatus(page, s)) /\ PanelKeeps(CountError(page))
           /\ PanelKeeps(ShowSettled(page))
<1>1. PanelKeeps(page) /\ PanelKeeps([page EXCEPT !.errors = 0])
  BY DEF PanelKeeps, PageRec
<1>2. PanelKeeps(ShowStatus(page, s))
  <2>1. PICK b \in BOOLEAN : b = (page.polling /\ s \notin Final)
    OBVIOUS
  <2>2. PICK pg : pg = [page EXCEPT !.badge = s, !.errors = 0]
    OBVIOUS
  <2>3. pg \in PageRec /\ PanelKeeps(pg) /\ pg.polling = page.polling
    BY <2>2 DEF PanelKeeps, PageRec
  <2>4. ShowStatus(page, s) = [pg EXCEPT !.polling = b]
    BY <2>1, <2>2, <2>3 DEF ShowStatus
  <2> QED
    BY <2>3, <2>4 DEF PanelKeeps, PageRec
<1>3. PanelKeeps(CountError(page))
  <2>1. PICK e : e = IF page.errors < MaxPollErrors THEN page.errors + 1 ELSE page.errors
    OBVIOUS
  <2>2. e \in Nat
    <3>1. page.errors \in Nat
      BY DEF PageRec
    <3> QED
      BY <2>1, <3>1
  <2>3. PICK b \in BOOLEAN : b = (page.polling /\ e < MaxPollErrors)
    OBVIOUS
  <2>4. CountError(page) = [page EXCEPT !.errors = e, !.polling = b]
    BY <2>1, <2>3 DEF CountError
  <2> QED
    BY <2>2, <2>4 DEF PanelKeeps, PageRec
<1>4. PanelKeeps(ShowSettled(page))
  BY DEF PanelKeeps, PageRec, ShowSettled, Said, Known
<1> QED
  BY <1>1, <1>2, <1>3, <1>4

(* The answer to a checkout puts its payment on the panel. *)
LEMMA ShowCreatedIs ==
    ASSUME page \in PageRec, NEW p \in PayIds, NEW s \in Said, NEW a \in Actions
    PROVE  LET pg == ShowCreated(page, p, s, a)
           IN  /\ pg \in PageRec /\ pg.at = page.at /\ pg.back = page.back /\ pg.current = p
<1>1. PICK x : x = IF a = None THEN "unknown" ELSE a
  OBVIOUS
<1>2. x \in {"unknown", "code", "url"} /\ p \in Names \cup {None}
  BY <1>1 DEF Actions, Names
<1>3. ShowCreated(page, p, s, a) =
         [page EXCEPT !.current = p, !.badge = s, !.shows = x, !.polling = TRUE]
  BY <1>1 DEF ShowCreated
<1> QED
  BY <1>2, <1>3 DEF PageRec

(* A fresh page, left for the provider or come back. *)
LEMMA NewPageIs ==
    ASSUME NEW r \in OrderRefs
    PROVE  /\ NewPage \in PageRec /\ NewPage.at = "open" /\ NewPage.current = None
           /\ NewPage.shows = None /\ NewPage.back = None
           /\ LET pg == [NewPage EXCEPT !.at = "away", !.back = r]
              IN  pg \in PageRec /\ pg.at = "away" /\ pg.back = r /\ pg.current = None /\ pg.shows = None
           /\ LET pg == [NewPage EXCEPT !.current = r]
              IN  pg \in PageRec /\ pg.at = "open" /\ pg.current = r /\ pg.shows = None
BY DEF NewPage, PageRec, Said, Names

(* What is left alone when only the page goes on, or only the server. *)
LEMMA ServerStays ==
    ASSUME ServerInv, UNCHANGED <<pays, heap, store, checkouts, statuses, settlements, restarts>>
    PROVE  ServerInv'
BY DEF ServerInv, ServerTypes, PayOk, CheckoutOk, StatusOk

(* The page sends a checkout. *)
LEMMA SubmitKeeps == ASSUME StoreInv, NEW c \in Checkouts, Submit(c) PROVE StoreInv'
<1>1. ServerInv /\ form.ref \in OrderRefs /\ Basket \in Baskets /\ CheckoutBegins(c, form.ref, Basket)
  BY DEF StoreInv, DrawnForm, Submit
<1>2. PICK r \in OrderRefs, b \in Baskets : CheckoutBegins(c, r, b)
  BY <1>1
<1>3. ServerInv'
  BY <1>1, <1>2, CheckoutBeginsIs, CheckoutAloneKeeps DEF Submit
<1> QED
  BY <1>3 DEF StoreInv, PageTypes, DrawnForm, FormShape, Preview, Label, Submit

(* The page has the answer to a checkout. *)
LEMMA CheckoutAnsweredIs ==
    ASSUME StoreInv, NEW c \in Checkouts, CheckoutAnswered(c)
    PROVE  /\ page' \in PageRec /\ page'.at = page.at /\ page'.back = page.back
           /\ \/ page' = page
              \/ /\ c \in waits /\ checkouts[c].at = "answered"
                 /\ page'.current = checkouts[c].pay /\ checkouts[c].pay \in PayIds
<1>1. page \in PageRec
  BY DEF StoreInv, PageTypes
<1>2. CASE ~(c \in waits /\ checkouts[c].at = "answered")
  BY <1>1, <1>2 DEF CheckoutAnswered
<1>3. CASE c \in waits /\ checkouts[c].at = "answered"
  <2>1. checkouts[c] \in CheckoutRec /\ checkouts[c].pay \in PayIds
    BY <1>3, IdleIs DEF StoreInv, ServerInv, ServerTypes, CheckoutOk
  <2>2. checkouts[c].status \in Said /\ checkouts[c].action \in Actions
    BY <2>1 DEF CheckoutRec
  <2>3. PICK p \in PayIds, s \in Said, a \in Actions :
           p = checkouts[c].pay /\ page' = ShowCreated(page, p, s, a)
    BY <1>3, <2>1, <2>2 DEF CheckoutAnswered
  <2> QED
    BY <1>1, <1>3, <2>1, <2>3, ShowCreatedIs
<1> QED
  BY <1>2, <1>3

(* A checkout that was answered is over. *)
LEMMA CheckoutAnsweredKeeps ==
    ASSUME StoreInv, NEW c \in Checkouts, CheckoutAnswered(c) PROVE StoreInv'
<1>1. ServerInv'
  BY CheckoutEndsIs, CheckoutAloneKeeps DEF StoreInv, CheckoutAnswered
<1>2. PageTypes'
  BY CheckoutAnsweredIs DEF StoreInv, PageTypes
<1>3. form' = form
  BY DEF CheckoutAnswered
<1> QED
  BY <1>1, <1>2, <1>3 DEF StoreInv, DrawnForm, FormShape, Preview, Label

(* The poller asks, and the answer comes or does not. *)
LEMMA PollTickKeeps == ASSUME StoreInv, NEW q \in Statuses, PollTick(q) PROVE StoreInv'
<1>1. page.current \in Names /\ StatusBegins(q, page.current)
  BY DEF StoreInv, PageTypes, PageRec, PollTick
<1>2. PICK n \in Names : StatusBegins(q, n)
  BY <1>1
<1>3. ServerInv'
  BY <1>2, StatusBeginsKeeps DEF StoreInv, PollTick
<1> QED
  BY <1>3 DEF StoreInv, PageTypes, DrawnForm, FormShape, Preview, Label, PollTick

(* The panel after a poll. *)
LEMMA PollAnsweredIs ==
    ASSUME StoreInv, NEW q \in Statuses, PollAnswered(q) PROVE PanelKeeps(page')
<1>1. page \in PageRec /\ statuses[q] \in StatusRec
  BY IdleIs DEF StoreInv, PageTypes, PollAnswered, ServerInv, ServerTypes
<1>2. PICK s \in Said : s = statuses[q].status
  BY <1>1 DEF StatusRec
<1>3. \/ page' = page \/ page' = [page EXCEPT !.errors = 0]
      \/ page' = ShowStatus(page, s) \/ page' = CountError(page)
  BY <1>2 DEF PollAnswered
<1> QED
  BY <1>1, <1>3, PanelIs

(* A poll that was answered is over. *)
LEMMA PollAnsweredKeeps == ASSUME StoreInv, NEW q \in Statuses, PollAnswered(q) PROVE StoreInv'
<1>1. ServerInv'
  BY StatusEndsKeeps DEF StoreInv, PollAnswered
<1>2. PageTypes'
  BY PollAnsweredIs DEF StoreInv, PageTypes, PanelKeeps
<1>3. form' = form
  BY DEF PollAnswered
<1> QED
  BY <1>1, <1>2, <1>3 DEF StoreInv, DrawnForm, FormShape, Preview, Label

(* A poll whose answer is lost. *)
LEMMA PollLostIs == ASSUME StoreInv, NEW q, PollLost(q) PROVE PanelKeeps(page')
<1>1. PICK s : s \in Said
  BY DEF Said
<1> QED
  BY <1>1, PanelIs DEF StoreInv, PageTypes, PollLost

(* The server never notices. *)
LEMMA PollLostKeeps == ASSUME StoreInv, NEW q, PollLost(q) PROVE StoreInv'
<1>1. ServerInv'
  BY ServerStays DEF StoreInv, PollLost
<1>2. PageTypes'
  BY PollLostIs DEF StoreInv, PageTypes, PanelKeeps
<1>3. form' = form
  BY DEF PollLost
<1> QED
  BY <1>1, <1>2, <1>3 DEF StoreInv, DrawnForm, FormShape, Preview, Label

(* The customer settles by hand. *)
LEMMA SettleKeeps == ASSUME StoreInv, NEW s \in Settlements, Settle(s) PROVE StoreInv'
<1>1. page.current \in Names /\ SettlementBegins(s, page.current)
  BY DEF StoreInv, PageTypes, PageRec, Settle
<1>2. PICK n \in Names : SettlementBegins(s, n)
  BY <1>1
<1>3. ServerInv'
  BY <1>2, SettlementBeginsKeeps DEF StoreInv, Settle
<1> QED
  BY <1>3 DEF StoreInv, PageTypes, DrawnForm, FormShape, Preview, Label, Settle

(* The panel after a settlement. *)
LEMMA SettlementAnsweredIs ==
    ASSUME StoreInv, NEW s, SettlementAnswered(s) PROVE PanelKeeps(page')
<1>1. PICK x : x \in Said
  BY DEF Said
<1> QED
  BY <1>1, PanelIs DEF StoreInv, PageTypes, SettlementAnswered

(* A settlement that was answered is over. *)
LEMMA SettlementAnsweredKeeps ==
    ASSUME StoreInv, NEW s \in Settlements, SettlementAnswered(s) PROVE StoreInv'
<1>1. ServerInv'
  BY SettlementEndsKeeps DEF StoreInv, SettlementAnswered
<1>2. PageTypes'
  BY SettlementAnsweredIs DEF StoreInv, PageTypes, PanelKeeps
<1>3. form' = form
  BY DEF SettlementAnswered
<1> QED
  BY <1>1, <1>2, <1>3 DEF StoreInv, DrawnForm, FormShape, Preview, Label

(* The page is left for the provider. *)
LEMMA RedirectKeeps == ASSUME StoreInv, Redirect PROVE StoreInv'
<1>1. ServerInv'
  BY ServerStays DEF StoreInv, Redirect, serverVars
<1>2. PICK r \in OrderRefs : r = form.ref
  BY DEF StoreInv, DrawnForm
<1>3. page' = [NewPage EXCEPT !.at = "away", !.back = r]
  BY <1>2 DEF Redirect
<1>4. PageTypes'
  BY <1>3, NewPageIs DEF PageTypes
<1>5. form' = form
  BY DEF Redirect
<1> QED
  BY <1>1, <1>4, <1>5 DEF StoreInv, DrawnForm, FormShape, Preview, Label

(* A fresh page has a fresh form. *)
LEMMA FreshFormIs ==
    ASSUME \E r \in UnusedRefs : form' = NewForm("typescript", r) PROVE DrawnForm(form)'
<1>1. PICK r \in OrderRefs : form' = NewForm("typescript", r)
  BY DEF UnusedRefs
<1>2. PICK f : f = form'
  OBVIOUS
<1>3. DrawnForm(f)
  BY <1>1, <1>2, NewFormIs
<1> QED
  BY <1>2, <1>3 DEF DrawnForm, FormShape, Preview, Label

(* The customer comes back from the provider. *)
LEMMA ReturnFromKeeps == ASSUME StoreInv, NEW q \in Statuses, ReturnFrom(q) PROVE StoreInv'
<1>1. page.back \in OrderRefs /\ StatusBegins(q, page.back)
  BY DEF StoreInv, PageTypes, ReturnFrom
<1>2. PICK n \in OrderRefs : n = page.back /\ StatusBegins(q, n)
  BY <1>1
<1>3. ServerInv'
  BY <1>2, StatusBeginsKeeps DEF StoreInv, ReturnFrom, Names
<1>4. page' = [NewPage EXCEPT !.current = n]
  BY <1>2 DEF ReturnFrom
<1>5. PageTypes'
  BY <1>4, NewPageIs DEF PageTypes
<1>6. DrawnForm(form)'
  BY FreshFormIs DEF ReturnFrom
<1> QED
  BY <1>3, <1>5, <1>6 DEF StoreInv

(* The customer comes back having given up. *)
LEMMA ReturnCancelledKeeps == ASSUME StoreInv, ReturnCancelled PROVE StoreInv'
<1>1. ServerInv'
  BY ServerStays DEF StoreInv, ReturnCancelled, serverVars
<1>2. PICK r : r \in OrderRefs
  BY DEF ReturnCancelled, UnusedRefs
<1>3. PageTypes'
  BY <1>2, NewPageIs DEF PageTypes, ReturnCancelled
<1>4. DrawnForm(form)'
  BY FreshFormIs DEF ReturnCancelled
<1> QED
  BY <1>1, <1>3, <1>4 DEF StoreInv

(* The form changes, and nothing else. *)
LEMMA ChangeFormKeeps == ASSUME StoreInv, ChangeForm PROVE StoreInv'
<1>1. ServerInv'
  BY ServerStays DEF StoreInv, ChangeForm, serverVars
<1>2. PICK f : f = form'
  OBVIOUS
<1>3. DrawnForm(f)
  BY <1>2, ChangeFormIs DEF StoreInv
<1>4. DrawnForm(form)'
  BY <1>2, <1>3 DEF DrawnForm, FormShape, Preview, Label
<1>5. page' = page
  BY DEF ChangeForm, FormNext
<1> QED
  BY <1>1, <1>4, <1>5 DEF StoreInv, PageTypes

(* The shop starts with no payment, no record and a fresh page. *)
LEMMA StoreStarts == StoreInit => StoreInv
<1> SUFFICES ASSUME StoreInit PROVE StoreInv
  OBVIOUS
<1>1. NoRec \in Rec
  BY DEF NoRec, Rec, Said
<1>2. NoPay \in PayRec /\ PayOk(NoPay)
  BY DEF NoPay, PayRec, PayOk, Said, Known, Actions, None
<1>3. ServerTypes
  <2> DEFINE r == NoRec
             p == NoPay
             i == Idle
  <2>1. heap = [n \in Names |-> r] /\ pays = [x \in PayIds |-> p] /\ store = [n \in Names |-> None]
    BY DEF StoreInit, ServerInit
  <2>2. /\ checkouts = [c \in Checkouts |-> i] /\ statuses = [q \in Statuses |-> i]
        /\ settlements = [s \in Settlements |-> i] /\ restarts \in Int
    BY DEF StoreInit, ServerInit
  <2>3. r \in Rec /\ p \in PayRec /\ i = Idle
    BY <1>1, <1>2
  <2> HIDE DEF r, p, i
  <2> QED
    BY <2>1, <2>2, <2>3 DEF ServerTypes
<1>4. ServerInv
  BY <1>2, <1>3, IdleIs DEF ServerInv, StoreInit, ServerInit
<1>5. PICK r \in OrderRefs, m \in use.methods :
         r = use.ref /\ form = WithMethod(NewForm("typescript", r), m)
  BY UsesAssumption DEF StoreInit
<1>6. DrawnForm(form)
  <2>1. PICK g : g = NewForm("typescript", r)
    OBVIOUS
  <2>2. DrawnForm(g)
    BY <2>1, NewFormIs
  <2>3. DrawnForm(WithMethod(g, m))
    BY <2>2, WithMethodIs DEF DrawnForm
  <2> QED
    BY <1>5, <2>1, <2>3
<1>7. PageTypes
  BY <1>5, NewPageIs DEF PageTypes, StoreInit
<1> QED
  BY <1>4, <1>6, <1>7 DEF StoreInv

(* Every step of the shop keeps the invariant. *)
LEMMA StoreNextKeeps == StoreInv /\ [StoreNext]_storeVars => StoreInv'
<1> SUFFICES ASSUME StoreInv, [StoreNext]_storeVars PROVE StoreInv'
  OBVIOUS
<1>1. ASSUME ServerInv', UNCHANGED pageVars PROVE StoreInv'
  BY <1>1 DEF StoreInv, PageTypes, DrawnForm, FormShape, Preview, Label, pageVars
<1>2. CASE ServerNext /\ UNCHANGED <<pageVars, use>>
  BY <1>1, <1>2, ServerNextKeeps DEF StoreInv
<1>3. CASE UNCHANGED storeVars
  BY <1>1, <1>3, ServerStays DEF StoreInv, storeVars, serverVars
<1>4. CASE PageNext
  BY <1>4, SubmitKeeps, CheckoutAnsweredKeeps, PollTickKeeps, PollAnsweredKeeps, PollLostKeeps,
     ReturnFromKeeps, SettleKeeps, SettlementAnsweredKeeps, RedirectKeeps, ReturnCancelledKeeps,
     ChangeFormKeeps DEF PageNext
<1> QED
  BY <1>2, <1>3, <1>4 DEF StoreNext

(* So it holds of every behaviour, whatever is fair. *)
LEMMA StoreInvHolds == StoreSpec => []StoreInv
<1> QED
  BY StoreStarts, StoreNextKeeps, PTL DEF StoreSpec

(* What the snippet and the button show is what the form would send: every *)
(* handler of app.js that changes the selection redraws what shows it.     *)
THEOREM FormIsDrawn == StoreSpec => []DrawnIsCurrent
<1>1. StoreInv => DrawnIsCurrent
  BY DEF StoreInv, DrawnForm, DrawnIsCurrent
<1> QED
  BY <1>1, StoreInvHolds, PTL

(* A name keeps its final record. *)
FinalKept(n) ==
    store[n] # None /\ heap[store[n]].status \in Final =>
        store'[n] # None /\ heap'[store'[n]].status \in Final

(* The reasons a name may lose it. *)
Overlap ==
    \/ restarts' # restarts
    \/ \E c \in Checkouts : checkouts[c].at # "answered" /\ checkouts'[c].at = "answered"
    \/ \E q \in Statuses : /\ statuses[q].at = "told" /\ statuses'[q].at = "answered"
                           /\ statuses[q].began \notin Final

(* The server's steps that write records are of these, or keep them. *)
LEMMA ServerUndoes == ASSUME StoreInv, ServerNext, NEW n \in Names PROVE FinalKept(n) \/ Overlap
<1>1. ASSUME UNCHANGED <<heap, store>> PROVE FinalKept(n)
  BY <1>1 DEF FinalKept
<1>2. ASSUME NEW c \in Checkouts, SavePayment(c) PROVE Overlap
  BY <1>2, SavePaymentIs DEF StoreInv, Overlap
<1>3. ASSUME NEW q \in Statuses, StatusStores(q) PROVE Overlap
  <2>1. statuses[q].at = "told" /\ statuses[q].began \notin Final
    BY <1>3 DEF StatusStores, StoreInv, ServerInv, StatusOk
  <2>2. statuses \in [Statuses -> StatusRec \cup {Idle}]
    BY DEF StoreInv, ServerInv, ServerTypes
  <2>3. PICK ss : ss = [statuses EXCEPT ![q].at = "answered"]
    OBVIOUS
  <2>4. ss[q].at = "answered"
    BY <2>1, <2>2, <2>3, IdleIs DEF StatusRec
  <2>5. statuses' = Replaced(statuses[q].pay, ss)
    BY <1>3, <2>3 DEF StatusStores, PutUnder
  <2>6. statuses'[q] = ss[q]
    BY <2>4, <2>5 DEF Replaced
  <2> QED
    BY <2>1, <2>4, <2>6 DEF Overlap
<1>4. ASSUME Restart PROVE Overlap
  <2>1. restarts \in Int
    BY DEF StoreInv, ServerInv, ServerTypes
  <2>2. restarts' = restarts - 1
    BY <1>4 DEF Restart
  <2>3. restarts' # restarts
    BY <2>1, <2>2
  <2> QED
    BY <2>3 DEF Overlap
<1>5. ASSUME NEW c \in Checkouts,
             \/ GatewayBegins(c) \/ GatewayAnswers(c) \/ GatewayReplays(c) \/ GatewayThrows(c)
             \/ Rejected(c) \/ TryDirect(c) \/ GenerateSandboxPayment(c)
      PROVE  FinalKept(n)
  <2>1. UNCHANGED <<heap, store>>
    BY <1>5 DEF GatewayBegins, GatewayAnswers, GatewayReplays, GatewayThrows, Rejected, TryDirect,
                GenerateSandboxPayment
  <2> QED
    BY <1>1, <2>1
<1>6. ASSUME NEW q \in Statuses, GatewayTellsStatus(q) \/ StatusFallsBack(q) PROVE FinalKept(n)
  BY <1>1, <1>6 DEF GatewayTellsStatus, StatusFallsBack
<1>7. ASSUME NEW s \in Settlements, SettlementForwarded(s) PROVE FinalKept(n)
  BY <1>1, <1>7 DEF SettlementForwarded
<1>8. ASSUME NEW p \in PayIds,
             ProviderDecides(p) \/ GatewayLearns(p) \/ SyncServed(p) \/ GatewayFinishes(p)
      PROVE  FinalKept(n)
  BY <1>1, <1>8 DEF ProviderDecides, GatewayLearns, SyncServed, GatewayFinishes
<1> QED
  BY <1>2, <1>3, <1>4, <1>5, <1>6, <1>7, <1>8 DEF ServerNext

(* The page writes records only by settling, which makes them final. *)
LEMMA PageUndoesNothing == ASSUME StoreInv, PageNext, NEW n \in Names PROVE FinalKept(n)
<1>1. ASSUME UNCHANGED <<heap, store>> PROVE FinalKept(n)
  BY <1>1 DEF FinalKept
<1>2. ASSUME NEW s \in Settlements, Settle(s) PROVE FinalKept(n)
  <2>1. page.current \in Names /\ SettlementBegins(s, page.current)
    BY <1>2 DEF StoreInv, PageTypes, PageRec, Settle
  <2>2. PICK m \in Names : SettlementBegins(s, m)
    BY <2>1
  <2>3. /\ store[n] # None => store'[n] = store[n]
        /\ store[n] # None => heap'[store[n]] = heap[store[n]] \/ heap'[store[n]].status = "succeeded"
    <3>1. store \in [Names -> Names \cup {None}] /\ ServerInv
      BY DEF StoreInv, ServerInv, ServerTypes
    <3> QED
      BY <2>2, <3>1, SettlementBeginsIs
  <2> QED
    BY <2>3 DEF FinalKept, Final
<1>3. ASSUME NEW c \in Checkouts, Submit(c) \/ CheckoutAnswered(c) PROVE FinalKept(n)
  BY <1>1, <1>3 DEF Submit, CheckoutAnswered
<1>4. ASSUME NEW q \in Statuses, PollTick(q) \/ PollAnswered(q) \/ PollLost(q) \/ ReturnFrom(q)
      PROVE  FinalKept(n)
  BY <1>1, <1>4 DEF PollTick, PollAnswered, PollLost, ReturnFrom, serverVars
<1>5. ASSUME NEW s \in Settlements, SettlementAnswered(s) PROVE FinalKept(n)
  BY <1>1, <1>5 DEF SettlementAnswered
<1>6. ASSUME Redirect \/ ReturnCancelled \/ ChangeForm PROVE FinalKept(n)
  BY <1>1, <1>6 DEF Redirect, ReturnCancelled, ChangeForm, serverVars
<1> QED
  BY <1>2, <1>3, <1>4, <1>5, <1>6 DEF PageNext

(* A name whose record was final loses that status only to a restart, to a *)
(* new checkout, or to a status inquiry that had found nothing final when  *)
(* it began: /api/payment-status answers from the store once it is final.  *)
THEOREM FinalsAreOvertaken == StoreSpec => FinalUndoneOnlyByOverlap
<1>1. StoreInv /\ [StoreNext]_storeVars =>
      [\A n \in Names :
          /\ store[n] # None /\ heap[store[n]].status \in Final
          /\ ~(store'[n] # None /\ heap'[store'[n]].status \in Final)
          => \/ restarts' # restarts
             \/ \E c \in Checkouts : checkouts[c].at # "answered" /\ checkouts'[c].at = "answered"
             \/ \E q \in Statuses : /\ statuses[q].at = "told" /\ statuses'[q].at = "answered"
                                    /\ statuses[q].began \notin Final]_serverVars
  <2> SUFFICES ASSUME StoreInv, [StoreNext]_storeVars, serverVars' # serverVars, NEW n \in Names
               PROVE  FinalKept(n) \/ Overlap
    BY DEF FinalKept, Overlap
  <2>1. StoreNext
    BY DEF storeVars
  <2> QED
    BY <2>1, ServerUndoes, PageUndoesNothing DEF StoreNext
<1> QED
  BY <1>1, StoreInvHolds, PTL DEF StoreSpec, FinalUndoneOnlyByOverlap

(* What must be shown of a step of the server for the page to be served.   *)
LEMMA ServedStill ==
    ASSUME StoreInv, FoundInv, UNCHANGED <<pageVars, use, restarts>>,
           \A c \in Checkouts : checkouts[c].at # "idle" =>
               checkouts'[c].at # "idle" /\ checkouts'[c].ref = checkouts[c].ref,
           \A c \in Checkouts : RefOk(checkouts[c])',
           restarts = use.restarts =>
               /\ \A n \in Names : NameOk(n)' /\ (store[n] # None => store'[n] # None)
               /\ \A c \in Checkouts : StoredOk(checkouts[c])'
    PROVE  FoundInv'
<1>1. WaitsOk'
  BY DEF FoundInv, WaitsOk, pageVars
<1>2. ASSUME restarts = use.restarts PROVE PageOk'
  <2>1. PageOk /\ \A n \in Names : store[n] # None => store'[n] # None
    BY <1>2 DEF FoundInv
  <2>2. /\ page.current # None => page.current \in Names
        /\ page.at = "away" => page.back \in Names
        /\ form.ref \in Names
    BY DEF StoreInv, PageTypes, PageRec, DrawnForm, Names
  <2>3. page' = page /\ form' = form
    BY DEF pageVars
  <2> QED
    BY <2>1, <2>2, <2>3 DEF PageOk
<1>3. use' = use /\ restarts' = restarts
  OBVIOUS
<1> QED
  BY <1>1, <1>2, <1>3 DEF FoundInv

(* A checkout on its way, that has not stored its payment. *)
CheckoutGoes(c) ==
    /\ \A d \in Checkouts : d # c => checkouts'[d] = checkouts[d]
    /\ checkouts[c].at # "idle" /\ checkouts'[c].at \notin {"idle", "answered"}
    /\ checkouts'[c].ref = checkouts[c].ref
    /\ checkouts'[c].at \in {"creating", "replied", "made"} =>
          /\ pays'[checkouts'[c].pay].kind # None
          /\ pays'[checkouts'[c].pay].ref = checkouts[c].ref
    /\ \A p \in PayIds : pays[p].kind # None => pays'[p].kind = pays[p].kind /\ pays'[p].ref = pays[p].ref
    /\ UNCHANGED <<heap, store, restarts>>

(* It leaves the records, and the payments they are of, alone. *)
LEMMA CheckoutGoesFound ==
    ASSUME StoreInv, FoundInv, UNCHANGED <<pageVars, use>>, NEW c \in Checkouts, CheckoutGoes(c)
    PROVE  FoundInv'
<1>1. ASSUME NEW d \in Checkouts PROVE RefOk(checkouts[d])'
  <2>1. CASE d = c
    BY <2>1 DEF RefOk, CheckoutGoes
  <2>2. CASE d # c
    <3>1. checkouts'[d] = checkouts[d] /\ RefOk(checkouts[d]) /\ CheckoutOk(checkouts[d])
      BY <2>2 DEF CheckoutGoes, FoundInv, StoreInv, ServerInv
    <3> QED
      BY <3>1 DEF RefOk, CheckoutOk, CheckoutGoes
  <2> QED
    BY <2>1, <2>2
<1>2. ASSUME restarts = use.restarts, NEW n \in Names
      PROVE  NameOk(n)' /\ (store[n] # None => store'[n] # None)
  BY <1>2 DEF FoundInv, NameOk, CheckoutGoes
<1>3. ASSUME restarts = use.restarts, NEW d \in Checkouts PROVE StoredOk(checkouts[d])'
  BY <1>3 DEF FoundInv, StoredOk, CheckoutGoes
<1>4. restarts' = restarts
  BY DEF CheckoutGoes
<1>5. \A d \in Checkouts : checkouts[d].at # "idle" =>
         checkouts'[d].at # "idle" /\ checkouts'[d].ref = checkouts[d].ref
  BY DEF CheckoutGoes
<1> QED
  BY <1>1, <1>2, <1>3, <1>4, <1>5, ServedStill

(* The steps of a checkout before it stores. *)
LEMMA CheckoutsGo ==
    ASSUME StoreInv, FoundInv, NEW c \in Checkouts,
           \/ GatewayBegins(c) \/ GatewayAnswers(c) \/ GatewayReplays(c) \/ GatewayThrows(c)
           \/ Rejected(c) \/ TryDirect(c) \/ GenerateSandboxPayment(c)
    PROVE  CheckoutGoes(c)
<1>1. /\ checkouts \in [Checkouts -> CheckoutRec \cup {Idle}] /\ checkouts[c].at # "idle"
      /\ pays \in [PayIds -> PayRec] /\ ServerInv
  BY DEF GatewayBegins, GatewayAnswers, GatewayReplays, GatewayThrows, Rejected, TryDirect,
         GenerateSandboxPayment, StoreInv, ServerInv, ServerTypes
<1>2. checkouts[c] \in CheckoutRec
  BY <1>1, IdleIs
<1>3. ASSUME NEW x, x.ref = checkouts[c].ref, x.kind # None, UnusedIds # {},
             pays' = [pays EXCEPT ![NewId] = x]
      PROVE  /\ pays'[NewId].kind # None /\ pays'[NewId].ref = checkouts[c].ref
             /\ \A p \in PayIds : pays[p].kind # None => pays'[p] = pays[p]
  BY <1>1, <1>3, NewIdIs
<1>4. ASSUME NEW a \in {"fallback", "sandbox", "gateway"}, checkouts' = [checkouts EXCEPT ![c].at = a]
      PROVE  /\ \A d \in Checkouts : d # c => checkouts'[d] = checkouts[d]
             /\ checkouts'[c].at = a /\ checkouts'[c].ref = checkouts[c].ref
  BY <1>1, <1>2, <1>4 DEF CheckoutRec
<1>5. CASE GatewayBegins(c)
  <2>1. PICK new : new = NewId
    OBVIOUS
  <2>2. PICK x : /\ x.ref = checkouts[c].ref /\ x.kind # None
                 /\ pays' = [pays EXCEPT ![NewId] = x]
    BY <1>5 DEF GatewayBegins, None
  <2>3. /\ checkouts' = [checkouts EXCEPT ![c].at = "creating", ![c].pay = new]
        /\ UnusedIds # {} /\ UNCHANGED <<heap, store, restarts>>
    BY <1>5, <2>1 DEF GatewayBegins
  <2>4. /\ \A d \in Checkouts : d # c => checkouts'[d] = checkouts[d]
        /\ checkouts'[c].at = "creating" /\ checkouts'[c].ref = checkouts[c].ref
        /\ checkouts'[c].pay = new
    BY <1>1, <1>2, <2>3 DEF CheckoutRec
  <2> QED
    BY <1>1, <1>3, <2>1, <2>2, <2>3, <2>4 DEF CheckoutGoes
<1>12. CASE GatewayAnswers(c)
  <2>1. /\ PaysGoOn /\ InFlight(checkouts[c].pay)
        /\ \A d \in Checkouts : d # c => checkouts'[d] = checkouts[d]
        /\ checkouts'[c].pay = checkouts[c].pay /\ checkouts'[c].ref = checkouts[c].ref
        /\ checkouts'[c].at \in {"replied", "fallback"}
        /\ UNCHANGED <<heap, store, restarts>>
    BY <1>1, <1>12, GatewayAnswersIs
  <2>2. PICK p \in PayIds : p = checkouts[c].pay /\ pays[p].kind = "gateway"
    BY <2>1 DEF InFlight, GatewayPays
  <2>3. pays[p].ref = checkouts[c].ref
    BY <1>12, <2>2 DEF FoundInv, RefOk, GatewayAnswers
  <2> QED
    BY <1>1, <2>1, <2>2, <2>3 DEF CheckoutGoes, PaysGoOn, None
<1>6. CASE GatewayReplays(c)
  <2>1. PICK p \in SameKey(c) :
           checkouts' = [checkouts EXCEPT ![c].at = "replied", ![c].pay = p,
                            ![c].status = pays[p].status, ![c].action = pays[p].action]
    BY <1>6 DEF GatewayReplays
  <2>2. pays[p].kind # None /\ pays[p].ref = checkouts[c].ref
    BY DEF SameKey, GatewayPays, None
  <2>3. /\ \A d \in Checkouts : d # c => checkouts'[d] = checkouts[d]
        /\ checkouts'[c].at = "replied" /\ checkouts'[c].ref = checkouts[c].ref
        /\ checkouts'[c].pay = p
    BY <1>1, <1>2, <2>1 DEF CheckoutRec
  <2>4. UNCHANGED <<pays, heap, store, restarts>>
    BY <1>6 DEF GatewayReplays
  <2> QED
    BY <1>1, <2>2, <2>3, <2>4 DEF CheckoutGoes
<1>7. CASE GatewayThrows(c)
  <2>1. PICK a \in {"fallback", "sandbox", "gateway"} : checkouts' = [checkouts EXCEPT ![c].at = a]
    BY <1>7 DEF GatewayThrows
  <2>2. UNCHANGED <<pays, heap, store, restarts>>
    BY <1>7 DEF GatewayThrows
  <2> QED
    BY <1>1, <1>4, <2>1, <2>2 DEF CheckoutGoes
<1>8. CASE Rejected(c)
  BY <1>1, <1>4, <1>8 DEF Rejected, CheckoutGoes
<1>9. ASSUME NEW k \in {"direct", "sandbox"}, NEW a, OwnOrder(c, k, a), UNCHANGED <<heap, store, restarts>>
      PROVE  CheckoutGoes(c)
  <2>1. PICK x : /\ x.ref = checkouts[c].ref /\ x.kind # None
                 /\ pays' = [pays EXCEPT ![NewId] = x]
    BY <1>9 DEF OwnOrder, None
  <2>2. PICK new : new = NewId
    OBVIOUS
  <2>3. /\ UnusedIds # {}
        /\ checkouts' = [checkouts EXCEPT ![c].at = "made", ![c].pay = new,
                            ![c].status = "pending", ![c].action = a]
    BY <1>9, <2>2 DEF OwnOrder
  <2>4. /\ \A d \in Checkouts : d # c => checkouts'[d] = checkouts[d]
        /\ checkouts'[c].at = "made" /\ checkouts'[c].ref = checkouts[c].ref
        /\ checkouts'[c].pay = new
    BY <1>1, <1>2, <2>3 DEF CheckoutRec
  <2> QED
    BY <1>1, <1>3, <1>9, <2>1, <2>2, <2>3, <2>4 DEF CheckoutGoes
<1>10. CASE TryDirect(c)
  <2>1. UNCHANGED <<heap, store, restarts>>
    BY <1>10 DEF TryDirect
  <2>2. \/ \E a : OwnOrder(c, "direct", a)
        \/ checkouts' = [checkouts EXCEPT ![c].at = "sandbox"] /\ pays' = pays
    BY <1>10 DEF TryDirect
  <2>3. CASE \E a : OwnOrder(c, "direct", a)
    BY <1>9, <2>1, <2>3
  <2>4. CASE checkouts' = [checkouts EXCEPT ![c].at = "sandbox"] /\ pays' = pays
    BY <1>1, <1>4, <2>1, <2>4 DEF CheckoutGoes
  <2> QED
    BY <2>2, <2>3, <2>4
<1>11. CASE GenerateSandboxPayment(c)
  <2>1. UNCHANGED <<heap, store, restarts>> /\ \E a : OwnOrder(c, "sandbox", a)
    BY <1>11 DEF GenerateSandboxPayment
  <2> QED
    BY <1>9, <2>1
<1> QED
  BY <1>5, <1>6, <1>7, <1>8, <1>10, <1>11, <1>12

(* A record of a payment there is, put under the names of that payment,    *)
(* keeps every name with the record of its payment.                        *)
LEMMA PutUnderNames ==
    ASSUME ServerTypes, \A n \in Names : NameOk(n), UNCHANGED pays,
           NEW p \in PayIds, pays[p].kind # None, NEW r \in OrderRefs \cup {None}, pays[p].ref = r,
           NEW new \in Rec, new.pay = p, new.ref = r,
           NEW ss \in [Statuses -> StatusRec \cup {Idle}], PutUnder(NamesOf(p, r), new, ss)
    PROVE  /\ \A n \in Names : NameOk(n)' /\ (store[n] # None => store'[n] # None)
           /\ store'[p] # None /\ (r # None => store'[r] # None)
<1>1. PICK names \in SUBSET Names : names = NamesOf(p, r)
  BY NamesOfIs
<1>2. p \in Names /\ p # None
  BY ServerAssumption DEF Names
<1>3. /\ \A n \in Names : store'[n] = IF n \in names THEN p ELSE store[n]
      /\ heap'[p] = new /\ \A n \in Names : n # p => heap'[n] = heap[n]
  <2>1. PutUnder(names, new, ss) /\ new.pay \in Names
    BY <1>1, <1>2
  <2>2. /\ \A n \in Names : store'[n] = IF n \in names THEN new.pay ELSE store[n]
        /\ heap'[new.pay] = new /\ \A n \in Names : n # new.pay => heap'[n] = heap[n]
    BY <2>1 DEF PutUnder, ServerTypes
  <2> QED
    BY <2>2
<1>4. \A n \in names : n = p \/ n = r
  BY <1>1 DEF NamesOf
<1>5. ASSUME NEW n \in Names PROVE NameOk(n)'
  <2>1. CASE store'[n] = p
    <3>1. n = p \/ n = r
      <4>1. CASE n \in names
        BY <4>1, <1>4
      <4>2. CASE n \notin names
        BY <1>2, <1>3, <2>1, <4>2 DEF NameOk
      <4> QED
        BY <4>1, <4>2
    <3> QED
      BY <1>3, <2>1, <3>1 DEF NameOk
  <2>2. CASE store'[n] # p
    <3>1. store'[n] = store[n] /\ NameOk(n)
      BY <1>3, <2>2
    <3>2. store[n] # None => heap'[store[n]] = heap[store[n]]
      BY <1>3, <2>2, <3>1 DEF ServerTypes
    <3> QED
      BY <3>1, <3>2 DEF NameOk
  <2> QED
    BY <2>1, <2>2
<1>6. \A n \in Names : store[n] # None => store'[n] # None
  BY <1>2, <1>3
<1>7. store'[p] # None /\ (r # None => store'[r] # None)
  <2>1. p \in names /\ (r # None => r \in names /\ r \in Names)
    BY <1>1, NamesOfIs DEF Names
  <2> QED
    BY <1>2, <1>3, <2>1
<1> QED
  BY <1>5, <1>6, <1>7

(* A checkout stores its payment. *)
LEMMA SavePaymentFound ==
    ASSUME StoreInv, FoundInv, UNCHANGED <<pageVars, use>>, NEW c \in Checkouts, SavePayment(c)
    PROVE  FoundInv'
<1>0. ServerInv
  BY DEF StoreInv
<1> DEFINE new == [pay |-> checkouts[c].pay, ref |-> checkouts[c].ref,
                   status |-> checkouts[c].status]
<1>1. /\ new \in Rec /\ checkouts[c].pay \in PayIds /\ checkouts[c].ref \in OrderRefs
      /\ checkouts[c].at \in {"replied", "made"}
      /\ PutUnder(NamesOf(checkouts[c].pay, checkouts[c].ref), new, statuses)
      /\ \A d \in Checkouts : d # c => checkouts'[d] = checkouts[d]
      /\ checkouts'[c].at = "answered" /\ checkouts'[c].pay = checkouts[c].pay
      /\ checkouts'[c].ref = checkouts[c].ref
      /\ UNCHANGED <<pays, settlements, restarts>>
  BY <1>0, SavePaymentIs
<1>2. PICK p \in PayIds, r \in OrderRefs : p = checkouts[c].pay /\ r = checkouts[c].ref
  BY <1>1
<1>3. new.pay = p /\ new.ref = r
  BY <1>2
<1> HIDE DEF new
<1>4. pays[p].kind # None /\ pays[p].ref = r
  BY <1>1, <1>2 DEF FoundInv, RefOk
<1>5. ASSUME NEW d \in Checkouts PROVE RefOk(checkouts[d])'
  BY <1>1, <1>2, <1>4 DEF FoundInv, RefOk
<1>6. ASSUME restarts = use.restarts
      PROVE  /\ \A n \in Names : NameOk(n)' /\ (store[n] # None => store'[n] # None)
             /\ store'[p] # None /\ store'[r] # None
  <2> DEFINE ss == statuses
  <2>1. /\ ServerTypes /\ ss \in [Statuses -> StatusRec \cup {Idle}]
        /\ \A n \in Names : NameOk(n)
    BY <1>0, <1>6 DEF FoundInv, ServerInv, ServerTypes
  <2>2. PutUnder(NamesOf(p, r), new, ss) /\ r # None /\ r \in OrderRefs \cup {None}
    BY <1>1, <1>2, ServerAssumption DEF Names
  <2> HIDE DEF ss
  <2> QED
    BY <1>1, <1>3, <1>4, <2>1, <2>2, PutUnderNames
<1>7. ASSUME restarts = use.restarts, NEW d \in Checkouts PROVE StoredOk(checkouts[d])'
  <2>1. CASE d = c
    BY <1>1, <1>2, <1>6, <1>7, <2>1 DEF StoredOk
  <2>2. CASE d # c /\ checkouts[d].at = "answered"
    <3>1. checkouts[d].pay \in Names /\ checkouts[d].ref \in Names
      BY <1>0, <2>2, IdleIs DEF ServerInv, ServerTypes, CheckoutOk, CheckoutRec, Names
    <3>2. checkouts'[d] = checkouts[d] /\ StoredOk(checkouts[d])
      BY <1>1, <1>7, <2>2 DEF FoundInv
    <3> QED
      BY <1>6, <1>7, <2>2, <3>1, <3>2 DEF StoredOk
  <2>3. CASE d # c /\ checkouts[d].at # "answered"
    BY <1>1, <2>3 DEF StoredOk
  <2> QED
    BY <2>1, <2>2, <2>3
<1>8. \A d \in Checkouts : checkouts[d].at # "idle" =>
         checkouts'[d].at # "idle" /\ checkouts'[d].ref = checkouts[d].ref
  BY <1>1
<1> QED
  BY <1>1, <1>5, <1>6, <1>7, <1>8, ServedStill

(* What is left when the checkouts, payments and restarts are. *)
LEMMA RecordsFound ==
    ASSUME StoreInv, FoundInv, UNCHANGED <<pageVars, use, restarts, checkouts>>,
           \A p \in PayIds : pays'[p].kind = pays[p].kind /\ pays'[p].ref = pays[p].ref,
           restarts = use.restarts =>
               \A n \in Names : NameOk(n)' /\ (store[n] # None => store'[n] # None)
    PROVE  FoundInv'
<1>1. ASSUME NEW d \in Checkouts PROVE RefOk(checkouts[d])'
  <2>1. RefOk(checkouts[d]) /\ CheckoutOk(checkouts[d])
    BY DEF FoundInv, StoreInv, ServerInv
  <2> QED
    BY <2>1 DEF RefOk, CheckoutOk
<1>2. ASSUME restarts = use.restarts, NEW d \in Checkouts PROVE StoredOk(checkouts[d])'
  <2>1. CASE checkouts[d].at # "answered"
    BY <2>1 DEF StoredOk
  <2>2. CASE checkouts[d].at = "answered"
    <3>1. checkouts[d].pay \in Names /\ checkouts[d].ref \in Names
      BY <2>2, IdleIs DEF StoreInv, ServerInv, ServerTypes, CheckoutOk, CheckoutRec, Names
    <3>2. StoredOk(checkouts[d])
      BY <1>2 DEF FoundInv
    <3> QED
      BY <1>2, <2>2, <3>1, <3>2 DEF StoredOk
  <2> QED
    BY <2>1, <2>2
<1> QED
  BY <1>1, <1>2, ServedStill

(* A status inquiry stores what the gateway told it. *)
LEMMA StatusStoresFound ==
    ASSUME StoreInv, FoundInv, UNCHANGED <<pageVars, use>>, NEW q \in Statuses, StatusStores(q)
    PROVE  FoundInv'
<1>0. ServerInv
  BY DEF StoreInv
<1> DEFINE new == [pay |-> statuses[q].pay, ref |-> pays[statuses[q].pay].ref,
                   status |-> statuses[q].status]
           ss == [statuses EXCEPT ![q].at = "answered"]
<1>1. /\ statuses[q].pay \in PayIds /\ pays[statuses[q].pay].ref \in OrderRefs \cup {None}
      /\ new \in Rec /\ ss \in [Statuses -> StatusRec \cup {Idle}]
      /\ PutUnder(NamesOf(statuses[q].pay, pays[statuses[q].pay].ref), new, ss)
  BY <1>0, StatusStoresIs
<1>2. PICK p \in PayIds, r \in OrderRefs \cup {None} : p = statuses[q].pay /\ r = pays[p].ref
  BY <1>1
<1>3. new.pay = p /\ new.ref = r /\ pays[p].kind # None
  BY <1>2 DEF StoreInv, ServerInv, StatusOk, StatusStores, None
<1>4. PutUnder(NamesOf(p, r), new, ss)
  BY <1>1, <1>2
<1> HIDE DEF new, ss
<1>5. UNCHANGED <<pays, checkouts, restarts>>
  BY DEF StatusStores
<1>6. ASSUME restarts = use.restarts
      PROVE  \A n \in Names : NameOk(n)' /\ (store[n] # None => store'[n] # None)
  <2>1. ServerTypes /\ \A n \in Names : NameOk(n)
    BY <1>0, <1>6 DEF FoundInv, ServerInv
  <2> QED
    BY <1>1, <1>2, <1>3, <1>4, <1>5, <2>1, PutUnderNames
<1> QED
  BY <1>5, <1>6, RecordsFound

(* The payments go on, the records do not. *)
LEMMA PaysGoOnFound ==
    ASSUME StoreInv, FoundInv, UNCHANGED <<pageVars, use, restarts, checkouts, heap, store>>, PaysGoOn
    PROVE  FoundInv'
<1>1. \A p \in PayIds : pays'[p].kind = pays[p].kind /\ pays'[p].ref = pays[p].ref
  BY DEF PaysGoOn
<1>2. ASSUME restarts = use.restarts, NEW n \in Names PROVE NameOk(n)'
  <2>1. NameOk(n)
    BY <1>2 DEF FoundInv
  <2> QED
    BY <1>1, <2>1 DEF NameOk
<1> QED
  BY <1>1, <1>2, RecordsFound

(* A restart ends what is promised: fewer are left than there were.        *)
LEMMA RestartFound ==
    ASSUME StoreInv, FoundInv, UNCHANGED <<pageVars, use>>, Restart PROVE FoundInv'
<1>1. restarts' < use.restarts /\ restarts' # use.restarts
  <2>1. restarts \in Int /\ use.restarts \in Int /\ restarts <= use.restarts /\ restarts' = restarts - 1
    BY DEF StoreInv, ServerInv, ServerTypes, FoundInv, Restart
  <2> QED
    BY <2>1
<1>2. ASSUME NEW c \in Checkouts
      PROVE  \/ checkouts'[c] = Idle /\ checkouts[c].at = "idle"
             \/ checkouts'[c].at = "dead" /\ checkouts'[c].ref = checkouts[c].ref
  <2>1. CASE checkouts[c].at = "idle"
    BY <2>1 DEF Restart
  <2>2. CASE checkouts[c].at # "idle"
    <3>1. checkouts[c] \in CheckoutRec /\ checkouts'[c] = [checkouts[c] EXCEPT !.at = "dead"]
      BY <2>2, IdleIs DEF Restart, StoreInv, ServerInv, ServerTypes
    <3> QED
      BY <3>1 DEF CheckoutRec
  <2> QED
    BY <2>1, <2>2
<1>3. ASSUME NEW c \in Checkouts PROVE RefOk(checkouts[c])'
  BY <1>2, IdleIs DEF RefOk
<1>4. WaitsOk'
  BY <1>2, IdleIs DEF WaitsOk, FoundInv, pageVars
<1>5. use' = use /\ use.restarts \in Int
  BY DEF FoundInv
<1>6. restarts' <= use'.restarts /\ restarts' # use'.restarts
  <2>1. restarts \in Int /\ restarts' = restarts - 1
    BY DEF StoreInv, ServerInv, ServerTypes, Restart
  <2> QED
    BY <1>1, <1>5, <2>1
<1> QED
  BY <1>3, <1>4, <1>5, <1>6 DEF FoundInv

(* Every step of the server serves the page. *)
LEMMA ServerFound ==
    ASSUME StoreInv, FoundInv, ServerNext, UNCHANGED <<pageVars, use>> PROVE FoundInv'
<1>0. ServerInv
  BY DEF StoreInv
<1>1. ASSUME NEW c \in Checkouts,
             \/ GatewayBegins(c) \/ GatewayAnswers(c) \/ GatewayReplays(c) \/ GatewayThrows(c)
             \/ Rejected(c) \/ TryDirect(c) \/ GenerateSandboxPayment(c)
      PROVE  FoundInv'
  BY <1>1, CheckoutsGo, CheckoutGoesFound
<1>2. ASSUME NEW q \in Statuses, GatewayTellsStatus(q) \/ StatusFallsBack(q) PROVE FoundInv'
  <2>1. UNCHANGED <<heap, store, checkouts, restarts>>
    BY <1>2 DEF GatewayTellsStatus, StatusFallsBack
  <2>2. CASE GatewayTellsStatus(q)
    BY <1>0, <2>1, <2>2, GatewayTellsIs, PaysGoOnFound
  <2>3. CASE StatusFallsBack(q)
    BY <1>0, <2>1, <2>3, PaysStay, PaysGoOnFound DEF StatusFallsBack
  <2> QED
    BY <1>2, <2>2, <2>3
<1>3. ASSUME NEW s \in Settlements, SettlementForwarded(s) PROVE FoundInv'
  <2>1. UNCHANGED <<heap, store, checkouts, restarts>>
    BY <1>3 DEF SettlementForwarded
  <2> QED
    BY <1>0, <1>3, <2>1, SettlementForwardedIs, PaysGoOnFound
<1>4. ASSUME NEW p \in PayIds,
             ProviderDecides(p) \/ GatewayLearns(p) \/ SyncServed(p) \/ GatewayFinishes(p)
      PROVE  FoundInv'
  <2>1. UNCHANGED <<heap, store, checkouts, restarts>>
    BY <1>4 DEF ProviderDecides, GatewayLearns, SyncServed, GatewayFinishes
  <2> QED
    BY <1>0, <1>4, <2>1, PaymentGoesOnIs, GatewayFinishesIs, PaysGoOnFound
<1> QED
  BY <1>1, <1>2, <1>3, <1>4, SavePaymentFound, StatusStoresFound, RestartFound DEF ServerNext

(* What must be shown of a step of the page that leaves payments, records  *)
(* and checkouts alone.                                                    *)
LEMMA PageAloneFound ==
    ASSUME FoundInv, UNCHANGED <<pays, heap, store, checkouts, restarts, use>>,
           WaitsOk', restarts = use.restarts => PageOk'
    PROVE  FoundInv'
<1>1. ASSUME NEW c \in Checkouts PROVE RefOk(checkouts[c])'
  BY DEF FoundInv, RefOk
<1>2. ASSUME restarts = use.restarts, NEW n \in Names PROVE NameOk(n)'
  BY <1>2 DEF FoundInv, NameOk
<1>3. ASSUME restarts = use.restarts, NEW c \in Checkouts PROVE StoredOk(checkouts[c])'
  BY <1>3 DEF FoundInv, StoredOk
<1>4. restarts' = restarts /\ use' = use
  OBVIOUS
<1> QED
  BY <1>1, <1>2, <1>3, <1>4 DEF FoundInv

(* The page waits for no more checkouts, and the panel keeps its payment. *)
LEMMA PanelFound ==
    ASSUME FoundInv, UNCHANGED <<pays, heap, store, checkouts, restarts, use, form>>,
           PanelKeeps(page'), waits' \cap Checkouts \subseteq waits
    PROVE  FoundInv'
<1>1. WaitsOk'
  BY DEF FoundInv, WaitsOk, PanelKeeps
<1>2. ASSUME restarts = use.restarts PROVE PageOk'
  <2>1. PageOk
    BY <1>2 DEF FoundInv
  <2> QED
    BY <2>1 DEF PageOk, PanelKeeps
<1> QED
  BY <1>1, <1>2, PageAloneFound

(* The page sends a checkout under the reference it shows. *)
LEMMA SubmitFound == ASSUME StoreInv, FoundInv, NEW c \in Checkouts, Submit(c) PROVE FoundInv'
<1>1. ServerInv /\ form.ref \in OrderRefs /\ Basket \in Baskets /\ CheckoutBegins(c, form.ref, Basket)
  BY DEF StoreInv, DrawnForm, Submit
<1>2. PICK r \in OrderRefs, b \in Baskets : r = form.ref /\ CheckoutBegins(c, r, b)
  BY <1>1
<1>3. /\ \A d \in Checkouts : d # c => checkouts'[d] = checkouts[d]
      /\ checkouts'[c].at = "gateway" /\ checkouts'[c].ref = form.ref
  BY <1>1, <1>2, CheckoutBeginsIs
<1>4. /\ UNCHANGED <<pays, heap, store, restarts, form, page, use>> /\ waits' = waits \cup {c}
      /\ ~use.browses /\ waits \cap Checkouts = {}
  BY DEF Submit
<1>5. WaitsOk'
  BY <1>3, <1>4 DEF WaitsOk
<1>6. ASSUME NEW d \in Checkouts PROVE RefOk(checkouts[d])'
  BY <1>3, <1>4 DEF FoundInv, RefOk
<1>7. ASSUME restarts = use.restarts
      PROVE  PageOk' /\ (\A n \in Names : NameOk(n)') /\ (\A d \in Checkouts : StoredOk(checkouts[d])')
  <2>1. PageOk /\ (\A n \in Names : NameOk(n)) /\ (\A d \in Checkouts : StoredOk(checkouts[d]))
    BY <1>7 DEF FoundInv
  <2>2. PageOk'
    BY <1>4, <2>1 DEF PageOk
  <2>3. ASSUME NEW n \in Names PROVE NameOk(n)'
    BY <1>4, <2>1 DEF NameOk
  <2>4. ASSUME NEW d \in Checkouts PROVE StoredOk(checkouts[d])'
    BY <1>3, <1>4, <2>1 DEF StoredOk
  <2> QED
    BY <2>2, <2>3, <2>4
<1> QED
  BY <1>4, <1>5, <1>6, <1>7 DEF FoundInv

(* The payment the answer puts on the panel was stored before the answer,  *)
(* under its id and under the reference the page will come back with.      *)
LEMMA CheckoutAnsweredFound ==
    ASSUME StoreInv, FoundInv, NEW c \in Checkouts, CheckoutAnswered(c) PROVE FoundInv'
<1>1. /\ \A d \in Checkouts : d # c => checkouts'[d] = checkouts[d]
      /\ checkouts'[c].at = "idle"
  <2>1. ServerInv /\ checkouts' = [checkouts EXCEPT ![c] = Idle]
    BY DEF StoreInv, CheckoutAnswered
  <2> QED
    BY <2>1, CheckoutEndsIs, IdleIs
<1>2. UNCHANGED <<pays, heap, store, restarts, form, use>> /\ waits' = waits \ {c}
  BY DEF CheckoutAnswered
<1>3. /\ page'.at = page.at /\ page'.back = page.back
      /\ \/ page' = page
         \/ /\ c \in waits /\ checkouts[c].at = "answered"
            /\ page'.current = checkouts[c].pay
  BY CheckoutAnsweredIs
<1>4. WaitsOk'
  BY <1>1, <1>2, <1>3 DEF FoundInv, WaitsOk
<1>5. ASSUME NEW d \in Checkouts PROVE RefOk(checkouts[d])'
  BY <1>1, <1>2 DEF FoundInv, RefOk
<1>6. ASSUME restarts = use.restarts
      PROVE  PageOk' /\ (\A n \in Names : NameOk(n)') /\ (\A d \in Checkouts : StoredOk(checkouts[d])')
  <2>1. PageOk /\ (\A n \in Names : NameOk(n)) /\ (\A d \in Checkouts : StoredOk(checkouts[d]))
    BY <1>6 DEF FoundInv
  <2>2. PageOk'
    <3>1. CASE page' = page
      BY <1>2, <2>1, <3>1 DEF PageOk
    <3>2. CASE c \in waits /\ checkouts[c].at = "answered" /\ page'.current = checkouts[c].pay
      <4>1. store[checkouts[c].pay] # None /\ store[checkouts[c].ref] # None
        BY <2>1, <3>2 DEF StoredOk
      <4>2. checkouts[c].ref = form.ref
        BY <3>2 DEF FoundInv, WaitsOk
      <4> QED
        BY <1>2, <1>3, <2>1, <3>2, <4>1, <4>2 DEF PageOk
    <3> QED
      BY <1>3, <3>1, <3>2
  <2>3. ASSUME NEW n \in Names PROVE NameOk(n)'
    BY <1>2, <2>1 DEF NameOk
  <2>4. ASSUME NEW d \in Checkouts PROVE StoredOk(checkouts[d])'
    BY <1>1, <1>2, <2>1 DEF StoredOk
  <2> QED
    BY <2>2, <2>3, <2>4
<1> QED
  BY <1>2, <1>4, <1>5, <1>6 DEF FoundInv

(* The poller asks and is answered. *)
LEMMA PollFound ==
    ASSUME StoreInv, FoundInv, NEW q \in Statuses, PollTick(q) \/ PollAnswered(q) \/ PollLost(q)
    PROVE  FoundInv'
<1>1. UNCHANGED <<pays, heap, store, checkouts, restarts, use, form>>
  BY DEF PollTick, PollAnswered, PollLost, serverVars
<1>2. waits' \cap Checkouts \subseteq waits
  BY ServerAssumption DEF PollTick, PollAnswered, PollLost
<1>3. PanelKeeps(page')
  <2>1. CASE PollTick(q)
    BY <2>1 DEF PollTick, PanelKeeps, StoreInv, PageTypes
  <2> QED
    BY <2>1, PollAnsweredIs, PollLostIs
<1> QED
  BY <1>1, <1>2, <1>3, PanelFound

(* A settlement finds the record of the payment shown, and changes it in   *)
(* place: the server keeps who it is of.                                   *)
LEMMA SettleFound == ASSUME StoreInv, FoundInv, NEW s \in Settlements, Settle(s) PROVE FoundInv'
<1>1. /\ UNCHANGED <<pays, checkouts, restarts, form, page, use>> /\ waits' = waits \cup {s}
      /\ page.current # None
  BY DEF Settle
<1>2. page.current \in Names /\ SettlementBegins(s, page.current)
  BY DEF StoreInv, PageTypes, PageRec, Settle
<1>3. PICK n \in Names : n = page.current /\ SettlementBegins(s, n)
  BY <1>2
<1>4. WaitsOk'
  BY <1>1, ServerAssumption DEF FoundInv, WaitsOk
<1>5. ASSUME NEW d \in Checkouts PROVE RefOk(checkouts[d])'
  BY <1>1 DEF FoundInv, RefOk
<1>6. ASSUME restarts = use.restarts
      PROVE  PageOk' /\ (\A m \in Names : NameOk(m)') /\ (\A d \in Checkouts : StoredOk(checkouts[d])')
  <2>1. PageOk /\ (\A m \in Names : NameOk(m)) /\ (\A d \in Checkouts : StoredOk(checkouts[d]))
    BY <1>6 DEF FoundInv
  <2>2. store[n] # None
    BY <1>1, <1>3, <2>1 DEF PageOk
  <2>3. store' = store
    BY <1>3, <2>2 DEF SettlementBegins
  <2>4. \A m \in Names : heap'[m].pay = heap[m].pay /\ heap'[m].ref = heap[m].ref
    <3>1. ServerInv
      BY DEF StoreInv
    <3> QED
      BY <1>3, <2>2, <3>1, SettlementBeginsIs
  <2>5. ASSUME NEW m \in Names PROVE NameOk(m)'
    <3>1. NameOk(m) /\ (store[m] # None => store[m] \in Names)
      BY <2>1 DEF StoreInv, ServerInv, ServerTypes
    <3> QED
      BY <1>1, <2>3, <2>4, <3>1 DEF NameOk
  <2>6. PageOk' /\ \A d \in Checkouts : StoredOk(checkouts[d])'
    BY <1>1, <2>1, <2>3 DEF PageOk, StoredOk
  <2> QED
    BY <2>5, <2>6
<1> QED
  BY <1>1, <1>4, <1>5, <1>6 DEF FoundInv

(* A settlement is answered. *)
LEMMA SettlementAnsweredFound ==
    ASSUME StoreInv, FoundInv, NEW s \in Settlements, SettlementAnswered(s) PROVE FoundInv'
<1>1. UNCHANGED <<pays, heap, store, checkouts, restarts, use, form>> /\ waits' = waits \ {s}
  BY DEF SettlementAnswered
<1> QED
  BY <1>1, SettlementAnsweredIs, PanelFound

(* The page goes, and comes back on the reference it went with. *)
LEMMA TravelFound ==
    ASSUME StoreInv, FoundInv, Redirect \/ ReturnCancelled \/ \E q \in Statuses : ReturnFrom(q)
    PROVE  FoundInv'
<1>1. UNCHANGED <<pays, heap, store, checkouts, restarts, use>> /\ waits' \cap Checkouts = {}
  BY ServerAssumption DEF Redirect, ReturnCancelled, ReturnFrom, serverVars
<1>2. ~use.browses
  BY DEF Redirect, ReturnCancelled, ReturnFrom, FoundInv, WaitsOk, None
<1>3. WaitsOk'
  BY <1>1, <1>2 DEF WaitsOk
<1>4. ASSUME restarts = use.restarts PROVE PageOk'
  <2>1. PageOk
    BY <1>4 DEF FoundInv
  <2>2. CASE Redirect
    <3>1. PICK r \in OrderRefs : r = form.ref
      BY DEF StoreInv, DrawnForm
    <3>2. page' = [NewPage EXCEPT !.at = "away", !.back = r] /\ store[r] # None
      BY <2>1, <2>2, <3>1 DEF Redirect, PageOk
    <3>3. page'.back = r /\ page'.current = None /\ page'.shows = None
      BY <3>2, NewPageIs
    <3> QED
      BY <1>1, <3>2, <3>3 DEF PageOk, None
  <2>3. CASE ReturnCancelled
    <3>1. PICK r : r \in OrderRefs
      BY <2>3 DEF ReturnCancelled, UnusedRefs
    <3>2. page' = NewPage
      BY <2>3 DEF ReturnCancelled
    <3>3. page'.at = "open" /\ page'.current = None /\ page'.shows = None
      BY <3>1, <3>2, NewPageIs
    <3> QED
      BY <3>3 DEF PageOk, None
  <2>4. CASE \E q \in Statuses : ReturnFrom(q)
    <3>1. PICK r \in OrderRefs : r = page.back
      BY <2>4 DEF StoreInv, PageTypes, ReturnFrom
    <3>2. page' = [NewPage EXCEPT !.current = r] /\ store[r] # None
      BY <2>1, <2>4, <3>1 DEF ReturnFrom, PageOk
    <3>3. page'.at = "open" /\ page'.current = r /\ page'.shows = None
      BY <3>2, NewPageIs
    <3> QED
      BY <1>1, <3>2, <3>3 DEF PageOk, None
  <2> QED
    BY <2>2, <2>3, <2>4
<1> QED
  BY <1>1, <1>3, <1>4, PageAloneFound

(* One who checks out keeps the reference; one who browses has no payment. *)
LEMMA ChangeFormFound == ASSUME StoreInv, FoundInv, ChangeForm PROVE FoundInv'
<1>1. UNCHANGED <<pays, heap, store, checkouts, restarts, use, page, waits>>
  BY DEF ChangeForm, FormNext, serverVars
<1>2. form'.ref = form.ref \/ use.browses
  BY ChangeFormIs DEF StoreInv
<1>3. WaitsOk'
  BY <1>1, <1>2 DEF FoundInv, WaitsOk
<1>4. ASSUME restarts = use.restarts PROVE PageOk'
  <2>1. PageOk /\ (use.browses => page.shows = None)
    BY <1>4 DEF FoundInv, WaitsOk
  <2> QED
    BY <1>1, <1>2, <2>1 DEF PageOk, None
<1> QED
  BY <1>1, <1>3, <1>4, PageAloneFound

(* At the start there is nothing to find. *)
LEMMA FoundStarts == StoreInit => FoundInv
<1> SUFFICES ASSUME StoreInit PROVE FoundInv
  OBVIOUS
<1>1. /\ \A c \in Checkouts : checkouts[c] = Idle
      /\ \A n \in Names : store[n] = None
      /\ page = NewPage /\ waits = {} /\ restarts = use.restarts /\ restarts \in Int
  BY DEF StoreInit, ServerInit
<1>2. page.at = "open" /\ page.current = None /\ page.shows = None
  BY <1>1 DEF NewPage
<1>3. WaitsOk /\ PageOk
  BY <1>1, <1>2 DEF WaitsOk, PageOk, None
<1>4. \A c \in Checkouts : RefOk(checkouts[c]) /\ StoredOk(checkouts[c])
  BY <1>1, IdleIs DEF RefOk, StoredOk
<1>5. \A n \in Names : NameOk(n)
  BY <1>1 DEF NameOk
<1>6. use.restarts \in Int /\ restarts <= use.restarts
  BY <1>1
<1> QED
  BY <1>3, <1>4, <1>5, <1>6 DEF FoundInv

(* Every step of the shop keeps what is shown to be found. *)
LEMMA FoundKeeps == StoreInv /\ FoundInv /\ [StoreNext]_storeVars => FoundInv'
<1> SUFFICES ASSUME StoreInv, FoundInv, [StoreNext]_storeVars PROVE FoundInv'
  OBVIOUS
<1>1. CASE ServerNext /\ UNCHANGED <<pageVars, use>>
  BY <1>1, ServerFound
<1>2. CASE UNCHANGED storeVars
  <2>1. UNCHANGED <<pays, heap, store, checkouts, restarts, use, pageVars>> /\ ServerInv
    BY <1>2 DEF storeVars, serverVars, StoreInv
  <2> QED
    BY <2>1, PaysStay, PaysGoOnFound
<1>3. CASE PageNext
  BY <1>3, SubmitFound, CheckoutAnsweredFound, PollFound, SettleFound, SettlementAnsweredFound,
     TravelFound, ChangeFormFound DEF PageNext
<1> QED
  BY <1>1, <1>2, <1>3 DEF StoreNext

(* The payment on the page, by its id or after a return by its merchant    *)
(* reference, is one the server of the demo finds in its Map, unless that  *)
(* was lost in a restart: savePayment stores under every name before the   *)
(* page hears of one.                                                      *)
THEOREM ShownPaymentsAreFound == StoreSpec => []ShownIsFound
<1>1. StoreInv /\ FoundInv => ShownIsFound
  <2> SUFFICES ASSUME StoreInv, FoundInv, page.current # None, restarts = use.restarts
               PROVE  /\ store[page.current] # None
                      /\ LET r == heap[store[page.current]]
                         IN  r.pay = page.current \/ r.ref = page.current
    BY DEF ShownIsFound
  <2>1. page.current \in Names
    BY DEF StoreInv, PageTypes, PageRec
  <2>2. store[page.current] # None /\ NameOk(page.current)
    BY <2>1 DEF FoundInv, PageOk
  <2> QED
    BY <2>2 DEF NameOk
<1> QED
  BY <1>1, FoundStarts, FoundKeeps, StoreInvHolds, PTL DEF StoreSpec

------------------------------------------------------------------------------
(***************************************************************************)
(*            One open order for a reference and a basket                  *)
(***************************************************************************)

(* The gateway has a row for the reference, and nothing to do for the      *)
(* basket: this is what makes an order of the server's own the only one.   *)
Shut(r, b) ==
    /\ \E g \in PayIds : pays[g].kind = "gateway" /\ pays[g].ref = r
    /\ \A g \in PayIds : pays[g].kind = "gateway" /\ pays[g].ref = r /\ pays[g].basket = b =>
          pays[g].truth # None /\ pays[g].action = None

(* One row per key. *)
OneKey ==
    \A p, g \in PayIds :
        pays[p].kind = "gateway" /\ pays[g].kind = "gateway" /\ pays[p].ref = pays[g].ref => p = g

(* The row a checkout was answered with is the one it asked for. *)
ItsRow(x) ==
    /\ x.pay \in PayIds /\ pays[x.pay].kind = "gateway"
    /\ pays[x.pay].ref = x.ref /\ pays[x.pay].basket = x.basket

AskedOk(x) ==
    /\ x.at = "creating" => ItsRow(x)
    /\ x.at = "replied" => /\ ItsRow(x) /\ pays[x.pay].truth # None
                           /\ x.action = None => pays[x.pay].action = None
    /\ x.at \in {"fallback", "sandbox"} => Shut(x.ref, x.basket)

(* Every call the gateway is in the middle of has its caller. *)
FlightOk ==
    \A p \in PayIds : pays[p].kind = "gateway" /\ pays[p].truth = None =>
        \E c \in Checkouts : checkouts[c].at = "creating" /\ checkouts[c].pay = p

OwnOk ==
    \A p \in PayIds : pays[p].kind \in {"direct", "sandbox"} => Shut(pays[p].ref, pays[p].basket)

(* No two checkouts in flight have one reference: the page waits for one,  *)
(* and a page it comes back to has a reference of its own.                 *)
AloneOk ==
    /\ \A c, d \in Checkouts :
          /\ checkouts[c].at # "idle" /\ checkouts[d].at # "idle"
          /\ checkouts[c].ref = checkouts[d].ref
          => c = d
    /\ \A c \in Checkouts : checkouts[c].at # "idle" =>
          /\ ~use.browses
          /\ c \in waits \/ checkouts[c].ref # form.ref \/ page.at = "away"

OrdersOk ==
    /\ OneKey /\ FlightOk /\ OwnOk /\ AloneOk
    /\ \A c \in Checkouts : AskedOk(checkouts[c])

OrdersInv ==
    /\ faults \in Int /\ use.faults \in Int /\ faults <= use.faults
    /\ Undisturbed => OrdersOk

(* What a step keeps of the rows there are, and of the keys they have. *)
RowsStay ==
    /\ \A g \in PayIds : pays[g].kind = "gateway" =>
          /\ pays'[g].kind = "gateway" /\ pays'[g].ref = pays[g].ref
          /\ pays'[g].basket = pays[g].basket
          /\ pays[g].truth # None => pays'[g].truth # None
          /\ pays[g].truth # None /\ pays[g].action = None => pays'[g].action = None
    /\ \A g, h \in PayIds : /\ pays'[g].kind = "gateway" /\ pays[g].kind # "gateway"
                            /\ pays[h].kind = "gateway"
                            => pays'[g].ref # pays[h].ref

(* What is shut stays shut. *)
LEMMA ShutStays == ASSUME RowsStay, NEW r, NEW b, Shut(r, b) PROVE Shut(r, b)'
<1>1. PICK g \in PayIds : pays[g].kind = "gateway" /\ pays[g].ref = r
  BY DEF Shut
<1>2. pays'[g].kind = "gateway" /\ pays'[g].ref = r
  BY <1>1 DEF RowsStay
<1>3. ASSUME NEW h \in PayIds, pays'[h].kind = "gateway", pays'[h].ref = r, pays'[h].basket = b
      PROVE  pays'[h].truth # None /\ pays'[h].action = None
  <2>1. pays[h].kind = "gateway"
    BY <1>1, <1>3 DEF RowsStay
  <2>2. pays[h].ref = r /\ pays[h].basket = b
    BY <1>3, <2>1 DEF RowsStay
  <2>3. pays[h].truth # None /\ pays[h].action = None
    BY <2>1, <2>2 DEF Shut
  <2> QED
    BY <2>1, <2>3 DEF RowsStay
<1> QED
  BY <1>2, <1>3 DEF Shut

(* A checkout that goes nowhere keeps what it was told. *)
LEMMA AskedStays == ASSUME RowsStay, NEW x, AskedOk(x) PROVE AskedOk(x)'
<1>1. x.at \in {"fallback", "sandbox"} => Shut(x.ref, x.basket)'
  BY ShutStays DEF AskedOk
<1>2. ItsRow(x) => ItsRow(x)'
  BY DEF ItsRow, RowsStay
<1>3. x.at = "replied" => pays'[x.pay].truth # None /\ (x.action = None => pays'[x.pay].action = None)
  BY DEF AskedOk, ItsRow, RowsStay
<1> QED
  BY <1>1, <1>2, <1>3 DEF AskedOk

(* The server's own orders stay the only open ones. *)
LEMMA OwnStays ==
    ASSUME RowsStay, OwnOk,
           \A p \in PayIds : pays'[p].kind \in {"direct", "sandbox"} =>
               \/ pays'[p].kind = pays[p].kind /\ pays'[p].ref = pays[p].ref /\ pays'[p].basket = pays[p].basket
               \/ Shut(pays'[p].ref, pays'[p].basket)
    PROVE  OwnOk'
<1> SUFFICES ASSUME NEW p \in PayIds, pays'[p].kind \in {"direct", "sandbox"}
             PROVE  Shut(pays[p].ref, pays[p].basket)'
  BY DEF OwnOk
<1>1. PICK r, b : r = pays'[p].ref /\ b = pays'[p].basket
  OBVIOUS
<1>2. Shut(r, b)
  BY <1>1 DEF OwnOk
<1>3. Shut(r, b)'
  BY <1>2, ShutStays
<1> QED
  BY <1>1, <1>3

(* Nothing but the payments goes on, and none of them in flight. *)
LEMMA PaysGoOnOrders ==
    ASSUME OrdersOk, PaysGoOn, PaysCalm, UNCHANGED <<checkouts, pageVars, use>>
    PROVE  OrdersOk'
<1>1. RowsStay
  BY DEF RowsStay, PaysGoOn, PaysCalm
<1>2. OneKey'
  BY DEF OrdersOk, OneKey, PaysGoOn
<1>3. FlightOk'
  BY DEF OrdersOk, FlightOk, PaysGoOn, PaysCalm
<1>4. OwnOk'
  BY <1>1, OwnStays DEF OrdersOk, PaysGoOn, PaysCalm
<1>5. AloneOk'
  BY DEF OrdersOk, AloneOk, pageVars
<1>6. ASSUME NEW c \in Checkouts PROVE AskedOk(checkouts[c])'
  BY <1>1, AskedStays DEF OrdersOk
<1> QED
  BY <1>2, <1>3, <1>4, <1>5, <1>6 DEF OrdersOk

(* One checkout goes on, and keeps its reference. *)
LEMMA CheckoutAlone ==
    ASSUME OrdersOk, NEW c \in Checkouts, UNCHANGED <<pageVars, use>>, checkouts[c].at # "idle",
           \A d \in Checkouts : d # c => checkouts'[d] = checkouts[d],
           checkouts'[c].ref = checkouts[c].ref
    PROVE  AloneOk'
BY DEF OrdersOk, AloneOk, pageVars

(* What the checkouts keep when one goes on. *)
LEMMA AskedRest ==
    ASSUME OrdersOk, RowsStay, NEW c \in Checkouts,
           \A d \in Checkouts : d # c => checkouts'[d] = checkouts[d], AskedOk(checkouts[c])'
    PROVE  \A d \in Checkouts : AskedOk(checkouts[d])'
<1>1. ASSUME NEW d \in Checkouts, d # c PROVE AskedOk(checkouts[d])'
  <2>1. PICK x : x = checkouts[d]
    OBVIOUS
  <2>2. AskedOk(x)'
    BY <2>1, AskedStays DEF OrdersOk
  <2> QED
    BY <1>1, <2>1, <2>2
<1> QED
  BY <1>1

(* A step of one checkout, with what it does to the rows. *)
LEMMA CheckoutOrders ==
    ASSUME OrdersOk, RowsStay, OneKey', FlightOk', OwnOk', NEW c \in Checkouts,
           UNCHANGED <<pageVars, use>>, checkouts[c].at # "idle",
           \A d \in Checkouts : d # c => checkouts'[d] = checkouts[d],
           checkouts'[c].ref = checkouts[c].ref, AskedOk(checkouts[c])'
    PROVE  OrdersOk'
<1>1. AloneOk'
  BY CheckoutAlone
<1>2. \A d \in Checkouts : AskedOk(checkouts[d])'
  BY AskedRest
<1> QED
  BY <1>1, <1>2 DEF OrdersOk

(* One that leaves the rows alone, and no call of the gateway's without a  *)
(* caller.                                                                 *)
LEMMA CheckoutTurns ==
    ASSUME OrdersOk, NEW c \in Checkouts, UNCHANGED <<pays, pageVars, use>>,
           checkouts[c].at \notin {"idle", "creating"},
           \A d \in Checkouts : d # c => checkouts'[d] = checkouts[d],
           checkouts'[c].ref = checkouts[c].ref, AskedOk(checkouts[c])'
    PROVE  OrdersOk'
<1>1. RowsStay /\ OneKey' /\ OwnOk'
  BY DEF OrdersOk, RowsStay, OneKey, OwnOk, Shut
<1>2. FlightOk'
  BY DEF OrdersOk, FlightOk
<1> QED
  BY <1>1, <1>2, CheckoutOrders

(* A key with a row that has another basket, or nothing to do, is shut. *)
LEMMA KeyIsShut ==
    ASSUME OneKey, NEW p \in PayIds, pays[p].kind = "gateway", NEW b,
           pays[p].basket = b => pays[p].truth # None /\ pays[p].action = None
    PROVE  Shut(pays[p].ref, b)
BY DEF OneKey, Shut

(* A checkout that only moves on keeps the rest. *)
LEMMA MovesOnIs ==
    ASSUME ServerInv, NEW c \in Checkouts, checkouts[c].at # "idle", NEW a,
           checkouts' = [checkouts EXCEPT ![c].at = a]
    PROVE  /\ \A d \in Checkouts : d # c => checkouts'[d] = checkouts[d]
           /\ checkouts'[c].at = a /\ checkouts'[c].ref = checkouts[c].ref
           /\ checkouts'[c].basket = checkouts[c].basket
<1>1. checkouts \in [Checkouts -> CheckoutRec \cup {Idle}] /\ checkouts[c] \in CheckoutRec
  BY IdleIs DEF ServerInv, ServerTypes
<1> QED
  BY <1>1 DEF CheckoutRec

(* The gateway's row is as final as its call: a replay finds it recorded,  *)
(* as its own caller is the only one under that reference.                 *)
LEMMA GatewayReplaysOrders ==
    ASSUME StoreInv, OrdersOk, NEW c \in Checkouts, GatewayReplays(c), UNCHANGED <<pageVars, use>>
    PROVE  OrdersOk'
<1>1. /\ checkouts \in [Checkouts -> CheckoutRec \cup {Idle}] /\ checkouts[c] \in CheckoutRec
      /\ checkouts[c].at = "gateway" /\ UNCHANGED pays
  BY IdleIs DEF StoreInv, ServerInv, ServerTypes, GatewayReplays
<1>2. PICK p \in SameKey(c) :
          /\ pays[p].basket = checkouts[c].basket
          /\ checkouts' = [checkouts EXCEPT ![c].at = "replied", ![c].pay = p,
                              ![c].status = pays[p].status, ![c].action = pays[p].action]
  BY DEF GatewayReplays
<1>3. p \in PayIds /\ pays[p].kind = "gateway" /\ pays[p].ref = checkouts[c].ref
  BY DEF SameKey, GatewayPays
<1>4. PICK s, a : s = pays[p].status /\ a = pays[p].action
  OBVIOUS
<1>5. checkouts' = [checkouts EXCEPT ![c].at = "replied", ![c].pay = p, ![c].status = s, ![c].action = a]
  BY <1>2, <1>4
<1>6. /\ \A d \in Checkouts : d # c => checkouts'[d] = checkouts[d]
      /\ checkouts'[c].at = "replied" /\ checkouts'[c].ref = checkouts[c].ref
      /\ checkouts'[c].basket = checkouts[c].basket /\ checkouts'[c].pay = p
      /\ checkouts'[c].action = a
  BY <1>1, <1>5 DEF CheckoutRec
<1>7. pays[p].truth # None
  <2> SUFFICES ASSUME pays[p].truth = None PROVE FALSE
    OBVIOUS
  <2>1. PICK d \in Checkouts : checkouts[d].at = "creating" /\ checkouts[d].pay = p
    BY <1>3 DEF OrdersOk, FlightOk
  <2>2. checkouts[d].ref = checkouts[c].ref
    BY <1>3, <2>1 DEF OrdersOk, AskedOk, ItsRow
  <2>3. d = c
    BY <1>1, <2>1, <2>2 DEF OrdersOk, AloneOk
  <2> QED
    BY <1>1, <2>1, <2>3
<1>8. AskedOk(checkouts[c])'
  BY <1>1, <1>2, <1>3, <1>4, <1>6, <1>7 DEF AskedOk, ItsRow
<1> QED
  BY <1>1, <1>6, <1>8, CheckoutTurns

(* The gateway refuses the key for another basket. *)
LEMMA GatewayThrowsOrders ==
    ASSUME StoreInv, OrdersOk, NEW c \in Checkouts, GatewayThrows(c), UNCHANGED <<faults, pageVars, use>>,
           faults \in Int
    PROVE  OrdersOk'
<1>1. /\ checkouts[c].at = "gateway" /\ UNCHANGED pays
      /\ checkouts' = [checkouts EXCEPT ![c].at = "fallback"]
      /\ \E p \in SameKey(c) : pays[p].basket # checkouts[c].basket
  BY DEF GatewayThrows
<1>2. PICK p \in PayIds : /\ pays[p].kind = "gateway" /\ pays[p].ref = checkouts[c].ref
                          /\ pays[p].basket # checkouts[c].basket
  BY <1>1 DEF SameKey, GatewayPays
<1>3. PICK r, b : r = checkouts[c].ref /\ b = checkouts[c].basket
  OBVIOUS
<1>4. Shut(r, b)
  BY <1>2, <1>3, KeyIsShut DEF OrdersOk
<1>5. Shut(r, b)'
  BY <1>1, <1>4 DEF Shut
<1>6. /\ \A d \in Checkouts : d # c => checkouts'[d] = checkouts[d]
      /\ checkouts'[c].at = "fallback" /\ checkouts'[c].ref = r /\ checkouts'[c].basket = b
  BY <1>1, <1>3, MovesOnIs DEF StoreInv
<1>7. AskedOk(checkouts[c])'
  BY <1>5, <1>6 DEF AskedOk
<1> QED
  BY <1>1, <1>3, <1>6, <1>7, CheckoutTurns

(* The server does not take a row with nothing to do. *)
LEMMA RejectedOrders ==
    ASSUME StoreInv, OrdersOk, NEW c \in Checkouts, Rejected(c), UNCHANGED <<pageVars, use>>
    PROVE  OrdersOk'
<1>1. /\ checkouts[c].at = "replied" /\ UNCHANGED pays /\ checkouts[c].action = None
      /\ checkouts' = [checkouts EXCEPT ![c].at = "fallback"]
  BY DEF Rejected, Usable
<1>2. PICK r, b, p : r = checkouts[c].ref /\ b = checkouts[c].basket /\ p = checkouts[c].pay
  OBVIOUS
<1>3. /\ p \in PayIds /\ pays[p].kind = "gateway" /\ pays[p].ref = r
      /\ pays[p].truth # None /\ pays[p].action = None
  BY <1>1, <1>2 DEF OrdersOk, AskedOk, ItsRow
<1>4. Shut(r, b)
  BY <1>3, KeyIsShut DEF OrdersOk
<1>5. Shut(r, b)'
  BY <1>1, <1>4 DEF Shut
<1>6. /\ \A d \in Checkouts : d # c => checkouts'[d] = checkouts[d]
      /\ checkouts'[c].at = "fallback" /\ checkouts'[c].ref = r /\ checkouts'[c].basket = b
  BY <1>1, <1>2, MovesOnIs DEF StoreInv
<1>7. AskedOk(checkouts[c])'
  BY <1>5, <1>6 DEF AskedOk
<1> QED
  BY <1>1, <1>2, <1>6, <1>7, CheckoutTurns

(* The payment is stored and answered. *)
LEMMA SavePaymentOrders ==
    ASSUME StoreInv, OrdersOk, NEW c \in Checkouts, SavePayment(c), UNCHANGED <<pageVars, use>>
    PROVE  OrdersOk'
<1>1. /\ checkouts[c].at \in {"replied", "made"} /\ UNCHANGED pays
      /\ \A d \in Checkouts : d # c => checkouts'[d] = checkouts[d]
      /\ checkouts'[c].at = "answered" /\ checkouts'[c].ref = checkouts[c].ref
  BY SavePaymentIs DEF StoreInv
<1>2. AskedOk(checkouts[c])'
  BY <1>1 DEF AskedOk
<1> QED
  BY <1>1, <1>2, CheckoutTurns

(* The gateway begins a payment under a key without a row. *)
LEMMA GatewayBeginsOrders ==
    ASSUME StoreInv, OrdersOk, NEW c \in Checkouts, GatewayBegins(c), UNCHANGED <<pageVars, use>>
    PROVE  OrdersOk'
<1>1. /\ checkouts \in [Checkouts -> CheckoutRec \cup {Idle}] /\ checkouts[c] \in CheckoutRec
      /\ checkouts[c].at = "gateway" /\ pays \in [PayIds -> PayRec]
  BY IdleIs DEF StoreInv, ServerInv, ServerTypes, GatewayBegins
<1>2. PICK n \in PayIds : n = NewId /\ pays[n].kind = None
  BY NewIdIs DEF GatewayBegins
<1>3. PICK x : x = [kind |-> "gateway", ref |-> checkouts[c].ref, basket |-> checkouts[c].basket,
                    status |-> "pending", action |-> None, truth |-> None, sync |-> FALSE]
  OBVIOUS
<1>4. x.kind = "gateway" /\ x.ref = checkouts[c].ref /\ x.basket = checkouts[c].basket
  BY <1>3
<1>5. pays' = [pays EXCEPT ![n] = x] /\ checkouts' = [checkouts EXCEPT ![c].at = "creating", ![c].pay = n]
  BY <1>2, <1>3 DEF GatewayBegins
<1>6. pays'[n] = x /\ \A g \in PayIds : g # n => pays'[g] = pays[g]
  BY <1>1, <1>5
<1>7. \A g \in PayIds : pays[g].kind = "gateway" => g # n /\ pays'[g] = pays[g] /\ pays[g].ref # x.ref
  BY <1>2, <1>4, <1>6 DEF GatewayBegins, SameKey, GatewayPays, None
<1>8. \A g \in PayIds : pays'[g].kind = "gateway" => g = n \/ pays[g].kind = "gateway"
  BY <1>6
<1>9. /\ \A d \in Checkouts : d # c => checkouts'[d] = checkouts[d]
      /\ checkouts'[c].at = "creating" /\ checkouts'[c].ref = checkouts[c].ref
      /\ checkouts'[c].basket = checkouts[c].basket /\ checkouts'[c].pay = n
  BY <1>1, <1>5 DEF CheckoutRec
<1>10. RowsStay
  BY <1>6, <1>7, <1>8 DEF RowsStay
<1>11. OneKey'
  BY <1>6, <1>7, <1>8 DEF OrdersOk, OneKey
<1>12. FlightOk'
  <2> SUFFICES ASSUME NEW g \in PayIds, pays'[g].kind = "gateway", pays'[g].truth = None
               PROVE  \E d \in Checkouts : checkouts'[d].at = "creating" /\ checkouts'[d].pay = g
    BY DEF FlightOk
  <2>1. CASE g = n
    BY <1>9, <2>1
  <2>2. CASE g # n
    <3>1. pays[g].kind = "gateway" /\ pays[g].truth = None
      BY <1>6, <2>2
    <3>2. PICK d \in Checkouts : checkouts[d].at = "creating" /\ checkouts[d].pay = g
      BY <3>1 DEF OrdersOk, FlightOk
    <3> QED
      BY <1>1, <1>9, <3>2
  <2> QED
    BY <2>1, <2>2
<1>13. OwnOk'
  BY <1>4, <1>6, <1>10, OwnStays DEF OrdersOk
<1>14. AskedOk(checkouts[c])'
  BY <1>4, <1>6, <1>9 DEF AskedOk, ItsRow
<1> QED
  BY <1>1, <1>9, <1>10, <1>11, <1>12, <1>13, <1>14, CheckoutOrders

(* It records what the provider answered, and tells its caller. *)
LEMMA GatewayAnswersOrders ==
    ASSUME StoreInv, OrdersOk, NEW c \in Checkouts, GatewayAnswers(c), UNCHANGED <<pageVars, use>>
    PROVE  OrdersOk'
<1>1. checkouts[c].at = "creating" /\ ServerInv
  BY DEF StoreInv, GatewayAnswers
<1>2. PICK p, r, b : p = checkouts[c].pay /\ r = checkouts[c].ref /\ b = checkouts[c].basket
  OBVIOUS
<1>3. /\ p \in PayIds /\ pays[p].kind = "gateway" /\ pays[p].ref = r /\ pays[p].basket = b
  BY <1>1, <1>2 DEF OrdersOk, AskedOk, ItsRow
<1>4. /\ PaysGoOn /\ pays[p].truth = None
      /\ \A d \in Checkouts : d # c => checkouts'[d] = checkouts[d]
      /\ checkouts'[c].pay = p /\ checkouts'[c].ref = r /\ checkouts'[c].basket = b
      /\ \A g \in PayIds : g # p => pays'[g] = pays[g]
      /\ pays'[p].basket = b /\ pays'[p].truth # None
      /\ pays'[p].action = checkouts'[c].action
      /\ \/ checkouts'[c].at = "replied"
         \/ checkouts'[c].at = "fallback" /\ pays'[p].action = None
  BY <1>1, <1>2, <1>3, GatewayAnswersIs DEF InFlight
<1>5. pays'[p].kind = "gateway" /\ pays'[p].ref = r
  BY <1>3, <1>4 DEF PaysGoOn
<1>6. RowsStay
  BY <1>3, <1>4 DEF RowsStay, PaysGoOn
<1>7. OneKey'
  BY <1>4 DEF OrdersOk, OneKey, PaysGoOn
<1>8. FlightOk'
  <2> SUFFICES ASSUME NEW g \in PayIds, pays'[g].kind = "gateway", pays'[g].truth = None
               PROVE  \E d \in Checkouts : checkouts'[d].at = "creating" /\ checkouts'[d].pay = g
    BY DEF FlightOk
  <2>1. g # p /\ pays[g].kind = "gateway" /\ pays[g].truth = None
    BY <1>4
  <2>2. PICK d \in Checkouts : checkouts[d].at = "creating" /\ checkouts[d].pay = g
    BY <2>1 DEF OrdersOk, FlightOk
  <2> QED
    BY <1>2, <1>4, <2>1, <2>2
<1>9. OwnOk'
  BY <1>4, <1>5, <1>6, OwnStays DEF OrdersOk
<1>10. pays'[p].action = None => Shut(r, b)'
  BY <1>3, <1>4, <1>5, <1>7 DEF OneKey, Shut
<1>11. AskedOk(checkouts[c])'
  BY <1>3, <1>4, <1>5, <1>10 DEF AskedOk, ItsRow
<1> QED
  BY <1>1, <1>2, <1>4, <1>6, <1>7, <1>8, <1>9, <1>11, CheckoutOrders

(* An order of the server's own, for a key that is shut. *)
LEMMA OwnOrderOrders ==
    ASSUME StoreInv, OrdersOk, NEW c \in Checkouts, NEW kind \in {"direct", "sandbox"}, NEW action,
           checkouts[c].at \in {"fallback", "sandbox"}, OwnOrder(c, kind, action),
           UNCHANGED <<pageVars, use>>
    PROVE  OrdersOk'
<1>1. /\ checkouts \in [Checkouts -> CheckoutRec \cup {Idle}] /\ checkouts[c] \in CheckoutRec
      /\ pays \in [PayIds -> PayRec]
  BY IdleIs DEF StoreInv, ServerInv, ServerTypes
<1>2. PICK n \in PayIds : n = NewId /\ pays[n].kind = None
  BY NewIdIs DEF OwnOrder
<1>3. PICK x : x = [kind |-> kind, ref |-> checkouts[c].ref, basket |-> checkouts[c].basket,
                    status |-> "pending", action |-> action, truth |-> "open", sync |-> FALSE]
  OBVIOUS
<1>4. x.kind = kind /\ x.ref = checkouts[c].ref /\ x.basket = checkouts[c].basket
  BY <1>3
<1>5. /\ pays' = [pays EXCEPT ![n] = x]
      /\ checkouts' = [checkouts EXCEPT ![c].at = "made", ![c].pay = n,
                          ![c].status = "pending", ![c].action = action]
  BY <1>2, <1>3 DEF OwnOrder
<1>6. pays'[n] = x /\ \A g \in PayIds : g # n => pays'[g] = pays[g]
  BY <1>1, <1>5
<1>7. \A g \in PayIds : pays[g].kind = "gateway" \/ pays'[g].kind = "gateway" => pays'[g] = pays[g]
  BY <1>2, <1>4, <1>6 DEF None
<1>8. /\ \A d \in Checkouts : d # c => checkouts'[d] = checkouts[d]
      /\ checkouts'[c].at = "made" /\ checkouts'[c].ref = checkouts[c].ref
  BY <1>1, <1>5 DEF CheckoutRec
<1>9. RowsStay
  BY <1>7 DEF RowsStay
<1>10. OneKey'
  BY <1>7 DEF OrdersOk, OneKey
<1>11. FlightOk'
  <2> SUFFICES ASSUME NEW g \in PayIds, pays'[g].kind = "gateway", pays'[g].truth = None
               PROVE  \E d \in Checkouts : checkouts'[d].at = "creating" /\ checkouts'[d].pay = g
    BY DEF FlightOk
  <2>1. PICK d \in Checkouts : checkouts[d].at = "creating" /\ checkouts[d].pay = g
    BY <1>7 DEF OrdersOk, FlightOk
  <2>2. d # c
    BY <2>1
  <2> QED
    BY <1>8, <2>1, <2>2
<1>12. Shut(x.ref, x.basket)
  BY <1>4 DEF OrdersOk, AskedOk
<1>13. OwnOk'
  BY <1>6, <1>9, <1>12, OwnStays DEF OrdersOk
<1>14. AskedOk(checkouts[c])'
  BY <1>8 DEF AskedOk
<1>15. checkouts[c].at # "idle"
  OBVIOUS
<1> QED
  BY <1>8, <1>9, <1>10, <1>11, <1>13, <1>14, <1>15, CheckoutOrders

(* The server's steps while no call fails. *)
LEMMA ServerOrders ==
    ASSUME StoreInv, OrdersOk, ServerNext, UNCHANGED <<pageVars, use, faults, restarts>>, faults \in Int,
           restarts \in Int
    PROVE  OrdersOk'
<1>1. ASSUME NEW c \in Checkouts, TryDirect(c) \/ GenerateSandboxPayment(c) PROVE OrdersOk'
  <2>1. /\ checkouts[c].at \in {"fallback", "sandbox"}
        /\ \E k \in {"direct", "sandbox"} : \E a : OwnOrder(c, k, a)
    BY <1>1 DEF TryDirect, GenerateSandboxPayment
  <2> QED
    BY <2>1, OwnOrderOrders
<1>2. ASSUME NEW c \in Checkouts,
             \/ GatewayBegins(c) \/ GatewayAnswers(c) \/ GatewayReplays(c) \/ GatewayThrows(c)
             \/ Rejected(c) \/ SavePayment(c)
      PROVE  OrdersOk'
  BY <1>2, GatewayBeginsOrders, GatewayAnswersOrders, GatewayReplaysOrders, GatewayThrowsOrders,
     RejectedOrders, SavePaymentOrders
<1>3. ASSUME NEW q \in Statuses, GatewayTellsStatus(q) \/ StatusStores(q) \/ StatusFallsBack(q)
      PROVE  OrdersOk'
  <2>1. UNCHANGED checkouts /\ ServerInv
    BY <1>3 DEF GatewayTellsStatus, StatusStores, StatusFallsBack, StoreInv
  <2>2. CASE GatewayTellsStatus(q)
    BY <2>1, <2>2, GatewayTellsIs, PaysGoOnOrders
  <2>3. CASE StatusStores(q) \/ StatusFallsBack(q)
    <3>1. UNCHANGED pays
      BY <2>3 DEF StatusStores, StatusFallsBack
    <3> QED
      BY <2>1, <3>1, PaysStay, PaysGoOnOrders
  <2> QED
    BY <1>3, <2>2, <2>3
<1>4. ASSUME NEW s \in Settlements, SettlementForwarded(s) PROVE OrdersOk'
  <2>1. UNCHANGED checkouts /\ ServerInv
    BY <1>4 DEF SettlementForwarded, StoreInv
  <2> QED
    BY <1>4, <2>1, SettlementForwardedIs, PaysGoOnOrders
<1>5. ASSUME NEW p \in PayIds, ProviderDecides(p) \/ GatewayLearns(p) \/ SyncServed(p) PROVE OrdersOk'
  <2>1. UNCHANGED checkouts /\ ServerInv
    BY <1>5 DEF ProviderDecides, GatewayLearns, SyncServed, StoreInv
  <2> QED
    BY <1>5, <2>1, PaymentGoesOnIs, PaysGoOnOrders
<1>6. ASSUME NEW p \in PayIds, GatewayFinishes(p) PROVE OrdersOk'
  BY <1>6 DEF GatewayFinishes, InFlight, GatewayPays, OrdersOk, FlightOk
<1>7. ~Restart
  <2>1. Restart => restarts' = restarts - 1
    BY DEF Restart
  <2> QED
    BY <2>1
<1> QED
  BY <1>1, <1>2, <1>3, <1>4, <1>5, <1>6, <1>7 DEF ServerNext

(* What the page does besides checking out leaves the orders alone. *)
LEMMA PageOrders ==
    ASSUME StoreInv, OrdersOk, UNCHANGED <<pays, checkouts, use>>,
           \A c \in Checkouts : checkouts[c].at # "idle" =>
              c \in waits' \/ checkouts[c].ref # form'.ref \/ page'.at = "away"
    PROVE  OrdersOk'
<1>1. RowsStay /\ OneKey' /\ OwnOk' /\ FlightOk'
  BY DEF OrdersOk, RowsStay, OneKey, OwnOk, Shut, FlightOk
<1>2. AloneOk'
  BY DEF OrdersOk, AloneOk
<1>3. ASSUME NEW c \in Checkouts PROVE AskedOk(checkouts[c])'
  BY <1>1, AskedStays DEF OrdersOk
<1> QED
  BY <1>1, <1>2, <1>3 DEF OrdersOk

(* A checkout is sent only when no other is under the form's reference. *)
LEMMA SubmitOrders ==
    ASSUME StoreInv, OrdersOk, NEW c \in Checkouts, Submit(c) PROVE OrdersOk'
<1>1. /\ ServerInv /\ form.ref \in OrderRefs /\ Basket \in Baskets /\ CheckoutBegins(c, form.ref, Basket)
      /\ checkouts[c].at = "idle" /\ page.at = "open" /\ waits \cap Checkouts = {} /\ ~use.browses
      /\ waits' = waits \cup {c} /\ UNCHANGED <<pays, form, page, use>>
  BY DEF StoreInv, DrawnForm, Submit, Here, CheckoutBegins
<1>2. PICK r \in OrderRefs, b \in Baskets : r = form.ref /\ CheckoutBegins(c, r, b)
  BY <1>1
<1>3. /\ \A d \in Checkouts : d # c => checkouts'[d] = checkouts[d]
      /\ checkouts'[c].at = "gateway" /\ checkouts'[c].ref = form.ref
  BY <1>1, <1>2, CheckoutBeginsIs
<1>4. RowsStay /\ OneKey' /\ OwnOk'
  BY <1>1 DEF OrdersOk, RowsStay, OneKey, OwnOk, Shut
<1>5. FlightOk'
  <2> SUFFICES ASSUME NEW g \in PayIds, pays[g].kind = "gateway", pays[g].truth = None
               PROVE  \E d \in Checkouts : checkouts'[d].at = "creating" /\ checkouts'[d].pay = g
    BY <1>1 DEF FlightOk
  <2>1. PICK d \in Checkouts : checkouts[d].at = "creating" /\ checkouts[d].pay = g
    BY DEF OrdersOk, FlightOk
  <2> QED
    BY <1>1, <1>3, <2>1
<1>6. \A d \in Checkouts : checkouts[d].at # "idle" => checkouts[d].ref # form.ref
  BY <1>1 DEF OrdersOk, AloneOk
<1>7. AloneOk'
  BY <1>1, <1>3, <1>6 DEF OrdersOk, AloneOk
<1>8. AskedOk(checkouts[c])'
  BY <1>3 DEF AskedOk
<1>9. \A d \in Checkouts : AskedOk(checkouts[d])'
  BY <1>3, <1>4, <1>8, AskedRest
<1> QED
  BY <1>4, <1>5, <1>7, <1>9 DEF OrdersOk

(* A checkout that was answered is over. *)
LEMMA CheckoutAnsweredOrders ==
    ASSUME StoreInv, OrdersOk, NEW c \in Checkouts, CheckoutAnswered(c) PROVE OrdersOk'
<1>1. /\ checkouts[c].at \in {"answered", "dead"} /\ waits' = waits \ {c}
      /\ checkouts' = [checkouts EXCEPT ![c] = Idle] /\ UNCHANGED <<pays, form, use>>
      /\ page'.at = page.at
  BY CheckoutAnsweredIs DEF CheckoutAnswered
<1>2. /\ \A d \in Checkouts : d # c => checkouts'[d] = checkouts[d]
      /\ checkouts'[c].at = "idle"
  BY <1>1, CheckoutEndsIs, IdleIs DEF StoreInv
<1>3. RowsStay /\ OneKey' /\ OwnOk'
  BY <1>1 DEF OrdersOk, RowsStay, OneKey, OwnOk, Shut
<1>4. FlightOk'
  <2> SUFFICES ASSUME NEW g \in PayIds, pays[g].kind = "gateway", pays[g].truth = None
               PROVE  \E d \in Checkouts : checkouts'[d].at = "creating" /\ checkouts'[d].pay = g
    BY <1>1 DEF FlightOk
  <2>1. PICK d \in Checkouts : checkouts[d].at = "creating" /\ checkouts[d].pay = g
    BY DEF OrdersOk, FlightOk
  <2> QED
    BY <1>1, <1>2, <2>1
<1>5. AloneOk'
  BY <1>1, <1>2 DEF OrdersOk, AloneOk
<1>6. AskedOk(checkouts[c])'
  BY <1>2 DEF AskedOk
<1>7. \A d \in Checkouts : AskedOk(checkouts[d])'
  BY <1>2, <1>3, <1>6, AskedRest
<1> QED
  BY <1>3, <1>4, <1>5, <1>7 DEF OrdersOk

(* The steps of the page. *)
LEMMA PageNextOrders == ASSUME StoreInv, OrdersOk, PageNext PROVE OrdersOk'
<1>0. /\ page \in PageRec
      /\ \A c \in Checkouts : checkouts[c].at # "idle" =>
            ~use.browses /\ (c \in waits \/ checkouts[c].ref # form.ref \/ page.at = "away")
  BY DEF StoreInv, PageTypes, OrdersOk, AloneOk
<1>1. ASSUME NEW q \in Statuses, PollTick(q) \/ PollAnswered(q) \/ PollLost(q) PROVE OrdersOk'
  <2>1. UNCHANGED <<pays, checkouts, use, form>> /\ (waits' = waits \cup {q} \/ waits' = waits \ {q})
    BY <1>1 DEF PollTick, PollAnswered, PollLost
  <2>2. page'.at = page.at
    BY <1>1, PollAnsweredIs, PollLostIs DEF PollTick, PanelKeeps
  <2>3. q \notin Checkouts
    BY ServerAssumption
  <2> QED
    BY <1>0, <2>1, <2>2, <2>3, PageOrders
<1>2. ASSUME NEW s \in Settlements, Settle(s) \/ SettlementAnswered(s) PROVE OrdersOk'
  <2>1. UNCHANGED <<pays, checkouts, use, form>> /\ (waits' = waits \cup {s} \/ waits' = waits \ {s})
    BY <1>2 DEF Settle, SettlementAnswered
  <2>2. page'.at = page.at
    BY <1>2, SettlementAnsweredIs DEF Settle, PanelKeeps
  <2>3. s \notin Checkouts
    BY ServerAssumption
  <2> QED
    BY <1>0, <2>1, <2>2, <2>3, PageOrders
<1>3. CASE Redirect
  <2>1. UNCHANGED <<pays, checkouts, use>> /\ page'.at = "away"
    BY <1>3 DEF Redirect, serverVars, NewPage
  <2> QED
    BY <2>1, PageOrders
<1>4. CASE ReturnCancelled \/ \E q \in Statuses : ReturnFrom(q)
  <2>1. UNCHANGED <<pays, checkouts, use>>
    BY <1>4 DEF ReturnFrom, ReturnCancelled, serverVars
  <2>2. PICK r \in UnusedRefs : form' = NewForm("typescript", r)
    BY <1>4 DEF ReturnFrom, ReturnCancelled
  <2>3. form'.ref = r
    BY <2>2 DEF NewForm, Redraw
  <2>4. \A c \in Checkouts : checkouts[c].at # "idle" => checkouts[c].ref # r
    BY IdleIs DEF UnusedRefs
  <2> QED
    BY <2>1, <2>3, <2>4, PageOrders
<1>5. CASE ChangeForm
  <2>1. UNCHANGED <<pays, checkouts, use, page, waits>>
    BY <1>5 DEF ChangeForm, FormNext, serverVars
  <2>2. ~use.browses => form'.ref = form.ref
    BY <1>5, ChangeFormIs DEF StoreInv
  <2> QED
    BY <1>0, <2>1, <2>2, PageOrders
<1> QED
  BY <1>1, <1>2, <1>3, <1>4, <1>5, SubmitOrders, CheckoutAnsweredOrders DEF PageNext

(* Faults and restarts are only ever used up. *)
LEMMA FaultsAreUsedUp ==
    ASSUME [StoreNext]_storeVars
    PROVE  /\ use' = use /\ (faults' = faults \/ faults' = faults - 1)
           /\ (restarts' = restarts \/ restarts' = restarts - 1)
<1>1. CASE UNCHANGED storeVars
  BY <1>1 DEF storeVars, serverVars
<1>2. CASE ServerNext /\ UNCHANGED <<pageVars, use>>
  <2>1. ASSUME NEW c \in Checkouts,
               \/ GatewayBegins(c) \/ GatewayAnswers(c) \/ GatewayReplays(c) \/ GatewayThrows(c)
               \/ Rejected(c) \/ TryDirect(c) \/ GenerateSandboxPayment(c) \/ SavePayment(c)
        PROVE  (faults' = faults \/ faults' = faults - 1) /\ restarts' = restarts
    BY <2>1 DEF GatewayBegins, GatewayAnswers, GatewayReplays, GatewayThrows, Rejected, TryDirect,
                GenerateSandboxPayment, SavePayment
  <2>2. ASSUME NEW q \in Statuses, GatewayTellsStatus(q) \/ StatusStores(q) \/ StatusFallsBack(q)
        PROVE  (faults' = faults \/ faults' = faults - 1) /\ restarts' = restarts
    BY <2>2 DEF GatewayTellsStatus, StatusStores, StatusFallsBack
  <2>3. ASSUME NEW s \in Settlements, SettlementForwarded(s) PROVE UNCHANGED <<faults, restarts>>
    BY <2>3 DEF SettlementForwarded
  <2>4. ASSUME NEW p \in PayIds,
               ProviderDecides(p) \/ GatewayLearns(p) \/ SyncServed(p) \/ GatewayFinishes(p)
        PROVE  UNCHANGED <<faults, restarts>>
    BY <2>4 DEF ProviderDecides, GatewayLearns, SyncServed, GatewayFinishes
  <2>5. Restart => faults' = faults /\ restarts' = restarts - 1
    BY DEF Restart
  <2> QED
    BY <1>2, <2>1, <2>2, <2>3, <2>4, <2>5 DEF ServerNext
<1>3. CASE PageNext
  <2>1. ASSUME NEW c \in Checkouts, Submit(c) \/ CheckoutAnswered(c)
        PROVE  UNCHANGED <<faults, restarts, use>>
    BY <2>1 DEF Submit, CheckoutAnswered
  <2>2. ASSUME NEW q \in Statuses, PollTick(q) \/ PollAnswered(q) \/ PollLost(q) \/ ReturnFrom(q)
        PROVE  (faults' = faults \/ faults' = faults - 1) /\ restarts' = restarts /\ use' = use
    BY <2>2 DEF PollTick, PollAnswered, PollLost, ReturnFrom
  <2>3. ASSUME NEW s \in Settlements, Settle(s) \/ SettlementAnswered(s)
        PROVE  UNCHANGED <<faults, restarts, use>>
    BY <2>3 DEF Settle, SettlementAnswered
  <2>4. Redirect \/ ReturnCancelled \/ ChangeForm => UNCHANGED <<faults, restarts, use>>
    BY DEF Redirect, ReturnCancelled, ChangeForm, serverVars
  <2> QED
    BY <1>3, <2>1, <2>2, <2>3, <2>4 DEF PageNext
<1> QED
  BY <1>1, <1>2, <1>3 DEF StoreNext

(* A shop without payments has no two orders. *)
LEMMA OrdersStart == StoreInit => OrdersInv
<1> SUFFICES ASSUME StoreInit PROVE OrdersInv
  OBVIOUS
<1>1. \A p \in PayIds : pays[p].kind = None
  BY DEF StoreInit, ServerInit, NoPay
<1>2. \A c \in Checkouts : checkouts[c].at = "idle"
  BY DEF StoreInit, ServerInit, Idle
<1>3. OrdersOk
  BY <1>1, <1>2 DEF OrdersOk, OneKey, FlightOk, OwnOk, AloneOk, AskedOk, None
<1>4. faults \in Int /\ faults = use.faults
  BY DEF StoreInit, ServerInit
<1> QED
  BY <1>3, <1>4 DEF OrdersInv

(* Every step keeps them apart, until a call fails. *)
LEMMA OrdersKeep == StoreInv /\ FoundInv /\ OrdersInv /\ [StoreNext]_storeVars => OrdersInv'
<1> SUFFICES ASSUME StoreInv, FoundInv, OrdersInv, [StoreNext]_storeVars PROVE OrdersInv'
  OBVIOUS
<1>1. /\ use' = use /\ (faults' = faults \/ faults' = faults - 1)
      /\ (restarts' = restarts \/ restarts' = restarts - 1)
  BY FaultsAreUsedUp
<1>2. /\ faults \in Int /\ use.faults \in Int /\ faults <= use.faults
      /\ restarts \in Int /\ use.restarts \in Int /\ restarts <= use.restarts
  BY DEF OrdersInv, FoundInv, StoreInv, ServerInv, ServerTypes
<1>3. faults' \in Int /\ use'.faults \in Int /\ faults' <= use'.faults
  BY <1>1, <1>2
<1>4. ASSUME Undisturbed' PROVE OrdersOk'
  <2>1. faults' = faults /\ restarts' = restarts /\ Undisturbed
    BY <1>1, <1>2, <1>4 DEF Undisturbed
  <2>2. OrdersOk
    BY <2>1 DEF OrdersInv
  <2>3. CASE UNCHANGED storeVars
    <3>1. UNCHANGED <<pays, checkouts, pageVars, use>> /\ ServerInv
      BY <2>3 DEF storeVars, serverVars, StoreInv
    <3> QED
      BY <2>2, <3>1, PaysStay, PaysGoOnOrders
  <2>4. CASE ServerNext /\ UNCHANGED <<pageVars, use>>
    BY <1>2, <2>1, <2>2, <2>4, ServerOrders
  <2>5. CASE PageNext
    BY <2>2, <2>5, PageNextOrders
  <2> QED
    BY <2>3, <2>4, <2>5 DEF StoreNext
<1> QED
  BY <1>3, <1>4 DEF OrdersInv

(* As long as no call fails and the server is not restarted, an order of   *)
(* the server's own never stands beside an open one of the gateway's for   *)
(* the same reference and basket: tryDirect and the sandbox come after the *)
(* gateway's answer, no replay meets its row in flight, and a row once     *)
(* without a next step never gets one.                                     *)
THEOREM OneOrderIsOpen == StoreSpec => []OneOpenOrder
<1>1. OrdersInv => OneOpenOrder
  BY DEF OrdersInv, OrdersOk, OwnOk, Shut, OneOpenOrder
<1> QED
  BY <1>1, OrdersStart, OrdersKeep, FoundStarts, FoundKeeps, StoreInvHolds, PTL DEF StoreSpec

==============================================================================
