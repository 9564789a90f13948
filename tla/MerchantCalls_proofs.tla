------------------------ MODULE MerchantCalls_proofs -------------------------
(***************************************************************************)
(* The properties of WebPayments, SdkClient and MerchantCalls hold for any *)
(* deployment and any number of requests, webhook handlers, GETs and       *)
(* calls.                                                                  *)
(*                                                                         *)
(* The routes copy a row of the payments table, wait, and write the copy   *)
(* back.  So the invariant says of every copy of a payment's status and    *)
(* reference what it says of the row: of the draft of a POST handler, of a *)
(* reply of the gateway, of a webhook and of a GET in progress.  Grows is  *)
(* what no step undoes; whatever a step does not touch stays right by it.  *)
(***************************************************************************)
EXTENDS MerchantCalls, TLAPS

WebStatus == {"pending", "unknown", "succeeded", "failed"}
Charges == {"none", "open", "complete", "succeeded", "failed", "reversed", "refused"}
Row == [user : Users \union {None}, key : Keys \union {None}, body : Bodies \union {None},
        hash : {"web", "gateway"}, live : BOOLEAN, ref : Refs \union {None}, status : WebStatus]
Draft == [id : Ids \union {None}, ref : Refs \union {None}, status : WebStatus]

Pcs == {"idle", "arrived", "replaying", "routing", "forwarding", "fallback", "ready",
        "answered"}
Fwd == [at : {"no", "sent", "ok", "conflict", "refused"} \union Working, cut : BOOLEAN,
        data : Draft]
Hook == [at : {"idle", "read"}, mock : BOOLEAN, ref : Refs \union {None}, status : WebStatus,
         id : Ids \union {None}, was : WebStatus]
Get == [at : {"idle", "asking", "gateway", "session", "settle"}, id : Ids \union {None},
        was : Draft, status : WebStatus, ref : Refs \union {None}]

HandlerTypes ==
    /\ pc \in [Requests -> Pcs]
    /\ fwd \in [Requests -> Fwd]
    /\ draft \in [Requests -> Draft]
    /\ ans \in [Requests -> [code : Nat, id : Ids \union {None}]]

TableTypes ==
    /\ world \in World /\ ask \in [Requests -> Ask]
    /\ payments \in [Ids -> Row]
    /\ charge \in [Orders -> Charges]

WebTypes ==
    /\ TableTypes /\ HandlerTypes
    /\ hook \in [Hooks -> Hook]
    /\ get \in [Getters -> Get]

(* What the two unique indexes leave: with the gateway's, one payment per  *)
(* key; without, one per tenant and key.                                   *)
KeysAreUnique ==
    \A i, j \in Stored :
        /\ payments[i].key = payments[j].key
        /\ GatewayUrl \/ payments[i].user = payments[j].user
        => i = j

(* Payment i, stored, is the one request r asks for. *)
Matches(i, r) ==
    /\ i \in Stored /\ payments[i].key = KeyOf(r) /\ payments[i].body = ask[r].body
    /\ ~GatewayUrl => payments[i].user = Tenant(r)

(* A status and a reference that somebody read, or is about to write, for  *)
(* payment i: the outcome is real, and on Stripe the reference its own     *)
(* order's, unless the mock route was there.                               *)
Settlers(i) == IF world.provider = "stripe" THEN {OwnOrder(i)} ELSE Orders
Real(i, s) == WebTerminal(s) => \E o \in Settlers(i) : Outcome(o, s)
OwnRef(i, ref) == world.provider = "stripe" /\ ref \in Orders => ref = OwnOrder(i)
CopyOk(i, s, ref) == i \in mocked \/ (Real(i, s) /\ OwnRef(i, ref))

(* A request that has written to the table, or may have. *)
Wrote(q) ==
    /\ pc[q] \notin {"idle", "arrived", "replaying", "routing"}
    /\ ~(pc[q] = "forwarding" /\ fwd[q].at = "sent")

Rail == world.provider \in {"paymob", "fawry"}

(* A stored payment has an owner and, by who minted its id, its key; a     *)
(* request's own payment is stored only with its answer, and live on       *)
(* Paymob and Fawry only when the request was cut off from the gateway.    *)
RowIsNamed(i) ==
    /\ i \in Keys => payments[i].key = i /\ GatewayUrl
    /\ i \in Requests =>
          /\ payments[i].key = KeyOf(i) /\ pc[i] = "answered"
          /\ payments[i].live = IsLive(i) /\ payments[i].hash = "web"
          /\ IsLive(i) /\ Rail => fwd[i].cut
(* Some request that has written asked for what the row says. *)
RowIsWritten(i) ==
    \E q \in Requests : /\ Wrote(q) /\ KeyOf(q) = payments[i].key
                        /\ Tenant(q) = payments[i].user /\ ask[q].body = payments[i].body
RowOk(i) ==
    RowIsNamed(i) /\ RowIsWritten(i) /\ CopyOk(i, payments[i].status, payments[i].ref)

(* A handler that is about to write holds its own new payment or a copy of *)
(* the matching one; so does the gateway's reply, which is always about a  *)
(* payment the gateway minted.                                             *)
Drafting(r) == pc[r] \in {"replaying", "ready"}
OwnDraft(r) == pc[r] = "ready" /\ draft[r].id = r
DraftOk(r) ==
    Drafting(r) /\ ~OwnDraft(r) =>
        /\ Matches(draft[r].id, r)
        /\ CopyOk(draft[r].id, draft[r].status, draft[r].ref)
        /\ draft[r].id \in Requests => IsLive(draft[r].id) = IsLive(r)
ReplyOk(r) ==
    pc[r] = "forwarding" /\ fwd[r].at = "ok" =>
        /\ Matches(fwd[r].data.id, r) /\ fwd[r].data.id \in Keys
        /\ CopyOk(fwd[r].data.id, fwd[r].data.status, fwd[r].data.ref)

(* The gateway works for a request on the row of its key. *)
AtWork(r) ==
    /\ fwd[r].at # "no" => GatewayUrl
    /\ fwd[r].at \in Working => Matches(KeyOf(r), r)
    /\ fwd[r].at = "begun" => charge[GatewayOrder(r)] = "none"
    /\ fwd[r].at = "declined" => charge[GatewayOrder(r)] = "refused"

(* An accepted call's payment is stored under its key with its body, and   *)
(* listed unless a twin took it over.                                      *)
Listed(i, r) ==
    \/ payments[i].user = Tenant(r) /\ payments[i].live = IsLive(r)
    \/ \E q \in Requests : /\ Twins(r, q)
                           /\ <<Tenant(q), IsLive(q)>> # <<Tenant(r), IsLive(r)>>
AnswerOk(r) ==
    /\ pc[r] # "answered" => ans[r] = NoAns
    /\ Accepted(r) => ans[r].id \in Ids
    /\ Accepted(r) /\ Tenant(r) # Demo => Matches(ans[r].id, r) /\ Listed(ans[r].id, r)

(* A 409, given or on its way, has another request behind it. *)
Another(r) ==
    \E q \in Requests \ {r} : /\ KeyOf(q) = KeyOf(r)
                              /\ GatewayUrl \/ ~Twins(r, q) \/ Tenant(q) # Tenant(r)
ConflictOk(r) ==
    ans[r].code = 409 \/ (pc[r] = "forwarding" /\ fwd[r].at = "conflict") => Another(r)

(* The gateway was asked for this key, and its answer did not arrive. *)
CutOff(k) == \E r \in Requests : fwd[r].cut /\ KeyOf(r) = k

(* A handler falls back only without a gateway, cut off from it, or on an  *)
(* empty answer of a payment that is now stored.                           *)
FallbackForced(r) ==
    /\ pc[r] \in {"idle", "arrived", "routing", "forwarding"} => ~fwd[r].cut
    /\ pc[r] \in {"idle", "arrived", "replaying", "routing"} => fwd[r].at = "no"
    /\ pc[r] = "fallback" \/ OwnDraft(r) =>
          (GatewayUrl => fwd[r].cut \/ (~IsLive(r) /\ Rail))
    /\ OwnDraft(r) =>
          /\ draft[r].ref \in {Sim, [by |-> "session", key |-> KeyOf(r)]}
          /\ draft[r].status = "pending"
          /\ Rail => GatewayUrl \/ ~IsLive(r)

RequestOk(r) ==
    DraftOk(r) /\ ReplyOk(r) /\ AtWork(r) /\ AnswerOk(r) /\ ConflictOk(r) /\ FallbackForced(r)

(* One request at a time is at work on a key. *)
OneAtWork ==
    \A r, q \in Requests :
        fwd[r].at \in Working /\ fwd[q].at \in Working /\ KeyOf(r) = KeyOf(q) => r = q

(* Orders come from the gateway, which then lists the payment, or from     *)
(* Stripe sessions.                                                        *)
OrdersAreKnown ==
    \A k \in Keys :
        /\ charge[[by |-> "gateway", key |-> k]] # "none" => GatewayUrl /\ k \in Stored
        /\ charge[[by |-> "session", key |-> k]] # "none" =>
              world.provider = "stripe" /\ (GatewayUrl => CutOff(k))

(* A webhook or a GET in progress holds a row it found, and a status that  *)
(* is real for it.                                                         *)
HookOk(h) ==
    hook[h].at = "read" =>
        hook[h].id \in Stored /\ (hook[h].mock \/ CopyOk(hook[h].id, hook[h].status, None))
GetOk(g) ==
    get[g].at # "idle" => get[g].id \in Stored /\ CopyOk(get[g].id, get[g].status, get[g].ref)

WebInv ==
    /\ WebTypes
    /\ \A i \in Stored : RowOk(i)
    /\ KeysAreUnique
    /\ \A r \in Requests : RequestOk(r)
    /\ OneAtWork /\ OrdersAreKnown
    /\ \A h \in Hooks : HookOk(h)
    /\ \A g \in Getters : GetOk(g)

(* The SDK's calls. *)
Call == [at : {"new", "waiting", "backoff", "returned", "threw"}, attempt : Nat,
         result : Ids \union {Nothing}]
CallTypes == call \in [Calls -> Call]

(* What a payments.create returned is the answer to one of its requests. *)
ReturnedIsAnswered ==
    \A c \in Calls :
        call[c].at = "returned" =>
            \E r \in RequestsOf(c) : Accepted(r) /\ ans[r].id = call[c].result

SameAsk ==
    \A r, q \in Requests : origin[r].call = origin[q].call => ask[r] = ask[q]

CallsIInv == WebInv /\ CallTypes /\ ReturnedIsAnswered /\ SameAsk

------------------------------------------------------------------------------
(* What every step of the web application keeps: what is stored stays, a   *)
(* cut-off is remembered, an answer and an outcome are final.              *)
Grows ==
    /\ UNCHANGED <<world, ask>> /\ mocked \subseteq mocked'
    /\ \A i \in Stored :
          /\ i \in Stored'
          /\ payments'[i].key = payments[i].key /\ payments'[i].body = payments[i].body
          /\ ~GatewayUrl => payments'[i].user = payments[i].user
    /\ \A q \in Requests :
          /\ fwd[q].cut => fwd'[q].cut
          /\ Wrote(q) => Wrote(q)'
          /\ pc[q] = "answered" => pc'[q] = "answered" /\ ans'[q] = ans[q]
    /\ \A o \in Orders, s \in {"succeeded", "failed"} : Outcome(o, s) => Outcome(o, s)'

(* Types of what the handlers pass on. *)
LEMMA NamesAreTyped ==
    /\ Sim \in Refs /\ Sim \notin Orders /\ None \notin Ids /\ None \notin Orders
    /\ NoDraft \in Draft /\ NoPayment \in Row /\ NoFwd \in Fwd /\ NoHook \in Hook /\ NoGet \in Get
    /\ [NoFwd EXCEPT !.cut = TRUE] \in Fwd
    /\ \A k \in Keys : /\ [by |-> "gateway", key |-> k] \in Orders
                       /\ [by |-> "session", key |-> k] \in Orders
<1>1. /\ Sim \in Refs /\ Sim \notin Orders /\ None \notin Ids /\ None \notin Orders
      /\ \A k \in Keys : /\ [by |-> "gateway", key |-> k] \in Orders
                         /\ [by |-> "session", key |-> k] \in Orders
  BY NamesAssumption DEF Sim, Refs, Orders, Ids
<1>2. NoDraft \in Draft /\ NoPayment \in Row
  BY DEF NoDraft, NoPayment, Draft, Row, WebStatus
<1>3. NoFwd \in Fwd /\ [NoFwd EXCEPT !.cut = TRUE] \in Fwd
  BY <1>2 DEF NoFwd, Fwd
<1>4. NoHook \in Hook /\ NoGet \in Get
  BY <1>2 DEF NoHook, NoGet, Hook, Get, WebStatus
<1> QED
  BY <1>1, <1>2, <1>3, <1>4

(* Types of what a request says. *)
LEMMA AskTypes ==
    ASSUME WebTypes, NEW r \in Requests
    PROVE  /\ KeyOf(r) \in Keys /\ KeyOf(r) \in Ids /\ Tenant(r) \in Users
           /\ IsLive(r) \in BOOLEAN /\ ask[r].body \in Bodies
           /\ GatewayOrder(r) \in Orders /\ OwnOrder(r) \in Orders
           /\ OwnOrder(r) = [by |-> "session", key |-> KeyOf(r)]
<1>1. ask[r] \in Ask
  BY DEF WebTypes, TableTypes
<1>2. KeyOf(r) \in Keys /\ Tenant(r) \in Users /\ IsLive(r) \in BOOLEAN /\ ask[r].body \in Bodies
  BY <1>1 DEF KeyOf, Tenant, IsLive, Ask
<1>3. r \notin Keys
  BY NamesAssumption
<1> QED
  BY <1>2, <1>3, NamesAreTyped DEF Ids, GatewayOrder, OwnOrder

(* Types of a stored row. *)
LEMMA RowTypes ==
    ASSUME WebTypes, NEW i \in Ids
    PROVE  /\ payments[i] \in Row /\ payments[i].status \in WebStatus
           /\ payments[i].ref \in Refs \union {None} /\ RowView(i) \in Draft
           /\ RowView(i).id = i /\ RowView(i).status = payments[i].status
           /\ RowView(i).ref = payments[i].ref
<1>1. payments[i] \in Row
  BY DEF WebTypes, TableTypes
<1>2. payments[i].status \in WebStatus /\ payments[i].ref \in Refs \union {None}
  BY <1>1 DEF Row
<1> QED
  BY <1>1, <1>2 DEF RowView, Draft

(* The order a payment's outcome comes from is one. *)
LEMMA SettlersAreOrders ==
    ASSUME WebTypes, NEW i \in Ids
    PROVE  Settlers(i) \subseteq Orders /\ OwnOrder(i) \in Orders
<1>1. OwnOrder(i) \in Orders
  BY AskTypes, NamesAreTyped DEF Ids, OwnOrder
<1> QED
  BY <1>1 DEF Settlers

(* The handlers keep the types: one that answers, *)
LEMMA AnswerTypes ==
    ASSUME HandlerTypes, NEW r \in Requests, NEW c \in Nat, NEW i \in Ids \union {None},
           Answer(r, c, i)
    PROVE  HandlerTypes'
<1>1. pc' \in [Requests -> Pcs]
  BY DEF HandlerTypes, Answer, Pcs
<1>2. fwd' \in [Requests -> Fwd]
  BY NamesAreTyped DEF HandlerTypes, Answer, Fwd
<1>3. draft' \in [Requests -> Draft]
  BY NamesAreTyped DEF HandlerTypes, Answer
<1>4. ans' \in [Requests -> [code : Nat, id : Ids \union {None}]]
  BY DEF HandlerTypes, Answer
<1> QED
  BY <1>1, <1>2, <1>3, <1>4 DEF HandlerTypes

(* one that has its draft, *)
LEMMA ReadyTypes ==
    ASSUME HandlerTypes, NEW r \in Requests, NEW d \in Draft, Ready(r, d), UNCHANGED fwd
    PROVE  HandlerTypes'
BY DEF HandlerTypes, Ready, Pcs

(* one that only moves on. *)
LEMMA MoveTypes ==
    ASSUME HandlerTypes, NEW r \in Requests, NEW p \in Pcs, pc' = [pc EXCEPT ![r] = p],
           UNCHANGED <<draft, ans>>, fwd' \in [Requests -> Fwd]
    PROVE  HandlerTypes'
BY DEF HandlerTypes

(* A handler's step leaves the other handlers alone. *)
Frame(r) ==
    \A q \in Requests \ {r} :
        pc'[q] = pc[q] /\ fwd'[q] = fwd[q] /\ draft'[q] = draft[q] /\ ans'[q] = ans[q]

(* What answering does, *)
LEMMA AnswerFacts ==
    ASSUME WebTypes, NEW r \in Requests, NEW c, NEW i, Answer(r, c, i)
    PROVE  /\ Frame(r) /\ pc'[r] = "answered" /\ ans'[r].code = c /\ ans'[r].id = i
           /\ fwd'[r].at = fwd[r].at /\ fwd'[r].cut = fwd[r].cut
BY DEF WebTypes, HandlerTypes, Fwd, Answer, Frame

(* taking a draft, *)
LEMMA ReadyFacts ==
    ASSUME WebTypes, NEW r \in Requests, NEW d, Ready(r, d), UNCHANGED fwd
    PROVE  Frame(r) /\ pc'[r] = "ready" /\ draft'[r] = d /\ ans'[r] = ans[r] /\ fwd'[r] = fwd[r]
BY DEF WebTypes, HandlerTypes, Ready, Frame

(* and moving on. *)
LEMMA MoveFacts ==
    ASSUME WebTypes, NEW r \in Requests, NEW p, pc' = [pc EXCEPT ![r] = p],
           UNCHANGED <<fwd, draft, ans>>
    PROVE  /\ Frame(r) /\ pc'[r] = p
           /\ fwd'[r] = fwd[r] /\ draft'[r] = draft[r] /\ ans'[r] = ans[r]
BY DEF WebTypes, HandlerTypes, Frame

------------------------------------------------------------------------------
(* What Grows keeps.  The names that depend on the deployment and on what  *)
(* was asked do not change.                                                *)
LEMMA NamesStay ==
    ASSUME Grows, NEW r
    PROVE  /\ KeyOf(r)' = KeyOf(r) /\ Tenant(r)' = Tenant(r) /\ IsLive(r)' = IsLive(r)
           /\ GatewayUrl' = GatewayUrl /\ Rail' = Rail /\ GatewayOrder(r)' = GatewayOrder(r)
           /\ OwnOrder(r)' = OwnOrder(r) /\ Settlers(r)' = Settlers(r)
           /\ world' = world /\ ask' = ask /\ Another(r)' = Another(r)
BY DEF Grows, KeyOf, Tenant, IsLive, GatewayUrl, Rail, GatewayOrder, OwnOrder, Settlers, Another,
       Twins

(* A cut-off is remembered. *)
LEMMA CutOffStays ==
    ASSUME Grows, NEW k, CutOff(k)
    PROVE  CutOff(k)'
BY DEF Grows, CutOff, KeyOf

(* A matching payment stays one. *)
LEMMA MatchStays ==
    ASSUME Grows, NEW i, NEW r \in Requests, Matches(i, r)
    PROVE  Matches(i, r)'
BY DEF Grows, Matches, KeyOf, Tenant, GatewayUrl

(* What was real of a payment stays real. *)
LEMMA CopyStays ==
    ASSUME WebTypes, Grows, NEW i \in Ids, NEW s, NEW ref, CopyOk(i, s, ref)
    PROVE  CopyOk(i, s, ref)'
<1>1. CASE i \in mocked
  BY <1>1 DEF CopyOk, Grows
<1>2. CASE Real(i, s) /\ OwnRef(i, ref)
  <2>1. OwnRef(i, ref)'
    BY <1>2, NamesStay DEF OwnRef
  <2>2. Real(i, s)'
    <3>1. SUFFICES ASSUME WebTerminal(s) PROVE \E o \in Settlers(i) : Outcome(o, s)'
      BY NamesStay DEF Real, WebTerminal
    <3>2. PICK o \in Settlers(i) : Outcome(o, s)
      BY <1>2, <3>1 DEF Real
    <3> QED
      BY <3>1, <3>2, SettlersAreOrders DEF Grows, WebTerminal
  <2> QED
    BY <2>1, <2>2 DEF CopyOk
<1> QED
  BY <1>1, <1>2 DEF CopyOk

(* A row that nobody touches stays right. *)
LEMMA RowStays ==
    ASSUME WebTypes, Grows, NEW i \in Stored, RowOk(i), payments'[i] = payments[i]
    PROVE  RowOk(i)'
<1>0. i \in Ids
  BY DEF Stored
<1>1. RowIsNamed(i)'
  BY <1>0, NamesStay DEF RowOk, RowIsNamed, Grows, Ids
<1>2. RowIsWritten(i)'
  BY NamesStay DEF RowOk, RowIsWritten, Grows
<1>3. CopyOk(i, payments[i].status, payments[i].ref)'
  BY <1>0, CopyStays DEF RowOk
<1> QED
  BY <1>1, <1>2, <1>3 DEF RowOk

(* Nor does a listed payment vanish from a list, or the order a request    *)
(* is about to place appear, behind its back.                              *)
ListedStays(q) == \A i \in Stored : Matches(i, q) /\ Listed(i, q) => Listed(i, q)'
OrderStill(q) ==
    fwd[q].at \in Working /\ charge[GatewayOrder(q)] \in {"none", "refused"} =>
        charge'[GatewayOrder(q)] = charge[GatewayOrder(q)]

(* What a handler holds and has answered stays right. *)
LEMMA HandStays ==
    ASSUME WebTypes, Grows, NEW q \in Requests, RequestOk(q),
           pc'[q] = pc[q], draft'[q] = draft[q], ans'[q] = ans[q], ListedStays(q)
    PROVE  DraftOk(q)' /\ AnswerOk(q)'
<1>0. DraftOk(q) /\ AnswerOk(q)
  BY DEF RequestOk
<1>1. /\ Drafting(q)' = Drafting(q) /\ OwnDraft(q)' = OwnDraft(q) /\ Accepted(q)' = Accepted(q)
  BY DEF Drafting, OwnDraft, Accepted
<1>2. DraftOk(q)'
  <2>1. SUFFICES ASSUME Drafting(q), ~OwnDraft(q)
                 PROVE  /\ Matches(draft[q].id, q)'
                        /\ CopyOk(draft[q].id, draft[q].status, draft[q].ref)'
                        /\ draft'[q].id \in Requests => IsLive(draft[q].id)' = IsLive(q)'
    BY <1>1 DEF DraftOk
  <2>2. draft[q].id \in Ids /\ Matches(draft[q].id, q)
    BY <1>0, <2>1 DEF DraftOk, Matches, Stored
  <2>3. Matches(draft[q].id, q)'
    BY <2>2, MatchStays
  <2>4. CopyOk(draft[q].id, draft[q].status, draft[q].ref)'
    BY <1>0, <2>1, <2>2, CopyStays DEF DraftOk
  <2> QED
    BY <1>0, <2>1, <2>3, <2>4, NamesStay DEF DraftOk, IsLive
<1>3. AnswerOk(q)'
  <2>1. ASSUME Matches(ans[q].id, q), Listed(ans[q].id, q)
        PROVE  Matches(ans[q].id, q)' /\ Listed(ans[q].id, q)'
    <3>1. ans[q].id \in Stored
      BY <2>1 DEF Matches
    <3>2. Matches(ans[q].id, q)'
      BY <2>1, MatchStays
    <3> QED
      BY <2>1, <3>1, <3>2 DEF ListedStays
  <2> QED
    BY <1>0, <1>1, <2>1, NamesStay DEF AnswerOk
<1> QED
  BY <1>2, <1>3

(* A handler whose step it is not stays right. *)
LEMMA RequestStays ==
    ASSUME WebTypes, Grows, NEW q \in Requests, RequestOk(q),
           pc'[q] = pc[q], fwd'[q] = fwd[q], draft'[q] = draft[q], ans'[q] = ans[q],
           ListedStays(q), OrderStill(q)
    PROVE  RequestOk(q)'
<1>0. ReplyOk(q) /\ AtWork(q) /\ ConflictOk(q) /\ FallbackForced(q)
  BY DEF RequestOk
<1>1. DraftOk(q)' /\ AnswerOk(q)' /\ OwnDraft(q)' = OwnDraft(q)
  BY HandStays DEF OwnDraft
<1>2. ReplyOk(q)'
  <2>1. SUFFICES ASSUME pc[q] = "forwarding", fwd[q].at = "ok"
                 PROVE  /\ Matches(fwd[q].data.id, q)' /\ fwd'[q].data.id \in Keys
                        /\ CopyOk(fwd[q].data.id, fwd[q].data.status, fwd[q].data.ref)'
    BY DEF ReplyOk
  <2>2. /\ fwd[q].data.id \in Ids /\ Matches(fwd[q].data.id, q) /\ fwd[q].data.id \in Keys
        /\ CopyOk(fwd[q].data.id, fwd[q].data.status, fwd[q].data.ref)
    BY <1>0, <2>1 DEF ReplyOk, Matches, Stored
  <2>3. Matches(fwd[q].data.id, q)'
    BY <2>2, MatchStays
  <2>4. CopyOk(fwd[q].data.id, fwd[q].data.status, fwd[q].data.ref)'
    BY <2>2, CopyStays
  <2> QED
    BY <2>2, <2>3, <2>4
<1>3. AtWork(q)'
  <2>1. Matches(KeyOf(q), q) => Matches(KeyOf(q), q)'
    BY MatchStays, NamesStay
  <2>2. fwd[q].at = "begun" => charge'[GatewayOrder(q)] = "none"
    BY <1>0 DEF AtWork, OrderStill, Working
  <2>3. fwd[q].at = "declined" => charge'[GatewayOrder(q)] = "refused"
    BY <1>0 DEF AtWork, OrderStill, Working
  <2> QED
    BY <1>0, <2>1, <2>2, <2>3, NamesStay DEF AtWork, Working
<1>4. ConflictOk(q)'
  BY <1>0, NamesStay DEF ConflictOk
<1>5. FallbackForced(q)'
  BY <1>0, <1>1, NamesStay DEF FallbackForced
<1> QED
  BY <1>1, <1>2, <1>3, <1>4, <1>5 DEF RequestOk

(* A webhook or a GET whose step it is not stays right. *)
LEMMA HookStays ==
    ASSUME WebTypes, Grows, NEW h \in Hooks, HookOk(h), hook'[h] = hook[h]
    PROVE  HookOk(h)'
<1>1. SUFFICES ASSUME hook[h].at = "read"
               PROVE  /\ hook[h].id \in Stored'
                      /\ hook[h].mock \/ CopyOk(hook[h].id, hook[h].status, None)'
  BY DEF HookOk
<1>2. hook[h].id \in Stored /\ (hook[h].mock \/ CopyOk(hook[h].id, hook[h].status, None))
  BY <1>1 DEF HookOk
<1>3. hook[h].id \in Ids
  BY <1>2 DEF Stored
<1>4. CopyOk(hook[h].id, hook[h].status, None) => CopyOk(hook[h].id, hook[h].status, None)'
  BY <1>3, CopyStays
<1> QED
  BY <1>2, <1>4 DEF Grows

(* A GET. *)
LEMMA GetStays ==
    ASSUME WebTypes, Grows, NEW g \in Getters, GetOk(g), get'[g] = get[g]
    PROVE  GetOk(g)'
<1>1. SUFFICES ASSUME get[g].at # "idle"
               PROVE  /\ get[g].id \in Stored'
                      /\ CopyOk(get[g].id, get[g].status, get[g].ref)'
  BY DEF GetOk
<1>2. get[g].id \in Stored /\ CopyOk(get[g].id, get[g].status, get[g].ref)
  BY <1>1 DEF GetOk
<1>3. get[g].id \in Ids
  BY <1>2 DEF Stored
<1>4. CopyOk(get[g].id, get[g].status, get[g].ref)'
  BY <1>2, <1>3, CopyStays
<1> QED
  BY <1>2, <1>4 DEF Grows

------------------------------------------------------------------------------
(* POST /payments.  A step that leaves the table alone grows if it leaves  *)
(* no cut-off, write or outcome behind.                                    *)
OutcomesStay == \A o \in Orders, s \in {"succeeded", "failed"} : Outcome(o, s) => Outcome(o, s)'

(* Outcomes stay while the orders do. *)
LEMMA SameOrders ==
    ASSUME UNCHANGED charge
    PROVE  OutcomesStay /\ \A q \in Requests : UNCHANGED ask => OrderStill(q)
BY DEF OutcomesStay, Outcome, Inquired, OrderStill, GatewayOrder, KeyOf

(* A handler's step that leaves the table alone grows. *)
LEMMA HandlerGrows ==
    ASSUME WebTypes, UNCHANGED <<world, ask, payments, mocked>>, NEW r \in Requests, Frame(r),
           fwd[r].cut => fwd'[r].cut, Wrote(r) => Wrote(r)', OutcomesStay,
           pc[r] = "answered" => pc'[r] = "answered" /\ ans'[r] = ans[r]
    PROVE  Grows
<1>1. \A i \in Stored : i \in Stored' /\ payments'[i] = payments[i]
  BY DEF Stored
<1>2. \A q \in Requests : /\ fwd[q].cut => fwd'[q].cut
                          /\ Wrote(q) => Wrote(q)'
                          /\ pc[q] = "answered" => pc'[q] = "answered" /\ ans'[q] = ans[q]
  BY DEF Frame, Wrote
<1> QED
  BY <1>1, <1>2 DEF Grows, OutcomesStay

(* No order appears that is not known. *)
LEMMA OrdersStay ==
    ASSUME OrdersAreKnown, Grows, \A o \in Orders : charge'[o] # "none" => charge[o] # "none"
    PROVE  OrdersAreKnown'
<1> SUFFICES ASSUME NEW k \in Keys
             PROVE  /\ charge'[[by |-> "gateway", key |-> k]] # "none" => GatewayUrl' /\ k \in Stored'
                    /\ charge'[[by |-> "session", key |-> k]] # "none" =>
                          world'.provider = "stripe" /\ (GatewayUrl' => CutOff(k)')
  BY DEF OrdersAreKnown
<1>1. [by |-> "gateway", key |-> k] \in Orders /\ [by |-> "session", key |-> k] \in Orders
  BY NamesAreTyped
<1> QED
  BY <1>1, CutOffStays DEF OrdersAreKnown, Grows, GatewayUrl

(* The table, the owners and the lists. *)
LEMMA TableStays ==
    ASSUME WebInv, Grows, UNCHANGED payments
    PROVE  /\ \A i \in Stored' : RowOk(i)'
           /\ KeysAreUnique' /\ \A q \in Requests : ListedStays(q)
<1>0. Stored' = Stored
  BY DEF Stored
<1>1. \A i \in Stored' : RowOk(i)'
  BY <1>0, RowStays DEF WebInv
<1>2. KeysAreUnique'
  BY <1>0, NamesStay DEF WebInv, KeysAreUnique
<1>3. \A q \in Requests : ListedStays(q)
  BY DEF ListedStays, Listed, Twins, Grows, KeyOf, Tenant, IsLive
<1> QED
  BY <1>1, <1>2, <1>3

(* A handler that does its own step right keeps the invariant, if the      *)
(* table stays right.                                                      *)
LEMMA WriterKeeps ==
    ASSUME WebInv, Grows, WebTypes', NEW r \in Requests, Frame(r), RequestOk(r)',
           UNCHANGED <<hook, get>>, \A i \in Stored' : RowOk(i)', KeysAreUnique',
           \A q \in Requests : ListedStays(q),
           OneAtWork', OrdersAreKnown', \A q \in Requests \ {r} : OrderStill(q)
    PROVE  WebInv'
<1>0. WebTypes /\ \A q \in Requests : RequestOk(q)
  BY DEF WebInv
<1>1. \A q \in Requests : RequestOk(q)'
  BY <1>0, RequestStays DEF Frame
<1>2. (\A h \in Hooks : HookOk(h)') /\ (\A g \in Getters : GetOk(g)')
  BY <1>0, HookStays, GetStays DEF WebInv
<1> QED
  BY <1>1, <1>2 DEF WebInv

(* Nobody starts to work at the gateway. *)
LEMMA WorkStays ==
    ASSUME WebInv, Grows, NEW r \in Requests, Frame(r),
           fwd'[r].at \in Working => fwd[r].at \in Working
    PROVE  OneAtWork'
BY NamesStay DEF WebInv, OneAtWork, Frame

(* A handler that leaves the table alone and starts no work. *)
LEMMA HandlerKeeps ==
    ASSUME WebInv, Grows, WebTypes', NEW r \in Requests, Frame(r), RequestOk(r)',
           UNCHANGED <<payments, hook, get>>, fwd'[r].at \in Working => fwd[r].at \in Working,
           OrdersAreKnown', \A q \in Requests \ {r} : OrderStill(q)
    PROVE  WebInv'
BY TableStays, WorkStays, WriterKeeps

(* A handler that answers is right if its answer is. *)
LEMMA AnsweredOk ==
    ASSUME WebInv, Grows, NEW r \in Requests, NEW c, NEW i, Answer(r, c, i),
           c = 409 => Another(r), OrderStill(r),
           c \in {200, 201} =>
               /\ i \in Ids
               /\ Tenant(r) # Demo => Matches(i, r)' /\ Listed(i, r)'
    PROVE  RequestOk(r)'
<1>0. WebTypes /\ RequestOk(r) /\ AtWork(r)
  BY DEF WebInv, RequestOk
<1>1. /\ pc'[r] = "answered" /\ ans'[r].code = c /\ ans'[r].id = i
      /\ fwd'[r].at = fwd[r].at /\ fwd'[r].cut = fwd[r].cut
  BY <1>0, AnswerFacts
<1>2. DraftOk(r)' /\ ReplyOk(r)' /\ FallbackForced(r)'
  BY <1>1 DEF DraftOk, ReplyOk, FallbackForced, Drafting, OwnDraft
<1>3. AtWork(r)'
  <2>1. Matches(KeyOf(r), r) => Matches(KeyOf(r), r)'
    BY MatchStays, NamesStay
  <2>2. fwd[r].at = "begun" => charge'[GatewayOrder(r)] = "none"
    BY <1>0 DEF AtWork, OrderStill, Working
  <2>3. fwd[r].at = "declined" => charge'[GatewayOrder(r)] = "refused"
    BY <1>0 DEF AtWork, OrderStill, Working
  <2> QED
    BY <1>0, <1>1, <2>1, <2>2, <2>3, NamesStay DEF AtWork
<1>4. AnswerOk(r)'
  BY <1>1, NamesStay DEF AnswerOk, Accepted
<1>5. ConflictOk(r)'
  BY <1>1, NamesStay DEF ConflictOk
<1> QED
  BY <1>2, <1>3, <1>4, <1>5 DEF RequestOk

(* Answering from before the write: an error that keeps the invariant. *)
LEMMA ErrorKeeps ==
    ASSUME WebInv, NEW r \in Requests, NEW c \in Nat, Answer(r, c, None), pc[r] # "answered",
           c \notin {200, 201}, c = 409 => Another(r),
           UNCHANGED <<world, ask, payments, mocked, hook, get>>, OutcomesStay,
           charge' \in [Orders -> Charges], Grows => OrdersAreKnown',
           \A q \in Requests : OrderStill(q)
    PROVE  WebInv' /\ Grows
<1>0. WebTypes
  BY DEF WebInv
<1>1. Frame(r) /\ pc'[r] = "answered" /\ fwd'[r].at = fwd[r].at /\ fwd'[r].cut = fwd[r].cut
  BY <1>0, AnswerFacts
<1>2. Grows
  BY <1>0, <1>1, HandlerGrows DEF Wrote
<1>3. WebTypes'
  BY <1>0, AnswerTypes DEF WebTypes, TableTypes
<1>4. RequestOk(r)'
  BY <1>2, AnsweredOk
<1> QED
  BY <1>1, <1>2, <1>3, <1>4, HandlerKeeps

(* What nothing but its step changes of the handler that moves on. *)
Still == UNCHANGED <<world, ask, payments, mocked, charge, hook, get>>

(* Such a step keeps the types and the orders. *)
LEMMA StillKeeps ==
    ASSUME WebInv, Still
    PROVE  /\ OutcomesStay /\ \A q \in Requests : OrderStill(q)
           /\ HandlerTypes' => WebTypes'
           /\ Grows => OrdersAreKnown'
<1>1. OutcomesStay /\ \A q \in Requests : OrderStill(q)
  BY SameOrders DEF Still
<1>2. HandlerTypes' => WebTypes'
  BY DEF Still, WebInv, WebTypes, TableTypes
<1>3. Grows => OrdersAreKnown'
  BY OrdersStay DEF Still, WebInv
<1> QED
  BY <1>1, <1>2, <1>3

(* An error without any other effect. *)
LEMMA StillErrors ==
    ASSUME WebInv, Still, NEW r \in Requests, NEW c \in Nat, Answer(r, c, None),
           pc[r] # "answered", c \notin {200, 201}, c = 409 => Another(r)
    PROVE  WebInv' /\ Grows
<1>1. charge' \in [Orders -> Charges]
  BY DEF Still, WebInv, WebTypes, TableTypes
<1>2. OutcomesStay /\ (Grows => OrdersAreKnown') /\ \A q \in Requests : OrderStill(q)
  BY StillKeeps
<1> QED
  BY <1>1, <1>2, ErrorKeeps DEF Still

(* A handler that moves on. *)
LEMMA MoveKeeps ==
    ASSUME WebInv, Still, NEW r \in Requests, NEW p \in {"arrived", "routing", "fallback"},
           pc' = [pc EXCEPT ![r] = p], UNCHANGED <<fwd, draft, ans>>,
           pc[r] \in {"idle", "arrived", "routing", "forwarding"},
           p # "fallback" => pc[r] \in {"idle", "arrived"},
           p = "fallback" /\ GatewayUrl => ~IsLive(r) /\ Rail
    PROVE  WebInv' /\ Grows
<1>0. /\ WebTypes /\ DraftOk(r) /\ ReplyOk(r) /\ AtWork(r) /\ AnswerOk(r) /\ ConflictOk(r)
      /\ FallbackForced(r)
  BY DEF WebInv, RequestOk
<1>1. /\ Frame(r) /\ pc'[r] = p
      /\ fwd'[r] = fwd[r] /\ draft'[r] = draft[r] /\ ans'[r] = ans[r]
  BY <1>0, MoveFacts
<1>2. Grows
  BY <1>0, <1>1, HandlerGrows, StillKeeps DEF Wrote, Still
<1>3. WebTypes'
  BY <1>0, MoveTypes, StillKeeps DEF WebTypes, HandlerTypes, Pcs
<1>4. DraftOk(r)' /\ ReplyOk(r)'
  BY <1>1 DEF DraftOk, ReplyOk, Drafting
<1>5. AtWork(r)'
  <2>1. Matches(KeyOf(r), r) => Matches(KeyOf(r), r)'
    BY <1>2, MatchStays, NamesStay
  <2> QED
    BY <1>0, <1>1, <1>2, <2>1, NamesStay DEF AtWork, Still
<1>6. AnswerOk(r)' /\ ConflictOk(r)'
  BY <1>0, <1>1, <1>2, NamesStay DEF AnswerOk, ConflictOk, Accepted, NoAns
<1>7. FallbackForced(r)'
  BY <1>0, <1>1, <1>2, NamesStay DEF FallbackForced, OwnDraft
<1> QED
  BY <1>1, <1>2, <1>3, <1>4, <1>5, <1>6, <1>7, HandlerKeeps, StillKeeps DEF RequestOk, Still

(* A 409 at the lookup: who wrote the row is not this request, which has   *)
(* written nothing.                                                        *)
LEMMA LookupConflicts ==
    ASSUME WebInv, NEW r \in Requests, LookupConflict(r)
    PROVE  Another(r)
<1>1. PICK i \in FindIdempotent(r) : CrossTenant(i, r) \/ ~SameFingerprint(i, r, "web")
  BY DEF LookupConflict
<1>2. i \in Stored /\ payments[i].key = KeyOf(r)
  BY DEF FindIdempotent
<1>3. RowIsNamed(i) /\ RowIsWritten(i) /\ i \in Ids
  BY <1>2 DEF WebInv, RowOk, Stored
<1>4. PICK q \in Requests : /\ Wrote(q) /\ KeyOf(q) = payments[i].key
                            /\ Tenant(q) = payments[i].user /\ ask[q].body = payments[i].body
  BY <1>3 DEF RowIsWritten
<1>5. q # r
  BY <1>4 DEF Wrote, LookupConflict
<1>6. ~GatewayUrl => payments[i].hash = "web"
  BY <1>3 DEF RowIsNamed, Ids
<1>7. ~GatewayUrl => ~Twins(r, q) \/ Tenant(q) # Tenant(r)
  BY <1>1, <1>4, <1>6 DEF CrossTenant, SameFingerprint, Twins
<1> QED
  BY <1>2, <1>4, <1>5, <1>7 DEF Another

(* A replayed payment is the caller's. *)
LEMMA LookupHits ==
    ASSUME WebInv, NEW r \in Requests, LookupHit(r)
    PROVE  WebInv' /\ Grows
<1>0. /\ WebTypes /\ AtWork(r) /\ AnswerOk(r) /\ ConflictOk(r) /\ FallbackForced(r) /\ Still
  BY DEF WebInv, RequestOk, LookupHit, Still
<1>1. PICK i \in FindIdempotent(r) :
         /\ ~CrossTenant(i, r) /\ SameFingerprint(i, r, "web")
         /\ draft' = [draft EXCEPT ![r] = RowView(i)]
  BY DEF LookupHit
<1>2. i \in Stored /\ i \in Ids /\ payments[i].key = KeyOf(r) /\ payments[i].live = IsLive(r)
  BY DEF FindIdempotent, Stored
<1>3. /\ RowView(i) \in Draft /\ RowView(i).id = i
      /\ RowView(i).status = payments[i].status /\ RowView(i).ref = payments[i].ref
  BY <1>0, <1>2, RowTypes
<1>4. /\ Frame(r) /\ pc[r] = "arrived" /\ pc'[r] = "replaying" /\ draft'[r] = RowView(i)
      /\ fwd'[r] = fwd[r] /\ ans'[r] = ans[r]
  BY <1>0, <1>1 DEF LookupHit, WebTypes, HandlerTypes, Frame
<1>5. WebTypes'
  <2>1. HandlerTypes'
    BY <1>0, <1>1, <1>3 DEF LookupHit, WebTypes, HandlerTypes, Pcs
  <2> QED
    BY <1>0, <2>1, StillKeeps
<1>6. Grows
  BY <1>0, <1>4, HandlerGrows, StillKeeps DEF Wrote, Still
<1>7. RowOk(i) /\ payments[i].user \in Users
  <2>1. RowOk(i)
    BY <1>2 DEF WebInv
  <2> QED
    BY <1>0, <2>1, AskTypes DEF RowOk, RowIsWritten
<1>8. Matches(i, r) /\ CopyOk(i, payments[i].status, payments[i].ref)
      /\ (i \in Requests => IsLive(i) = IsLive(r))
  BY <1>1, <1>2, <1>7, NamesAssumption
     DEF Matches, CrossTenant, SameFingerprint, RowOk, RowIsNamed
<1>9. DraftOk(r)'
  <2>1. Matches(i, r)' /\ CopyOk(i, payments[i].status, payments[i].ref)'
    BY <1>0, <1>2, <1>6, <1>8, MatchStays, CopyStays DEF Still
  <2>2. payments' = payments /\ IsLive(i)' = IsLive(i) /\ IsLive(r)' = IsLive(r)
    BY <1>0, <1>6, NamesStay DEF Still
  <2>3. draft'[r].id = i /\ draft'[r].status = payments'[i].status /\ draft'[r].ref = payments'[i].ref
    BY <1>3, <1>4, <2>2
  <2> QED
    BY <1>8, <2>1, <2>2, <2>3 DEF DraftOk
<1>10. ReplyOk(r)' /\ ConflictOk(r)' /\ AnswerOk(r)' /\ FallbackForced(r)'
  BY <1>0, <1>4, <1>6, NamesStay
     DEF ReplyOk, ConflictOk, AnswerOk, FallbackForced, OwnDraft, Accepted, NoAns
<1>11. AtWork(r)'
  BY <1>0, <1>4 DEF AtWork, FallbackForced, Working
<1> QED
  BY <1>0, <1>4, <1>5, <1>6, <1>9, <1>10, <1>11, HandlerKeeps, StillKeeps DEF RequestOk, Still

(* The request goes to the gateway, or the handler gives it up. *)
LEMMA ForwardKeeps ==
    ASSUME WebInv, NEW r \in Requests, Forward(r) \/ Unreachable(r)
    PROVE  WebInv' /\ Grows
<1>0. /\ WebTypes /\ AtWork(r) /\ AnswerOk(r) /\ ConflictOk(r) /\ FallbackForced(r) /\ Still
  BY DEF WebInv, RequestOk, Forward, Unreachable, Still
<1>1. CASE Forward(r) /\ ~GatewayUrl
  BY <1>0, <1>1, MoveKeeps DEF Forward
<1>2. CASE Unreachable(r) \/ (Forward(r) /\ GatewayUrl)
  <2>1. /\ UNCHANGED <<draft, ans>> /\ fwd \in [Requests -> Fwd]
        /\ \/ pc' = [pc EXCEPT ![r] = "forwarding"] /\ pc[r] = "routing" /\ GatewayUrl
           \/ pc' = [pc EXCEPT ![r] = "fallback"] /\ pc[r] = "forwarding"
    BY <1>0, <1>2 DEF Forward, Unreachable, WebTypes, HandlerTypes
  <2>2. fwd' \in [Requests -> Fwd] /\ \A q \in Requests \ {r} : fwd'[q] = fwd[q]
    <3>1. [fwd EXCEPT ![r].at = "sent"] \in [Requests -> Fwd]
      BY <2>1 DEF Fwd
    <3>2. [fwd EXCEPT ![r].cut = TRUE] \in [Requests -> Fwd]
      BY <2>1 DEF Fwd
    <3>3. [fwd EXCEPT ![r] = [NoFwd EXCEPT !.cut = TRUE]] \in [Requests -> Fwd]
      BY <2>1, NamesAreTyped
    <3> QED
      BY <1>2, <2>1, <3>1, <3>2, <3>3 DEF Forward, Unreachable
  <2>3. \/ /\ pc[r] = "routing" /\ pc'[r] = "forwarding" /\ GatewayUrl
           /\ fwd'[r].at = "sent" /\ fwd'[r].cut = fwd[r].cut
        \/ /\ pc[r] = "forwarding" /\ pc'[r] = "fallback" /\ fwd'[r].cut
           /\ fwd'[r].at = "no" \/ fwd'[r].at = fwd[r].at
    <3>0. pc \in [Requests -> Pcs] /\ fwd[r] \in Fwd
      BY <1>0, <2>1 DEF WebTypes, HandlerTypes
    <3>1. CASE Forward(r) /\ GatewayUrl
      <4>1. fwd'[r] = [fwd[r] EXCEPT !.at = "sent"] /\ pc'[r] = "forwarding" /\ pc[r] = "routing"
        BY <2>1, <3>0, <3>1 DEF Forward
      <4> QED
        BY <3>0, <3>1, <4>1 DEF Fwd
    <3>2. CASE Unreachable(r)
      <4>1. pc[r] = "forwarding" /\ pc'[r] = "fallback"
        BY <3>0, <3>2 DEF Unreachable
      <4>2. fwd'[r] = [fwd[r] EXCEPT !.cut = TRUE] \/ fwd'[r] = [NoFwd EXCEPT !.cut = TRUE]
        BY <2>1, <3>2 DEF Unreachable
      <4> QED
        BY <3>0, <4>1, <4>2 DEF Fwd, NoFwd
    <3> QED
      BY <1>2, <3>1, <3>2
  <2>4. Frame(r) /\ draft'[r] = draft[r] /\ ans'[r] = ans[r]
    BY <1>0, <2>1, <2>2 DEF Frame, WebTypes, HandlerTypes
  <2>5. Grows
    BY <1>0, <2>3, <2>4, HandlerGrows, StillKeeps DEF Wrote, FallbackForced, Still
  <2>6. WebTypes'
    BY <1>0, <2>1, <2>2, MoveTypes, StillKeeps DEF WebTypes, Pcs
  <2>7. DraftOk(r)' /\ ReplyOk(r)' /\ AnswerOk(r)' /\ ConflictOk(r)'
    BY <1>0, <2>3, <2>4, <2>5, NamesStay
       DEF DraftOk, ReplyOk, AnswerOk, ConflictOk, Drafting, Accepted, NoAns
  <2>8. FallbackForced(r)'
    BY <1>0, <2>3, <2>4, <2>5, NamesStay DEF FallbackForced, OwnDraft
  <2>9. AtWork(r)'
    <3>1. Matches(KeyOf(r), r) => Matches(KeyOf(r), r)'
      BY <2>5, MatchStays, NamesStay
    <3> QED
      BY <1>0, <2>3, <2>5, <3>1, NamesStay DEF AtWork, Working, Still
  <2>10. fwd'[r].at \in Working => fwd[r].at \in Working
    BY <2>3 DEF Working
  <2> QED
    BY <1>0, <2>4, <2>5, <2>6, <2>7, <2>8, <2>9, <2>10, HandlerKeeps, StillKeeps
       DEF RequestOk, Still
<1> QED
  BY <1>1, <1>2

(* The steps of a handler up to the gateway's reply. *)
LookupStep(r) ==
    \/ Arrive(r) \/ RejectRequest(r) \/ LookupConflict(r) \/ LookupHit(r)
    \/ LookupMiss(r) \/ LookupFails(r) \/ Forward(r) \/ Unreachable(r)

(* They keep the invariant. *)
LEMMA LookupKeeps ==
    ASSUME WebInv, NEW r \in Requests, LookupStep(r)
    PROVE  WebInv' /\ Grows
<1>1. CASE Arrive(r)
  BY <1>1, MoveKeeps DEF Arrive, Still
<1>2. CASE RejectRequest(r)
  BY <1>2, StillErrors DEF RejectRequest, Still
<1>3. CASE LookupConflict(r)
  BY <1>3, StillErrors, LookupConflicts DEF LookupConflict, Still
<1>4. CASE LookupMiss(r) \/ LookupFails(r)
  <2>1. /\ pc[r] = "arrived" /\ Still
        /\ \/ pc' = [pc EXCEPT ![r] = "routing"] /\ UNCHANGED <<ans, fwd, draft>>
           \/ \E c \in {422, 500} : Answer(r, c, None)
    BY <1>4 DEF LookupMiss, LookupFails, Still
  <2> QED
    BY <2>1, MoveKeeps, StillErrors
<1> QED
  BY <1>1, <1>2, <1>3, <1>4, LookupHits, ForwardKeeps DEF LookupStep

------------------------------------------------------------------------------
(* Taking the gateway's reply, and falling back.                           *)
LEMMA ReadyKeeps ==
    ASSUME WebInv, NEW r \in Requests, NEW d \in Draft, Ready(r, d),
           UNCHANGED <<world, ask, payments, mocked, hook, get, fwd>>,
           pc[r] \in {"forwarding", "fallback"}, ~(pc[r] = "forwarding" /\ fwd[r].at = "sent"),
           charge' \in [Orders -> Charges], OutcomesStay, Grows => OrdersAreKnown',
           \A q \in Requests : OrderStill(q),
           \/ /\ d.id \in Keys /\ Matches(d.id, r) /\ CopyOk(d.id, d.status, d.ref)
           \/ /\ pc[r] = "fallback" /\ d.id = r /\ d.status = "pending"
              /\ d.ref \in {Sim, [by |-> "session", key |-> KeyOf(r)]}
              /\ Rail => GatewayUrl \/ ~IsLive(r)
    PROVE  WebInv' /\ Grows
<1>0. /\ WebTypes /\ AtWork(r) /\ AnswerOk(r) /\ ConflictOk(r) /\ FallbackForced(r)
  BY DEF WebInv, RequestOk
<1>1. /\ Frame(r) /\ pc'[r] = "ready" /\ draft'[r] = d /\ ans'[r] = ans[r] /\ fwd'[r] = fwd[r]
  BY <1>0, ReadyFacts
<1>2. Grows
  BY <1>0, <1>1, HandlerGrows DEF Wrote
<1>3. WebTypes'
  BY <1>0, ReadyTypes DEF WebTypes, TableTypes
<1>4. DraftOk(r)'
  <2>1. CASE d.id = r
    BY <1>1, <2>1 DEF DraftOk, OwnDraft
  <2>2. CASE d.id # r
    <3>1. d.id \in Ids /\ d.id \notin Requests /\ Matches(d.id, r) /\ CopyOk(d.id, d.status, d.ref)
      BY <2>2, NamesAssumption DEF Ids
    <3>2. Matches(d.id, r)' /\ CopyOk(d.id, d.status, d.ref)'
      BY <1>0, <1>2, <3>1, MatchStays, CopyStays
    <3> QED
      BY <1>1, <3>1, <3>2 DEF DraftOk
  <2> QED
    BY <2>1, <2>2
<1>5. ReplyOk(r)' /\ AnswerOk(r)' /\ ConflictOk(r)'
  BY <1>0, <1>1, <1>2, NamesStay DEF ReplyOk, AnswerOk, ConflictOk, Accepted, NoAns
<1>6. AtWork(r)'
  <2>1. Matches(KeyOf(r), r) => Matches(KeyOf(r), r)'
    BY <1>2, MatchStays, NamesStay
  <2>2. fwd[r].at = "begun" => charge'[GatewayOrder(r)] = "none"
    BY <1>0 DEF AtWork, OrderStill, Working
  <2>3. fwd[r].at = "declined" => charge'[GatewayOrder(r)] = "refused"
    BY <1>0 DEF AtWork, OrderStill, Working
  <2> QED
    BY <1>0, <1>1, <1>2, <2>1, <2>2, <2>3, NamesStay DEF AtWork
<1>7. FallbackForced(r)'
  <2>1. OwnDraft(r)' => d.id = r
    BY <1>1 DEF OwnDraft
  <2>2. d.id = r =>
           /\ pc[r] = "fallback" /\ d.status = "pending"
           /\ d.ref \in {Sim, [by |-> "session", key |-> KeyOf(r)]}
           /\ Rail => GatewayUrl \/ ~IsLive(r)
    BY NamesAssumption
  <2> QED
    BY <1>0, <1>1, <1>2, <2>1, <2>2, NamesStay DEF FallbackForced
<1> QED
  BY <1>1, <1>2, <1>3, <1>4, <1>5, <1>6, <1>7, HandlerKeeps DEF RequestOk

(* The reply is passed on, or the route falls back on an empty one. *)
LEMMA TakeKeeps ==
    ASSUME WebInv, NEW r \in Requests,
           GatewayError(r) \/ TakeRailReply(r) \/ TakeStripeReply(r) \/ TakeMockReply(r)
    PROVE  WebInv' /\ Grows
<1>0. /\ WebTypes /\ ReplyOk(r) /\ ConflictOk(r) /\ Still /\ pc[r] = "forwarding"
  BY DEF WebInv, RequestOk, GatewayError, TakeRailReply, TakeStripeReply, TakeMockReply, Still
<1>1. CASE GatewayError(r)
  <2>1. PICK c \in {409, 502} : Answer(r, c, None) /\ (c = 409 => fwd[r].at = "conflict")
    BY <1>1 DEF GatewayError
  <2> QED
    BY <1>0, <2>1, StillErrors DEF ConflictOk
<1>2. ASSUME fwd[r].at = "ok", Ready(r, fwd[r].data), UNCHANGED fwd PROVE WebInv' /\ Grows
  <2>1. fwd[r].data \in Draft
    BY <1>0 DEF WebTypes, HandlerTypes, Fwd
  <2>2. /\ fwd[r].data.id \in Keys /\ Matches(fwd[r].data.id, r)
        /\ CopyOk(fwd[r].data.id, fwd[r].data.status, fwd[r].data.ref)
    BY <1>0, <1>2 DEF ReplyOk
  <2>3. charge' \in [Orders -> Charges] /\ UNCHANGED <<world, ask, payments, mocked, hook, get>>
    BY <1>0 DEF Still, WebTypes, TableTypes
  <2> QED
    BY <1>0, <1>2, <2>1, <2>2, <2>3, ReadyKeeps, StillKeeps
<1>3. CASE TakeRailReply(r)
  <2>1. /\ fwd[r].at = "ok" /\ Rail
        /\ \/ Ready(r, fwd[r].data) /\ UNCHANGED fwd
           \/ Answer(r, 502, None)
           \/ ~IsLive(r) /\ pc' = [pc EXCEPT ![r] = "fallback"] /\ UNCHANGED <<fwd, draft, ans>>
    BY <1>3 DEF TakeRailReply, Rail
  <2> QED
    BY <1>0, <1>2, <2>1, StillErrors, MoveKeeps
<1>4. CASE TakeStripeReply(r) \/ TakeMockReply(r)
  BY <1>2, <1>4 DEF TakeStripeReply, TakeMockReply
<1> QED
  BY <1>1, <1>3, <1>4

(* A session that is created disturbs nobody. *)
LEMMA SessionKeeps ==
    ASSUME WebInv, NEW r \in Requests, pc[r] = "fallback", world.provider = "stripe",
           UNCHANGED <<world, ask>>,
           charge' \in {charge, CreateSession([by |-> "session", key |-> KeyOf(r)])}
    PROVE  /\ charge' \in [Orders -> Charges] /\ OutcomesStay /\ (Grows => OrdersAreKnown')
           /\ \A q \in Requests : OrderStill(q)
<1> DEFINE o == [by |-> "session", key |-> KeyOf(r)]
<1>0. /\ WebTypes /\ FallbackForced(r) /\ charge \in [Orders -> Charges] /\ o \in Orders
      /\ KeyOf(r) \in Keys
  BY AskTypes, NamesAreTyped DEF WebInv, RequestOk, WebTypes, TableTypes
<1>1. /\ charge' \in [Orders -> Charges]
      /\ \A x \in Orders : x # o => charge'[x] = charge[x]
      /\ charge'[o] = charge[o] \/ (charge[o] = "none" /\ charge'[o] = "open")
  BY <1>0 DEF CreateSession, Charges
<1>2. OutcomesStay
  <2> SUFFICES ASSUME NEW x \in Orders, NEW s \in {"succeeded", "failed"}, Outcome(x, s)
               PROVE  Outcome(x, s)'
    BY DEF OutcomesStay
  <2>1. charge'[x] = charge[x] \/ (charge[x] = "none" /\ charge'[x] = "open")
    BY <1>1
  <2> QED
    BY <2>1 DEF Outcome, Inquired
<1>3. \A q \in Requests : OrderStill(q)
  <2> SUFFICES ASSUME NEW q \in Requests PROVE charge'[GatewayOrder(q)] = charge[GatewayOrder(q)]
    BY DEF OrderStill, GatewayOrder, KeyOf
  <2>1. GatewayOrder(q) \in Orders /\ GatewayOrder(q) # o
    BY <1>0, AskTypes DEF GatewayOrder
  <2> QED
    BY <1>1, <2>1
<1>4. ASSUME Grows PROVE OrdersAreKnown'
  <2> SUFFICES ASSUME NEW k \in Keys
             PROVE  /\ charge'[[by |-> "gateway", key |-> k]] # "none" => GatewayUrl' /\ k \in Stored'
                    /\ charge'[[by |-> "session", key |-> k]] # "none" =>
                          world'.provider = "stripe" /\ (GatewayUrl' => CutOff(k)')
    BY DEF OrdersAreKnown
  <2>1. [by |-> "gateway", key |-> k] \in Orders /\ [by |-> "session", key |-> k] \in Orders
    BY NamesAreTyped
  <2>2. /\ charge'[[by |-> "gateway", key |-> k]] = charge[[by |-> "gateway", key |-> k]]
        /\ k # KeyOf(r) =>
             charge'[[by |-> "session", key |-> k]] = charge[[by |-> "session", key |-> k]]
    BY <1>1, <2>1
  <2>3. GatewayUrl => CutOff(KeyOf(r))
    BY <1>0 DEF FallbackForced, Rail, CutOff
  <2>4. /\ charge[[by |-> "gateway", key |-> k]] # "none" => GatewayUrl /\ k \in Stored
        /\ charge[[by |-> "session", key |-> k]] # "none" =>
              world.provider = "stripe" /\ (GatewayUrl => CutOff(k))
    BY DEF WebInv, OrdersAreKnown
  <2> QED
    BY <1>4, <2>2, <2>3, <2>4, CutOffStays DEF Grows, GatewayUrl
<1> QED
  BY <1>1, <1>2, <1>3, <1>4

(* The fallbacks keep the invariant. *)
LEMMA FallbackKeeps ==
    ASSUME WebInv, NEW r \in Requests, RailFallback(r) \/ StripeFallback(r) \/ MockFallback(r)
    PROVE  WebInv' /\ Grows
<1> DEFINE o == [by |-> "session", key |-> KeyOf(r)]
           own == [id |-> r, ref |-> o, status |-> "pending"]
<1>0. /\ WebTypes /\ pc[r] = "fallback" /\ UNCHANGED <<world, ask, payments, mocked, hook, get>>
      /\ Simulated(r) \in Draft /\ own \in Draft
  BY AskTypes, NamesAreTyped
     DEF WebInv, RailFallback, StripeFallback, MockFallback, Simulated, Draft, WebStatus, Ids, Refs
<1>1. /\ Simulated(r).id = r /\ Simulated(r).status = "pending" /\ Simulated(r).ref = Sim
      /\ own.id = r /\ own.status = "pending" /\ own.ref = o
  BY DEF Simulated
<1>2. ASSUME NEW d \in {Simulated(r), own}, Ready(r, d), UNCHANGED fwd,
             Rail => GatewayUrl \/ ~IsLive(r),
             Still \/ (/\ world.provider = "stripe" /\ charge' \in {charge, CreateSession(o)})
      PROVE  WebInv' /\ Grows
  <2>1. /\ d \in Draft /\ d.id = r /\ d.status = "pending" /\ d.ref \in {Sim, o}
    BY <1>0, <1>1, <1>2
  <2>2. /\ charge' \in [Orders -> Charges] /\ OutcomesStay /\ (Grows => OrdersAreKnown')
        /\ \A q \in Requests : OrderStill(q)
    BY <1>0, <1>2, SessionKeeps, StillKeeps DEF Still, WebTypes, TableTypes
  <2> QED
    BY <1>0, <1>2, <2>1, <2>2, ReadyKeeps
<1>3. CASE RailFallback(r)
  <2>1. /\ Still /\ \/ Ready(r, Simulated(r)) /\ MaySimulate(r) /\ UNCHANGED fwd
                    \/ Answer(r, 503, None)
    BY <1>3 DEF RailFallback, Still
  <2> QED
    BY <1>0, <1>2, <2>1, StillErrors DEF MaySimulate
<1>4. CASE MockFallback(r)
  <2>1. /\ Still /\ ~Rail
        /\ \/ Ready(r, Simulated(r)) /\ UNCHANGED fwd
           \/ \E c \in {402, 504} : Answer(r, c, None)
    BY <1>4 DEF MockFallback, Still, Rail
  <2> QED
    BY <1>0, <1>2, <2>1, StillErrors
<1>5. CASE StripeFallback(r)
  <2>1. /\ ~Rail /\ world.provider = "stripe"
        /\ \/ Ready(r, Simulated(r)) /\ UNCHANGED <<fwd, charge>>
           \/ Ready(r, own) /\ charge' = CreateSession(o) /\ UNCHANGED fwd
           \/ Answer(r, 502, None) /\ charge' \in {charge, CreateSession(o)}
    BY <1>5 DEF StripeFallback, Rail
  <2>2. CASE Answer(r, 502, None) /\ charge' \in {charge, CreateSession(o)}
    <3>1. /\ charge' \in [Orders -> Charges] /\ OutcomesStay /\ (Grows => OrdersAreKnown')
          /\ \A q \in Requests : OrderStill(q)
      BY <1>0, <2>1, <2>2, SessionKeeps
    <3> QED
      BY <1>0, <2>2, <3>1, ErrorKeeps
  <2> QED
    BY <1>0, <1>2, <2>1, <2>2
<1> QED
  BY <1>3, <1>4, <1>5

------------------------------------------------------------------------------
(* Writing a status and a reference into a stored row.                     *)
Touched(i, s, ref) == [payments EXCEPT ![i] = [payments[i] EXCEPT !.status = s, !.ref = ref]]

(* A touched row keeps its type, its owner and its key; the other rows     *)
(* stay.                                                                   *)
LEMMA TouchFacts ==
    ASSUME WebTypes, NEW i \in Stored, NEW s \in WebStatus, NEW ref \in Refs \union {None},
           payments' = Touched(i, s, ref)
    PROVE  /\ payments' \in [Ids -> Row] /\ Stored' = Stored
           /\ payments'[i].status = s /\ payments'[i].ref = ref
           /\ payments'[i].user = payments[i].user /\ payments'[i].key = payments[i].key
           /\ payments'[i].body = payments[i].body /\ payments'[i].live = payments[i].live
           /\ payments'[i].hash = payments[i].hash
           /\ \A j \in Ids : j # i => payments'[j] = payments[j]
<1>0. i \in Ids
  BY DEF Stored
<1>1. payments[i] \in Row /\ payments \in [Ids -> Row]
  BY <1>0 DEF WebTypes, TableTypes
<1>2. [payments[i] EXCEPT !.status = s, !.ref = ref] \in Row
  BY <1>1 DEF Row
<1>3. /\ payments' \in [Ids -> Row] /\ \A j \in Ids : j # i => payments'[j] = payments[j]
      /\ payments'[i] = [payments[i] EXCEPT !.status = s, !.ref = ref]
  BY <1>0, <1>1, <1>2 DEF Touched
<1>4. /\ payments'[i].status = s /\ payments'[i].ref = ref
      /\ payments'[i].user = payments[i].user /\ payments'[i].key = payments[i].key
      /\ payments'[i].body = payments[i].body /\ payments'[i].live = payments[i].live
      /\ payments'[i].hash = payments[i].hash
  BY <1>1, <1>3 DEF Row
<1>5. Stored' = Stored
  BY <1>0, <1>3, <1>4 DEF Stored
<1> QED
  BY <1>3, <1>4, <1>5

(* UPDATEs of one or both columns are touches. *)
LEMMA UpdateIsTouch ==
    ASSUME WebTypes, NEW i \in Ids, NEW s, NEW ref
    PROVE  /\ [payments EXCEPT ![i].status = s] = Touched(i, s, payments[i].ref)
           /\ [payments EXCEPT ![i].status = s, ![i].ref = ref] = Touched(i, s, ref)
           /\ [payments EXCEPT ![i].ref = ref, ![i].status = s] = Touched(i, s, ref)
           /\ [payments EXCEPT ![i] = [payments[i] EXCEPT !.status = s]]
                 = Touched(i, s, payments[i].ref)
<1>1. payments[i] \in Row /\ payments \in [Ids -> Row]
  BY DEF WebTypes, TableTypes
<1>2. /\ [payments[i] EXCEPT !.status = s] = [payments[i] EXCEPT !.status = s, !.ref = payments[i].ref]
      /\ [payments[i] EXCEPT !.ref = ref, !.status = s] = [payments[i] EXCEPT !.status = s, !.ref = ref]
  BY <1>1 DEF Row
<1> QED
  BY <1>1, <1>2 DEF Touched

(* The table's part of growing. *)
LEMMA TouchGrows ==
    ASSUME WebTypes, NEW i \in Stored, NEW s \in WebStatus, NEW ref \in Refs \union {None},
           payments' = Touched(i, s, ref), UNCHANGED <<world, ask>>, mocked \subseteq mocked',
           OutcomesStay,
           \A q \in Requests : /\ fwd[q].cut => fwd'[q].cut
                               /\ Wrote(q) => Wrote(q)'
                               /\ pc[q] = "answered" => pc'[q] = "answered" /\ ans'[q] = ans[q]
    PROVE  Grows
<1>1. /\ Stored' = Stored
      /\ payments'[i].user = payments[i].user /\ payments'[i].key = payments[i].key
      /\ payments'[i].body = payments[i].body
      /\ \A j \in Ids : j # i => payments'[j] = payments[j]
  BY TouchFacts
<1>2. \A j \in Stored : /\ j \in Stored'
                        /\ payments'[j].key = payments[j].key /\ payments'[j].body = payments[j].body
                        /\ payments'[j].user = payments[j].user
  BY <1>1 DEF Stored
<1> QED
  BY <1>2 DEF Grows, OutcomesStay

(* A touched table is right if what is written is. *)
LEMMA TouchKeeps ==
    ASSUME WebInv, Grows, NEW i \in Stored, NEW s \in WebStatus, NEW ref \in Refs \union {None},
           payments' = Touched(i, s, ref), CopyOk(i, s, ref)'
    PROVE  /\ \A j \in Stored' : RowOk(j)'
           /\ KeysAreUnique' /\ \A q \in Requests : ListedStays(q)
<1>0. WebTypes /\ i \in Ids
  BY DEF WebInv, Stored
<1>1. /\ Stored' = Stored /\ payments'[i].status = s /\ payments'[i].ref = ref
      /\ payments'[i].user = payments[i].user /\ payments'[i].key = payments[i].key
      /\ payments'[i].body = payments[i].body /\ payments'[i].live = payments[i].live
      /\ payments'[i].hash = payments[i].hash
      /\ \A j \in Ids : j # i => payments'[j] = payments[j]
  BY <1>0, TouchFacts
<1>2. \A j \in Stored : /\ payments'[j].user = payments[j].user
                        /\ payments'[j].key = payments[j].key /\ payments'[j].live = payments[j].live
  BY <1>1 DEF Stored
<1>3. ASSUME NEW j \in Stored PROVE RowOk(j)'
  <2>0. RowOk(j) /\ j \in Ids
    BY DEF WebInv, Stored
  <2>1. CASE j # i
    BY <1>0, <1>1, <2>0, <2>1, RowStays
  <2>2. CASE j = i
    <3>1. RowIsNamed(i)'
      BY <1>0, <1>1, <2>0, <2>2, NamesStay DEF RowOk, RowIsNamed, Grows
    <3>2. RowIsWritten(i)'
      BY <1>1, <2>0, <2>2, NamesStay DEF RowOk, RowIsWritten, Grows
    <3>3. CopyOk(i, payments[i].status, payments[i].ref)'
      BY <1>1
    <3> QED
      BY <2>2, <3>1, <3>2, <3>3 DEF RowOk
  <2> QED
    BY <2>1, <2>2
<1>4. KeysAreUnique'
  BY <1>1, <1>2, NamesStay DEF WebInv, KeysAreUnique
<1>5. \A q \in Requests : ListedStays(q)
  BY <1>2 DEF ListedStays, Listed, Twins, Grows, KeyOf, Tenant, IsLive
<1> QED
  BY <1>1, <1>3, <1>4, <1>5

------------------------------------------------------------------------------
(* The gateway.  Its reply reaches a handler that waits, or nobody.        *)
LEMMA ReplyFacts ==
    ASSUME WebTypes, NEW r \in Requests, FallbackForced(r), NEW d \in Draft,
           NEW a \in {"ok", "conflict", "refused"}, Reply(r, a, d), UNCHANGED <<pc, draft, ans>>
    PROVE  /\ fwd' \in [Requests -> Fwd] /\ Frame(r)
           /\ \/ /\ pc[r] = "forwarding" /\ ~fwd[r].cut /\ ~fwd'[r].cut
                 /\ fwd'[r].at = a /\ fwd'[r].data = d
              \/ pc[r] # "forwarding" /\ fwd'[r].at = "no" /\ fwd'[r].cut
           /\ fwd'[r].at \notin Working
           /\ Wrote(r) => Wrote(r)'
<1>0. fwd \in [Requests -> Fwd]
  BY DEF WebTypes, HandlerTypes
<1>1. [at |-> a, cut |-> FALSE, data |-> d] \in Fwd
  BY DEF Fwd
<1>2. /\ fwd' \in [Requests -> Fwd] /\ \A q \in Requests \ {r} : fwd'[q] = fwd[q]
      /\ fwd'[r] = IF pc[r] = "forwarding" THEN [at |-> a, cut |-> FALSE, data |-> d]
                   ELSE [NoFwd EXCEPT !.cut = TRUE]
  BY <1>0, <1>1, NamesAreTyped DEF Reply
<1>3. [NoFwd EXCEPT !.cut = TRUE].at = "no" /\ [NoFwd EXCEPT !.cut = TRUE].cut
  BY DEF NoFwd
<1>4. \/ /\ pc[r] = "forwarding" /\ ~fwd[r].cut /\ ~fwd'[r].cut
         /\ fwd'[r].at = a /\ fwd'[r].data = d
      \/ pc[r] # "forwarding" /\ fwd'[r].at = "no" /\ fwd'[r].cut
  BY <1>2, <1>3 DEF FallbackForced
<1>5. Frame(r) /\ fwd'[r].at \notin Working /\ (Wrote(r) => Wrote(r)')
  BY <1>2, <1>4 DEF Frame, Working, Wrote
<1> QED
  BY <1>2, <1>4, <1>5

(* A handler is right after the gateway's reply. *)
LEMMA RepliedOk ==
    ASSUME WebInv, Grows, NEW r \in Requests, NEW d \in Draft,
           NEW a \in {"ok", "conflict", "refused"}, Reply(r, a, d), UNCHANGED <<pc, draft, ans>>,
           fwd[r].at # "no", a = "conflict" /\ pc[r] = "forwarding" => Another(r),
           a = "ok" => d.id \in Keys /\ Matches(d.id, r)' /\ CopyOk(d.id, d.status, d.ref)',
           ListedStays(r)
    PROVE  RequestOk(r)'
<1>0. WebTypes /\ RequestOk(r) /\ AtWork(r) /\ ConflictOk(r) /\ FallbackForced(r)
  BY DEF WebInv, RequestOk
<1>1. /\ \/ /\ pc[r] = "forwarding" /\ ~fwd[r].cut /\ ~fwd'[r].cut
            /\ fwd'[r].at = a /\ fwd'[r].data = d
         \/ pc[r] # "forwarding" /\ fwd'[r].at = "no" /\ fwd'[r].cut
      /\ fwd'[r].at \notin Working
  BY <1>0, ReplyFacts
<1>2. DraftOk(r)' /\ AnswerOk(r)'
  BY <1>0, HandStays
<1>3. ReplyOk(r)'
  BY <1>1 DEF ReplyOk
<1>4. AtWork(r)'
  BY <1>0, <1>1, NamesStay DEF AtWork, Working
<1>5. ConflictOk(r)'
  BY <1>0, <1>1, NamesStay DEF ConflictOk
<1>6. FallbackForced(r)'
  <2>1. OwnDraft(r)' = OwnDraft(r)
    BY DEF OwnDraft
  <2> QED
    BY <1>0, <1>1, <2>1, NamesStay DEF FallbackForced
<1> QED
  BY <1>2, <1>3, <1>4, <1>5, <1>6 DEF RequestOk

(* A handler is right while the gateway works for it. *)
LEMMA WorkingOk ==
    ASSUME WebInv, Grows, NEW r \in Requests, NEW a \in Working, fwd[r].at # "no",
           fwd' = [fwd EXCEPT ![r].at = a], UNCHANGED <<pc, draft, ans>>, ListedStays(r),
           Matches(KeyOf(r), r)',
           a = "begun" => charge'[GatewayOrder(r)] = "none",
           a = "declined" => charge'[GatewayOrder(r)] = "refused"
    PROVE  RequestOk(r)' /\ Frame(r) /\ fwd' \in [Requests -> Fwd]
<1>0. WebTypes /\ RequestOk(r) /\ AtWork(r) /\ ConflictOk(r) /\ FallbackForced(r)
  BY DEF WebInv, RequestOk
<1>1. /\ fwd'[r].at = a /\ fwd'[r].cut = fwd[r].cut /\ fwd' \in [Requests -> Fwd] /\ Frame(r)
  BY <1>0 DEF WebTypes, HandlerTypes, Fwd, Frame
<1>2. DraftOk(r)' /\ AnswerOk(r)'
  BY <1>0, HandStays
<1>3. ReplyOk(r)' /\ ConflictOk(r)'
  BY <1>0, <1>1, NamesStay DEF ReplyOk, ConflictOk, Working
<1>4. AtWork(r)'
  BY <1>0, <1>1, NamesStay DEF AtWork
<1>5. FallbackForced(r)'
  <2>1. OwnDraft(r)' = OwnDraft(r)
    BY DEF OwnDraft
  <2> QED
    BY <1>0, <1>1, <2>1, NamesStay DEF FallbackForced
<1> QED
  BY <1>1, <1>2, <1>3, <1>4, <1>5 DEF RequestOk

(* A request that the gateway is asked for has left its handler's first    *)
(* steps behind.                                                           *)
LEMMA AskedIsLate ==
    ASSUME WebInv, NEW r \in Requests, fwd[r].at # "no"
    PROVE  /\ GatewayUrl /\ pc[r] \in {"forwarding", "fallback", "ready", "answered"}
           /\ fwd[r].at # "sent" => Wrote(r)
BY DEF WebInv, RequestOk, AtWork, FallbackForced, Wrote, WebTypes, HandlerTypes, Pcs

(* begin_payment that refuses, replays or finds a conflict. *)
LEMMA ReplayKeeps ==
    ASSUME WebInv, NEW r \in Requests, GatewayBegins(r), UNCHANGED payments
    PROVE  WebInv' /\ Grows
<1>0. /\ WebTypes /\ FallbackForced(r) /\ Still /\ UNCHANGED <<pc, draft, ans>>
      /\ fwd[r].at = "sent" /\ NoDraft \in Draft /\ fwd \in [Requests -> Fwd]
  BY NamesAreTyped DEF WebInv, RequestOk, GatewayBegins, Still, WebTypes, HandlerTypes
<1>1. ASSUME NEW d \in Draft, NEW a \in {"ok", "conflict", "refused"}, Reply(r, a, d),
             a = "conflict" /\ pc[r] = "forwarding" => Another(r),
             a = "ok" => d.id \in Keys /\ Matches(d.id, r) /\ CopyOk(d.id, d.status, d.ref)
      PROVE  WebInv' /\ Grows
  <2>1. /\ fwd' \in [Requests -> Fwd] /\ Frame(r) /\ fwd'[r].at \notin Working
        /\ (Wrote(r) => Wrote(r)') /\ (fwd[r].cut => fwd'[r].cut)
    BY <1>0, <1>1, ReplyFacts
  <2>2. Grows
    BY <1>0, <2>1, HandlerGrows, StillKeeps DEF Still
  <2>3. WebTypes'
    BY <1>0, <2>1, StillKeeps DEF WebTypes, HandlerTypes
  <2>4. \A q \in Requests : ListedStays(q)
    BY <2>2, TableStays
  <2>5. a = "ok" => d.id \in Keys /\ Matches(d.id, r)' /\ CopyOk(d.id, d.status, d.ref)'
    BY <1>0, <1>1, <2>2, MatchStays, CopyStays DEF Ids
  <2>6. RequestOk(r)'
    BY <1>0, <1>1, <2>2, <2>4, <2>5, RepliedOk
  <2> QED
    BY <1>0, <2>1, <2>2, <2>3, <2>6, HandlerKeeps, StillKeeps DEF Still
<1>2. CASE Reply(r, "refused", NoDraft)
  BY <1>0, <1>1, <1>2
<1>3. ASSUME NEW i \in Stored, payments[i].key = KeyOf(r), SameFingerprint(i, r, "gateway"),
             Reply(r, "ok", RowView(i))
      PROVE  WebInv' /\ Grows
  <2>1. i \in Ids /\ RowOk(i) /\ GatewayUrl
    BY <1>0, AskedIsLate DEF WebInv, Stored
  <2>2. i \in Keys /\ Matches(i, r) /\ CopyOk(i, payments[i].status, payments[i].ref)
    BY <1>3, <2>1 DEF RowOk, RowIsNamed, SameFingerprint, Matches, Ids
  <2>3. /\ RowView(i) \in Draft /\ RowView(i).id = i
        /\ RowView(i).status = payments[i].status /\ RowView(i).ref = payments[i].ref
    BY <1>0, <2>1, RowTypes
  <2> QED
    BY <1>1, <1>3, <2>2, <2>3
<1>4. ASSUME NEW i \in Stored, payments[i].key = KeyOf(r), Reply(r, "conflict", NoDraft)
      PROVE  WebInv' /\ Grows
  <2>1. RowIsWritten(i)
    BY DEF WebInv, RowOk
  <2>2. PICK q \in Requests : Wrote(q) /\ KeyOf(q) = payments[i].key
    BY <2>1 DEF RowIsWritten
  <2>3. pc[r] = "forwarding" => Another(r)
    BY <1>0, <1>4, <2>2, AskedIsLate DEF Another, Wrote
  <2> QED
    BY <1>0, <1>1, <1>4, <2>3
<1>5. ASSUME payments' = [payments EXCEPT ![KeyOf(r)] =
                            [user |-> Tenant(r), key |-> KeyOf(r), body |-> ask[r].body,
                             hash |-> "gateway", live |-> IsLive(r), ref |-> None,
                             status |-> "pending"]],
             \A i \in Stored : payments[i].key # KeyOf(r)
      PROVE  FALSE
  <2>1. KeyOf(r) \in Ids /\ KeyOf(r) \in Keys /\ payments[KeyOf(r)].key = KeyOf(r)
    BY <1>0, <1>5, AskTypes DEF WebTypes, TableTypes
  <2> QED
    BY <1>5, <2>1, NamesAssumption DEF Stored
<1> QED
  BY <1>2, <1>3, <1>4, <1>5 DEF GatewayBegins

(* begin_payment that inserts the row. *)
LEMMA InsertKeeps ==
    ASSUME WebInv, NEW r \in Requests, GatewayBegins(r), payments' # payments
    PROVE  WebInv' /\ Grows
<1>k. PICK k : k = KeyOf(r)
  OBVIOUS
<1>0. /\ WebTypes /\ UNCHANGED <<world, ask, mocked, pc, draft, ans, charge, hook, get>>
      /\ fwd[r].at = "sent" /\ GatewayUrl /\ fwd \in [Requests -> Fwd]
      /\ pc[r] \in {"forwarding", "fallback", "ready", "answered"}
  BY AskedIsLate DEF WebInv, GatewayBegins, WebTypes, HandlerTypes
<1>1. /\ \A i \in Stored : payments[i].key # k
      /\ payments' = [payments EXCEPT ![k] =
                        [user |-> Tenant(r), key |-> k, body |-> ask[r].body,
                         hash |-> "gateway", live |-> IsLive(r), ref |-> None,
                         status |-> "pending"]]
      /\ fwd' = [fwd EXCEPT ![r].at = "begun"]
  BY <1>k DEF GatewayBegins
<1>2. /\ k \in Keys /\ k \in Ids /\ k \notin Requests /\ Tenant(r) \in Users
      /\ IsLive(r) \in BOOLEAN /\ ask[r].body \in Bodies /\ GatewayOrder(r) \in Orders /\ k # None
  BY <1>0, <1>k, AskTypes, NamesAssumption
<1>3. PICK row \in Row : row = [user |-> Tenant(r), key |-> k, body |-> ask[r].body,
                               hash |-> "gateway", live |-> IsLive(r), ref |-> None,
                               status |-> "pending"]
  BY <1>2 DEF Row, WebStatus
<1>4. /\ payments' \in [Ids -> Row] /\ payments'[k] = row
      /\ \A j \in Ids : j # k => payments'[j] = payments[j]
  BY <1>0, <1>1, <1>2, <1>3 DEF WebTypes, TableTypes
<1>r. /\ payments'[k].user = Tenant(r) /\ payments'[k].key = k /\ payments'[k].body = ask[r].body
      /\ payments'[k].hash = "gateway" /\ payments'[k].live = IsLive(r)
      /\ payments'[k].ref = None /\ payments'[k].status = "pending"
  BY <1>3, <1>4
<1>n. /\ KeyOf(r)' = KeyOf(r) /\ Tenant(r)' = Tenant(r) /\ ask'[r] = ask[r] /\ GatewayUrl'
      /\ IsLive(r)' = IsLive(r)
  BY <1>0 DEF KeyOf, Tenant, GatewayUrl, IsLive
<1>5. k \notin Stored
  BY <1>1, <1>2 DEF WebInv, RowOk, RowIsNamed
<1>6. Stored' = Stored \union {k}
  BY <1>2, <1>4, <1>r DEF Stored
<1>7. /\ fwd'[r].at = "begun" /\ fwd'[r].cut = fwd[r].cut
      /\ \A q \in Requests \ {r} : fwd'[q] = fwd[q]
  BY <1>0, <1>1 DEF Fwd
<1>8. Grows
  <2>1. \A i \in Stored : i \in Stored' /\ payments'[i] = payments[i]
    BY <1>4, <1>5, <1>6 DEF Stored
  <2>2. \A q \in Requests : /\ fwd[q].cut => fwd'[q].cut
                            /\ Wrote(q) => Wrote(q)'
    BY <1>0, <1>7 DEF Wrote
  <2>3. OutcomesStay
    BY <1>0, SameOrders
  <2> QED
    BY <1>0, <2>1, <2>2, <2>3 DEF Grows, OutcomesStay
<1>9. \A q \in Requests : ListedStays(q)
  BY <1>4, <1>5, <1>8 DEF ListedStays, Listed, Twins, Grows, KeyOf, Tenant, IsLive, Stored
<1>10. RequestOk(r)' /\ Frame(r) /\ fwd' \in [Requests -> Fwd]
  <2>1. charge[GatewayOrder(r)] = "none"
    BY <1>k, <1>2, <1>5 DEF WebInv, OrdersAreKnown, GatewayOrder
  <2>2. Matches(KeyOf(r), r)'
    BY <1>k, <1>r, <1>n, <1>6 DEF Matches
  <2>3. charge'[GatewayOrder(r)] = "none" /\ "begun" \in Working
    BY <1>0, <2>1 DEF Working
  <2> QED
    BY <1>0, <1>1, <1>8, <1>9, <2>2, <2>3, WorkingOk
<1>11. \A j \in Stored' : RowOk(j)'
  <2>1. ASSUME NEW j \in Stored PROVE RowOk(j)'
    BY <1>0, <1>4, <1>5, <1>8, RowStays DEF WebInv, Stored
  <2>2. RowIsNamed(k)'
    BY <1>2, <1>r, <1>n DEF RowIsNamed
  <2>3. RowIsWritten(k)'
    <3>1. Wrote(r)'
      BY <1>0, <1>7 DEF Wrote
    <3>2. /\ KeyOf(r)' = payments'[k].key /\ Tenant(r)' = payments'[k].user
          /\ ask'[r].body = payments'[k].body
      BY <1>k, <1>r, <1>n
    <3> QED
      BY <1>8, <3>1, <3>2, NamesStay DEF RowIsWritten
  <2>4. CopyOk(k, payments[k].status, payments[k].ref)'
    BY <1>r, NamesAreTyped DEF CopyOk, Real, OwnRef, WebTerminal
  <2>5. RowOk(k)'
    BY <1>8, <2>2, <2>3, <2>4, NamesStay DEF RowOk
  <2> QED
    BY <1>6, <2>1, <2>5
<1>12. KeysAreUnique'
  <2> SUFFICES ASSUME NEW i \in Stored', NEW j \in Stored', payments'[i].key = payments'[j].key,
                      GatewayUrl' \/ payments'[i].user = payments'[j].user
               PROVE  i = j
    BY DEF KeysAreUnique
  <2>1. \A x \in Stored : payments'[x] = payments[x] /\ payments[x].key # k
    BY <1>1, <1>4, <1>5 DEF Stored
  <2>2. payments'[k].key = k
    BY <1>r
  <2>3. CASE i \in Stored /\ j \in Stored
    BY <1>8, <2>1, <2>3, NamesStay DEF WebInv, KeysAreUnique
  <2> QED
    BY <1>6, <2>1, <2>2, <2>3
<1>13. OneAtWork'
  <2> SUFFICES ASSUME NEW q \in Requests, q # r, fwd[q].at \in Working, KeyOf(q) = k
               PROVE  FALSE
    BY <1>k, <1>7, <1>8, NamesStay DEF WebInv, OneAtWork
  <2>1. Matches(KeyOf(q), q)
    BY DEF WebInv, RequestOk, AtWork
  <2> QED
    BY <1>5, <2>1 DEF Matches
<1>14. OrdersAreKnown' /\ \A q \in Requests : OrderStill(q)
  BY <1>0, <1>8, OrdersStay, SameOrders DEF WebInv
<1>15. WebTypes'
  BY <1>0, <1>4, <1>10 DEF WebTypes, TableTypes, HandlerTypes
<1> QED
  BY <1>0, <1>8, <1>9, <1>10, <1>11, <1>12, <1>13, <1>14, <1>15, WriterKeeps

(* The provider's answer: the order is new, and only this request's. *)
LEMMA PlaceKeeps ==
    ASSUME WebInv, NEW r \in Requests, GatewayPlaces(r)
    PROVE  WebInv' /\ Grows
<1> DEFINE o == GatewayOrder(r)
<1>0. /\ WebTypes /\ UNCHANGED <<world, ask, payments, mocked, pc, draft, ans, hook, get>>
      /\ fwd[r].at = "begun" /\ "begun" \in Working /\ fwd \in [Requests -> Fwd] /\ o \in Orders
      /\ charge \in [Orders -> Charges] /\ KeyOf(r) \in Keys /\ GatewayUrl /\ Wrote(r)
      /\ charge[o] = "none" /\ Matches(KeyOf(r), r)
  BY AskTypes, AskedIsLate
     DEF WebInv, GatewayPlaces, WebTypes, HandlerTypes, TableTypes, Working, RequestOk, AtWork
<1>1. PICK a \in {"placed", "unclear", "declined"}, c \in {"none", "open", "refused"} :
         /\ a = "declined" => c = "refused"
         /\ fwd' = [fwd EXCEPT ![r].at = a]
         /\ charge' = [charge EXCEPT ![o] = c]
  BY DEF GatewayPlaces
<1>2. /\ charge' \in [Orders -> Charges] /\ charge'[o] = c
      /\ \A x \in Orders : x # o => charge'[x] = charge[x]
  BY <1>0, <1>1 DEF Charges
<1>3. a \in Working /\ a # "begun" /\ a # "sent"
  BY DEF Working
<1>4. /\ fwd'[r].at = a /\ fwd'[r].cut = fwd[r].cut
      /\ \A q \in Requests \ {r} : fwd'[q] = fwd[q]
  BY <1>0, <1>1 DEF Fwd
<1>5. OutcomesStay
  <2> SUFFICES ASSUME NEW x \in Orders, NEW s \in {"succeeded", "failed"}, Outcome(x, s)
               PROVE  Outcome(x, s)'
    BY DEF OutcomesStay
  <2>1. CASE x = o
    BY <1>0, <2>1 DEF Outcome, Inquired
  <2>2. CASE x # o
    BY <1>2, <2>2 DEF Outcome, Inquired
  <2> QED
    BY <2>1, <2>2
<1>6. Frame(r) /\ (Wrote(r) => Wrote(r)')
  BY <1>0, <1>3, <1>4 DEF Frame, Wrote
<1>7. Grows
  BY <1>0, <1>4, <1>5, <1>6, HandlerGrows
<1>8. (\A i \in Stored' : RowOk(i)') /\ KeysAreUnique' /\ \A q \in Requests : ListedStays(q)
  BY <1>0, <1>7, TableStays
<1>9. RequestOk(r)' /\ fwd' \in [Requests -> Fwd]
  <2>1. Matches(KeyOf(r), r)'
    BY <1>0, <1>7, MatchStays, NamesStay
  <2>2. a = "declined" => charge'[GatewayOrder(r)] = "refused"
    BY <1>1, <1>2
  <2> QED
    BY <1>0, <1>1, <1>3, <1>7, <1>8, <2>1, <2>2, WorkingOk
<1>10. \A q \in Requests \ {r} : OrderStill(q)
  <2> SUFFICES ASSUME NEW q \in Requests, q # r, fwd[q].at \in Working
               PROVE  charge'[GatewayOrder(q)] = charge[GatewayOrder(q)]
    BY <1>7, NamesStay DEF OrderStill
  <2>1. KeyOf(q) # KeyOf(r) /\ GatewayOrder(q) \in Orders
    BY <1>0, AskTypes DEF WebInv, OneAtWork
  <2> QED
    BY <1>2, <2>1 DEF GatewayOrder
<1>11. OrdersAreKnown'
  <2> SUFFICES ASSUME NEW k \in Keys
             PROVE  /\ charge'[[by |-> "gateway", key |-> k]] # "none" => GatewayUrl' /\ k \in Stored'
                    /\ charge'[[by |-> "session", key |-> k]] # "none" =>
                          world'.provider = "stripe" /\ (GatewayUrl' => CutOff(k)')
    BY DEF OrdersAreKnown
  <2>1. [by |-> "gateway", key |-> k] \in Orders /\ [by |-> "session", key |-> k] \in Orders
    BY NamesAreTyped
  <2>2. /\ k # KeyOf(r) =>
             charge'[[by |-> "gateway", key |-> k]] = charge[[by |-> "gateway", key |-> k]]
        /\ charge'[[by |-> "session", key |-> k]] = charge[[by |-> "session", key |-> k]]
    BY <1>2, <2>1 DEF GatewayOrder
  <2>3. /\ charge[[by |-> "gateway", key |-> k]] # "none" => GatewayUrl /\ k \in Stored
        /\ charge[[by |-> "session", key |-> k]] # "none" =>
              world.provider = "stripe" /\ (GatewayUrl => CutOff(k))
    BY DEF WebInv, OrdersAreKnown
  <2>4. KeyOf(r) \in Stored
    BY <1>0 DEF Matches
  <2> QED
    BY <1>0, <1>7, <2>2, <2>3, <2>4, CutOffStays, NamesStay DEF Grows
<1>12. WebTypes'
  BY <1>0, <1>2, <1>9 DEF WebTypes, TableTypes, HandlerTypes
<1> QED
  BY <1>0, <1>3, <1>6, <1>7, <1>9, <1>10, <1>11, <1>12, HandlerKeeps

(* Recording the answer: nobody else works on the row, and what is written *)
(* is what became of its own order.                                        *)
LEMMA RecordKeeps ==
    ASSUME WebInv, NEW r \in Requests, GatewayRecords(r)
    PROVE  WebInv' /\ Grows
<1>k. PICK k : k = KeyOf(r)
  OBVIOUS
<1>0. /\ WebTypes /\ UNCHANGED <<world, ask, mocked, pc, draft, ans, charge, hook, get>>
      /\ fwd[r].at \in Working /\ fwd[r].at # "no" /\ fwd[r].at # "sent" /\ k \in Keys /\ k \in Ids
      /\ GatewayOrder(r) \in Orders /\ FallbackForced(r) /\ AtWork(r)
  BY <1>k, AskTypes DEF WebInv, RequestOk, GatewayRecords, Working
<1>1. Matches(k, r) /\ k \in Stored /\ OwnOrder(k) = GatewayOrder(r) /\ Wrote(r)
  BY <1>k, <1>0, AskedIsLate DEF AtWork, Matches, OwnOrder, GatewayOrder
<1>2. /\ payments[k].ref \in Refs \union {None} /\ GatewayOrder(r) \in Refs \union {None}
      /\ CopyOk(k, payments[k].status, payments[k].ref)
  BY <1>0, <1>1, RowTypes DEF WebInv, RowOk, Refs
<1>3. ASSUME NEW s \in WebStatus, NEW ref \in Refs \union {None}, NEW d \in Draft,
             NEW a \in {"ok", "refused"}, payments' = Touched(k, s, ref), Reply(r, a, d),
             CopyOk(k, s, ref), a = "ok" => d.id = k /\ d.status = s /\ d.ref = ref
      PROVE  WebInv' /\ Grows
  <2>1. /\ fwd' \in [Requests -> Fwd] /\ Frame(r) /\ fwd'[r].at \notin Working
        /\ (Wrote(r) => Wrote(r)') /\ (fwd[r].cut => fwd'[r].cut)
    BY <1>0, <1>3, ReplyFacts
  <2>2. Grows
    <3>1. \A q \in Requests : /\ fwd[q].cut => fwd'[q].cut
                              /\ Wrote(q) => Wrote(q)'
                              /\ pc[q] = "answered" => pc'[q] = "answered" /\ ans'[q] = ans[q]
      BY <1>0, <2>1 DEF Frame, Wrote
    <3>2. OutcomesStay
      BY <1>0, SameOrders
    <3> QED
      BY <1>0, <1>1, <1>3, <3>1, <3>2, TouchGrows
  <2>3. CopyOk(k, s, ref)' /\ Matches(k, r)'
    BY <1>0, <1>1, <1>3, <2>2, CopyStays, MatchStays
  <2>4. (\A j \in Stored' : RowOk(j)') /\ KeysAreUnique' /\ \A q \in Requests : ListedStays(q)
    BY <1>0, <1>1, <1>3, <2>2, <2>3, TouchKeeps
  <2>5. RequestOk(r)'
    <3>1. a = "ok" => d.id \in Keys /\ Matches(d.id, r)' /\ CopyOk(d.id, d.status, d.ref)'
      BY <1>0, <1>3, <2>3
    <3> QED
      BY <1>0, <1>3, <2>2, <2>4, <3>1, RepliedOk
  <2>6. WebTypes'
    <3>1. payments' \in [Ids -> Row]
      BY <1>0, <1>1, <1>3, TouchFacts
    <3> QED
      BY <1>0, <2>1, <3>1 DEF WebTypes, TableTypes, HandlerTypes
  <2>7. OrdersAreKnown' /\ \A q \in Requests : OrderStill(q)
    BY <1>0, <2>2, OrdersStay, SameOrders DEF WebInv
  <2>8. OneAtWork'
    BY <2>1, <2>2, WorkStays
  <2> QED
    BY <1>0, <2>1, <2>2, <2>4, <2>5, <2>6, <2>7, <2>8, WriterKeeps
<1>4. CASE fwd[r].at = "placed"
  <2>1. /\ payments' = Touched(k, "pending", GatewayOrder(r))
        /\ Reply(r, "ok", [id |-> k, ref |-> GatewayOrder(r), status |-> "pending"])
    <3>1. /\ payments' = [payments EXCEPT ![k].ref = GatewayOrder(r), ![k].status = "pending"]
          /\ Reply(r, "ok", [id |-> k, ref |-> GatewayOrder(r), status |-> "pending"])
      BY <1>k, <1>4 DEF GatewayRecords
    <3>2. [payments EXCEPT ![k].ref = GatewayOrder(r), ![k].status = "pending"]
             = Touched(k, "pending", GatewayOrder(r))
      BY <1>0, UpdateIsTouch
    <3> QED
      BY <3>1, <3>2
  <2>2. CopyOk(k, "pending", GatewayOrder(r))
    BY <1>1 DEF CopyOk, Real, OwnRef, WebTerminal
  <2>3. [id |-> k, ref |-> GatewayOrder(r), status |-> "pending"] \in Draft /\ "pending" \in WebStatus
    BY <1>0, <1>2 DEF Draft, WebStatus
  <2> QED
    BY <1>2, <1>3, <2>1, <2>2, <2>3
<1>5. CASE fwd[r].at = "unclear"
  <2>1. /\ payments' = Touched(k, "unknown", payments[k].ref)
        /\ Reply(r, "ok", [id |-> k, ref |-> payments[k].ref, status |-> "unknown"])
    BY <1>k, <1>0, <1>5, UpdateIsTouch DEF GatewayRecords
  <2>2. CopyOk(k, "unknown", payments[k].ref)
    BY <1>2 DEF CopyOk, Real, WebTerminal
  <2>3. [id |-> k, ref |-> payments[k].ref, status |-> "unknown"] \in Draft /\ "unknown" \in WebStatus
    BY <1>0, <1>2 DEF Draft, WebStatus
  <2> QED
    BY <1>2, <1>3, <2>1, <2>2, <2>3
<1>6. CASE fwd[r].at = "declined"
  <2>1. /\ payments' = Touched(k, "failed", payments[k].ref)
        /\ Reply(r, "refused", NoDraft)
    BY <1>k, <1>0, <1>6, UpdateIsTouch DEF GatewayRecords
  <2>2. CopyOk(k, "failed", payments[k].ref)
    <3>1. Outcome(GatewayOrder(r), "failed")
      BY <1>0, <1>6 DEF AtWork, Outcome, Inquired
    <3>2. GatewayOrder(r) \in Settlers(k)
      BY <1>0, <1>1 DEF Settlers
    <3> QED
      BY <1>2, <3>1, <3>2 DEF CopyOk, Real
  <2>3. "failed" \in WebStatus /\ NoDraft \in Draft
    BY NamesAreTyped DEF WebStatus
  <2> QED
    BY <1>2, <1>3, <2>1, <2>2, <2>3
<1> QED
  BY <1>4, <1>5, <1>6 DEF GatewayRecords

------------------------------------------------------------------------------
(* The upsert.  What a handler writes: its own payment, which nobody has   *)
(* stored, or the matching one.                                            *)
LEMMA PersistFacts ==
    ASSUME WebInv, NEW r \in Requests, PersistPaymentRecord(r), NEW i, i = draft[r].id
    PROVE  /\ i \in Ids /\ payments' \in [Ids -> Row] /\ Stored' = Stored \union {i}
           /\ payments'[i].user = Tenant(r) /\ payments'[i].key = KeyOf(r)
           /\ payments'[i].body = ask[r].body /\ payments'[i].hash = "web"
           /\ payments'[i].live = IsLive(r) /\ payments'[i].ref = draft[r].ref
           /\ payments'[i].status = draft[r].status
           /\ \A j \in Ids : j # i => payments'[j] = payments[j]
           /\ \/ OwnDraft(r) /\ i = r /\ i \notin Stored /\ Insertable(i, r)
              \/ ~OwnDraft(r) /\ Matches(i, r)
<1>0. /\ WebTypes /\ DraftOk(r) /\ draft[r] \in Draft /\ payments \in [Ids -> Row]
      /\ Drafting(r) /\ pc[r] # "answered"
  BY DEF WebInv, RequestOk, WebTypes, HandlerTypes, TableTypes, PersistPaymentRecord, Drafting
<1>1. \/ OwnDraft(r) /\ i = r /\ i \notin Stored /\ Insertable(i, r)
      \/ ~OwnDraft(r) /\ Matches(i, r)
  <2>1. CASE OwnDraft(r)
    <3>1. r = i /\ r \notin Stored
      BY <1>0, <2>1 DEF OwnDraft, WebInv, RowOk, RowIsNamed
    <3> QED
      BY <2>1, <3>1 DEF PersistPaymentRecord
  <2>2. CASE ~OwnDraft(r)
    BY <1>0, <2>2 DEF DraftOk
  <2> QED
    BY <2>1, <2>2
<1>2. /\ i \in Ids /\ KeyOf(r) \in Keys /\ KeyOf(r) # None /\ Tenant(r) \in Users
      /\ IsLive(r) \in BOOLEAN /\ ask[r].body \in Bodies
  BY <1>0, <1>1, AskTypes, NamesAssumption DEF Ids, Matches, Stored
<1>3. (IF payments[i].key = None THEN KeyOf(r) ELSE payments[i].key) = KeyOf(r)
  BY <1>1, <1>2 DEF Matches, Stored
<1>4. PICK row \in Row : row = [user |-> Tenant(r), key |-> KeyOf(r), body |-> ask[r].body,
                               hash |-> "web", live |-> IsLive(r), ref |-> draft[r].ref,
                               status |-> draft[r].status]
  BY <1>0, <1>2 DEF Row, Draft
<1>5. payments' = [payments EXCEPT ![i] = row]
  BY <1>3, <1>4 DEF PersistPaymentRecord, Upsert
<1>6. /\ payments' \in [Ids -> Row] /\ payments'[i] = row
      /\ \A j \in Ids : j # i => payments'[j] = payments[j]
  BY <1>0, <1>2, <1>5
<1>7. /\ payments'[i].user = Tenant(r) /\ payments'[i].key = KeyOf(r)
      /\ payments'[i].body = ask[r].body /\ payments'[i].hash = "web"
      /\ payments'[i].live = IsLive(r) /\ payments'[i].ref = draft[r].ref
      /\ payments'[i].status = draft[r].status
  BY <1>4, <1>6
<1>8. Stored' = Stored \union {i}
  BY <1>2, <1>6, <1>7 DEF Stored
<1> QED
  BY <1>1, <1>2, <1>6, <1>7, <1>8

(* The upsert keeps the invariant.  A twin that takes the row over is what *)
(* may have it leave the first caller's list.                              *)
LEMMA PersistKeeps ==
    ASSUME WebInv, NEW r \in Requests, PersistPaymentRecord(r)
    PROVE  WebInv' /\ Grows
<1>i. PICK i : i = draft[r].id
  OBVIOUS
<1>0. /\ WebTypes /\ UNCHANGED <<world, ask, mocked, charge, hook, get>> /\ FallbackForced(r)
      /\ pc[r] \in {"replaying", "ready"} /\ DraftOk(r) /\ Drafting(r)
  BY DEF WebInv, RequestOk, PersistPaymentRecord, Drafting
<1>1. PICK c \in {200, 201} : Answer(r, c, i)
  BY <1>i DEF PersistPaymentRecord
<1>2. /\ i \in Ids /\ payments' \in [Ids -> Row] /\ Stored' = Stored \union {i}
      /\ payments'[i].user = Tenant(r) /\ payments'[i].key = KeyOf(r)
      /\ payments'[i].body = ask[r].body /\ payments'[i].hash = "web"
      /\ payments'[i].live = IsLive(r) /\ payments'[i].ref = draft[r].ref
      /\ payments'[i].status = draft[r].status
      /\ \A j \in Ids : j # i => payments'[j] = payments[j]
  BY <1>i, PersistFacts
<1>3. \/ OwnDraft(r) /\ i = r /\ i \notin Stored /\ Insertable(i, r)
      \/ ~OwnDraft(r) /\ Matches(i, r)
  BY <1>i, PersistFacts
<1>4. /\ Frame(r) /\ pc'[r] = "answered" /\ fwd'[r].at = fwd[r].at /\ fwd'[r].cut = fwd[r].cut
  BY <1>0, <1>1, AnswerFacts
<1>5. i \in Stored => /\ payments'[i].key = payments[i].key /\ payments'[i].body = payments[i].body
                      /\ ~GatewayUrl => payments'[i].user = payments[i].user
  BY <1>2, <1>3 DEF Matches
<1>6. Grows
  <2>1. \A j \in Stored : /\ j \in Stored'
                          /\ payments'[j].key = payments[j].key /\ payments'[j].body = payments[j].body
                          /\ ~GatewayUrl => payments'[j].user = payments[j].user
    BY <1>2, <1>5 DEF Stored
  <2>2. \A q \in Requests : /\ fwd[q].cut => fwd'[q].cut
                            /\ Wrote(q) => Wrote(q)'
                            /\ pc[q] = "answered" => pc'[q] = "answered" /\ ans'[q] = ans[q]
    BY <1>0, <1>4 DEF Frame, Wrote
  <2>3. OutcomesStay
    BY <1>0, SameOrders
  <2> QED
    BY <1>0, <2>1, <2>2, <2>3 DEF Grows, OutcomesStay
<1>n. /\ KeyOf(r)' = KeyOf(r) /\ Tenant(r)' = Tenant(r) /\ IsLive(r)' = IsLive(r)
      /\ GatewayUrl' = GatewayUrl /\ Rail' = Rail /\ ask'[r] = ask[r]
      /\ IsLive(i)' = IsLive(i) /\ KeyOf(i)' = KeyOf(i)
  BY <1>0 DEF KeyOf, Tenant, IsLive, GatewayUrl, Rail
<1>7. RowOk(i)'
  <2>1. RowIsNamed(i)'
    <3>1. CASE OwnDraft(r)
      <4>1. i = r /\ i \notin Keys /\ (IsLive(r) /\ Rail => fwd'[r].cut)
        BY <1>0, <1>3, <1>4, <3>1, NamesAssumption DEF FallbackForced
      <4> QED
        BY <1>2, <1>4, <1>n, <4>1 DEF RowIsNamed
    <3>2. CASE ~OwnDraft(r)
      <4>1. i \in Stored /\ payments[i].key = KeyOf(r)
        BY <1>3, <3>2 DEF Matches
      <4>2. RowIsNamed(i)
        BY <4>1 DEF WebInv, RowOk
      <4>3. i \in Keys => payments'[i].key = i /\ GatewayUrl'
        BY <1>2, <1>n, <4>1, <4>2 DEF RowIsNamed
      <4>4. i \in Requests => /\ payments'[i].key = KeyOf(i)' /\ i # r /\ pc'[i] = "answered"
                              /\ payments'[i].live = IsLive(i)' /\ payments'[i].hash = "web"
        BY <1>i, <1>0, <1>2, <1>4, <1>n, <3>2, <4>1, <4>2 DEF RowIsNamed, DraftOk, Frame
      <4>5. i \in Requests /\ IsLive(i)' /\ Rail' => fwd'[i].cut
        BY <1>4, <1>n, <4>2, <4>4 DEF RowIsNamed, Frame
      <4> QED
        BY <4>3, <4>4, <4>5 DEF RowIsNamed
    <3> QED
      BY <3>1, <3>2
  <2>2. RowIsWritten(i)'
    <3>1. Wrote(r)'
      BY <1>4 DEF Wrote
    <3> QED
      BY <1>2, <1>n, <3>1 DEF RowIsWritten
  <2>3. CopyOk(i, draft[r].status, draft[r].ref)
    <3>1. CASE OwnDraft(r)
      <4>1. i = r /\ draft[r].status = "pending" /\ draft[r].ref \in {Sim, OwnOrder(r)}
        BY <1>0, <1>3, <3>1, AskTypes DEF FallbackForced
      <4> QED
        BY <4>1, NamesAreTyped DEF CopyOk, Real, OwnRef, WebTerminal
    <3>2. CASE ~OwnDraft(r)
      BY <1>i, <1>0, <3>2 DEF DraftOk
    <3> QED
      BY <3>1, <3>2
  <2>4. CopyOk(i, payments[i].status, payments[i].ref)'
    <3>1. PICK s, ref : s = draft[r].status /\ ref = draft[r].ref
      OBVIOUS
    <3>2. CopyOk(i, s, ref)'
      BY <1>0, <1>2, <1>6, <2>3, <3>1, CopyStays
    <3> QED
      BY <1>2, <3>1, <3>2
  <2> QED
    BY <2>1, <2>2, <2>4 DEF RowOk
<1>8. \A j \in Stored' : RowOk(j)'
  <2>1. ASSUME NEW j \in Stored, j # i PROVE RowOk(j)'
    BY <1>0, <1>2, <1>6, <2>1, RowStays DEF WebInv, Stored
  <2> QED
    BY <1>2, <1>7, <2>1
<1>9. KeysAreUnique'
  <2> SUFFICES ASSUME NEW x \in Stored', NEW y \in Stored', payments'[x].key = payments'[y].key,
                      GatewayUrl \/ payments'[x].user = payments'[y].user, x # y
               PROVE  FALSE
    BY <1>n DEF KeysAreUnique
  <2>1. \A j \in Stored : /\ payments'[j].key = payments[j].key
                          /\ ~GatewayUrl => payments'[j].user = payments[j].user
    BY <1>6 DEF Grows
  <2>2. CASE x \in Stored /\ y \in Stored
    BY <2>1, <2>2 DEF WebInv, KeysAreUnique
  <2>3. CASE x \notin Stored \/ y \notin Stored
    <3>1. Insertable(i, r) /\ (x = i \/ y = i)
      BY <1>2, <1>3, <2>3 DEF Matches
    <3>2. \A j \in Stored : j # i => ~(/\ payments'[j].key = KeyOf(r)
                                       /\ GatewayUrl \/ payments'[j].user = Tenant(r))
      BY <2>1, <3>1 DEF Insertable
    <3> QED
      BY <1>2, <3>1, <3>2
  <2> QED
    BY <2>2, <2>3
<1>10. \A q \in Requests : ListedStays(q)
  <2> SUFFICES ASSUME NEW q \in Requests, NEW j \in Stored, Matches(j, q), Listed(j, q)
               PROVE  Listed(j, q)'
    BY DEF ListedStays
  <2>1. \A x : /\ Twins(q, x)' = Twins(q, x) /\ Tenant(x)' = Tenant(x) /\ IsLive(x)' = IsLive(x)
    BY <1>0 DEF Twins, KeyOf, Tenant, IsLive
  <2>2. CASE j # i
    <3>1. payments'[j] = payments[j]
      BY <1>2, <2>2 DEF Stored
    <3> QED
      BY <2>1, <3>1 DEF Listed
  <2>3. CASE j = i
    <3>1. Twins(q, r)
      BY <1>2, <1>5, <2>3 DEF Matches, Twins
    <3> QED
      BY <1>2, <2>1, <2>3, <3>1 DEF Listed
  <2> QED
    BY <2>2, <2>3
<1>11. OrdersAreKnown' /\ \A q \in Requests : OrderStill(q)
  BY <1>0, <1>6, OrdersStay, SameOrders DEF WebInv
<1>12. RequestOk(r)'
  <2>1. Matches(i, r)' /\ Listed(i, r)'
    BY <1>2, <1>n DEF Matches, Listed
  <2> QED
    BY <1>1, <1>2, <1>6, <1>11, <2>1, AnsweredOk
<1>13. WebTypes'
  <2>1. HandlerTypes'
    <3>1. HandlerTypes /\ c \in Nat /\ i \in Ids \union {None}
      BY <1>0, <1>2 DEF WebTypes
    <3> QED
      BY <1>1, <3>1, AnswerTypes
  <2> QED
    BY <1>0, <1>2, <2>1 DEF WebTypes, TableTypes
<1>14. OneAtWork'
  BY <1>4, <1>6, WorkStays
<1> QED
  BY <1>0, <1>4, <1>6, <1>8, <1>9, <1>10, <1>11, <1>12, <1>13, <1>14, WriterKeeps

(* A failed upsert: the demo user is answered a payment that may not be    *)
(* stored, anybody else an error.                                          *)
LEMMA PersistFailsKeeps ==
    ASSUME WebInv, NEW r \in Requests, PersistFails(r)
    PROVE  WebInv' /\ Grows
<1>0. /\ WebTypes /\ Still /\ pc[r] \in {"replaying", "ready"} /\ DraftOk(r) /\ Drafting(r)
  BY DEF WebInv, RequestOk, PersistFails, Still, Drafting
<1>1. CASE Answer(r, 500, None)
  BY <1>0, <1>1, StillErrors
<1>2. CASE Tenant(r) = Demo /\ \E c \in {200, 201} : Answer(r, c, draft[r].id)
  <2>i. PICK i : i = draft[r].id
    OBVIOUS
  <2>1. PICK c \in {200, 201} : i = draft[r].id /\ Answer(r, c, i)
    BY <1>2, <2>i
  <2>2. i \in Ids
    BY <1>0, <2>1 DEF DraftOk, OwnDraft, Matches, Stored, Ids
  <2>3. /\ Frame(r) /\ pc'[r] = "answered" /\ fwd'[r].at = fwd[r].at /\ fwd'[r].cut = fwd[r].cut
    BY <1>0, <2>1, AnswerFacts
  <2>4. Grows
    BY <1>0, <2>3, HandlerGrows, StillKeeps DEF Wrote, Still
  <2>5. WebTypes'
    <3>1. HandlerTypes'
      <4>1. HandlerTypes /\ c \in Nat /\ i \in Ids \union {None}
        BY <1>0, <2>2 DEF WebTypes
      <4> QED
        BY <2>1, <4>1, AnswerTypes
    <3> QED
      BY <3>1, StillKeeps, <1>0
  <2>6. RequestOk(r)'
    BY <1>0, <1>2, <2>1, <2>2, <2>4, AnsweredOk, StillKeeps
  <2> QED
    BY <1>0, <2>3, <2>4, <2>5, <2>6, HandlerKeeps, StillKeeps DEF Still
<1> QED
  BY <1>1, <1>2 DEF PersistFails

------------------------------------------------------------------------------
(* The providers, the webhooks and the GETs leave the handlers alone.  A   *)
(* step of theirs is right if what it writes into a row, and what it holds *)
(* after it, is real.                                                      *)
RowWritten ==
    \/ UNCHANGED payments
    \/ \E i \in Stored, s \in WebStatus, ref \in Refs \union {None} :
          payments' = Touched(i, s, ref) /\ (CopyOk(i, s, ref) \/ i \in mocked')
HookHeld(h) ==
    \/ hook'[h] = hook[h] \/ hook'[h].at = "idle"
    \/ /\ hook'[h].id \in Stored
       /\ hook'[h].mock \/ CopyOk(hook'[h].id, hook'[h].status, None)
GetHeld(g) ==
    \/ get'[g] = get[g] \/ get'[g].at = "idle"
    \/ get'[g].id \in Stored /\ CopyOk(get'[g].id, get'[g].status, get'[g].ref)
OrdersMove ==
    /\ charge' \in [Orders -> Charges] /\ OutcomesStay /\ \A q \in Requests : OrderStill(q)
    /\ \A o \in Orders : charge'[o] # "none" => charge[o] # "none"

(* Such a step keeps the invariant. *)
LEMMA QuietKeeps ==
    ASSUME WebInv, UNCHANGED <<world, ask, pc, fwd, draft, ans>>, mocked \subseteq mocked',
           OrdersMove, RowWritten, hook' \in [Hooks -> Hook], get' \in [Getters -> Get],
           \A h \in Hooks : HookHeld(h), \A g \in Getters : GetHeld(g)
    PROVE  WebInv' /\ Grows
<1>0. WebTypes
  BY DEF WebInv
<1>1. \A q \in Requests : /\ fwd[q].cut => fwd'[q].cut
                          /\ Wrote(q) => Wrote(q)'
                          /\ pc[q] = "answered" => pc'[q] = "answered" /\ ans'[q] = ans[q]
  BY DEF Wrote
<1>2. Grows
  <2>1. CASE UNCHANGED payments
    <3>1. \A i \in Stored : i \in Stored' /\ payments'[i] = payments[i]
      BY <2>1 DEF Stored
    <3> QED
      BY <1>1, <3>1 DEF Grows, OrdersMove, OutcomesStay
  <2>2. CASE \E i \in Stored, s \in WebStatus, ref \in Refs \union {None} :
                payments' = Touched(i, s, ref)
    BY <1>0, <1>1, <2>2, TouchGrows DEF OrdersMove
  <2> QED
    BY <2>1, <2>2 DEF RowWritten
<1>3. /\ payments' \in [Ids -> Row] /\ \A i \in Stored' : RowOk(i)'
      /\ KeysAreUnique' /\ \A q \in Requests : ListedStays(q)
  <2>1. CASE UNCHANGED payments
    BY <1>0, <1>2, <2>1, TableStays DEF WebTypes, TableTypes
  <2>2. ASSUME NEW i \in Stored, NEW s \in WebStatus, NEW ref \in Refs \union {None},
               payments' = Touched(i, s, ref), CopyOk(i, s, ref) \/ i \in mocked'
        PROVE  /\ payments' \in [Ids -> Row] /\ \A j \in Stored' : RowOk(j)'
               /\ KeysAreUnique' /\ \A q \in Requests : ListedStays(q)
    <3>1. CopyOk(i, s, ref)'
      BY <1>0, <1>2, <2>2, CopyStays DEF CopyOk, Stored
    <3> QED
      BY <1>0, <1>2, <2>2, <3>1, TouchFacts, TouchKeeps
  <2> QED
    BY <2>1, <2>2 DEF RowWritten
<1>4. \A q \in Requests : RequestOk(q)'
  BY <1>0, <1>2, <1>3, RequestStays DEF WebInv, OrdersMove
<1>5. OneAtWork' /\ OrdersAreKnown'
  <2>1. OneAtWork'
    BY <1>2, NamesStay DEF WebInv, OneAtWork
  <2> QED
    BY <1>2, <2>1, OrdersStay DEF WebInv, OrdersMove
<1>6. ASSUME NEW h \in Hooks PROVE HookOk(h)'
  <2>1. CASE hook'[h] = hook[h]
    BY <1>0, <1>2, <2>1, HookStays DEF WebInv
  <2>2. CASE hook'[h].at = "idle"
    BY <2>2 DEF HookOk
  <2>3. ASSUME NEW i \in Stored, NEW s, hook'[h].id = i, hook'[h].status = s,
               hook'[h].mock \/ CopyOk(i, s, None)
        PROVE  HookOk(h)'
    <3>1. i \in Stored' /\ (hook'[h].mock \/ CopyOk(i, s, None)')
      BY <1>0, <1>2, <2>3, CopyStays DEF Grows, Stored
    <3> QED
      BY <2>3, <3>1 DEF HookOk
  <2> QED
    BY <2>1, <2>2, <2>3 DEF HookHeld
<1>7. ASSUME NEW g \in Getters PROVE GetOk(g)'
  <2>1. CASE get'[g] = get[g]
    BY <1>0, <1>2, <2>1, GetStays DEF WebInv
  <2>2. CASE get'[g].at = "idle"
    BY <2>2 DEF GetOk
  <2>3. ASSUME NEW i \in Stored, NEW s, NEW ref, get'[g].id = i, get'[g].status = s,
               get'[g].ref = ref, CopyOk(i, s, ref)
        PROVE  GetOk(g)'
    <3>1. i \in Stored' /\ CopyOk(i, s, ref)'
      BY <1>0, <1>2, <2>3, CopyStays DEF Grows, Stored
    <3> QED
      BY <2>3, <3>1 DEF GetOk
  <2> QED
    BY <2>1, <2>2, <2>3 DEF GetHeld
<1>8. WebTypes'
  BY <1>0, <1>3 DEF WebTypes, TableTypes, HandlerTypes, OrdersMove
<1> QED
  BY <1>2, <1>3, <1>4, <1>5, <1>6, <1>7, <1>8 DEF WebInv

(* Nothing becomes of the orders. *)
LEMMA OrdersRest ==
    ASSUME WebInv, UNCHANGED <<ask, charge>>
    PROVE  OrdersMove
BY SameOrders DEF OrdersMove, WebInv, WebTypes, TableTypes

(* An order is settled once, or complete first. *)
LEMMA SettleKeeps ==
    ASSUME WebInv, NEW o \in Orders, ProviderSettles(o)
    PROVE  WebInv' /\ Grows
<1>0. WebTypes /\ charge \in [Orders -> Charges] /\ charge[o] \in {"open", "complete"}
  BY DEF WebInv, WebTypes, TableTypes, ProviderSettles
<1>1. PICK c \in Outcomes(charge[o]) : charge' = [charge EXCEPT ![o] = c]
  BY DEF ProviderSettles
<1>2. /\ c \in {"succeeded", "failed", "complete", "reversed"}
      /\ charge[o] = "complete" => c \in {"succeeded", "reversed"}
  BY DEF Outcomes
<1>3. /\ charge' \in [Orders -> Charges] /\ charge'[o] = c
      /\ \A x \in Orders : x # o => charge'[x] = charge[x]
  BY <1>0, <1>1, <1>2 DEF Charges
<1>4. OutcomesStay
  <2> SUFFICES ASSUME NEW x \in Orders, NEW s \in {"succeeded", "failed"}, Outcome(x, s)
               PROVE  Outcome(x, s)'
    BY DEF OutcomesStay
  <2>1. CASE x = o
    <3>1. charge[o] = "complete" /\ s = "succeeded"
      BY <1>0, <2>1 DEF Outcome, Inquired
    <3> QED
      BY <1>2, <1>3, <2>1, <3>1 DEF Outcome, Inquired
  <2>2. CASE x # o
    BY <1>3, <2>2 DEF Outcome, Inquired
  <2> QED
    BY <2>1, <2>2
<1>5. ASSUME NEW q \in Requests PROVE OrderStill(q)
  <2>1. GatewayOrder(q) \in Orders
    BY <1>0, AskTypes
  <2> QED
    BY <1>0, <1>3, <2>1 DEF OrderStill
<1>6. OrdersMove
  BY <1>0, <1>3, <1>4, <1>5 DEF OrdersMove
<1>7. /\ UNCHANGED <<world, ask, payments, mocked, pc, fwd, draft, ans, hook, get>>
      /\ hook \in [Hooks -> Hook] /\ get \in [Getters -> Get]
  BY <1>0 DEF ProviderSettles, WebTypes
<1> QED
  BY <1>6, <1>7, QuietKeeps DEF RowWritten, HookHeld, GetHeld

(* What the columns of a stored row, and a copy of its status, say of it. *)
LEMMA CopyMixes ==
    ASSUME WebInv, NEW i \in Stored, NEW s, NEW ref, CopyOk(i, s, ref)
    PROVE  /\ CopyOk(i, s, payments[i].ref) /\ CopyOk(i, payments[i].status, ref)
           /\ CopyOk(i, s, None) /\ CopyOk(i, payments[i].status, payments[i].ref)
<1>1. CopyOk(i, payments[i].status, payments[i].ref)
  BY DEF WebInv, RowOk
<1> QED
  BY <1>1, NamesAreTyped DEF CopyOk, OwnRef

(* An inquiry about a payment's reference tells the truth of it. *)
LEMMA InquiryIsReal ==
    ASSUME WebInv, NEW i \in Stored, NEW s, NEW ref, CopyOk(i, s, ref), ref \in Orders
    PROVE  CopyOk(i, Inquired(ref), ref)
BY DEF CopyOk, Real, OwnRef, Settlers, Outcome

(* An event about an order tells the truth of it. *)
LEMMA EventIsReal ==
    ASSUME NEW o \in Orders, NEW s \in Eventual(o)
    PROVE  s \in WebStatus /\ (WebTerminal(s) => Outcome(o, s))
BY DEF Eventual, Outcome, Inquired, WebTerminal, WebStatus

(* A webhook route that has read its row. *)
LEMMA ReadsKeep ==
    ASSUME WebInv, NEW h \in Hooks, NEW mock \in BOOLEAN, NEW o \in Refs \union {None},
           NEW s \in WebStatus, NEW found, found \subseteq Stored, Reads(h, mock, o, s, found),
           mock \/ \A i \in found : CopyOk(i, s, None)
    PROVE  WebInv' /\ Grows
<1>0. /\ WebTypes /\ UNCHANGED <<world, ask, payments, mocked, pc, fwd, draft, ans, charge, get>>
      /\ hook \in [Hooks -> Hook] /\ get \in [Getters -> Get]
  BY DEF WebInv, Reads, WebTypes
<1>1. PICK i \in found :
         hook' = [hook EXCEPT ![h] =
                     [at |-> "read", mock |-> mock,
                      ref |-> IF o = None THEN payments[i].ref ELSE o,
                      status |-> s, id |-> i, was |-> payments[i].status]]
  BY DEF Reads
<1>2. i \in Stored /\ i \in Ids /\ payments[i].status \in WebStatus
      /\ payments[i].ref \in Refs \union {None}
  BY <1>0, RowTypes DEF Stored
<1>3. PICK e \in Hook : e = [at |-> "read", mock |-> mock,
                             ref |-> IF o = None THEN payments[i].ref ELSE o,
                             status |-> s, id |-> i, was |-> payments[i].status]
  <2>1. PICK ref \in Refs \union {None} : ref = IF o = None THEN payments[i].ref ELSE o
    BY <1>2
  <2>2. [at |-> "read", mock |-> mock, ref |-> ref, status |-> s, id |-> i,
         was |-> payments[i].status] \in Hook
    BY <1>2 DEF Hook
  <2> QED
    BY <2>1, <2>2
<1>4. /\ hook' \in [Hooks -> Hook] /\ hook'[h] = e
      /\ \A x \in Hooks : x # h => hook'[x] = hook[x]
  BY <1>0, <1>1, <1>3
<1>5. e.id = i /\ e.status = s /\ e.mock = mock
  BY <1>3
<1>6. \A x \in Hooks : HookHeld(x)
  BY <1>2, <1>4, <1>5 DEF HookHeld
<1>7. OrdersMove /\ RowWritten /\ \A g \in Getters : GetHeld(g)
  BY <1>0, OrdersRest DEF RowWritten, GetHeld
<1> QED
  BY <1>0, <1>4, <1>6, <1>7, QuietKeeps

(* The read halves of the four routes. *)
LEMMA WebhookReads ==
    ASSUME WebInv, NEW h \in Hooks,
           PaymobWebhook(h) \/ FawryWebhook(h) \/ StripeWebhook(h) \/ MockWebhook(h)
    PROVE  WebInv' /\ Grows
<1>0. WebTypes
  BY DEF WebInv
<1>1. ASSUME NEW o \in Orders, NEW s \in Eventual(o), NEW found, found \subseteq Stored,
             Reads(h, FALSE, o, s, found),
             world.provider # "stripe" \/ found = StripeFinds(o)
      PROVE  WebInv' /\ Grows
  <2>1. s \in WebStatus /\ (WebTerminal(s) => Outcome(o, s)) /\ o \in Refs \union {None}
    BY EventIsReal DEF Refs
  <2>2. ASSUME NEW i \in found PROVE CopyOk(i, s, None)
    <3>1. CopyOk(i, payments[i].status, payments[i].ref)
      BY <1>1 DEF WebInv, RowOk
    <3>2. i \in mocked \/ o \in Settlers(i)
      BY <1>1, <3>1 DEF CopyOk, OwnRef, Settlers, StripeFinds
    <3> QED
      BY <2>1, <3>2, NamesAreTyped DEF CopyOk, Real, OwnRef
  <2> QED
    BY <1>1, <2>1, <2>2, ReadsKeep
<1>2. CASE PaymobWebhook(h) \/ FawryWebhook(h)
  BY <1>1, <1>2 DEF PaymobWebhook, FawryWebhook, PaymobFinds, FawryFinds
<1>3. CASE StripeWebhook(h)
  <2>1. PICK o \in Orders : \E s \in Eventual(o) : Reads(h, FALSE, o, s, StripeFinds(o))
    BY <1>3 DEF StripeWebhook
  <2>2. StripeFinds(o) \subseteq Stored
    BY DEF StripeFinds
  <2> QED
    BY <1>1, <2>1, <2>2
<1>4. CASE MockWebhook(h)
  <2>1. PICK o \in MockRefs, s \in {"pending", "succeeded", "failed"} : Reads(h, TRUE, o, s, Stored)
    BY <1>4 DEF MockWebhook, MockFinds
  <2>2. o \in Refs \union {None}
    BY <1>0, RowTypes, NamesAreTyped DEF MockRefs, Stored
  <2>3. s \in WebStatus
    BY DEF WebStatus
  <2> QED
    BY <2>1, <2>2, <2>3, ReadsKeep
<1> QED
  BY <1>2, <1>3, <1>4

(* The write halves. *)
LEMMA WebhookApplies ==
    ASSUME WebInv, NEW h \in Hooks,
           PaymobApplies(h) \/ FawryApplies(h) \/ StripeApplies(h) \/ MockApplies(h)
    PROVE  WebInv' /\ Grows
<1>e. PICK e : e = hook[h]
  OBVIOUS
<1>0. /\ WebTypes /\ hook \in [Hooks -> Hook] /\ get \in [Getters -> Get] /\ e \in Hook
      /\ e.at = "read" /\ UNCHANGED <<world, ask, pc, fwd, draft, ans, charge, get>>
      /\ hook' = [hook EXCEPT ![h] = NoHook]
      /\ mocked' \in {mocked, mocked \union {e.id}}
  BY <1>e DEF WebInv, WebTypes, PaymobApplies, FawryApplies, StripeApplies, MockApplies, Holds,
              ApplyWebhook
<1>1. /\ e.id \in Stored /\ e.id \in Ids /\ e.status \in WebStatus /\ e.ref \in Refs \union {None}
      /\ payments[e.id].ref \in Refs \union {None} /\ (e.mock \/ CopyOk(e.id, e.status, None))
  <2>1. e.id \in Stored /\ (e.mock \/ CopyOk(e.id, e.status, None))
    BY <1>e, <1>0 DEF WebInv, HookOk
  <2> QED
    BY <1>0, <2>1, RowTypes DEF Hook, Stored
<1>2. RowWritten
  <2>1. CASE PaymobApplies(h) \/ FawryApplies(h)
    <3>1. /\ ~e.mock /\ world.provider # "stripe"
          /\ \/ UNCHANGED payments
             \/ payments' = [payments EXCEPT ![e.id] =
                                [payments[e.id] EXCEPT !.status = e.status, !.ref = e.ref]]
      BY <1>e, <2>1 DEF PaymobApplies, FawryApplies, Holds, ApplyWebhook, PaymobRow, FawryRow
    <3>2. CopyOk(e.id, e.status, e.ref)
      BY <1>1, <3>1 DEF CopyOk, OwnRef
    <3> QED
      BY <1>1, <3>1, <3>2 DEF RowWritten, Touched
  <2>2. CASE StripeApplies(h)
    <3>1. /\ ~e.mock
          /\ \/ UNCHANGED payments
             \/ payments' = [payments EXCEPT ![e.id] = [payments[e.id] EXCEPT !.status = e.status]]
      BY <1>e, <2>2 DEF StripeApplies, Holds, ApplyWebhook, StripeRow
    <3>2. CopyOk(e.id, e.status, payments[e.id].ref)
      BY <1>1, <3>1, CopyMixes
    <3>3. [payments EXCEPT ![e.id] = [payments[e.id] EXCEPT !.status = e.status]]
             = Touched(e.id, e.status, payments[e.id].ref)
      BY <1>0, <1>1, UpdateIsTouch
    <3> QED
      BY <1>1, <3>1, <3>2, <3>3 DEF RowWritten
  <2>3. CASE MockApplies(h)
    <3>1. \/ UNCHANGED payments
          \/ /\ payments' = [payments EXCEPT ![e.id] =
                                [payments[e.id] EXCEPT !.status = e.status, !.ref = e.ref]]
             /\ e.id \in mocked'
      BY <1>e, <2>3 DEF MockApplies, Holds, ApplyWebhook, MockRow
    <3> QED
      BY <1>1, <3>1 DEF RowWritten, Touched
  <2> QED
    BY <2>1, <2>2, <2>3
<1>3. hook' \in [Hooks -> Hook] /\ \A x \in Hooks : HookHeld(x)
  BY <1>0, NamesAreTyped DEF HookHeld, NoHook
<1>4. OrdersMove /\ (\A g \in Getters : GetHeld(g)) /\ mocked \subseteq mocked'
  BY <1>0, OrdersRest DEF GetHeld
<1> QED
  BY <1>0, <1>2, <1>3, <1>4, QuietKeeps

(* The gateway's inquiries, and what a GET writes back. *)
LEMMA GetWrites ==
    ASSUME WebInv, (\E i \in Ids : GatewayInquires(i)) \/
                   (\E g \in Getters : StoreGatewayStatus(g) \/ StoreSessionStatus(g))
    PROVE  WebInv' /\ Grows
<1>0. /\ WebTypes /\ hook \in [Hooks -> Hook] /\ get \in [Getters -> Get]
      /\ UNCHANGED <<world, ask, mocked, pc, fwd, draft, ans, charge, hook>>
  BY DEF WebInv, WebTypes, GatewayInquires, StoreGatewayStatus, StoreSessionStatus
<1>1. OrdersMove /\ (\A h \in Hooks : HookHeld(h))
  BY <1>0, OrdersRest DEF HookHeld
<1>2. ASSUME NEW i \in Ids, GatewayInquires(i) PROVE WebInv' /\ Grows
  <2>1. PICK ref, s : ref = payments[i].ref /\ s = Inquired(ref)
    OBVIOUS
  <2>2. /\ i \in Stored /\ ref \in Orders /\ WebTerminal(s)
        /\ payments' = [payments EXCEPT ![i].status = s] /\ UNCHANGED get
    BY <1>2, <2>1 DEF GatewayInquires
  <2>3. payments' = Touched(i, s, ref) /\ s \in WebStatus
    BY <1>0, <2>1, <2>2, UpdateIsTouch DEF WebTerminal, WebStatus
  <2>4. CopyOk(i, s, ref)
    <3>1. CopyOk(i, payments[i].status, ref)
      BY <2>1, <2>2 DEF WebInv, RowOk
    <3> QED
      BY <2>1, <2>2, <3>1, InquiryIsReal
  <2>5. RowWritten /\ \A g \in Getters : GetHeld(g)
    BY <2>2, <2>3, <2>4 DEF RowWritten, GetHeld, Refs
  <2> QED
    BY <1>0, <1>1, <2>2, <2>5, QuietKeeps
<1>3. ASSUME NEW g \in Getters, StoreGatewayStatus(g) \/ StoreSessionStatus(g)
      PROVE  WebInv' /\ Grows
  <2>e. PICK e : e = get[g]
    OBVIOUS
  <2>1. /\ e \in Get /\ e.at # "idle" /\ e.id \in Stored /\ e.id \in Ids
        /\ CopyOk(e.id, e.status, e.ref)
    BY <2>e, <1>0, <1>3 DEF WebInv, GetOk, StoreGatewayStatus, StoreSessionStatus, Stored
  <2>2. /\ e.status \in WebStatus /\ e.ref \in Refs \union {None}
        /\ payments[e.id].ref \in Refs \union {None} /\ CopyOk(e.id, e.status, payments[e.id].ref)
    BY <1>0, <2>1, RowTypes, CopyMixes DEF Get
  <2>3. \/ UNCHANGED payments
        \/ payments' = [payments EXCEPT ![e.id].status = e.status, ![e.id].ref = e.ref]
        \/ payments' = [payments EXCEPT ![e.id].status = e.status]
    BY <2>e, <1>3 DEF StoreGatewayStatus, StoreSessionStatus
  <2>4. /\ [payments EXCEPT ![e.id].status = e.status, ![e.id].ref = e.ref]
              = Touched(e.id, e.status, e.ref)
        /\ [payments EXCEPT ![e.id].status = e.status] = Touched(e.id, e.status, payments[e.id].ref)
    BY <1>0, <2>1, UpdateIsTouch
  <2>5. RowWritten
    BY <2>1, <2>2, <2>3, <2>4 DEF RowWritten
  <2>6. /\ get' \in [Getters -> Get] /\ (\A x \in Getters : x # g => get'[x] = get[x])
        /\ \/ get'[g].at = "idle"
           \/ get'[g].id = e.id /\ get'[g].status = e.status /\ get'[g].ref = e.ref
    <3>1. CASE get' = [get EXCEPT ![g].at = "session"]
      BY <2>e, <1>0, <2>1, <3>1 DEF Get
    <3>2. CASE get' = [get EXCEPT ![g] = NoGet]
      BY <1>0, <3>2, NamesAreTyped DEF NoGet
    <3> QED
      BY <1>3, <3>1, <3>2 DEF StoreGatewayStatus, StoreSessionStatus
  <2>7. \A x \in Getters : GetHeld(x)
    BY <2>1, <2>6 DEF GetHeld
  <2> QED
    BY <1>0, <1>1, <2>5, <2>6, <2>7, QuietKeeps
<1> QED
  BY <1>2, <1>3

(* What a GET reads. *)
LEMMA GetReads ==
    ASSUME WebInv, NEW g \in Getters,
           GetPayment(g) \/ GatewayTells(g) \/ PaymentsPage(g) \/ RetrieveSession(g)
    PROVE  WebInv' /\ Grows
<1>0. /\ WebTypes /\ hook \in [Hooks -> Hook] /\ get \in [Getters -> Get]
      /\ UNCHANGED <<world, ask, payments, mocked, pc, fwd, draft, ans, charge, hook>>
  BY DEF WebInv, WebTypes, GetPayment, GatewayTells, PaymentsPage, RetrieveSession
<1>1. OrdersMove /\ (\A h \in Hooks : HookHeld(h)) /\ RowWritten
  BY <1>0, OrdersRest DEF HookHeld, RowWritten
<1>2. ASSUME NEW x \in Get, get' = [get EXCEPT ![g] = x],
             x.at = "idle" \/ \E i \in Stored : x.id = i /\ CopyOk(i, x.status, x.ref)
      PROVE  WebInv' /\ Grows
  <2>1. /\ get' \in [Getters -> Get] /\ get'[g] = x
        /\ \A y \in Getters : y # g => get'[y] = get[y]
    BY <1>0, <1>2
  <2>2. \A y \in Getters : GetHeld(y)
    BY <1>2, <2>1 DEF GetHeld
  <2> QED
    BY <1>0, <1>1, <2>1, <2>2, QuietKeeps
<1>3. CASE GetPayment(g) \/ PaymentsPage(g)
  <2>1. PICK i \in Stored, a \in {"asking", "session"} :
           get' = [get EXCEPT ![g] = [at |-> a, id |-> i, was |-> RowView(i),
                                      status |-> payments[i].status, ref |-> payments[i].ref]]
    BY <1>3 DEF GetPayment, PaymentsPage
  <2>2. /\ i \in Ids /\ payments[i].status \in WebStatus /\ payments[i].ref \in Refs \union {None}
        /\ RowView(i) \in Draft /\ CopyOk(i, payments[i].status, payments[i].ref)
    BY <1>0, RowTypes DEF WebInv, RowOk, Stored
  <2>3. PICK x \in Get : x = [at |-> a, id |-> i, was |-> RowView(i),
                              status |-> payments[i].status, ref |-> payments[i].ref]
    BY <2>2 DEF Get
  <2>4. x.id = i /\ x.status = payments[i].status /\ x.ref = payments[i].ref
    BY <2>3
  <2> QED
    BY <1>2, <2>1, <2>2, <2>3, <2>4
<1>4. CASE GatewayTells(g) \/ RetrieveSession(g)
  <2>e. PICK e : e = get[g]
    OBVIOUS
  <2>1. /\ e \in Get /\ e.id \in Stored /\ e.id \in Ids /\ CopyOk(e.id, e.status, e.ref)
    BY <2>e, <1>0, <1>4 DEF WebInv, GetOk, GatewayTells, RetrieveSession, Stored
  <2>2. /\ payments[e.id].status \in WebStatus /\ payments[e.id].ref \in Refs \union {None}
        /\ CopyOk(e.id, payments[e.id].status, e.ref)
        /\ CopyOk(e.id, payments[e.id].status, payments[e.id].ref)
    BY <1>0, <2>1, RowTypes, CopyMixes
  <2>3. CASE get' = [get EXCEPT ![g].at = "session"]
    <3>1. PICK x \in Get : x = [e EXCEPT !.at = "session"]
      BY <2>1 DEF Get
    <3>2. get' = [get EXCEPT ![g] = x] /\ x.id = e.id /\ x.status = e.status /\ x.ref = e.ref
      BY <2>e, <1>0, <2>1, <2>3, <3>1 DEF Get
    <3> QED
      BY <1>2, <2>1, <3>2
  <2>4. CASE get' = [get EXCEPT ![g] = NoGet]
    BY <1>2, <2>4, NamesAreTyped DEF NoGet
  <2>5. ASSUME NEW s \in WebStatus, NEW ref \in Refs \union {None}, CopyOk(e.id, s, ref),
               get' = [get EXCEPT ![g].at = "gateway", ![g].status = s, ![g].ref = ref]
        PROVE  WebInv' /\ Grows
    <3>1. PICK x \in Get : x = [e EXCEPT !.at = "gateway", !.status = s, !.ref = ref]
      BY <2>1 DEF Get
    <3>2. get' = [get EXCEPT ![g] = x]
      BY <2>e, <1>0, <2>5, <3>1
    <3>3. x.id = e.id /\ x.status = s /\ x.ref = ref
      BY <2>1, <3>1 DEF Get
    <3> QED
      BY <1>2, <2>1, <2>5, <3>2, <3>3
  <2>6. CASE GatewayTells(g)
    <3>1. \/ get' = [get EXCEPT ![g].at = "session"]
          \/ get' = [get EXCEPT ![g].at = "gateway", ![g].status = payments[e.id].status,
                                ![g].ref = IF payments[e.id].ref = None THEN e.ref
                                           ELSE payments[e.id].ref]
      BY <2>e, <2>6 DEF GatewayTells
    <3>2. PICK s, ref : /\ s = payments[e.id].status
                        /\ ref = IF payments[e.id].ref = None THEN e.ref ELSE payments[e.id].ref
      OBVIOUS
    <3>3. s \in WebStatus /\ ref \in Refs \union {None} /\ CopyOk(e.id, s, ref)
      BY <2>1, <2>2, <3>2 DEF Get
    <3> QED
      BY <2>3, <2>5, <3>1, <3>2, <3>3
  <2>7. CASE RetrieveSession(g)
    <3>1. PICK ref, s : ref = e.ref /\ s = Inquired(ref)
      OBVIOUS
    <3>2. \/ get' = [get EXCEPT ![g] = NoGet]
          \/ /\ ref \in Orders /\ WebTerminal(s)
             /\ get' = [get EXCEPT ![g].at = "settle", ![g].status = s]
      BY <2>e, <2>7, <3>1 DEF RetrieveSession
    <3>3. CASE /\ ref \in Orders /\ WebTerminal(s)
               /\ get' = [get EXCEPT ![g].at = "settle", ![g].status = s]
      <4>1. s \in WebStatus /\ CopyOk(e.id, s, ref)
        BY <2>1, <3>1, <3>3, InquiryIsReal DEF WebTerminal, WebStatus
      <4>2. PICK x \in Get : x = [e EXCEPT !.at = "settle", !.status = s]
        BY <2>1, <4>1 DEF Get
      <4>3. get' = [get EXCEPT ![g] = x]
        BY <2>e, <1>0, <3>3, <4>2
      <4>4. x.id = e.id /\ x.status = s /\ x.ref = ref
        BY <2>1, <3>1, <4>2 DEF Get
      <4> QED
        BY <1>2, <2>1, <4>1, <4>3, <4>4
    <3> QED
      BY <2>4, <3>2, <3>3
  <2> QED
    BY <1>4, <2>6, <2>7
<1> QED
  BY <1>3, <1>4

------------------------------------------------------------------------------
(* The invariant holds at the start. *)
LEMMA WebStarts ==
    ASSUME WebInit
    PROVE  WebInv
<1>1. WebTypes
  <2>1. world \in World /\ ask \in [Requests -> Ask]
    BY ScenesAssumption DEF WebInit
  <2>2. /\ payments \in [Ids -> Row] /\ charge \in [Orders -> Charges]
        /\ hook \in [Hooks -> Hook] /\ get \in [Getters -> Get]
    BY NamesAreTyped DEF WebInit, Charges
  <2>3. /\ pc \in [Requests -> Pcs] /\ fwd \in [Requests -> Fwd] /\ draft \in [Requests -> Draft]
    BY NamesAreTyped DEF WebInit, Pcs
  <2>4. ans \in [Requests -> [code : Nat, id : Ids \union {None}]]
    BY DEF WebInit, NoAns
  <2> QED
    BY <2>1, <2>2, <2>3, <2>4 DEF WebTypes, TableTypes, HandlerTypes
<1>2. Stored = {}
  BY DEF WebInit, Stored, NoPayment
<1>3. /\ \A r \in Requests : /\ pc[r] = "idle" /\ fwd[r].at = "no" /\ ~fwd[r].cut /\ ans[r] = NoAns
                             /\ ans[r].code = 0
  BY DEF WebInit, NoFwd, NoAns
<1>4. ASSUME NEW r \in Requests PROVE RequestOk(r)
  <2>1. DraftOk(r) /\ ReplyOk(r) /\ AtWork(r)
    BY <1>3 DEF DraftOk, ReplyOk, AtWork, Drafting, Working
  <2>2. AnswerOk(r) /\ ConflictOk(r) /\ FallbackForced(r)
    BY <1>3 DEF AnswerOk, ConflictOk, FallbackForced, Accepted, OwnDraft
  <2> QED
    BY <2>1, <2>2 DEF RequestOk
<1>5. KeysAreUnique /\ OneAtWork
  BY <1>2, <1>3 DEF KeysAreUnique, OneAtWork, Working
<1>6. OrdersAreKnown
  BY NamesAreTyped DEF WebInit, OrdersAreKnown
<1>7. (\A h \in Hooks : HookOk(h)) /\ (\A g \in Getters : GetOk(g))
  BY DEF WebInit, HookOk, GetOk, NoHook, NoGet
<1> QED
  BY <1>1, <1>2, <1>4, <1>5, <1>6, <1>7 DEF WebInv

WebStep == WebNext \/ (\E r \in Requests : Arrive(r)) \/ UNCHANGED webVars

(* Every step of the routes, and every step that leaves them alone, keeps  *)
(* it and grows.                                                           *)
LEMMA WebKeeps ==
    ASSUME WebInv, WebStep
    PROVE  WebInv' /\ Grows
<1>1. CASE CreateNext
  <2>1. PICK r \in Requests :
           \/ LookupStep(r)
           \/ GatewayError(r) \/ TakeRailReply(r) \/ TakeStripeReply(r) \/ TakeMockReply(r)
           \/ RailFallback(r) \/ StripeFallback(r) \/ MockFallback(r)
           \/ GatewayBegins(r) \/ GatewayPlaces(r) \/ GatewayRecords(r)
           \/ PersistPaymentRecord(r) \/ PersistFails(r)
    BY <1>1 DEF CreateNext, LookupStep
  <2>2. CASE LookupStep(r)
    BY <2>2, LookupKeeps
  <2>3. CASE GatewayError(r) \/ TakeRailReply(r) \/ TakeStripeReply(r) \/ TakeMockReply(r)
    BY <2>3, TakeKeeps
  <2>4. CASE RailFallback(r) \/ StripeFallback(r) \/ MockFallback(r)
    BY <2>4, FallbackKeeps
  <2>5. CASE GatewayBegins(r)
    BY <2>5, ReplayKeeps, InsertKeeps
  <2> QED
    BY <2>1, <2>2, <2>3, <2>4, <2>5, PlaceKeeps, RecordKeeps, PersistKeeps, PersistFailsKeeps
<1>2. CASE WebhookNext
  <2>1. ASSUME NEW o \in Orders, ProviderSettles(o) PROVE WebInv' /\ Grows
    BY <2>1, SettleKeeps
  <2>2. ASSUME NEW h \in Hooks,
               PaymobWebhook(h) \/ FawryWebhook(h) \/ StripeWebhook(h) \/ MockWebhook(h)
        PROVE  WebInv' /\ Grows
    BY <2>2, WebhookReads
  <2>3. ASSUME NEW h \in Hooks,
               PaymobApplies(h) \/ FawryApplies(h) \/ StripeApplies(h) \/ MockApplies(h)
        PROVE  WebInv' /\ Grows
    BY <2>3, WebhookApplies
  <2> QED
    BY <1>2, <2>1, <2>2, <2>3 DEF WebhookNext
<1>3. CASE GetNext
  <2>1. ASSUME NEW g \in Getters,
               GetPayment(g) \/ GatewayTells(g) \/ PaymentsPage(g) \/ RetrieveSession(g)
        PROVE  WebInv' /\ Grows
    BY <2>1, GetReads
  <2> QED
    BY <1>3, <2>1, GetWrites DEF GetNext
<1>4. CASE \E r \in Requests : Arrive(r)
  BY <1>4, LookupKeeps DEF LookupStep
<1>5. CASE UNCHANGED webVars
  <2>1. OrdersMove /\ RowWritten
    BY <1>5, OrdersRest DEF webVars, RowWritten
  <2>2. /\ hook' \in [Hooks -> Hook] /\ get' \in [Getters -> Get]
        /\ (\A h \in Hooks : HookHeld(h)) /\ (\A g \in Getters : GetHeld(g))
    BY <1>5 DEF webVars, WebInv, WebTypes, HookHeld, GetHeld
  <2> QED
    BY <1>5, <2>1, <2>2, QuietKeeps DEF webVars
<1> QED
  BY <1>1, <1>2, <1>3, <1>4, <1>5 DEF WebStep, WebNext

------------------------------------------------------------------------------
(* The SDK's calls.  The invariant holds at the start. *)
LEMMA CallsStart ==
    ASSUME CallsInit
    PROVE  CallsIInv
<1>1. WebInv
  BY WebStarts DEF CallsInit
<1>2. CallTypes /\ ReturnedIsAnswered
  BY DEF CallsInit, ClientInit, CallTypes, ReturnedIsAnswered, NewCall, Call
<1>3. SameAsk
  BY CallsAssumption DEF CallsInit, SameAsk
<1> QED
  BY <1>1, <1>2, <1>3 DEF CallsIInv

(* A step of one call: it waits again, fails, or ends with a result. *)
CallMoves(c) ==
    call' \in [Calls -> Call] /\ \A d \in Calls : d # c => call'[d] = call[d]

(* A call that sends, fails or is aborted does not return. *)
LEMMA CallWaits ==
    ASSUME CallTypes, NEW c \in Calls,
           StartAttempt(c) \/ FetchFails(c) \/ AbortCall(c) \/ ReceiveError(c)
    PROVE  CallMoves(c) /\ call'[c].at # "returned"
<1>1. CASE StartAttempt(c)
  BY <1>1 DEF CallTypes, Call, StartAttempt, CallMoves
<1>2. ASSUME NEW a \in {"backoff", "threw"}, call' = [call EXCEPT ![c].at = a]
      PROVE  CallMoves(c) /\ call'[c].at # "returned"
  BY <1>2 DEF CallTypes, Call, CallMoves
<1> QED
  BY <1>1, <1>2 DEF FetchFails, AbortCall, ReceiveError

(* One that is answered returns what it was told, or throws. *)
LEMMA CallReceives ==
    ASSUME CallTypes, NEW c \in Calls, NEW res \in Ids, ReceiveOk(c, res)
    PROVE  CallMoves(c) /\ (call'[c].at = "returned" => call'[c].result = res)
BY DEF CallTypes, Call, ReceiveOk, CallMoves

(* A returned call's answer stays, since answers are final. *)
LEMMA ReturnedKeeps ==
    ASSUME WebInv, Grows, ReturnedIsAnswered, UNCHANGED origin,
           \A c \in Calls :
               \/ call'[c] = call[c]
               \/ call'[c].at = "returned" =>
                     \E r \in RequestsOf(c) : Accepted(r) /\ ans[r].id = call'[c].result
    PROVE  ReturnedIsAnswered'
<1> SUFFICES ASSUME NEW c \in Calls, call'[c].at = "returned"
             PROVE  \E r \in RequestsOf(c)' : Accepted(r)' /\ ans'[r].id = call'[c].result
  BY DEF ReturnedIsAnswered
<1>1. PICK r \in RequestsOf(c) : Accepted(r) /\ ans[r].id = call'[c].result
  BY DEF ReturnedIsAnswered
<1>2. r \in Requests /\ r \in RequestsOf(c)'
  BY DEF RequestsOf
<1>3. pc[r] = "answered"
  BY <1>1, <1>2 DEF WebInv, RequestOk, AnswerOk, Accepted, NoAns
<1>4. Accepted(r)' /\ ans'[r] = ans[r]
  BY <1>1, <1>2, <1>3 DEF Grows, Accepted
<1> QED
  BY <1>1, <1>2, <1>4

(* Every step keeps the invariant. *)
LEMMA CallsKeep ==
    ASSUME CallsIInv, [CallsNext]_callVars
    PROVE  CallsIInv'
<1>0. WebInv /\ CallTypes /\ ReturnedIsAnswered /\ SameAsk
  BY DEF CallsIInv
<1>1. WebStep /\ UNCHANGED origin
  <2>1. ASSUME NEW c \in Calls, SendPayment(c) PROVE WebStep /\ UNCHANGED origin
    <3>1. PICK r \in RequestsOf(c) : Arrive(r) \/ UNCHANGED webVars
      BY <2>1 DEF SendPayment
    <3>2. r \in Requests
      BY DEF RequestsOf
    <3> QED
      BY <2>1, <3>1, <3>2 DEF SendPayment, WebStep
  <2>2. ASSUME NEW c \in Calls, ReceivePayment(c) \/ LosePayment(c)
        PROVE  UNCHANGED webVars /\ UNCHANGED origin
    BY <2>2 DEF ReceivePayment, LosePayment, webVars
  <2>3. CASE UNCHANGED callVars
    BY <2>3 DEF callVars, WebStep
  <2>4. CASE WebNext /\ UNCHANGED <<call, origin>>
    BY <2>4 DEF WebStep
  <2> QED
    BY <2>1, <2>2, <2>3, <2>4 DEF CallsNext, WebStep
<1>2. WebInv' /\ Grows
  BY <1>0, <1>1, WebKeeps
<1>3. SameAsk'
  BY <1>0, <1>1, <1>2 DEF SameAsk, Grows
<1>4. SUFFICES CallTypes' /\ ReturnedIsAnswered'
  BY <1>2, <1>3 DEF CallsIInv
<1>5. CASE UNCHANGED call
  BY <1>0, <1>1, <1>2, <1>5, ReturnedKeeps DEF CallTypes
<1>6. ASSUME NEW c \in Calls, SendPayment(c) \/ LosePayment(c)
      PROVE  CallTypes' /\ ReturnedIsAnswered'
  <2>1. CallMoves(c) /\ call'[c].at # "returned"
    BY <1>0, <1>6, CallWaits DEF SendPayment, LosePayment
  <2> QED
    BY <1>0, <1>1, <1>2, <2>1, ReturnedKeeps DEF CallMoves, CallTypes
<1>7. ASSUME NEW c \in Calls, ReceivePayment(c)
      PROVE  CallTypes' /\ ReturnedIsAnswered'
  <2>1. PICK r \in RequestsOf(c) :
           IF Accepted(r) THEN ReceiveOk(c, ans[r].id) ELSE ReceiveError(c)
    BY <1>7 DEF ReceivePayment
  <2>2. r \in Requests
    BY DEF RequestsOf
  <2>3. Accepted(r) => ans[r].id \in Ids
    BY <1>0, <2>2 DEF WebInv, RequestOk, AnswerOk
  <2>4. /\ CallMoves(c)
        /\ call'[c].at = "returned" => Accepted(r) /\ call'[c].result = ans[r].id
    BY <1>0, <2>1, <2>3, CallReceives, CallWaits
  <2> QED
    BY <1>0, <1>1, <1>2, <2>4, ReturnedKeeps DEF CallMoves, CallTypes
<1> QED
  BY <1>5, <1>6, <1>7 DEF CallsNext, callVars

(* The invariant of the SDK against the routes is inductive. *)
LEMMA CallsInvariant == CallsSpec => []CallsIInv
<1>1. CallsInit => CallsIInv
  BY CallsStart
<1>2. CallsIInv /\ [CallsNext]_callVars => CallsIInv'
  BY CallsKeep
<1> QED
  BY <1>1, <1>2, PTL DEF CallsSpec

(* POST /payments: an accepted call finds its payment in its own list,     *)
(* unless a twin of another tenant or environment took the row over.       *)
THEOREM AcceptedCallsAreListed == CallsSpec => []AnsweredIsListed
<1>1. CallsIInv => AnsweredIsListed
  <2> SUFFICES ASSUME CallsIInv, NEW r \in Requests, Accepted(r), Tenant(r) # Demo
               PROVE  \/ /\ ans[r].id \in ListPayments(Tenant(r), IsLive(r))
                         /\ payments[ans[r].id].body = ask[r].body
                      \/ \E q \in Requests :
                            /\ Twins(r, q)
                            /\ <<Tenant(q), IsLive(q)>> # <<Tenant(r), IsLive(r)>>
    BY DEF AnsweredIsListed
  <2>1. Matches(ans[r].id, r) /\ Listed(ans[r].id, r)
    BY DEF CallsIInv, WebInv, RequestOk, AnswerOk
  <2> QED
    BY <2>1 DEF Matches, Listed, ListPayments
<1> QED
  BY <1>1, CallsInvariant, PTL

(* POST /payments: 409 is answered only where another request has the key, *)
(* and without a gateway never to a retry.                                 *)
THEOREM ConflictsAreAnothers == CallsSpec => []ConflictIsAnothers
<1>1. CallsIInv => ConflictIsAnothers
  BY DEF ConflictIsAnothers, CallsIInv, WebInv, RequestOk, ConflictOk, Another
<1> QED
  BY <1>1, CallsInvariant, PTL

(* Webhooks, polls and write-backs: no stale copy, late event or fallback  *)
(* invents an outcome, except where the mock route wrote.                  *)
THEOREM OutcomesAreReal == CallsSpec => []OutcomeIsReal
<1>1. CallsIInv => OutcomeIsReal
  BY DEF OutcomeIsReal, CallsIInv, WebInv, RowOk, CopyOk, Real, Settlers
<1> QED
  BY <1>1, CallsInvariant, PTL

(* The fallback simulation: in live mode only after the configured gateway *)
(* was asked and did not answer.                                           *)
THEOREM LiveSimulationsAreCutOff == CallsSpec => []SimulatedOnlyCutOff
<1>1. CallsIInv => SimulatedOnlyCutOff
  <2> SUFFICES ASSUME CallsIInv, NEW i \in Stored, i \notin Keys, payments[i].live, Rail
               PROVE  \E r \in Requests : fwd[r].cut /\ KeyOf(r) = payments[i].key
    BY DEF SimulatedOnlyCutOff, Rail
  <2>1. i \in Requests /\ RowIsNamed(i)
    BY DEF Stored, Ids, CallsIInv, WebInv, RowOk
  <2> QED
    BY <2>1 DEF RowIsNamed
<1> QED
  BY <1>1, CallsInvariant, PTL

(* Two orders under one Idempotency-Key: only on Stripe, and only when the *)
(* gateway's answer was lost or late.                                      *)
THEOREM SecondOrdersAreCutOff == CallsSpec => []SecondOrderOnlyCutOff
<1>1. CallsIInv => SecondOrderOnlyCutOff
  <2> SUFFICES ASSUME CallsIInv, NEW k \in Keys,
                      \A b \in {"gateway", "session"} :
                          charge[[by |-> b, key |-> k]] \notin {"none", "refused"}
               PROVE  /\ world.provider = "stripe"
                      /\ \E r \in Requests : KeyOf(r) = k /\ fwd[r].cut
    BY DEF SecondOrderOnlyCutOff
  <2>1. /\ charge[[by |-> "gateway", key |-> k]] # "none"
        /\ charge[[by |-> "session", key |-> k]] # "none"
    OBVIOUS
  <2> QED
    BY <2>1 DEF CallsIInv, WebInv, OrdersAreKnown, CutOff
<1> QED
  BY <1>1, CallsInvariant, PTL

(* payments.create: a call that returned made no second payment, whatever  *)
(* its earlier and later attempts did at the server.                       *)
THEOREM ReturnedCallMadeOne == CallsSpec => []CallMakesOnePayment
<1>1. CallsIInv => CallMakesOnePayment
  <2> SUFFICES ASSUME CallsIInv, NEW c \in Calls, NEW r \in Requests,
                      call[c].at = "returned", origin[r].call = c, ask[r].user # Demo,
                      NEW i \in Stored, payments[i].user = ask[r].user,
                      payments[i].key = KeyOf(r)
               PROVE  i = call[c].result
    BY DEF CallMakesOnePayment
  <2>1. PICK q \in RequestsOf(c) : Accepted(q) /\ ans[q].id = call[c].result
    BY DEF CallsIInv, ReturnedIsAnswered
  <2>2. q \in Requests /\ ask[q] = ask[r]
    BY DEF RequestsOf, CallsIInv, SameAsk
  <2>3. Matches(call[c].result, q)
    BY <2>1, <2>2 DEF CallsIInv, WebInv, RequestOk, AnswerOk, Tenant
  <2> QED
    BY <2>2, <2>3 DEF Matches, KeyOf, Tenant, CallsIInv, WebInv, KeysAreUnique
<1> QED
  BY <1>1, CallsInvariant, PTL

==============================================================================
