------------------------- MODULE GatewayBase_proofs --------------------------
(***************************************************************************)
(* What holds on either store, for any number of requests, keys, inquirers *)
(* and events.  Of a store's own statements these proofs need to know only *)
(* that each of them is a StoreStep: it writes rows of handlers that got   *)
(* through begin_payment, final statuses only if they are true.  Nothing   *)
(* is said of the state machine here: BaseInv survives even statuses that  *)
(* go backwards, which the Postgres store allows.                          *)
(***************************************************************************)
EXTENDS GatewayBase, TLAPS

BaseInv ==
    /\ BaseTypeOK
    /\ Coherent
    /\ StoredOutcomeIsTrue
    /\ SettledHasNoAction
    /\ ReplayIsSameRequest

(* The row of k is written by somebody who knows whose it is, with a final *)
(* status only if that is true.                                            *)
Touches(k) ==
    LET p == payments[k]
        q == payments'[k]
    IN  /\ p.id # None
        /\ q.id = p.id
        /\ q.fingerprint = p.fingerprint
        /\ q.reference \in {None, p.id}
        /\ q.status \in Reported
        /\ q.status = "Succeeded" => charge[p.id] = "succeeded"
        /\ q.status = "Failed" => charge[p.id] \in {"failed", "refused"}
        /\ q.status \notin Open => ~q.next_action

RowsTouched == \A k \in Keys : payments'[k] = payments[k] \/ Touches(k)

HandlersKept == \A r \in Requests : pc'[r] \in Proceeded <=> pc[r] \in Proceeded

RepliesKept ==
    \A r \in Requests : pc'[r] \in {"existing", "conflict"} => pc'[r] = pc[r]

ChargesKept ==
    \A r \in Requests :
        /\ charge'[r] = "none" <=> charge[r] = "none"
        /\ charge[r] \in {"succeeded", "failed", "refused"} => charge'[r] = charge[r]

Quiet == RowsTouched /\ HandlersKept /\ ChargesKept

(* An inquiry ends, or its answer is about to be written. *)
InquiryGoesOn(g) ==
    \/ inquiry'[g] = inquiry[g]
    \/ inquiry'[g] = NoInquiry
    \/ inquiry[g].at = "answered" /\ inquiry'[g] = [inquiry[g] EXCEPT !.at = "writing"]

(* What a statement of a store may do, and the end of the handler that     *)
(* issued it.                                                              *)
StoreStep ==
    /\ payments' \in [Keys -> Row] /\ RowsTouched
    /\ pc' \in [Requests -> Handler] /\ HandlersKept /\ RepliesKept
    /\ webhook_events' \subseteq EventIds
    /\ \A e \in webhook_events' \ webhook_events : event[e] # NoEvent
    /\ inquiry' \in [Inquirers -> Inquiry]
    /\ \A g \in Inquirers : InquiryGoesOn(g)
    /\ UNCHANGED <<charge, event>>

InquiryStep ==
    \E g \in Inquirers :
        \/ \E k \in Keys : GetStart(g, k) \/ ReconcileStart(g, k)
        \/ InquiryAnswered(g)
        \/ InquiryDropped(g)

BaseStep ==
    \/ \E r \in Requests : Begin(r) \/ CancelCreate(r)
    \/ Provider
    \/ InquiryStep
    \/ StoreStep

(* The initial state satisfies the invariant. *)
LEMMA BaseInitInv == BaseInit => BaseInv
<1> SUFFICES ASSUME BaseInit PROVE BaseInv
  OBVIOUS
<1> USE GatewayAssumption DEF BaseInit
<1>1. BaseTypeOK
  BY DEF BaseTypeOK, Row, NoRow, Statuses, Handler, Proceeded, Charge,
         Created, Event, NoEvent, Reported, Inquiry, NoInquiry
<1>2. Coherent
  BY DEF Coherent, RowsHaveOwners, OwnersHaveRows, ChargesHaveOwners,
         EventsAreTrue, InquiriesAreTrue, NoRow, NoInquiry, Proceeded
<1>3. StoredOutcomeIsTrue /\ SettledHasNoAction
  BY DEF StoredOutcomeIsTrue, SettledHasNoAction, HasRow, NoRow, Open
<1>4. ReplayIsSameRequest
  BY DEF ReplayIsSameRequest
<1> QED
  BY <1>1, <1>2, <1>3, <1>4 DEF BaseInv

------------------------------------------------------------------------------
(* Writing a row. *)

(* SetStatus changes the status and the next action of one row, and        *)
(* nothing else: the two UPDATE statements every status write chooses      *)
(* between.                                                                *)
LEMMA SetStatusWrites ==
    ASSUME payments \in [Keys -> Row], NEW k \in Keys, NEW s \in Statuses
    PROVE  /\ SetStatus(k, s) \in [Keys -> Row]
           /\ \A j \in Keys \ {k} : SetStatus(k, s)[j] = payments[j]
           /\ SetStatus(k, s)[k].id = payments[k].id
           /\ SetStatus(k, s)[k].fingerprint = payments[k].fingerprint
           /\ SetStatus(k, s)[k].reference = payments[k].reference
           /\ SetStatus(k, s)[k].status = s
           /\ SetStatus(k, s)[k].next_action =
                 (payments[k].next_action /\ ~IsTerminal(s))
<1> DEFINE p == payments[k]
<1> DEFINE q == [p EXCEPT !.status = s, !.next_action = @ /\ ~IsTerminal(s)]
<1>1. p \in Row
  OBVIOUS
<1>2. IsTerminal(s) \in BOOLEAN
  BY DEF IsTerminal
<1>3. q \in Row
  BY <1>1, <1>2 DEF Row
<1>4. SetStatus(k, s) = [payments EXCEPT ![k] = q]
  BY <1>1 DEF SetStatus, Row
<1>5. /\ q.id = p.id
      /\ q.fingerprint = p.fingerprint
      /\ q.reference = p.reference
      /\ q.status = s
      /\ q.next_action = (p.next_action /\ ~IsTerminal(s))
  BY <1>1 DEF Row
<1> HIDE DEF q
<1> QED
  BY <1>3, <1>4, <1>5

(* A status write with a true status touches its row and no other. *)
LEMMA StatusWriteTouches ==
    ASSUME BaseInv,
           NEW k \in Keys, payments[k].id # None,
           NEW s \in Reported,
           s = "Succeeded" => charge[payments[k].id] = "succeeded",
           s = "Failed" => charge[payments[k].id] \in {"failed", "refused"},
           payments' = SetStatus(k, s)
    PROVE  /\ payments' \in [Keys -> Row] /\ RowsTouched /\ Touches(k)
           /\ payments'[k].status = s
           /\ \A j \in Keys \ {k} : payments'[j] = payments[j]
<1>1. payments \in [Keys -> Row] /\ s \in Statuses
  BY DEF BaseInv, BaseTypeOK, Reported, Statuses
<1>2. /\ payments' \in [Keys -> Row]
      /\ \A j \in Keys \ {k} : payments'[j] = payments[j]
      /\ payments'[k].id = payments[k].id
      /\ payments'[k].fingerprint = payments[k].fingerprint
      /\ payments'[k].reference = payments[k].reference
      /\ payments'[k].status = s
      /\ payments'[k].next_action = (payments[k].next_action /\ ~IsTerminal(s))
  BY <1>1, SetStatusWrites
<1>3. payments[k].reference \in {None, payments[k].id}
  BY DEF BaseInv, Coherent, RowsHaveOwners
<1>4. s \notin Open => ~payments'[k].next_action
  BY <1>2 DEF Reported, Open, IsTerminal
<1>5. Touches(k)
  BY <1>2, <1>3, <1>4 DEF Touches
<1> QED
  BY <1>2, <1>5 DEF RowsTouched

(* record_creation_result touches the handler's own row and no other. *)
LEMMA CreationWriteTouches ==
    ASSUME BaseInv, NEW r \in Requests, pc[r] = "calling",
           NEW s \in CreationStatuses, NEW action \in BOOLEAN,
           payments' = [payments EXCEPT ![KeyOf[r]].reference = r,
                                        ![KeyOf[r]].status = s,
                                        ![KeyOf[r]].next_action = action]
    PROVE  /\ payments' \in [Keys -> Row] /\ RowsTouched /\ Touches(KeyOf[r])
           /\ payments'[KeyOf[r]].status = s
           /\ \A j \in Keys \ {KeyOf[r]} : payments'[j] = payments[j]
<1> DEFINE k == KeyOf[r]
<1> DEFINE q == [payments[k] EXCEPT !.reference = r, !.status = s,
                                    !.next_action = action]
<1>1. /\ k \in Keys
      /\ r # None
      /\ payments \in [Keys -> Row]
  BY GatewayAssumption DEF BaseInv, BaseTypeOK
<1>2. payments[k].id = r
  BY DEF BaseInv, Coherent, OwnersHaveRows, Proceeded
<1>3. s \in Statuses /\ s \in Reported /\ s \in Open
  BY DEF CreationStatuses, Statuses, Reported, Open
<1>4. payments[k] \in Row
  BY <1>1
<1>5. q \in Row
  BY <1>3, <1>4 DEF Row
<1>6. /\ q.id = r
      /\ q.fingerprint = payments[k].fingerprint
      /\ q.reference = r
      /\ q.status = s
  BY <1>2, <1>4 DEF Row
<1>7. payments' = [payments EXCEPT ![k] = q]
  BY <1>1, <1>4 DEF Row
<1> HIDE DEF q
<1>8. Touches(k)
  BY <1>1, <1>2, <1>3, <1>6, <1>7 DEF Touches, CreationStatuses
<1> QED
  BY <1>1, <1>5, <1>6, <1>7, <1>8 DEF RowsTouched

(* What a provider can report of a charge is true of it. *)
LEMMA ReportableIsTruthful ==
    ASSUME NEW r \in Requests, NEW s \in Reportable(r)
    PROVE  Truthful(r, s) /\ s \in Reported
BY DEF Reportable, Truthful, Reported


------------------------------------------------------------------------------
(* Types. *)

(* Every step preserves the types: every store operation writes rows, and  *)
(* every adapter answers with statuses of the state machine.               *)
LEMMA BaseStepTypes ==
    ASSUME BaseInv, BaseStep
    PROVE  BaseTypeOK'
<1> USE GatewayAssumption
<1>1. BaseTypeOK
  BY DEF BaseInv
<1>2. ASSUME NEW r \in Requests, Begin(r) \/ CancelCreate(r) PROVE BaseTypeOK'
  <2>1. CASE BeginProceed(r)
    <3>1. [id |-> r, fingerprint |-> BodyOf[r], status |-> "Pending",
           reference |-> None, next_action |-> FALSE] \in Row
      BY DEF Row, Statuses
    <3> QED
      BY <1>1, <2>1, <3>1 DEF BeginProceed, BaseTypeOK, Handler, Proceeded, Charge
  <2>2. CASE BeginReturnExisting(r) \/ BeginConflict(r) \/ CancelCreate(r)
    BY <1>1, <2>2 DEF BeginReturnExisting, BeginConflict, CancelCreate,
                      BaseTypeOK, Handler, Proceeded
  <2> QED
    BY <1>2, <2>1, <2>2 DEF Begin
<1>3. ASSUME NEW g \in Inquirers, NEW k \in Keys, StartInquiry(g, k) PROVE BaseTypeOK'
  <2>1. payments[k] \in Row
    BY <1>1 DEF BaseTypeOK
  <2>2. [at |-> "asking", key |-> k, ref |-> payments[k].reference,
         was |-> payments[k].status, answer |-> "Unknown"] \in Inquiry
    BY <2>1 DEF Row, Inquiry, Reported
  <2> QED
    BY <1>1, <1>3, <2>2 DEF StartInquiry, BaseTypeOK
<1>4. ASSUME NEW g \in Inquirers, InquiryAnswered(g) PROVE BaseTypeOK'
  <2>1. PICK s \in Reportable(inquiry[g].ref) :
            inquiry' = [inquiry EXCEPT ![g].at = "answered", ![g].answer = s]
    BY <1>4 DEF InquiryAnswered
  <2>2. s \in Reported
    BY DEF Reportable, Reported
  <2>3. inquiry[g] \in Inquiry
    BY <1>1 DEF BaseTypeOK
  <2>4. [inquiry[g] EXCEPT !.at = "answered", !.answer = s] \in Inquiry
    BY <2>2, <2>3 DEF Inquiry
  <2>5. inquiry' = [inquiry EXCEPT ![g] =
                       [inquiry[g] EXCEPT !.at = "answered", !.answer = s]]
    BY <1>1, <2>1, <2>3 DEF BaseTypeOK, Inquiry
  <2>6. inquiry' \in [Inquirers -> Inquiry]
    BY <1>1, <2>4, <2>5 DEF BaseTypeOK
  <2> QED
    BY <1>1, <1>4, <2>6 DEF InquiryAnswered, BaseTypeOK
<1>5. ASSUME NEW g \in Inquirers, InquiryDropped(g) PROVE BaseTypeOK'
  <2>1. NoInquiry \in Inquiry
    BY DEF NoInquiry, Inquiry, Statuses, Reported
  <2> QED
    BY <1>1, <1>5, <2>1 DEF InquiryDropped, BaseTypeOK
<1>6. ASSUME NEW r \in Requests, AcceptCharge(r) \/ RefuseCharge(r) \/ SettleCharge(r)
      PROVE  BaseTypeOK'
  BY <1>1, <1>6 DEF AcceptCharge, RefuseCharge, SettleCharge, BaseTypeOK, Charge, Created
<1>7. ASSUME NEW e \in EventIds, NEW r \in Requests, EmitEvent(e, r) PROVE BaseTypeOK'
  <2>1. PICK s \in Reportable(r), m \in BOOLEAN :
            event' = [event EXCEPT ![e] = [ref |-> r, status |-> s, mismatch |-> m]]
    BY <1>7 DEF EmitEvent
  <2>2. [ref |-> r, status |-> s, mismatch |-> m] \in Event
    BY DEF Event, Reportable, Reported
  <2> QED
    BY <1>1, <1>7, <2>1, <2>2 DEF EmitEvent, BaseTypeOK
<1>8. CASE StoreStep
  BY <1>1, <1>8 DEF StoreStep, BaseTypeOK
<1> QED
  BY <1>2, <1>3, <1>4, <1>5, <1>6, <1>7, <1>8
  DEF BaseStep, InquiryStep, GetStart, ReconcileStart, Provider

------------------------------------------------------------------------------
(* Quiet steps, and the one that inserts a row. *)

(* Every step but the INSERT of begin_payment is quiet. *)
LEMMA BaseStepQuiet ==
    ASSUME BaseInv, BaseStep, ~(\E r \in Requests : BeginProceed(r))
    PROVE  Quiet
<1>0. BaseTypeOK
  BY DEF BaseInv
<1>1. UNCHANGED payments => RowsTouched
  BY DEF RowsTouched
<1>2. UNCHANGED pc => HandlersKept
  BY DEF HandlersKept
<1>3. UNCHANGED charge => ChargesKept
  BY DEF ChargesKept
<1>4. ASSUME NEW r \in Requests, Begin(r) \/ CancelCreate(r) PROVE Quiet
  <2>1. BeginReturnExisting(r) \/ BeginConflict(r) \/ CancelCreate(r)
    BY <1>4 DEF Begin
  <2>2. HandlersKept
    BY <1>0, <2>1 DEF BeginReturnExisting, BeginConflict, CancelCreate,
                      HandlersKept, Proceeded, BaseTypeOK
  <2> QED
    BY <1>1, <1>3, <2>1, <2>2 DEF BeginReturnExisting, BeginConflict, CancelCreate, Quiet
<1>5. CASE InquiryStep
  BY <1>1, <1>2, <1>3, <1>5 DEF InquiryStep, GetStart, ReconcileStart, StartInquiry,
                                InquiryAnswered, InquiryDropped, Quiet
<1>6. CASE Provider
  <2>1. ASSUME NEW r \in Requests, AcceptCharge(r) \/ RefuseCharge(r) \/ SettleCharge(r)
        PROVE  Quiet
    <3>1. ChargesKept
      BY <1>0, <2>1 DEF AcceptCharge, RefuseCharge, SettleCharge, ChargesKept, BaseTypeOK
    <3> QED
      BY <1>1, <1>2, <2>1, <3>1 DEF AcceptCharge, RefuseCharge, SettleCharge, Quiet
  <2>2. ASSUME NEW e \in EventIds, NEW r \in Requests, EmitEvent(e, r) PROVE Quiet
    BY <1>1, <1>2, <1>3, <2>2 DEF EmitEvent, Quiet
  <2> QED
    BY <1>6, <2>1, <2>2 DEF Provider
<1>7. CASE StoreStep
  BY <1>3, <1>7 DEF StoreStep, Quiet
<1> QED
  BY <1>4, <1>5, <1>6, <1>7 DEF BaseStep

(* A quiet step keeps rows, handlers and charges in agreement, and the     *)
(* stored outcomes true.                                                   *)
LEMMA QuietKeeps ==
    ASSUME BaseInv, Quiet, BaseTypeOK'
    PROVE  /\ RowsHaveOwners' /\ OwnersHaveRows' /\ ChargesHaveOwners'
           /\ StoredOutcomeIsTrue' /\ SettledHasNoAction'
<1> USE GatewayAssumption
<1>0. /\ payments \in [Keys -> Row]
      /\ \A k \in Keys : payments[k].id \in Requests \union {None}
  BY DEF BaseInv, BaseTypeOK, Row
<1>1. \A k \in Keys : payments'[k].id = payments[k].id
  BY DEF Quiet, RowsTouched, Touches
<1>2. RowsHaveOwners'
  <2> SUFFICES ASSUME NEW k \in Keys
               PROVE  LET p == payments'[k] IN
                      IF p.id = None THEN p = NoRow
                      ELSE /\ KeyOf[p.id] = k
                           /\ BodyOf[p.id] = p.fingerprint
                           /\ pc'[p.id] \in Proceeded
                           /\ p.status \in Reported
                           /\ p.reference \in {None, p.id}
    BY DEF RowsHaveOwners
  <2>1. CASE payments[k].id = None
    BY <2>1 DEF Quiet, RowsTouched, Touches, BaseInv, Coherent, RowsHaveOwners
  <2>2. CASE payments[k].id # None
    <3>1. pc'[payments[k].id] \in Proceeded
      BY <1>0, <2>2 DEF Quiet, HandlersKept, BaseInv, Coherent, RowsHaveOwners
    <3> QED
      BY <2>2, <3>1 DEF Quiet, RowsTouched, Touches, BaseInv, Coherent, RowsHaveOwners
  <2> QED
    BY <2>1, <2>2
<1>3. OwnersHaveRows'
  BY <1>1 DEF Quiet, HandlersKept, BaseInv, Coherent, OwnersHaveRows
<1>4. ChargesHaveOwners'
  BY DEF Quiet, HandlersKept, ChargesKept, BaseInv, Coherent, ChargesHaveOwners
<1>5. StoredOutcomeIsTrue'
  <2> SUFFICES ASSUME NEW k \in Keys, payments'[k].id # None
               PROVE  LET p == payments'[k] IN
                      /\ p.status = "Succeeded" => charge'[p.id] = "succeeded"
                      /\ p.status = "Failed" => charge'[p.id] \in {"failed", "refused"}
    BY DEF StoredOutcomeIsTrue, HasRow
  <2>1. payments[k].id \in Requests /\ payments'[k].id = payments[k].id
    BY <1>0, <1>1
  <2>2. LET p == payments'[k] IN
        /\ p.status = "Succeeded" => charge[p.id] = "succeeded"
        /\ p.status = "Failed" => charge[p.id] \in {"failed", "refused"}
    BY <2>1 DEF Quiet, RowsTouched, Touches, BaseInv, StoredOutcomeIsTrue, HasRow
  <2> QED
    BY <2>1, <2>2 DEF Quiet, ChargesKept
<1>6. SettledHasNoAction'
  BY DEF SettledHasNoAction, Quiet, RowsTouched, Touches, BaseInv
<1> QED
  BY <1>2, <1>3, <1>4, <1>5, <1>6

(* The INSERT of begin_payment keeps rows, handlers and charges in         *)
(* agreement: the key had no row, so no handler and no charge.             *)
LEMMA BeginProceedKeeps ==
    ASSUME BaseInv, BaseTypeOK', NEW r \in Requests, BeginProceed(r)
    PROVE  /\ RowsHaveOwners' /\ OwnersHaveRows' /\ ChargesHaveOwners'
           /\ StoredOutcomeIsTrue' /\ SettledHasNoAction'
<1> DEFINE k == KeyOf[r]
<1> USE GatewayAssumption
<1>0. BaseTypeOK
  BY DEF BaseInv
<1>1. /\ payments'[k] = [id |-> r, fingerprint |-> BodyOf[r], status |-> "Pending",
                         reference |-> None, next_action |-> FALSE]
      /\ \A j \in Keys \ {k} : payments'[j] = payments[j]
      /\ payments[k].id = None
      /\ pc[r] = "new"
      /\ pc'[r] = "calling"
      /\ charge'[r] = "sent"
      /\ \A w \in Requests \ {r} : pc'[w] = pc[w] /\ charge'[w] = charge[w]
  BY <1>0 DEF BeginProceed, MayProceed, HasRow, BaseTypeOK
<1>2. \A j \in Keys \ {k} : payments[j].id # r
  BY <1>1 DEF BaseInv, Coherent, RowsHaveOwners
<1>3. \A j \in Keys : payments[j].id \in Requests \union {None}
  BY <1>0 DEF BaseTypeOK, Row
<1>4. RowsHaveOwners'
  <2> SUFFICES ASSUME NEW j \in Keys
               PROVE  LET p == payments'[j] IN
                      IF p.id = None THEN p = NoRow
                      ELSE /\ KeyOf[p.id] = j
                           /\ BodyOf[p.id] = p.fingerprint
                           /\ pc'[p.id] \in Proceeded
                           /\ p.status \in Reported
                           /\ p.reference \in {None, p.id}
    BY DEF RowsHaveOwners
  <2>1. CASE j = k
    BY <1>1, <2>1 DEF Proceeded, Reported
  <2>2. CASE j # k
    BY <1>1, <1>2, <1>3, <2>2 DEF BaseInv, Coherent, RowsHaveOwners
  <2> QED
    BY <2>1, <2>2
<1>5. OwnersHaveRows'
  BY <1>1 DEF BaseInv, Coherent, OwnersHaveRows
<1>6. ChargesHaveOwners'
  BY <1>1 DEF BaseInv, Coherent, ChargesHaveOwners, Proceeded
<1>7. StoredOutcomeIsTrue'
  BY <1>1, <1>2, <1>3 DEF BaseInv, StoredOutcomeIsTrue, HasRow
<1>8. SettledHasNoAction'
  BY <1>1 DEF BaseInv, SettledHasNoAction
<1> QED
  BY <1>4, <1>5, <1>6, <1>7, <1>8

(* No step changes what has settled: the order BeginProceed sends is the   *)
(* first for its request.                                                  *)
LEMMA SettledIsKept ==
    ASSUME BaseInv, BaseStep, NEW r \in Requests,
           charge[r] \in {"succeeded", "failed", "refused"}
    PROVE  charge'[r] = charge[r]
<1>1. CASE \E w \in Requests : BeginProceed(w)
  <2>1. PICK w \in Requests : BeginProceed(w)
    BY <1>1
  <2>2. pc[w] = "new" /\ charge' = [charge EXCEPT ![w] = "sent"]
    BY <2>1 DEF BeginProceed
  <2>3. charge[w] = "none"
    BY <2>2 DEF BaseInv, Coherent, ChargesHaveOwners, Proceeded
  <2> QED
    BY <2>2, <2>3 DEF BaseInv, BaseTypeOK
<1>2. CASE ~\E w \in Requests : BeginProceed(w)
  BY <1>2, BaseStepQuiet DEF Quiet, ChargesKept
<1> QED
  BY <1>1, <1>2

(* No step gives the row of a request another id. *)
LEMMA IdIsKept ==
    ASSUME BaseInv, BaseStep, NEW k \in Keys, payments[k].id # None
    PROVE  payments'[k].id = payments[k].id
<1>1. CASE \E w \in Requests : BeginProceed(w)
  <2>1. PICK w \in Requests : BeginProceed(w)
    BY <1>1
  <2>2. k # KeyOf[w]
    BY <2>1 DEF BeginProceed, MayProceed, HasRow
  <2> QED
    BY <2>1, <2>2 DEF BeginProceed, BaseInv, BaseTypeOK
<1>2. CASE ~\E w \in Requests : BeginProceed(w)
  BY <1>2, BaseStepQuiet DEF Quiet, RowsTouched, Touches
<1> QED
  BY <1>1, <1>2

(* A handler that got through begin_payment stays one that did. *)
LEMMA ProceededIsKept ==
    ASSUME BaseInv, BaseStep, NEW r \in Requests, pc[r] \in Proceeded
    PROVE  pc'[r] \in Proceeded
<1>1. CASE \E w \in Requests : BeginProceed(w)
  BY <1>1 DEF BeginProceed, Proceeded, BaseInv, BaseTypeOK
<1>2. CASE ~\E w \in Requests : BeginProceed(w)
  BY <1>2, BaseStepQuiet DEF Quiet, HandlersKept
<1> QED
  BY <1>1, <1>2

------------------------------------------------------------------------------
(* Events and inquiries. *)

(* An event, once signed, is not signed anew, and only signed events are   *)
(* consumed.                                                               *)
LEMMA EventsAreKept ==
    ASSUME BaseInv, BaseStep
    PROVE  /\ \/ UNCHANGED event
              \/ /\ \E e \in EventIds, r \in Requests : EmitEvent(e, r)
                 /\ UNCHANGED webhook_events
           /\ \A e \in webhook_events' \ webhook_events : event[e] # NoEvent
BY DEF BaseStep, Begin, BeginProceed, BeginReturnExisting, BeginConflict,
       CancelCreate, InquiryStep, GetStart, ReconcileStart, StartInquiry,
       InquiryAnswered, InquiryDropped, Provider, AcceptCharge,
       RefuseCharge, SettleCharge, EmitEvent, StoreStep

(* No step leaves an event that is false, or consumes one never signed. *)
LEMMA EventsStayTrue ==
    ASSUME BaseInv, BaseStep
    PROVE  EventsAreTrue'
<1>0. BaseTypeOK /\ EventsAreTrue
  BY DEF BaseInv, Coherent
<1>1. ASSUME NEW e \in EventIds, event'[e] = event[e], event[e] # NoEvent
      PROVE  event'[e].ref \in Requests /\ Truthful(event[e].ref, event[e].status)'
  <2>1. event[e].ref \in Requests /\ Truthful(event[e].ref, event[e].status)
    BY <1>0, <1>1 DEF EventsAreTrue
  <2>2. event'[e].ref \in Requests
    BY <1>1, <2>1
  <2>3. /\ event[e].status = "Succeeded" => charge'[event[e].ref] = "succeeded"
        /\ event[e].status = "Failed" => charge'[event[e].ref] = "failed"
    BY <2>1, SettledIsKept DEF Truthful
  <2> QED
    BY <1>1, <2>2, <2>3 DEF Truthful
<1>2. CASE UNCHANGED event
  <2>1. \A e \in webhook_events' : event'[e] # NoEvent
    BY <1>0, <1>2, EventsAreKept DEF EventsAreTrue
  <2> QED
    BY <1>1, <1>2, <2>1 DEF EventsAreTrue, Truthful
<1>3. CASE /\ \E d \in EventIds, r \in Requests : EmitEvent(d, r)
           /\ UNCHANGED webhook_events
  <2>1. PICK d \in EventIds, r \in Requests : EmitEvent(d, r)
    BY <1>3
  <2>2. PICK s \in Reportable(r), m \in BOOLEAN :
            event' = [event EXCEPT ![d] = [ref |-> r, status |-> s, mismatch |-> m]]
    BY <2>1 DEF EmitEvent
  <2>3. /\ event'[d] = [ref |-> r, status |-> s, mismatch |-> m]
        /\ \A e \in EventIds \ {d} : event'[e] = event[e]
        /\ event[d] = NoEvent
        /\ UNCHANGED <<charge, webhook_events>>
    BY <1>0, <2>1, <2>2 DEF BaseTypeOK, EmitEvent
  <2>4. Truthful(r, s)
    BY ReportableIsTruthful
  <2>5. event'[d].ref \in Requests /\ Truthful(event[d].ref, event[d].status)'
    BY <2>3, <2>4 DEF Truthful
  <2>6. event'[d] # NoEvent
    BY <2>3, GatewayAssumption DEF NoEvent
  <2>7. \A e \in webhook_events' : event'[e] # NoEvent
    BY <1>0, <2>3, <2>6 DEF EventsAreTrue, BaseTypeOK
  <2> QED
    BY <1>1, <2>3, <2>5, <2>7 DEF EventsAreTrue, Truthful
<1> QED
  BY <1>2, <1>3, EventsAreKept

(* What an inquiry has to do for InquiriesAreTrue. *)
InquiryIsTrue(g) ==
    inquiry[g].at # "idle" =>
        /\ inquiry[g].key \in Keys
        /\ inquiry[g].ref \in Requests
        /\ payments[inquiry[g].key].id = inquiry[g].ref
        /\ inquiry[g].at # "asking" => Truthful(inquiry[g].ref, inquiry[g].answer)

(* An inquiry that keeps its key, reference and answer stays true, also    *)
(* when its answer is about to be written.                                 *)
LEMMA InquiryStaysTrue ==
    ASSUME BaseInv, BaseStep, NEW g \in Inquirers, InquiryGoesOn(g)
    PROVE  InquiryIsTrue(g)'
<1> USE GatewayAssumption
<1>0. inquiry[g] \in Inquiry /\ InquiryIsTrue(g)
  BY DEF BaseInv, BaseTypeOK, Coherent, InquiriesAreTrue, InquiryIsTrue
<1>1. CASE inquiry'[g] = NoInquiry
  BY <1>1 DEF InquiryIsTrue, NoInquiry
<1>2. CASE /\ inquiry[g].at # "idle"
           /\ inquiry'[g].key = inquiry[g].key
           /\ inquiry'[g].ref = inquiry[g].ref
           /\ inquiry'[g].answer = inquiry[g].answer
           /\ inquiry[g].at = "asking" => inquiry'[g].at = "asking"
  <2>1. /\ inquiry[g].key \in Keys
        /\ inquiry[g].ref \in Requests
        /\ payments[inquiry[g].key].id = inquiry[g].ref
        /\ inquiry[g].at # "asking" => Truthful(inquiry[g].ref, inquiry[g].answer)
    BY <1>0, <1>2 DEF InquiryIsTrue
  <2>2. payments'[inquiry[g].key].id = inquiry[g].ref
    BY <2>1, IdIsKept
  <2>3. inquiry'[g].at # "asking" =>
            /\ inquiry[g].answer = "Succeeded" => charge'[inquiry[g].ref] = "succeeded"
            /\ inquiry[g].answer = "Failed" => charge'[inquiry[g].ref] = "failed"
    BY <1>2, <2>1, SettledIsKept DEF Truthful
  <2> QED
    BY <1>2, <2>1, <2>2, <2>3 DEF InquiryIsTrue, Truthful
<1>3. CASE inquiry[g].at = "idle" /\ inquiry'[g] = inquiry[g]
  BY <1>3 DEF InquiryIsTrue
<1>4. CASE inquiry[g].at # "idle" /\ inquiry'[g] = inquiry[g]
  BY <1>2, <1>4
<1>5. CASE inquiry[g].at = "answered" /\ inquiry'[g] = [inquiry[g] EXCEPT !.at = "writing"]
  BY <1>0, <1>2, <1>5 DEF Inquiry
<1> QED
  BY <1>1, <1>3, <1>4, <1>5 DEF InquiryGoesOn

(* No step leaves an inquiry about another payment than the one its        *)
(* reference belongs to, or with an answer that is false.                  *)
LEMMA InquiriesStayTrue ==
    ASSUME BaseInv, BaseStep
    PROVE  InquiriesAreTrue'
<1> USE GatewayAssumption
<1>0. BaseTypeOK /\ \A g \in Inquirers : InquiryIsTrue(g)
  BY DEF BaseInv, Coherent, InquiriesAreTrue, InquiryIsTrue
<1> SUFFICES ASSUME NEW g \in Inquirers PROVE InquiryIsTrue(g)'
  BY DEF InquiriesAreTrue, InquiryIsTrue
<1>1. CASE InquiryGoesOn(g)
  BY <1>1, InquiryStaysTrue
<1>2. ASSUME NEW k \in Keys, GetStart(g, k) \/ ReconcileStart(g, k)
      PROVE  InquiryIsTrue(g)'
  <2>1. /\ HasRow(k)
        /\ payments[k].reference # None
        /\ StartInquiry(g, k)
    BY <1>2 DEF GetStart, ReconcileStart, GetAsks, StaleUnknown
  <2>2. payments[k].id \in Requests /\ payments[k].reference = payments[k].id
    BY <1>0, <2>1 DEF HasRow, BaseTypeOK, Row, BaseInv, Coherent, RowsHaveOwners
  <2>3. /\ inquiry' = [inquiry EXCEPT ![g] =
              [at |-> "asking", key |-> k, ref |-> payments[k].reference,
               was |-> payments[k].status, answer |-> "Unknown"]]
        /\ UNCHANGED payments
    BY <2>1 DEF StartInquiry
  <2>4. /\ inquiry'[g].at = "asking"
        /\ inquiry'[g].key = k
        /\ inquiry'[g].ref = payments[k].id
    BY <1>0, <2>2, <2>3 DEF BaseTypeOK
  <2> QED
    BY <2>2, <2>3, <2>4 DEF InquiryIsTrue
<1>3. CASE InquiryAnswered(g)
  <2>1. PICK s \in Reportable(inquiry[g].ref) :
            inquiry' = [inquiry EXCEPT ![g].at = "answered", ![g].answer = s]
    BY <1>3 DEF InquiryAnswered
  <2>2. /\ inquiry[g].at = "asking"
        /\ UNCHANGED <<payments, charge>>
    BY <1>3 DEF InquiryAnswered
  <2>3. /\ inquiry[g].key \in Keys
        /\ inquiry[g].ref \in Requests
        /\ payments[inquiry[g].key].id = inquiry[g].ref
    BY <1>0, <2>2 DEF InquiryIsTrue
  <2>4. Truthful(inquiry[g].ref, s)
    BY <2>3, ReportableIsTruthful
  <2>5. inquiry[g] \in Inquiry
    BY <1>0 DEF BaseTypeOK
  <2>6. /\ inquiry'[g].key = inquiry[g].key
        /\ inquiry'[g].ref = inquiry[g].ref
        /\ inquiry'[g].answer = s
    BY <1>0, <2>1, <2>5 DEF BaseTypeOK, Inquiry
  <2> QED
    BY <2>2, <2>3, <2>4, <2>6 DEF InquiryIsTrue, Truthful
<1>4. CASE InquiryDropped(g)
  BY <1>0, <1>1, <1>4 DEF InquiryDropped, InquiryGoesOn, BaseTypeOK
<1>5. ASSUME NEW h \in Inquirers \ {g},
             \/ \E k \in Keys : GetStart(h, k) \/ ReconcileStart(h, k)
             \/ InquiryAnswered(h)
             \/ InquiryDropped(h)
      PROVE  inquiry'[g] = inquiry[g]
  BY <1>0, <1>5 DEF GetStart, ReconcileStart, StartInquiry, InquiryAnswered,
                    InquiryDropped, BaseTypeOK
<1>6. CASE InquiryStep
  BY <1>1, <1>2, <1>3, <1>4, <1>5, <1>6 DEF InquiryStep, InquiryGoesOn
<1>7. CASE UNCHANGED inquiry \/ StoreStep
  BY <1>1, <1>7 DEF StoreStep, InquiryGoesOn
<1>8. InquiryStep \/ UNCHANGED inquiry \/ StoreStep
  BY DEF BaseStep, Begin, BeginProceed, BeginReturnExisting, BeginConflict,
         CancelCreate, Provider, AcceptCharge, RefuseCharge, SettleCharge, EmitEvent
<1> QED
  BY <1>6, <1>7, <1>8

------------------------------------------------------------------------------
(* Replays, and the induction step. *)

(* Every replay has been answered from an identical request, and every     *)
(* conflict is one, after any step.                                        *)
LEMMA ReplaysStaySame ==
    ASSUME BaseInv, BaseStep
    PROVE  ReplayIsSameRequest'
<1> USE GatewayAssumption
<1>0. BaseTypeOK
  BY DEF BaseInv
<1>1. ASSUME NEW w \in Requests, pc[w] \in Proceeded PROVE pc'[w] \in Proceeded
  BY <1>1, ProceededIsKept
<1>2. ASSUME NEW r \in Requests, pc'[r] \in {"existing", "conflict"}, pc'[r] # pc[r]
      PROVE  BeginReturnExisting(r) \/ BeginConflict(r)
  BY <1>0, <1>2 DEF BaseStep, Begin, BeginProceed, BeginReturnExisting,
        BeginConflict, CancelCreate, InquiryStep, GetStart, ReconcileStart,
        StartInquiry, InquiryAnswered, InquiryDropped, Provider, AcceptCharge,
        RefuseCharge, SettleCharge, EmitEvent, StoreStep, RepliesKept, BaseTypeOK
<1>3. ASSUME NEW r \in Requests, ~MayProceed(r)
      PROVE  /\ payments[KeyOf[r]].id \in Requests
             /\ KeyOf[payments[KeyOf[r]].id] = KeyOf[r]
             /\ BodyOf[payments[KeyOf[r]].id] = payments[KeyOf[r]].fingerprint
             /\ pc[payments[KeyOf[r]].id] \in Proceeded
  BY <1>0, <1>3 DEF MayProceed, HasRow, BaseTypeOK, Row,
                    BaseInv, Coherent, RowsHaveOwners
<1> SUFFICES ASSUME NEW r \in Requests
             PROVE  /\ pc'[r] = "existing" =>
                          \E w \in Requests : /\ KeyOf[w] = KeyOf[r]
                                              /\ BodyOf[w] = BodyOf[r]
                                              /\ pc'[w] \in Proceeded
                    /\ pc'[r] = "conflict" =>
                          \E w \in Requests : /\ KeyOf[w] = KeyOf[r]
                                              /\ BodyOf[w] # BodyOf[r]
                                              /\ pc'[w] \in Proceeded
  BY DEF ReplayIsSameRequest
<1>4. CASE pc'[r] = pc[r]
  BY <1>1, <1>4 DEF BaseInv, ReplayIsSameRequest
<1>5. CASE BeginReturnExisting(r)
  BY <1>0, <1>1, <1>3, <1>5 DEF BeginReturnExisting, SameRequest, BaseTypeOK
<1>6. CASE BeginConflict(r)
  BY <1>0, <1>1, <1>3, <1>6 DEF BeginConflict, SameRequest, BaseTypeOK
<1> QED
  BY <1>2, <1>4, <1>5, <1>6

(* BaseInv is inductive: the one step that inserts a row and the quiet     *)
(* steps both keep it.                                                     *)
LEMMA BaseStepKeepsInv ==
    ASSUME BaseInv, BaseStep
    PROVE  BaseInv'
<1>1. BaseTypeOK'
  BY BaseStepTypes
<1>2. /\ RowsHaveOwners' /\ OwnersHaveRows' /\ ChargesHaveOwners'
      /\ StoredOutcomeIsTrue' /\ SettledHasNoAction'
  <2>1. CASE \E r \in Requests : BeginProceed(r)
    BY <1>1, <2>1, BeginProceedKeeps
  <2>2. CASE ~\E r \in Requests : BeginProceed(r)
    BY <1>1, <2>2, BaseStepQuiet, QuietKeeps
  <2> QED
    BY <2>1, <2>2
<1> QED
  BY <1>1, <1>2, EventsStayTrue, InquiriesStayTrue, ReplaysStaySame DEF BaseInv, Coherent

(* A step that changes nothing is a step of the store too. *)
LEMMA StutterIsStoreStep ==
    ASSUME BaseInv,
           UNCHANGED <<payments, webhook_events, pc, charge, event, inquiry>>
    PROVE  StoreStep
BY DEF StoreStep, RowsTouched, HandlersKept, RepliesKept, InquiryGoesOn,
       BaseInv, BaseTypeOK

(* However many calls share an Idempotency-Key, at most one of them ever   *)
(* reaches the provider: its row names one handler (begin_payment).        *)
LEMMA OneChargePerKey ==
    ASSUME BaseInv
    PROVE  AtMostOneCharge
<1> SUFFICES ASSUME NEW r1 \in Requests, NEW r2 \in Requests,
                    r1 # r2, KeyOf[r1] = KeyOf[r2],
                    charge[r1] # "none", charge[r2] # "none"
             PROVE  FALSE
  BY DEF AtMostOneCharge
<1>1. pc[r1] \in Proceeded /\ pc[r2] \in Proceeded
  BY DEF BaseInv, Coherent, ChargesHaveOwners
<1>2. payments[KeyOf[r1]].id = r1 /\ payments[KeyOf[r2]].id = r2
  BY <1>1 DEF BaseInv, Coherent, OwnersHaveRows
<1> QED
  BY <1>2

==============================================================================
