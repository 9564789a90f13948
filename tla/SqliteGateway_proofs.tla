------------------------ MODULE SqliteGateway_proofs -------------------------
(***************************************************************************)
(* The safety invariants of SqliteGateway hold for any number of requests, *)
(* keys, inquirers and events, and it implements PaymentPromise.  To what  *)
(* GatewayBase_proofs says of either store, this store adds that rows only *)
(* move along the state machine (Moves): it reads the row again under its  *)
(* lock before it writes.                                                  *)
(***************************************************************************)
EXTENDS SqliteGateway, GatewayBase_proofs

IInv == BaseInv /\ ConsumedEventIsApplied

(* The row of k takes a legal step, and no other row changes. *)
Moves(k) == Touches(k) /\ ValidTransition(payments[k].status, payments'[k].status)

OnlyRowMoves(k) ==
    /\ k \in Keys
    /\ payments'[k] = payments[k] \/ Moves(k)
    /\ \A j \in Keys \ {k} : payments'[j] = payments[j]

(* The initial state satisfies the inductive invariant. *)
LEMMA InitIInv == Init => IInv
BY BaseInitInv DEF Init, IInv, BaseInit, ConsumedEventIsApplied

------------------------------------------------------------------------------
(* The store operations of the SQLite backend. *)

(* A table that is left alone, or moves in one row, is as StoreStep wants  *)
(* it.                                                                     *)
LEMMA SameTableMoves ==
    ASSUME BaseInv, NEW k \in Keys, UNCHANGED payments
    PROVE  payments' \in [Keys -> Row] /\ RowsTouched /\ OnlyRowMoves(k)
BY DEF BaseInv, BaseTypeOK, RowsTouched, OnlyRowMoves

(* A validated status write with a true final status is a legal move of    *)
(* its row, and leaves every other row alone: what apply_sqlite_transition *)
(* and update_status_only have in common.                                  *)
LEMMA ValidatedWriteMoves ==
    ASSUME BaseInv,
           NEW k \in Keys, payments[k].id # None,
           NEW s \in Reported,
           ValidTransition(payments[k].status, s),
           s = "Succeeded" => charge[payments[k].id] = "succeeded",
           s = "Failed" => charge[payments[k].id] \in {"failed", "refused"},
           payments' = SetStatus(k, s)
    PROVE  payments' \in [Keys -> Row] /\ RowsTouched /\ OnlyRowMoves(k)
BY StatusWriteTouches DEF OnlyRowMoves, Moves

(* update_status_only on the row of the handler that calls it, with a      *)
(* status that is true, is a legal move or leaves the table alone.         *)
LEMMA UpdateStatusOnlyMoves ==
    ASSUME BaseInv, NEW r \in Requests, pc[r] = "calling",
           NEW s \in {"Failed", "Unknown"},
           s = "Failed" => charge[r] = "refused",
           UpdateStatusOnly(KeyOf[r], s)
    PROVE  payments' \in [Keys -> Row] /\ RowsTouched /\ OnlyRowMoves(KeyOf[r])
<1> DEFINE k == KeyOf[r]
<1>1. k \in Keys
  BY GatewayAssumption
<1>2. payments[k].id = r
  BY DEF BaseInv, Coherent, OwnersHaveRows, Proceeded
<1>3. r # None
  BY GatewayAssumption
<1>4. CASE payments' = payments
  BY <1>1, <1>4, SameTableMoves
<1>5. CASE ValidTransition(payments[k].status, s) /\ payments' = SetStatus(k, s)
  <2>1. s \in Reported /\ s # "Succeeded"
    BY DEF Reported
  <2> QED
    BY <1>1, <1>2, <1>3, <1>5, <2>1, ValidatedWriteMoves
<1> QED
  BY <1>4, <1>5 DEF UpdateStatusOnly

(* apply_sqlite_transition with a true report about the row's own charge   *)
(* is a legal move or leaves the table alone.                              *)
LEMMA ApplyTransitionMoves ==
    ASSUME BaseInv, NEW k \in Keys, payments[k].id \in Requests,
           NEW s \in Reported, Truthful(payments[k].id, s),
           payments' = ApplyTransition(k, s)
    PROVE  payments' \in [Keys -> Row] /\ RowsTouched /\ OnlyRowMoves(k)
<1>1. CASE payments' = payments
  BY <1>1, SameTableMoves
<1>2. CASE ValidTransition(payments[k].status, s) /\ payments' = SetStatus(k, s)
  <2>1. payments[k].id # None
    BY GatewayAssumption
  <2> QED
    BY <1>2, <2>1, ValidatedWriteMoves DEF Truthful
<1> QED
  BY <1>1, <1>2 DEF ApplyTransition

(* record_creation_result, mark_terminal_without_provider_reference and    *)
(* mark_unknown are steps of the store in the handler's own row.           *)
LEMMA CreateEndsInStoreStep ==
    ASSUME BaseInv, NEW r \in Requests,
           RecordCreation(r) \/ MarkFailed(r) \/ MarkUnknown(r)
    PROVE  StoreStep /\ OnlyRowMoves(KeyOf[r])
<1>1. /\ BaseTypeOK
      /\ KeyOf[r] \in Keys
      /\ pc[r] = "calling"
      /\ UNCHANGED <<webhook_events, charge, event, inquiry>>
  BY GatewayAssumption DEF BaseInv, RecordCreation, MarkFailed, MarkUnknown
<1>2. payments' \in [Keys -> Row] /\ RowsTouched /\ OnlyRowMoves(KeyOf[r])
  <2>1. CASE RecordCreation(r)
    <3>1. CASE payments' = payments
      BY <1>1, <3>1, SameTableMoves
    <3>2. CASE \E s \in CreationStatuses, action \in BOOLEAN :
                  /\ ValidTransition(payments[KeyOf[r]].status, s)
                  /\ payments' = [payments EXCEPT ![KeyOf[r]].reference = r,
                                                  ![KeyOf[r]].status = s,
                                                  ![KeyOf[r]].next_action = action]
      <4>1. PICK s \in CreationStatuses, action \in BOOLEAN :
                /\ ValidTransition(payments[KeyOf[r]].status, s)
                /\ payments' = [payments EXCEPT ![KeyOf[r]].reference = r,
                                                ![KeyOf[r]].status = s,
                                                ![KeyOf[r]].next_action = action]
        BY <3>2
      <4>2. /\ payments' \in [Keys -> Row] /\ RowsTouched /\ Touches(KeyOf[r])
            /\ payments'[KeyOf[r]].status = s
            /\ \A j \in Keys \ {KeyOf[r]} : payments'[j] = payments[j]
        BY <1>1, <4>1, CreationWriteTouches
      <4> QED
        BY <1>1, <4>1, <4>2 DEF OnlyRowMoves, Moves
    <3> QED
      BY <2>1, <3>1, <3>2 DEF RecordCreation
  <2>2. CASE MarkFailed(r)
    BY <2>2, UpdateStatusOnlyMoves DEF MarkFailed
  <2>3. CASE MarkUnknown(r)
    BY <2>3, UpdateStatusOnlyMoves DEF MarkUnknown
  <2> QED
    BY <2>1, <2>2, <2>3
<1>3. pc' \in [Requests -> Handler] /\ HandlersKept /\ RepliesKept
  BY <1>1 DEF RecordCreation, MarkFailed, MarkUnknown, HandlersKept, RepliesKept,
              Handler, Proceeded, BaseTypeOK
<1> QED
  BY <1>1, <1>2, <1>3 DEF StoreStep, InquiryGoesOn, BaseTypeOK

(* apply_webhook_event moves the row the event is about, and no other. *)
LEMMA WebhookIsStoreStep ==
    ASSUME BaseInv, NEW e \in EventIds, ApplyWebhookEvent(e)
    PROVE  StoreStep /\ \E k \in Keys : OnlyRowMoves(k)
<1>0. BaseTypeOK
  BY DEF BaseInv
<1>1. /\ event[e].ref \in Requests
      /\ event[e].status \in Reported
      /\ Truthful(event[e].ref, event[e].status)
  BY <1>0 DEF BaseTypeOK, Event, BaseInv, Coherent, EventsAreTrue, ApplyWebhookEvent
<1>2. PICK k \in FindByReference(event[e].ref) :
          payments' = IF event[e].mismatch THEN payments
                      ELSE ApplyTransition(k, event[e].status)
  BY DEF ApplyWebhookEvent
<1>3. k \in Keys /\ payments[k].id = event[e].ref
  BY <1>1, GatewayAssumption
  DEF FindByReference, BaseInv, Coherent, RowsHaveOwners, NoRow
<1>4. payments' \in [Keys -> Row] /\ RowsTouched /\ OnlyRowMoves(k)
  <2>1. CASE payments' = payments
    BY <1>3, <2>1, SameTableMoves
  <2>2. CASE payments' = ApplyTransition(k, event[e].status)
    BY <1>1, <1>3, <2>2, ApplyTransitionMoves
  <2> QED
    BY <1>2, <2>1, <2>2
<1> QED
  BY <1>0, <1>3, <1>4 DEF ApplyWebhookEvent, StoreStep, HandlersKept, RepliesKept,
                          InquiryGoesOn, BaseTypeOK

(* apply_reconciliation_result moves the row that was asked about. *)
LEMMA ReconciliationIsStoreStep ==
    ASSUME BaseInv, NEW g \in Inquirers, ApplyReconciliation(g)
    PROVE  StoreStep /\ OnlyRowMoves(inquiry[g].key)
<1>0. BaseTypeOK
  BY DEF BaseInv
<1>1. /\ inquiry[g].key \in Keys
      /\ inquiry[g].ref \in Requests
      /\ payments[inquiry[g].key].id = inquiry[g].ref
      /\ Truthful(inquiry[g].ref, inquiry[g].answer)
  BY DEF BaseInv, Coherent, InquiriesAreTrue, ApplyReconciliation
<1>2. inquiry[g].answer \in Reported
  BY <1>0 DEF BaseTypeOK, Inquiry
<1>3. payments' \in [Keys -> Row] /\ RowsTouched /\ OnlyRowMoves(inquiry[g].key)
  BY <1>1, <1>2, ApplyTransitionMoves DEF ApplyReconciliation
<1>4. inquiry' \in [Inquirers -> Inquiry] /\ \A h \in Inquirers : InquiryGoesOn(h)
  BY <1>0 DEF ApplyReconciliation, InquiryGoesOn, BaseTypeOK, NoInquiry, Inquiry,
              Statuses, Reported
<1> QED
  BY <1>0, <1>3, <1>4 DEF ApplyReconciliation, StoreStep, HandlersKept,
                          RepliesKept, BaseTypeOK

------------------------------------------------------------------------------
(* Every step is a step of either store. *)
LEMMA NextIsBaseStep ==
    ASSUME BaseInv, Next
    PROVE  BaseStep
<1>1. ASSUME NEW r \in Requests, Create(r) PROVE BaseStep
  BY <1>1, CreateEndsInStoreStep DEF Create, BaseStep
<1>2. ASSUME NEW e \in EventIds, ApplyWebhookEvent(e) PROVE BaseStep
  BY <1>2, WebhookIsStoreStep DEF BaseStep
<1>3. ASSUME NEW g \in Inquirers, Inquire(g) PROVE BaseStep
  BY <1>3, ReconciliationIsStoreStep DEF Inquire, BaseStep, InquiryStep
<1> QED
  BY <1>1, <1>2, <1>3 DEF Next, BaseStep

(* Every row is left alone, is inserted, or moves along the state machine. *)
LEMMA NextMovesRows ==
    ASSUME BaseInv, Next, NEW k \in Keys
    PROVE  payments'[k] = payments[k] \/ Moves(k) \/ payments[k].id = None
<1>1. ASSUME NEW j \in Keys, OnlyRowMoves(j) PROVE payments'[k] = payments[k] \/ Moves(k)
  BY <1>1 DEF OnlyRowMoves
<1>2. ASSUME NEW r \in Requests, Create(r)
      PROVE  payments'[k] = payments[k] \/ Moves(k) \/ payments[k].id = None
  <2>1. CASE BeginProceed(r)
    BY <2>1 DEF BeginProceed, MayProceed, HasRow, BaseInv, BaseTypeOK
  <2>2. CASE RecordCreation(r) \/ MarkFailed(r) \/ MarkUnknown(r)
    BY <1>1, <2>2, CreateEndsInStoreStep, GatewayAssumption
  <2> QED
    BY <1>2, <2>1, <2>2 DEF Create, Begin, BeginReturnExisting, BeginConflict, CancelCreate
<1>3. ASSUME NEW e \in EventIds, ApplyWebhookEvent(e)
      PROVE  payments'[k] = payments[k] \/ Moves(k)
  BY <1>1, <1>3, WebhookIsStoreStep
<1>4. ASSUME NEW g \in Inquirers, Inquire(g)
      PROVE  payments'[k] = payments[k] \/ Moves(k)
  BY <1>1, <1>4, ReconciliationIsStoreStep
  DEF Inquire, GetStart, ReconcileStart, StartInquiry, InquiryAnswered,
      InquiryDropped, OnlyRowMoves
<1> QED
  BY <1>2, <1>3, <1>4 DEF Next, Provider, AcceptCharge, RefuseCharge, SettleCharge, EmitEvent

(* A final status of a row stays. *)
LEMMA FinalStays ==
    ASSUME BaseInv, Next, NEW k \in Keys, payments[k].status \in {"Succeeded", "Failed"}
    PROVE  payments'[k].status = payments[k].status
<1>1. payments[k].id # None
  BY DEF BaseInv, Coherent, RowsHaveOwners, NoRow
<1> QED
  BY <1>1, NextMovesRows DEF Moves, Touches, ValidTransition, Reported

(* Only apply_webhook_event records an event id. *)
LEMMA NextKeepsConsumed ==
    ASSUME Next
    PROVE  \/ UNCHANGED webhook_events
           \/ \E e \in EventIds : ApplyWebhookEvent(e)
BY DEF Next, Create, Begin, BeginProceed, BeginReturnExisting, BeginConflict,
       CancelCreate, RecordCreation, MarkFailed, MarkUnknown,
       Inquire, GetStart, ReconcileStart, StartInquiry, InquiryAnswered,
       InquiryDropped, ApplyReconciliation, Provider, AcceptCharge,
       RefuseCharge, SettleCharge, EmitEvent

(* Every event id in webhook_events has had its effect, after any step. *)
LEMMA NextConsumedEventIsApplied ==
    ASSUME IInv, Next
    PROVE  ConsumedEventIsApplied'
<1> USE GatewayAssumption
<1>0. BaseInv /\ BaseTypeOK /\ BaseStep
  BY NextIsBaseStep DEF IInv, BaseInv
<1>1. ASSUME NEW e \in webhook_events, event'[e].status \in {"Succeeded", "Failed"},
             ~event'[e].mismatch
      PROVE  payments'[KeyOf[event'[e].ref]].status = event'[e].status
  <2>1. e \in EventIds
    BY <1>0 DEF BaseTypeOK
  <2>2. event'[e] = event[e]
    BY <1>0, <2>1, EventsAreKept
    DEF BaseInv, Coherent, EventsAreTrue, EmitEvent, BaseTypeOK
  <2>3. event[e].ref \in Requests
    BY <1>0, <2>1 DEF BaseInv, Coherent, EventsAreTrue
  <2>4. payments[KeyOf[event[e].ref]].status = event[e].status
    BY <1>1, <2>2 DEF IInv, ConsumedEventIsApplied
  <2> QED
    BY <1>0, <1>1, <2>2, <2>3, <2>4, FinalStays
<1>2. ASSUME NEW e \in EventIds, ApplyWebhookEvent(e),
             event[e].status \in {"Succeeded", "Failed"}, ~event[e].mismatch
      PROVE  payments'[KeyOf[event[e].ref]].status = event[e].status
  <2> DEFINE s == event[e].status
  <2>1. event[e].ref \in Requests /\ Truthful(event[e].ref, s)
    BY <1>0, <1>2 DEF BaseInv, Coherent, EventsAreTrue, ApplyWebhookEvent
  <2>2. PICK k \in FindByReference(event[e].ref) : payments' = ApplyTransition(k, s)
    BY <1>2 DEF ApplyWebhookEvent
  <2>3. /\ k \in Keys
        /\ payments[k].id = event[e].ref
        /\ payments[k].id # None
        /\ KeyOf[event[e].ref] = k
        /\ payments[k].status \in Reported
    BY <1>0, <2>1 DEF FindByReference, BaseInv, Coherent, RowsHaveOwners, NoRow
  <2>4. ValidTransition(payments[k].status, s)
    BY <1>0, <1>2, <2>1, <2>3 DEF Truthful, BaseInv, StoredOutcomeIsTrue, HasRow,
                            Reported, ValidTransition
  <2>5. CASE payments[k].status = s
    BY <2>2, <2>3, <2>5 DEF ApplyTransition
  <2>6. CASE payments[k].status # s
    <3>1. payments' = SetStatus(k, s)
      BY <2>2, <2>4, <2>6 DEF ApplyTransition
    <3>2. s \in Statuses
      BY <1>2 DEF Statuses
    <3> QED
      BY <1>0, <2>3, <3>1, <3>2, SetStatusWrites DEF BaseTypeOK
  <2> QED
    BY <2>5, <2>6
<1>3. CASE UNCHANGED webhook_events
  BY <1>1, <1>3 DEF ConsumedEventIsApplied
<1>4. CASE \E e \in EventIds : ApplyWebhookEvent(e)
  <2>1. PICK e \in EventIds : ApplyWebhookEvent(e)
    BY <1>4
  <2>2. webhook_events' = webhook_events \union {e} /\ UNCHANGED event
    BY <2>1 DEF ApplyWebhookEvent
  <2> QED
    BY <1>1, <1>2, <2>1, <2>2 DEF ConsumedEventIsApplied
<1> QED
  BY <1>3, <1>4, NextKeepsConsumed

------------------------------------------------------------------------------
(* IInv is inductive. *)
LEMMA NextIInv == IInv /\ [Next]_vars => IInv'
<1> SUFFICES ASSUME IInv, [Next]_vars PROVE IInv'
  OBVIOUS
<1>1. CASE Next
  BY <1>1, NextIsBaseStep, BaseStepKeepsInv, NextConsumedEventIsApplied DEF IInv
<1>2. CASE UNCHANGED vars
  <2>1. BaseInv'
    BY <1>2, StutterIsStoreStep, BaseStepKeepsInv DEF IInv, vars, BaseStep
  <2>2. ConsumedEventIsApplied'
    BY <1>2 DEF IInv, ConsumedEventIsApplied, vars
  <2> QED
    BY <2>1, <2>2 DEF IInv
<1> QED
  BY <1>1, <1>2

(* IInv holds in every reachable state. *)
LEMMA AlwaysIInv == Spec => []IInv
BY InitIInv, NextIInv, PTL DEF Spec

(* Every variable keeps its type, whatever the store operations, adapters  *)
(* and handlers do.                                                        *)
THEOREM TypeCorrect == Spec => []TypeOK
<1>1. IInv => TypeOK
  BY DEF IInv, BaseInv, TypeOK
<1> QED
  BY <1>1, AlwaysIInv, PTL

(* Rows, handlers, charges, events and inquiries always agree about who    *)
(* owns which payment.                                                     *)
THEOREM AlwaysCoherent == Spec => []Coherent
<1>1. IInv => Coherent
  BY DEF IInv, BaseInv
<1> QED
  BY <1>1, AlwaysIInv, PTL

(* However many calls share an Idempotency-Key, at most one of them ever   *)
(* reaches the provider: its row names one handler (begin_payment).        *)
THEOREM NoDoubleCharge == Spec => []AtMostOneCharge
<1>1. IInv => AtMostOneCharge
  BY OneChargePerKey DEF IInv
<1> QED
  BY <1>1, AlwaysIInv, PTL

(* A replay is answered from an identical request, a conflict only         *)
(* reported for a different one (begin_payment's fingerprint comparison).  *)
THEOREM ReplaysAreHonest == Spec => []ReplayIsSameRequest
<1>1. IInv => ReplayIsSameRequest
  BY DEF IInv, BaseInv
<1> QED
  BY <1>1, AlwaysIInv, PTL

(* What the store shows as the outcome of a payment is the outcome at the  *)
(* provider, whoever wrote it and however late.                            *)
THEOREM OutcomesAreTrue == Spec => []StoredOutcomeIsTrue
<1>1. IInv => StoredOutcomeIsTrue
  BY DEF IInv, BaseInv
<1> QED
  BY <1>1, AlwaysIInv, PTL

(* No final event is lost by the deduplication of apply_webhook_event. *)
THEOREM NoEventLost == Spec => []ConsumedEventIsApplied
<1>1. IInv => ConsumedEventIsApplied
  BY DEF IInv
<1> QED
  BY <1>1, AlwaysIInv, PTL

(* A settled payment shows the customer no next action. *)
THEOREM NothingLeftToDo == Spec => []SettledHasNoAction
<1>1. IInv => SettledHasNoAction
  BY DEF IInv, BaseInv
<1> QED
  BY <1>1, AlwaysIInv, PTL

------------------------------------------------------------------------------
(* Refinement: the gateway implements PaymentPromise. *)

(* The empty table maps to the initial state of PaymentPromise. *)
LEMMA InitPromise == Init => Promise!Init
BY DEF Init, BaseInit, Promise!Init, Shown, Truth, ChargeOf, HasRow, NoRow

(* A step that leaves the status, the id and the charge behind every row   *)
(* as they were is invisible to the merchant.                              *)
LEMMA PromiseStutters ==
    ASSUME \A k \in Keys : /\ payments'[k].id = payments[k].id
                           /\ payments'[k].status = payments[k].status,
           UNCHANGED charge
    PROVE  UNCHANGED Promise!vars
BY DEF Promise!vars, Shown, Truth, ChargeOf, HasRow

(* A legal move of one row, with the charges as they were, is a Learn step *)
(* or invisible.                                                           *)
LEMMA PromiseLearns ==
    ASSUME BaseInv, NEW k \in Keys, OnlyRowMoves(k), UNCHANGED charge
    PROVE  [Promise!Next]_(Promise!vars)
<1>1. CASE payments'[k].status = payments[k].status
  <2>1. \A j \in Keys : /\ payments'[j].id = payments[j].id
                        /\ payments'[j].status = payments[j].status
    BY <1>1 DEF OnlyRowMoves, Moves, Touches
  <2> QED
    BY <2>1, PromiseStutters
<1>2. CASE payments'[k].status # payments[k].status
  <2>1. Moves(k) /\ \A j \in Keys \ {k} : payments'[j] = payments[j]
    BY <1>2 DEF OnlyRowMoves
  <2> DEFINE s == payments'[k].status
  <2>2. /\ Shown[k] = payments[k].status
        /\ Shown[k] # "Absent"
        /\ s \in Statuses \ {Shown[k]}
        /\ ValidTransition(Shown[k], s)
    BY <1>2, <2>1 DEF Shown, HasRow, Moves, Touches, BaseInv, Coherent, RowsHaveOwners,
                      Reported, Statuses
  <2>3. Shown' = [Shown EXCEPT ![k] = s]
    BY <2>1 DEF Shown, HasRow, Moves, Touches
  <2>4. Truth' = Truth
    BY <2>1 DEF Truth, ChargeOf, HasRow, Moves, Touches
  <2>5. /\ s = "Succeeded" => Truth[k] = "succeeded"
        /\ s = "Failed" => Truth[k] \in {"failed", "refused"}
    BY <2>1 DEF Truth, ChargeOf, HasRow, Moves, Touches
  <2>6. Promise!Learn(k)
    BY <2>2, <2>3, <2>4, <2>5
    DEF Promise!Learn, Promise!Statuses, Statuses, Promise!ValidTransition, ValidTransition
  <2> QED
    BY <2>6 DEF Promise!Next
<1> QED
  BY <1>1, <1>2

(* Every step of the gateway is a step of PaymentPromise or invisible in it. *)
LEMMA NextPromise ==
    ASSUME BaseInv, Next
    PROVE  [Promise!Next]_(Promise!vars)
<1> USE GatewayAssumption
<1>0. BaseTypeOK
  BY DEF BaseInv
<1>1. ASSUME NEW r \in Requests, BeginProceed(r) PROVE Promise!Accept(KeyOf[r])
  <2>1. /\ payments[KeyOf[r]].id = None
        /\ payments'[KeyOf[r]].id = r
        /\ payments'[KeyOf[r]].status = "Pending"
        /\ \A j \in Keys \ {KeyOf[r]} : payments'[j] = payments[j]
        /\ charge'[r] = "sent"
        /\ \A w \in Requests \ {r} : charge'[w] = charge[w]
    BY <1>0, <1>1 DEF BeginProceed, MayProceed, HasRow, BaseTypeOK
  <2>2. \A j \in Keys : /\ payments[j].id \in Requests \union {None}
                        /\ j # KeyOf[r] => payments[j].id # r
    BY <1>0 DEF BaseTypeOK, Row, BaseInv, Coherent, RowsHaveOwners
  <2>3. Shown[KeyOf[r]] = "Absent" /\ Shown' = [Shown EXCEPT ![KeyOf[r]] = "Pending"]
    BY <2>1 DEF Shown, HasRow
  <2>4. Truth' = Truth
    BY <2>1, <2>2 DEF Truth, ChargeOf, HasRow
  <2> QED
    BY <2>3, <2>4 DEF Promise!Accept
<1>2. ASSUME NEW r \in Requests, NEW c, charge[r] # "none",
             charge' = [charge EXCEPT ![r] = c], c # "sent", UNCHANGED payments
      PROVE  /\ HasRow(KeyOf[r]) /\ KeyOf[r] \in Keys
             /\ ChargeOf(KeyOf[r]) = charge[r]
             /\ Shown' = Shown
             /\ Truth' = [Truth EXCEPT ![KeyOf[r]] = c]
  <2>1. payments[KeyOf[r]].id = r
    BY <1>2 DEF BaseInv, Coherent, ChargesHaveOwners, OwnersHaveRows
  <2>2. \A j \in Keys : /\ payments[j].id \in Requests \union {None}
                        /\ j # KeyOf[r] => payments[j].id # r
    BY <1>0 DEF BaseTypeOK, Row, BaseInv, Coherent, RowsHaveOwners
  <2>3. charge'[r] = c /\ \A w \in Requests \ {r} : charge'[w] = charge[w]
    BY <1>0, <1>2 DEF BaseTypeOK
  <2>4. HasRow(KeyOf[r]) /\ KeyOf[r] \in Keys /\ ChargeOf(KeyOf[r]) = charge[r]
    BY <2>1 DEF HasRow, ChargeOf
  <2>5. Shown' = Shown
    BY <1>2 DEF Shown, HasRow
  <2>6. \A j \in Keys \ {KeyOf[r]} : ChargeOf(j)' = ChargeOf(j)
    BY <1>2, <2>2, <2>3 DEF ChargeOf, HasRow
  <2>7. ChargeOf(KeyOf[r])' = c
    BY <1>2, <2>1, <2>3 DEF ChargeOf, HasRow
  <2>8. Truth' = [Truth EXCEPT ![KeyOf[r]] = c]
    BY <1>2, <2>4, <2>6, <2>7 DEF Truth
  <2> QED
    BY <2>4, <2>5, <2>8
<1>3. ASSUME NEW r \in Requests, AcceptCharge(r) PROVE Promise!Take(KeyOf[r])
  <2>1. /\ charge[r] = "sent"
        /\ HasRow(KeyOf[r]) /\ KeyOf[r] \in Keys
        /\ ChargeOf(KeyOf[r]) = "sent"
        /\ Shown' = Shown
        /\ Truth' = [Truth EXCEPT ![KeyOf[r]] = "open"]
    BY <1>2, <1>3 DEF AcceptCharge
  <2>2. payments[KeyOf[r]].status \in Open
    BY <2>1 DEF ChargeOf, HasRow, BaseInv, StoredOutcomeIsTrue, Coherent,
                RowsHaveOwners, Reported, Open
  <2> QED
    BY <2>1, <2>2 DEF Promise!Take, Promise!Open, Open, Shown, Truth
<1>4. ASSUME NEW r \in Requests, RefuseCharge(r) PROVE Promise!Refuse(KeyOf[r])
  <2>1. /\ charge[r] = "sent"
        /\ KeyOf[r] \in Keys
        /\ ChargeOf(KeyOf[r]) = "sent"
        /\ Shown' = Shown
        /\ Truth' = [Truth EXCEPT ![KeyOf[r]] = "refused"]
    BY <1>2, <1>4 DEF RefuseCharge
  <2> QED
    BY <2>1 DEF Promise!Refuse, Truth
<1>5. ASSUME NEW r \in Requests, SettleCharge(r) PROVE Promise!Settle(KeyOf[r])
  <2>1. PICK o \in {"succeeded", "failed"} : charge' = [charge EXCEPT ![r] = o]
    BY <1>5 DEF SettleCharge
  <2>2. /\ charge[r] = "open"
        /\ KeyOf[r] \in Keys
        /\ ChargeOf(KeyOf[r]) = "open"
        /\ Shown' = Shown
        /\ Truth' = [Truth EXCEPT ![KeyOf[r]] = o]
    BY <1>2, <1>5, <2>1 DEF SettleCharge
  <2> QED
    BY <2>2 DEF Promise!Settle, Truth
<1>6. CASE UNCHANGED <<payments, charge>>
  BY <1>6, PromiseStutters
<1>7. ASSUME NEW r \in Requests, Create(r) PROVE [Promise!Next]_(Promise!vars)
  <2>1. CASE BeginProceed(r)
    BY <1>1, <2>1 DEF Promise!Next
  <2>2. CASE RecordCreation(r) \/ MarkFailed(r) \/ MarkUnknown(r)
    BY <2>2, CreateEndsInStoreStep, PromiseLearns DEF StoreStep, OnlyRowMoves
  <2> QED
    BY <1>6, <1>7, <2>1, <2>2
    DEF Create, Begin, BeginReturnExisting, BeginConflict, CancelCreate
<1>8. ASSUME NEW e \in EventIds, ApplyWebhookEvent(e)
      PROVE  [Promise!Next]_(Promise!vars)
  BY <1>8, WebhookIsStoreStep, PromiseLearns DEF StoreStep
<1>9. ASSUME NEW g \in Inquirers, Inquire(g) PROVE [Promise!Next]_(Promise!vars)
  <2>1. CASE ApplyReconciliation(g)
    BY <2>1, ReconciliationIsStoreStep, PromiseLearns DEF StoreStep, OnlyRowMoves
  <2> QED
    BY <1>6, <1>9, <2>1 DEF Inquire, GetStart, ReconcileStart, StartInquiry,
                            InquiryAnswered, InquiryDropped
<1>10. CASE Provider
  BY <1>3, <1>4, <1>5, <1>6, <1>10 DEF Provider, EmitEvent, Promise!Next
<1> QED
  BY <1>7, <1>8, <1>9, <1>10 DEF Next

(* The gateway on the SQLite store implements PaymentPromise: whatever the *)
(* number of requests, retries, deliveries and inquiries, a merchant sees  *)
(* one charge per key and only true final words.                           *)
THEOREM GatewayKeepsPromise == Spec => PromiseKept
<1>1. IInv /\ [Next]_vars => [Promise!Next]_(Promise!vars)
  <2>1. CASE UNCHANGED vars
    BY <2>1, PromiseStutters DEF vars
  <2> QED
    BY <2>1, NextPromise DEF IInv
<1>2. Init => Promise!Init
  BY InitPromise
<1> QED
  BY <1>1, <1>2, AlwaysIInv, PTL DEF Spec, PromiseKept, Promise!Spec

==============================================================================
