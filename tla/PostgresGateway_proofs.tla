----------------------- MODULE PostgresGateway_proofs ------------------------
(***************************************************************************)
(* What the Postgres store still guarantees, for any number of replicas,   *)
(* requests, keys, deliveries and inquirers, although its handlers are     *)
(* sequences of autocommitted statements and its UPDATEs look at nothing.  *)
(* Every statement is a StoreStep of GatewayBase_proofs; besides, whoever  *)
(* is about to write a row knows that its creator is done with it          *)
(* (HooksAreLate, InquiriesAreLate), which is what keeps CreatorIsSoleWriter. *)
(***************************************************************************)
EXTENDS PostgresGateway, GatewayBase_proofs

(* A delivery past its SELECT is about a signed event and the row of its   *)
(* charge, and the call that made the charge has recorded it.              *)
HookIsLate(h) ==
    hook[h].at # "idle" =>
        LET e == hook[h].event IN
        /\ e \in EventIds /\ event[e] # NoEvent
        /\ hook[h].key \in Keys
        /\ payments[hook[h].key].id = event[e].ref
        /\ pc[event[e].ref] # "calling"

HooksAreLate == \A h \in Hooks : HookIsLate(h)

(* An inquiry is about a call that is over. *)
InquiryIsLate(g) == inquiry[g].at # "idle" => pc[inquiry[g].ref] # "calling"

InquiriesAreLate == \A g \in Inquirers : InquiryIsLate(g)

IInv ==
    /\ BaseInv
    /\ hook \in [Hooks -> Hook]
    /\ HooksAreLate
    /\ InquiriesAreLate
    /\ CreatorIsSoleWriter
    /\ OneDeliveryApplies

(* The initial state satisfies the inductive invariant. *)
LEMMA InitIInv == Init => IInv
<1> SUFFICES ASSUME Init PROVE IInv
  OBVIOUS
<1>1. BaseInv
  BY BaseInitInv DEF Init
<1>2. hook \in [Hooks -> Hook]
  BY DEF Init, Hook, NoHook, Statuses
<1>3. HooksAreLate /\ OneDeliveryApplies
  BY DEF Init, NoHook, HooksAreLate, HookIsLate, OneDeliveryApplies
<1>4. InquiriesAreLate /\ CreatorIsSoleWriter
  BY DEF Init, BaseInit, NoInquiry, InquiriesAreLate, InquiryIsLate, CreatorIsSoleWriter
<1> QED
  BY <1>1, <1>2, <1>3, <1>4 DEF IInv

------------------------------------------------------------------------------
(* The statements of the store. *)

CreateEnds(r) == RecordCreation(r) \/ MarkFailed(r) \/ MarkUnknown(r)

(* The outcome of a create call is written by its handler, in its own row. *)
LEMMA CreateEndsInStoreStep ==
    ASSUME IInv, NEW r \in Requests, CreateEnds(r)
    PROVE  /\ StoreStep
           /\ pc'[r] # "calling"
           /\ \A w \in Requests \ {r} : pc'[w] = pc[w]
           /\ \A j \in Keys \ {KeyOf[r]} : payments'[j] = payments[j]
<1> USE GatewayAssumption
<1>1. /\ BaseInv /\ BaseTypeOK
      /\ KeyOf[r] \in Keys
      /\ pc[r] = "calling"
      /\ UNCHANGED <<webhook_events, charge, event, inquiry>>
  BY DEF IInv, BaseInv, CreateEnds, RecordCreation, MarkFailed, MarkUnknown
<1>2. payments[KeyOf[r]].id = r /\ r # None
  BY <1>1 DEF BaseInv, Coherent, OwnersHaveRows, Proceeded
<1>3. /\ payments' \in [Keys -> Row] /\ RowsTouched
      /\ \A j \in Keys \ {KeyOf[r]} : payments'[j] = payments[j]
  <2>1. CASE RecordCreation(r)
    <3>1. PICK s \in CreationStatuses, action \in BOOLEAN :
              payments' = [payments EXCEPT ![KeyOf[r]].reference = r,
                                           ![KeyOf[r]].status = s,
                                           ![KeyOf[r]].next_action = action]
      BY <2>1 DEF RecordCreation
    <3> QED
      BY <1>1, <3>1, CreationWriteTouches
  <2>2. CASE MarkFailed(r)
    <3>1. charge[r] = "refused" /\ payments' = SetStatus(KeyOf[r], "Failed")
      BY <2>2 DEF MarkFailed
    <3>2. "Failed" \in Reported
      BY DEF Reported
    <3> QED
      BY <1>1, <1>2, <3>1, <3>2, StatusWriteTouches
  <2>3. CASE MarkUnknown(r)
    <3>1. payments' = SetStatus(KeyOf[r], "Unknown")
      BY <2>3 DEF MarkUnknown
    <3>2. "Unknown" \in Reported
      BY DEF Reported
    <3> QED
      BY <1>1, <1>2, <3>1, <3>2, StatusWriteTouches
  <2> QED
    BY <2>1, <2>2, <2>3 DEF CreateEnds
<1>4. PICK to \in {"recorded", "failed", "unknown"} : pc' = [pc EXCEPT ![r] = to]
  BY DEF CreateEnds, RecordCreation, MarkFailed, MarkUnknown
<1>5. /\ pc' \in [Requests -> Handler] /\ HandlersKept /\ RepliesKept
      /\ pc'[r] # "calling"
      /\ \A w \in Requests \ {r} : pc'[w] = pc[w]
  BY <1>1, <1>4 DEF HandlersKept, RepliesKept, Handler, Proceeded, BaseTypeOK
<1> QED
  BY <1>1, <1>3, <1>5 DEF StoreStep, InquiryGoesOn, BaseTypeOK

(* What the delivery in handler h says of its row is true, so the UPDATE   *)
(* touches that row and no other, whatever its status has become.          *)
LEMMA HookUpdateIsStoreStep ==
    ASSUME IInv, NEW h \in Hooks, HookUpdate(h)
    PROVE  /\ StoreStep
           /\ \A j \in Keys \ {hook[h].key} : payments'[j] = payments[j]
<1> DEFINE e == hook[h].event
           k == hook[h].key
<1>1. BaseInv /\ BaseTypeOK
  BY DEF IInv, BaseInv
<1>2. /\ e \in EventIds /\ event[e] # NoEvent
      /\ k \in Keys
      /\ payments[k].id = event[e].ref
  BY DEF IInv, HooksAreLate, HookIsLate, HookUpdate
<1>3. /\ event[e].ref \in Requests /\ event[e].ref # None
      /\ event[e].status \in Reported
      /\ Truthful(event[e].ref, event[e].status)
  BY <1>1, <1>2, GatewayAssumption DEF BaseTypeOK, Event, BaseInv, Coherent, EventsAreTrue
<1>4. payments' = SetStatus(k, event[e].status)
  BY DEF HookUpdate
<1>5. /\ payments' \in [Keys -> Row] /\ RowsTouched
      /\ \A j \in Keys \ {k} : payments'[j] = payments[j]
  BY <1>1, <1>2, <1>3, <1>4, StatusWriteTouches DEF Truthful
<1> QED
  BY <1>1, <1>5 DEF HookUpdate, StoreStep, HandlersKept, RepliesKept, InquiryGoesOn,
                    BaseTypeOK

(* update_status_only at the end of apply_reconciliation_result touches    *)
(* the row that was asked about and no other.                              *)
LEMMA ReconcileWriteIsStoreStep ==
    ASSUME IInv, NEW g \in Inquirers, ReconcileWrite(g)
    PROVE  /\ StoreStep
           /\ \A j \in Keys \ {inquiry[g].key} : payments'[j] = payments[j]
<1> DEFINE k == inquiry[g].key
<1>1. BaseInv /\ BaseTypeOK
  BY DEF IInv, BaseInv
<1>2. /\ k \in Keys
      /\ inquiry[g].ref \in Requests /\ inquiry[g].ref # None
      /\ payments[k].id = inquiry[g].ref
      /\ Truthful(inquiry[g].ref, inquiry[g].answer)
  BY <1>1, GatewayAssumption DEF BaseInv, Coherent, InquiriesAreTrue, ReconcileWrite
<1>3. inquiry[g].answer \in Reported
  BY <1>1 DEF BaseTypeOK, Inquiry
<1>4. payments' = SetStatus(k, inquiry[g].answer)
  BY DEF ReconcileWrite
<1>5. /\ payments' \in [Keys -> Row] /\ RowsTouched
      /\ \A j \in Keys \ {k} : payments'[j] = payments[j]
  BY <1>1, <1>2, <1>3, <1>4, StatusWriteTouches DEF Truthful
<1>6. inquiry' \in [Inquirers -> Inquiry] /\ \A f \in Inquirers : InquiryGoesOn(f)
  BY <1>1 DEF ReconcileWrite, InquiryGoesOn, BaseTypeOK, NoInquiry, Inquiry,
              Statuses, Reported
<1> QED
  BY <1>1, <1>5, <1>6 DEF ReconcileWrite, StoreStep, HandlersKept, RepliesKept, BaseTypeOK

(* The other statements write no payment: the SELECTs, the INSERT of an    *)
(* event id, and the end of a handler that is dropped.                     *)
LEMMA OtherStatementsAreStoreSteps ==
    ASSUME IInv,
           \/ \E h \in Hooks : \/ \E e \in EventIds : HookRead(h, e)
                               \/ HookInsert(h) \/ HookCancel(h)
           \/ \E g \in Inquirers : ReconcileRead(g)
    PROVE  StoreStep /\ UNCHANGED <<payments, pc>>
<1>1. BaseInv /\ BaseTypeOK
  BY DEF IInv, BaseInv
<1>2. ASSUME UNCHANGED <<payments, pc, charge, event, inquiry>>,
             webhook_events' \subseteq EventIds,
             \A e \in webhook_events' \ webhook_events : event[e] # NoEvent
      PROVE  StoreStep
  BY <1>1, <1>2 DEF StoreStep, RowsTouched, HandlersKept, RepliesKept, InquiryGoesOn,
                    BaseTypeOK
<1>3. ASSUME NEW h \in Hooks, NEW e \in EventIds, HookRead(h, e)
      PROVE  StoreStep /\ UNCHANGED <<payments, pc>>
  BY <1>1, <1>2, <1>3 DEF HookRead, BaseTypeOK
<1>4. ASSUME NEW h \in Hooks, HookCancel(h)
      PROVE  StoreStep /\ UNCHANGED <<payments, pc>>
  BY <1>1, <1>2, <1>4 DEF HookCancel, BaseTypeOK
<1>5. ASSUME NEW h \in Hooks, HookInsert(h)
      PROVE  StoreStep /\ UNCHANGED <<payments, pc>>
  <2>1. hook[h].event \in EventIds /\ event[hook[h].event] # NoEvent
    BY <1>5 DEF IInv, HooksAreLate, HookIsLate, HookInsert
  <2> QED
    BY <1>1, <1>2, <1>5, <2>1 DEF HookInsert, BaseTypeOK
<1>6. ASSUME NEW g \in Inquirers, ReconcileRead(g)
      PROVE  StoreStep /\ UNCHANGED <<payments, pc>>
  <2> DEFINE next == IF ValidTransition(payments[inquiry[g].key].status, inquiry[g].answer)
                     THEN [inquiry[g] EXCEPT !.at = "writing"] ELSE NoInquiry
  <2>1. inquiry[g].at = "answered" /\ inquiry' = [inquiry EXCEPT ![g] = next]
    BY <1>6 DEF ReconcileRead
  <2>2. next \in Inquiry
    BY <1>1 DEF BaseTypeOK, Inquiry, NoInquiry, Statuses, Reported
  <2>3. next = NoInquiry \/ next = [inquiry[g] EXCEPT !.at = "writing"]
    OBVIOUS
  <2> HIDE DEF next
  <2>4. inquiry' \in [Inquirers -> Inquiry] /\ \A f \in Inquirers : InquiryGoesOn(f)
    BY <1>1, <2>1, <2>2, <2>3 DEF InquiryGoesOn, BaseTypeOK
  <2> QED
    BY <1>1, <1>6, <2>4 DEF ReconcileRead, StoreStep, RowsTouched, HandlersKept,
                            RepliesKept, BaseTypeOK
<1> QED
  BY <1>3, <1>4, <1>5, <1>6

(* Every step is a step of either store. *)
LEMMA NextIsBaseStep ==
    ASSUME IInv, Next
    PROVE  BaseStep
<1>1. ASSUME NEW r \in Requests, Create(r) PROVE BaseStep
  BY <1>1, CreateEndsInStoreStep DEF Create, CreateEnds, BaseStep
<1>2. ASSUME NEW h \in Hooks, Webhook(h) PROVE BaseStep
  BY <1>2, HookUpdateIsStoreStep, OtherStatementsAreStoreSteps DEF Webhook, BaseStep
<1>3. ASSUME NEW g \in Inquirers, Inquire(g) PROVE BaseStep
  BY <1>3, ReconcileWriteIsStoreStep, OtherStatementsAreStoreSteps
  DEF Inquire, StartOrDrop, BaseStep, InquiryStep
<1> QED
  BY <1>1, <1>2, <1>3 DEF Next, BaseStep

------------------------------------------------------------------------------
(* Who is late stays late. *)

(* Only begin_payment starts a provider call, for a request that is new. *)
LEMMA CallingIsNew ==
    ASSUME IInv, Next, NEW r \in Requests, pc'[r] = "calling", pc[r] # "calling"
    PROVE  pc[r] = "new" /\ BeginProceed(r)
<1>1. BaseTypeOK
  BY DEF IInv, BaseInv
<1> QED
  BY <1>1 DEF Next, Create, Begin, BeginProceed, BeginReturnExisting, BeginConflict,
       CancelCreate, RecordCreation, MarkFailed, MarkUnknown, Webhook, HookRead,
       HookInsert, HookUpdate, HookCancel, Inquire, StartOrDrop, GetStart,
       ReconcileStart, StartInquiry, InquiryAnswered, InquiryDropped,
       ReconcileRead, ReconcileWrite, Provider, AcceptCharge, RefuseCharge,
       SettleCharge, EmitEvent, BaseTypeOK

(* The call a row belongs to is not started again. *)
LEMMA DoneStaysDone ==
    ASSUME IInv, Next, NEW k \in Keys, NEW r \in Requests, payments[k].id = r,
           pc[r] # "calling"
    PROVE  pc'[r] # "calling" /\ payments'[k].id = r
<1>1. r # None /\ BaseInv /\ BaseStep
  BY GatewayAssumption, NextIsBaseStep DEF IInv
<1>2. pc[r] # "new"
  BY <1>1 DEF BaseInv, Coherent, RowsHaveOwners, Proceeded
<1> QED
  BY <1>1, <1>2, CallingIsNew, IdIsKept

(* A row with a reference is one whose creator is done. *)
LEMMA ReferenceMeansDone ==
    ASSUME IInv, NEW k \in Keys, NEW r \in Requests, payments[k].id = r,
           payments[k].reference # None
    PROVE  pc[r] # "calling"
<1>1. KeyOf[r] = k
  BY GatewayAssumption DEF IInv, BaseInv, Coherent, RowsHaveOwners
<1> SUFFICES ASSUME pc[r] = "calling" PROVE FALSE
  OBVIOUS
<1>2. payments[k] = [id |-> r, fingerprint |-> BodyOf[r], status |-> "Pending",
                     reference |-> None, next_action |-> FALSE]
  BY <1>1 DEF IInv, CreatorIsSoleWriter
<1> QED
  BY <1>2

(* An event is signed once. *)
LEMMA SignedIsKept ==
    ASSUME IInv, Next, NEW e \in EventIds, event[e] # NoEvent
    PROVE  event'[e] = event[e]
<1>1. BaseInv /\ BaseTypeOK /\ BaseStep
  BY NextIsBaseStep DEF IInv, BaseInv
<1> QED
  BY <1>1, EventsAreKept DEF EmitEvent, BaseTypeOK

(* Every handler keeps its type and its event, and those past the SELECT   *)
(* stay about a row whose creator is done.                                 *)
LEMMA HooksStayLate ==
    ASSUME IInv, Next
    PROVE  hook' \in [Hooks -> Hook] /\ HooksAreLate'
<1> USE GatewayAssumption
<1>0. BaseInv /\ BaseTypeOK /\ hook \in [Hooks -> Hook] /\ NoHook \in Hook
  BY DEF IInv, BaseInv, Hook, NoHook, Statuses
<1>1. ASSUME NEW h \in Hooks,
             \/ hook'[h] = hook[h]
             \/ hook'[h] = NoHook
             \/ hook[h].at = "read" /\ hook'[h] = [hook[h] EXCEPT !.at = "inserted"]
      PROVE  hook'[h] \in Hook /\ HookIsLate(h)'
  <2>0. hook[h] \in Hook
    BY <1>0
  <2>1. CASE hook'[h] = NoHook
    BY <1>0, <2>1 DEF NoHook, HookIsLate
  <2>2. CASE hook[h].at = "idle" /\ hook'[h] = hook[h]
    BY <2>0, <2>2 DEF HookIsLate
  <2>3. CASE /\ hook[h].at # "idle"
             /\ hook'[h] \in Hook
             /\ hook'[h].event = hook[h].event
             /\ hook'[h].key = hook[h].key
    <3> DEFINE e == hook[h].event
    <3>1. /\ e \in EventIds /\ event[e] # NoEvent
          /\ hook[h].key \in Keys
          /\ payments[hook[h].key].id = event[e].ref
          /\ pc[event[e].ref] # "calling"
      BY <2>3 DEF IInv, HooksAreLate, HookIsLate
    <3>2. event'[e] = event[e] /\ event[e].ref \in Requests
      BY <1>0, <3>1, SignedIsKept DEF BaseInv, Coherent, EventsAreTrue
    <3>3. pc'[event[e].ref] # "calling" /\ payments'[hook[h].key].id = event[e].ref
      BY <3>1, <3>2, DoneStaysDone
    <3> QED
      BY <2>3, <3>1, <3>2, <3>3 DEF HookIsLate
  <2>4. [hook[h] EXCEPT !.at = "inserted"] \in Hook
    BY <2>0 DEF Hook
  <2>5. CASE hook[h].at = "read" /\ hook'[h] = [hook[h] EXCEPT !.at = "inserted"]
    BY <2>0, <2>3, <2>4, <2>5 DEF Hook
  <2> QED
    BY <1>1, <2>0, <2>1, <2>2, <2>3, <2>5
<1>2. ASSUME NEW h \in Hooks, NEW e \in EventIds, HookRead(h, e)
      PROVE  hook'[h] \in Hook /\ HookIsLate(h)'
  <2>1. PICK k \in FindByReference(event[e].ref) :
            hook' = [hook EXCEPT ![h] = [at |-> "read", event |-> e, key |-> k,
                                         was |-> payments[k].status]]
    BY <1>2 DEF HookRead
  <2>2. /\ event[e] # NoEvent
        /\ event[e].ref \in Requests
        /\ k \in Keys /\ payments[k].reference = event[e].ref
        /\ UNCHANGED <<payments, pc, event>>
    BY <1>0, <1>2, <2>1 DEF HookRead, FindByReference, BaseInv, Coherent, EventsAreTrue
  <2>3. payments[k].id = event[e].ref
    BY <1>0, <2>2 DEF BaseInv, Coherent, RowsHaveOwners, NoRow
  <2>5. pc[event[e].ref] # "calling"
    BY <2>2, <2>3, ReferenceMeansDone
  <2>6. hook'[h] = [at |-> "read", event |-> e, key |-> k, was |-> payments[k].status]
    BY <1>0, <2>1
  <2>7. payments[k].status \in Statuses
    BY <1>0, <2>2 DEF BaseTypeOK, Row
  <2> QED
    BY <2>2, <2>3, <2>5, <2>6, <2>7 DEF HookIsLate, Hook
<1>3. ASSUME NEW h \in Hooks, Webhook(h), NEW f \in Hooks
      PROVE  hook'[f] \in Hook /\ HookIsLate(f)'
  <2>1. CASE f # h
    <3>1. hook'[f] = hook[f]
      BY <1>0, <1>3, <2>1 DEF Webhook, HookRead, HookInsert, HookUpdate, HookCancel
    <3> QED
      BY <1>1, <3>1
  <2>2. CASE f = h /\ \E e \in EventIds : HookRead(h, e)
    BY <1>2, <2>2
  <2>3. CASE f = h /\ HookInsert(h)
    <3>1. /\ hook[h].at = "read"
          /\ hook'[h] = NoHook \/ hook'[h] = [hook[h] EXCEPT !.at = "inserted"]
      BY <1>0, <2>3 DEF HookInsert
    <3> QED
      BY <1>1, <2>3, <3>1
  <2>4. CASE f = h /\ (HookUpdate(h) \/ HookCancel(h))
    BY <1>0, <1>1, <2>4 DEF HookUpdate, HookCancel
  <2> QED
    BY <1>3, <2>1, <2>2, <2>3, <2>4 DEF Webhook
<1>4. (\A h \in Hooks : ~Webhook(h)) => UNCHANGED hook
  BY DEF Next, Create, RecordCreation, MarkFailed, MarkUnknown, Inquire, StartOrDrop,
         ReconcileRead, ReconcileWrite
<1>5. \A f \in Hooks : hook'[f] \in Hook /\ HookIsLate(f)'
  BY <1>1, <1>3, <1>4
<1>6. hook' = [h \in Hooks |-> hook'[h]]
  BY <1>0 DEF Next, Create, RecordCreation, MarkFailed, MarkUnknown, Inquire, StartOrDrop,
         ReconcileRead, ReconcileWrite, Webhook, HookRead, HookInsert, HookUpdate, HookCancel
<1> QED
  BY <1>5, <1>6 DEF HooksAreLate

(* Every inquiry stays about a call that is over. *)
LEMMA InquiriesStayLate ==
    ASSUME IInv, Next
    PROVE  InquiriesAreLate'
<1> USE GatewayAssumption
<1>0. BaseInv /\ BaseTypeOK
  BY DEF IInv, BaseInv
<1> SUFFICES ASSUME NEW g \in Inquirers, inquiry'[g].at # "idle"
             PROVE  pc'[inquiry'[g].ref] # "calling"
  BY DEF InquiriesAreLate, InquiryIsLate
<1>1. CASE inquiry[g].at # "idle" /\ inquiry'[g].ref = inquiry[g].ref
  <2>1. /\ inquiry[g].key \in Keys
        /\ inquiry[g].ref \in Requests
        /\ payments[inquiry[g].key].id = inquiry[g].ref
        /\ pc[inquiry[g].ref] # "calling"
    BY <1>0, <1>1 DEF IInv, InquiriesAreLate, InquiryIsLate, BaseInv, Coherent, InquiriesAreTrue
  <2> QED
    BY <1>1, <2>1, DoneStaysDone
<1>2. CASE inquiry'[g] = inquiry[g]
  BY <1>1, <1>2
<1>3. ASSUME NEW k \in Keys, GetStart(g, k) \/ ReconcileStart(g, k)
      PROVE  pc'[inquiry'[g].ref] # "calling"
  <2>1. /\ HasRow(k)
        /\ payments[k].reference # None
        /\ StartInquiry(g, k)
    BY <1>3 DEF GetStart, ReconcileStart, GetAsks, StaleUnknown
  <2>2. /\ payments[k].id \in Requests
        /\ payments[k].reference = payments[k].id
    BY <1>0, <2>1 DEF HasRow, BaseTypeOK, Row, BaseInv, Coherent, RowsHaveOwners
  <2>3. pc[payments[k].id] # "calling"
    BY <2>1, <2>2, ReferenceMeansDone
  <2>4. inquiry'[g].ref = payments[k].id /\ UNCHANGED pc
    BY <1>0, <2>1, <2>2 DEF StartInquiry, BaseTypeOK
  <2> QED
    BY <2>3, <2>4
<1>4. CASE InquiryAnswered(g)
  <2>1. PICK s : inquiry' = [inquiry EXCEPT ![g].at = "answered", ![g].answer = s]
    BY <1>4 DEF InquiryAnswered
  <2>2. inquiry[g] \in Inquiry /\ inquiry[g].at = "asking"
    BY <1>0, <1>4 DEF BaseTypeOK, InquiryAnswered
  <2>3. inquiry'[g].ref = inquiry[g].ref
    BY <1>0, <2>1, <2>2 DEF BaseTypeOK, Inquiry
  <2> QED
    BY <1>1, <2>2, <2>3
<1>5. CASE InquiryDropped(g) \/ ReconcileWrite(g)
  BY <1>0, <1>5 DEF InquiryDropped, ReconcileWrite, BaseTypeOK, NoInquiry
<1>6. CASE ReconcileRead(g)
  <2>1. /\ inquiry[g] \in Inquiry
        /\ inquiry[g].at = "answered"
        /\ inquiry'[g] = NoInquiry \/ inquiry'[g] = [inquiry[g] EXCEPT !.at = "writing"]
    BY <1>0, <1>6 DEF ReconcileRead, BaseTypeOK
  <2>2. CASE inquiry'[g] = [inquiry[g] EXCEPT !.at = "writing"]
    BY <1>1, <2>1, <2>2 DEF Inquiry
  <2> QED
    BY <2>1, <2>2 DEF NoInquiry
<1>7. ASSUME NEW f \in Inquirers \ {g}, Inquire(f) PROVE inquiry'[g] = inquiry[g]
  BY <1>0, <1>7 DEF Inquire, StartOrDrop, GetStart, ReconcileStart, StartInquiry,
                    InquiryAnswered, InquiryDropped, ReconcileRead, ReconcileWrite, BaseTypeOK
<1>8. (\A f \in Inquirers : ~Inquire(f)) => UNCHANGED inquiry
  BY DEF Next, Create, Begin, BeginProceed, BeginReturnExisting, BeginConflict,
         CancelCreate, RecordCreation, MarkFailed, MarkUnknown, Webhook, HookRead,
         HookInsert, HookUpdate, HookCancel, Provider, AcceptCharge, RefuseCharge,
         SettleCharge, EmitEvent
<1>9. CASE Inquire(g)
  BY <1>3, <1>4, <1>5, <1>6, <1>9 DEF Inquire, StartOrDrop
<1> QED
  BY <1>2, <1>7, <1>8, <1>9

------------------------------------------------------------------------------
(* The two invariants about concurrent statements. *)

(* A row whose creator still waits for the provider is written by nobody   *)
(* else: the writers all know that the creator of their row is done.       *)
LEMMA CreatorStaysSoleWriter ==
    ASSUME IInv, Next
    PROVE  CreatorIsSoleWriter'
<1> USE GatewayAssumption
<1>0. BaseInv /\ BaseTypeOK
  BY DEF IInv, BaseInv
<1> SUFFICES ASSUME NEW r \in Requests, pc'[r] = "calling"
             PROVE  payments'[KeyOf[r]] = [id |-> r, fingerprint |-> BodyOf[r],
                                           status |-> "Pending", reference |-> None,
                                           next_action |-> FALSE]
  BY DEF CreatorIsSoleWriter
<1>1. CASE pc[r] # "calling"
  BY <1>0, <1>1, CallingIsNew DEF BeginProceed, BaseTypeOK
<1>2. CASE pc[r] = "calling"
  <2>0. KeyOf[r] \in Keys /\ r # None
    OBVIOUS
  <2>1. payments[KeyOf[r]] = [id |-> r, fingerprint |-> BodyOf[r],
                              status |-> "Pending", reference |-> None,
                              next_action |-> FALSE]
    BY <1>2 DEF IInv, CreatorIsSoleWriter
  <2>2. payments[KeyOf[r]].id = r
    BY <2>1
  <2> SUFFICES payments'[KeyOf[r]] = payments[KeyOf[r]]
    BY <2>1
  <2>3. CASE UNCHANGED payments
    BY <2>3
  <2>4. ASSUME NEW w \in Requests, BeginProceed(w)
        PROVE  payments'[KeyOf[r]] = payments[KeyOf[r]]
    <3>1. payments[KeyOf[w]].id = None
      BY <2>4 DEF BeginProceed, MayProceed, HasRow
    <3>2. KeyOf[w] # KeyOf[r]
      BY <2>0, <2>2, <3>1
    <3> QED
      BY <1>0, <2>4, <3>2 DEF BeginProceed, BaseTypeOK
  <2>5. ASSUME NEW w \in Requests, CreateEnds(w)
        PROVE  payments'[KeyOf[r]] = payments[KeyOf[r]]
    <3>1. pc[w] = "calling" /\ pc'[w] # "calling"
      BY <2>5, CreateEndsInStoreStep DEF CreateEnds, RecordCreation, MarkFailed, MarkUnknown
    <3>2. payments[KeyOf[w]].id = w
      BY <1>0, <3>1 DEF BaseInv, Coherent, OwnersHaveRows, Proceeded
    <3>3. KeyOf[w] # KeyOf[r]
      BY <2>2, <3>1, <3>2
    <3> QED
      BY <2>5, <3>3, CreateEndsInStoreStep
  <2>6. ASSUME NEW h \in Hooks, HookUpdate(h)
        PROVE  payments'[KeyOf[r]] = payments[KeyOf[r]]
    <3>1. hook[h].key # KeyOf[r]
      BY <1>2, <2>2, <2>6 DEF HookUpdate, IInv, HooksAreLate, HookIsLate
    <3> QED
      BY <2>6, <3>1, HookUpdateIsStoreStep
  <2>7. ASSUME NEW g \in Inquirers, ReconcileWrite(g)
        PROVE  payments'[KeyOf[r]] = payments[KeyOf[r]]
    <3>1. inquiry[g].key # KeyOf[r]
      BY <1>0, <1>2, <2>2, <2>7 DEF ReconcileWrite, IInv, InquiriesAreLate, InquiryIsLate,
                                    BaseInv, Coherent, InquiriesAreTrue
    <3> QED
      BY <2>7, <3>1, ReconcileWriteIsStoreStep
  <2> QED
    BY <2>3, <2>4, <2>5, <2>6, <2>7
    DEF Next, Create, CreateEnds, Begin, BeginReturnExisting, BeginConflict, CancelCreate,
        Webhook, HookRead, HookInsert, HookCancel, Inquire, StartOrDrop, GetStart,
        ReconcileStart, StartInquiry, InquiryAnswered, InquiryDropped, ReconcileRead,
        Provider, AcceptCharge, RefuseCharge, SettleCharge, EmitEvent
<1> QED
  BY <1>1, <1>2

(* The INSERT into webhook_events lets one delivery of an event through. *)
LEMMA OneDeliveryStays ==
    ASSUME IInv, Next
    PROVE  OneDeliveryApplies'
<1>0. hook \in [Hooks -> Hook] /\ OneDeliveryApplies
  BY DEF IInv
<1>1. webhook_events \subseteq webhook_events'
  BY DEF Next, Create, Begin, BeginProceed, BeginReturnExisting, BeginConflict,
         CancelCreate, RecordCreation, MarkFailed, MarkUnknown, Webhook, HookRead,
         HookInsert, HookUpdate, HookCancel, Inquire, StartOrDrop, GetStart,
         ReconcileStart, StartInquiry, InquiryAnswered, InquiryDropped,
         ReconcileRead, ReconcileWrite, Provider, AcceptCharge, RefuseCharge,
         SettleCharge, EmitEvent
<1>2. ASSUME \A h \in Hooks : hook'[h].at = "inserted" => hook'[h] = hook[h]
      PROVE  OneDeliveryApplies'
  BY <1>0, <1>1, <1>2 DEF OneDeliveryApplies
<1>3. ASSUME NEW h \in Hooks, HookInsert(h) PROVE OneDeliveryApplies'
  <2>1. \A f \in Hooks \ {h} : hook'[f] = hook[f]
    BY <1>0, <1>3 DEF HookInsert
  <2>2. CASE hook'[h] = NoHook
    BY <1>2, <2>1, <2>2 DEF NoHook
  <2>3. CASE /\ hook[h].event \notin webhook_events
             /\ hook'[h] = [hook[h] EXCEPT !.at = "inserted"]
    <3>1. hook'[h].event = hook[h].event /\ hook[h].event \in webhook_events'
      BY <1>0, <1>3, <2>3 DEF HookInsert, Hook
    <3> QED
      BY <1>0, <1>1, <2>1, <2>3, <3>1 DEF OneDeliveryApplies
  <2> QED
    BY <1>0, <1>3, <2>2, <2>3 DEF HookInsert
<1>4. ASSUME NEW h \in Hooks, NEW e \in EventIds, HookRead(h, e)
      PROVE  OneDeliveryApplies'
  BY <1>0, <1>2, <1>4 DEF HookRead
<1>5. ASSUME NEW h \in Hooks, HookUpdate(h) \/ HookCancel(h)
      PROVE  OneDeliveryApplies'
  BY <1>0, <1>2, <1>5 DEF HookUpdate, HookCancel, NoHook
<1>6. (\A h \in Hooks : ~Webhook(h)) => UNCHANGED hook
  BY DEF Next, Create, RecordCreation, MarkFailed, MarkUnknown, Inquire, StartOrDrop,
         ReconcileRead, ReconcileWrite
<1> QED
  BY <1>2, <1>3, <1>4, <1>5, <1>6 DEF Webhook

------------------------------------------------------------------------------
(* IInv is inductive. *)
LEMMA NextIInv == IInv /\ [Next]_vars => IInv'
<1> SUFFICES ASSUME IInv, [Next]_vars PROVE IInv'
  OBVIOUS
<1>1. CASE Next
  <2>1. BaseInv'
    BY <1>1, NextIsBaseStep, BaseStepKeepsInv DEF IInv
  <2> QED
    BY <1>1, <2>1, HooksStayLate, InquiriesStayLate, CreatorStaysSoleWriter,
       OneDeliveryStays DEF IInv
<1>2. CASE UNCHANGED vars
  <2> USE <1>2 DEF vars
  <2>1. BaseInv'
    BY StutterIsStoreStep, BaseStepKeepsInv DEF IInv, BaseStep
  <2>2. hook' \in [Hooks -> Hook] /\ HooksAreLate' /\ InquiriesAreLate'
    BY DEF IInv, HooksAreLate, HookIsLate, InquiriesAreLate, InquiryIsLate
  <2>3. CreatorIsSoleWriter' /\ OneDeliveryApplies'
    BY DEF IInv, CreatorIsSoleWriter, OneDeliveryApplies
  <2> QED
    BY <2>1, <2>2, <2>3 DEF IInv
<1> QED
  BY <1>1, <1>2

(* IInv holds in every reachable state. *)
LEMMA AlwaysIInv == Spec => []IInv
BY InitIInv, NextIInv, PTL DEF Spec

(* Until its handler has written the outcome, a row is as begin_payment    *)
(* inserted it: the unconditional UPDATEs of the create handler overwrite  *)
(* nothing, on any number of replicas.                                     *)
THEOREM CreatorWritesAlone == Spec => []CreatorIsSoleWriter
<1>1. IInv => CreatorIsSoleWriter
  BY DEF IInv
<1> QED
  BY <1>1, AlwaysIInv, PTL

(* However many replicas receive an event at once, the INSERT into         *)
(* webhook_events lets at most one of them go on to the UPDATE.            *)
THEOREM EventsApplyOnce == Spec => []OneDeliveryApplies
<1>1. IInv => OneDeliveryApplies
  BY DEF IInv
<1> QED
  BY <1>1, AlwaysIInv, PTL

(* The stale UPDATEs of this store may reopen a payment, but never invent  *)
(* an outcome: Succeeded and Failed are what the provider holds.           *)
THEOREM StaleWritesAreTrue == Spec => []StoredOutcomeIsTrue
<1>1. IInv => StoredOutcomeIsTrue
  BY DEF IInv, BaseInv
<1> QED
  BY <1>1, AlwaysIInv, PTL

(* On the shared database too, at most one call per Idempotency-Key ever   *)
(* reaches the provider, whichever replicas the retries arrive at.         *)
THEOREM ReplicasChargeOnce == Spec => []AtMostOneCharge
<1>1. IInv => AtMostOneCharge
  BY OneChargePerKey DEF IInv
<1> QED
  BY <1>1, AlwaysIInv, PTL

(* Every variable keeps its type, and rows, handlers, charges, events and  *)
(* inquiries agree about who owns which payment, between any two           *)
(* statements.                                                             *)
THEOREM ReplicasAgree == Spec => [](TypeOK /\ Coherent)
<1>1. IInv => TypeOK /\ Coherent
  BY DEF IInv, BaseInv, TypeOK
<1> QED
  BY <1>1, AlwaysIInv, PTL

==============================================================================
