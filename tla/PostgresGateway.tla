--------------------------- MODULE PostgresGateway ---------------------------
(***************************************************************************)
(* The gateway on its Postgres store, where several replicas share the     *)
(* database.  Apart from record_refund no operation opens a transaction:   *)
(* each SQL statement is a step of its own, autocommitted, and the UPDATEs *)
(* carry no condition on the status that was read before.                  *)
(***************************************************************************)
EXTENDS GatewayBase

CONSTANT Hooks  \* webhook handlers in progress

VARIABLE hook   \* where each of them is

vars == <<payments, webhook_events, pc, charge, event, inquiry, hook>>

Hook   == [at    : {"idle", "read", "inserted"},
           event : EventIds \union {None},
           key   : Keys \union {None},
           was   : Statuses]
NoHook == [at |-> "idle", event |-> None, key |-> None, was |-> "Unknown"]

TypeOK == BaseTypeOK /\ hook \in [Hooks -> Hook]

Init == BaseInit /\ hook = [h \in Hooks |-> NoHook]

------------------------------------------------------------------------------
(* The end of POST /v1/payments: each outcome is one unconditional UPDATE. *)

(* record_creation_result *)
RecordCreation(r) ==
    /\ pc[r] = "calling"
    /\ charge[r] \in Created
    /\ \E s \in CreationStatuses, action \in BOOLEAN :
          payments' = [payments EXCEPT ![KeyOf[r]].reference = r,
                                       ![KeyOf[r]].status = s,
                                       ![KeyOf[r]].next_action = action]
    /\ pc' = [pc EXCEPT ![r] = "recorded"]
    /\ UNCHANGED <<webhook_events, charge, event, inquiry, hook>>

(* mark_terminal_without_provider_reference, after a definite refusal *)
MarkFailed(r) ==
    /\ pc[r] = "calling"
    /\ charge[r] = "refused"
    /\ payments' = SetStatus(KeyOf[r], "Failed")
    /\ pc' = [pc EXCEPT ![r] = "failed"]
    /\ UNCHANGED <<webhook_events, charge, event, inquiry, hook>>

(* Mutation: an ambiguous error is taken for a failure.                    *)
MutMarkUnknown(r) ==
    /\ pc[r] = "calling"
    /\ payments' = SetStatus(KeyOf[r], "Failed")
    /\ pc' = [pc EXCEPT ![r] = "unknown"]
    /\ UNCHANGED <<webhook_events, charge, event, inquiry, hook>>

(* mark_unknown, after an ambiguous error *)
MarkUnknown(r) ==
    /\ pc[r] = "calling"
    /\ payments' = SetStatus(KeyOf[r], "Unknown")
    /\ pc' = [pc EXCEPT ![r] = "unknown"]
    /\ UNCHANGED <<webhook_events, charge, event, inquiry, hook>>

------------------------------------------------------------------------------
(* apply_webhook_event, in three statements. *)

(* SELECT the payment: a delivery that finds none changes nothing. *)
HookRead(h, e) ==
    /\ hook[h].at = "idle"
    /\ event[e] # NoEvent
    /\ \E k \in FindByReference(event[e].ref) :
          hook' = [hook EXCEPT ![h] = [at |-> "read", event |-> e, key |-> k,
                                       was |-> payments[k].status]]
    /\ UNCHANGED <<payments, webhook_events, pc, charge, event, inquiry>>

(* The amount agrees and the status read before allows the transition. *)
HookAccepts(h) ==
    LET ev == event[hook[h].event] IN
    /\ ~ev.mismatch
    /\ ValidTransition(hook[h].was, ev.status)

(* Mutation: the INSERT's unique violation is not noticed.                 *)
MutHookInsert(h) ==
    /\ hook[h].at = "read"
    /\ webhook_events' = webhook_events \union {hook[h].event}
    /\ hook' = [hook EXCEPT ![h] = IF HookAccepts(h)
                                   THEN [@ EXCEPT !.at = "inserted"] ELSE NoHook]
    /\ UNCHANGED <<payments, pc, charge, event, inquiry>>

(* INSERT the event id.  A duplicate, a different amount or an illegal     *)
(* transition ends the handler here.                                       *)
HookInsert(h) ==
    /\ hook[h].at = "read"
    /\ webhook_events' = webhook_events \union {hook[h].event}
    /\ hook' = [hook EXCEPT ![h] =
                    IF hook[h].event \notin webhook_events /\ HookAccepts(h)
                    THEN [@ EXCEPT !.at = "inserted"] ELSE NoHook]
    /\ UNCHANGED <<payments, pc, charge, event, inquiry>>

(* UPDATE the row, whatever its status has become. *)
HookUpdate(h) ==
    /\ hook[h].at = "inserted"
    /\ payments' = SetStatus(hook[h].key, event[hook[h].event].status)
    /\ hook' = [hook EXCEPT ![h] = NoHook]
    /\ UNCHANGED <<webhook_events, pc, charge, event, inquiry>>

(* The replica crashes, a statement fails, or the 30 s timeout drops the   *)
(* handler: what it has committed stays.                                   *)
HookCancel(h) ==
    /\ hook[h].at # "idle"
    /\ hook' = [hook EXCEPT ![h] = NoHook]
    /\ UNCHANGED <<payments, webhook_events, pc, charge, event, inquiry>>

------------------------------------------------------------------------------
(* apply_reconciliation_result, in two statements: get_payment and the     *)
(* validation, then update_status_only.                                    *)

ReconcileRead(g) ==
    /\ inquiry[g].at = "answered"
    /\ inquiry' = [inquiry EXCEPT ![g] =
           IF ValidTransition(payments[inquiry[g].key].status, inquiry[g].answer)
           THEN [@ EXCEPT !.at = "writing"] ELSE NoInquiry]
    /\ UNCHANGED <<payments, webhook_events, pc, charge, event, hook>>

ReconcileWrite(g) ==
    /\ inquiry[g].at = "writing"
    /\ payments' = SetStatus(inquiry[g].key, inquiry[g].answer)
    /\ inquiry' = [inquiry EXCEPT ![g] = NoInquiry]
    /\ UNCHANGED <<webhook_events, pc, charge, event, hook>>

------------------------------------------------------------------------------
Create(r) ==
    \/ Begin(r) /\ UNCHANGED hook
    \/ RecordCreation(r)
    \/ MarkFailed(r)
    \/ MarkUnknown(r)
    \/ CancelCreate(r) /\ UNCHANGED hook

Webhook(h) ==
    \/ \E e \in EventIds : HookRead(h, e)
    \/ HookInsert(h)
    \/ HookUpdate(h)
    \/ HookCancel(h)

StartOrDrop(g) ==
    /\ \/ \E k \in Keys : GetStart(g, k) \/ ReconcileStart(g, k)
       \/ InquiryAnswered(g)
       \/ InquiryDropped(g)
    /\ UNCHANGED hook

Inquire(g) == StartOrDrop(g) \/ ReconcileRead(g) \/ ReconcileWrite(g)

Next ==
    \/ \E r \in Requests : Create(r)
    \/ \E h \in Hooks : Webhook(h)
    \/ \E g \in Inquirers : Inquire(g)
    \/ Provider /\ UNCHANGED hook

Spec == Init /\ [][Next]_vars

(* As in SqliteGateway: the reconciler loops and the provider answers at   *)
(* last.  Nothing is assumed of clients, webhooks or create handlers.      *)
Fairness ==
    \A c \in Reconcilers, k \in Keys :
        /\ SF_vars(ReconcileStart(c, k) /\ UNCHANGED hook)
        /\ SF_vars(InquiryAnswered(c) /\ inquiry[c].key = k /\ UNCHANGED hook)
        /\ SF_vars(ReconcileRead(c) /\ inquiry[c].key = k)
        /\ SF_vars(ReconcileWrite(c) /\ inquiry[c].key = k)

FairSpec == Spec /\ Fairness

------------------------------------------------------------------------------
(* Until its handler has written the outcome, nobody else has touched a    *)
(* row: it is Pending, without reference or action.  This is what makes    *)
(* the unconditional UPDATEs of record_creation_result, mark_unknown and   *)
(* mark_terminal_without_provider_reference harmless here: webhooks, GET   *)
(* and reconciler all need a reference to find the row.                    *)
CreatorIsSoleWriter ==
    \A r \in Requests : pc[r] = "calling" =>
        payments[KeyOf[r]] = [id |-> r, fingerprint |-> BodyOf[r],
                              status |-> "Pending", reference |-> None,
                              next_action |-> FALSE]

(* Of all the concurrent deliveries of an event, on any replica, at most   *)
(* one gets past the INSERT into webhook_events, and no later one does.    *)
OneDeliveryApplies ==
    \A h1 \in Hooks : hook[h1].at = "inserted" =>
        /\ hook[h1].event \in webhook_events
        /\ \A h2 \in Hooks \ {h1} :
              hook[h2].at = "inserted" => hook[h2].event # hook[h1].event

(* Lost updates heal: once the provider has settled a charge whose         *)
(* reference is stored, the payment comes to show that outcome and then    *)
(* shows it for ever, whatever stale writes were under way, and even if    *)
(* webhooks were consumed without being applied.                           *)
HealsWithReference ==
    \A r \in Requests, o \in {"Succeeded", "Failed"} :
        (/\ payments[KeyOf[r]].reference = r
         /\ charge[r] = IF o = "Succeeded" THEN "succeeded" ELSE "failed")
            ~> [](payments[KeyOf[r]].status = o)

(* docs/STATE_MACHINE.md lists "Succeeded -> Failed, Failed -> Succeeded,  *)
(* terminal -> Unknown" as illegal, and 'Every "no" case is rejected       *)
(* outright, not silently applied'.  The status apply_webhook_event and    *)
(* apply_reconciliation_result validate is the one they read before, and   *)
(* their UPDATE does not look at the row again: false.                     *)
TerminalIsNeverReopened ==
    [][\A k \in Keys :
          IsTerminal(payments[k].status) => payments'[k].status \notin Open]_vars

(* The PaymentStore trait on apply_webhook_event: "Atomically deduplicates *)
(* and applies a verified webhook".  A handler dropped between the INSERT  *)
(* and the UPDATE leaves the event consumed and not applied: false.        *)
ConsumedEventIsApplied ==
    \A e \in webhook_events :
        \/ \E h \in Hooks : hook[h].event = e /\ hook[h].at = "inserted"
        \/ event[e].status \notin {"Succeeded", "Failed"}
        \/ event[e].mismatch
        \/ payments[KeyOf[event[e].ref]].status \notin Open

==============================================================================
