---------------------------- MODULE SqliteGateway ----------------------------
(***************************************************************************)
(* The gateway on its SQLite store.  Every store operation runs under one  *)
(* Mutex<Connection> (webhooks in a transaction besides), so each is one   *)
(* step, and each re-reads the row and validates the transition.           *)
(***************************************************************************)
EXTENDS GatewayBase

vars == <<payments, webhook_events, pc, charge, event, inquiry>>

TypeOK == BaseTypeOK

Init == BaseInit

------------------------------------------------------------------------------
(* The end of POST /v1/payments: the provider call has returned. *)

(* Ok(result): record_creation_result stores the reference, the status and *)
(* the next action, if the transition is legal and no other reference is   *)
(* stored.                                                                 *)
RecordCreation(r) ==
    LET k == KeyOf[r] IN
    /\ pc[r] = "calling"
    /\ charge[r] \in Created
    /\ \E s \in CreationStatuses, action \in BOOLEAN :
          payments' = IF /\ ValidTransition(payments[k].status, s)
                         /\ payments[k].reference \in {None, r}
                      THEN [payments EXCEPT ![k].reference = r,
                                            ![k].status = s,
                                            ![k].next_action = action]
                      ELSE payments
    /\ pc' = [pc EXCEPT ![r] = "recorded"]
    /\ UNCHANGED <<webhook_events, charge, event, inquiry>>

(* update_status_only, the body of mark_unknown and                        *)
(* mark_terminal_without_provider_reference.                               *)
UpdateStatusOnly(k, s) ==
    payments' = IF ValidTransition(payments[k].status, s)
                THEN SetStatus(k, s) ELSE payments

(* Err(e), and e rules out that the provider took the order. *)
MarkFailed(r) ==
    /\ pc[r] = "calling"
    /\ charge[r] = "refused"
    /\ UpdateStatusOnly(KeyOf[r], "Failed")
    /\ pc' = [pc EXCEPT ![r] = "failed"]
    /\ UNCHANGED <<webhook_events, charge, event, inquiry>>

(* Mutation: an ambiguous error is taken for a failure.                    *)
MutMarkUnknown(r) ==
    /\ pc[r] = "calling"
    /\ UpdateStatusOnly(KeyOf[r], "Failed")
    /\ pc' = [pc EXCEPT ![r] = "unknown"]
    /\ UNCHANGED <<webhook_events, charge, event, inquiry>>

(* Err(e), and e is ambiguous: a timeout, a network or a provider error.   *)
(* The provider may have taken the order, may refuse it, or may still be   *)
(* about to receive it.                                                    *)
MarkUnknown(r) ==
    /\ pc[r] = "calling"
    /\ UpdateStatusOnly(KeyOf[r], "Unknown")
    /\ pc' = [pc EXCEPT ![r] = "unknown"]
    /\ UNCHANGED <<webhook_events, charge, event, inquiry>>

------------------------------------------------------------------------------
(* POST /v1/webhooks/:provider, for a delivery that passed verification.   *)

(* Mutation: a transition is written without being validated.              *)
MutApplyTransition(k, s) == SetStatus(k, s)

(* apply_sqlite_transition: what the row becomes. *)
ApplyTransition(k, s) ==
    IF payments[k].status # s /\ ValidTransition(payments[k].status, s)
    THEN SetStatus(k, s) ELSE payments

(* Mutation: the event id is consumed although no payment was found.       *)
MutApplyWebhookEvent(e) ==
    /\ event[e] # NoEvent
    /\ e \notin webhook_events
    /\ webhook_events' = webhook_events \union {e}
    /\ payments' = IF /\ FindByReference(event[e].ref) # {}
                      /\ ~event[e].mismatch
                   THEN ApplyTransition(KeyOf[event[e].ref], event[e].status)
                   ELSE payments
    /\ UNCHANGED <<pc, charge, event, inquiry>>

(* apply_webhook_event, one transaction: find the payment, record the      *)
(* event id, compare the amount, apply the transition.  A delivery that    *)
(* finds no payment, or an event id already recorded, rolls back and       *)
(* changes nothing: those deliveries are stuttering steps.                 *)
ApplyWebhookEvent(e) ==
    /\ event[e] # NoEvent
    /\ e \notin webhook_events
    /\ \E k \in FindByReference(event[e].ref) :
          payments' = IF event[e].mismatch THEN payments
                      ELSE ApplyTransition(k, event[e].status)
    /\ webhook_events' = webhook_events \union {e}
    /\ UNCHANGED <<pc, charge, event, inquiry>>

------------------------------------------------------------------------------
(* apply_reconciliation_result: the row is read again under the lock. *)
ApplyReconciliation(g) ==
    /\ inquiry[g].at = "answered"
    /\ payments' = ApplyTransition(inquiry[g].key, inquiry[g].answer)
    /\ inquiry' = [inquiry EXCEPT ![g] = NoInquiry]
    /\ UNCHANGED <<webhook_events, pc, charge, event>>

------------------------------------------------------------------------------
Create(r) ==
    \/ Begin(r)
    \/ RecordCreation(r)
    \/ MarkFailed(r)
    \/ MarkUnknown(r)
    \/ CancelCreate(r)

Inquire(g) ==
    \/ \E k \in Keys : GetStart(g, k) \/ ReconcileStart(g, k)
    \/ InquiryAnswered(g)
    \/ InquiryDropped(g)
    \/ ApplyReconciliation(g)

Next ==
    \/ \E r \in Requests : Create(r)
    \/ \E e \in EventIds : ApplyWebhookEvent(e)
    \/ \E g \in Inquirers : Inquire(g)
    \/ Provider

Spec == Init /\ [][Next]_vars

(* The reconciler's tokio task loops for ever, and one pass visits every   *)
(* stale row while there are fewer than BATCH_LIMIT of them; a provider    *)
(* that is asked again and again answers with the actual status at last.   *)
(* Nothing is assumed of clients, of webhooks or of the create handler.    *)
Fairness ==
    \A c \in Reconcilers, k \in Keys :
        /\ SF_vars(ReconcileStart(c, k))
        /\ SF_vars(InquiryAnswered(c) /\ inquiry[c].key = k)
        /\ SF_vars(ApplyReconciliation(c) /\ inquiry[c].key = k)

FairSpec == Spec /\ Fairness

(* Besides, a client that polls GET for ever and a provider that signs and *)
(* delivers its events: every path the gateway has for learning an outcome *)
(* is exercised.                                                           *)
DiligentSpec ==
    /\ FairSpec
    /\ \A g \in Getters, k \in Keys :
          /\ SF_vars(GetStart(g, k))
          /\ SF_vars(InquiryAnswered(g) /\ inquiry[g].key = k)
          /\ SF_vars(ApplyReconciliation(g) /\ inquiry[g].key = k)
    /\ \A e \in EventIds :
          /\ \A r \in Requests : WF_vars(EmitEvent(e, r))
          /\ WF_vars(ApplyWebhookEvent(e))

------------------------------------------------------------------------------
(* Safety. *)

(* Recording an event id and acting on the event are inseparable: once a   *)
(* final event with an acceptable amount is in webhook_events, its payment *)
(* has a final status, so discarding every redelivery as Duplicate loses   *)
(* nothing (apply_webhook_event's transaction).                            *)
ConsumedEventIsApplied ==
    \A e \in webhook_events :
        event[e].status \in {"Succeeded", "Failed"} /\ ~event[e].mismatch
            => payments[KeyOf[event[e].ref]].status = event[e].status

(* The refinement mapping: the status a merchant is shown for a key, and   *)
(* what the provider holds for it.                                         *)
Shown == [k \in Keys |-> IF HasRow(k) THEN payments[k].status ELSE "Absent"]
ChargeOf(k) == IF HasRow(k) THEN charge[payments[k].id] ELSE "none"
Truth == [k \in Keys |-> IF ChargeOf(k) = "sent" THEN "none" ELSE ChargeOf(k)]

Promise == INSTANCE PaymentPromise WITH shown <- Shown, truth <- Truth

(* The gateway keeps the promise of PaymentPromise: at most one charge per *)
(* key, statuses only along the state machine, final words only when true. *)
PromiseKept == Promise!Spec

------------------------------------------------------------------------------
(* Liveness. *)

(* Once the provider has settled a charge whose reference is stored, the   *)
(* payment reaches that outcome even if every webhook is lost: the         *)
(* reconciler needs nothing but the reference.                             *)
SettlesWithReference ==
    \A r \in Requests, o \in {"Succeeded", "Failed"} :
        (/\ payments[KeyOf[r]].reference = r
         /\ charge[r] = IF o = "Succeeded" THEN "succeeded" ELSE "failed")
            ~> payments[KeyOf[r]].status = o

(* docs/STATE_MACHINE.md: "What happens with Provider = SUCCESS,           *)
(* OpenWrapper = UNKNOWN: the next GET (or the next webhook delivery)      *)
(* resolves it to Succeeded".  The create handler's mark_unknown stores no *)
(* reference, and GET, reconciler and webhooks all look one up: false.     *)
UnknownIsResolved ==
    \A r \in Requests :
        (/\ payments[KeyOf[r]].id = r
         /\ payments[KeyOf[r]].status = "Unknown"
         /\ charge[r] = "succeeded")
            ~> payments[KeyOf[r]].status = "Succeeded"

==============================================================================
