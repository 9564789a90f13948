----------------------------- MODULE GatewayBase -----------------------------
(***************************************************************************)
(* What the two store backends share: the payments table, the create       *)
(* handler up to its provider call, the provider as the gateway sees it,   *)
(* and the status inquiries of GET /v1/payments/:id and of the background  *)
(* reconciler.  SqliteGateway and PostgresGateway extend this module with  *)
(* the statements their store really executes.                             *)
(*                                                                         *)
(* A handler runs on tokio between two awaits without interference, so an  *)
(* action is the code from one await that touches shared state to the      *)
(* next.  A payment id, and the provider reference of the charge made for  *)
(* it, is named by the create request that minted it.                      *)
(***************************************************************************)
EXTENDS PaymentStatus

CONSTANTS
    Keys,         \* Idempotency-Key values
    Bodies,       \* request bodies, up to their RequestFingerprint
    Requests,     \* POST /v1/payments calls
    KeyOf,        \* the Idempotency-Key of each call
    BodyOf,       \* the body of each call
    Getters,      \* GET /v1/payments/:id calls in progress
    Reconcilers,  \* reconciliation loops (one per gateway replica)
    EventIds,     \* webhook event ids
    None

ASSUME GatewayAssumption ==
    /\ KeyOf \in [Requests -> Keys]
    /\ BodyOf \in [Requests -> Bodies]
    /\ None \notin Requests \union Bodies \union Keys
    /\ Getters \intersect Reconcilers = {}

VARIABLES
    payments,       \* the payments table, by its UNIQUE idempotency_key
    webhook_events, \* the event ids in the webhook_events table
    pc,             \* where each create handler is
    charge,         \* the provider's record of the charge each call asked for
    event,          \* the webhook events the provider has signed
    inquiry         \* the inquiry each GET and each reconciler is making

Inquirers == Getters \union Reconcilers

(* A row of the payments table; id = None where no row was inserted. *)
Row == [id          : Requests \union {None},
        fingerprint : Bodies \union {None},
        status      : Statuses,
        reference   : Requests \union {None},
        next_action : BOOLEAN]

NoRow == [id |-> None, fingerprint |-> None, status |-> "Pending",
          reference |-> None, next_action |-> FALSE]

(* Where a create handler ends up once begin_payment let it proceed. *)
Proceeded == {"calling", "recorded", "failed", "unknown", "cancelled"}
Handler   == Proceeded \union {"new", "existing", "conflict"}

(* The provider took the order, whatever became of it. *)
Created == {"open", "succeeded", "failed"}
Charge  == Created \union {"none", "sent", "refused"}

(* The statuses the adapters map provider answers to. *)
Reported == {"Pending", "Succeeded", "Failed", "Unknown"}

(* mismatch: the event carries an amount, and not the one that is stored.  *)
Event   == [ref      : Requests \union {None},
            status   : Reported,
            mismatch : BOOLEAN]
NoEvent == [ref |-> None, status |-> "Unknown", mismatch |-> FALSE]

(* Only the Postgres store has a step between reading the row and writing  *)
(* the answer: an inquiry is "writing" there.                              *)
Inquiry   == [at     : {"idle", "asking", "answered", "writing"},
              key    : Keys \union {None},
              ref    : Requests \union {None},
              was    : Statuses,
              answer : Reported]
NoInquiry == [at |-> "idle", key |-> None, ref |-> None,
              was |-> "Unknown", answer |-> "Unknown"]

BaseTypeOK ==
    /\ payments \in [Keys -> Row]
    /\ webhook_events \subseteq EventIds
    /\ pc \in [Requests -> Handler]
    /\ charge \in [Requests -> Charge]
    /\ event \in [EventIds -> Event]
    /\ inquiry \in [Inquirers -> Inquiry]

BaseInit ==
    /\ payments = [k \in Keys |-> NoRow]
    /\ webhook_events = {}
    /\ pc = [r \in Requests |-> "new"]
    /\ charge = [r \in Requests |-> "none"]
    /\ event = [e \in EventIds |-> NoEvent]
    /\ inquiry = [g \in Inquirers |-> NoInquiry]

HasRow(k) == payments[k].id # None

(* Mutation: a webhook finds the payment by the order id the gateway sent  *)
(* to the provider, before any reference is stored.                        *)
MutFindByReference(ref) == {k \in Keys : payments[k].id = ref}

(* SELECT ... WHERE provider_reference = ref: the rows a webhook can find. *)
FindByReference(ref) == {k \in Keys : payments[k].reference = ref}

(* Mutation: a terminal status leaves the next action in place.            *)
MutSetStatus(k, s) == [payments EXCEPT ![k].status = s]

(* UPDATE payments SET status = s, clearing next_action_json when s is     *)
(* terminal: the two query strings every status write chooses between.     *)
SetStatus(k, s) ==
    [payments EXCEPT ![k].status = s,
                     ![k].next_action = @ /\ ~IsTerminal(s)]

------------------------------------------------------------------------------
(* POST /v1/payments up to the provider call. *)

(* Mutation: an Unknown outcome lets a retry call the provider again.      *)
MutMayProceed(r) == LET p == payments[KeyOf[r]]
                    IN  p.id = None \/ p.status = "Unknown"

(* The INSERT that the UNIQUE constraint on idempotency_key admits. *)
MayProceed(r) == ~HasRow(KeyOf[r])

(* Mutation: the stored fingerprint is not consulted on a replay.          *)
MutSameRequest(r) == payments[KeyOf[r]].id # None

(* The replay carries the body the row was inserted with. *)
SameRequest(r) == payments[KeyOf[r]].fingerprint = BodyOf[r]

(* begin_payment_with_owner inserted the row: Proceed.  The handler goes   *)
(* straight into provider.create_payment, so the order is on the wire.     *)
BeginProceed(r) ==
    /\ pc[r] = "new"
    /\ MayProceed(r)
    /\ payments' = [payments EXCEPT ![KeyOf[r]] =
                        [id |-> r, fingerprint |-> BodyOf[r],
                         status |-> "Pending", reference |-> None,
                         next_action |-> FALSE]]
    /\ pc' = [pc EXCEPT ![r] = "calling"]
    /\ charge' = [charge EXCEPT ![r] = "sent"]
    /\ UNCHANGED <<webhook_events, event, inquiry>>

(* The key is taken by the same request: the row is returned, and nothing  *)
(* is sent to the provider.                                                *)
BeginReturnExisting(r) ==
    /\ pc[r] = "new"
    /\ ~MayProceed(r)
    /\ SameRequest(r)
    /\ pc' = [pc EXCEPT ![r] = "existing"]
    /\ UNCHANGED <<payments, webhook_events, charge, event, inquiry>>

(* The key is taken by another request: 409 idempotency_conflict. *)
BeginConflict(r) ==
    /\ pc[r] = "new"
    /\ ~MayProceed(r)
    /\ ~SameRequest(r)
    /\ pc' = [pc EXCEPT ![r] = "conflict"]
    /\ UNCHANGED <<payments, webhook_events, charge, event, inquiry>>

(* The handler dies at its await: the 30 s TimeoutLayer drops its future,  *)
(* the client goes away, the process crashes, or the store call that       *)
(* should have recorded the outcome fails.                                 *)
CancelCreate(r) ==
    /\ pc[r] = "calling"
    /\ pc' = [pc EXCEPT ![r] = "cancelled"]
    /\ UNCHANGED <<payments, webhook_events, charge, event, inquiry>>

Begin(r) == BeginProceed(r) \/ BeginReturnExisting(r) \/ BeginConflict(r)

------------------------------------------------------------------------------
(* The provider (external): it takes an order that is on the wire, refuses *)
(* it for good, or never sees it; a taken order settles once, for good;    *)
(* what it reports of an order was true when it said so.                   *)

AcceptCharge(r) ==
    /\ charge[r] = "sent"
    /\ charge' = [charge EXCEPT ![r] = "open"]
    /\ UNCHANGED <<payments, webhook_events, pc, event, inquiry>>

(* An error is_definite_non_occurrence classifies: bad input, credentials, *)
(* configuration, capability, rate limit.                                  *)
RefuseCharge(r) ==
    /\ charge[r] = "sent"
    /\ charge' = [charge EXCEPT ![r] = "refused"]
    /\ UNCHANGED <<payments, webhook_events, pc, event, inquiry>>

SettleCharge(r) ==
    /\ charge[r] = "open"
    /\ \E outcome \in {"succeeded", "failed"} :
          charge' = [charge EXCEPT ![r] = outcome]
    /\ UNCHANGED <<payments, webhook_events, pc, event, inquiry>>

(* Mutation: the adapter passes the provider's own word on.                *)
MutReportable(r) == {charge[r]}

(* The statuses the adapters can derive from the provider's record.  An    *)
(* answer they do not recognise is Unknown, never a guess.                 *)
Reportable(r) ==
    {"Unknown"} \union
    IF charge[r] = "open" THEN {"Pending"}
    ELSE IF charge[r] = "succeeded" THEN {"Succeeded"}
    ELSE IF charge[r] = "failed" THEN {"Failed"} ELSE {}

(* A webhook event is signed with what is true now.  It is delivered any   *)
(* number of times, at any later moment, in any order.                     *)
EmitEvent(e, r) ==
    /\ event[e] = NoEvent
    /\ charge[r] \in Created
    /\ \E s \in Reportable(r), m \in BOOLEAN :
          event' = [event EXCEPT ![e] = [ref |-> r, status |-> s, mismatch |-> m]]
    /\ UNCHANGED <<payments, webhook_events, pc, charge, inquiry>>

Provider ==
    \/ \E r \in Requests : AcceptCharge(r) \/ RefuseCharge(r) \/ SettleCharge(r)
    \/ \E e \in EventIds, r \in Requests : EmitEvent(e, r)

------------------------------------------------------------------------------
(* Status inquiries. *)

(* The row a GET asks the provider about. *)
GetAsks(k) ==
    /\ HasRow(k)
    /\ ~IsTerminal(payments[k].status)
    /\ payments[k].reference # None

(* Mutation: the reconciler lists Unknown payments only, as its name says. *)
MutStaleUnknown(k) ==
    /\ HasRow(k)
    /\ payments[k].status = "Unknown"
    /\ payments[k].reference # None

(* The rows list_stale_unknown_payments returns; their age is abstracted.  *)
StaleUnknown(k) ==
    /\ HasRow(k)
    /\ payments[k].status \in Open
    /\ payments[k].reference # None

StartInquiry(g, k) ==
    /\ inquiry[g].at = "idle"
    /\ inquiry' = [inquiry EXCEPT ![g] =
                       [at |-> "asking", key |-> k,
                        ref |-> payments[k].reference,
                        was |-> payments[k].status, answer |-> "Unknown"]]
    /\ UNCHANGED <<payments, webhook_events, pc, charge, event>>

GetStart(g, k)       == g \in Getters /\ GetAsks(k) /\ StartInquiry(g, k)
ReconcileStart(g, k) == g \in Reconcilers /\ StaleUnknown(k) /\ StartInquiry(g, k)

(* What the caller does with the answer: GET drops one that repeats the    *)
(* status it read, the reconciler applies that too; both drop Unknown.     *)
WorthApplying(g, s) ==
    /\ s # "Unknown"
    /\ g \in Getters => s # inquiry[g].was

(* provider.inquire_status answers; the answer may be stale when applied.  *)
InquiryAnswered(g) ==
    /\ inquiry[g].at = "asking"
    /\ \E s \in Reportable(inquiry[g].ref) :
          /\ WorthApplying(g, s)
          /\ inquiry' = [inquiry EXCEPT ![g].at = "answered", ![g].answer = s]
    /\ UNCHANGED <<payments, webhook_events, pc, charge, event>>

(* The inquiry fails, is dropped, or its answer is not worth applying: the *)
(* reconciler's touch_reconciliation_attempt moves only updated_at.        *)
InquiryDropped(g) ==
    /\ inquiry[g].at # "idle"
    /\ inquiry' = [inquiry EXCEPT ![g] = NoInquiry]
    /\ UNCHANGED <<payments, webhook_events, pc, charge, event>>

------------------------------------------------------------------------------
(* Safety, on either store. *)

(* No two create calls with one Idempotency-Key ever reach the provider:   *)
(* whatever the retries, crashes and ambiguous outcomes, the customer      *)
(* cannot be charged twice (invariant I6, the UNIQUE insert of             *)
(* begin_payment_with_owner and the ReturnExisting arm of the handler).    *)
AtMostOneCharge ==
    \A r1, r2 \in Requests :
        r1 # r2 /\ KeyOf[r1] = KeyOf[r2] =>
            charge[r1] = "none" \/ charge[r2] = "none"

(* A replay is answered from the payment of an identical request, and a    *)
(* conflict is only reported for a different one: boundary 1 of            *)
(* docs/IDEMPOTENCY.md as begin_payment_with_owner implements it.          *)
ReplayIsSameRequest ==
    \A r \in Requests :
        /\ pc[r] = "existing" =>
              \E w \in Requests : /\ KeyOf[w] = KeyOf[r]
                                  /\ BodyOf[w] = BodyOf[r]
                                  /\ pc[w] \in Proceeded
        /\ pc[r] = "conflict" =>
              \E w \in Requests : /\ KeyOf[w] = KeyOf[r]
                                  /\ BodyOf[w] # BodyOf[r]
                                  /\ pc[w] \in Proceeded

(* The stored outcome is the provider's: a payment shown Succeeded was     *)
(* paid, and one shown Failed is not open at the provider, whoever wrote   *)
(* the status (create handler, webhook, GET or reconciler) and however     *)
(* stale its information was (invariant I5).                               *)
StoredOutcomeIsTrue ==
    \A k \in Keys : HasRow(k) =>
        LET p == payments[k] IN
        /\ p.status = "Succeeded" => charge[p.id] = "succeeded"
        /\ p.status = "Failed" => charge[p.id] \in {"failed", "refused"}

(* A settled payment offers the customer nothing left to do: no checkout   *)
(* URL or kiosk code survives the transition, and none is stored after it  *)
(* (next_action_json in record_creation_result and the status updates).    *)
SettledHasNoAction ==
    \A k \in Keys : payments[k].status \notin Open => ~payments[k].next_action

(* What s says of the charge of r is so. *)
Truthful(r, s) ==
    /\ s = "Succeeded" => charge[r] = "succeeded"
    /\ s = "Failed" => charge[r] = "failed"

(* A row belongs to the one handler that begin_payment let through. *)
RowsHaveOwners ==
    \A k \in Keys :
        LET p == payments[k] IN
        IF p.id = None THEN p = NoRow
        ELSE /\ KeyOf[p.id] = k
             /\ BodyOf[p.id] = p.fingerprint
             /\ pc[p.id] \in Proceeded
             /\ p.status \in Reported
             /\ p.reference \in {None, p.id}

OwnersHaveRows ==
    \A r \in Requests : pc[r] \in Proceeded => payments[KeyOf[r]].id = r

ChargesHaveOwners ==
    \A r \in Requests : charge[r] # "none" => pc[r] \in Proceeded

EventsAreTrue ==
    /\ \A e \in EventIds : event[e] # NoEvent =>
          event[e].ref \in Requests /\ Truthful(event[e].ref, event[e].status)
    /\ \A e \in webhook_events : event[e] # NoEvent

InquiriesAreTrue ==
    \A g \in Inquirers : inquiry[g].at # "idle" =>
        /\ inquiry[g].key \in Keys
        /\ inquiry[g].ref \in Requests
        /\ payments[inquiry[g].key].id = inquiry[g].ref
        /\ inquiry[g].at # "asking" => Truthful(inquiry[g].ref, inquiry[g].answer)

(* Rows, handlers, charges, events and inquiries agree about who owns      *)
(* which payment, and nobody holds a report that is false: what the store  *)
(* operations rely on, and what makes the other invariants inductive.      *)
Coherent ==
    /\ RowsHaveOwners
    /\ OwnersHaveRows
    /\ ChargesHaveOwners
    /\ EventsAreTrue
    /\ InquiriesAreTrue

==============================================================================
