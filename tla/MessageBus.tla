----------------------------- MODULE MessageBus -----------------------------
(***************************************************************************)
(* How stale payments are found out in the long run: reconciler.rs with    *)
(* its batch of the least recently updated rows, asking the provider       *)
(* itself or, if a message bus is configured, through the reconcile queue  *)
(* of amqp.rs; and the webhook queue beside it.  A payment is recorded     *)
(* with its provider reference.  The races inside one inquiry or delivery  *)
(* are the subject of SqliteGateway and PostgresGateway: an inquiry and    *)
(* the store call that follows it are one step here.                       *)
(***************************************************************************)
EXTENDS PaymentStatus, Naturals, Sequences, SequencesExt, FiniteSets

CONSTANTS
    MbRows,      \* payments
    BatchLimit,  \* rows of one pass
    MaxRetries,  \* OPENWRAPPER_AMQP_MAX_RETRIES
    MbSetups,    \* deployments to explore
    MbQueue,     \* bound on the length of a queue: publishers wait
    MbFaults     \* bound on restarts, closed channels and inquiries that fail

ASSUME MessageBusAssumption ==
    /\ BatchLimit \in Nat \ {0} /\ MaxRetries \in Nat
    /\ MbQueue \in Nat \ {0} /\ MbFaults \in Nat

VARIABLES
    mbSetup,     \* the deployment: is there a bus, which store, the payments
                 \* created in it, which of them Unknown, which the provider
                 \* never answers about, and which it sends webhooks for
    mbTruth,     \* what the provider knows of each payment
    mbStatus,    \* its status in the store
    mbAge,       \* the open rows, least recently updated first
    mbPass,      \* what is left of the reconciler's batch
    mbJobs,      \* reconcile queue: row and attempt
    mbWire,      \* events published that have not reached the broker
    mbHooks,     \* webhook queue: the row each event is about
    mbOpen,      \* the AMQP channel is open
    mbTold,      \* events answered 200
    mbConsumed,  \* webhook_events table
    mbLost,      \* history: events whose processing failed in the store,
    mbEarly,     \* that came before their payment had its reference, and
    mbCut,       \* that were on the wire when the channel broke
    mbFaults     \* faults so far

mbVars == <<mbSetup, mbTruth, mbStatus, mbAge, mbPass, mbJobs, mbWire, mbHooks,
            mbOpen, mbTold, mbConsumed, mbLost, mbEarly, mbCut, mbFaults>>

rowVars   == <<mbStatus, mbAge>>
hookVars  == <<mbWire, mbHooks>>
eventVars == <<mbTold, mbConsumed, mbLost, mbEarly, mbCut>>

BusInit ==
    /\ mbSetup \in MbSetups
    /\ mbTruth = [r \in MbRows |-> "Pending"]
    /\ mbStatus = [r \in MbRows |-> "none"]
    /\ mbAge = <<>>
    /\ mbPass = <<>> /\ mbJobs = <<>> /\ mbWire = <<>> /\ mbHooks = <<>>
    /\ mbOpen = mbSetup.bus
    /\ mbTold = {} /\ mbConsumed = {} /\ mbLost = {} /\ mbEarly = {} /\ mbCut = {}
    /\ mbFaults = 0

(* record_creation_result: the payment has its reference, and a status. *)
Recorded(r) ==
    /\ r \in mbSetup.rows /\ mbStatus[r] = "none"
    /\ mbStatus' = [mbStatus EXCEPT ![r] = IF r \in mbSetup.unknown THEN "Unknown" ELSE "Pending"]
    /\ mbAge' = Append(mbAge, r)
    /\ UNCHANGED <<mbSetup, mbTruth, mbPass, mbJobs, hookVars, mbOpen, eventVars, mbFaults>>

(* The provider settles the charge (external), perhaps before the gateway  *)
(* has recorded its answer, which only a webhook can show.                 *)
ProviderSettlesRow(r) ==
    /\ mbTruth[r] = "Pending"
    /\ mbStatus[r] # "none" \/ r \in mbSetup.hooked
    /\ mbTruth' = [mbTruth EXCEPT ![r] = "Succeeded"]
    /\ UNCHANGED <<mbSetup, rowVars, mbPass, mbJobs, hookVars, mbOpen, eventVars, mbFaults>>

------------------------------------------------------------------------------
(* The store. *)

(* UPDATE ... SET updated_at: an open row becomes the most recent one. *)
Touched(age, r) == IF r \in Range(age) THEN Append(Remove(age, r), r) ELSE age

(* touch_reconciliation_attempt *)
TouchAttempt(r) ==
    /\ mbAge' = Touched(mbAge, r)
    /\ UNCHANGED mbStatus

(* apply_reconciliation_result.  If the status stays as it is, the Postgres *)
(* store writes the row again and the SQLite store does not.                *)
ApplyResult(r, answer) ==
    LET from == mbStatus[r] IN
    \/ /\ from # answer /\ ValidTransition(from, answer)
       /\ mbStatus' = [mbStatus EXCEPT ![r] = answer]
       /\ mbAge' = IF answer \in Open THEN Touched(mbAge, r) ELSE Remove(mbAge, r)
    \/ /\ from = answer
       /\ mbAge' = IF mbSetup.store = "postgres" THEN Touched(mbAge, r) ELSE mbAge
       /\ UNCHANGED mbStatus
    \/ /\ ~ValidTransition(from, answer)
       /\ UNCHANGED rowVars

(* inquire_status answers, or is of no use: it answers Unknown, or fails.  *)
(* It always does so for the payments of mbSetup.down, and now and then    *)
(* for the others.                                                         *)
Answers(r) ==
    /\ r \notin mbSetup.down
    /\ ApplyResult(r, mbTruth[r])
    /\ UNCHANGED mbFaults

Useless(r) ==
    \/ r \in mbSetup.down /\ UNCHANGED mbFaults
    \/ r \notin mbSetup.down /\ mbFaults < MbFaults /\ mbFaults' = mbFaults + 1

------------------------------------------------------------------------------
(* The reconciler. *)

(* run_once: list_stale_unknown_payments, oldest updated_at first.  Passes *)
(* are further apart than MIN_AGE, so every open row is old enough.        *)
RunOnce ==
    /\ mbPass = <<>> /\ mbAge # <<>>
    /\ mbPass' = SubSeq(mbAge, 1, IF Len(mbAge) < BatchLimit THEN Len(mbAge) ELSE BatchLimit)
    /\ UNCHANGED <<mbSetup, mbTruth, rowVars, mbJobs, hookVars, mbOpen, eventVars, mbFaults>>

Visit(r) ==
    /\ mbPass # <<>> /\ Head(mbPass) = r
    /\ mbPass' = Tail(mbPass)
    /\ UNCHANGED <<mbSetup, mbTruth, hookVars, mbOpen, eventVars>>

(* Mutation: the Err arm of reconcile_inline does not touch the row.       *)
MutAfterError(r) == UNCHANGED rowVars

(* "inquiry failed, rotated in queue" *)
AfterError(r) == TouchAttempt(r)

(* reconcile_inline *)
InlineAnswered(r) ==
    /\ ~mbSetup.bus /\ Visit(r) /\ Answers(r) /\ UNCHANGED mbJobs

InlineUseless(r) ==
    /\ ~mbSetup.bus /\ Visit(r) /\ Useless(r) /\ UNCHANGED mbJobs
    /\ TouchAttempt(r) \/ AfterError(r)

(* publish_reconcile with attempt 0; on a closed channel it fails, which   *)
(* is logged.  The row is not touched either way.                          *)
PublishJob(r) ==
    /\ mbSetup.bus /\ Visit(r)
    /\ mbOpen /\ Len(mbJobs) < MbQueue
    /\ mbJobs' = Append(mbJobs, [row |-> r, attempt |-> 0])
    /\ UNCHANGED <<rowVars, mbFaults>>

PublishFails(r) ==
    /\ mbSetup.bus /\ Visit(r)
    /\ ~mbOpen
    /\ UNCHANGED <<mbJobs, rowVars, mbFaults>>

------------------------------------------------------------------------------
(* The consumers.  With prefetch 1 the message being processed is the head *)
(* of its queue, and leaves it when it is acknowledged, whatever           *)
(* processing it came to.                                                  *)

Consume(r) ==
    /\ mbOpen /\ mbJobs # <<>> /\ Head(mbJobs).row = r
    /\ UNCHANGED <<mbSetup, mbTruth, mbPass, hookVars, mbOpen, eventVars>>

(* process_reconcile_message *)
JobAnswered(r) == Consume(r) /\ Answers(r) /\ mbJobs' = Tail(mbJobs)

JobUnknown(r) == Consume(r) /\ Useless(r) /\ TouchAttempt(r) /\ mbJobs' = Tail(mbJobs)

(* The inquiry failed: a new message while attempts are left, if it can be *)
(* published; the row is not touched.                                      *)
JobFailed(r) ==
    LET retry == [row |-> r, attempt |-> Head(mbJobs).attempt + 1] IN
    /\ Consume(r) /\ Useless(r)
    /\ \/ retry.attempt < MaxRetries /\ mbJobs' = Append(Tail(mbJobs), retry)
       \/ mbJobs' = Tail(mbJobs)
    /\ UNCHANGED rowVars

(* POST /v1/webhooks/:provider with a bus: publish, then 200.  The channel *)
(* is not in confirm mode, so the publish is over once the message is on   *)
(* its way, and nobody looks whether the payment is known.  If the channel *)
(* is closed the answer is 500 and the provider delivers again; it may do  *)
(* so anyway.                                                              *)
AcceptWebhook(r) ==
    /\ r \in mbSetup.hooked /\ mbTruth[r] # "Pending"
    /\ mbOpen /\ Len(mbWire) + Len(mbHooks) < MbQueue
    /\ mbWire' = Append(mbWire, r)
    /\ mbTold' = mbTold \union {r}
    /\ UNCHANGED <<mbSetup, mbTruth, rowVars, mbPass, mbJobs, mbHooks, mbOpen,
                   mbConsumed, mbLost, mbEarly, mbCut, mbFaults>>

(* The broker has the message (external). *)
BrokerTakes ==
    /\ mbOpen /\ mbWire # <<>>
    /\ mbHooks' = Append(mbHooks, Head(mbWire))
    /\ mbWire' = Tail(mbWire)
    /\ UNCHANGED <<mbSetup, mbTruth, rowVars, mbPass, mbJobs, mbOpen, eventVars, mbFaults>>

Delivered(r) == mbOpen /\ mbHooks # <<>> /\ Head(mbHooks) = r

(* process_webhook_message: apply_webhook_event consumes and applies the   *)
(* event, or has seen it before.                                           *)
ApplyEvent(r) ==
    /\ Delivered(r) /\ mbStatus[r] # "none"
    /\ mbConsumed' = mbConsumed \union {r}
    /\ \/ /\ r \notin mbConsumed /\ mbStatus[r] \in Open
          /\ mbStatus' = [mbStatus EXCEPT ![r] = mbTruth[r]]
          /\ mbAge' = Remove(mbAge, r)
       \/ /\ r \in mbConsumed \/ mbStatus[r] \notin Open
          /\ UNCHANGED rowVars
    /\ UNCHANGED <<mbSetup, mbTruth, mbTold, mbLost, mbEarly>>

HookApplied(r) ==
    /\ ApplyEvent(r)
    /\ mbHooks' = Tail(mbHooks)
    /\ UNCHANGED <<mbPass, mbJobs, mbWire, mbOpen, mbCut, mbFaults>>

(* No payment has that reference yet: a warning, nothing is consumed, and  *)
(* the message is acknowledged.                                            *)
HookNotFound(r) ==
    /\ Delivered(r) /\ mbStatus[r] = "none"
    /\ mbHooks' = Tail(mbHooks)
    /\ mbEarly' = mbEarly \union {r}
    /\ UNCHANGED <<mbSetup, mbTruth, rowVars, mbPass, mbJobs, mbWire, mbOpen,
                   mbTold, mbConsumed, mbLost, mbCut, mbFaults>>

(* The store fails; the error is logged and the message acknowledged. *)
HookFailed(r) ==
    /\ Delivered(r)
    /\ mbHooks' = Tail(mbHooks)
    /\ mbLost' = mbLost \union {r}
    /\ UNCHANGED <<mbSetup, mbTruth, rowVars, mbPass, mbJobs, mbWire, mbOpen,
                   mbTold, mbConsumed, mbEarly, mbCut, mbFaults>>

------------------------------------------------------------------------------
(* Mutation: messages are consumed without acknowledgement (no_ack), and   *)
(* the one in hand is gone with its consumer.                              *)
MutUnacknowledged(queue) == IF queue = <<>> THEN <<>> ELSE Tail(queue)

(* What the broker keeps when the consumer goes away: the message in hand  *)
(* too.                                                                    *)
Unacknowledged(queue) == queue

(* The channel is gone.  What the broker has it keeps; the messages still  *)
(* on the way to it, the last of the jobs too, are gone.                   *)
Fault ==
    /\ mbFaults < MbFaults
    /\ mbFaults' = mbFaults + 1
    /\ mbHooks' = Unacknowledged(mbHooks)
    /\ mbWire' = <<>>
    /\ mbCut' = mbCut \union Range(mbWire)
    /\ \E n \in 0 .. Len(mbJobs) : mbJobs' = SubSeq(mbJobs, 1, n)

(* The gateway dies and is started again: the queues are durable and their *)
(* messages persistent.  If the broker cannot be reached at the start, the *)
(* gateway does without a bus.                                             *)
Restart ==
    /\ Fault
    /\ mbPass' = <<>>
    /\ mbSetup' \in {mbSetup, [mbSetup EXCEPT !.bus = FALSE]}
    /\ mbOpen' = mbSetup'.bus
    /\ UNCHANGED <<mbTruth, rowVars, mbTold, mbConsumed, mbLost, mbEarly>>

(* The channel breaks: both consumer tasks exit and no publish succeeds    *)
(* any more, while the gateway runs on; nothing opens it again but a       *)
(* restart.                                                                *)
ChannelCloses ==
    /\ Fault
    /\ mbOpen /\ mbOpen' = FALSE
    /\ UNCHANGED <<mbSetup, mbTruth, rowVars, mbPass, mbTold, mbConsumed, mbLost, mbEarly>>

(* The channel breaks between apply_webhook_event and the acknowledgement. *)
AckFails(r) ==
    /\ Fault
    /\ ApplyEvent(r)
    /\ mbOpen' = FALSE
    /\ UNCHANGED mbPass

BusNext ==
    \/ RunOnce \/ BrokerTakes \/ Restart \/ ChannelCloses
    \/ \E r \in MbRows :
          \/ Recorded(r) \/ ProviderSettlesRow(r)
          \/ InlineAnswered(r) \/ InlineUseless(r)
          \/ PublishJob(r) \/ PublishFails(r)
          \/ JobAnswered(r) \/ JobUnknown(r) \/ JobFailed(r)
          \/ AcceptWebhook(r) \/ AckFails(r)
          \/ HookApplied(r) \/ HookNotFound(r) \/ HookFailed(r)

(* The reconciler and the reconcile consumer are tasks that loop, and each *)
(* of their calls returns.  Nothing is assumed of webhooks.                *)
BusFairness ==
    /\ WF_mbVars(RunOnce)
    /\ WF_mbVars(\E r \in MbRows : \/ InlineAnswered(r) \/ InlineUseless(r)
                                   \/ PublishJob(r) \/ PublishFails(r))
    /\ WF_mbVars(\E r \in MbRows : JobAnswered(r) \/ JobUnknown(r) \/ JobFailed(r))

BusSpec == BusInit /\ [][BusNext]_mbVars /\ BusFairness

------------------------------------------------------------------------------
(* An event answered 200 is on its way, in the queue or in webhook_events, *)
(* however often the gateway dies or the channel closes, with three        *)
(* exceptions: the channel broke before the broker had it (publish_webhook *)
(* awaits no confirmation), it came before the payment had its reference   *)
(* (PaymentNotFound is acknowledged), or the store failed.  So a message   *)
(* the broker has taken is never lost by a restart, and one about a        *)
(* recorded payment only by an error of the store.                         *)
AcceptedEventSurvives ==
    \A r \in mbTold :
        \/ r \in mbConsumed \union Range(mbHooks) \union Range(mbWire)
        \/ r \in mbCut \union mbEarly \union mbLost

(* Rows that keep their place at the head of every batch: the answer is    *)
(* Pending and leaves the row as it is, or the inquiry fails on the bus.   *)
KeepsPlace(r) ==
    /\ mbStatus[r] \in Open
    /\ IF r \in mbSetup.down THEN mbSetup.bus
       ELSE mbTruth[r] = "Pending" /\ (mbSetup.store = "sqlite" \/ mbStatus[r] = "Unknown")

Crowded(r) == Cardinality({q \in MbRows \ {r} : KeepsPlace(q)}) >= BatchLimit

(* Without any webhook the reconciler brings each settled payment the      *)
(* provider answers about to its outcome, whatever happens to inquiries    *)
(* about others (touch_reconciliation_attempt), with two exceptions: the   *)
(* batch is for ever full of rows that keep their place, or the channel    *)
(* has closed and nobody restarts the gateway.                             *)
ReconcilerReachesAll ==
    \A r \in MbRows :
        \/ (mbTruth[r] # "Pending" /\ r \notin mbSetup.down) ~> (mbStatus[r] \notin Open)
        \/ <>[]Crowded(r)
        \/ <>[](mbSetup.bus /\ ~mbOpen)

==============================================================================
