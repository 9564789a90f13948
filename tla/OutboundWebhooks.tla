-------------------------- MODULE OutboundWebhooks --------------------------
(***************************************************************************)
(* outbound_webhook.rs: the events create_refund emits, the bounded        *)
(* channel to the one worker task, and its POSTs to the merchant's         *)
(* endpoints.  The events ledger is written before the channel, and the    *)
(* channel lives in memory.                                                *)
(***************************************************************************)
EXTENDS Naturals, Sequences, SequencesExt, FiniteSets

CONSTANTS
    ObEvents,     \* events to emit, each by a refund handler of its own
    ObEndpoints,  \* merchant_webhook_endpoints, in the order they are listed
    ObWanted,     \* those subscribed to payment.refunded, or to "*"
    ObCapacity,   \* of the mpsc channel (1024)
    ObFaults      \* bound on restarts and store errors

ASSUME OutboundAssumption ==
    /\ ObWanted \subseteq Range(ObEndpoints)
    /\ ObCapacity \in Nat \ {0} /\ ObFaults \in Nat

VARIABLES
    obLedger,   \* the events table
    obHandler,  \* where each refund handler is
    obChannel,  \* events sent to the worker
    obActive,   \* endpoints that exist and are active
    obTask,     \* the event the worker is dispatching, and what is left of
                \* the endpoints it has read
    obPosted,   \* [event, endpoint, ok]: POSTs made
    obRows,     \* [event, endpoint, ok]: merchant_webhook_deliveries
    obLost,     \* history: events dropped by a restart or a failed read
    obFaults    \* faults so far

obVars == <<obLedger, obHandler, obChannel, obActive, obTask, obPosted,
            obRows, obLost, obFaults>>

NoTask == [event |-> "none", left |-> <<>>]

OutboundInit ==
    /\ obLedger = {} /\ obChannel = <<>> /\ obTask = NoTask
    /\ obHandler = [e \in ObEvents |-> "new"]
    /\ obActive = Range(ObEndpoints)
    /\ obPosted = {} /\ obRows = {} /\ obLost = {}
    /\ obFaults = 0

Moves(e, from, to) ==
    /\ obHandler[e] = from
    /\ obHandler' = [obHandler EXCEPT ![e] = to]

(* emit_event: record_event ... *)
RecordEvent(e) ==
    /\ Moves(e, "new", "sending")
    /\ obLedger' = obLedger \union {e}
    /\ UNCHANGED <<obChannel, obActive, obTask, obPosted, obRows, obLost, obFaults>>

(* ... and if that fails, nothing is sent; create_refund ignores it. *)
RecordEventFails(e) ==
    /\ obFaults < ObFaults
    /\ Moves(e, "new", "done")
    /\ obFaults' = obFaults + 1
    /\ UNCHANGED <<obLedger, obChannel, obActive, obTask, obPosted, obRows, obLost>>

(* ... then tx.send, which waits while the channel is full. *)
Send(e) ==
    /\ Moves(e, "sending", "done")
    /\ Len(obChannel) < ObCapacity
    /\ obChannel' = Append(obChannel, e)
    /\ UNCHANGED <<obLedger, obActive, obTask, obPosted, obRows, obLost, obFaults>>

(* The 30 s TimeoutLayer drops a handler that waits for the channel: the   *)
(* refund is recorded, its event is in the ledger, and never sent.         *)
DropHandler(e) ==
    /\ Moves(e, "sending", "dropped")
    /\ UNCHANGED <<obLedger, obChannel, obActive, obTask, obPosted, obRows, obLost, obFaults>>

(* POST /v1/webhook_endpoints *)
CreateEndpoint(p) ==
    /\ p \notin obActive
    /\ obActive' = obActive \union {p}
    /\ UNCHANGED <<obLedger, obHandler, obChannel, obTask, obPosted, obRows, obLost, obFaults>>

(* DELETE /v1/webhook_endpoints/:id *)
DeleteEndpoint(p) ==
    /\ p \in obActive
    /\ obActive' = obActive \ {p}
    /\ UNCHANGED <<obLedger, obHandler, obChannel, obTask, obPosted, obRows, obLost, obFaults>>

------------------------------------------------------------------------------
(* The worker takes the next event and reads the active endpoints once. *)
Receive ==
    /\ obTask = NoTask /\ obChannel # <<>>
    /\ obTask' = [event |-> Head(obChannel),
                  left  |-> SelectSeq(ObEndpoints, LAMBDA p : p \in obActive \intersect ObWanted)]
    /\ obChannel' = Tail(obChannel)
    /\ UNCHANGED <<obLedger, obHandler, obActive, obPosted, obRows, obLost, obFaults>>

(* get_active_webhook_endpoints fails: the event is given up. *)
ReceiveFails ==
    /\ obFaults < ObFaults
    /\ obTask = NoTask /\ obChannel # <<>>
    /\ obChannel' = Tail(obChannel)
    /\ obLost' = obLost \union {Head(obChannel)}
    /\ obFaults' = obFaults + 1
    /\ UNCHANGED <<obLedger, obHandler, obActive, obTask, obPosted, obRows>>

(* Mutation: a failed delivery ends dispatch_single_event.                 *)
MutRest(left, ok) == IF ok THEN Tail(left) ELSE <<>>

(* The endpoints still to do after one answered, refused or did not answer *)
(* within 30 s.                                                            *)
Rest(left, ok) == Tail(left)

(* One endpoint: POST, then record_webhook_delivery with attempt_count 1.  *)
(* A failure gets next_retry_at, which nothing reads.                      *)
Post(ok) ==
    LET delivery == [event |-> obTask.event, endpoint |-> Head(obTask.left), ok |-> ok] IN
    /\ obTask.left # <<>>
    /\ obPosted' = obPosted \union {delivery}
    /\ obTask' = [obTask EXCEPT !.left = Rest(@, ok)]
    /\ \/ obRows' = obRows \union {delivery} /\ UNCHANGED obFaults
       \/ obFaults < ObFaults /\ obFaults' = obFaults + 1 /\ UNCHANGED obRows
    /\ UNCHANGED <<obLedger, obHandler, obChannel, obActive, obLost>>

EndTask ==
    /\ obTask # NoTask /\ obTask.left = <<>>
    /\ obTask' = NoTask
    /\ UNCHANGED <<obLedger, obHandler, obChannel, obActive, obPosted, obRows, obLost, obFaults>>

(* The gateway dies: the channel and the worker's event are gone, and so   *)
(* are the handlers.  Nothing sends the ledger's events again.             *)
GatewayDies ==
    /\ obFaults < ObFaults
    /\ obFaults' = obFaults + 1
    /\ obLost' = obLost \union Range(obChannel) \union ({obTask.event} \ {"none"})
    /\ obChannel' = <<>>
    /\ obTask' = NoTask
    /\ obHandler' = [e \in ObEvents |-> IF obHandler[e] = "sending" THEN "dropped" ELSE obHandler[e]]
    /\ UNCHANGED <<obLedger, obActive, obPosted, obRows>>

OutboundNext ==
    \/ \E e \in ObEvents : RecordEvent(e) \/ RecordEventFails(e) \/ Send(e) \/ DropHandler(e)
    \/ \E p \in Range(ObEndpoints) : CreateEndpoint(p) \/ DeleteEndpoint(p)
    \/ Receive \/ ReceiveFails \/ EndTask \/ GatewayDies
    \/ \E ok \in BOOLEAN : Post(ok)

(* The worker is a loop, and each of its calls returns: reqwest's timeout  *)
(* bounds a POST.  A waiting handler is woken, or dropped.                 *)
OutboundFairness ==
    /\ WF_obVars(Receive \/ EndTask \/ Post(TRUE) \/ Post(FALSE))
    /\ \A e \in ObEvents : WF_obVars(Send(e) \/ DropHandler(e))

OutboundSpec == OutboundInit /\ [][OutboundNext]_obVars /\ OutboundFairness

------------------------------------------------------------------------------
(* Every event of the ledger is POSTed to every endpoint that wants it and *)
(* is active from then on, however the other endpoints answer              *)
(* (dispatch_single_event goes on after a failure), unless its handler was *)
(* dropped while waiting for the channel, the gateway died, or the         *)
(* endpoints could not be read.                                            *)
LedgerIsPosted ==
    \A e \in ObEvents, p \in ObWanted :
        (obHandler[e] = "sending") ~>
            \/ \E ok \in BOOLEAN : [event |-> e, endpoint |-> p, ok |-> ok] \in obPosted
            \/ p \notin obActive
            \/ e \in obLost \/ obHandler[e] = "dropped"

==============================================================================
