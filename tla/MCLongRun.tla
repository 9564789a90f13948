------------------------------ MODULE MCLongRun ------------------------------
(* What must happen in the end, in three parts of the gateway that share   *)
(* no state here, each explored on its own: inquiries on the SQLite store, *)
(* the reconciler's batches with or without the message bus, and outbound  *)
(* webhooks.                                                               *)
EXTENDS MCSqliteGateway, OutboundWebhooks, MessageBus

VARIABLE scene

MCEndpoints == <<"p1", "p2">>

Setup(bus, store, rows, unknown, down, hooked) ==
    [bus |-> bus, store |-> store, rows |-> rows, unknown |-> unknown,
     down |-> down, hooked |-> hooked]

(* The provider never answers about one payment.  Without a bus on either  *)
(* store; on the bus; and two payments with webhooks on the bus.           *)
Inline == Setup(FALSE, "sqlite", MbRows, {}, {"m1"}, {})
MCSetups == {Inline,
             Setup(FALSE, "postgres", MbRows, {"m2"}, {"m1"}, {}),
             Setup(TRUE, "postgres", MbRows, {}, {"m1"}, {}),
             Setup(TRUE, "sqlite", {"m2", "m3"}, {}, {}, {"m2"})}

LongInit ==
    /\ scene \in {"gateway", "outbound", "bus"}
    /\ Init /\ OutboundInit /\ BusInit
    /\ scene # "bus" => mbSetup = Inline

LongNext ==
    /\ UNCHANGED scene
    /\ \/ scene = "gateway" /\ Next /\ UNCHANGED <<obVars, mbVars>>
       \/ scene = "outbound" /\ OutboundNext /\ UNCHANGED <<vars, mbVars>>
       \/ scene = "bus" /\ BusNext /\ UNCHANGED <<vars, obVars>>

LongSpec ==
    /\ LongInit /\ [][LongNext]_<<vars, obVars, mbVars, scene>>
    /\ Fairness /\ OutboundFairness /\ BusFairness
==============================================================================
