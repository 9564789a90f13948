---------------------------- MODULE MCStorefront ----------------------------
(* The two checkouts a customer meets, each explored on its own: the demo  *)
(* shop, and the web application's sandbox checkout.                       *)
EXTENDS DemoStore, HostedCheckout

VARIABLE scene

MCBaskets == {[provider |-> p, product |-> "pro"] : p \in {"stripe", "fawry", "mock"}}

Customer(browses, methods, fails, crashes, settles) ==
    [browses |-> browses, methods |-> methods, ref |-> "m1",
     faults |-> fails, restarts |-> crashes, settles |-> settles]

(* One who meets a failing call, one who settles by hand around a restart, *)
(* one who changes the method between checkouts, one who only browses.     *)
MCUses == {Customer(FALSE, {"stripe"}, 1, 0, FALSE),
           Customer(FALSE, {"fawry"}, 0, 1, TRUE),
           Customer(FALSE, {"fawry", "mock"}, 0, 0, FALSE),
           Customer(TRUE, {"cards"}, 0, 0, FALSE)}

FrontInit ==
    /\ scene \in {"demo", "hosted"}
    /\ StoreInit /\ HostedInit
    /\ scene = "demo" => visit = "form"
    /\ scene = "hosted" => use.browses

FrontNext ==
    \/ scene = "demo" /\ StoreNext /\ UNCHANGED <<hostedVars, scene>>
    \/ scene = "hosted" /\ HostedNext /\ UNCHANGED <<storeVars, scene>>

FrontSpec == FrontInit /\ [][FrontNext]_<<storeVars, hostedVars, scene>> /\ StoreFairness
=============================================================================
