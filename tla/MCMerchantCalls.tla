--------------------------- MODULE MCMerchantCalls ---------------------------
(* Two requests: the two attempts of one call, or the calls of two callers *)
(* that share a key, a body, a tenant or an environment, over the          *)
(* deployments in which the routes take different branches.                *)
EXTENDS MerchantCalls, TLC

CONSTANTS r1, r2, k1, k2, u1, u2, b1, b2, c1, c2, h1, h2, g1

A(u, k, b, live) == [user |-> u, key |-> k, body |-> b, live |-> live]
W(p, gateway, stripeKey, polls) ==
    [provider |-> p, gateway |-> gateway, stripeKey |-> stripeKey, polls |-> polls,
     hooks |-> {h1}, mocks |-> {}]
(* Two webhook deliveries at a time; one of them comes to the mock route.  *)
Two(w)  == [w EXCEPT !.hooks = {h1, h2}]
Mock(w) == [w EXCEPT !.mocks = {h2}]
(* No webhook at all. *)
Quiet(w) == [w EXCEPT !.hooks = {}]

Attempts  == r1 :> [call |-> c1, attempt |-> 1] @@ r2 :> [call |-> c1, attempt |-> 2]
TwoCalls  == r1 :> [call |-> c1, attempt |-> 1] @@ r2 :> [call |-> c2, attempt |-> 1]
OneCall   == r1 :> [call |-> c1, attempt |-> 1] @@ r2 :> [call |-> c2, attempt |-> 0]

Scene(w, a, b, origins) == [world |-> w, ask |-> (r1 :> a @@ r2 :> b), origin |-> origins]
Retry(w, a) == Scene(w, a, a, Attempts)
Pair(w, a, b) == Scene(w, a, b, TwoCalls)
(* One call whose first attempt is followed to the end. *)
Once(w, a) == Scene(w, a, a, OneCall)

Live == A(u1, k1, b1, TRUE)
Test == A(u1, k1, b1, FALSE)

MCScenes ==
    {Retry(W("paymob", TRUE, FALSE, FALSE), Live),
     Pair(Quiet(W("paymob", TRUE, FALSE, FALSE)), Live, Test),
     Once(Mock(W("paymob", TRUE, FALSE, FALSE)), Live),
     Once(Two(W("paymob", TRUE, FALSE, TRUE)), Live),
     Retry(W("paymob", FALSE, FALSE, TRUE), Live),
     Pair(Mock(W("paymob", FALSE, FALSE, TRUE)), Test, A(u1, k2, b1, FALSE)),
     Retry(Quiet(W("fawry", TRUE, FALSE, FALSE)), Test),
     Pair(Quiet(W("fawry", TRUE, FALSE, FALSE)), Live, A(u2, k1, b1, TRUE)),
     Once(W("fawry", TRUE, FALSE, TRUE), Test),
     Retry(W("fawry", FALSE, FALSE, TRUE), Test),
     Retry(Quiet(W("stripe", TRUE, TRUE, FALSE)), Live),
     Once(Two(W("stripe", TRUE, TRUE, FALSE)), Live),
     Once(W("stripe", TRUE, TRUE, TRUE), Live),
     Once(Mock(W("stripe", FALSE, TRUE, FALSE)), Live),
     Retry(W("stripe", FALSE, TRUE, TRUE), Live),
     Pair(W("stripe", FALSE, TRUE, FALSE), Live, A(u1, k1, b2, TRUE)),
     Pair(W("stripe", FALSE, TRUE, FALSE), Live, A(u1, k2, b1, TRUE)),
     Pair(W("stripe", FALSE, FALSE, FALSE), Live, Test),
     Retry(Quiet(W("mock", TRUE, FALSE, FALSE)), A(Demo, k1, b1, FALSE)),
     Once(Mock(W("mock", TRUE, FALSE, TRUE)), Live),
     Retry(Mock(W("mock", FALSE, FALSE, TRUE)), Live),
     Pair(W("mock", FALSE, FALSE, TRUE), Live, A(u2, k1, b2, TRUE))}

==============================================================================
