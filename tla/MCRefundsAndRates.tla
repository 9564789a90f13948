-------------------------- MODULE MCRefundsAndRates --------------------------
(* Two limits the gateway enforces, each explored on its own: the balance  *)
(* of a payment being refunded, and the rate of requests.                  *)
EXTENDS MCRefunds, RateLimiter

VARIABLE scene

LimitsInit ==
    /\ scene \in {"refunds", "rates"}
    /\ Init /\ LimiterInit
    /\ scene = "refunds" => rlKind = "bucket" /\ rlRate = 1 /\ rlMark = RlSecond

LimitsNext ==
    \/ scene = "refunds" /\ Next /\ UNCHANGED <<rlVars, scene>>
    \/ scene = "rates" /\ LimiterNext /\ UNCHANGED <<vars, scene>>

LimitsSpec == LimitsInit /\ [][LimitsNext]_<<vars, rlVars, scene>>
==============================================================================
