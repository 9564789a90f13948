---------------------------- MODULE MerchantCalls ----------------------------
(***************************************************************************)
(* The SDK against the web application: every attempt of payments.create   *)
(* is a POST handler of WebPayments, which goes on when the client has     *)
(* timed out and retries.                                                  *)
(***************************************************************************)
EXTENDS WebPayments, SdkClient

VARIABLE
    origin   \* the call and the attempt each request belongs to

callVars == <<webVars, call, origin>>

(* Every attempt of a call sends the same headers and body.                *)
ASSUME CallsAssumption ==
    \A s \in Scenes : \A r, q \in Requests :
        s.origin[r].call = s.origin[q].call => s.ask[r] = s.ask[q]

CallsInit ==
    /\ WebInit
    /\ ClientInit
    /\ \E s \in Scenes : /\ world = s.world /\ ask = s.ask
                         /\ origin = s.origin

RequestsOf(c) == {r \in Requests : origin[r].call = c}

(* payments.create: one key per call, sent with every attempt.  The        *)
(* request reaches the route, or is lost.  A call has at most as many      *)
(* attempts as it has Requests, the bound on the server's handlers.        *)
SendPayment(c) ==
    /\ StartAttempt(c)
    /\ \E r \in RequestsOf(c) : /\ origin[r].attempt = call[c].attempt + 1
                               /\ (Arrive(r) \/ UNCHANGED webVars)
    /\ UNCHANGED origin

ReceivePayment(c) ==
    /\ \E r \in RequestsOf(c) :
          /\ origin[r].attempt = call[c].attempt
          /\ pc[r] = "answered"
          /\ IF Accepted(r) THEN ReceiveOk(c, ans[r].id) ELSE ReceiveError(c)
    /\ UNCHANGED <<webVars, origin>>

LosePayment(c) ==
    /\ FetchFails(c) \/ AbortCall(c)
    /\ UNCHANGED <<webVars, origin>>

CallsNext ==
    \/ WebNext /\ UNCHANGED <<call, origin>>
    \/ \E c \in Calls : SendPayment(c) \/ ReceivePayment(c) \/ LosePayment(c)

CallsSpec == CallsInit /\ [][CallsNext]_callVars

(* A call that returned a payment made no other: whatever its attempts did *)
(* at the server, before or after the one that was answered, the tenant    *)
(* has no second payment under that call's key.                            *)
CallMakesOnePayment ==
    \A c \in Calls, r \in Requests :
        /\ call[c].at = "returned" /\ origin[r].call = c
        /\ ask[r].user # Demo
        => \A i \in Stored : /\ payments[i].user = ask[r].user
                             /\ payments[i].key = KeyOf(r)
                             => i = call[c].result

==============================================================================
