------------------------------ MODULE SdkClient ------------------------------
(***************************************************************************)
(* The TypeScript SDK (sdk/typescript/src): OpenWrapperClient.request with *)
(* its attempts, per-attempt timeout, backoff and abort signal.  Which     *)
(* error a call throws is left out.                                        *)
(*                                                                         *)
(* The server is whatever composes this module: a call says which attempt  *)
(* it is waiting for, and is told the HTTP answer.                         *)
(***************************************************************************)
EXTENDS Integers

CONSTANTS
    Calls,       \* calls of the client's methods
    MaxRetries,  \* the client's maxRetries option
    Nothing

VARIABLE call  \* where each call is, its attempt, its result

MaxAttempts == MaxRetries + 1

NewCall == [at |-> "new", attempt |-> 0, result |-> Nothing]

ClientInit == call = [c \in Calls |-> NewCall]

Ended(c) == call[c].at \in {"returned", "threw"}

(* One turn of the attempt loop, up to its await of fetch.                 *)
StartAttempt(c) ==
    /\ call[c].at \in {"new", "backoff"}
    /\ call' = [call EXCEPT ![c].at = "waiting", ![c].attempt = @ + 1]

Exhausted(c) == call[c].attempt >= MaxAttempts

(* fetch rejected: the timeout fired or the network failed.  The next      *)
(* attempt follows after the backoff, with the same headers and body; the  *)
(* last one throws GatewayTimeoutError or GatewayUnreachableError.         *)
FetchFails(c) ==
    /\ call[c].at = "waiting"
    /\ call' = [call EXCEPT ![c].at = IF Exhausted(c) THEN "threw" ELSE "backoff"]

(* The caller's signal ends the request or the backoff; so does a method   *)
(* whose validation of its parameters throws before the first attempt.     *)
AbortCall(c) ==
    /\ ~Ended(c)
    /\ call' = [call EXCEPT ![c].at = "threw"]

(* An HTTP answer ends the call, whatever it is: answers are not retried.  *)
(* A body that is not JSON is a GatewayUnreachableError, an error body     *)
(* what errorFromBody makes of it.                                         *)
ReceiveOk(c, result) ==
    /\ call[c].at = "waiting"
    /\ \/ call' = [call EXCEPT ![c].at = "returned", ![c].result = result]
       \/ call' = [call EXCEPT ![c].at = "threw"]

ReceiveError(c) ==
    /\ call[c].at = "waiting"
    /\ call' = [call EXCEPT ![c].at = "threw"]

==============================================================================
