--------------------------- MODULE PaymentPromise ----------------------------
(***************************************************************************)
(* What a merchant may rely on, for each idempotency key: at most one      *)
(* charge is ever made for it; the status it is shown moves only along the *)
(* state machine; it is told Succeeded only when the provider has the      *)
(* money, and Failed only when it never will.  No handler, no table and no *)
(* message appears here.                                                   *)
(***************************************************************************)
EXTENDS PaymentStatus

CONSTANT Keys

VARIABLES
    shown,  \* the status of each key's payment, "Absent" before there is one
    truth   \* what became of the one charge at the provider

vars == <<shown, truth>>

Init ==
    /\ shown = [k \in Keys |-> "Absent"]
    /\ truth = [k \in Keys |-> "none"]

(* A payment is opened for the key, once. *)
Accept(k) ==
    /\ shown[k] = "Absent"
    /\ shown' = [shown EXCEPT ![k] = "Pending"]
    /\ UNCHANGED truth

(* The one charge: never for a payment already declared failed. *)
Take(k) ==
    /\ shown[k] \in Open
    /\ truth[k] = "none"
    /\ truth' = [truth EXCEPT ![k] = "open"]
    /\ UNCHANGED shown

Settle(k) ==
    /\ truth[k] = "open"
    /\ \E o \in {"succeeded", "failed"} : truth' = [truth EXCEPT ![k] = o]
    /\ UNCHANGED shown

(* A refusal the provider gave for good: no charge will ever be made. *)
Refuse(k) ==
    /\ truth[k] = "none"
    /\ truth' = [truth EXCEPT ![k] = "refused"]
    /\ UNCHANGED shown

(* The status shown moves, only along the state machine, and only to a     *)
(* final word that is true.                                                *)
Learn(k) ==
    /\ shown[k] # "Absent"
    /\ \E s \in Statuses \ {shown[k]} :
          /\ ValidTransition(shown[k], s)
          /\ s = "Succeeded" => truth[k] = "succeeded"
          /\ s = "Failed" => truth[k] \in {"failed", "refused"}
          /\ shown' = [shown EXCEPT ![k] = s]
    /\ UNCHANGED truth

Next == \E k \in Keys :
            Accept(k) \/ Take(k) \/ Settle(k) \/ Refuse(k) \/ Learn(k)

Spec == Init /\ [][Next]_vars

==============================================================================
