------------------------------- MODULE Refunds -------------------------------
(***************************************************************************)
(* POST /v1/payments/:id/refunds on one payment, on the SQLite store.      *)
(* create_refund reads the payment, then the total refunded so far, then   *)
(* calls the provider, then records the refund: four awaits, and nothing   *)
(* reserves the amount in between.  Meanwhile webhooks and inquiries keep  *)
(* reporting the payment's status.                                         *)
(***************************************************************************)
EXTENDS PaymentStatus, Integers, FiniteSets, Functions

CONSTANTS
    Total,  \* the payment's amount, in minor units
    Calls   \* calls of create_refund

ASSUME RefundsAssumption == Total \in Nat \ {0} /\ IsFiniteSet(Calls)

VARIABLES
    status,   \* the payment's status in the store
    refunds,  \* the refunds table: amount and status of each call's row
    call,     \* where each call is, and what it has read
    paid,     \* minor units the provider has returned, or promised to
    serial    \* history: so far every refund was alone, succeeded at once
              \* and was recorded

vars == <<status, refunds, call, paid, serial>>

(* RefundStatus, and "none" where there is no row. *)
Results == {"succeeded", "pending", "failed"}
Refund  == [amount : 0 .. Total, status : Results \union {"none"}]
NoRefund == [amount |-> 0, status |-> "none"]

Call == [at     : {"new", "read", "calling", "answered", "done"},
         amount : 0 .. Total,
         prev   : Nat,
         result : Results]

(* The refunds table and the calls in progress hold what they should, and  *)
(* the total each call has read (SUM in get_total_refunded_minor_units)    *)
(* leaves room for the amount it has sent to the provider.                 *)
TypeOK ==
    /\ status \in Statuses
    /\ refunds \in [Calls -> Refund]
    /\ call \in [Calls -> Call]
    /\ \A f \in Calls : call[f].prev + call[f].amount <= Total
    /\ paid \in Nat
    /\ serial \in BOOLEAN

Init ==
    /\ status = "Pending"
    /\ refunds = [f \in Calls |-> NoRefund]
    /\ call = [f \in Calls |-> [at |-> "new", amount |-> 0, prev |-> 0,
                                result |-> "failed"]]
    /\ paid = 0
    /\ serial = TRUE

(* Between the balance check and the record. *)
InFlight == {f \in Calls : call[f].at \in {"calling", "answered"}}

(* get_total_refunded_minor_units: SUM ... WHERE status = 'succeeded'. *)
TotalRefunded(rows) ==
    SumFunction([f \in Calls |->
        IF rows[f].status = "succeeded" THEN rows[f].amount ELSE 0])

------------------------------------------------------------------------------
(* Mutation: a payment is refundable before it is paid.                    *)
MutRefundable(s) == s \notin {"Failed", "Refunded"}

(* "Must be in a refundable status" *)
Refundable(s) == s \in {"Succeeded", "PartiallyRefunded"}

(* get_payment; any other status is answered 400. *)
ReadPayment(f) ==
    /\ call[f].at = "new"
    /\ Refundable(status)
    /\ call' = [call EXCEPT ![f].at = "read"]
    /\ UNCHANGED <<status, refunds, paid, serial>>

(* The amount is positive and within the remaining refundable balance. *)
Fits(amount, previously_refunded) ==
    /\ amount > 0
    /\ amount <= Total - previously_refunded

(* get_total_refunded_minor_units and the balance check; the handler goes  *)
(* straight into provider.refund.                                          *)
CheckBalance(f, amount) ==
    LET prev == TotalRefunded(refunds) IN
    /\ call[f].at = "read"
    /\ Fits(amount, prev)
    /\ call' = [call EXCEPT ![f] = [at |-> "calling", amount |-> amount,
                                    prev |-> prev, result |-> "failed"]]
    /\ serial' = (serial /\ InFlight = {})
    /\ UNCHANGED <<status, refunds, paid>>

(* The provider answers (external).  It is not assumed to check the        *)
(* balance: the mock rail does not, and the Stripe call carries no key by  *)
(* which a repeated request could be recognised.                           *)
ProviderRefunds(f) ==
    /\ call[f].at = "calling"
    /\ \E result \in Results :
          /\ call' = [call EXCEPT ![f].at = "answered", ![f].result = result]
          /\ paid' = IF result = "failed" THEN paid ELSE paid + call[f].amount
          /\ serial' = (serial /\ result = "succeeded")
    /\ UNCHANGED <<status, refunds>>

(* Mutation: a refund of exactly the remaining balance counts as partial.  *)
MutNewStatus(total_refunded) ==
    IF total_refunded > Total THEN "Refunded" ELSE "PartiallyRefunded"

NewStatus(total_refunded) ==
    IF total_refunded >= Total THEN "Refunded" ELSE "PartiallyRefunded"

InsertRefund(f) ==
    refunds' = [refunds EXCEPT ![f] = [amount |-> call[f].amount,
                                       status |-> call[f].result]]

Finish(f) == call' = [call EXCEPT ![f].at = "done"]

(* record_refund: INSERT the row, UPDATE the status.  The new status comes *)
(* from the total read before the call, whatever the result was.           *)
RecordRefund(f) ==
    /\ call[f].at = "answered"
    /\ InsertRefund(f)
    /\ status' = NewStatus(call[f].prev + call[f].amount)
    /\ Finish(f)
    /\ UNCHANGED <<paid, serial>>

(* Mutation: the status is written first, and the crash loses the row.     *)
MutRecordTorn(f) ==
    /\ call[f].at = "answered"
    /\ status' = NewStatus(call[f].prev + call[f].amount)
    /\ Finish(f)
    /\ serial' = FALSE
    /\ UNCHANGED <<refunds, paid>>

(* The two statements share no transaction in the SQLite store: the        *)
(* process dies, or the UPDATE fails, with the row committed.              *)
RecordTorn(f) ==
    /\ call[f].at = "answered"
    /\ InsertRefund(f)
    /\ Finish(f)
    /\ serial' = FALSE
    /\ UNCHANGED <<status, paid>>

(* The call ends without a record: the balance does not allow it, the      *)
(* provider's answer is an error or is lost, the 30 s timeout drops the    *)
(* handler, or the INSERT fails (the mock rail's refund id is the same for *)
(* every refund of a payment).                                             *)
Abandon(f) ==
    /\ call[f].at \in {"read", "calling", "answered"}
    /\ paid' \in IF call[f].at = "calling" THEN {paid, paid + call[f].amount}
                 ELSE {paid}
    /\ Finish(f)
    /\ serial' = (serial /\ call[f].at = "read")
    /\ UNCHANGED <<status, refunds>>

(* A webhook or an inquiry reports a status: apply_sqlite_transition reads *)
(* and writes the row under the lock.                                      *)
Report(s) ==
    /\ s # status
    /\ ValidTransition(status, s)
    /\ status' = s
    /\ UNCHANGED <<refunds, call, paid, serial>>

Next ==
    \/ \E f \in Calls :
          \/ ReadPayment(f)
          \/ \E amount \in 0 .. Total : CheckBalance(f, amount)
          \/ ProviderRefunds(f)
          \/ RecordRefund(f)
          \/ RecordTorn(f)
          \/ Abandon(f)
    \/ \E s \in {"Succeeded", "Failed", "Unknown"} : Report(s)

Spec == Init /\ [][Next]_vars

------------------------------------------------------------------------------
(* Money only flows back on a payment that was paid, although the status   *)
(* was checked two awaits before the provider call: no report that arrives *)
(* meanwhile takes a paid payment back (create_refund's status check and   *)
(* validate_transition together).                                          *)
RefundOnlyPaid ==
    paid > 0 \/ InFlight # {} => status \in {"Succeeded", "PartiallyRefunded", "Refunded"}

(* A refunded status is always backed by a row of the refunds table, even  *)
(* if the process dies inside record_refund: the INSERT comes first.       *)
StatusHasRefund ==
    status \in {"PartiallyRefunded", "Refunded"} =>
        \E f \in Calls : refunds[f].status # "none"

(* What create_refund's balance check does give: as long as refunds are    *)
(* made one at a time, succeed at once and are recorded, the money         *)
(* returned is what the table says, never exceeds the payment, and the     *)
(* status says exactly whether all of it is back.                          *)
SerialRefundsExact ==
    serial /\ InFlight = {} =>
        /\ paid = TotalRefunded(refunds)
        /\ paid <= Total
        /\ status = "Refunded" <=> paid = Total
        /\ status = "PartiallyRefunded" <=> paid \in 1 .. (Total - 1)

(* docs/STATE_MACHINE.md: "PartiallyRefunded (when remaining balance > 0)  *)
(* or Refunded (when fully refunded)".  create_refund ignores the result   *)
(* of the refund when it picks the status: false, with a single refund     *)
(* that failed.                                                            *)
RefundedMeansPaidBack == status = "Refunded" => paid >= Total

==============================================================================
