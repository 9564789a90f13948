---------------------------- MODULE PaymentStatus ----------------------------
(***************************************************************************)
(* The payment state machine every other module is built on: the statuses  *)
(* of crates/core/src/payment.rs and the relation validate_transition      *)
(* decides.  There is no state here, only the shared vocabulary.           *)
(***************************************************************************)

(* The six variants of PaymentStatus. *)
Statuses == {"Pending", "Succeeded", "Failed", "Unknown",
             "PartiallyRefunded", "Refunded"}

(* CreationStatus: what a provider's create call may answer. *)
CreationStatuses == {"Pending", "Unknown"}

(* PaymentStatus::is_terminal.  PartiallyRefunded is deliberately absent.  *)
IsTerminal(s) == s \in {"Succeeded", "Failed", "Refunded"}

(* PaymentStatus::validate_transition. *)
ValidTransition(from, to) ==
    \/ from = to
    \/ from = "Pending" /\ to \in {"Succeeded", "Failed", "Unknown"}
    \/ from = "Unknown" /\ to \in {"Succeeded", "Failed"}
    \/ from = "Succeeded" /\ to \in {"PartiallyRefunded", "Refunded"}
    \/ from = "PartiallyRefunded" /\ to \in {"PartiallyRefunded", "Refunded"}

(* The statuses in which the outcome of the charge is still open: exactly  *)
(* the rows list_stale_unknown_payments selects.                           *)
Open == {"Pending", "Unknown"}

==============================================================================
