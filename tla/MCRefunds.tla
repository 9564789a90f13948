------------------------------ MODULE MCRefunds ------------------------------
(* Three calls of create_refund on a payment of three minor units.         *)
EXTENDS Refunds, TLC

CONSTANTS f1, f2, f3

(* Calls are interchangeable: each may ask for any amount. *)
Symmetry == Permutations({f1, f2, f3})

==============================================================================
