-------------------------- MODULE MCPostgresGateway --------------------------
(* Small instances of PostgresGateway: r1 and r2 share a key, r2 with      *)
(* another body.                                                           *)
EXTENDS PostgresGateway, TLC

CONSTANTS k1, b1, b2, r1, r2, e1, e2, h1, h2

MCKeyOf  == [r \in Requests |-> k1]
MCBodyOf == [r \in Requests |-> IF r = r2 THEN b2 ELSE b1]

(* Deliveries and handlers are interchangeable. *)
Symmetry == Permutations({e1, e2}) \union Permutations({h1, h2})

==============================================================================
