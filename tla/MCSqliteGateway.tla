--------------------------- MODULE MCSqliteGateway ---------------------------
(* Small instances of SqliteGateway.  Calls r1, r2 and r3 share a key: r2  *)
(* replays r1's body and r3 carries another one; r4 has a key of its own.  *)
EXTENDS SqliteGateway, TLC

CONSTANTS k1, k2, b1, b2, r1, r2, r3, r4

MCKeyOf  == [r \in Requests |-> IF r = r4 THEN k2 ELSE k1]
MCBodyOf == [r \in Requests |-> IF r = r3 THEN b2 ELSE b1]

==============================================================================
