----------------------------- MODULE SchemaInit -----------------------------
(* The web application brings its tables up to date when it first needs     *)
(* them (lib/db/init.ts), and scripts/init-db.mjs does so from the command  *)
(* line: statements in a fixed order, each committed on its own, over       *)
(* tables that an older release may have left with camelCase columns.  A    *)
(* column stands for all that are treated alike; one old row is followed.   *)
EXTENDS Naturals, Sequences

CONSTANTS
    SiServers,       \* processes of the web application
    SiTools,         \* runs of the command line script
    SiFaults         \* bound: statements that fail, and processes that die

ASSUME SchemaAssumption == SiServers \cap SiTools = {} /\ SiFaults \in Nat

VARIABLES
    siTables,        \* tables that exist
    siSnake,         \* columns that exist under their new name
    siCamel,         \* columns that exist under their old name
    siStrict,        \* old columns that still may not be null
    siRow,           \* per column, what the old row holds under the new name
    siProc,          \* per process: where its initialisation stands
    siLeft           \* faults still to come

siVars == <<siTables, siSnake, siCamel, siStrict, siRow, siProc, siLeft>>

-----------------------------------------------------------------------------
(* key_hash: added without a default.  key_created: added with a default.  *)
(* pay_amount, pay_created: the same two in a table whose default is set    *)
(* before the column is added.                                             *)
SiColumns == {"key_hash", "key_created", "pay_amount", "pay_created"}
TableOf(c) == IF c \in {"key_hash", "key_created"} THEN "api_keys" ELSE "payments"
Defaulted == {"key_created", "pay_created"}

Stmt(op, col) == [op |-> op, col |-> col]

SchemaAlters ==
    <<Stmt("add", "key_hash"), Stmt("add", "key_created"),
      Stmt("default", "pay_created"), Stmt("default", "key_created"),
      Stmt("add", "pay_amount"), Stmt("add", "pay_created")>>

(* The script adds the same columns and sets no defaults. *)
ScriptAlters ==
    <<Stmt("add", "key_hash"), Stmt("add", "key_created"),
      Stmt("add", "pay_amount"), Stmt("add", "pay_created")>>

LegacyCopies ==
    <<Stmt("copy", "key_hash"), Stmt("copy", "key_created"),
      Stmt("copy", "pay_amount"), Stmt("copy", "pay_created")>>

Program(p) ==
    <<Stmt("create", "all"), Stmt("look", "all"), Stmt("drop", "all")>>
        \o (IF p \in SiTools THEN ScriptAlters ELSE SchemaAlters) \o LegacyCopies

Idle == [at |-> 0, ready |-> FALSE, seen |-> {}]

(* Any mixture of old and new columns, in any tables. *)
SchemaStart ==
    /\ siTables \in SUBSET {"api_keys", "payments"}
    /\ siSnake \in SUBSET {c \in SiColumns : TableOf(c) \in siTables}
    /\ siCamel \in SUBSET {c \in SiColumns : TableOf(c) \in siTables}
    /\ siStrict = siCamel
    /\ siRow = [c \in SiColumns |->
                   IF c \in siSnake /\ c \notin siCamel THEN "new" ELSE "null"]
    /\ siProc = [p \in SiServers \cup SiTools |-> Idle]
    /\ siLeft = SiFaults

-----------------------------------------------------------------------------
Now(p) == Program(p)[siProc[p].at]
Running(p) == siProc[p].at > 0

(* The first request of a process starts the work; the others wait for the *)
(* same promise, and once it is kept nobody starts again.                  *)
EnsureDatabaseSchema(p) ==
    /\ ~Running(p) /\ ~siProc[p].ready
    /\ siProc' = [siProc EXCEPT ![p].at = 1]
    /\ UNCHANGED <<siTables, siSnake, siCamel, siStrict, siRow, siLeft>>

(* The statement at hand succeeded; after the last one the process is ready. *)
Advance(p, seen) ==
    siProc' = [siProc EXCEPT ![p] =
        IF @.at = Len(Program(p)) THEN [at |-> 0, ready |-> TRUE, seen |-> seen]
        ELSE [at |-> @.at + 1, ready |-> FALSE, seen |-> seen]]

CreateTables(p) ==
    /\ Running(p) /\ Now(p).op = "create"
    /\ siTables' = {"api_keys", "payments"}
    /\ siSnake' = siSnake \cup {c \in SiColumns : TableOf(c) \notin siTables}
    /\ Advance(p, {})
    /\ UNCHANGED <<siCamel, siStrict, siRow, siLeft>>

(* The columns are listed once, before any is added. *)
Look(p) ==
    /\ Running(p) /\ Now(p).op = "look"
    /\ Advance(p, {<<c, "snake">> : c \in siSnake} \cup {<<c, "camel">> : c \in siCamel})
    /\ UNCHANGED <<siTables, siSnake, siCamel, siStrict, siRow, siLeft>>

DropNotNulls(p) ==
    /\ Running(p) /\ Now(p).op = "drop"
    /\ siStrict' = {c \in siStrict : <<c, "camel">> \notin siProc[p].seen}
    /\ Advance(p, siProc[p].seen)
    /\ UNCHANGED <<siTables, siSnake, siCamel, siRow, siLeft>>

(* A column added with a default has a value in every row from then on. *)
AddColumn(p) ==
    /\ Running(p) /\ Now(p).op = "add"
    /\ LET c == Now(p).col IN
           /\ siSnake' = siSnake \cup {c}
           /\ siRow' = IF c \in Defaulted \ siSnake THEN [siRow EXCEPT ![c] = "now"] ELSE siRow
    /\ Advance(p, siProc[p].seen)
    /\ UNCHANGED <<siTables, siCamel, siStrict, siLeft>>

SetDefault(p) ==
    /\ Running(p) /\ Now(p).op = "default" /\ Now(p).col \in siSnake
    /\ Advance(p, siProc[p].seen)
    /\ UNCHANGED <<siTables, siSnake, siCamel, siStrict, siRow, siLeft>>

Copyable(p, c) == {<<c, "snake">>, <<c, "camel">>} \subseteq siProc[p].seen

CopyLegacy(p) ==
    /\ Running(p) /\ Now(p).op = "copy"
    /\ LET c == Now(p).col IN
           siRow' = IF Copyable(p, c) /\ c \in siCamel /\ siRow[c] = "null"
                    THEN [siRow EXCEPT ![c] = "old"] ELSE siRow
    /\ Advance(p, siProc[p].seen)
    /\ UNCHANGED <<siTables, siSnake, siCamel, siStrict, siLeft>>

(* Mutation: a failed statement is skipped. *)
MutGiveUp(p) == Advance(p, siProc[p].seen)

(* The promise is forgotten and the next request starts over; in           *)
(* development the request goes on without its tables.                     *)
GiveUp(p) == siProc' = [siProc EXCEPT ![p] = Idle]

(* Setting the default of a column that is not there is an error. *)
StatementImpossible(p) ==
    /\ Running(p) /\ Now(p).op = "default" /\ Now(p).col \notin siSnake
    /\ GiveUp(p)
    /\ UNCHANGED <<siTables, siSnake, siCamel, siStrict, siRow, siLeft>>

StatementFails(p) ==
    /\ Running(p) /\ siLeft > 0
    /\ siLeft' = siLeft - 1
    /\ GiveUp(p)
    /\ UNCHANGED <<siTables, siSnake, siCamel, siStrict, siRow>>

ProcessRestarts(p) ==
    /\ siLeft > 0 /\ siProc[p] # Idle
    /\ siLeft' = siLeft - 1
    /\ siProc' = [siProc EXCEPT ![p] = Idle]
    /\ UNCHANGED <<siTables, siSnake, siCamel, siStrict, siRow>>

(* A ready application writes under the new names only. *)
ServerWrites(p, c) ==
    /\ p \in SiServers /\ siProc[p].ready
    /\ siRow' = [siRow EXCEPT ![c] = "new"]
    /\ UNCHANGED <<siTables, siSnake, siCamel, siStrict, siProc, siLeft>>

SchemaNext ==
    \E p \in SiServers \cup SiTools :
        \/ EnsureDatabaseSchema(p)
        \/ CreateTables(p) \/ Look(p) \/ DropNotNulls(p) \/ AddColumn(p)
        \/ SetDefault(p) \/ CopyLegacy(p)
        \/ StatementImpossible(p) \/ StatementFails(p) \/ ProcessRestarts(p)
        \/ \E c \in SiColumns : ServerWrites(p, c)

SchemaSpec == SchemaStart /\ [][SchemaNext]_siVars

-----------------------------------------------------------------------------
(* A process calls itself initialised only over tables it can serve        *)
(* (init.ts 366-394), whatever the other processes did meanwhile: every    *)
(* new column is there, no old column refuses a null, and no value of an   *)
(* old row is missing from a column that had both names when it looked.    *)
ReadyMeansMigrated ==
    \A p \in SiServers \cup SiTools : siProc[p].ready =>
        /\ siSnake = SiColumns
        /\ siStrict = {}
        /\ \A c \in siCamel : Copyable(p, c) => siRow[c] # "null"
=============================================================================
