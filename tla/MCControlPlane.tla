--------------------------- MODULE MCControlPlane ---------------------------
(* Five parts of the control plane that share no state, each explored on    *)
(* its own: API keys, merchant settings, the dashboard's mode and tables,   *)
(* the database schema, the release tool.                                   *)
EXTENDS ApiKeyVault, MerchantSettings, DashboardView, SchemaInit, ReleaseTool

VARIABLE scene

(* Both tabs are used to switch modes, or one tab to page through tables: *)
(* with fewer rows in live mode than in test mode, or none.               *)
Rows(live) == [test |-> <<"ok", "bad", "ok">>, live |-> live]
BothTabs == [tabs |-> {"t1", "t2"}, pagers |-> {}, data |-> Rows(<<"bad">>)]
MCUses == {BothTabs} \cup
          {[tabs |-> {"t1"}, pagers |-> {"t1"}, data |-> Rows(live)] : live \in {<<"bad">>, <<>>}}

PlaneVars == <<kvVars, msVars, dvVars, siVars, rtVars, scene>>

PlaneInit ==
    /\ scene \in {"keys", "settings", "view", "schema", "release"}
    /\ VaultInit /\ SettingsInit /\ ViewInit /\ SchemaStart /\ ReleaseInit
    /\ scene # "keys" => kvRows = {}
    /\ scene # "view" => dvBlocked /\ dvUse = BothTabs
    /\ scene # "schema" => siTables = {}
    /\ scene # "release" => rtFiles[Cargo].number = 1

PlaneNext ==
    /\ UNCHANGED scene
    /\ \/ scene = "keys" /\ VaultNext /\ UNCHANGED <<msVars, dvVars, siVars, rtVars>>
       \/ scene = "settings" /\ SettingsNext /\ UNCHANGED <<kvVars, dvVars, siVars, rtVars>>
       \/ scene = "view" /\ ViewNext /\ UNCHANGED <<kvVars, msVars, siVars, rtVars>>
       \/ scene = "schema" /\ SchemaNext /\ UNCHANGED <<kvVars, msVars, dvVars, rtVars>>
       \/ scene = "release" /\ ReleaseNext /\ UNCHANGED <<kvVars, msVars, dvVars, siVars>>

PlaneSpec == PlaneInit /\ [][PlaneNext]_PlaneVars
=============================================================================
