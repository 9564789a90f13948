------------------------ MODULE ControlPlane_proofs --------------------------
(***************************************************************************)
(* The invariants of the five parts of the control plane, each for its own *)
(* specification: API keys and cached figures, merchant settings, the      *)
(* dashboard's mode and tables, the database schema, the release tool.     *)
(***************************************************************************)
EXTENDS ApiKeyVault, MerchantSettings, DashboardView, SchemaInit, ReleaseTool, TLAPS

(***************************************************************************)
(*                           Merchant settings                             *)
(***************************************************************************)
MsTab == [page : {"none", "settings", "other"}, at : {"idle", "selected", "saving", "stored"},
          form : Nat, sent : Nat, lost : BOOLEAN, rolled : BOOLEAN, stale : BOOLEAN]

(* A tab beside the row r: a form is open only where there is a row, and   *)
(* what it sends or inserts is a secret.                                   *)
TabOk(x, r) ==
    /\ x.at = "selected" => x.form # NoSecret
    /\ x.at = "saving" => x.sent # NoSecret
    /\ x.page = "settings" /\ x.at # "selected" =>
          /\ r # NoSecret /\ x.form # NoSecret
          /\ x.form # r => x.rolled \/ x.stale \/ x.lost

SettingsIInv ==
    /\ msTabs \in [MsTabs -> MsTab] /\ msRow \in Nat
    /\ \A t \in MsTabs : TabOk(msTabs[t], msRow)

(* One tab changes beside the row. *)
LEMMA TabKeeps ==
    ASSUME SettingsIInv, NEW t \in MsTabs, NEW x \in MsTab,
           msTabs' = [msTabs EXCEPT ![t] = x], msRow' = msRow, TabOk(x, msRow)
    PROVE  SettingsIInv'
<1>1. msTabs' \in [MsTabs -> MsTab] /\ \A u \in MsTabs : TabOk(msTabs'[u], msRow)
  BY DEF SettingsIInv
<1> QED
  BY <1>1 DEF SettingsIInv

(* A secret is stored: every form is that secret's, or knows better. *)
LEMMA SinceKeeps ==
    ASSUME NEW x \in MsTab, NEW r, TabOk(x, r), NEW s \in Nat, s # NoSecret
    PROVE  Since(s, x) \in MsTab /\ TabOk(Since(s, x), s)
<1>1. CASE x.form = s
  <2>1. PICK y : y = [x EXCEPT !.lost = FALSE, !.rolled = FALSE, !.stale = FALSE]
    OBVIOUS
  <2>2. /\ y \in MsTab /\ y.at = x.at /\ y.page = x.page /\ y.form = s /\ y.sent = x.sent
    BY <1>1, <2>1 DEF MsTab
  <2>3. Since(s, x) = y
    BY <1>1, <2>1 DEF Since
  <2> QED
    BY <2>2, <2>3 DEF TabOk
<1>2. CASE x.form # s
  <2>1. PICK b \in BOOLEAN : b = (x.page = "settings")
    OBVIOUS
  <2>2. PICK y : y = [x EXCEPT !.stale = b]
    OBVIOUS
  <2>3. /\ y \in MsTab /\ y.at = x.at /\ y.page = x.page /\ y.form = x.form /\ y.sent = x.sent
        /\ y.stale = b
    BY <2>2 DEF MsTab
  <2>4. Since(s, x) = y
    BY <1>2, <2>1, <2>2 DEF Since
  <2> QED
    BY <2>1, <2>3, <2>4 DEF TabOk
<1> QED
  BY <1>1, <1>2

(* The page looks the row up, and inserts one if there is none. *)
LEMMA LoadsKeep ==
    ASSUME SettingsIInv, NEW t \in MsTabs,
           \/ \E page \in {"settings", "other"} : LoadFinds(t, page) \/ LoadMisses(t, page)
           \/ LoadInserts(t)
    PROVE  SettingsIInv'
<1>0. msTabs[t] \in MsTab /\ TabOk(msTabs[t], msRow) /\ msRow \in Nat
  BY DEF SettingsIInv
<1>1. Closed \in MsTab /\ Closed.at = "idle" /\ Closed.page = "none"
  BY DEF Closed, MsTab, NoSecret
<1>2. ASSUME NEW page \in {"settings", "other"}, LoadFinds(t, page) PROVE SettingsIInv'
  <2>1. PICK x : x = IF page = "settings" THEN [Closed EXCEPT !.page = page, !.form = msRow] ELSE Closed
    OBVIOUS
  <2>2. x \in MsTab /\ x.at = "idle" /\ (x.page = "settings" => x.form = msRow)
    BY <1>0, <1>1, <2>1 DEF MsTab
  <2>3. UNCHANGED msRow /\ msRow # NoSecret /\ msTabs' = [msTabs EXCEPT ![t] = x]
    BY <1>2, <2>1 DEF LoadFinds, Found
  <2> QED
    BY <2>2, <2>3, TabKeeps DEF TabOk
<1>3. ASSUME NEW page \in {"settings", "other"}, LoadMisses(t, page) PROVE SettingsIInv'
  <2>1. PICK s \in GenerateWebhookSecret :
            msTabs' = [msTabs EXCEPT ![t] = [Closed EXCEPT !.page = page, !.at = "selected", !.form = s]]
    BY <1>3 DEF LoadMisses
  <2>2. s \in Nat /\ s # NoSecret
    BY SettingsAssumption DEF GenerateWebhookSecret, NoSecret
  <2>3. PICK x : x = [Closed EXCEPT !.page = page, !.at = "selected", !.form = s]
    OBVIOUS
  <2>4. x \in MsTab /\ x.at = "selected" /\ x.form = s
    BY <2>2, <2>3 DEF Closed, MsTab, NoSecret
  <2>5. UNCHANGED msRow /\ msTabs' = [msTabs EXCEPT ![t] = x]
    BY <1>3, <2>1, <2>3 DEF LoadMisses
  <2> QED
    BY <2>2, <2>4, <2>5, TabKeeps DEF TabOk
<1>4. CASE LoadInserts(t)
  <2>1. PICK f \in BOOLEAN : f = Found
    BY DEF Found
  <2>2. PICK x : x = IF msTabs[t].page = "settings" THEN [msTabs[t] EXCEPT !.at = "idle", !.lost = f]
                     ELSE Closed
    OBVIOUS
  <2>3. /\ x \in MsTab /\ x.at = "idle"
        /\ x.page = "settings" => x.form = msTabs[t].form /\ x.lost = f
    BY <1>0, <1>1, <2>2 DEF MsTab
  <2>4. /\ msTabs' = [msTabs EXCEPT ![t] = x] /\ msTabs[t].form # NoSecret
        /\ msRow' = IF Found THEN msRow ELSE msTabs[t].form
    BY <1>0, <1>4, <2>1, <2>2 DEF LoadInserts, InsertDefaults, SettingsIInv, TabOk
  <2>5. CASE Found
    <3>1. msRow' = msRow /\ msRow # NoSecret
      BY <2>4, <2>5 DEF Found
    <3> QED
      BY <2>1, <2>3, <2>4, <2>5, <3>1, TabKeeps DEF TabOk
  <2>6. CASE ~Found
    <3>1. msRow' = msTabs[t].form /\ msRow = NoSecret /\ msRow' \in Nat
      BY <1>0, <2>4, <2>6 DEF Found, MsTab
    <3>2. ASSUME NEW u \in MsTabs PROVE TabOk(msTabs'[u], msRow') /\ msTabs'[u] \in MsTab
      <4>1. CASE u = t
        BY <2>3, <2>4, <3>1, <4>1 DEF TabOk, SettingsIInv
      <4>2. CASE u # t
        <5>1. msTabs'[u] = msTabs[u] /\ TabOk(msTabs[u], msRow) /\ msTabs[u] \in MsTab
          BY <2>4, <4>2 DEF SettingsIInv
        <5> QED
          BY <3>1, <5>1 DEF TabOk
      <4> QED
        BY <4>1, <4>2
    <3>3. msTabs' \in [MsTabs -> MsTab]
      BY <2>3, <2>4 DEF SettingsIInv
    <3> QED
      BY <3>1, <3>2, <3>3 DEF SettingsIInv
  <2> QED
    BY <2>5, <2>6
<1> QED
  BY <1>2, <1>3, <1>4

(* The form is rolled and sent; a save ends, stored or not. *)
LEMMA FormsKeep ==
    ASSUME SettingsIInv, NEW t \in MsTabs,
           \/ HandleRegenerateSecret(t) \/ HandleSave(t)
           \/ SaveAnswered(t) \/ SaveRefused(t) \/ SaveCutOff(t)
    PROVE  SettingsIInv'
<1>0. msTabs[t] \in MsTab /\ TabOk(msTabs[t], msRow) /\ msTabs \in [MsTabs -> MsTab]
  BY DEF SettingsIInv
<1>1. CASE HandleRegenerateSecret(t)
  <2>1. PICK s \in GenerateWebhookSecret : msTabs' = [msTabs EXCEPT ![t].form = s, ![t].rolled = TRUE]
    BY <1>1 DEF HandleRegenerateSecret
  <2>2. s \in Nat /\ s # NoSecret
    BY SettingsAssumption DEF GenerateWebhookSecret, NoSecret
  <2>3. PICK x : x = [msTabs[t] EXCEPT !.form = s, !.rolled = TRUE]
    OBVIOUS
  <2>4. /\ x \in MsTab /\ x.at = msTabs[t].at /\ x.page = msTabs[t].page /\ x.form = s /\ x.rolled
        /\ x.sent = msTabs[t].sent
    BY <1>0, <2>2, <2>3 DEF MsTab
  <2>5. UNCHANGED msRow /\ msTabs' = [msTabs EXCEPT ![t] = x] /\ Shown(t)
    BY <1>0, <1>1, <2>1, <2>3 DEF HandleRegenerateSecret
  <2>6. TabOk(x, msRow)
    BY <1>0, <2>2, <2>4, <2>5 DEF TabOk, Shown
  <2> QED
    BY <2>4, <2>5, <2>6, TabKeeps
<1>2. CASE HandleSave(t)
  <2>1. PICK x : x = [msTabs[t] EXCEPT !.at = "saving", !.sent = msTabs[t].form]
    OBVIOUS
  <2>2. /\ x \in MsTab /\ x.at = "saving" /\ x.page = msTabs[t].page /\ x.form = msTabs[t].form
        /\ x.rolled = msTabs[t].rolled /\ x.stale = msTabs[t].stale /\ x.lost = msTabs[t].lost
        /\ x.sent = msTabs[t].form
    BY <1>0, <2>1 DEF MsTab
  <2>3. UNCHANGED msRow /\ msTabs' = [msTabs EXCEPT ![t] = x] /\ Shown(t)
    BY <1>0, <1>2, <2>1 DEF HandleSave
  <2>4. TabOk(x, msRow)
    BY <1>0, <2>2, <2>3 DEF TabOk, Shown
  <2> QED
    BY <2>2, <2>3, <2>4, TabKeeps
<1>3. CASE SaveAnswered(t) \/ SaveRefused(t) \/ SaveCutOff(t)
  <2>1. PICK x : x = [msTabs[t] EXCEPT !.at = "idle", !.sent = NoSecret]
    OBVIOUS
  <2>2. /\ x \in MsTab /\ x.at = "idle" /\ x.page = msTabs[t].page /\ x.form = msTabs[t].form
        /\ x.rolled = msTabs[t].rolled /\ x.stale = msTabs[t].stale /\ x.lost = msTabs[t].lost
    BY <1>0, <2>1 DEF MsTab, NoSecret
  <2>3. UNCHANGED msRow /\ msTabs' = [msTabs EXCEPT ![t] = x] /\ msTabs[t].at # "selected"
    BY <1>0, <1>3, <2>1 DEF SaveAnswered, SaveRefused, SaveCutOff, SaveEnds
  <2>4. TabOk(x, msRow)
    BY <1>0, <2>2, <2>3 DEF TabOk
  <2> QED
    BY <2>2, <2>3, <2>4, TabKeeps
<1> QED
  BY <1>1, <1>2, <1>3

(* A save is served, in time or late. *)
LEMMA SavesKeep ==
    ASSUME SettingsIInv,
           \/ \E t \in MsTabs : UpdateMerchantSettings(t)
           \/ \E s \in MsSecrets : LateSave(s)
    PROVE  SettingsIInv'
<1>0. \A t \in MsTabs : msTabs[t] \in MsTab /\ TabOk(msTabs[t], msRow)
  BY DEF SettingsIInv
<1>1. ASSUME NEW s \in Nat, s # NoSecret, NEW f, \A u \in MsTabs : f[u] \in MsTab /\ TabOk(f[u], msRow),
             msTabs' = [u \in MsTabs |-> Since(s, f[u])], msRow' = s
      PROVE  SettingsIInv'
  <2>1. ASSUME NEW u \in MsTabs PROVE Since(s, f[u]) \in MsTab /\ TabOk(Since(s, f[u]), s)
    BY <1>1, SinceKeeps
  <2>2. msTabs' \in [MsTabs -> MsTab] /\ \A u \in MsTabs : TabOk(msTabs'[u], s)
    BY <1>1, <2>1
  <2> QED
    BY <1>1, <2>2 DEF SettingsIInv
<1>2. ASSUME NEW t \in MsTabs, UpdateMerchantSettings(t) PROVE SettingsIInv'
  <2>1. PICK s : s = msTabs[t].sent
    OBVIOUS
  <2>2. s \in Nat /\ s # NoSecret /\ msTabs[t].at = "saving"
    BY <1>0, <1>2, <2>1 DEF UpdateMerchantSettings, MsTab, TabOk
  <2>3. PICK x : x = [msTabs[t] EXCEPT !.at = "stored"]
    OBVIOUS
  <2>4. /\ x \in MsTab /\ x.at = "stored" /\ x.page = msTabs[t].page /\ x.form = msTabs[t].form
        /\ x.rolled = msTabs[t].rolled /\ x.stale = msTabs[t].stale /\ x.lost = msTabs[t].lost
    BY <1>0, <2>3 DEF MsTab
  <2>5. TabOk(x, msRow)
    BY <1>0, <2>2, <2>4 DEF TabOk
  <2>6. PICK f : f = [u \in MsTabs |-> IF u = t THEN x ELSE msTabs[u]]
    OBVIOUS
  <2>7. \A u \in MsTabs : f[u] \in MsTab /\ TabOk(f[u], msRow)
    BY <1>0, <2>4, <2>5, <2>6
  <2>8. /\ msRow' = s
        /\ msTabs' = [u \in MsTabs |-> Since(s, IF u = t THEN [msTabs[u] EXCEPT !.at = "stored"] ELSE msTabs[u])]
    BY <1>2, <2>1 DEF UpdateMerchantSettings
  <2>9. \A u \in MsTabs : f[u] = IF u = t THEN [msTabs[u] EXCEPT !.at = "stored"] ELSE msTabs[u]
    BY <2>3, <2>6
  <2>10. msTabs' = [u \in MsTabs |-> Since(s, f[u])]
    BY <2>8, <2>9, Zenon
  <2> QED
    BY <1>1, <2>2, <2>7, <2>8, <2>10
<1>3. ASSUME NEW s \in MsSecrets, LateSave(s) PROVE SettingsIInv'
  <2>1. s \in Nat /\ s # NoSecret
    BY SettingsAssumption DEF NoSecret
  <2>2. msRow' = s /\ msTabs' = [u \in MsTabs |-> Since(s, msTabs[u])]
    BY <1>3 DEF LateSave
  <2> QED
    BY <1>0, <1>1, <2>1, <2>2
<1> QED
  BY <1>2, <1>3

(* merchant-settings-service.ts: whatever loads, rolls, saves and late     *)
(* saves cross, an open form shows the stored secret unless it was rolled  *)
(* there, another was saved since, or its page lost the race to insert the *)
(* row.  A page is shown only where there is a row, so no insert changes   *)
(* one: that is what makes the statement inductive.                        *)
THEOREM FormsShowTheSecret == SettingsSpec => []ShownSecretIsStored
<1>1. SettingsInit => SettingsIInv
  BY DEF SettingsInit, SettingsIInv, TabOk, Closed, MsTab, NoSecret
<1>2. SettingsIInv /\ [SettingsNext]_msVars => SettingsIInv'
  <2> SUFFICES ASSUME SettingsIInv, [SettingsNext]_msVars PROVE SettingsIInv'
    OBVIOUS
  <2>1. ASSUME UNCHANGED <<msRow, msTabs>> PROVE SettingsIInv'
    BY <2>1 DEF SettingsIInv
  <2>2. UNCHANGED msVars \/ (\E t \in MsTabs : HandleTestWebhook(t)) => SettingsIInv'
    BY <2>1 DEF msVars, HandleTestWebhook
  <2> QED
    BY <2>2, LoadsKeep, FormsKeep, SavesKeep DEF SettingsNext
<1>3. SettingsIInv => ShownSecretIsStored
  BY DEF SettingsIInv, TabOk, ShownSecretIsStored, Shown
<1> QED
  BY <1>1, <1>2, <1>3, PTL DEF SettingsSpec

------------------------------------------------------------------------------
(***************************************************************************)
(*                    API keys and the cached figures                      *)
(***************************************************************************)
KvOp == [kind : {"idle", "create", "revoke", "purge"}, via : {"none", "fetch", "action"},
         at : {"none", "sent", "written", "ok", "refused", "thrown"},
         key : (KvEnvs \X Nat) \union {NoKey}]

VaultTypes ==
    /\ kvRows \subseteq KvIds
    /\ kvOps \in [KvOps -> KvOp]
    /\ \A o \in KvOps : /\ kvOps[o].kind = "create" => kvOps[o].key \in KvEnvs \X Nat
                        /\ kvOps[o].kind = "idle" => kvOps[o] = NoOp
                        /\ kvOps[o].at = "refused" => kvOps[o].via = "fetch"

(* An operation that has changed nothing: no call, or a call of the create *)
(* route that has not been served or was refused.                          *)
Harmless(x) ==
    \/ x = NoOp
    \/ x.kind = "create" /\ x.via = "fetch" /\ x.at \in {"sent", "refused"}

(* With nothing but such operations and no refresh asked for, the list, or *)
(* the refresh that will replace it, is the table's.                       *)
ListFollows ==
    (~kvDue /\ ~kvStranded /\ \A o \in KvOps : Harmless(kvOps[o])) =>
        (IF kvSnap = NoSnap THEN kvList ELSE kvSnap) = kvRows

(* A write that will forget the figures of e has not done so yet. *)
Threatened(e) == \E o \in KvOps : kvOps[o].at = "written" /\ e \in Invalidated(o)
KeysOf(e) == {k \in kvRows : k[1] = e}

FiguresFollow ==
    \A e \in KvEnvs :
        kvCache[e].held /\ ~kvCache[e].raced /\ ~kvCache[e].failed /\ ~Threatened(e)
            => kvCache[e].keys = KeysOf(e)

Cached == [held : BOOLEAN, keys : SUBSET KvIds, raced : BOOLEAN, failed : BOOLEAN]
Loading == [env : KvEnvs \union {"none"}, keys : SUBSET KvIds, raced : BOOLEAN, failed : BOOLEAN]

LoadsFollow ==
    \A l \in KvLoads :
        kvLoad[l] # NoLoad =>
            /\ kvLoad[l].env \in KvEnvs
            /\ ~kvLoad[l].raced /\ ~kvLoad[l].failed => kvLoad[l].keys = KeysOf(kvLoad[l].env)

ListInv == VaultTypes /\ ListFollows

FiguresInv ==
    /\ kvCache \in [KvEnvs -> Cached]
    /\ kvLoad \in [KvLoads -> Loading]
    /\ FiguresFollow /\ LoadsFollow

(* The table is never taken for the mark of no refresh. *)
LEMMA RowsAreNoMark ==
    ASSUME VaultTypes
    PROVE  kvRows # NoSnap
<1>1. NoKey \notin KvIds
  BY VaultAssumption DEF NoKey, KvIds
<1> QED
  BY <1>1 DEF VaultTypes, NoSnap

(* A new key is one of its environment. *)
LEMMA IssuedIsKey ==
    ASSUME NEW e \in KvEnvs, \E n \in KvNumbers : <<e, n>> \notin kvIssued
    PROVE  IssueApiKey(e) \in KvIds /\ IssueApiKey(e)[1] = e
<1>1. \E k \in KvIds : k[1] = e /\ k \notin kvIssued
  BY DEF KvIds
<1> QED
  BY <1>1 DEF IssueApiKey

(* What a step does to the operation it is about. *)
OneOp(o, x) == kvOps' = [kvOps EXCEPT ![o] = x]

(* The list keeps following if the operation of the step is not harmless   *)
(* afterwards, asks for a refresh or ends stranded ...                     *)
LEMMA TroubledList ==
    ASSUME ListInv, NEW o \in KvOps, NEW x \in KvOp, OneOp(o, x),
           ~Harmless(x) \/ kvDue' \/ kvStranded'
    PROVE  ListFollows'
<1>1. kvOps'[o] = x
  BY DEF OneOp, ListInv, VaultTypes
<1> QED
  BY <1>1 DEF ListFollows

(* ... or was harmless before, and table, list and refresh stay.           *)
LEMMA HarmlessList ==
    ASSUME ListInv, NEW o \in KvOps, NEW x \in KvOp, OneOp(o, x), Harmless(kvOps[o]),
           UNCHANGED <<kvRows, kvList, kvDue, kvSnap, kvStranded>>
    PROVE  ListFollows'
<1>1. \A u \in KvOps : u # o => kvOps'[u] = kvOps[u]
  BY DEF OneOp, ListInv, VaultTypes
<1> QED
  BY <1>1 DEF ListInv, ListFollows

(* The types, if the operation of the step keeps them. *)
LEMMA OpTypes ==
    ASSUME VaultTypes, NEW o \in KvOps, NEW x \in KvOp, OneOp(o, x), kvRows' \subseteq KvIds,
           x.kind = "create" => x.key \in KvEnvs \X Nat, x.kind = "idle" => x = NoOp,
           x.at = "refused" => x.via = "fetch"
    PROVE  VaultTypes'
<1>1. kvOps' \in [KvOps -> KvOp] /\ kvOps'[o] = x /\ \A u \in KvOps : u # o => kvOps'[u] = kvOps[u]
  BY DEF OneOp, VaultTypes
<1> QED
  BY <1>1 DEF VaultTypes

(* The steps that leave the operation at another place. *)
MovedTo(o, a) == [kvOps[o] EXCEPT !.at = a]

(* A click starts an operation; removals show at once. *)
LEMMA BeginList ==
    ASSUME ListInv, NEW o \in KvOps,
           \/ \E e \in KvEnvs : Create(o, e)
           \/ \E k \in KvIds : Revoke(o, k)
           \/ RemoveAllKeys(o)
    PROVE  ListInv'
<1>1. KvIds \subseteq KvEnvs \X Nat
  BY VaultAssumption DEF KvIds
<1>2. CASE \E e \in KvEnvs : Create(o, e)
  <2>1. PICK e \in KvEnvs : Create(o, e)
    BY <1>2
  <2> DEFINE x == [kind |-> "create", via |-> "fetch", at |-> "sent", key |-> <<e, 0>>]
  <2>2. /\ x \in KvOp /\ x.key \in KvEnvs \X Nat /\ x.kind = "create" /\ x.at = "sent"
    BY DEF KvOp
  <2>3. /\ OneOp(o, x) /\ Harmless(kvOps[o])
        /\ UNCHANGED <<kvRows, kvList, kvDue, kvSnap, kvStranded>>
    BY <2>1 DEF Create, Begin, OneOp, Harmless
  <2> HIDE DEF x
  <2> QED
    BY <2>2, <2>3, OpTypes, HarmlessList DEF ListInv, VaultTypes
<1>3. CASE \E k \in KvIds : Revoke(o, k)
  <2>1. PICK k \in KvIds : Revoke(o, k)
    BY <1>3
  <2> DEFINE x == [kind |-> "revoke", via |-> "fetch", at |-> "sent", key |-> k]
  <2>2. x \in KvOp /\ x.kind = "revoke" /\ x.at = "sent" /\ ~Harmless(x)
    BY <1>1 DEF KvOp, Harmless, NoOp
  <2>3. OneOp(o, x) /\ UNCHANGED kvRows
    BY <2>1 DEF Revoke, Begin, OneOp
  <2> HIDE DEF x
  <2> QED
    BY <2>2, <2>3, OpTypes, TroubledList DEF ListInv, VaultTypes
<1>4. CASE RemoveAllKeys(o)
  <2> DEFINE x == [kind |-> "purge", via |-> "fetch", at |-> "sent", key |-> NoKey]
  <2>2. x \in KvOp /\ x.kind = "purge" /\ x.at = "sent" /\ ~Harmless(x)
    BY DEF KvOp, Harmless, NoOp
  <2>3. OneOp(o, x) /\ UNCHANGED kvRows
    BY <1>4 DEF RemoveAllKeys, Begin, OneOp
  <2> HIDE DEF x
  <2> QED
    BY <2>2, <2>3, OpTypes, TroubledList DEF ListInv, VaultTypes
<1> QED
  BY <1>2, <1>3, <1>4

(* The server's writes, answers, refusals and losses. *)
LEMMA ServerList ==
    ASSUME ListInv, NEW o \in KvOps,
           \/ ServerInserts(o) \/ ServerDeletes(o) \/ ServerAnswers(o)
           \/ ServerRefuses(o) \/ RequestLost(o) \/ AnswerLost(o)
    PROVE  ListInv'
<1>0. /\ kvOps[o] \in KvOp /\ VaultTypes /\ kvOps \in [KvOps -> KvOp]
      /\ kvOps[o].kind = "create" => kvOps[o].key \in KvEnvs \X Nat
      /\ kvOps[o].kind = "idle" => kvOps[o] = NoOp
      /\ kvOps[o].at = "refused" => kvOps[o].via = "fetch"
  BY DEF ListInv, VaultTypes
<1>1. CASE ServerInserts(o)
  <2> DEFINE e == kvOps[o].key[1]
             k == IssueApiKey(e)
             x == [kvOps[o] EXCEPT !.at = "written", !.key = k]
  <2>1. kvOps[o].kind = "create" /\ e \in KvEnvs /\ \E n \in KvNumbers : <<e, n>> \notin kvIssued
    BY <1>0, <1>1 DEF ServerInserts
  <2>2. k \in KvIds
    BY <2>1, IssuedIsKey
  <2>3. OneOp(o, x) /\ kvRows' = kvRows \union {k}
    BY <1>0, <1>1 DEF ServerInserts, OneOp
  <2> HIDE DEF e, k
  <2>4. k \in KvEnvs \X Nat
    BY <2>2, VaultAssumption DEF KvIds
  <2>5. x \in KvOp /\ x.kind = "create" /\ x.key \in KvEnvs \X Nat /\ x.at = "written" /\ ~Harmless(x)
    BY <1>0, <2>1, <2>4 DEF KvOp, Harmless, NoOp
  <2> HIDE DEF x
  <2> QED
    BY <2>2, <2>3, <2>5, OpTypes, TroubledList DEF ListInv, VaultTypes
<1>2. CASE ServerDeletes(o)
  <2> DEFINE x == MovedTo(o, "written")
  <2>1. x \in KvOp /\ x.kind \in {"revoke", "purge"} /\ x.at = "written" /\ ~Harmless(x)
    BY <1>0, <1>2 DEF ServerDeletes, KvOp, Harmless, NoOp, MovedTo
  <2>2. OneOp(o, x) /\ kvRows' \subseteq KvIds
    BY <1>0, <1>2 DEF ServerDeletes, OneOp, MovedTo, VaultTypes
  <2> HIDE DEF x
  <2> QED
    BY <2>1, <2>2, OpTypes, TroubledList DEF ListInv
<1>3. ASSUME NEW a \in {"ok", "refused", "thrown"}, kvOps[o].at \in {"sent", "written", "ok"},
             kvOps' = [kvOps EXCEPT ![o].at = a],
             UNCHANGED <<kvRows, kvList, kvDue, kvSnap, kvStranded>>,
             a = "refused" => kvOps[o].at = "sent" /\ kvOps[o].via = "fetch"
      PROVE  ListInv'
  <2> DEFINE x == MovedTo(o, a)
  <2>1. kvOps[o] # NoOp /\ kvOps[o].kind # "idle"
    BY <1>0, <1>3 DEF NoOp
  <2>2. /\ x \in KvOp /\ x.kind = kvOps[o].kind /\ x.key = kvOps[o].key /\ x.via = kvOps[o].via
        /\ x.at = a
    BY <1>0, <1>3 DEF KvOp, MovedTo
  <2>3. OneOp(o, x)
    BY <1>0, <1>3 DEF OneOp, MovedTo
  <2> HIDE DEF x
  <2>4. x # NoOp
    BY <2>1, <2>2 DEF NoOp
  <2>5. Harmless(x) => Harmless(kvOps[o])
    BY <1>3, <2>2, <2>4 DEF Harmless
  <2>6. ListFollows'
    BY <1>3, <2>2, <2>3, <2>5, TroubledList, HarmlessList
  <2>7. VaultTypes'
    BY <1>0, <1>3, <2>1, <2>2, <2>3, OpTypes DEF VaultTypes
  <2> QED
    BY <2>6, <2>7 DEF ListInv
<1>4. CASE ServerAnswers(o)
  BY <1>3, <1>4 DEF ServerAnswers, kvPage
<1>5. CASE ServerRefuses(o) \/ RequestLost(o) \/ AnswerLost(o)
  BY <1>3, <1>5 DEF ServerRefuses, RequestLost, AnswerLost, Fault, kvPage
<1> QED
  BY <1>1, <1>2, <1>4, <1>5

(* The page takes the answers. *)
LEMMA AnswerList ==
    ASSUME ListInv, NEW o \in KvOps,
           \/ CreateAnswered(o) \/ CreateRefused(o) \/ RevokeAnswered(o)
           \/ FallsBack(o) \/ ActionThrows(o) \/ PurgeAnswered(o)
    PROVE  ListInv'
<1>0. /\ kvOps[o] \in KvOp /\ VaultTypes /\ kvOps \in [KvOps -> KvOp]
      /\ kvOps[o].kind = "create" => kvOps[o].key \in KvEnvs \X Nat
      /\ kvOps[o].kind = "idle" => kvOps[o] = NoOp
      /\ kvOps[o].at = "refused" => kvOps[o].via = "fetch"
  BY DEF ListInv, VaultTypes
<1>1. NoOp \in KvOp /\ NoOp.kind = "idle" /\ NoOp.at = "none"
  BY DEF NoOp, KvOp
<1>2. CASE CreateAnswered(o) \/ RevokeAnswered(o) \/ ActionThrows(o) \/ PurgeAnswered(o)
  <2>1. OneOp(o, NoOp) /\ UNCHANGED kvRows /\ (kvDue' \/ kvStranded')
    BY <1>2 DEF CreateAnswered, RevokeAnswered, ActionThrows, PurgeAnswered, Finish, OneOp
  <2> QED
    BY <1>0, <1>1, <2>1, OpTypes, TroubledList DEF ListInv, VaultTypes
<1>3. CASE CreateRefused(o)
  <2>1. OneOp(o, NoOp) /\ UNCHANGED <<kvRows, kvList, kvDue, kvSnap, kvStranded>>
    BY <1>3 DEF CreateRefused, Finish, OneOp, kvPage
  <2>2. Harmless(kvOps[o])
    BY <1>0, <1>3 DEF CreateRefused, Harmless
  <2> QED
    BY <1>0, <1>1, <2>1, <2>2, OpTypes, HarmlessList DEF ListInv, VaultTypes
<1>4. CASE FallsBack(o)
  <2> DEFINE key == IF kvOps[o].kind = "create" THEN <<kvOps[o].key[1], 0>> ELSE kvOps[o].key
             x == [kvOps[o] EXCEPT !.via = "action", !.at = "sent", !.key = key]
  <2>1. key \in (KvEnvs \X Nat) \union {NoKey} /\ (kvOps[o].kind = "create" => key \in KvEnvs \X Nat)
    BY <1>0 DEF KvOp
  <2>2. OneOp(o, x) /\ UNCHANGED kvRows /\ kvOps[o].kind \in {"create", "revoke"}
    BY <1>0, <1>4 DEF FallsBack, FallBack, OneOp
  <2> HIDE DEF key
  <2>3. x \in KvOp /\ x.kind = kvOps[o].kind /\ x.key = key /\ x.at = "sent" /\ ~Harmless(x)
    BY <1>0, <2>1, <2>2 DEF KvOp, Harmless, NoOp
  <2> HIDE DEF x
  <2> QED
    BY <1>0, <2>1, <2>2, <2>3, OpTypes, TroubledList DEF ListInv, VaultTypes
<1> QED
  BY <1>2, <1>3, <1>4

(* A refresh, or a step of the dashboard's renders. *)
LEMMA QuietList ==
    ASSUME ListInv, UNCHANGED <<kvRows, kvOps, kvStranded>>,
           \/ RefreshReads \/ RefreshApplies \/ UNCHANGED <<kvList, kvDue, kvSnap>>
    PROVE  ListInv'
<1>1. VaultTypes' /\ kvRows # NoSnap
  BY RowsAreNoMark DEF ListInv, VaultTypes
<1>2. ListFollows'
  BY <1>1 DEF ListInv, ListFollows, RefreshReads, RefreshApplies
<1> QED
  BY <1>1, <1>2 DEF ListInv

(* Every step keeps the list right. *)
LEMMA ListKeeps ==
    ASSUME ListInv, [VaultNext]_kvVars
    PROVE  ListInv'
<1>1. CASE UNCHANGED kvVars
  BY <1>1, QuietList DEF kvVars, kvPage
<1>2. CASE RefreshReads \/ RefreshApplies
  BY <1>2, QuietList DEF RefreshReads, RefreshApplies
<1>3. CASE \/ \E l \in KvLoads, e \in KvEnvs : DashboardReads(l, e) \/ DashboardReadFails(l, e)
           \/ \E l \in KvLoads : DashboardStores(l)
           \/ \E e \in KvEnvs : FiguresExpire(e)
  <2>1. UNCHANGED <<kvRows, kvOps, kvStranded, kvList, kvDue, kvSnap>>
    BY <1>3 DEF DashboardReads, DashboardReadFails, DashboardStores, FiguresExpire, kvPage
  <2> QED
    BY <2>1, QuietList
<1> QED
  BY <1>1, <1>2, <1>3, BeginList, ServerList, AnswerList DEF VaultNext

(* At the start the list is the table's, and nothing is under way. *)
LEMMA VaultStarts ==
    ASSUME VaultInit
    PROVE  ListInv
<1>1. ListFollows
  BY DEF VaultInit, ListFollows
<1>2. kvOps \in [KvOps -> KvOp] /\ \A o \in KvOps : kvOps[o] = NoOp
  BY DEF VaultInit, KvOp, NoOp
<1>3. kvRows \subseteq KvIds
  BY DEF VaultInit
<1> QED
  BY <1>1, <1>2, <1>3 DEF ListInv, VaultTypes, NoOp

(* credential-vault-manager.tsx: whatever removals shown early, fallbacks, *)
(* lost answers and refreshes cross, and however many operations there     *)
(* are, the page at rest lists the keys the gateway accepts, unless an     *)
(* action threw.                                                           *)
THEOREM RestingListIsTrue == VaultSpec => []QuietListIsTrue
<1>1. VaultInit => ListInv
  BY VaultStarts
<1>2. ListInv /\ [VaultNext]_kvVars => ListInv'
  BY ListKeeps
<1>3. ListInv => QuietListIsTrue
  BY DEF ListInv, ListFollows, QuietListIsTrue, Harmless
<1> QED
  BY <1>1, <1>2, <1>3, PTL DEF VaultSpec

(* Nothing was written, stored or forgotten, and writes that were not      *)
(* answered still are not.                                                 *)
LEMMA QuietFigures ==
    ASSUME FiguresInv, UNCHANGED <<kvRows, kvCache, kvLoad>>,
           \A o \in KvOps : kvOps[o].at = "written" => kvOps'[o] = kvOps[o]
    PROVE  FiguresInv'
<1>1. \A e \in KvEnvs : Threatened(e) => Threatened(e)'
  BY DEF Threatened, Invalidated
<1>2. \A e \in KvEnvs : KeysOf(e)' = KeysOf(e)
  BY DEF KeysOf
<1>3. FiguresFollow'
  BY <1>1, <1>2 DEF FiguresInv, FiguresFollow
<1>4. LoadsFollow'
  BY <1>2 DEF FiguresInv, LoadsFollow
<1> QED
  BY <1>3, <1>4 DEF FiguresInv

(* A write overtakes every render that has read, and threatens the figures *)
(* of each environment it changed until it is answered.                    *)
LEMMA WriteFigures ==
    ASSUME FiguresInv, NEW o \in KvOps, kvOps[o].at # "written", kvOps'[o].at = "written",
           \A u \in KvOps : u # o => kvOps'[u] = kvOps[u],
           \A e \in KvEnvs : e \in Invalidated(o)' \/ KeysOf(e)' = KeysOf(e),
           kvLoad' = Overtaken, UNCHANGED kvCache
    PROVE  FiguresInv'
<1>1. \A e \in KvEnvs : Threatened(e) => Threatened(e)'
  BY DEF Threatened, Invalidated
<1>2. \A e \in KvEnvs : e \in Invalidated(o)' => Threatened(e)'
  BY DEF Threatened
<1>3. FiguresFollow'
  BY <1>1, <1>2 DEF FiguresInv, FiguresFollow
<1>4. kvLoad' \in [KvLoads -> Loading]
  BY DEF FiguresInv, Overtaken, Loading
<1>5. ASSUME NEW l \in KvLoads, kvLoad'[l] # NoLoad
      PROVE  kvLoad'[l].env \in KvEnvs /\ kvLoad'[l].raced
  <2>1. /\ kvLoad[l] \in Loading /\ kvLoad[l] # NoLoad
        /\ kvLoad'[l] = [kvLoad[l] EXCEPT !.raced = TRUE]
    BY <1>5 DEF FiguresInv, Overtaken
  <2> QED
    BY <2>1 DEF FiguresInv, LoadsFollow, Loading
<1>6. LoadsFollow'
  BY <1>5 DEF LoadsFollow
<1> QED
  BY <1>3, <1>4, <1>6 DEF FiguresInv

(* The server's part. *)
LEMMA ServerFigures ==
    ASSUME ListInv, FiguresInv, NEW o \in KvOps,
           ServerInserts(o) \/ ServerDeletes(o) \/ ServerAnswers(o)
    PROVE  FiguresInv'
<1>0. /\ kvOps[o] \in KvOp /\ kvOps \in [KvOps -> KvOp]
      /\ kvOps[o].kind = "create" => kvOps[o].key \in KvEnvs \X Nat
  BY DEF ListInv, VaultTypes
<1>1. CASE ServerInserts(o)
  <2> DEFINE e == kvOps[o].key[1]
             k == IssueApiKey(e)
  <2>1. kvOps[o].kind = "create" /\ e \in KvEnvs /\ \E n \in KvNumbers : <<e, n>> \notin kvIssued
    BY <1>0, <1>1 DEF ServerInserts
  <2>2. k \in KvIds /\ k[1] = e
    BY <2>1, IssuedIsKey
  <2>3. /\ kvRows' = kvRows \union {k} /\ kvLoad' = Overtaken /\ UNCHANGED kvCache
        /\ kvOps[o].at = "sent" /\ kvOps' = [kvOps EXCEPT ![o].at = "written", ![o].key = k]
    BY <1>1 DEF ServerInserts
  <2> HIDE DEF e, k
  <2>4. /\ kvOps'[o].at = "written" /\ kvOps'[o].key = k
        /\ \A u \in KvOps : u # o => kvOps'[u] = kvOps[u]
    BY <1>0, <2>3 DEF KvOp
  <2>5. e \in Invalidated(o)'
    BY <2>1, <2>2, <2>4 DEF Invalidated
  <2>6. \A d \in KvEnvs : d # e => KeysOf(d)' = KeysOf(d)
    BY <2>2, <2>3 DEF KeysOf
  <2> QED
    BY <2>3, <2>4, <2>5, <2>6, WriteFigures
<1>2. CASE ServerDeletes(o)
  <2>1. /\ kvOps[o].at = "sent" /\ kvOps[o].kind \in {"revoke", "purge"}
        /\ kvOps' = [kvOps EXCEPT ![o].at = "written"]
        /\ kvLoad' = Overtaken /\ UNCHANGED kvCache
    BY <1>2 DEF ServerDeletes
  <2>2. /\ kvOps'[o].at = "written" /\ kvOps'[o].kind = kvOps[o].kind
        /\ \A u \in KvOps : u # o => kvOps'[u] = kvOps[u]
    BY <1>0, <2>1 DEF KvOp
  <2>3. \A e \in KvEnvs : e \in Invalidated(o)'
    BY <2>1, <2>2 DEF Invalidated
  <2> QED
    BY <2>1, <2>2, <2>3, WriteFigures
<1>3. CASE ServerAnswers(o)
  <2>1. /\ kvOps' = [kvOps EXCEPT ![o].at = "ok"] /\ UNCHANGED <<kvRows, kvLoad>>
        /\ kvCache' = [e \in KvEnvs |-> IF e \in Invalidated(o) THEN NoData ELSE kvCache[e]]
    BY <1>3 DEF ServerAnswers
  <2>2. \A u \in KvOps : u # o => kvOps'[u] = kvOps[u]
    BY <1>0, <2>1
  <2>3. \A e \in KvEnvs : Threatened(e) => Threatened(e)' \/ e \in Invalidated(o)
    BY <2>2 DEF Threatened, Invalidated
  <2>4. NoData \in Cached /\ ~NoData.held
    BY DEF NoData, Cached
  <2>5. kvCache' \in [KvEnvs -> Cached]
    BY <2>1, <2>4 DEF FiguresInv
  <2>6. \A e \in KvEnvs : KeysOf(e)' = KeysOf(e)
    BY <2>1 DEF KeysOf
  <2>7. FiguresFollow'
    BY <2>1, <2>3, <2>4, <2>6 DEF FiguresInv, FiguresFollow
  <2>8. LoadsFollow'
    BY <2>1, <2>6 DEF FiguresInv, LoadsFollow
  <2> QED
    BY <2>1, <2>5, <2>7, <2>8 DEF FiguresInv
<1> QED
  BY <1>1, <1>2, <1>3

(* The renders of the dashboard. *)
LEMMA DashboardFigures ==
    ASSUME ListInv, FiguresInv,
           \/ \E l \in KvLoads, e \in KvEnvs : DashboardReads(l, e) \/ DashboardReadFails(l, e)
           \/ \E l \in KvLoads : DashboardStores(l)
           \/ \E e \in KvEnvs : FiguresExpire(e)
    PROVE  FiguresInv'
<1>0. UNCHANGED <<kvRows, kvOps>>
  BY DEF DashboardReads, DashboardReadFails, DashboardStores, FiguresExpire
<1>1. \A e \in KvEnvs : KeysOf(e)' = KeysOf(e) /\ (Threatened(e)' <=> Threatened(e))
  BY <1>0 DEF KeysOf, Threatened, Invalidated
<1>2. ASSUME NEW l \in KvLoads, NEW e \in KvEnvs, DashboardReads(l, e) \/ DashboardReadFails(l, e)
      PROVE  FiguresInv'
  <2>1. PICK x \in Loading : /\ kvLoad' = [kvLoad EXCEPT ![l] = x] /\ x.env = e
                             /\ ~x.failed => x.keys = KeysOf(e)
    <3>1. CASE DashboardReads(l, e)
      <4> DEFINE x == [env |-> e, keys |-> {k \in kvRows : k[1] = e}, raced |-> FALSE,
                       failed |-> FALSE]
      <4>1. x \in Loading /\ x.env = e /\ x.keys = KeysOf(e)
        BY DEF Loading, KeysOf, ListInv, VaultTypes
      <4> QED
        BY <3>1, <4>1 DEF DashboardReads
    <3>2. CASE DashboardReadFails(l, e)
      <4> DEFINE x == [NoLoad EXCEPT !.env = e, !.failed = TRUE]
      <4>1. x \in Loading /\ x.env = e /\ x.failed
        BY DEF Loading, NoLoad
      <4> QED
        BY <3>2, <4>1 DEF DashboardReadFails
    <3> QED
      BY <1>2, <3>1, <3>2
  <2>2. UNCHANGED kvCache
    BY <1>2 DEF DashboardReads, DashboardReadFails
  <2>3. /\ kvLoad' \in [KvLoads -> Loading] /\ kvLoad'[l] = x
        /\ \A m \in KvLoads : m # l => kvLoad'[m] = kvLoad[m]
    BY <2>1 DEF FiguresInv
  <2>4. LoadsFollow'
    BY <1>1, <2>1, <2>3 DEF FiguresInv, LoadsFollow
  <2>5. FiguresFollow'
    BY <1>1, <2>2 DEF FiguresInv, FiguresFollow
  <2> QED
    BY <2>2, <2>3, <2>4, <2>5 DEF FiguresInv
<1>3. ASSUME NEW l \in KvLoads, DashboardStores(l) PROVE FiguresInv'
  <2> DEFINE e == kvLoad[l].env
             x == [held |-> TRUE, keys |-> kvLoad[l].keys, raced |-> kvLoad[l].raced,
                   failed |-> kvLoad[l].failed]
  <2>1. /\ kvCache' = [kvCache EXCEPT ![e] = x] /\ kvLoad' = [kvLoad EXCEPT ![l] = NoLoad]
        /\ kvLoad[l] # NoLoad
    BY <1>3 DEF DashboardStores
  <2>2. x \in Cached /\ e \in KvEnvs /\ (~x.raced /\ ~x.failed => x.keys = KeysOf(e))
    BY <2>1 DEF FiguresInv, LoadsFollow, Loading, Cached
  <2> HIDE DEF x, e
  <2>3. /\ kvCache' \in [KvEnvs -> Cached] /\ kvCache'[e] = x
        /\ \A d \in KvEnvs : d # e => kvCache'[d] = kvCache[d]
    BY <2>1, <2>2 DEF FiguresInv
  <2>4. NoLoad \in Loading
    BY DEF NoLoad, Loading
  <2>5. /\ kvLoad' \in [KvLoads -> Loading] /\ kvLoad'[l] = NoLoad
        /\ \A m \in KvLoads : m # l => kvLoad'[m] = kvLoad[m]
    BY <2>1, <2>4 DEF FiguresInv
  <2>6. LoadsFollow'
    BY <1>1, <2>5 DEF FiguresInv, LoadsFollow
  <2>7. FiguresFollow'
    BY <1>1, <2>2, <2>3 DEF FiguresInv, FiguresFollow
  <2> QED
    BY <2>3, <2>5, <2>6, <2>7 DEF FiguresInv
<1>4. ASSUME NEW e \in KvEnvs, FiguresExpire(e) PROVE FiguresInv'
  <2>1. kvCache' = [kvCache EXCEPT ![e] = NoData] /\ UNCHANGED kvLoad
    BY <1>4 DEF FiguresExpire
  <2>2. NoData \in Cached /\ ~NoData.held
    BY DEF NoData, Cached
  <2>3. kvCache' \in [KvEnvs -> Cached] /\ FiguresFollow'
    BY <1>1, <2>1, <2>2 DEF FiguresInv, FiguresFollow
  <2>4. LoadsFollow'
    BY <1>1, <2>1 DEF FiguresInv, LoadsFollow
  <2> QED
    BY <2>1, <2>3, <2>4 DEF FiguresInv
<1> QED
  BY <1>2, <1>3, <1>4

(* Every step keeps the figures right. *)
LEMMA FiguresKeep ==
    ASSUME ListInv, FiguresInv, [VaultNext]_kvVars
    PROVE  FiguresInv'
<1>0. kvOps \in [KvOps -> KvOp]
  BY DEF ListInv, VaultTypes
<1>1. CASE UNCHANGED kvVars
  BY <1>1, QuietFigures DEF kvVars, kvDash
<1>2. CASE RefreshReads \/ RefreshApplies
  BY <1>2, QuietFigures DEF RefreshReads, RefreshApplies, kvDash
<1>3. ASSUME NEW o \in KvOps, NEW x, kvOps[o].at # "written", kvOps' = [kvOps EXCEPT ![o] = x],
             UNCHANGED <<kvRows, kvDash>>
      PROVE  FiguresInv'
  <2>1. \A u \in KvOps : u # o => kvOps'[u] = kvOps[u]
    BY <1>0, <1>3
  <2> QED
    BY <1>3, <2>1, QuietFigures DEF kvDash
<1>4. ASSUME NEW o \in KvOps,
             (\E e \in KvEnvs : Create(o, e)) \/ (\E k \in KvIds : Revoke(o, k)) \/ RemoveAllKeys(o)
      PROVE  FiguresInv'
  <2>1. \E kind, key : Begin(o, kind, key)
    BY <1>4 DEF Create, Revoke, RemoveAllKeys
  <2>2. kvOps[o].at # "written" /\ UNCHANGED <<kvRows, kvDash>>
    BY <2>1 DEF Begin, NoOp
  <2>3. \E x : kvOps' = [kvOps EXCEPT ![o] = x]
    BY <2>1 DEF Begin
  <2> QED
    BY <1>3, <2>2, <2>3
<1>5. ASSUME NEW o \in KvOps, ServerRefuses(o) \/ RequestLost(o) \/ AnswerLost(o)
      PROVE  FiguresInv'
  <2>1. PICK a : Fault(o, a)
    BY <1>5 DEF ServerRefuses, RequestLost, AnswerLost
  <2>2. kvOps[o].at # "written" /\ UNCHANGED <<kvRows, kvDash>>
    BY <1>5, <2>1 DEF ServerRefuses, RequestLost, AnswerLost, Fault
  <2>3. kvOps' = [kvOps EXCEPT ![o] = [kvOps[o] EXCEPT !.at = a]]
    BY <1>0, <2>1 DEF Fault
  <2> QED
    BY <1>3, <2>2, <2>3
<1>6. ASSUME NEW o \in KvOps,
             \/ CreateAnswered(o) \/ CreateRefused(o) \/ RevokeAnswered(o)
             \/ ActionThrows(o) \/ PurgeAnswered(o)
      PROVE  FiguresInv'
  <2>1. /\ kvOps[o].at # "written" /\ UNCHANGED <<kvRows, kvDash>>
        /\ kvOps' = [kvOps EXCEPT ![o] = NoOp]
    BY <1>6 DEF CreateAnswered, CreateRefused, RevokeAnswered, ActionThrows, PurgeAnswered, Finish
  <2> QED
    BY <1>3, <2>1
<1>7. ASSUME NEW o \in KvOps, FallsBack(o) PROVE FiguresInv'
  <2>1. kvOps[o].at # "written" /\ UNCHANGED <<kvRows, kvDash>>
    BY <1>7 DEF FallsBack
  <2>2. \A u \in KvOps : u # o => kvOps'[u] = kvOps[u]
    BY <1>0, <1>7 DEF FallsBack, FallBack
  <2> QED
    BY <2>1, <2>2, QuietFigures DEF kvDash
<1> QED
  BY <1>1, <1>2, <1>4, <1>5, <1>6, <1>7, ServerFigures, DashboardFigures DEF VaultNext

(* dashboard-telemetry-service.ts: figures in memory are those of the      *)
(* database once the operations have answered, unless the render that      *)
(* stored them overlapped a write or could not read, for any number of     *)
(* keys, operations, renders and environments.                             *)
THEOREM StaleFiguresOverlapped == VaultSpec => []FiguresStaleOnlyByOverlap
<1>1. VaultInit => ListInv /\ FiguresInv
  <2> SUFFICES ASSUME VaultInit PROVE ListInv /\ FiguresInv
    OBVIOUS
  <2>1. ListInv
    BY VaultStarts
  <2>2. NoData \in Cached /\ ~NoData.held /\ NoLoad \in Loading
    BY DEF NoData, Cached, NoLoad, Loading
  <2>3. FiguresInv
    BY <2>2 DEF VaultInit, FiguresInv, FiguresFollow, LoadsFollow
  <2> QED
    BY <2>1, <2>3
<1>2. ListInv /\ FiguresInv /\ [VaultNext]_kvVars => ListInv' /\ FiguresInv'
  BY ListKeeps, FiguresKeep
<1>3. FiguresInv => FiguresStaleOnlyByOverlap
  BY DEF FiguresInv, FiguresFollow, FiguresStaleOnlyByOverlap, Threatened, KeysOf
<1> QED
  BY <1>1, <1>2, <1>3, PTL DEF VaultSpec

------------------------------------------------------------------------------
(***************************************************************************)
(*                     The dashboard's mode and tables                     *)
(***************************************************************************)
Modes == {"live", "test"}
DvTab == [at : {"closed", "rendered", "open"}, table : {"none", "ledger", "requests"},
          initial : Modes, mode : Modes, rows : Modes, filter : DvFilters \union {"all"},
          page : Nat \ {0}, size : DvSizes \union {0}, due : BOOLEAN,
          snap : Modes \union {"none"}, crossed : BOOLEAN, moved : BOOLEAN]

ViewTypes ==
    /\ dvCookie \in Modes \union {"none"} /\ dvStorage \in Modes \union {"none"}
    /\ dvTabs \in [DvTabs -> DvTab]
    /\ \A t \in DvTabs : dvTabs[t].at # "closed" =>
           dvTabs[t].table # "none" /\ dvTabs[t].size \in DvSizes

(* A page that was opened is rendered for the mode it shows; later, unless *)
(* another tab came between, the refresh it asked for will be rendered for *)
(* the mode it shows, the one on its way was, or the page itself.          *)
ModeFollows(x, served) ==
    /\ x.at = "rendered" => x.mode = x.initial /\ ~x.due /\ x.snap = "none"
    /\ x.at = "open" /\ ~x.crossed =>
          x.mode = IF x.due THEN served ELSE IF x.snap # "none" THEN x.snap ELSE x.initial
RowsFollow(x) ==
    x.at # "closed" =>
        /\ x.table = "requests" => x.rows = x.initial
        /\ ~x.moved => x.rows = x.initial

ViewIInv ==
    /\ ViewTypes
    /\ \A t \in DvTabs : RowsFollow(dvTabs[t])
    /\ ~dvBlocked => \A t \in DvTabs : ModeFollows(dvTabs[t], ServedMode)

(* A step of tab t that makes it x and the cookie c.  The other tabs stay, *)
(* but for the mark that their refresh was crossed.                        *)
LEMMA BecomesKeeps ==
    ASSUME ViewIInv, NEW t, NEW x \in DvTab, NEW c \in Modes \union {"none"}, Becomes(t, x, c),
           dvStorage' \in Modes \union {"none"}, UNCHANGED dvBlocked,
           x.at # "closed" => x.table # "none" /\ x.size \in DvSizes,
           RowsFollow(x), ~dvBlocked => ModeFollows(x, ServedMode')
    PROVE  ViewIInv'
<1>0. \A u \in DvTabs : dvTabs[u] \in DvTab
  BY DEF ViewIInv, ViewTypes
<1>1. ASSUME NEW u \in DvTabs, u # t
      PROVE  /\ dvTabs'[u] \in DvTab
             /\ dvTabs'[u] = [dvTabs[u] EXCEPT !.crossed = @ \/ (dvTabs[u].due /\ c # dvCookie)]
  BY <1>0, <1>1 DEF Becomes, DvTab
<1>2. ASSUME NEW u \in DvTabs, u = t PROVE dvTabs'[u] = x
  BY <1>2 DEF Becomes
<1>3. dvTabs' \in [DvTabs -> DvTab]
  <2>1. dvTabs' = [u \in DvTabs |-> dvTabs'[u]]
    BY DEF Becomes
  <2> QED
    BY <1>1, <1>2, <2>1
<1>4. ASSUME NEW u \in DvTabs, u # t
      PROVE  /\ dvTabs'[u].at # "closed" => dvTabs'[u].table # "none" /\ dvTabs'[u].size \in DvSizes
             /\ RowsFollow(dvTabs'[u])
             /\ ~dvBlocked => ModeFollows(dvTabs'[u], ServedMode')
  <2> DEFINE y == dvTabs[u]
             z == dvTabs'[u]
  <2> DEFINE cross == y.crossed \/ (y.due /\ c # dvCookie)
  <2>0. y \in DvTab /\ z = [y EXCEPT !.crossed = cross]
    BY <1>0, <1>1, <1>4
  <2> HIDE DEF y, z, cross
  <2>1. /\ z.at = y.at /\ z.table = y.table /\ z.size = y.size /\ z.mode = y.mode
        /\ z.initial = y.initial /\ z.rows = y.rows /\ z.due = y.due /\ z.snap = y.snap
        /\ z.moved = y.moved /\ z.crossed = cross
    BY <2>0 DEF DvTab
  <2> USE DEF y, z
  <2>2. c = dvCookie => ServedMode' = ServedMode
    BY DEF Becomes, ServedMode
  <2>3. RowsFollow(y) /\ (~dvBlocked => ModeFollows(y, ServedMode))
    BY DEF ViewIInv
  <2>4. y.at # "closed" => y.table # "none" /\ y.size \in DvSizes
    BY DEF ViewIInv, ViewTypes
  <2>5. y.due \in BOOLEAN /\ y.crossed \in BOOLEAN
    BY <1>0 DEF DvTab
  <2> HIDE DEF y, z
  <2>6. RowsFollow(z)
    BY <2>1, <2>3 DEF RowsFollow
  <2>7. ~dvBlocked => ModeFollows(z, ServedMode')
    BY <2>1, <2>2, <2>3, <2>5 DEF ModeFollows, cross
  <2> QED
    BY <2>1, <2>4, <2>6, <2>7 DEF y, z
<1>5. dvCookie' = c
  BY DEF Becomes
<1>6. ViewTypes'
  BY <1>2, <1>3, <1>4, <1>5 DEF ViewTypes
<1>7. /\ \A u \in DvTabs : RowsFollow(dvTabs'[u])
      /\ ~dvBlocked => \A u \in DvTabs : ModeFollows(dvTabs'[u], ServedMode')
  BY <1>2, <1>4
<1> QED
  BY <1>6, <1>7 DEF ViewIInv

(* A step of tab t that leaves the cookie alone. *)
LEMMA TabMoves ==
    ASSUME ViewIInv, NEW t \in DvTabs, NEW x \in DvTab, dvTabs' = [dvTabs EXCEPT ![t] = x],
           UNCHANGED <<dvCookie, dvStorage, dvBlocked>>,
           x.at # "closed" => x.table # "none" /\ x.size \in DvSizes,
           RowsFollow(x), ~dvBlocked => ModeFollows(x, ServedMode)
    PROVE  ViewIInv'
<1>1. /\ dvTabs' \in [DvTabs -> DvTab] /\ dvTabs'[t] = x
      /\ \A u \in DvTabs : u # t => dvTabs'[u] = dvTabs[u]
  BY DEF ViewIInv, ViewTypes
<1>2. ServedMode' = ServedMode
  BY DEF ServedMode
<1>3. ViewTypes'
  BY <1>1 DEF ViewIInv, ViewTypes
<1> QED
  BY <1>1, <1>2, <1>3 DEF ViewIInv

(* The effect of EnvironmentProvider: nothing, or the mode saved. *)
LEMMA SyncFacts ==
    ASSUME ViewTypes, NEW x \in DvTab
    PROVE  /\ Synchronised(x) \in DvTab /\ SynchronisedCookie \in Modes \union {"none"}
           /\ \/ Synchronised(x) = x /\ (dvBlocked \/ (dvCookie = "none" /\ SynchronisedCookie = "test"))
              \/ /\ SynchronisedCookie = Saved /\ Saved \in Modes
                 /\ Synchronised(x).at = x.at /\ Synchronised(x).table = x.table
                 /\ Synchronised(x).size = x.size /\ Synchronised(x).snap = x.snap
                 /\ Synchronised(x).initial = x.initial /\ Synchronised(x).rows = x.rows
                 /\ Synchronised(x).moved = x.moved /\ Synchronised(x).mode = Saved
                 /\ Synchronised(x).due = (x.due \/ Saved # x.initial)
                 /\ Synchronised(x).crossed = FALSE
<1>1. Saved \in Modes \union {"none"} /\ (Saved = "none" => dvCookie = "none")
  BY DEF ViewTypes, Saved
<1>2. CASE dvBlocked \/ Saved = "none"
  BY <1>1, <1>2 DEF Synchronised, SynchronisedCookie, Modes, ViewTypes
<1>3. CASE ~dvBlocked /\ Saved # "none"
  <2> DEFINE due == x.due \/ Saved # x.initial
  <2>1. Synchronised(x) = [x EXCEPT !.mode = Saved, !.due = due, !.crossed = FALSE]
    BY <1>3 DEF Synchronised, DvTab
  <2>2. due \in BOOLEAN /\ Saved \in Modes /\ SynchronisedCookie = Saved
    BY <1>1, <1>3 DEF SynchronisedCookie
  <2> HIDE DEF due
  <2>3. /\ Synchronised(x) \in DvTab
        /\ Synchronised(x).at = x.at /\ Synchronised(x).table = x.table
        /\ Synchronised(x).size = x.size /\ Synchronised(x).snap = x.snap
        /\ Synchronised(x).initial = x.initial /\ Synchronised(x).rows = x.rows
        /\ Synchronised(x).moved = x.moved /\ Synchronised(x).mode = Saved
        /\ Synchronised(x).due = due /\ Synchronised(x).crossed = FALSE
    BY <2>1, <2>2 DEF DvTab
  <2> QED
    BY <2>2, <2>3 DEF due
<1> QED
  BY <1>2, <1>3

(* A tab that synchronises keeps the invariant, if it was in step with the *)
(* server before or holds no mode of its own yet.                          *)
LEMMA SyncKeeps ==
    ASSUME ViewIInv, NEW t \in DvTabs, NEW x \in DvTab,
           Becomes(t, Synchronised(x), SynchronisedCookie), UNCHANGED <<dvStorage, dvBlocked>>,
           x.at = "open", x.table # "none", x.size \in DvSizes, RowsFollow(x),
           x.snap = "none", ~dvBlocked => ModeFollows(x, ServedMode)
    PROVE  ViewIInv'
<1> DEFINE y == Synchronised(x)
           c == SynchronisedCookie
<1>0. ViewTypes /\ dvStorage' \in Modes \union {"none"}
  BY DEF ViewIInv, ViewTypes
<1>1. y \in DvTab /\ c \in Modes \union {"none"} /\ dvCookie' = c
  BY <1>0, SyncFacts DEF Becomes
<1>2. y.at = "open" /\ y.table # "none" /\ y.size \in DvSizes /\ RowsFollow(y)
  BY <1>0, SyncFacts DEF RowsFollow
<1>3. ASSUME ~dvBlocked PROVE ModeFollows(y, ServedMode')
  <2>1. CASE y = x /\ dvCookie = "none" /\ c = "test"
    <3>1. ServedMode' = ServedMode
      BY <1>1, <2>1 DEF ServedMode
    <3> QED
      BY <1>3, <2>1, <3>1
  <2>2. CASE /\ c = Saved /\ Saved \in Modes /\ y.at = x.at /\ y.snap = x.snap
             /\ y.initial = x.initial /\ y.mode = Saved
             /\ y.due = (x.due \/ Saved # x.initial) /\ y.crossed = FALSE
    <3>1. ServedMode' = Saved
      BY <1>1, <2>2 DEF ServedMode, Modes
    <3> QED
      BY <2>2, <3>1 DEF ModeFollows
  <2> QED
    BY <1>0, <1>3, <2>1, <2>2, SyncFacts
<1> HIDE DEF y, c
<1>4. Becomes(t, y, c)
  BY DEF y, c
<1> QED
  BY <1>0, <1>1, <1>2, <1>3, <1>4, BecomesKeeps

(* The tables: filters, sizes and pages touch nothing else. *)
SameView(x, y) ==
    /\ x.at = y.at /\ x.table = y.table /\ x.initial = y.initial /\ x.mode = y.mode
    /\ x.rows = y.rows /\ x.due = y.due /\ x.snap = y.snap
    /\ x.crossed = y.crossed /\ x.moved = y.moved

(* Working in a table keeps the invariant. *)
LEMMA WorkKeeps ==
    ASSUME ViewIInv, NEW t \in DvTabs, NEW x \in DvTab, x.size \in DvSizes,
           SameView(x, dvTabs[t]), Works(t, x)
    PROVE  ViewIInv'
<1> DEFINE y == dvTabs[t]
<1>1. y.at = "open" /\ y.table # "none"
  BY DEF Works, ViewIInv, ViewTypes
<1>2. RowsFollow(y) /\ (~dvBlocked => ModeFollows(y, ServedMode))
  BY DEF ViewIInv
<1>3. dvTabs' = [dvTabs EXCEPT ![t] = x] /\ UNCHANGED <<dvCookie, dvStorage, dvBlocked>>
  BY DEF Works
<1>5. SameView(x, y)
  OBVIOUS
<1> HIDE DEF y
<1>6. RowsFollow(x)
  BY <1>2, <1>5 DEF RowsFollow, SameView
<1>7. ~dvBlocked => ModeFollows(x, ServedMode)
  BY <1>2, <1>5 DEF ModeFollows, SameView
<1> QED
  BY <1>1, <1>3, <1>5, <1>6, <1>7, TabMoves DEF SameView

(* There is always a first page. *)
LEMMA PagesAreNat ==
    ASSUME NEW x, x.size \in DvSizes
    PROVE  TotalPages(x) \in Nat \ {0} /\ Len(Filtered(x)) \in Nat
<1> DEFINE L == Len(Filtered(x))
           s == x.size
<1>0. L \in Nat
  BY DEF Filtered
<1>1. L \in Nat /\ s \in Nat \ {0}
  BY <1>0, ViewAssumption
<1> HIDE DEF L, s
<1>2. (L + s - 1) \div s \in Nat
  BY <1>1
<1>3. TotalPages(x) = IF (L + s - 1) \div s = 0 THEN 1 ELSE (L + s - 1) \div s
  BY DEF TotalPages, L, s
<1> QED
  BY <1>1, <1>2, <1>3 DEF L

(* Filters, page sizes and the pagination bar. *)
LEMMA TablesKeep ==
    ASSUME ViewIInv, NEW t \in DvTabs, dvTabs[t].at = "open",
           \/ \E f \in DvFilters \union {"all"} : HandleFilterChange(t, f)
           \/ \E n \in DvSizes : SetPageSize(t, n)
           \/ NextPage(t) \/ PrevPage(t)
    PROVE  ViewIInv'
<1> DEFINE y == dvTabs[t]
<1>0. y \in DvTab /\ y.size \in DvSizes
  BY DEF ViewIInv, ViewTypes
<1>1. y.page \in Nat \ {0} /\ TotalPages(y) \in Nat \ {0}
  BY <1>0, PagesAreNat DEF DvTab
<1>2. CASE \E f \in DvFilters \union {"all"} : HandleFilterChange(t, f)
  <2>1. PICK f \in DvFilters \union {"all"} : HandleFilterChange(t, f)
    BY <1>2
  <2> DEFINE x == [y EXCEPT !.filter = f, !.page = 1]
  <2>2. x \in DvTab /\ x.size \in DvSizes /\ SameView(x, y)
    <3> HIDE DEF y
    <3>1. 1 \in Nat \ {0}
      OBVIOUS
    <3>2. x \in DvTab
      BY <1>0, <3>1 DEF DvTab
    <3>3. x.size \in DvSizes
      BY <1>0 DEF DvTab
    <3>4. SameView(x, y)
      BY <1>0 DEF DvTab, SameView
    <3> QED
      BY <3>2, <3>3, <3>4
  <2> QED
    BY <2>1, <2>2, WorkKeeps DEF HandleFilterChange
<1>3. CASE \E n \in DvSizes : SetPageSize(t, n)
  <2>1. PICK n \in DvSizes : SetPageSize(t, n)
    BY <1>3
  <2> DEFINE x == [y EXCEPT !.size = n, !.page = 1]
  <2>2. x \in DvTab /\ x.size \in DvSizes /\ SameView(x, y)
    <3> HIDE DEF y
    <3>1. 1 \in Nat \ {0}
      OBVIOUS
    <3>2. x \in DvTab
      BY <1>0, <3>1 DEF DvTab
    <3>3. x.size \in DvSizes
      BY <1>0 DEF DvTab
    <3>4. SameView(x, y)
      BY <1>0 DEF DvTab, SameView
    <3> QED
      BY <3>2, <3>3, <3>4
  <2> QED
    BY <2>1, <2>2, WorkKeeps DEF SetPageSize
<1>4. ASSUME NEW p \in Nat \ {0}, Works(t, [y EXCEPT !.page = p]) PROVE ViewIInv'
  <2> DEFINE x == [y EXCEPT !.page = p]
  <2>2. x \in DvTab /\ x.size \in DvSizes /\ SameView(x, y)
    BY <1>0 DEF DvTab, SameView
  <2> QED
    BY <1>4, <2>2, WorkKeeps
<1>5. CASE NextPage(t)
  <2> DEFINE p == IF y.page + 1 > TotalPages(y) THEN TotalPages(y) ELSE y.page + 1
  <2>1. p \in Nat \ {0}
    BY <1>1
  <2>2. Works(t, [y EXCEPT !.page = p])
    BY <1>0, <1>5 DEF NextPage, DvTab
  <2> QED
    BY <1>4, <2>1, <2>2
<1>6. CASE PrevPage(t)
  <2>1. y.page - 1 \in Nat \ {0}
    BY <1>1, <1>6 DEF PrevPage, SafePage
  <2>2. Works(t, [y EXCEPT !.page = y.page - 1])
    BY <1>0, <1>6 DEF PrevPage, DvTab
  <2> QED
    BY <1>4, <2>1, <2>2
<1> QED
  BY <1>2, <1>3, <1>5, <1>6

(* Opening, mounting, switching, refreshing and closing a page. *)
LEMMA PagesKeep ==
    ASSUME ViewIInv, NEW t \in DvTabs,
           \/ \E table \in {"ledger", "requests"} : OpenPage(t, table)
           \/ Mount(t) \/ RefreshRenders(t) \/ RefreshArrives(t) \/ ClosePage(t)
           \/ \E m \in {"live", "test"} : SetMode(t, m)
    PROVE  ViewIInv'
<1> DEFINE y == dvTabs[t]
<1>0. /\ y \in DvTab /\ ViewTypes
      /\ y.at # "closed" => y.table # "none" /\ y.size \in DvSizes
      /\ RowsFollow(y) /\ (~dvBlocked => ModeFollows(y, ServedMode))
  BY DEF ViewIInv, ViewTypes
<1>1. ServedMode \in Modes
  BY DEF ServedMode, Modes
<1>2. CASE \E table \in {"ledger", "requests"} : OpenPage(t, table)
  <2>1. PICK table \in {"ledger", "requests"}, n \in DvSizes : dvTabs' = [dvTabs EXCEPT ![t] =
           [ClosedTab EXCEPT !.at = "rendered", !.table = table, !.initial = ServedMode,
                             !.mode = ServedMode, !.rows = ServedMode, !.size = n]]
    BY <1>2 DEF OpenPage
  <2> DEFINE x == [ClosedTab EXCEPT !.at = "rendered", !.table = table, !.initial = ServedMode,
                             !.mode = ServedMode, !.rows = ServedMode, !.size = n]
  <2>2. /\ x \in DvTab /\ x.at = "rendered" /\ x.table = table /\ x.initial = ServedMode
        /\ x.mode = ServedMode /\ x.rows = ServedMode /\ x.size = n /\ x.due = FALSE
        /\ x.snap = "none"
    <3>1. ClosedTab \in DvTab /\ ClosedTab.due = FALSE /\ ClosedTab.snap = "none"
      BY DEF ClosedTab, DvTab, Modes
    <3> QED
      BY <1>1, <3>1 DEF DvTab
  <2>3. dvTabs' = [dvTabs EXCEPT ![t] = x] /\ UNCHANGED <<dvCookie, dvStorage, dvBlocked>>
    BY <1>2, <2>1 DEF OpenPage
  <2> HIDE DEF x
  <2>4. RowsFollow(x) /\ ModeFollows(x, ServedMode)
    BY <2>2 DEF RowsFollow, ModeFollows
  <2> QED
    BY <2>2, <2>3, <2>4, TabMoves
<1>3. CASE Mount(t)
  <2> DEFINE x == [y EXCEPT !.at = "open"]
  <2>1. /\ Becomes(t, Synchronised(x), SynchronisedCookie) /\ UNCHANGED <<dvStorage, dvBlocked>>
        /\ y.at = "rendered"
    BY <1>3 DEF Mount
  <2>2. /\ x \in DvTab /\ x.at = "open" /\ x.table = y.table /\ x.size = y.size
        /\ x.initial = y.initial /\ x.mode = y.mode /\ x.rows = y.rows /\ x.due = y.due
        /\ x.snap = y.snap /\ x.moved = y.moved
    BY <1>0 DEF DvTab
  <2> HIDE DEF x
  <2>3. RowsFollow(x)
    BY <1>0, <2>1, <2>2 DEF RowsFollow
  <2>4. ~dvBlocked => ModeFollows(x, ServedMode) /\ x.snap = "none"
    BY <1>0, <2>1, <2>2 DEF ModeFollows
  <2>5. CASE dvBlocked
    <3>1. Becomes(t, x, dvCookie)
      BY <2>1, <2>5 DEF Synchronised, SynchronisedCookie
    <3> QED
      BY <1>0, <2>1, <2>2, <2>3, <2>5, <3>1, BecomesKeeps DEF ViewTypes
  <2>6. CASE ~dvBlocked
    BY <1>0, <2>1, <2>2, <2>3, <2>4, <2>6, SyncKeeps
  <2> QED
    BY <2>5, <2>6
<1>4. CASE RefreshRenders(t)
  <2> DEFINE x == [y EXCEPT !.due = FALSE, !.snap = ServedMode]
  <2>1. /\ dvTabs' = [dvTabs EXCEPT ![t] = x] /\ UNCHANGED <<dvCookie, dvStorage, dvBlocked>>
        /\ y.at = "open" /\ y.due /\ y.snap = "none"
    BY <1>0, <1>4 DEF RefreshRenders, ViewTypes
  <2>2. /\ x \in DvTab /\ x.at = "open" /\ x.table = y.table /\ x.size = y.size
        /\ x.initial = y.initial /\ x.mode = y.mode /\ x.rows = y.rows /\ x.due = FALSE
        /\ x.snap = ServedMode /\ x.moved = y.moved /\ x.crossed = y.crossed
    BY <1>0, <1>1, <2>1 DEF DvTab
  <2> HIDE DEF x
  <2>3. RowsFollow(x)
    BY <1>0, <2>1, <2>2 DEF RowsFollow
  <2>4. ~dvBlocked => ModeFollows(x, ServedMode)
    BY <1>0, <1>1, <2>1, <2>2 DEF ModeFollows, Modes
  <2> QED
    BY <1>0, <2>1, <2>2, <2>3, <2>4, TabMoves
<1>5. CASE RefreshArrives(t)
  <2> DEFINE rows == IF y.table = "requests" THEN y.snap ELSE y.rows
             moved == y.moved \/ y.snap # y.initial
             x == Rerendered(y)
  <2>1. y.at = "open" /\ y.snap \in Modes /\ UNCHANGED <<dvStorage, dvBlocked>>
    BY <1>0, <1>5 DEF RefreshArrives, DvTab
  <2>2. x = [y EXCEPT !.snap = "none", !.initial = y.snap, !.moved = moved, !.rows = rows]
    BY <1>0 DEF Rerendered, DvTab
  <2>3. moved \in BOOLEAN /\ rows \in Modes
    BY <1>0, <2>1 DEF DvTab
  <2> HIDE DEF x
  <2>4. /\ x \in DvTab /\ x.at = "open" /\ x.table = y.table /\ x.size = y.size
        /\ x.initial = y.snap /\ x.mode = y.mode /\ x.rows = rows /\ x.due = y.due
        /\ x.snap = "none" /\ x.moved = moved /\ x.crossed = y.crossed
    BY <1>0, <2>1, <2>2, <2>3 DEF DvTab
  <2>5. RowsFollow(x)
    BY <1>0, <2>1, <2>4 DEF RowsFollow
  <2>6. ~dvBlocked => ModeFollows(x, ServedMode)
    BY <1>0, <2>1, <2>4 DEF ModeFollows, Modes
  <2>7. CASE x.initial # y.initial
    <3>1. Becomes(t, Synchronised(x), SynchronisedCookie)
      BY <1>5, <2>7 DEF RefreshArrives, x
    <3> QED
      BY <1>0, <2>1, <2>4, <2>5, <2>6, <3>1, SyncKeeps
  <2>8. CASE x.initial = y.initial
    <3>1. Becomes(t, x, dvCookie)
      BY <1>5, <2>8 DEF RefreshArrives, x
    <3>2. ServedMode' = ServedMode
      BY <3>1 DEF Becomes, ServedMode
    <3> QED
      BY <1>0, <2>1, <2>4, <2>5, <2>6, <3>1, <3>2, BecomesKeeps DEF ViewTypes
  <2> QED
    BY <2>7, <2>8
<1>6. CASE ClosePage(t)
  <2>1. dvTabs' = [dvTabs EXCEPT ![t] = ClosedTab] /\ UNCHANGED <<dvCookie, dvStorage, dvBlocked>>
    BY <1>6 DEF ClosePage
  <2>2. ClosedTab \in DvTab /\ ClosedTab.at = "closed"
    BY DEF ClosedTab, DvTab, Modes
  <2> QED
    BY <2>1, <2>2, TabMoves DEF RowsFollow, ModeFollows
<1>7. CASE \E m \in {"live", "test"} : SetMode(t, m)
  <2>1. PICK m \in Modes : SetMode(t, m)
    BY <1>7 DEF Modes
  <2> DEFINE x == [y EXCEPT !.mode = m, !.due = TRUE, !.crossed = FALSE]
             c == IF dvBlocked THEN dvCookie ELSE m
  <2>2. /\ Becomes(t, x, c) /\ UNCHANGED dvBlocked /\ y.at = "open"
        /\ dvStorage' \in Modes \union {"none"}
    BY <1>0, <2>1 DEF SetMode, ViewTypes
  <2>3. c \in Modes \union {"none"}
    BY <1>0 DEF ViewTypes
  <2>4. /\ x \in DvTab /\ x.at = "open" /\ x.table = y.table /\ x.size = y.size
        /\ x.initial = y.initial /\ x.mode = m /\ x.rows = y.rows /\ x.due = TRUE
        /\ x.moved = y.moved
    BY <1>0, <2>2 DEF DvTab
  <2>5. ~dvBlocked => ServedMode' = m
    BY <2>2 DEF Becomes, ServedMode, Modes
  <2> HIDE DEF x, c
  <2>6. RowsFollow(x)
    BY <1>0, <2>2, <2>4 DEF RowsFollow
  <2>7. ~dvBlocked => ModeFollows(x, ServedMode')
    BY <2>4, <2>5 DEF ModeFollows
  <2> QED
    BY <1>0, <2>2, <2>3, <2>4, <2>6, <2>7, BecomesKeeps
<1> QED
  BY <1>2, <1>3, <1>4, <1>5, <1>6, <1>7

(* The mode and the tables keep the invariant. *)
LEMMA ViewKeeps ==
    ASSUME ViewIInv, [ViewNext]_dvVars
    PROVE  ViewIInv'
<1>1. CASE UNCHANGED dvVars
  BY <1>1 DEF dvVars, ViewIInv, ViewTypes, ServedMode
<1>2. CASE CookieExpires
  <2>1. ClosedTab \in DvTab /\ ClosedTab.at = "closed"
    BY DEF ClosedTab, DvTab, Modes
  <2>2. RowsFollow(ClosedTab) /\ ModeFollows(ClosedTab, ServedMode')
    BY <2>1 DEF RowsFollow, ModeFollows
  <2>3. /\ Becomes("nobody", ClosedTab, "none") /\ UNCHANGED dvBlocked
        /\ dvStorage' \in Modes \union {"none"}
    BY <1>2 DEF CookieExpires, ViewIInv, ViewTypes
  <2> QED
    BY <2>1, <2>2, <2>3, BecomesKeeps
<1>3. ASSUME NEW t \in DvTabs,
             \/ \E f \in DvFilters \union {"all"} : HandleFilterChange(t, f)
             \/ \E n \in DvSizes : SetPageSize(t, n)
             \/ (dvTabs[t].at = "open" /\ (NextPage(t) \/ PrevPage(t)))
      PROVE  ViewIInv'
  <2>1. dvTabs[t].at = "open"
    BY <1>3 DEF HandleFilterChange, SetPageSize, Works
  <2> QED
    BY <1>3, <2>1, TablesKeep
<1> QED
  BY <1>1, <1>2, <1>3, PagesKeep DEF ViewNext

(* All the pages but the last are full, and the last is not empty. *)
LEMMA PageStart ==
    ASSUME NEW L \in Nat \ {0}, NEW s \in Nat \ {0}, NEW p \in Nat \ {0},
           p <= (L + s - 1) \div s
    PROVE  (p - 1) * s \in Nat /\ (p - 1) * s < L
<1> DEFINE n == (L + s - 1) \div s
<1>1. n \in Nat /\ s * n <= L + s - 1
  OBVIOUS
<1> HIDE DEF n
<1>2. s * p <= s * n
  BY <1>1 DEF n
<1>3. (p - 1) * s = s * p - s
  OBVIOUS
<1>4. (p - 1) * s \in Nat
  OBVIOUS
<1> QED
  BY <1>1, <1>2, <1>3, <1>4

(* Whatever page number is kept, the page shown has rows if any match. *)
LEMMA PageHasRows ==
    ASSUME NEW x \in DvTab, x.size \in DvSizes, Len(Filtered(x)) > 0
    PROVE  PaginatedRows(x) # <<>>
<1> DEFINE F == Filtered(x)
           L == Len(F)
           s == x.size
           p == SafePage(x)
           n == (L + s - 1) \div s
           start == (p - 1) * s
           end == IF start + s > L THEN L ELSE start + s
<1>0. L \in Nat /\ TotalPages(x) \in Nat \ {0}
  BY PagesAreNat
<1>1. L \in Nat \ {0} /\ s \in Nat \ {0} /\ x.page \in Nat \ {0}
  <2>1. L \in Nat \ {0}
    <3> HIDE DEF F
    <3> QED
      BY <1>0 DEF F
  <2>2. s \in Nat \ {0}
    BY ViewAssumption
  <2>3. x.page \in Nat \ {0}
    BY DEF DvTab
  <2> QED
    BY <2>1, <2>2, <2>3
<1>2. p \in Nat \ {0} /\ p <= TotalPages(x)
  BY <1>0, <1>1 DEF SafePage
<1>3. TotalPages(x) = IF n = 0 THEN 1 ELSE n
  BY DEF TotalPages
<1>4. PaginatedRows(x) = SubSeq(F, start + 1, end)
  BY DEF PaginatedRows
<1> HIDE DEF F, L, s, p
<1>5. n \in Nat /\ n # 0
  <2>1. L + s - 1 >= s /\ L + s - 1 \in Nat
    BY <1>1
  <2> QED
    BY <1>1, <2>1
<1>6. start \in Nat /\ start < L
  BY <1>1, <1>2, <1>3, <1>5, PageStart
<1> HIDE DEF start, n
<1>7. end \in Nat /\ start + 1 <= end /\ end <= L
  BY <1>1, <1>6
<1> HIDE DEF end
<1> QED
  BY <1>4, <1>6, <1>7 DEF L, F, Filtered

(* The invariant of the dashboard holds always. *)
LEMMA ViewInvariant == ViewSpec => []ViewIInv
<1>1. ViewInit => ViewIInv
  <2> SUFFICES ASSUME ViewInit PROVE ViewIInv
    OBVIOUS
  <2>1. ClosedTab \in DvTab /\ ClosedTab.at = "closed"
    BY DEF ClosedTab, DvTab, Modes
  <2>2. dvTabs \in [DvTabs -> DvTab] /\ \A t \in DvTabs : dvTabs[t].at = "closed"
    BY <2>1 DEF ViewInit
  <2> QED
    BY <2>2 DEF ViewInit, ViewIInv, ViewTypes, RowsFollow, ModeFollows
<1>2. ViewIInv /\ [ViewNext]_dvVars => ViewIInv'
  BY ViewKeeps
<1> QED
  BY <1>1, <1>2, PTL DEF ViewSpec

(* environment-context.tsx: with any number of tabs, a tab at rest shows   *)
(* the mode its page was rendered for, unless another tab changed the      *)
(* cookie meanwhile, and rows of that mode, except in an old ledger.       *)
THEOREM RestingTabAgrees == ViewSpec => []QuietTabAgrees
<1>1. ViewIInv => QuietTabAgrees
  <2> SUFFICES ASSUME ViewIInv, NEW t \in DvTabs, dvTabs[t].at = "open", ~dvTabs[t].due,
                      dvTabs[t].snap = "none", ~dvBlocked
               PROVE  /\ dvTabs[t].mode # dvTabs[t].initial => dvTabs[t].crossed
                      /\ dvTabs[t].rows # dvTabs[t].initial =>
                            dvTabs[t].table = "ledger" /\ dvTabs[t].moved
    BY DEF QuietTabAgrees
  <2>1. /\ dvTabs[t] \in DvTab /\ dvTabs[t].table # "none"
        /\ RowsFollow(dvTabs[t]) /\ ModeFollows(dvTabs[t], ServedMode)
    BY DEF ViewIInv, ViewTypes
  <2>2. dvTabs[t].table \in {"none", "ledger", "requests"}
    BY <2>1 DEF DvTab
  <2>3. dvTabs[t].mode # dvTabs[t].initial => dvTabs[t].crossed
    BY <2>1 DEF ModeFollows
  <2>4. dvTabs[t].rows # dvTabs[t].initial => dvTabs[t].table = "ledger" /\ dvTabs[t].moved
    BY <2>1, <2>2 DEF RowsFollow
  <2> QED
    BY <2>3, <2>4
<1> QED
  BY <1>1, ViewInvariant, PTL

(* The two tables: for any rows, filters and page sizes, a table shows a   *)
(* row while any row matches, except a ledger that holds another mode's    *)
(* rows on the page of a mode that has none.                               *)
THEOREM NoBlankPage == ViewSpec => []PageIsNeverBlank
<1>1. ViewIInv => PageIsNeverBlank
  <2> SUFFICES ASSUME ViewIInv, NEW t \in DvTabs, dvTabs[t].at = "open",
                      dvUse.data[dvTabs[t].rows] # <<>>,
                      Len(Filtered(dvTabs[t])) > 0, TableBody(dvTabs[t]) = <<>>
               PROVE  /\ dvTabs[t].table = "ledger" /\ dvTabs[t].moved
                      /\ dvTabs[t].rows # dvTabs[t].initial
                      /\ dvUse.data[dvTabs[t].initial] = <<>>
    BY DEF PageIsNeverBlank
  <2>1. /\ dvTabs[t] \in DvTab /\ dvTabs[t].table # "none" /\ dvTabs[t].size \in DvSizes
        /\ RowsFollow(dvTabs[t])
    BY DEF ViewIInv, ViewTypes
  <2>2. dvUse.data[dvTabs[t].initial] = <<>>
    BY <2>1, PageHasRows DEF TableBody
  <2>3. dvTabs[t].rows # dvTabs[t].initial
    BY <2>2
  <2>4. dvTabs[t].table \in {"none", "ledger", "requests"}
    BY <2>1 DEF DvTab
  <2> QED
    BY <2>1, <2>2, <2>3, <2>4 DEF RowsFollow
<1> QED
  BY <1>1, ViewInvariant, PTL

------------------------------------------------------------------------------
(***************************************************************************)
(*                          Database initialisation                        *)
(***************************************************************************)
SiProcs == SiServers \union SiTools
SiProc == [at : Nat, ready : BOOLEAN, seen : SUBSET (SiColumns \X {"snake", "camel"})]

SchemaTypes ==
    /\ siSnake \subseteq SiColumns /\ siCamel \subseteq SiColumns /\ siStrict \subseteq siCamel
    /\ siRow \in [SiColumns -> {"null", "old", "now", "new"}]
    /\ siProc \in [SiProcs -> SiProc]
    /\ \A p \in SiProcs : /\ siProc[p].at \in 0 .. Len(Program(p))
                          /\ siProc[p].ready => siProc[p].at = 0

(* What a statement of process p has established, for good. *)
Effect(p, s) ==
    /\ s.op = "add" => s.col \in siSnake
    /\ s.op = "look" => \A c \in siCamel : <<c, "camel">> \in siProc[p].seen
    /\ s.op = "drop" => siStrict = {}
    /\ s.op = "copy" /\ s.col \in siCamel /\ Copyable(p, s.col) => siRow[s.col] # "null"

Past(p, j) == siProc[p].ready \/ j < siProc[p].at

(* What process q has established, statement by statement. *)
Established(q) ==
    \A j \in 1 .. Len(Program(q)) : Past(q, j) => Effect(q, Program(q)[j])

SchemaIInv == SchemaTypes /\ \A q \in SiProcs : Established(q)

(* The two programs, statement by statement. *)
LEMMA ScriptIs ==
    ASSUME NEW p \in SiTools
    PROVE  /\ Len(Program(p)) = 11
           /\ Program(p)[1] = Stmt("create", "all") /\ Program(p)[2] = Stmt("look", "all")
           /\ Program(p)[3] = Stmt("drop", "all")
           /\ Program(p)[4] = Stmt("add", "key_hash") /\ Program(p)[5] = Stmt("add", "key_created")
           /\ Program(p)[6] = Stmt("add", "pay_amount") /\ Program(p)[7] = Stmt("add", "pay_created")
           /\ Program(p)[8] = Stmt("copy", "key_hash") /\ Program(p)[9] = Stmt("copy", "key_created")
           /\ Program(p)[10] = Stmt("copy", "pay_amount") /\ Program(p)[11] = Stmt("copy", "pay_created")
BY DEF Program, ScriptAlters, LegacyCopies

(* The program of init.ts. *)
LEMMA ServerProgramIs ==
    ASSUME NEW p \in SiServers
    PROVE  /\ Len(Program(p)) = 13
           /\ Program(p)[1] = Stmt("create", "all") /\ Program(p)[2] = Stmt("look", "all")
           /\ Program(p)[3] = Stmt("drop", "all")
           /\ Program(p)[4] = Stmt("add", "key_hash") /\ Program(p)[5] = Stmt("add", "key_created")
           /\ Program(p)[6] = Stmt("default", "pay_created")
           /\ Program(p)[7] = Stmt("default", "key_created")
           /\ Program(p)[8] = Stmt("add", "pay_amount") /\ Program(p)[9] = Stmt("add", "pay_created")
           /\ Program(p)[10] = Stmt("copy", "key_hash") /\ Program(p)[11] = Stmt("copy", "key_created")
           /\ Program(p)[12] = Stmt("copy", "pay_amount") /\ Program(p)[13] = Stmt("copy", "pay_created")
BY SchemaAssumption DEF Program, SchemaAlters, LegacyCopies

(* Where a statement may stand in a program. *)
Placed(s, j) ==
    /\ s.op = "create" => j = 1
    /\ s.op = "look" => j = 2
    /\ s.op = "drop" => j = 3
    /\ s.op \in {"add", "copy"} => s.col \in SiColumns /\ j > 3

(* Tables, look and drop come first; every column is added and copied.     *)
LEMMA ProgramFacts ==
    ASSUME NEW p \in SiProcs
    PROVE  /\ Len(Program(p)) \in Nat /\ Len(Program(p)) >= 3
           /\ \A j \in 1 .. Len(Program(p)) : Placed(Program(p)[j], j)
           /\ Program(p)[1] = Stmt("create", "all") /\ Program(p)[2] = Stmt("look", "all")
           /\ Program(p)[3] = Stmt("drop", "all")
           /\ \A c \in SiColumns : \E j \in 1 .. Len(Program(p)) : Program(p)[j] = Stmt("add", c)
           /\ \A c \in SiColumns : \E j \in 1 .. Len(Program(p)) : Program(p)[j] = Stmt("copy", c)
<1>1. CASE p \in SiTools
  <2>1. Len(Program(p)) = 11
    BY <1>1, ScriptIs
  <2>2. ASSUME NEW j \in 1 .. 11 PROVE Placed(Program(p)[j], j)
    <3>1. j \in {1, 2, 3, 4, 5, 6, 7, 8, 9, 10, 11}
      OBVIOUS
    <3>2. \A i \in {1, 2, 3} : Placed(Program(p)[i], i)
      BY <1>1, ScriptIs DEF Placed, Stmt
    <3>3. \A i \in {4, 5, 6, 7, 8, 9, 10, 11} : Placed(Program(p)[i], i)
      <4>4. Placed(Program(p)[4], 4)
        BY <1>1, ScriptIs DEF Placed, Stmt, SiColumns
      <4>5. Placed(Program(p)[5], 5)
        BY <1>1, ScriptIs DEF Placed, Stmt, SiColumns
      <4>6. Placed(Program(p)[6], 6)
        BY <1>1, ScriptIs DEF Placed, Stmt, SiColumns
      <4>7. Placed(Program(p)[7], 7)
        BY <1>1, ScriptIs DEF Placed, Stmt, SiColumns
      <4>8. Placed(Program(p)[8], 8)
        BY <1>1, ScriptIs DEF Placed, Stmt, SiColumns
      <4>9. Placed(Program(p)[9], 9)
        BY <1>1, ScriptIs DEF Placed, Stmt, SiColumns
      <4>10. Placed(Program(p)[10], 10)
        BY <1>1, ScriptIs DEF Placed, Stmt, SiColumns
      <4>11. Placed(Program(p)[11], 11)
        BY <1>1, ScriptIs DEF Placed, Stmt, SiColumns
      <4> QED
        BY <4>4, <4>5, <4>6, <4>7, <4>8, <4>9, <4>10, <4>11
    <3> QED
      BY <3>1, <3>2, <3>3
  <2>3. ASSUME NEW c \in SiColumns PROVE \E j \in 1 .. 11 : Program(p)[j] = Stmt("add", c)
    <3>1. Program(p)[4] = Stmt("add", "key_hash") /\ 4 \in 1 .. 11
      BY <1>1, ScriptIs
    <3>2. Program(p)[5] = Stmt("add", "key_created") /\ 5 \in 1 .. 11
      BY <1>1, ScriptIs
    <3>3. Program(p)[6] = Stmt("add", "pay_amount") /\ 6 \in 1 .. 11
      BY <1>1, ScriptIs
    <3>4. Program(p)[7] = Stmt("add", "pay_created") /\ 7 \in 1 .. 11
      BY <1>1, ScriptIs
    <3> QED
      BY <3>1, <3>2, <3>3, <3>4 DEF SiColumns
  <2>4. ASSUME NEW c \in SiColumns PROVE \E j \in 1 .. 11 : Program(p)[j] = Stmt("copy", c)
    <3>1. Program(p)[8] = Stmt("copy", "key_hash") /\ 8 \in 1 .. 11
      BY <1>1, ScriptIs
    <3>2. Program(p)[9] = Stmt("copy", "key_created") /\ 9 \in 1 .. 11
      BY <1>1, ScriptIs
    <3>3. Program(p)[10] = Stmt("copy", "pay_amount") /\ 10 \in 1 .. 11
      BY <1>1, ScriptIs
    <3>4. Program(p)[11] = Stmt("copy", "pay_created") /\ 11 \in 1 .. 11
      BY <1>1, ScriptIs
    <3> QED
      BY <3>1, <3>2, <3>3, <3>4 DEF SiColumns
  <2> QED
    BY <1>1, <2>1, <2>2, <2>3, <2>4, ScriptIs
<1>2. CASE p \in SiServers
  <2>1. Len(Program(p)) = 13
    BY <1>2, ServerProgramIs
  <2>2. ASSUME NEW j \in 1 .. 13 PROVE Placed(Program(p)[j], j)
    <3>1. j \in {1, 2, 3, 4, 5, 6, 7, 8, 9, 10, 11, 12, 13}
      OBVIOUS
    <3>2. \A i \in {1, 2, 3} : Placed(Program(p)[i], i)
      BY <1>2, ServerProgramIs DEF Placed, Stmt
    <3>3. \A i \in {4, 5, 6, 7, 8, 9, 10, 11, 12, 13} : Placed(Program(p)[i], i)
      <4>4. Placed(Program(p)[4], 4)
        BY <1>2, ServerProgramIs DEF Placed, Stmt, SiColumns
      <4>5. Placed(Program(p)[5], 5)
        BY <1>2, ServerProgramIs DEF Placed, Stmt, SiColumns
      <4>6. Placed(Program(p)[6], 6)
        BY <1>2, ServerProgramIs DEF Placed, Stmt, SiColumns
      <4>7. Placed(Program(p)[7], 7)
        BY <1>2, ServerProgramIs DEF Placed, Stmt, SiColumns
      <4>8. Placed(Program(p)[8], 8)
        BY <1>2, ServerProgramIs DEF Placed, Stmt, SiColumns
      <4>9. Placed(Program(p)[9], 9)
        BY <1>2, ServerProgramIs DEF Placed, Stmt, SiColumns
      <4>10. Placed(Program(p)[10], 10)
        BY <1>2, ServerProgramIs DEF Placed, Stmt, SiColumns
      <4>11. Placed(Program(p)[11], 11)
        BY <1>2, ServerProgramIs DEF Placed, Stmt, SiColumns
      <4>12. Placed(Program(p)[12], 12)
        BY <1>2, ServerProgramIs DEF Placed, Stmt, SiColumns
      <4>13. Placed(Program(p)[13], 13)
        BY <1>2, ServerProgramIs DEF Placed, Stmt, SiColumns
      <4> QED
        BY <4>4, <4>5, <4>6, <4>7, <4>8, <4>9, <4>10, <4>11, <4>12, <4>13
    <3> QED
      BY <3>1, <3>2, <3>3
  <2>3. ASSUME NEW c \in SiColumns PROVE \E j \in 1 .. 13 : Program(p)[j] = Stmt("add", c)
    <3>1. Program(p)[4] = Stmt("add", "key_hash") /\ 4 \in 1 .. 13
      BY <1>2, ServerProgramIs
    <3>2. Program(p)[5] = Stmt("add", "key_created") /\ 5 \in 1 .. 13
      BY <1>2, ServerProgramIs
    <3>3. Program(p)[8] = Stmt("add", "pay_amount") /\ 8 \in 1 .. 13
      BY <1>2, ServerProgramIs
    <3>4. Program(p)[9] = Stmt("add", "pay_created") /\ 9 \in 1 .. 13
      BY <1>2, ServerProgramIs
    <3> QED
      BY <3>1, <3>2, <3>3, <3>4 DEF SiColumns
  <2>4. ASSUME NEW c \in SiColumns PROVE \E j \in 1 .. 13 : Program(p)[j] = Stmt("copy", c)
    <3>1. Program(p)[10] = Stmt("copy", "key_hash") /\ 10 \in 1 .. 13
      BY <1>2, ServerProgramIs
    <3>2. Program(p)[11] = Stmt("copy", "key_created") /\ 11 \in 1 .. 13
      BY <1>2, ServerProgramIs
    <3>3. Program(p)[12] = Stmt("copy", "pay_amount") /\ 12 \in 1 .. 13
      BY <1>2, ServerProgramIs
    <3>4. Program(p)[13] = Stmt("copy", "pay_created") /\ 13 \in 1 .. 13
      BY <1>2, ServerProgramIs
    <3> QED
      BY <3>1, <3>2, <3>3, <3>4 DEF SiColumns
  <2> QED
    BY <1>2, <2>1, <2>2, <2>3, <2>4, ServerProgramIs
<1> QED
  BY <1>1, <1>2 DEF SiProcs

(* No statement takes back what another one established. *)
Grows ==
    /\ siSnake \subseteq siSnake' /\ siCamel' = siCamel /\ siStrict' \subseteq siStrict
    /\ \A c \in SiColumns : siRow[c] # "null" => siRow'[c] # "null"

(* An effect outlives every step that keeps what its process has seen. *)
LEMMA EffectStays ==
    ASSUME SchemaTypes, Grows, NEW q \in SiProcs, NEW s, Effect(q, s),
           siProc'[q].seen = siProc[q].seen, s.op = "copy" => s.col \in SiColumns
    PROVE  Effect(q, s)'
BY DEF SchemaTypes, Grows, Effect, Copyable

(* A process that does not move keeps all it established. *)
LEMMA OthersStay ==
    ASSUME SchemaIInv, Grows, NEW q \in SiProcs, siProc'[q] = siProc[q]
    PROVE  Established(q)'
<1> SUFFICES ASSUME NEW j \in 1 .. Len(Program(q)), Past(q, j)'
             PROVE  Effect(q, Program(q)[j])'
  BY DEF Established
<1>1. Effect(q, Program(q)[j])
  BY DEF Past, SchemaIInv, Established
<1>2. Program(q)[j].op = "copy" => Program(q)[j].col \in SiColumns
  BY ProgramFacts DEF Placed
<1> QED
  BY <1>1, <1>2, EffectStays DEF SchemaIInv

(* A process that goes on to its next statement has added the effect of    *)
(* the last; only the first two change what it has seen.                   *)
LEMMA AdvanceKeeps ==
    ASSUME SchemaIInv, Grows, NEW p \in SiProcs, Running(p),
           NEW seen \in SUBSET (SiColumns \X {"snake", "camel"}), Advance(p, seen),
           seen = siProc[p].seen \/ siProc[p].at <= 2, NEW s, s = Now(p), Effect(p, s)'
    PROVE  /\ siProc' \in [SiProcs -> SiProc]
           /\ \A q \in SiProcs : /\ siProc'[q].at \in 0 .. Len(Program(q))
                                 /\ siProc'[q].ready => siProc'[q].at = 0
           /\ \A q \in SiProcs : Established(q)'
<1> DEFINE n == Len(Program(p))
           at == siProc[p].at
<1>1. /\ n \in Nat /\ siProc \in [SiProcs -> SiProc] /\ at \in 1 .. n /\ siProc[p].ready = FALSE
  BY ProgramFacts DEF SchemaIInv, SchemaTypes, Running, SiProc
<1>2. /\ siProc' = [siProc EXCEPT ![p] =
             IF at = n THEN [at |-> 0, ready |-> TRUE, seen |-> seen]
             ELSE [at |-> at + 1, ready |-> FALSE, seen |-> seen]]
  BY <1>1 DEF Advance
<1> HIDE DEF n, at
<1>3. /\ siProc'[p] \in SiProc /\ siProc'[p].seen = seen
      /\ siProc'[p].at \in 0 .. n /\ (siProc'[p].ready => siProc'[p].at = 0)
      /\ \A j \in 1 .. n : Past(p, j)' => j <= at
  BY <1>1, <1>2 DEF SiProc, Past
<1>4. \A q \in SiProcs \ {p} : siProc'[q] = siProc[q]
  BY <1>1, <1>2
<1>5. siProc' \in [SiProcs -> SiProc]
  BY <1>1, <1>2, <1>3
<1>6. \A q \in SiProcs : /\ siProc'[q].at \in 0 .. Len(Program(q))
                         /\ siProc'[q].ready => siProc'[q].at = 0
  BY <1>3, <1>4 DEF SchemaIInv, SchemaTypes, n
<1>7. Established(p)'
  <2> SUFFICES ASSUME NEW j \in 1 .. n, j <= at PROVE Effect(p, Program(p)[j])'
    BY <1>3 DEF Established, n
  <2>1. CASE j = at
    <3>1. Program(p)[j] = s
      BY <2>1 DEF Now, at
    <3> QED
      BY <3>1
  <2>2. CASE j < at /\ seen = siProc[p].seen
    <3>1. Effect(p, Program(p)[j])
      BY <2>2 DEF SchemaIInv, Established, Past, at, n
    <3>2. Program(p)[j].op = "copy" => Program(p)[j].col \in SiColumns
      BY ProgramFacts DEF Placed, n
    <3> QED
      BY <3>1, <3>2, <2>2, <1>3, EffectStays DEF SchemaIInv
  <2>3. CASE j < at /\ at <= 2
    <3>1. j = 1
      BY <2>3, <1>1
    <3>2. Program(p)[j].op = "create"
      BY <3>1, ProgramFacts DEF Stmt
    <3> QED
      BY <3>2 DEF Effect
  <2> QED
    BY <2>1, <2>2, <2>3, <1>1 DEF at
<1>8. \A q \in SiProcs : Established(q)'
  BY <1>4, <1>7, OthersStay
<1> QED
  BY <1>5, <1>6, <1>8

(* A process that starts, gives up or dies has nothing established to keep. *)
LEMMA SchemaFresh ==
    ASSUME SchemaIInv, NEW p \in SiProcs, NEW fresh \in SiProc,
           ~fresh.ready, fresh.at \in {0, 1}, siProc' = [siProc EXCEPT ![p] = fresh],
           UNCHANGED <<siSnake, siCamel, siStrict, siRow>>
    PROVE  SchemaIInv'
<1>1. Len(Program(p)) \in Nat /\ Len(Program(p)) >= 3
  BY ProgramFacts
<1>2. SchemaTypes'
  BY <1>1 DEF SchemaIInv, SchemaTypes
<1>3. Established(p)'
  <2> SUFFICES ASSUME NEW j \in 1 .. Len(Program(p)) PROVE ~Past(p, j)'
    BY DEF Established
  <2>1. siProc'[p] = fresh
    BY DEF SchemaIInv, SchemaTypes
  <2> QED
    BY <2>1 DEF Past
<1>4. \A q \in SiProcs \ {p} : Established(q)'
  <2>1. Grows
    BY DEF Grows
  <2>2. \A q \in SiProcs \ {p} : siProc'[q] = siProc[q]
    BY DEF SchemaIInv, SchemaTypes
  <2> QED
    BY <2>1, <2>2, OthersStay
<1> QED
  BY <1>2, <1>3, <1>4 DEF SchemaIInv

(* One statement of one process, whichever it is: it moves the tables the  *)
(* way Grows allows, and leaves its own effect behind.                     *)
LEMMA SchemaStatement ==
    ASSUME SchemaIInv, NEW p \in SiProcs,
           \/ CreateTables(p) \/ Look(p) \/ DropNotNulls(p)
           \/ AddColumn(p) \/ SetDefault(p) \/ CopyLegacy(p)
    PROVE  SchemaIInv'
<1>0. PICK s : s = Now(p)
  OBVIOUS
<1>1. /\ siSnake \subseteq SiColumns /\ siCamel \subseteq SiColumns /\ siStrict \subseteq siCamel
      /\ siRow \in [SiColumns -> {"null", "old", "now", "new"}]
      /\ siProc \in [SiProcs -> SiProc] /\ Running(p)
      /\ siProc[p].seen \in SUBSET (SiColumns \X {"snake", "camel"})
  BY DEF SchemaIInv, SchemaTypes, CreateTables, Look, DropNotNulls, AddColumn, SetDefault,
         CopyLegacy, SiProc
<1>2. siProc[p].at \in 1 .. Len(Program(p)) /\ Placed(s, siProc[p].at)
  <2>1. siProc[p].at \in 1 .. Len(Program(p))
    BY <1>1, ProgramFacts DEF SchemaIInv, SchemaTypes, Running
  <2> QED
    BY <1>0, <2>1, ProgramFacts DEF Now
<1> DEFINE Done(seen) ==
        /\ Grows /\ seen \in SUBSET (SiColumns \X {"snake", "camel"}) /\ Advance(p, seen)
        /\ seen = siProc[p].seen \/ siProc[p].at <= 2
        /\ siSnake' \subseteq SiColumns /\ siRow' \in [SiColumns -> {"null", "old", "now", "new"}]
        /\ siProc'[p].seen = seen => Effect(p, s)'
<1>3. ASSUME NEW seen, Done(seen) PROVE SchemaIInv'
  <2>1. siProc'[p].seen = seen
    BY <1>1, <1>3 DEF Advance
  <2>2. Effect(p, s)'
    BY <1>3, <2>1
  <2>3. /\ siProc' \in [SiProcs -> SiProc]
        /\ \A q \in SiProcs : /\ siProc'[q].at \in 0 .. Len(Program(q))
                              /\ siProc'[q].ready => siProc'[q].at = 0
        /\ \A q \in SiProcs : Established(q)'
    BY <1>0, <1>1, <1>3, <2>2, AdvanceKeeps
  <2>4. SchemaTypes'
    BY <1>1, <1>3, <2>3 DEF SchemaTypes, Grows
  <2> QED
    BY <2>3, <2>4 DEF SchemaIInv
<1>4. CASE CreateTables(p)
  <2>1. s.op = "create" /\ siProc[p].at = 1
    BY <1>0, <1>2, <1>4 DEF CreateTables, Placed
  <2>2. Done({})
    BY <1>1, <1>4, <2>1 DEF CreateTables, Grows, Effect
  <2> QED
    BY <1>3, <2>2
<1>5. CASE Look(p)
  <2> DEFINE seen == {<<c, "snake">> : c \in siSnake} \cup {<<c, "camel">> : c \in siCamel}
  <2>1. s.op = "look" /\ siProc[p].at = 2
    BY <1>0, <1>2, <1>5 DEF Look, Placed
  <2>2. seen \in SUBSET (SiColumns \X {"snake", "camel"}) /\ \A c \in siCamel : <<c, "camel">> \in seen
    BY <1>1
  <2>3. Advance(p, seen) /\ UNCHANGED <<siSnake, siCamel, siStrict, siRow>>
    BY <1>5 DEF Look
  <2> HIDE DEF seen
  <2>4. Grows
    BY <2>3 DEF Grows
  <2>5. siProc'[p].seen = seen => Effect(p, s)'
    BY <2>1, <2>2, <2>3 DEF Effect
  <2>6. Done(seen)
    BY <1>1, <2>1, <2>2, <2>3, <2>4, <2>5
  <2> QED
    BY <1>3, <2>6
<1>6. CASE DropNotNulls(p)
  <2>1. s.op = "drop" /\ siProc[p].at = 3
    BY <1>0, <1>2, <1>6 DEF DropNotNulls, Placed
  <2>2. Effect(p, Program(p)[2])
    BY <2>1, ProgramFacts DEF SchemaIInv, Established, Past
  <2>3. \A c \in siCamel : <<c, "camel">> \in siProc[p].seen
    <3>1. Program(p)[2].op = "look"
      BY ProgramFacts DEF Stmt
    <3> QED
      BY <2>2, <3>1 DEF Effect
  <2>4. siStrict' = {} /\ Advance(p, siProc[p].seen) /\ UNCHANGED <<siSnake, siCamel, siRow>>
    BY <1>1, <1>6, <2>3 DEF DropNotNulls
  <2>5. Grows
    BY <2>4 DEF Grows
  <2>6. Effect(p, s)'
    BY <2>1, <2>4 DEF Effect
  <2>7. Done(siProc[p].seen)
    BY <1>1, <2>4, <2>5, <2>6
  <2> QED
    BY <1>3, <2>7
<1>7. CASE AddColumn(p)
  <2>1. s.op = "add" /\ s.col \in SiColumns /\ Advance(p, siProc[p].seen)
        /\ siSnake' = siSnake \cup {s.col} /\ UNCHANGED <<siCamel, siStrict>>
        /\ siRow' = IF s.col \in Defaulted \ siSnake THEN [siRow EXCEPT ![s.col] = "now"] ELSE siRow
    BY <1>0, <1>2, <1>7 DEF AddColumn, Placed
  <2>2. siRow' \in [SiColumns -> {"null", "old", "now", "new"}]
    BY <1>1, <2>1
  <2>3. Grows
    BY <1>1, <2>1 DEF Grows
  <2>4. Effect(p, s)'
    BY <2>1 DEF Effect
  <2>5. Done(siProc[p].seen)
    BY <1>1, <2>1, <2>2, <2>3, <2>4
  <2> QED
    BY <1>3, <2>5
<1>8. CASE SetDefault(p)
  <2>1. s.op = "default" /\ Advance(p, siProc[p].seen) /\ UNCHANGED <<siSnake, siCamel, siStrict, siRow>>
    BY <1>0, <1>8 DEF SetDefault
  <2>2. Grows /\ Effect(p, s)'
    BY <2>1 DEF Grows, Effect
  <2>3. Done(siProc[p].seen)
    BY <1>1, <2>1, <2>2
  <2> QED
    BY <1>3, <2>3
<1>9. CASE CopyLegacy(p)
  <2>1. s.op = "copy" /\ s.col \in SiColumns /\ Advance(p, siProc[p].seen)
        /\ UNCHANGED <<siSnake, siCamel, siStrict>>
        /\ siRow' = IF Copyable(p, s.col) /\ s.col \in siCamel /\ siRow[s.col] = "null"
                    THEN [siRow EXCEPT ![s.col] = "old"] ELSE siRow
    BY <1>0, <1>2, <1>9 DEF CopyLegacy, Placed
  <2>2. siRow' \in [SiColumns -> {"null", "old", "now", "new"}]
    BY <1>1, <2>1
  <2>3. Grows
    BY <1>1, <2>1 DEF Grows
  <2>4. siProc'[p].seen = siProc[p].seen => Effect(p, s)'
    BY <1>1, <2>1 DEF Effect, Copyable
  <2>5. Done(siProc[p].seen)
    BY <1>1, <2>1, <2>2, <2>3, <2>4
  <2> QED
    BY <1>3, <2>5
<1> QED
  BY <1>4, <1>5, <1>6, <1>7, <1>8, <1>9

(* An old row that has a value goes on having one when the server writes. *)
LEMMA ServerWritesKeeps ==
    ASSUME SchemaIInv, NEW p \in SiProcs, NEW c \in SiColumns, ServerWrites(p, c)
    PROVE  SchemaIInv'
<1>1. SchemaTypes'
  BY DEF SchemaIInv, SchemaTypes, ServerWrites
<1>2. Grows
  BY DEF SchemaIInv, SchemaTypes, ServerWrites, Grows
<1>3. siProc' = siProc
  BY DEF ServerWrites
<1> QED
  BY <1>1, <1>2, <1>3, OthersStay DEF SchemaIInv

(* Before anyone starts, nothing is claimed. *)
LEMMA SchemaStarts == SchemaStart => SchemaIInv
<1> SUFFICES ASSUME SchemaStart PROVE SchemaIInv
  OBVIOUS
<1>1. /\ Idle \in SiProc /\ Idle.at = 0 /\ Idle.ready = FALSE
      /\ siProc = [p \in SiProcs |-> Idle]
  BY DEF Idle, SiProc, SiProcs, SchemaStart
<1>2. \A p \in SiProcs : 0 \in 0 .. Len(Program(p))
  BY ProgramFacts
<1>3. SchemaTypes
  <2>1. siSnake \subseteq SiColumns /\ siCamel \subseteq SiColumns /\ siStrict \subseteq siCamel
    BY DEF SchemaStart
  <2>2. siRow \in [SiColumns -> {"null", "old", "now", "new"}]
    BY DEF SchemaStart
  <2> QED
    BY <1>1, <1>2, <2>1, <2>2 DEF SchemaTypes
<1>4. ASSUME NEW q \in SiProcs, NEW j \in 1 .. Len(Program(q)) PROVE ~Past(q, j)
  BY <1>1 DEF Past
<1> QED
  BY <1>3, <1>4 DEF SchemaIInv, Established

(* Every step of every process keeps what the statements have established. *)
LEMMA SchemaStep == SchemaIInv /\ [SchemaNext]_siVars => SchemaIInv'
<1> SUFFICES ASSUME SchemaIInv, [SchemaNext]_siVars PROVE SchemaIInv'
  OBVIOUS
<1>1. CASE UNCHANGED siVars
  <2>1. SchemaTypes'
    BY <1>1 DEF siVars, SchemaIInv, SchemaTypes
  <2>2. Grows /\ siProc' = siProc
    BY <1>1 DEF siVars, Grows
  <2> QED
    BY <2>1, <2>2, OthersStay DEF SchemaIInv
<1>2. ASSUME NEW p \in SiProcs,
             \/ CreateTables(p) \/ Look(p) \/ DropNotNulls(p)
             \/ AddColumn(p) \/ SetDefault(p) \/ CopyLegacy(p)
      PROVE  SchemaIInv'
  BY <1>2, SchemaStatement
<1>3. ASSUME NEW p \in SiProcs, EnsureDatabaseSchema(p) PROVE SchemaIInv'
  <2> DEFINE fresh == [siProc[p] EXCEPT !.at = 1]
  <2>1. siProc \in [SiProcs -> SiProc]
    BY DEF SchemaIInv, SchemaTypes
  <2>2. fresh \in SiProc /\ fresh.at = 1 /\ ~fresh.ready
    BY <1>3, <2>1 DEF SiProc, EnsureDatabaseSchema
  <2>3. siProc' = [siProc EXCEPT ![p] = fresh] /\ UNCHANGED <<siSnake, siCamel, siStrict, siRow>>
    BY <1>3 DEF EnsureDatabaseSchema
  <2> HIDE DEF fresh
  <2> QED
    BY <2>2, <2>3, SchemaFresh
<1>4. ASSUME NEW p \in SiProcs, StatementImpossible(p) \/ StatementFails(p) \/ ProcessRestarts(p)
      PROVE  SchemaIInv'
  <2>1. Idle \in SiProc /\ Idle.at = 0 /\ ~Idle.ready
    BY DEF Idle, SiProc
  <2>2. siProc' = [siProc EXCEPT ![p] = Idle] /\ UNCHANGED <<siSnake, siCamel, siStrict, siRow>>
    BY <1>4 DEF StatementImpossible, StatementFails, ProcessRestarts, GiveUp
  <2> QED
    BY <2>1, <2>2, SchemaFresh
<1>5. ASSUME NEW p \in SiProcs, NEW c \in SiColumns, ServerWrites(p, c) PROVE SchemaIInv'
  BY <1>5, ServerWritesKeeps
<1> QED
  BY <1>1, <1>2, <1>3, <1>4, <1>5 DEF SchemaNext, SiProcs

(* Whatever the other processes do meanwhile, and wherever a statement     *)
(* fails or a process dies, a process of lib/db/init.ts or of the script   *)
(* says it is initialised only over tables it can serve: for any number of *)
(* servers, scripts and faults.                                            *)
THEOREM ReadyTablesAreMigrated == SchemaSpec => []ReadyMeansMigrated
<1>1. SchemaIInv => ReadyMeansMigrated
  <2> SUFFICES ASSUME SchemaIInv, NEW p \in SiProcs, siProc[p].ready
               PROVE  /\ siSnake = SiColumns /\ siStrict = {}
                      /\ \A c \in siCamel : Copyable(p, c) => siRow[c] # "null"
    BY DEF ReadyMeansMigrated, SiProcs
  <2>1. \A j \in 1 .. Len(Program(p)) : Effect(p, Program(p)[j])
    BY DEF SchemaIInv, Established, Past
  <2>2. ASSUME NEW c \in SiColumns PROVE c \in siSnake
    <3>1. PICK j \in 1 .. Len(Program(p)) : Program(p)[j] = Stmt("add", c)
      BY ProgramFacts
    <3>2. Effect(p, Stmt("add", c))
      BY <2>1, <3>1
    <3> QED
      BY <3>2 DEF Effect, Stmt
  <2>3. siStrict = {}
    <3>1. 3 \in 1 .. Len(Program(p)) /\ Program(p)[3] = Stmt("drop", "all")
      BY ProgramFacts
    <3>2. Effect(p, Stmt("drop", "all"))
      BY <2>1, <3>1
    <3> QED
      BY <3>2 DEF Effect, Stmt
  <2>4. ASSUME NEW c \in siCamel, Copyable(p, c) PROVE siRow[c] # "null"
    <3>1. c \in SiColumns
      BY DEF SchemaIInv, SchemaTypes
    <3>2. PICK j \in 1 .. Len(Program(p)) : Program(p)[j] = Stmt("copy", c)
      BY <3>1, ProgramFacts
    <3>3. Effect(p, Stmt("copy", c))
      BY <2>1, <3>2
    <3> QED
      BY <2>4, <3>3 DEF Effect, Stmt
  <2> QED
    BY <2>2, <2>3, <2>4 DEF SchemaIInv, SchemaTypes
<1> QED
  BY <1>1, SchemaStarts, SchemaStep, PTL DEF SchemaSpec

------------------------------------------------------------------------------
(***************************************************************************)
(*                              Release tool                               *)
(***************************************************************************)
RtCategories == {"manifests", "code", "sdks", "env", "infra", "demos", "docs", "unfiltered"}
RtFound == [number : Nat, suffixes : Nat]
RtRuns == [todo : SUBSET (1 .. 13), version : RtFound, category : RtCategories \cup {"none"},
           dry : BOOLEAN, begun : BOOLEAN]

ReleaseTypes ==
    /\ rtFiles \in [1 .. 13 -> RtFound]
    /\ rtRun \in RtRuns /\ rtPlain \in BOOLEAN

(* While no prerelease was named no file carries a suffix, and of the      *)
(* command under way every target it is done with carries its version.     *)
Working(run) ==
    /\ run.version.suffixes = 0
    /\ run.category = "unfiltered" /\ ~run.dry =>
           /\ \A i \in (1 .. 13) \ run.todo : rtFiles[i] = run.version
           /\ run.begun => 1 \notin run.todo

ReleaseIInv ==
    /\ ReleaseTypes
    /\ rtPlain => /\ \A i \in 1 .. 13 : rtFiles[i].suffixes = 0
                  /\ rtRun # NoRun => Working(rtRun)
    /\ SyncRepairs

(* The table of targets, the canonical one first. *)
LEMMA TargetsAre ==
    /\ DOMAIN TARGETS = 1 .. 13
    /\ TARGETS[1].category = "manifests" /\ TARGETS[1].pattern = "quoted"
    /\ \A i \in 1 .. 13 : /\ TARGETS[i].category \in RtCategories
                          /\ TARGETS[i].pattern \in {"quoted", "closed", "open"}
<1> DEFINE Fine(t) == t.category \in RtCategories /\ t.pattern \in {"quoted", "closed", "open"}
<1>1. Len(TARGETS) = 13 /\ DOMAIN TARGETS = 1 .. 13
  BY DEF TARGETS, ManifestTargets, CodeTargets, SdkTargets, EnvTargets, InfraTargets, DemoTargets,
         DocTargets
<1>2. /\ TARGETS[1] = Target("manifests", "quoted") /\ TARGETS[2] = Target("manifests", "quoted")
      /\ TARGETS[3] = Target("code", "quoted") /\ TARGETS[4] = Target("code", "open")
      /\ TARGETS[5] = Target("sdks", "open") /\ TARGETS[6] = Target("sdks", "closed")
      /\ TARGETS[7] = Target("env", "closed") /\ TARGETS[8] = Target("env", "open")
      /\ TARGETS[9] = Target("infra", "open")
      /\ TARGETS[10] = Target("demos", "quoted") /\ TARGETS[11] = Target("demos", "closed")
      /\ TARGETS[12] = Target("docs", "closed") /\ TARGETS[13] = Target("docs", "open")
  BY DEF TARGETS, ManifestTargets, CodeTargets, SdkTargets, EnvTargets, InfraTargets, DemoTargets,
         DocTargets
<1>3. \A c \in RtCategories, q \in {"quoted", "closed", "open"} : Fine(Target(c, q))
  BY DEF Target
<1>4. \A c \in {"manifests", "code", "sdks", "env", "infra", "demos", "docs"} : c \in RtCategories
  BY DEF RtCategories
<1> HIDE DEF Fine
<1>5. /\ Fine(TARGETS[1]) /\ Fine(TARGETS[2]) /\ Fine(TARGETS[3]) /\ Fine(TARGETS[4])
      /\ Fine(TARGETS[5]) /\ Fine(TARGETS[6]) /\ Fine(TARGETS[7]) /\ Fine(TARGETS[8])
      /\ Fine(TARGETS[9]) /\ Fine(TARGETS[10]) /\ Fine(TARGETS[11]) /\ Fine(TARGETS[12])
      /\ Fine(TARGETS[13])
  BY <1>2, <1>3, <1>4
<1>6. ASSUME NEW i \in 1 .. 13 PROVE Fine(TARGETS[i])
  <2>1. i \in {1, 2, 3, 4, 5, 6, 7, 8, 9, 10, 11, 12, 13}
    OBVIOUS
  <2> QED
    BY <1>5, <2>1
<1>7. TARGETS[1].category = "manifests" /\ TARGETS[1].pattern = "quoted"
  BY <1>2 DEF Target
<1> QED
  BY <1>1, <1>6, <1>7 DEF Fine

(* Cargo.toml is the first target. *)
LEMMA CargoIsFirst == Cargo = 1
<1> DEFINE First(i) == /\ TARGETS[i].category = "manifests"
                       /\ \A j \in DOMAIN TARGETS : TARGETS[j].category = "manifests" => i <= j
<1>1. 1 \in DOMAIN TARGETS /\ First(1)
  BY TargetsAre
<1>2. ASSUME NEW i \in DOMAIN TARGETS, First(i) PROVE i = 1
  BY <1>2, TargetsAre
<1>3. Cargo = CHOOSE i \in DOMAIN TARGETS : First(i)
  BY DEF Cargo
<1> HIDE DEF First
<1> QED
  BY <1>1, <1>2, <1>3

(* A plain version replaces a plain one whatever the pattern. *)
LEMMA PlainWrite ==
    ASSUME NEW i \in 1 .. 13, NEW found \in RtFound, NEW version \in RtFound
    PROVE  /\ Write(TARGETS[i], found, version) \in RtFound
           /\ found.suffixes = 0 /\ version.suffixes = 0 =>
                  Write(TARGETS[i], found, version) = version
<1>1. CASE TARGETS[i].pattern = "quoted"
  BY <1>1 DEF Write
<1>2. CASE TARGETS[i].pattern = "closed"
  BY <1>2 DEF Write
<1>3. CASE TARGETS[i].pattern = "open"
  BY <1>3 DEF Write, Version, RtFound, MaxSuffixes
<1> QED
  BY <1>1, <1>2, <1>3, TargetsAre

(* The canonical version is what Cargo.toml carries. *)
LEMMA CanonicalIs == GetCanonicalVersion = rtFiles[1]
BY CargoIsFirst, TargetsAre DEF GetCanonicalVersion, Read

(* A command starts with everything it keeps still to do. *)
LEMMA SyncVersionsKeeps ==
    ASSUME ReleaseIInv, NEW version \in RtFound, NEW c \in RtOptions, NEW dry \in BOOLEAN,
           SyncVersions(version, c, dry)
    PROVE  ReleaseIInv'
<1>1. c \in RtCategories
  BY OptionsAssumption, TargetsAre DEF CATEGORIES, RtCategories
<1>2. FilteredTargets(c) \in SUBSET (1 .. 13) /\ (c = "unfiltered" => FilteredTargets(c) = 1 .. 13)
  BY TargetsAre DEF FilteredTargets
<1>3. /\ rtRun' = [todo |-> FilteredTargets(c), version |-> version,
                   category |-> c, dry |-> dry, begun |-> FALSE]
      /\ rtPlain' = (rtPlain /\ version.suffixes = 0) /\ rtFiles' = rtFiles
  BY DEF SyncVersions
<1>4. /\ rtRun' \in RtRuns /\ rtRun'.version = version /\ rtRun'.todo = FilteredTargets(c)
      /\ rtRun'.category = c /\ rtRun'.begun = FALSE
  BY <1>1, <1>2, <1>3 DEF RtRuns
<1>5. rtRun' # NoRun
  BY <1>1, <1>4 DEF NoRun, RtCategories
<1>6. ReleaseTypes'
  BY <1>3, <1>4 DEF ReleaseIInv, ReleaseTypes
<1>7. rtPlain' => rtPlain /\ Working(rtRun)'
  BY <1>2, <1>3, <1>4 DEF Working, ReleaseIInv, ReleaseTypes
<1>8. SyncRepairs'
  BY <1>5 DEF SyncRepairs
<1> QED
  BY <1>3, <1>6, <1>7, <1>8 DEF ReleaseIInv

(* One file is rewritten; the first is Cargo.toml, unless it is left out. *)
LEMMA WriteTargetKeeps ==
    ASSUME ReleaseIInv, WriteTarget PROVE ReleaseIInv'
<1>1. PICK i \in rtRun.todo :
           /\ \A j \in rtRun.todo : i <= j
           /\ rtFiles' = IF rtRun.dry THEN rtFiles
                         ELSE [rtFiles EXCEPT ![i] = Write(TARGETS[i], @, rtRun.version)]
           /\ rtRun' = [rtRun EXCEPT !.todo = @ \ {i}, !.begun = TRUE]
  BY DEF WriteTarget
<1>2. /\ rtRun \in RtRuns /\ rtRun.todo \subseteq 1 .. 13 /\ rtRun.version \in RtFound
      /\ rtFiles \in [1 .. 13 -> RtFound] /\ i \in 1 .. 13 /\ rtRun.dry \in BOOLEAN
  BY DEF ReleaseIInv, ReleaseTypes, RtRuns
<1> DEFINE w == Write(TARGETS[i], rtFiles[i], rtRun.version)
<1>3. /\ w \in RtFound
      /\ rtFiles[i].suffixes = 0 /\ rtRun.version.suffixes = 0 => w = rtRun.version
  BY <1>2, PlainWrite
<1>4. rtFiles' = IF rtRun.dry THEN rtFiles ELSE [rtFiles EXCEPT ![i] = w]
  BY <1>1, <1>2
<1> HIDE DEF w
<1>5. /\ rtRun' \in RtRuns /\ rtRun'.todo = rtRun.todo \ {i} /\ rtRun'.version = rtRun.version
      /\ rtRun'.category = rtRun.category /\ rtRun'.dry = rtRun.dry /\ rtRun'.begun = TRUE
  BY <1>1, <1>2 DEF RtRuns
<1>6. rtRun # NoRun /\ rtRun' # NoRun
  <2>1. NoRun.todo = {} /\ NoRun.begun = FALSE
    BY DEF NoRun
  <2> QED
    BY <1>1, <1>5, <2>1
<1>7. rtPlain' = rtPlain
  BY DEF WriteTarget
<1>8. ReleaseTypes'
  BY <1>2, <1>3, <1>4, <1>5, <1>7 DEF ReleaseIInv, ReleaseTypes
<1>9. ASSUME rtPlain
      PROVE  (\A k \in 1 .. 13 : rtFiles'[k].suffixes = 0) /\ Working(rtRun)'
  <2>1. (\A k \in 1 .. 13 : rtFiles[k].suffixes = 0) /\ Working(rtRun)
    BY <1>6, <1>9 DEF ReleaseIInv
  <2>2. w = rtRun.version /\ rtRun.version.suffixes = 0
    BY <1>2, <1>3, <2>1 DEF Working
  <2>3. \A k \in 1 .. 13 : rtFiles'[k].suffixes = 0
    BY <1>2, <1>4, <2>1, <2>2
  <2>4. CASE ~(rtRun.category = "unfiltered" /\ ~rtRun.dry)
    BY <1>5, <2>2, <2>3, <2>4 DEF Working
  <2>5. CASE rtRun.category = "unfiltered" /\ ~rtRun.dry
    <3>1. \A k \in (1 .. 13) \ rtRun'.todo : rtFiles'[k] = rtRun.version
      BY <1>2, <1>4, <1>5, <2>1, <2>2, <2>5 DEF Working
    <3>2. 1 \notin rtRun'.todo
      BY <1>1, <1>2, <1>5
    <3> QED
      BY <1>5, <2>2, <2>3, <3>1, <3>2 DEF Working
  <2> QED
    BY <2>3, <2>4, <2>5
<1>10. SyncRepairs'
  BY <1>6 DEF SyncRepairs
<1> QED
  BY <1>6, <1>7, <1>8, <1>9, <1>10 DEF ReleaseIInv

(* A command that ended wrote every target, one that was cut off after its *)
(* first write wrote Cargo.toml.                                           *)
LEMMA CommandStopsKeeps ==
    ASSUME ReleaseIInv, CommandEnds \/ CommandCutOff PROVE ReleaseIInv'
<1>1. /\ rtRun # NoRun /\ rtRun' = NoRun /\ rtLast'.run = rtRun /\ rtFiles' = rtFiles
      /\ rtPlain' = rtPlain /\ (rtLast'.complete => rtRun.todo = {})
  BY DEF CommandEnds, CommandCutOff
<1>2. rtFiles \in [1 .. 13 -> RtFound] /\ rtPlain \in BOOLEAN
  BY DEF ReleaseIInv, ReleaseTypes
<1>3. NoRun \in RtRuns
  BY DEF NoRun, RtRuns, NoMatch, Version, RtFound, RtCategories
<1>4. ReleaseTypes'
  BY <1>1, <1>2, <1>3 DEF ReleaseTypes
<1>5. ASSUME rtPlain, rtRun.category = "unfiltered", ~rtRun.dry
      PROVE  /\ rtLast'.complete => \A i \in 1 .. 13 : rtFiles[i] = rtRun.version
             /\ rtRun.begun => rtFiles[1] = rtRun.version
  BY <1>1, <1>5 DEF ReleaseIInv, Working
<1>6. SyncRepairs'
  BY <1>1, <1>5, TargetsAre, CargoIsFirst DEF SyncRepairs
<1> QED
  BY <1>1, <1>4, <1>6 DEF ReleaseIInv

(* The files agree when the tool is first run. *)
LEMMA ReleaseStarts == ReleaseInit => ReleaseIInv
<1> SUFFICES ASSUME ReleaseInit PROVE ReleaseIInv
  OBVIOUS
<1>1. PICK n \in RtNumbers : rtFiles = [i \in 1 .. 13 |-> Version(n, 0)]
  BY TargetsAre DEF ReleaseInit
<1>2. Version(n, 0) \in RtFound /\ Version(n, 0).suffixes = 0
  BY ReleaseAssumption DEF Version, RtFound
<1>3. NoRun \in RtRuns /\ NoRun.category = "none"
  BY DEF NoRun, RtRuns, NoMatch, Version, RtFound, RtCategories
<1>4. rtRun = NoRun /\ rtLast.run = NoRun /\ rtPlain = TRUE
  BY DEF ReleaseInit
<1> QED
  BY <1>1, <1>2, <1>3, <1>4 DEF ReleaseIInv, ReleaseTypes, SyncRepairs

(* Every command, write, end and interruption keeps the invariant. *)
LEMMA ReleaseStep == ReleaseIInv /\ [ReleaseNext]_rtVars => ReleaseIInv'
<1> SUFFICES ASSUME ReleaseIInv, [ReleaseNext]_rtVars PROVE ReleaseIInv'
  OBVIOUS
<1>1. \A n \in Nat, s \in {0, 1} : Version(n, s) \in RtFound
  BY DEF Version, RtFound
<1>2. /\ RtVersions \subseteq RtFound /\ GetCanonicalVersion \in RtFound
      /\ BumpVersion(GetCanonicalVersion) \subseteq RtFound
  <2>1. RtVersions \subseteq RtFound
    BY <1>1, ReleaseAssumption DEF RtVersions
  <2>2. GetCanonicalVersion \in RtFound
    BY CanonicalIs DEF ReleaseIInv, ReleaseTypes
  <2>3. GetCanonicalVersion.number + 1 \in Nat
    BY <2>2 DEF RtFound
  <2> QED
    BY <1>1, <2>1, <2>2, <2>3 DEF BumpVersion
<1>3. ASSUME NEW c \in RtOptions, NEW dry \in BOOLEAN,
             \/ Sync(c, dry) \/ DoBump(c, dry)
             \/ \E v \in RtVersions : SyncTo(v, c, dry)
      PROVE  ReleaseIInv'
  <2>1. PICK v \in RtFound : SyncVersions(v, c, dry)
    BY <1>2, <1>3 DEF Sync, DoBump, SyncTo
  <2> QED
    BY <2>1, SyncVersionsKeeps
<1>4. CASE WriteTarget
  BY <1>4, WriteTargetKeeps
<1>5. CASE CommandEnds \/ CommandCutOff
  BY <1>5, CommandStopsKeeps
<1>6. CASE UNCHANGED <<rtFiles, rtRun, rtLast, rtPlain>>
  BY <1>6 DEF ReleaseIInv, ReleaseTypes, Working, SyncRepairs
<1>7. ASSUME NEW c \in RtOptions, CheckVersions(c) PROVE ReleaseIInv'
  BY <1>6, <1>7 DEF CheckVersions
<1>8. CASE UNCHANGED rtVars
  BY <1>6, <1>8 DEF rtVars
<1> QED
  BY <1>3, <1>4, <1>5, <1>7, <1>8 DEF ReleaseNext

(* scripts/version.mjs repairs what an interruption left, however many     *)
(* commands are run, whatever version numbers and category options they    *)
(* name: while no prerelease has been named, a complete unfiltered sync    *)
(* leaves no file out of step, and an interrupted one is finished, never   *)
(* undone, by the next.                                                    *)
THEOREM SyncsRepair == ReleaseSpec => []SyncRepairs
<1>1. ReleaseIInv => SyncRepairs
  BY DEF ReleaseIInv
<1> QED
  BY <1>1, ReleaseStarts, ReleaseStep, PTL DEF ReleaseSpec

==============================================================================
