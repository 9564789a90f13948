-------------------------- MODULE MerchantSettings --------------------------
(* A merchant's settings row, of which the webhook signing secret is        *)
(* followed: it is made up by whichever page first finds no row, shown in   *)
(* the settings console, rolled there, and stored again with every save of  *)
(* the form.  The other fields of the form travel with it.                  *)
EXTENDS Naturals

CONSTANTS
    MsTabs,          \* browser tabs
    MsSecrets,       \* secrets that may be generated
    MsFaults         \* bound: saves refused or cut off

ASSUME SettingsAssumption == MsSecrets \subseteq Nat \ {0} /\ MsFaults \in Nat

VARIABLES
    msRow,           \* the secret stored, or NoSecret
    msUsed,          \* secrets generated so far
    msTabs,          \* the tabs
    msLate,          \* secrets in saves their tabs gave up, still on the way
    msPinged,        \* secrets a test delivery was signed with
    msLeft           \* faults still to come

msVars == <<msRow, msUsed, msTabs, msLate, msPinged, msLeft>>

-----------------------------------------------------------------------------
NoSecret == 0

(* page: which page is loading or open; at: where its request stands;      *)
(* form: the secret in the form; sent: the one a save carries.  What the   *)
(* row may differ by, until the form's secret is stored: lost, the page's  *)
(* insert met a row; rolled, the secret was made up in the form; stale,    *)
(* another secret was saved since.                                         *)
Closed == [page |-> "none", at |-> "idle", form |-> NoSecret, sent |-> NoSecret,
           lost |-> FALSE, rolled |-> FALSE, stale |-> FALSE]

SettingsInit ==
    /\ msRow = NoSecret
    /\ msUsed = {} /\ msLate = {} /\ msPinged = {}
    /\ msTabs = [t \in MsTabs |-> Closed]
    /\ msLeft = MsFaults

(* Secrets are random: any that was not drawn before. *)
GenerateWebhookSecret ==
    {s \in MsSecrets \ msUsed : \A r \in MsSecrets \ msUsed : s <= r}

-----------------------------------------------------------------------------
(* getMerchantSettings, called by the settings page and by two others that *)
(* do not show the secret: the row is looked up ...                        *)
Found == msRow # NoSecret

LoadFinds(t, page) ==
    /\ msTabs[t].at = "idle" /\ Found
    /\ msTabs' = [msTabs EXCEPT ![t] =
           IF page = "settings" THEN [Closed EXCEPT !.page = page, !.form = msRow] ELSE Closed]
    /\ UNCHANGED <<msRow, msUsed, msLate, msPinged, msLeft>>

LoadMisses(t, page) ==
    /\ msTabs[t].at = "idle" /\ ~Found
    /\ \E s \in GenerateWebhookSecret :
           /\ msUsed' = msUsed \cup {s}
           /\ msTabs' = [msTabs EXCEPT ![t] =
                  [Closed EXCEPT !.page = page, !.at = "selected", !.form = s]]
    /\ UNCHANGED <<msRow, msLate, msPinged, msLeft>>

(* Mutation: the insert overwrites the row it meets. *)
MutInsertDefaults(t) == msRow' = msTabs[t].form

(* ... and a default row is inserted, unless another was quicker; the page *)
(* is given the values it would have inserted either way.                  *)
InsertDefaults(t) == msRow' = IF Found THEN msRow ELSE msTabs[t].form

LoadInserts(t) ==
    /\ msTabs[t].at = "selected"
    /\ InsertDefaults(t)
    /\ msTabs' = [msTabs EXCEPT ![t] =
           IF @.page = "settings" THEN [@ EXCEPT !.at = "idle", !.lost = Found] ELSE Closed]
    /\ UNCHANGED <<msUsed, msLate, msPinged, msLeft>>

-----------------------------------------------------------------------------
Shown(t) == msTabs[t].page = "settings" /\ msTabs[t].at # "selected"

(* The new secret is made in the browser and lives in the form only. *)
HandleRegenerateSecret(t) ==
    /\ Shown(t)
    /\ \E s \in GenerateWebhookSecret :
           /\ msUsed' = msUsed \cup {s}
           /\ msTabs' = [msTabs EXCEPT ![t].form = s, ![t].rolled = TRUE]
    /\ UNCHANGED <<msRow, msLate, msPinged, msLeft>>

(* Every field of the form is sent, changed or not. *)
HandleSave(t) ==
    /\ Shown(t) /\ msTabs[t].at = "idle"
    /\ msTabs' = [msTabs EXCEPT ![t].at = "saving", ![t].sent = msTabs[t].form]
    /\ UNCHANGED <<msRow, msUsed, msLate, msPinged, msLeft>>

(* How a form stands once s is the secret stored. *)
Since(s, x) ==
    IF x.form = s THEN [x EXCEPT !.lost = FALSE, !.rolled = FALSE, !.stale = FALSE]
    ELSE [x EXCEPT !.stale = (x.page = "settings")]

(* PATCH: the row is inserted or overwritten with the fields given. *)
UpdateMerchantSettings(t) ==
    /\ msTabs[t].at = "saving"
    /\ msRow' = msTabs[t].sent
    /\ msTabs' = [u \in MsTabs |->
           Since(msTabs[t].sent, IF u = t THEN [msTabs[u] EXCEPT !.at = "stored"] ELSE msTabs[u])]
    /\ UNCHANGED <<msUsed, msLate, msPinged, msLeft>>

SaveEnds(t) == msTabs' = [msTabs EXCEPT ![t].at = "idle", ![t].sent = NoSecret]

(* The row read back is in the answer; the form keeps what it shows. *)
SaveAnswered(t) ==
    /\ msTabs[t].at = "stored"
    /\ SaveEnds(t)
    /\ UNCHANGED <<msRow, msUsed, msLate, msPinged, msLeft>>

(* 400 or 401: an error is shown; nothing was stored. *)
SaveRefused(t) ==
    /\ msTabs[t].at = "saving"
    /\ msLeft > 0 /\ msLeft' = msLeft - 1
    /\ SaveEnds(t)
    /\ UNCHANGED <<msRow, msUsed, msLate, msPinged>>

(* The network fails before, while or after the server acts: an error is   *)
(* shown.                                                                  *)
SaveCutOff(t) ==
    /\ msTabs[t].at \in {"saving", "stored"}
    /\ msLeft > 0 /\ msLeft' = msLeft - 1
    /\ \/ UNCHANGED msLate
       \/ msTabs[t].at = "saving" /\ msLate' = msLate \cup {msTabs[t].sent}
    /\ SaveEnds(t)
    /\ UNCHANGED <<msRow, msUsed, msPinged>>

(* A save the tab gave up is served all the same. *)
LateSave(s) ==
    /\ s \in msLate
    /\ msRow' = s
    /\ msTabs' = [u \in MsTabs |-> Since(s, msTabs[u])]
    /\ msLate' = msLate \ {s}
    /\ UNCHANGED <<msUsed, msPinged, msLeft>>

(* POST /api/merchant/settings/test-webhook signs with the secret it is    *)
(* sent and records that, whether or not the ping was delivered; a second  *)
(* ping with the same secret changes nothing here.                         *)
TestWebhook(secret) ==
    /\ secret \notin msPinged
    /\ msPinged' = msPinged \cup {secret}

(* The form's secret is sent, saved or not. *)
HandleTestWebhook(t) ==
    /\ Shown(t)
    /\ TestWebhook(msTabs[t].form)
    /\ UNCHANGED <<msRow, msUsed, msTabs, msLate, msLeft>>

SettingsNext ==
    \/ \E t \in MsTabs :
        \/ \E page \in {"settings", "other"} : LoadFinds(t, page) \/ LoadMisses(t, page)
        \/ LoadInserts(t)
        \/ HandleRegenerateSecret(t) \/ HandleSave(t) \/ UpdateMerchantSettings(t)
        \/ SaveAnswered(t) \/ SaveRefused(t) \/ SaveCutOff(t)
        \/ HandleTestWebhook(t)
    \/ \E s \in MsSecrets : LateSave(s)

SettingsSpec == SettingsInit /\ [][SettingsNext]_msVars

-----------------------------------------------------------------------------
(* The secret in an open form is the one stored, unless it was rolled and  *)
(* not stored since, another secret was saved meanwhile (from another tab, *)
(* or by a save this tab was told had failed), or the page lost the race   *)
(* to insert the first row and was given a secret nobody stored            *)
(* (merchant-settings-service.ts 88-97).  Opening a page never takes a     *)
(* secret away from another.                                               *)
ShownSecretIsStored ==
    \A t \in MsTabs :
        Shown(t) /\ msTabs[t].form # msRow =>
            msTabs[t].rolled \/ msTabs[t].stale \/ msTabs[t].lost
=============================================================================
