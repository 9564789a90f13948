---------------------------- MODULE ApiKeyVault ----------------------------
(* A merchant's API keys: the dashboard page that lists, creates, revokes   *)
(* and purges them, the route and the server actions behind it, and the     *)
(* dashboard figures the server keeps in memory.  The page changes its list *)
(* before the server answers, and falls back from the route to an action.   *)
EXTENDS Naturals, FiniteSets

CONSTANTS
    KvEnvs,          \* "live" and "test"
    KvNumbers,       \* keys of one environment
    KvOps,           \* operations under way at once
    KvLoads,         \* dashboard pages being rendered at once
    KvClicks,        \* bound: operations the merchant starts
    KvFaults         \* bound: requests refused or lost

ASSUME VaultAssumption == KvNumbers \subseteq Nat \ {0} /\ {KvClicks, KvFaults} \subseteq Nat

VARIABLES
    kvRows,          \* keys the database accepts
    kvIssued,        \* keys ever issued
    kvList,          \* keys the page lists
    kvDeleting,      \* the key whose button is disabled
    kvOps,           \* the page's operations
    kvDue,           \* a refresh of the page is asked for
    kvSnap,          \* what the refresh under way read
    kvStranded,      \* an operation ended in an uncaught error
    kvCache,         \* per environment, the figures in memory
    kvLoad,          \* per render, what it read
    kvClicks,        \* operations still to be started
    kvLeft           \* faults still to come

kvPage == <<kvList, kvDeleting, kvDue, kvSnap, kvStranded, kvClicks>>
kvDash == <<kvCache, kvLoad>>
kvVars == <<kvRows, kvIssued, kvPage, kvOps, kvDash, kvLeft>>

-----------------------------------------------------------------------------
KvIds == KvEnvs \X KvNumbers
NoKey == <<"none", 0>>
NoOp == [kind |-> "idle", via |-> "none", at |-> "none", key |-> NoKey]
NoData == [held |-> FALSE, keys |-> {}, raced |-> FALSE, failed |-> FALSE]
NoLoad == [env |-> "none", keys |-> {}, raced |-> FALSE, failed |-> FALSE]
NoSnap == {NoKey}

VaultInit ==
    /\ kvRows \in SUBSET {k \in KvIds : k[2] = 1}
    /\ kvIssued = kvRows /\ kvList = kvRows
    /\ kvDeleting = NoKey
    /\ kvOps = [o \in KvOps |-> NoOp]
    /\ kvDue = FALSE /\ kvSnap = NoSnap /\ kvStranded = FALSE
    /\ kvCache = [e \in KvEnvs |-> NoData]
    /\ kvLoad = [l \in KvLoads |-> NoLoad]
    /\ kvClicks = KvClicks /\ kvLeft = KvFaults

Begin(o, kind, key) ==
    /\ kvOps[o] = NoOp
    /\ kvClicks > 0 /\ kvClicks' = kvClicks - 1
    /\ kvOps' = [kvOps EXCEPT ![o] = [kind |-> kind, via |-> "fetch", at |-> "sent", key |-> key]]
    /\ UNCHANGED <<kvRows, kvIssued, kvDue, kvSnap, kvStranded, kvDash, kvLeft>>

(* The button waits for the operations under way; the Enter key does not.  *)
Create(o, e) ==
    /\ \E n \in KvNumbers : <<e, n>> \notin kvIssued
    /\ Begin(o, "create", <<e, 0>>)
    /\ UNCHANGED <<kvList, kvDeleting>>

Revoke(o, k) ==
    /\ k \in kvList /\ kvDeleting # k
    /\ Begin(o, "revoke", k)
    /\ kvList' = kvList \ {k}
    /\ kvDeleting' = k

RemoveAllKeys(o) ==
    /\ kvList # {}
    /\ Begin(o, "purge", NoKey)
    /\ kvList' = {}
    /\ UNCHANGED kvDeleting

-----------------------------------------------------------------------------
(* The server: the route's POST and DELETE, and the two actions.           *)
IssueApiKey(e) == CHOOSE k \in KvIds : k[1] = e /\ k \notin kvIssued

(* Renders that have read and not yet stored have read too early. *)
Overtaken ==
    [l \in KvLoads |-> IF kvLoad[l] = NoLoad THEN NoLoad ELSE [kvLoad[l] EXCEPT !.raced = TRUE]]

ServerInserts(o) ==
    /\ kvOps[o].at = "sent" /\ kvOps[o].kind = "create"
    /\ \E n \in KvNumbers : <<kvOps[o].key[1], n>> \notin kvIssued
    /\ LET k == IssueApiKey(kvOps[o].key[1]) IN
           /\ kvRows' = kvRows \cup {k}
           /\ kvIssued' = kvIssued \cup {k}
           /\ kvOps' = [kvOps EXCEPT ![o].at = "written", ![o].key = k]
    /\ kvLoad' = Overtaken
    /\ UNCHANGED <<kvPage, kvCache, kvLeft>>

ServerDeletes(o) ==
    /\ kvOps[o].at = "sent" /\ kvOps[o].kind \in {"revoke", "purge"}
    /\ kvRows' = IF kvOps[o].kind = "purge" THEN {} ELSE kvRows \ {kvOps[o].key}
    /\ kvOps' = [kvOps EXCEPT ![o].at = "written"]
    /\ kvLoad' = Overtaken
    /\ UNCHANGED <<kvIssued, kvPage, kvCache, kvLeft>>

(* Mutation: only the key's own environment is forgotten. *)
MutInvalidated(o) == {kvOps[o].key[1]}

(* The route's POST forgets the figures of the key's environment, the      *)
(* others those of both.                                                   *)
Invalidated(o) ==
    IF kvOps[o].kind = "create" /\ kvOps[o].via = "fetch" THEN {kvOps[o].key[1]} ELSE KvEnvs

ServerAnswers(o) ==
    /\ kvOps[o].at = "written"
    /\ kvCache' = [e \in KvEnvs |-> IF e \in Invalidated(o) THEN NoData ELSE kvCache[e]]
    /\ kvOps' = [kvOps EXCEPT ![o].at = "ok"]
    /\ UNCHANGED <<kvRows, kvIssued, kvPage, kvLoad, kvLeft>>

Fault(o, at) ==
    /\ kvLeft > 0 /\ kvLeft' = kvLeft - 1
    /\ kvOps' = [kvOps EXCEPT ![o].at = at]
    /\ UNCHANGED <<kvRows, kvIssued, kvPage, kvDash>>

(* No session: the route answers 401, an action throws. *)
ServerRefuses(o) ==
    kvOps[o].at = "sent" /\ Fault(o, IF kvOps[o].via = "fetch" THEN "refused" ELSE "thrown")

RequestLost(o) == kvOps[o].at = "sent" /\ Fault(o, "thrown")
AnswerLost(o) == kvOps[o].at = "ok" /\ Fault(o, "thrown")

-----------------------------------------------------------------------------
(* The page takes the answer. *)
Finish(o) == kvOps' = [kvOps EXCEPT ![o] = NoOp]

(* After a failed route call the action is tried. *)
FallBack(o) ==
    kvOps' = [kvOps EXCEPT ![o].via = "action", ![o].at = "sent",
                           ![o].key = IF kvOps[o].kind = "create" THEN <<@[1], 0>> ELSE @]

CreateAnswered(o) ==
    /\ kvOps[o].kind = "create" /\ kvOps[o].at = "ok"
    /\ kvList' = kvList \cup {kvOps[o].key}
    /\ kvDue' = TRUE
    /\ Finish(o)
    /\ UNCHANGED <<kvRows, kvIssued, kvDeleting, kvSnap, kvStranded, kvClicks, kvDash, kvLeft>>

CreateRefused(o) ==
    /\ kvOps[o].kind = "create" /\ kvOps[o].at = "refused"
    /\ Finish(o)
    /\ UNCHANGED <<kvRows, kvIssued, kvPage, kvDash, kvLeft>>

RevokeAnswered(o) ==
    /\ kvOps[o].kind = "revoke" /\ kvOps[o].at = "ok"
    /\ kvDue' = TRUE
    /\ kvDeleting' = NoKey
    /\ Finish(o)
    /\ UNCHANGED <<kvRows, kvIssued, kvList, kvSnap, kvStranded, kvClicks, kvDash, kvLeft>>

FallsBack(o) ==
    /\ kvOps[o].via = "fetch"
    /\ \/ kvOps[o].kind = "create" /\ kvOps[o].at = "thrown"
       \/ kvOps[o].kind = "revoke" /\ kvOps[o].at \in {"refused", "thrown"}
    /\ FallBack(o)
    /\ UNCHANGED <<kvRows, kvIssued, kvPage, kvDash, kvLeft>>

(* Nothing catches an action that throws: no refresh follows. *)
ActionThrows(o) ==
    /\ kvOps[o].via = "action" /\ kvOps[o].at = "thrown"
    /\ kvStranded' = TRUE
    /\ kvDeleting' = IF kvOps[o].kind = "revoke" THEN NoKey ELSE kvDeleting
    /\ Finish(o)
    /\ UNCHANGED <<kvRows, kvIssued, kvList, kvDue, kvSnap, kvClicks, kvDash, kvLeft>>

(* Mutation: a refresh only after a purge that worked. *)
MutPurgeAnswered(o) ==
    /\ kvOps[o].kind = "purge" /\ kvOps[o].at \in {"ok", "refused", "thrown"}
    /\ kvDue' = (kvDue \/ kvOps[o].at = "ok")
    /\ Finish(o)
    /\ UNCHANGED <<kvRows, kvIssued, kvList, kvDeleting, kvSnap, kvStranded, kvClicks, kvDash, kvLeft>>

(* A purge is never looked into: the page refreshes whatever came of it.   *)
PurgeAnswered(o) ==
    /\ kvOps[o].kind = "purge" /\ kvOps[o].at \in {"ok", "refused", "thrown"}
    /\ kvDue' = TRUE
    /\ Finish(o)
    /\ UNCHANGED <<kvRows, kvIssued, kvList, kvDeleting, kvSnap, kvStranded, kvClicks, kvDash, kvLeft>>

(* One refresh at a time: the page is rendered from the database, and the  *)
(* list is replaced when the answer arrives.                               *)
RefreshReads ==
    /\ kvDue /\ kvSnap = NoSnap
    /\ kvDue' = FALSE
    /\ kvSnap' = kvRows
    /\ UNCHANGED <<kvRows, kvIssued, kvList, kvDeleting, kvOps, kvStranded, kvClicks, kvDash, kvLeft>>

RefreshApplies ==
    /\ kvSnap # NoSnap
    /\ kvList' = kvSnap
    /\ kvSnap' = NoSnap
    /\ UNCHANGED <<kvRows, kvIssued, kvDeleting, kvOps, kvDue, kvStranded, kvClicks, kvDash, kvLeft>>

-----------------------------------------------------------------------------
(* The dashboard page: figures in memory are served as they are, otherwise *)
(* they are read, and stored when the reading is done.                     *)
DashboardReads(l, e) ==
    /\ kvLoad[l] = NoLoad /\ ~kvCache[e].held
    /\ kvLoad' = [kvLoad EXCEPT ![l] =
                     [env |-> e, keys |-> {k \in kvRows : k[1] = e}, raced |-> FALSE, failed |-> FALSE]]
    /\ UNCHANGED <<kvRows, kvIssued, kvPage, kvOps, kvCache, kvLeft>>

(* A query failed: the figures of an empty account, kept all the same. *)
DashboardReadFails(l, e) ==
    /\ kvLoad[l] = NoLoad /\ ~kvCache[e].held
    /\ kvLeft > 0 /\ kvLeft' = kvLeft - 1
    /\ kvLoad' = [kvLoad EXCEPT ![l] = [NoLoad EXCEPT !.env = e, !.failed = TRUE]]
    /\ UNCHANGED <<kvRows, kvIssued, kvPage, kvOps, kvCache>>

DashboardStores(l) ==
    /\ kvLoad[l] # NoLoad
    /\ kvCache' = [kvCache EXCEPT ![kvLoad[l].env] =
                      [held |-> TRUE, keys |-> kvLoad[l].keys,
                       raced |-> kvLoad[l].raced, failed |-> kvLoad[l].failed]]
    /\ kvLoad' = [kvLoad EXCEPT ![l] = NoLoad]
    /\ UNCHANGED <<kvRows, kvIssued, kvPage, kvOps, kvLeft>>

(* Thirty seconds have passed, or other merchants filled the table. *)
FiguresExpire(e) ==
    /\ kvCache[e].held
    /\ kvCache' = [kvCache EXCEPT ![e] = NoData]
    /\ UNCHANGED <<kvRows, kvIssued, kvPage, kvOps, kvLoad, kvLeft>>

VaultNext ==
    \/ \E o \in KvOps :
           \/ \E e \in KvEnvs : Create(o, e)
           \/ \E k \in KvIds : Revoke(o, k)
           \/ RemoveAllKeys(o)
           \/ ServerInserts(o) \/ ServerDeletes(o) \/ ServerAnswers(o)
           \/ ServerRefuses(o) \/ RequestLost(o) \/ AnswerLost(o)
           \/ CreateAnswered(o) \/ CreateRefused(o) \/ RevokeAnswered(o)
           \/ FallsBack(o) \/ ActionThrows(o) \/ PurgeAnswered(o)
    \/ RefreshReads \/ RefreshApplies
    \/ \E l \in KvLoads, e \in KvEnvs : DashboardReads(l, e) \/ DashboardReadFails(l, e)
    \/ \E l \in KvLoads : DashboardStores(l)
    \/ \E e \in KvEnvs : FiguresExpire(e)

VaultSpec == VaultInit /\ [][VaultNext]_kvVars

-----------------------------------------------------------------------------
(* When the page has come to rest (credential-vault-manager.tsx 115-163)   *)
(* it lists exactly the keys the gateway still accepts, however removals   *)
(* shown early, failed calls and refreshes that read before another        *)
(* operation crossed; only an action that threw leaves it wrong.           *)
QuietListIsTrue ==
    (~kvDue /\ kvSnap = NoSnap /\ ~kvStranded /\ \A o \in KvOps : kvOps[o] = NoOp)
        => kvList = kvRows

(* Figures kept in memory (dashboard-telemetry-service.ts 77-104) are those *)
(* of the database, once the operations have answered, unless the render    *)
(* that stored them was reading when a key was written, or failed to read.  *)
FiguresStaleOnlyByOverlap ==
    \A e \in KvEnvs :
        (kvCache[e].held /\ ~kvCache[e].raced /\ ~kvCache[e].failed
             /\ \A o \in KvOps : kvOps[o].at # "written")
            => kvCache[e].keys = {k \in kvRows : k[1] = e}
=============================================================================
