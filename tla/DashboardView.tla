--------------------------- MODULE DashboardView ---------------------------
(* The dashboard's live/test switch and the two tables under it.  The mode *)
(* is kept in the tab, in localStorage and in a cookie; the server renders *)
(* by the cookie, the tabs of a browser share cookie and storage.  The     *)
(* request table filters the rows it was last given, the payment ledger    *)
(* those it was first given.                                               *)
EXTENDS Naturals, Sequences

CONSTANTS
    DvTabs,          \* browser tabs
    DvFilters,       \* what a row may match: a status, a rail, a search
    DvSizes,         \* rows per page; 10, 15, 25 and 50 in the code
    DvUses           \* tabs: those used; pagers: those whose tables are worked on;
                     \* data: per mode, a table's rows in order, as what they match

ASSUME ViewAssumption == DvSizes \subseteq Nat \ {0} /\ DvSizes # {}

VARIABLES
    dvCookie,        \* the mode in the cookie, or "none"
    dvStorage,       \* the mode in localStorage, or "none"
    dvBlocked,       \* localStorage throws, as in some private windows
    dvTabs,          \* the tabs
    dvUse            \* the use explored

dvVars == <<dvCookie, dvStorage, dvBlocked, dvTabs, dvUse>>

-----------------------------------------------------------------------------
(* initial: the mode its page was rendered for; mode: the one the switch   *)
(* shows; rows: the mode whose rows the table holds; due, snap: a refresh  *)
(* asked for, or rendered and on its way; crossed: another tab changed the *)
(* cookie before it was rendered; moved: initial changed since opening.    *)
ClosedTab == [at |-> "closed", table |-> "none", initial |-> "test", mode |-> "test",
              rows |-> "test", filter |-> "all", page |-> 1, size |-> 0,
              due |-> FALSE, snap |-> "none", crossed |-> FALSE, moved |-> FALSE]

ViewInit ==
    /\ dvCookie = "none" /\ dvStorage = "none"
    /\ dvBlocked \in BOOLEAN
    /\ dvTabs = [t \in DvTabs |-> ClosedTab]
    /\ dvUse \in DvUses

(* The pages read the cookie: anything but "live" is test. *)
ServedMode == IF dvCookie = "live" THEN "live" ELSE "test"

(* Tab t becomes x and the cookie c; refreshes of other tabs not rendered  *)
(* yet will be rendered for c.                                             *)
Becomes(t, x, c) ==
    /\ dvCookie' = c
    /\ dvTabs' = [u \in DvTabs |->
           IF u = t THEN x
           ELSE [dvTabs[u] EXCEPT !.crossed = @ \/ (dvTabs[u].due /\ c # dvCookie)]]

OpenPage(t, table) ==
    /\ t \in dvUse.tabs /\ dvTabs[t].at = "closed"
    /\ \E n \in DvSizes : dvTabs' = [dvTabs EXCEPT ![t] =
           [ClosedTab EXCEPT !.at = "rendered", !.table = table, !.initial = ServedMode,
                             !.mode = ServedMode, !.rows = ServedMode, !.size = n]]
    /\ UNCHANGED <<dvCookie, dvStorage, dvBlocked, dvUse>>

-----------------------------------------------------------------------------
(* EnvironmentProvider *)

Saved == IF dvStorage # "none" THEN dvStorage ELSE dvCookie

(* Mutation: the page is not rendered again for the mode found.            *)
MutSynchronised(x) ==
    IF dvBlocked \/ Saved = "none" THEN x
    ELSE [x EXCEPT !.mode = Saved, !.crossed = FALSE]

(* The effect, which runs when the page is mounted and when its initial    *)
(* mode changes: the mode saved wins, and the page is rendered for it.     *)
Synchronised(x) ==
    IF dvBlocked \/ Saved = "none" THEN x
    ELSE [x EXCEPT !.mode = Saved, !.due = @ \/ Saved # x.initial, !.crossed = FALSE]

SynchronisedCookie ==
    IF dvBlocked THEN dvCookie ELSE IF Saved = "none" THEN "test" ELSE Saved

Mount(t) ==
    /\ dvTabs[t].at = "rendered"
    /\ Becomes(t, Synchronised([dvTabs[t] EXCEPT !.at = "open"]), SynchronisedCookie)
    /\ UNCHANGED <<dvStorage, dvBlocked, dvUse>>

(* A storage that throws leaves the cookie as it is too. *)
SetMode(t, m) ==
    /\ dvTabs[t].at = "open"
    /\ dvStorage' = IF dvBlocked THEN dvStorage ELSE m
    /\ Becomes(t, [dvTabs[t] EXCEPT !.mode = m, !.due = TRUE, !.crossed = FALSE],
               IF dvBlocked THEN dvCookie ELSE m)
    /\ UNCHANGED <<dvBlocked, dvUse>>

CookieExpires ==
    /\ dvCookie # "none"
    /\ Becomes("nobody", ClosedTab, "none")
    /\ UNCHANGED <<dvStorage, dvBlocked, dvUse>>

RefreshRenders(t) ==
    /\ dvTabs[t].at = "open" /\ dvTabs[t].due /\ dvTabs[t].snap = "none"
    /\ dvTabs' = [dvTabs EXCEPT ![t].due = FALSE, ![t].snap = ServedMode]
    /\ UNCHANGED <<dvCookie, dvStorage, dvBlocked, dvUse>>

(* A refresh keeps the state of the page: the request table works on the   *)
(* new rows, the ledger copied the first ones into a state of its own.     *)
Rerendered(x) ==
    [x EXCEPT !.snap = "none", !.initial = x.snap, !.moved = @ \/ x.snap # x.initial,
              !.rows = IF x.table = "requests" THEN x.snap ELSE @]

RefreshArrives(t) ==
    /\ dvTabs[t].at = "open" /\ dvTabs[t].snap # "none"
    /\ LET x == Rerendered(dvTabs[t]) IN
           IF x.initial # dvTabs[t].initial
           THEN Becomes(t, Synchronised(x), SynchronisedCookie)
           ELSE Becomes(t, x, dvCookie)
    /\ UNCHANGED <<dvStorage, dvBlocked, dvUse>>

ClosePage(t) ==
    /\ dvTabs[t].at = "open"
    /\ dvTabs' = [dvTabs EXCEPT ![t] = ClosedTab]
    /\ UNCHANGED <<dvCookie, dvStorage, dvBlocked, dvUse>>

-----------------------------------------------------------------------------
(* The tables.  Sorting by latency reorders the rows and is left out, and  *)
(* so is the ledger's recheck of one payment: its request carries no API   *)
(* key, the route answers 401, and the list stays as it is.                *)

Filtered(x) ==
    SelectSeq(dvUse.data[x.rows], LAMBDA row : x.filter = "all" \/ x.filter = row)

TotalPages(x) ==
    LET n == (Len(Filtered(x)) + x.size - 1) \div x.size IN IF n = 0 THEN 1 ELSE n

(* Mutation: the page is not held within the pages there are.              *)
MutSafePage(x) == x.page

SafePage(x) == IF x.page > TotalPages(x) THEN TotalPages(x) ELSE x.page

PaginatedRows(x) ==
    LET start == (SafePage(x) - 1) * x.size
        end == IF start + x.size > Len(Filtered(x)) THEN Len(Filtered(x)) ELSE start + x.size
    IN SubSeq(Filtered(x), start + 1, end)

(* Both tables show their empty message, and no row, when the list they    *)
(* were last given is empty, whatever rows they hold.                      *)
TableBody(x) == IF dvUse.data[x.initial] = <<>> THEN <<>> ELSE PaginatedRows(x)

Works(t, x) ==
    /\ t \in dvUse.pagers /\ dvTabs[t].at = "open"
    /\ dvTabs' = [dvTabs EXCEPT ![t] = x]
    /\ UNCHANGED <<dvCookie, dvStorage, dvBlocked, dvUse>>

(* handleFilterChange, the search field, and the reset button with "all". *)
HandleFilterChange(t, f) == Works(t, [dvTabs[t] EXCEPT !.filter = f, !.page = 1])

(* The pagination bar is there while anything matches. *)
SetPageSize(t, n) ==
    /\ Len(Filtered(dvTabs[t])) > 0
    /\ Works(t, [dvTabs[t] EXCEPT !.size = n, !.page = 1])

NextPage(t) ==
    LET x == dvTabs[t] IN
    /\ Len(Filtered(x)) > 0 /\ SafePage(x) < TotalPages(x)
    /\ Works(t, [x EXCEPT !.page = IF @ + 1 > TotalPages(x) THEN TotalPages(x) ELSE @ + 1])

(* The page kept is stepped back, which may lie beyond the page shown. *)
PrevPage(t) ==
    LET x == dvTabs[t] IN
    /\ Len(Filtered(x)) > 0 /\ SafePage(x) > 1
    /\ Works(t, [x EXCEPT !.page = @ - 1])

ViewNext ==
    \/ \E t \in DvTabs :
           \/ \E table \in {"ledger", "requests"} : OpenPage(t, table)
           \/ Mount(t) \/ RefreshRenders(t) \/ RefreshArrives(t) \/ ClosePage(t)
           \/ \E m \in {"live", "test"} : SetMode(t, m)
           \/ \E f \in DvFilters \cup {"all"} : HandleFilterChange(t, f)
           \/ \E n \in DvSizes : SetPageSize(t, n)
           \/ (dvTabs[t].at = "open" /\ (NextPage(t) \/ PrevPage(t)))
    \/ CookieExpires

ViewSpec == ViewInit /\ [][ViewNext]_dvVars

-----------------------------------------------------------------------------
(* A tab at rest (environment-context.tsx 33-65) shows the mode its page    *)
(* was rendered for, whatever cookie and storage said and however tabs and  *)
(* refreshes crossed, unless another tab changed the cookie between this    *)
(* tab's switch and its rendering, or storage is blocked.  Its rows are of  *)
(* that mode too, except in a ledger whose mode changed since it was opened. *)
QuietTabAgrees ==
    \A t \in DvTabs :
        LET x == dvTabs[t] IN
        x.at = "open" /\ ~x.due /\ x.snap = "none" /\ ~dvBlocked =>
            /\ x.mode # x.initial => x.crossed
            /\ x.rows # x.initial => x.table = "ledger" /\ x.moved

(* While a table holds rows and some match the filter, a page with rows is *)
(* shown, also when a switch of mode left a page beyond those there are    *)
(* (live-request-telemetry-table.tsx 129-135), except in a payment ledger  *)
(* that holds rows of another mode than its page's, which has none: there  *)
(* the empty message hides the rows that match, and the pagination bar     *)
(* still counts them (authoritative-transaction-ledger-table.tsx 53, 258). *)
PageIsNeverBlank ==
    \A t \in DvTabs :
        LET x == dvTabs[t] IN
        /\ x.at = "open" /\ dvUse.data[x.rows] # <<>>
        /\ Len(Filtered(x)) > 0 /\ TableBody(x) = <<>>
        => /\ x.table = "ledger" /\ x.moved
           /\ x.rows # x.initial /\ dvUse.data[x.initial] = <<>>
=============================================================================
