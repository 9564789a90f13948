------------------------------ MODULE DemoPage ------------------------------
(***************************************************************************)
(* The page of the checkout demo (public/app.js): the order form with the  *)
(* SDK snippet and the button label drawn from it, and the status panel    *)
(* with its poller.  A handler that changes the form must redraw both.     *)
(* switchCardGateway and its select are not in the page's HTML and are     *)
(* left out, so cards always go to Paymob.                                 *)
(***************************************************************************)
EXTENDS DemoServer

CONSTANTS
    Backends,     \* the demo servers; the first, "typescript", is DemoServer
    Products, Carriers, Methods,
    MaxPollErrors \* polls in a row without an answer that pause the poller; 5 in the code

VARIABLES
    form,     \* what the customer selected, and what is drawn from it
    page,     \* the status panel
    waits     \* the requests whose answers this page still waits for

pageVars == <<form, page, waits>>

ProviderOf(method) == CASE method \in {"cards", "wallet"} -> "paymob" [] OTHER -> method

(* updateCodePreview: the call the snippet shows. *)
Preview(f) == [tab |-> f.tab, product |-> f.product, provider |-> f.provider, ref |-> f.ref,
               carrier |-> IF f.method = "wallet" THEN f.carrier ELSE None]

(* updateSubmitButtonLabel *)
Label(f) == [product |-> f.product,
             text |-> CASE f.provider = "stripe" -> "stripe"
                        [] f.provider # "stripe" /\ f.method = "wallet" -> f.carrier
                        [] OTHER -> f.provider]

Redraw(f) == [f EXCEPT !.preview = Preview(f), !.label = Label(f)]

(* The page as DOMContentLoaded leaves it, served by backend b. *)
NewForm(b, r) ==
    Redraw([product |-> "pro", method |-> "cards", provider |-> "paymob", carrier |-> "vodafone",
            backend |-> b, tab |-> b, ref |-> r, preview |-> None, label |-> None])

NewPage == [at |-> "open", current |-> None, badge |-> None, polling |-> FALSE, errors |-> 0,
            shows |-> None, back |-> None]

-----------------------------------------------------------------------------
(* The form's handlers *)

SelectProduct(p) == form' = Redraw([form EXCEPT !.product = p])

WithMethod(f, m) == Redraw([f EXCEPT !.method = m, !.provider = ProviderOf(m)])

SelectPaymentMethod(m) == form' = WithMethod(form, m)

WithCarrier(f, k) == Redraw([f EXCEPT !.carrier = k])

SelectWalletCarrier(k) == form' = WithCarrier(form, k)

(* The chips fill in a method, a provider and the customer; the customer's *)
(* fields redraw.                                                          *)
ApplyTestData(m) ==
    form' = IF m = "wallet" THEN WithCarrier(WithMethod(form, m), "vodafone") ELSE WithMethod(form, m)

(* Mutation: changing the tab does not redraw the snippet. *)
MutSelectSdkTab(t) == form' = [form EXCEPT !.tab = t]

SelectSdkTab(t) == form' = [form EXCEPT !.tab = t, !.preview = Preview([form EXCEPT !.tab = t])]

SwitchBackend(b) == form' = Redraw([form EXCEPT !.backend = b, !.tab = b])

(* regenerateOrderRef, or a reference typed in: only the snippet shows it. *)
ChangeRef(r) == form' = [form EXCEPT !.ref = r, !.preview = Preview([form EXCEPT !.ref = r])]

FormNext ==
    /\ page.at = "open"
    /\ \/ \E p \in Products : SelectProduct(p)
       \/ \E m \in Methods : SelectPaymentMethod(m) \/ ApplyTestData(m)
       \/ \E k \in Carriers : SelectWalletCarrier(k)
       \/ \E b \in Backends : SelectSdkTab(b) \/ SwitchBackend(b)
       \/ \E r \in OrderRefs : ChangeRef(r)
    /\ UNCHANGED <<page, waits>>

-----------------------------------------------------------------------------
(* The status panel *)

(* A record's status on the badge; a final one stops the poller. *)
ShowStatus(pg, s) ==
    [pg EXCEPT !.badge = s, !.errors = 0, !.polling = @ /\ s \notin Final]

(* The fifth poll in a row without an answer pauses the poller.  A new     *)
(* checkout starts it again with the count as it is.                       *)
CountError(pg) ==
    LET e == IF pg.errors < MaxPollErrors THEN pg.errors + 1 ELSE pg.errors
    IN [pg EXCEPT !.errors = e, !.polling = @ /\ e < MaxPollErrors]

(* A created payment replaces the one on the panel. *)
ShowCreated(pg, p, s, action) ==
    [pg EXCEPT !.current = p, !.badge = s, !.shows = IF action = None THEN "unknown" ELSE action,
               !.polling = TRUE]

ShowSettled(pg) == [pg EXCEPT !.badge = "succeeded", !.polling = FALSE]

-----------------------------------------------------------------------------
(* What the snippet and the button say is what the button will send: every *)
(* handler that changes the selection redraws what depends on it.          *)
DrawnIsCurrent == form.preview = Preview(form) /\ form.label = Label(form)

=============================================================================
