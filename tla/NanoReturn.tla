------------------------------ MODULE NanoReturn ------------------------------
(* The answers of the card gateway NANO for one payment: how they are verified *)
(* and applied (payment/pkg/service/nano_callback.go, HandleNanoResult), and   *)
(* what the shopper who comes back from the card window is told                *)
(* (payment/pkg/handler/http.go).  Payments has the rows, the events and the   *)
(* refunds; this module has the windows, the reasons and the pages.            *)
(*                                                                             *)
(* The shopper may open the window several times.  NANO answers each through   *)
(* the browser ("return") and server to server ("webhook"), each any number of *)
(* times and in any order.                                                     *)
EXTENDS Naturals, FiniteSets

CONSTANTS Window,       \* times the card window is opened
          Job           \* answers that are handled at the same time

VARIABLES status,       \* the payment's row
          window,       \* per window: what NANO did, nobody knows of it yet
          fresh,        \* windows whose binding in the receiveUrl is still valid
          job,          \* the answers that are being handled
          page,         \* per window: what the shopper was told last
          recorded,     \* windows whose charge the row was saved for
          alerted,      \* windows an alert was raised for
          answered      \* history: windows a handled answer of which said "approved"

vars == <<status, window, fresh, job, page, recorded, alerted, answered>>

Source == {"return", "webhook"}
Page == {"none", "paid", "declined", "verify_failed", "amount_mismatch", "checkout_failed"}
NoJob == [step |-> "idle"]
JobSet == {NoJob} \cup
    [step : {"check", "save"}, window : Window, source : Source, signed : BOOLEAN,
     row : {"none", "requires_payment", "succeeded", "failed"}]

TypeOK ==
    /\ status \in {"requires_payment", "succeeded", "failed"}
    /\ window \in [Window -> {"closed", "open", "charged", "declined"}]
    /\ fresh \subseteq Window
    /\ job \in [Job -> JobSet]
    /\ page \in [Window -> Page]
    /\ recorded \cup alerted \cup answered \subseteq {w \in Window : window[w] = "charged"}
    /\ status = "succeeded" => recorded # {}

Init ==
    /\ status = "requires_payment"
    /\ window = [w \in Window |-> "closed"] /\ fresh = {}
    /\ job = [j \in Job |-> NoJob]
    /\ page = [w \in Window |-> "none"]
    /\ recorded = {} /\ alerted = {} /\ answered = {}

-----------------------------------------------------------------------------
(* The shopper, NANO and time *)

\* The receiveUrl of the request carries the binding.
BuildRequest(w) == fresh' = fresh \cup {w}

\* nanoCheckout sends the signed request, whose receiveUrl is bound to the
\* payment, its amount and the time; only while the payment is open.
OpenWindow(w) ==
    /\ window[w] = "closed"
    /\ IF status = "requires_payment"
       THEN /\ window' = [window EXCEPT ![w] = "open"] /\ BuildRequest(w)
            /\ UNCHANGED page
       ELSE /\ page' = [page EXCEPT ![w] = "checkout_failed"]
            /\ UNCHANGED <<window, fresh>>
    /\ UNCHANGED <<status, job, recorded, alerted, answered>>

\* NANO answers with an empty page or an error three times: back to the shop.
WindowFails(w) ==
    /\ window[w] = "closed" /\ status = "requires_payment"
    /\ page' = [page EXCEPT ![w] = "checkout_failed"]
    /\ UNCHANGED <<status, window, fresh, job, recorded, alerted, answered>>

Decide(w, result) ==
    /\ window[w] = "open"
    /\ window' = [window EXCEPT ![w] = result]
    /\ UNCHANGED <<status, fresh, job, page, recorded, alerted, answered>>

\* nanoReturnMACTTL, 20 minutes, is over.
BindingExpires(w) ==
    /\ w \in fresh
    /\ fresh' = fresh \ {w}
    /\ UNCHANGED <<status, window, job, page, recorded, alerted, answered>>

-----------------------------------------------------------------------------
(* One answer *)

NanoApproved(w) == window[w] = "charged"

\* Gone wrong: the page is chosen by what went wrong on our side.
ReasonByCause(w, reason) ==
    IF reason \in {"verify_failed", "amount_mismatch", "persist_failed"} /\ NanoApproved(w)
    THEN "verify_failed" ELSE "declined"

\* nanoReturnReason: who was charged is never told to try again.  "unknown_payment"
\* stands for "shop_mismatch", "not_nano_payment" and "lookup_failed" as well:
\* nothing but the words of the alert tells them apart.
NanoReturnReason(w, reason) ==
    IF ~NanoApproved(w) THEN "declined"
    ELSE IF reason = "amount_mismatch" THEN "amount_mismatch" ELSE "verify_failed"

\* Only the browser is shown a page; the webhook gets a code.
Tell(source, w, what) ==
    page' = IF source = "return" THEN [page EXCEPT ![w] = what] ELSE page

\* Gone wrong: there is an alert only for a payment that was found.
AlertIfKnown(w, reason) ==
    alerted' = IF NanoApproved(w) /\ reason # "unknown_payment"
               THEN alerted \cup {w} ELSE alerted

\* nanoReject: an alert whenever NANO had approved.  It is published at once,
\* and logged when that fails.
Alert(w, reason) == alerted' = IF NanoApproved(w) THEN alerted \cup {w} ELSE alerted

Reject(source, w, reason) ==
    /\ Alert(w, reason)
    /\ Tell(source, w, NanoReturnReason(w, reason))
    /\ answered' = IF NanoApproved(w) THEN answered \cup {w} ELSE answered

\* An answer that names no payment, another shop, another provider or another
\* amount, or whose payment cannot be read.
RefuseAnswer(w, source, reason) ==
    /\ window[w] \in {"charged", "declined"}
    /\ Reject(source, w, reason)
    /\ UNCHANGED <<status, window, fresh, job, recorded>>

\* HandleNanoResult reads the row; signed: the answer carries NANO's own hash.
ReceiveAnswer(j, w, source, signed) ==
    /\ job[j] = NoJob /\ window[w] \in {"charged", "declined"}
    /\ job' = [job EXCEPT ![j] = [step |-> "check", window |-> w, source |-> source,
                                  signed |-> signed, row |-> status]]
    /\ UNCHANGED <<status, window, fresh, page, recorded, alerted, answered>>

Ends(j) == job' = [job EXCEPT ![j] = NoJob]

\* Gone wrong: a decline is applied to whatever was read.
DeclineAnyway(j) ==
    LET w == job[j].window IN
    /\ job[j].step = "check" /\ ~NanoApproved(w)
    /\ job' = [job EXCEPT ![j].step = "save"]
    /\ UNCHANGED page

\* A decline of a payment that has succeeded changes nothing, and the shopper is
\* shown the payment.
CheckDecline(j) ==
    LET w == job[j].window IN
    /\ job[j].step = "check" /\ ~NanoApproved(w)
    /\ IF job[j].row = "succeeded"
       THEN Ends(j) /\ Tell(job[j].source, w, "paid")
       ELSE job' = [job EXCEPT ![j].step = "save"] /\ UNCHANGED page

\* The hash of the answer, or the binding in the receiveUrl, which only the
\* browser brings back and which expires.
Verified(j) ==
    \/ job[j].signed
    \/ job[j].source = "return" /\ job[j].window \in fresh

CheckApproval(j) ==
    LET w == job[j].window IN
    /\ job[j].step = "check" /\ NanoApproved(w)
    /\ IF Verified(j)
       THEN /\ job' = [job EXCEPT ![j].step = "save"]
            /\ UNCHANGED <<page, alerted, answered>>
       ELSE Ends(j) /\ Reject(job[j].source, w, "verify_failed")
    /\ UNCHANGED <<status, window, fresh, recorded>>

\* The row as it was read, with the new status: MarkFailed, MarkSucceeded.
SaveDecline(j) ==
    LET w == job[j].window IN
    /\ job[j].step = "save" /\ ~NanoApproved(w)
    /\ status' = "failed"
    /\ Tell(job[j].source, w, "declined") /\ Ends(j)
    /\ UNCHANGED <<window, fresh, recorded, alerted, answered>>

SaveApproval(j) ==
    LET w == job[j].window IN
    /\ job[j].step = "save" /\ NanoApproved(w)
    /\ status' = "succeeded" /\ recorded' = recorded \cup {w}
    /\ answered' = answered \cup {w}
    /\ Tell(job[j].source, w, "paid") /\ Ends(j)
    /\ UNCHANGED <<window, fresh, alerted>>

\* The database refuses the save.
SaveFails(j) ==
    LET w == job[j].window IN
    /\ job[j].step = "save"
    /\ Reject(job[j].source, w, "persist_failed") /\ Ends(j)
    /\ UNCHANGED <<status, window, fresh, recorded>>

\* The process stops; NANO or the browser may call again.
Crash(j) ==
    /\ job[j] # NoJob
    /\ Ends(j)
    /\ UNCHANGED <<status, window, fresh, page, recorded, alerted, answered>>

Next ==
    \/ \E w \in Window :
        \/ OpenWindow(w) \/ WindowFails(w) \/ BindingExpires(w)
        \/ Decide(w, "charged") \/ Decide(w, "declined")
        \/ \E source \in Source :
            \/ \E reason \in {"unknown_payment", "amount_mismatch"} :
                  RefuseAnswer(w, source, reason)
            \/ \E j \in Job, signed \in BOOLEAN : ReceiveAnswer(j, w, source, signed)
    \/ \E j \in Job :
        \/ CheckDecline(j) /\ UNCHANGED <<status, window, fresh, recorded, alerted, answered>>
        \/ CheckApproval(j) \/ SaveDecline(j) \/ SaveApproval(j) \/ SaveFails(j) \/ Crash(j)

Spec == Init /\ [][Next]_vars

-----------------------------------------------------------------------------
(* Properties *)

\* A charged card never goes unnoticed: once an answer that says "approved" has
\* been handled, the payment was saved as paid for that window, or an alert for
\* it was raised, whatever the answer lacked and whatever failed.
EveryChargeIsNoticed == answered \subseteq recorded \cup alerted

\* nanoReturnReason: a shopper whose card was charged in a window is not told,
\* by any of its answers, that they may pay again.
ChargedIsNotInvitedBack ==
    \A w \in Window : page[w] = "declined" => window[w] = "declined"

\* A late decline of another window does not undo a payment: a paid row becomes
\* failed, and its shopper is invited to pay again, only over a decline that
\* read the row before it was paid.
PaidOutlivesDeclinesStep ==
    (status = "succeeded" /\ status' # "succeeded")
    => \E j \in Job : job[j] # NoJob /\ job'[j] = NoJob /\ job[j].row # "succeeded"

PaidOutlivesDeclines == [][PaidOutlivesDeclinesStep]_vars

-----------------------------------------------------------------------------
(* The inductive invariant of the proofs *)

\* NANO has decided about a window that an answer is handled for, and a payment that
\* was paid when it was read is saved only with another charge.
JobsHaveAnswers ==
    \A j \in Job : job[j] # NoJob =>
        /\ window[job[j].window] \in {"charged", "declined"}
        /\ job[j].step = "save" /\ job[j].row = "succeeded" => NanoApproved(job[j].window)

NanoInv == TypeOK /\ JobsHaveAnswers /\ EveryChargeIsNoticed /\ ChargedIsNotInvitedBack
=============================================================================
