-------------------------------- MODULE Payments --------------------------------
(***************************************************************************)
(* The payment service (payment/pkg/service): payments are created, paid   *)
(* at NANO, the payment gateway, whose answer comes back by the shopper's  *)
(* browser and by a webhook, and refunded in parts.  A handler takes one   *)
(* step per call to its database or to the gateway.                        *)
(*                                                                         *)
(* Cancels hold the payment's row lock from their read to their commit,    *)
(* with the gateway's refund in between.  The other handlers read, change  *)
(* and save the payment with no lock, all columns at once.                 *)
(***************************************************************************)
EXTENDS Integers

CONSTANTS
    Order,
    Payment,        \* ids the payment sequence can hand out
    OrderOf,        \* the order a payment with this id would be made for
    Bypass,         \* ids of payments that a manager records by hand
    Amount,         \* the total of every order
    CancelKey,      \* Idempotency-Key values of cancel requests
    NoKey,          \* ""
    Client,         \* goroutines serving create and cancel requests
    Callback,       \* goroutines serving NANO's return and webhook requests
    NoPayment,      \* the payment of an idle handler
    Faults          \* "refused": a call fails, "lost": only its reply, "crash"

Card == Payment \ Bypass

Handler == Client \cup Callback

ASSUME PaymentsAssumption ==
    /\ OrderOf \in [Payment -> Order]
    /\ Bypass \subseteq Payment
    /\ Client \cap Callback = {}
    /\ Amount \in Nat \ {0}
    /\ NoKey \notin CancelKey
    /\ NoPayment \notin Payment
    /\ Faults \subseteq {"refused", "lost", "crash"}

VARIABLES
    payments,       \* the payments table
    outbox,         \* every event that was committed to payment_outbox
    alerted,        \* payments named by a payment.callback_rejected alert
    handlers,       \* what each handler is doing and has read
    opened,         \* NANO: payments with a card window,
    charged,        \* payments it took the money for,
    returned,       \* and how much of it was given back
    approvals,      \* answers on their way: the card was charged,
    declines,       \* or it was declined
    unrecorded,     \* history: an answer of NANO was lost before the commit,
    replayed        \* or a payment that had succeeded was made to succeed again

serviceVars == <<payments, outbox, alerted>>
nanoVars == <<opened, charged, returned>>
answers == <<approvals, declines>>
history == <<unrecorded, replayed>>
vars == <<serviceVars, handlers, nanoVars, answers, history>>

Status == {"none", "requires_payment", "succeeded", "failed", "canceled"}

Row == [status : Status, canceled : 0..Amount, key : CancelKey \cup {NoKey}]

NoRow == [status |-> "none", canceled |-> 0, key |-> NoKey]

\* What the order service and operations are told.
Succeeded(m) == [subject |-> "payment.succeeded", payment |-> m, remaining |-> Amount]
Canceled(m, n) == [subject |-> "payment.canceled", payment |-> m, remaining |-> n]

Event == [subject : {"payment.succeeded", "payment.canceled"}, payment : Payment,
          remaining : 0..Amount]

Step == {"idle", "insert", "reload", "saveSucceeded", "saveFailed", "refund", "commitCancel"}

\* row is the handler's copy; amount and key are those of a cancel.
Job == [step : Step, payment : Payment \cup {NoPayment}, row : Row,
        amount : 0..Amount, key : CancelKey \cup {NoKey}]

IdleJob == [step |-> "idle", payment |-> NoPayment, row |-> NoRow, amount |-> 0, key |-> NoKey]

Idle(h) == handlers[h].step = "idle"

At(h, step) == handlers[h].step = step

Goto(h, step) == handlers' = [handlers EXCEPT ![h].step = step]

Return(h) == handlers' = [handlers EXCEPT ![h] = IdleJob]

\* A handler starts on payment m with the row as it is now.
Begin(h, step, m) ==
    /\ Idle(h)
    /\ handlers' = [handlers EXCEPT
                       ![h] = [step |-> step, payment |-> m, row |-> payments[m],
                               amount |-> 0, key |-> NoKey]]

Remaining(row) == Amount - row.canceled

\* SELECT ... FOR UPDATE: a cancel owns the row until it commits or fails.
Locked(m) == \E h \in Handler : handlers[h].payment = m /\ handlers[h].step \in {"refund", "commitCancel"}

\* The partial unique indexes: one open and one succeeded payment per order.
Unique(m, status) ==
    status \in {"requires_payment", "succeeded"} =>
        \A n \in Payment \ {m} : OrderOf[n] = OrderOf[m] => payments[n].status # status

\* Every column of the copy is written.
Save(m, row, events) ==
    /\ payments' = [payments EXCEPT ![m] = row]
    /\ outbox' = outbox \cup events

NothingSaved == UNCHANGED <<payments, outbox>>

Init ==
    /\ payments = [m \in Payment |-> NoRow]
    /\ outbox = {} /\ alerted = {}
    /\ handlers = [h \in Handler |-> IdleJob]
    /\ opened = {} /\ charged = {} /\ returned = [m \in Payment |-> 0]
    /\ approvals = {} /\ declines = {}
    /\ unrecorded = {} /\ replayed = {}

-----------------------------------------------------------------------------
(* CreatePayment for a pending order.                                      *)

\* reuseOpenPaymentForOrder: an order with an open or a succeeded payment gets
\* no other one.  Then an id is drawn from the sequence.
BeginCreate(h, m) ==
    /\ payments[m] = NoRow
    /\ \A g \in Handler : handlers[g].payment # m
    /\ Unique(m, "requires_payment") /\ Unique(m, "succeeded")
    /\ Begin(h, "insert", m)
    /\ UNCHANGED <<serviceVars, nanoVars, answers, history>>

\* A create that lost a race answers with the payment that won it.
Insert(h) ==
    LET m == handlers[h].payment
        status == IF m \in Bypass THEN "succeeded" ELSE "requires_payment"
    IN  /\ At(h, "insert")
        /\ \/ /\ Unique(m, status)
              /\ Save(m, [NoRow EXCEPT !.status = status],
                      IF m \in Bypass THEN {Succeeded(m)} ELSE {})
           \/ /\ ~Unique(m, status) \/ "refused" \in Faults
              /\ NothingSaved
        /\ Return(h)
        /\ UNCHANGED <<alerted, nanoVars, answers, history>>

\* A create retried under its Idempotency-Key finds a succeeded payment, and
\* completes it again, reading it again.
BeginRetry(h, m) ==
    /\ payments[m].status = "succeeded"
    /\ Begin(h, "reload", m)
    /\ replayed' = replayed \cup {m}
    /\ UNCHANGED <<serviceVars, nanoVars, answers, unrecorded>>

Reload(h) ==
    /\ At(h, "reload")
    /\ handlers' = [handlers EXCEPT ![h].step = "saveSucceeded",
                                    ![h].row = payments[handlers[h].payment]]
    /\ UNCHANGED <<serviceVars, nanoVars, answers, history>>

-----------------------------------------------------------------------------
(* HandleNanoResult: NANO's answer, by the browser's return and by webhook. *)

\* An answer may come again, by the other way or because the page is reloaded.
TakeApproval(m) == approvals' = approvals \/ approvals' = approvals \ {m}
TakeDecline(m) == declines' = declines \/ declines' = declines \ {m}

\* ReceiveApproval gone wrong: an answer that is refused raises no alert.
ReceiveSilently(h, m) ==
    /\ m \in approvals
    /\ TakeApproval(m)
    /\ \/ Begin(h, "saveSucceeded", m)
       \/ "refused" \in Faults /\ Idle(h) /\ UNCHANGED handlers
    /\ replayed' = IF payments[m].status \in {"succeeded", "canceled"}
                     THEN replayed \cup {m} ELSE replayed
    /\ UNCHANGED <<serviceVars, nanoVars, declines, unrecorded>>

\* An approval that cannot be verified or looked up is refused, with an alert.
\* Any other makes the payment succeed, whatever its status.
ReceiveApproval(h, m) ==
    /\ m \in approvals
    /\ TakeApproval(m)
    /\ \/ Begin(h, "saveSucceeded", m) /\ UNCHANGED alerted
       \/ "refused" \in Faults /\ Idle(h) /\ UNCHANGED handlers /\ alerted' = alerted \cup {m}
    /\ replayed' = IF payments[m].status \in {"succeeded", "canceled"}
                     THEN replayed \cup {m} ELSE replayed
    /\ UNCHANGED <<payments, outbox, nanoVars, declines, unrecorded>>

\* ReceiveDecline gone wrong: any answer counts as an approval.
ReceiveAnyCode(h, m) ==
    /\ m \in declines
    /\ TakeDecline(m)
    /\ Begin(h, "saveSucceeded", m)
    /\ UNCHANGED <<serviceVars, nanoVars, approvals, history>>

\* A decline is ignored once the payment succeeded.
ReceiveDecline(h, m) ==
    /\ m \in declines
    /\ TakeDecline(m)
    /\ IF payments[m].status = "succeeded"
         THEN Idle(h) /\ UNCHANGED handlers
         ELSE Begin(h, "saveFailed", m)
    /\ UNCHANGED <<serviceVars, nanoVars, approvals, history>>

\* persistSucceeded: the payment and its event in one transaction.  An approval
\* that cannot be saved is refused with an alert.
SaveSucceeded(h) ==
    LET m == handlers[h].payment
    IN  /\ At(h, "saveSucceeded")
        /\ ~Locked(m)
        /\ \/ /\ Unique(m, "succeeded")
              /\ Save(m, [handlers[h].row EXCEPT !.status = "succeeded"], {Succeeded(m)})
              /\ UNCHANGED alerted
           \/ /\ ~Unique(m, "succeeded") \/ "refused" \in Faults
              /\ NothingSaved
              /\ alerted' = IF h \in Callback THEN alerted \cup {m} ELSE alerted
        /\ Return(h)
        /\ UNCHANGED <<nanoVars, answers, history>>

SaveFailed(h) ==
    LET m == handlers[h].payment
    IN  /\ At(h, "saveFailed")
        /\ ~Locked(m)
        /\ \/ Save(m, [handlers[h].row EXCEPT !.status = "failed"], {})
           \/ "refused" \in Faults /\ NothingSaved
        /\ Return(h)
        /\ UNCHANGED <<alerted, nanoVars, answers, history>>

-----------------------------------------------------------------------------
(* CancelPayment: a refund, under the row's lock.                          *)

\* A cancel of n units of m under key k: the gateway is asked first, unless the
\* payment never went through it.
StartCancel(h, m, k, n) ==
    /\ Idle(h)
    /\ handlers' = [handlers EXCEPT
                       ![h] = [step |-> IF m \in Bypass THEN "commitCancel" ELSE "refund",
                               payment |-> m, row |-> payments[m], amount |-> n, key |-> k]]
    /\ UNCHANGED <<serviceVars, nanoVars, answers, history>>

\* BeginCancel gone wrong: the row is read without FOR UPDATE.
BeginCancelUnlocked(h, m, k, n) ==
    /\ ~(k # NoKey /\ payments[m].key = k)
    /\ payments[m].status = "succeeded"
    /\ n \in 1..Remaining(payments[m])
    /\ StartCancel(h, m, k, n)

\* BeginCancel gone wrong: the amount is not compared with what remains.
BeginCancelUnbounded(h, m, k, n) ==
    /\ ~Locked(m)
    /\ ~(k # NoKey /\ payments[m].key = k)
    /\ payments[m].status = "succeeded"
    /\ StartCancel(h, m, k, n)

\* n units, or all that remain, if the payment is cancelable; the request that
\* was applied last changes nothing when it comes again.
BeginCancel(h, m, k, n) ==
    /\ ~Locked(m)
    /\ ~(k # NoKey /\ payments[m].key = k)
    /\ payments[m].status = "succeeded"
    /\ n \in 1..Remaining(payments[m])
    /\ StartCancel(h, m, k, n)

\* reconcileCanceledAmount: what NANO says remains wins over what was asked for,
\* clamped to what the row can record.
Reconciled(before, nanoRemaining) ==
    LET amount == before - nanoRemaining
    IN  IF amount < 1 THEN 1 ELSE IF amount > before THEN before ELSE amount

\* CallRefund gone wrong: an answer other than 0000 counts as a confirmation.
CallRefundUnconfirmed(h) ==
    LET m == handlers[h].payment
        n == handlers[h].amount
        left == Amount - returned[m] - n
    IN  /\ At(h, "refund")
        /\ returned' = IF left >= 0 THEN [returned EXCEPT ![m] = @ + n] ELSE returned
        /\ Goto(h, "commitCancel")
        /\ UNCHANGED <<serviceVars, opened, charged, answers, history>>

\* NANO gives back exactly what it is asked for, if it still holds that much.
\* Its answer need not say what remains.
CallRefund(h) ==
    LET m == handlers[h].payment
        n == handlers[h].amount
        left == Amount - returned[m] - n
    IN  /\ At(h, "refund")
        /\ \/ /\ left >= 0
              /\ returned' = [returned EXCEPT ![m] = @ + n]
              /\ \/ \E amount \in {n, Reconciled(Remaining(handlers[h].row), left)} :
                        handlers' = [handlers EXCEPT ![h].step = "commitCancel",
                                                     ![h].amount = amount]
                    /\ UNCHANGED unrecorded
                 \/ "lost" \in Faults /\ Return(h) /\ unrecorded' = unrecorded \cup {m}
           \/ /\ left < 0 \/ "refused" \in Faults
              /\ Return(h)
              /\ UNCHANGED <<returned, unrecorded>>
        /\ UNCHANGED <<serviceVars, opened, charged, answers, replayed>>

\* ApplyCancel: a cancel that takes the rest ends the payment, any other leaves
\* it succeeded; an unkeyed cancel keeps the last key.
Applied(job) ==
    LET canceled == job.row.canceled + job.amount
    IN  [status   |-> IF canceled < Amount THEN job.row.status ELSE "canceled",
         canceled |-> canceled,
         key      |-> IF job.key = NoKey THEN job.row.key ELSE job.key]

\* CommitCancel gone wrong: the event does not say what remains.
CommitCancelTellingNothing(h) ==
    LET m == handlers[h].payment
    IN  /\ At(h, "commitCancel")
        /\ Save(m, Applied(handlers[h]), {Canceled(m, 0)})
        /\ Return(h)
        /\ UNCHANGED <<alerted, nanoVars, answers, history>>

CommitCancel(h) ==
    LET m == handlers[h].payment
        row == Applied(handlers[h])
    IN  /\ At(h, "commitCancel")
        /\ \/ Save(m, row, {Canceled(m, Remaining(row))}) /\ UNCHANGED unrecorded
           \/ "refused" \in Faults /\ NothingSaved /\ unrecorded' = unrecorded \cup {m}
        /\ Return(h)
        /\ UNCHANGED <<alerted, nanoVars, answers, replayed>>

-----------------------------------------------------------------------------
(* NANO and the shopper's browser.                                         *)

\* nanoCheckout opens a card window for an open payment, in any number of tabs.
OpenCheckout(m) ==
    /\ m \in Card
    /\ payments[m].status = "requires_payment"
    /\ opened' = opened \cup {m}
    /\ UNCHANGED <<serviceVars, handlers, charged, returned, answers, history>>

Charge(m) ==
    /\ m \in opened \ charged
    /\ charged' = charged \cup {m}
    /\ approvals' = approvals \cup {m}
    /\ UNCHANGED <<serviceVars, handlers, opened, returned, declines, history>>

\* A try in another tab may be declined after the one that succeeded.
Decline(m) ==
    /\ m \in opened
    /\ declines' = declines \cup {m}
    /\ UNCHANGED <<serviceVars, handlers, nanoVars, approvals, history>>

\* The process stops: its transaction is rolled back, what it knew is lost.
Crash(h) ==
    /\ "crash" \in Faults
    /\ ~Idle(h)
    /\ unrecorded' = IF handlers[h].step \in {"saveSucceeded", "commitCancel"}
                       THEN unrecorded \cup {handlers[h].payment}
                       ELSE unrecorded
    /\ Return(h)
    /\ UNCHANGED <<serviceVars, nanoVars, answers, replayed>>

\* The calls a handler makes once it has begun.
Continue(h) ==
    \/ Insert(h) \/ Reload(h) \/ SaveSucceeded(h) \/ SaveFailed(h)
    \/ CallRefund(h) \/ CommitCancel(h)

Next ==
    \/ \E h \in Handler : Continue(h) \/ Crash(h)
    \/ \E h \in Client, m \in Payment :
          \/ BeginCreate(h, m) \/ BeginRetry(h, m)
          \/ \E k \in CancelKey \cup {NoKey}, n \in 1..Amount : BeginCancel(h, m, k, n)
    \/ \E h \in Callback, m \in Payment : ReceiveApproval(h, m) \/ ReceiveDecline(h, m)
    \/ \E m \in Payment : OpenCheckout(m) \/ Charge(m) \/ Decline(m)

Spec == Init /\ [][Next]_vars

-----------------------------------------------------------------------------
\* The type invariant.
TypeOK ==
    /\ payments \in [Payment -> Row]
    /\ outbox \subseteq Event
    /\ alerted \subseteq Card
    /\ handlers \in [Handler -> Job]
    /\ opened \subseteq Card /\ charged \subseteq opened
    /\ returned \in [Payment -> 0..Amount]
    /\ approvals \subseteq charged /\ declines \subseteq opened
    /\ unrecorded \cup replayed \subseteq Payment

\* service.go:458-459: no money is on the books as refunded that was never given
\* back, whatever stale copies are saved and wherever a cancel stops.
RefundsWereMade == \A m \in Card : payments[m].canceled <= returned[m]

\* A card payment succeeded only if the card was charged, also when a retried
\* create completes a payment whose status changed under it.
SucceededWasCharged ==
    \A m \in Card : payments[m].status \in {"succeeded", "canceled"} => m \in charged

\* The books claim nothing, neither a charge nor a refund, that NANO did not do.
BooksAreReal == RefundsWereMade /\ SucceededWasCharged

\* The order service cancels a paid order for a payment.canceled with nothing
\* remaining: then all the money went back, and an order that should hear of a
\* full refund does.
FullRefundIsTold ==
    \A m \in Card :
        /\ Canceled(m, 0) \in outbox => returned[m] = Amount
        /\ payments[m].status = "canceled" => Canceled(m, 0) \in outbox

\* service.go:462-464: once NANO has given money back, only a lost answer or a crash
\* before the commit leaves that off the books - or a success that is saved again,
\* from a copy that was read before the refund.
OnlyLostAnswersLoseRefunds ==
    \A m \in Card \ (unrecorded \cup replayed) :
        ~Locked(m) => payments[m].canceled = returned[m]

\* payment-service.md:60-62: a refund the gateway confirmed is never discarded but
\* by a crash before the commit.  A success saved from an older copy discards it.
RefundsAreRecorded ==
    \A m \in Card \ unrecorded : ~Locked(m) => payments[m].canceled = returned[m]

\* dupli1#232: money that NANO took and still holds is on the books as succeeded,
\* or somebody was alerted, once its answer was handled.
HeldMoneyIsOnTheBooks ==
    \A m \in charged \ unrecorded :
        /\ m \notin approvals
        /\ \A h \in Handler : handlers[h].payment # m
        /\ returned[m] < Amount
        => payments[m].status = "succeeded" \/ m \in alerted
=============================================================================
