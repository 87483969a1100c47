---------------------------- MODULE OrderLifecycle ----------------------------
(***************************************************************************)
(* The life of an order after the customer asked for it: the handlers of   *)
(* order/pkg/service that create, pay, ship, cancel, expire, refund-cancel *)
(* and fulfil it, running concurrently, each one step per call it makes to *)
(* its database or to the product service.  Between two steps a handler    *)
(* keeps what it read, which may be stale by the time it is used.          *)
(*                                                                         *)
(* Stock is Inventory: reserve, commit and release are its operations.     *)
(* The payment service is the environment: it captures and refunds         *)
(* payments, and its events reach the handlers late, repeatedly, in either *)
(* order; payment.succeeded is republished, payment.canceled is not.       *)
(***************************************************************************)
EXTENDS Inventory

CONSTANTS
    HttpHandler,        \* goroutines of all replicas: those serving requests,
    SucceededConsumer,  \* one per replica for payment.succeeded,
    CanceledConsumer,   \* one per replica for payment.canceled,
    ExpiryWorker,       \* and one per replica for unpaid orders
    Payment,        \* payment ids
    OrderOf,        \* the order each payment was made for
    Mispaid,        \* payments whose event carries another amount than the total
    ItemsOf,        \* the priced lines of each order
    Quantities,     \* quantities staff set stock to while orders are open
    StaffCancels,   \* whether staff cancel orders (PUT /orders/{id}/status)
    Faults,         \* which of the faults below may happen, at any step
    NoReservation,  \* ""
    NoPayment,      \* ""
    NoOrder         \* the order of an idle handler

Handler == HttpHandler \cup SucceededConsumer \cup CanceledConsumer \cup ExpiryWorker

\* A call fails without effect; a call to the product service takes effect but its
\* reply is lost; so does a COMMIT of the database; a handler dies between two steps.
FaultKind == {"refused", "lost", "unacked", "crash"}

ASSUME OrderAssumption ==
    /\ OrderOf \in [Payment -> Order]
    /\ Mispaid \subseteq Payment
    /\ ItemsOf \in [Order -> Items]
    /\ Quantities \subseteq 0..MaxQuantity
    /\ StaffCancels \in BOOLEAN
    /\ Faults \subseteq FaultKind
    /\ NoReservation \notin ReservationId
    /\ NoPayment \notin Payment
    /\ NoOrder \notin Order

VARIABLES
    orders,         \* the orders table
    handlers,       \* what each handler is doing and has read
    captured,       \* payments whose payment.succeeded is being delivered
    refunded,       \* payments refunded in full
    refundEvents    \* payment.canceled events not consumed yet

orderVars == <<orders, handlers, captured, refunded, refundEvents>>
vars == <<stock, reservations, sold, orderVars>>

Status == {"none", "pending", "paid", "in_transit", "fulfilled", "canceled"}

Row == [status : Status,
        reservation : ReservationId \cup {NoReservation},
        payment : Payment \cup {NoPayment}]

NoRow == [status |-> "none", reservation |-> NoReservation, payment |-> NoPayment]

Step == {"idle", "reserve", "save",
         "reinstate", "reread", "persist", "reconcile", "reinstateAgain", "persistAgain",
         "commit", "shipIfPaid", "saveCanceled", "saveFulfilled", "release"}

\* row is the handler's copy of the order; rsv a reservation the handler took
\* and has not saved, or the one it is about to release.
Job == [step : Step, order : Order \cup {NoOrder}, payment : Payment \cup {NoPayment},
        row : Row, rsv : ReservationId \cup {NoReservation}]

Idle(h) == handlers[h].step = "idle"

At(h, step) == handlers[h].step = step

Goto(h, step) == handlers' = [handlers EXCEPT ![h].step = step]

\* The same, having read the row again.
GotoWith(h, step, row) == handlers' = [handlers EXCEPT ![h].step = step, ![h].row = row]

\* The same, with a reservation to give back.
GotoRelease(h, r) == handlers' = [handlers EXCEPT ![h].step = "release", ![h].rsv = r]

IdleJob == [step |-> "idle", order |-> NoOrder, payment |-> NoPayment,
            row |-> NoRow, rsv |-> NoReservation]

\* The handler returns; what it had read is gone.
Return(h) == handlers' = [handlers EXCEPT ![h] = IdleJob]

Begin(h, step, o, m) ==
    /\ Idle(h)
    /\ handlers' = [handlers EXCEPT
                       ![h] = [step |-> step, order |-> o, payment |-> m,
                               row |-> orders[o], rsv |-> NoReservation]]

\* Return, but give back the reservation taken for nothing first.
Abandon(h) == IF handlers[h].rsv = NoReservation THEN Return(h) ELSE Goto(h, "release")

Write(o, row) == orders' = [orders EXCEPT ![o] = row]

StockUnchanged == UNCHANGED inventoryVars
PaymentsUnchanged == UNCHANGED <<captured, refunded, refundEvents>>

Init ==
    /\ InventoryInit
    /\ orders = [o \in Order |-> NoRow]
    /\ handlers = [h \in Handler |-> IdleJob]
    /\ captured = {} /\ refunded = {} /\ refundEvents = {}

-----------------------------------------------------------------------------
(* Calls to the product service, shared by the handlers.                   *)

\* AfterReserve gone wrong: a reservation taken for a wrong amount is forgotten.
AfterReserveForgetting(h, r) ==
    IF At(h, "reinstate") /\ handlers[h].payment \in Mispaid
      THEN Return(h)
      ELSE handlers' = [handlers EXCEPT ![h] =
               [@ EXCEPT !.rsv = r,
                         !.row = [handlers[h].row EXCEPT !.reservation = r],
                         !.step = CASE At(h, "reserve") -> "save"
                                    [] At(h, "reinstateAgain") -> "persistAgain"
                                    [] At(h, "reinstate") -> "persist"]]

\* AfterReserve gone wrong: only a pending order has its amount compared.
AfterReserveUnchecked(h, r) ==
    handlers' = [handlers EXCEPT ![h] =
        [@ EXCEPT !.rsv = r,
                  !.row = [handlers[h].row EXCEPT !.reservation = r],
                  !.step = CASE At(h, "reserve") -> "save"
                             [] At(h, "reinstateAgain") -> "persistAgain"
                             [] At(h, "reinstate") -> "persist"]]

\* What follows a successful Reserve.  On reinstatement the copy becomes
\* pending with the new reservation; a wrong amount is noticed only then.
AfterReserve(h, r) ==
    handlers' = [handlers EXCEPT ![h] =
        [@ EXCEPT !.rsv = r,
                  !.row = [handlers[h].row EXCEPT !.reservation = r],
                  !.step = CASE At(h, "reserve") -> "save"
                             [] At(h, "reinstateAgain") -> "persistAgain"
                             [] At(h, "reinstate") ->
                                   IF handlers[h].payment \in Mispaid THEN "release"
                                                                      ELSE "persist"]]

Reserves(h) == At(h, "reserve") \/ At(h, "reinstate") \/ At(h, "reinstateAgain")

CallReserve(h) ==
    /\ Reserves(h)
    /\ UNCHANGED orders /\ PaymentsUnchanged
    /\ \/ \E r \in ReservationId :
              /\ Reserve(r, handlers[h].order, ItemsOf[handlers[h].order])
              /\ \/ AfterReserve(h, r)
                 \/ "lost" \in Faults /\ Return(h)
       \/ /\ "refused" \in Faults \/ ~HasStockFor(ItemsOf[handlers[h].order])
          /\ StockUnchanged
          /\ Return(h)

\* CallRelease gone wrong: the reservation is closed, its units stay reserved.
ReleaseStatusOnly(h) ==
    /\ At(h, "release")
    /\ IF IsActive(handlers[h].rsv)
         THEN Close(handlers[h].rsv, "released") /\ UNCHANGED <<stock, sold>>
         ELSE StockUnchanged
    /\ Return(h)
    /\ UNCHANGED orders /\ PaymentsUnchanged

\* A release that fails, or finds the reservation closed, is only logged.
CallRelease(h) ==
    /\ At(h, "release")
    /\ IF IsActive(handlers[h].rsv)
         THEN \/ ReleaseReservation(handlers[h].rsv)
              \/ "refused" \in Faults /\ StockUnchanged
         ELSE StockUnchanged
    /\ Return(h)
    /\ UNCHANGED orders /\ PaymentsUnchanged

\* Shipping: committing again what is already committed counts as success.
CallCommit(h) ==
    LET r == handlers[h].row.reservation
    IN  /\ At(h, "commit")
        /\ UNCHANGED orders /\ PaymentsUnchanged
        /\ \/ /\ CommitReservation(r)
              /\ \/ Goto(h, "shipIfPaid")
                 \/ "lost" \in Faults /\ Return(h)
           \/ /\ reservations[r].status = "committed"
              /\ StockUnchanged
              /\ Goto(h, "shipIfPaid")
           \/ /\ reservations[r].status = "released" \/ "refused" \in Faults
              /\ StockUnchanged
              /\ Return(h)

-----------------------------------------------------------------------------
(* CreateOrder: NextOrderID, Reserve, SaveWithOutbox.                      *)

\* Order ids come from a sequence: none is ever used for a second order.
BeginCreate(h, o) ==
    /\ orders[o] = NoRow
    /\ \A g \in Handler : handlers[g].order # o
    /\ \A r \in DOMAIN reservations : reservations[r].order # o
    /\ Begin(h, "reserve", o, NoPayment)
    /\ StockUnchanged /\ UNCHANGED orders /\ PaymentsUnchanged

\* An error of the save gives the reservation back, whatever the database did.
SaveCreated(h) ==
    /\ At(h, "save")
    /\ StockUnchanged /\ PaymentsUnchanged
    /\ \/ /\ Write(handlers[h].order,
                   [status |-> "pending", reservation |-> handlers[h].rsv,
                    payment |-> NoPayment])
          /\ Return(h) \/ ("unacked" \in Faults /\ Goto(h, "release"))
       \/ /\ "refused" \in Faults
          /\ UNCHANGED orders
          /\ Goto(h, "release")

-----------------------------------------------------------------------------
(* MarkOrderPaid, for a delivery of payment.succeeded of payment m.        *)

\* AlreadyPaidBy gone wrong: an order is done with a payment only while paid.
PaidNowBy(row, m) == row.payment = m /\ row.status = "paid"

AlreadyPaidBy(row, m) == row.payment = m /\ row.status # "pending"

\* BeginPay gone wrong: a payment that comes after the expiry is dropped.
PayPendingOnly(h, m) ==
    LET row == orders[OrderOf[m]]
    IN  /\ m \in captured
        /\ ~AlreadyPaidBy(row, m)
        /\ row.status = "pending" /\ m \notin Mispaid /\ Begin(h, "reread", OrderOf[m], m)
        /\ StockUnchanged /\ UNCHANGED orders /\ PaymentsUnchanged

\* The first read.  Deliveries that change nothing are left out: a replay, an
\* order paid otherwise or shipped, a wrong amount for a pending order.
BeginPay(h, m) ==
    LET row == orders[OrderOf[m]]
    IN  /\ m \in captured
        /\ ~AlreadyPaidBy(row, m)
        /\ \/ row.status = "pending" /\ m \notin Mispaid /\ Begin(h, "reread", OrderOf[m], m)
           \/ row.status = "canceled" /\ Begin(h, "reinstate", OrderOf[m], m)
        /\ StockUnchanged /\ UNCHANGED orders /\ PaymentsUnchanged

\* The second read of an order that was pending: expiry may have canceled it.
Reread(h) ==
    LET fresh == orders[handlers[h].order]
    IN  /\ At(h, "reread")
        /\ \/ IF AlreadyPaidBy(fresh, handlers[h].payment) THEN Return(h)
              ELSE IF fresh.status = "canceled"
                THEN GotoWith(h, "reinstate", fresh)
              ELSE Goto(h, "persist")
           \/ "refused" \in Faults /\ Return(h)
        /\ StockUnchanged /\ UNCHANGED orders /\ PaymentsUnchanged

\* SavePaidIfPending, or SavePaidIfCanceled when a reservation was taken.
PayableStatus(h) == IF handlers[h].rsv = NoReservation THEN "pending" ELSE "canceled"

SavePaid(h) ==
    Write(handlers[h].order,
          [status |-> "paid", reservation |-> handlers[h].row.reservation,
           payment |-> handlers[h].payment])

\* Persist gone wrong: the UPDATE lost its WHERE status = ... clause.
PersistBlindly(h) ==
    /\ At(h, "persist")
    /\ StockUnchanged /\ PaymentsUnchanged
    /\ SavePaid(h) /\ Return(h)

Persist(h) ==
    /\ At(h, "persist")
    /\ StockUnchanged /\ PaymentsUnchanged
    /\ \/ IF orders[handlers[h].order].status = PayableStatus(h)
            THEN SavePaid(h) /\ (Return(h) \/ ("unacked" \in Faults /\ Abandon(h)))
            ELSE UNCHANGED orders /\ Goto(h, "reconcile")
       \/ "refused" \in Faults /\ UNCHANGED orders /\ Abandon(h)

\* The status changed under the handler: look once more.  A canceled order is
\* reinstated again, with another reservation.
Reconcile(h) ==
    LET fresh == orders[handlers[h].order]
    IN  /\ At(h, "reconcile")
        /\ \/ IF fresh.status = "canceled" /\ fresh.payment # handlers[h].payment
                THEN GotoWith(h, "reinstateAgain", fresh)
                ELSE Abandon(h)
           \/ "refused" \in Faults /\ Abandon(h)
        /\ StockUnchanged /\ UNCHANGED orders /\ PaymentsUnchanged

PersistAgain(h) ==
    /\ At(h, "persistAgain")
    /\ StockUnchanged /\ PaymentsUnchanged
    /\ \/ /\ orders[handlers[h].order].status = "canceled"
          /\ SavePaid(h)
          /\ Return(h) \/ ("unacked" \in Faults /\ Abandon(h))
       \/ /\ orders[handlers[h].order].status # "canceled" \/ "refused" \in Faults
          /\ UNCHANGED orders
          /\ Abandon(h)

-----------------------------------------------------------------------------
(* ShipOrder, CancelOrder and FulfillOrder, called by staff.               *)

\* BeginShip gone wrong: the row is updated without committing the reservation.
ShipUncommitted(h, o) ==
    /\ orders[o].status = "paid"
    /\ Begin(h, "shipIfPaid", o, NoPayment)
    /\ StockUnchanged /\ UNCHANGED orders /\ PaymentsUnchanged

BeginShip(h, o) ==
    /\ orders[o].status = "paid"
    /\ Begin(h, "commit", o, NoPayment)
    /\ StockUnchanged /\ UNCHANGED orders /\ PaymentsUnchanged

\* The UPDATE sets the status and the shipment, not the reservation it committed.
ShipIfPaid(h) ==
    /\ At(h, "shipIfPaid")
    /\ \/ /\ orders[handlers[h].order].status = "paid"
          /\ Write(handlers[h].order,
                   [orders[handlers[h].order] EXCEPT !.status = "in_transit"])
       \/ /\ orders[handlers[h].order].status # "paid" \/ "refused" \in Faults
          /\ UNCHANGED orders
    /\ Return(h)
    /\ StockUnchanged /\ PaymentsUnchanged

BeginCancel(h, o) ==
    /\ StaffCancels
    /\ orders[o].status \in {"pending", "paid"}
    /\ Begin(h, "saveCanceled", o, NoPayment)
    /\ StockUnchanged /\ UNCHANGED orders /\ PaymentsUnchanged

\* SaveWithOutbox writes every column of the copy, whatever the row says now.
SaveCanceled(h) ==
    /\ At(h, "saveCanceled")
    /\ StockUnchanged /\ PaymentsUnchanged
    /\ \/ /\ Write(handlers[h].order, [handlers[h].row EXCEPT !.status = "canceled"])
          /\ GotoRelease(h, handlers[h].row.reservation)
       \/ "refused" \in Faults /\ UNCHANGED orders /\ Return(h)

BeginFulfil(h, o) ==
    /\ orders[o].status = "in_transit"
    /\ Begin(h, "saveFulfilled", o, NoPayment)
    /\ StockUnchanged /\ UNCHANGED orders /\ PaymentsUnchanged

SaveFulfilled(h) ==
    /\ At(h, "saveFulfilled")
    /\ \/ Write(handlers[h].order, [handlers[h].row EXCEPT !.status = "fulfilled"])
       \/ "refused" \in Faults /\ UNCHANGED orders
    /\ Return(h)
    /\ StockUnchanged /\ PaymentsUnchanged

-----------------------------------------------------------------------------
(* The expiry worker and the payment.canceled consumer.  Their first read  *)
(* only skips work: the UPDATE repeats its test and returns the row.       *)

CancelRow(h, o) ==
    /\ Idle(h)
    /\ Write(o, [orders[o] EXCEPT !.status = "canceled"])
    /\ handlers' = [handlers EXCEPT
                       ![h] = [step |-> "release", order |-> o, payment |-> NoPayment,
                               row |-> NoRow, rsv |-> orders[o].reservation]]
    /\ StockUnchanged

\* Expire gone wrong: the UPDATE does not repeat the test of the first read.
ExpireUnguarded(h, o) ==
    /\ orders[o].status \in {"pending", "paid"}
    /\ CancelRow(h, o)
    /\ PaymentsUnchanged

\* The payment window of a pending order may have passed at any moment.
Expire(h, o) ==
    /\ orders[o].status = "pending"
    /\ CancelRow(h, o)
    /\ PaymentsUnchanged

\* CancelForRefund gone wrong: an order of this payment, paid or shipped since.
CancelAnyForRefund(h, m) ==
    LET row == orders[OrderOf[m]]
    IN  /\ m \in refundEvents
        /\ Idle(h)
        /\ IF row.payment = m
             THEN CancelRow(h, OrderOf[m])
             ELSE StockUnchanged /\ UNCHANGED <<orders, handlers>>
        /\ refundEvents' = refundEvents \ {m}
        /\ UNCHANGED <<captured, refunded>>

\* CancelForRefund gone wrong: an order is canceled only until it is paid.
CancelPendingForRefund(h, m) ==
    LET row == orders[OrderOf[m]]
    IN  /\ m \in refundEvents
        /\ Idle(h)
        /\ IF row.status = "pending" /\ row.payment = m
             THEN CancelRow(h, OrderOf[m])
             ELSE StockUnchanged /\ UNCHANGED <<orders, handlers>>
        /\ refundEvents' = refundEvents \ {m}
        /\ UNCHANGED <<captured, refunded>>

\* Only a paid order of this payment; any other delivery is consumed in vain.
CancelForRefund(h, m) ==
    LET row == orders[OrderOf[m]]
    IN  /\ m \in refundEvents
        /\ Idle(h)
        /\ IF row.status = "paid" /\ row.payment = m
             THEN CancelRow(h, OrderOf[m])
             ELSE StockUnchanged /\ UNCHANGED <<orders, handlers>>
        /\ \/ refundEvents' = refundEvents \ {m}
           \/ UNCHANGED refundEvents           \* the outbox may publish twice
        /\ UNCHANGED <<captured, refunded>>

-----------------------------------------------------------------------------
(* The environment.                                                        *)

Capture(m) ==
    /\ orders[OrderOf[m]] # NoRow
    /\ captured' = captured \cup {m}
    /\ StockUnchanged /\ UNCHANGED <<orders, handlers, refunded, refundEvents>>

Refund(m) ==
    /\ m \in captured \ refunded
    /\ refunded' = refunded \cup {m}
    /\ refundEvents' = refundEvents \cup {m}
    /\ StockUnchanged /\ UNCHANGED <<orders, handlers, captured>>

\* Core NATS delivers at most once.
LoseRefundEvent(m) ==
    /\ "lost" \in Faults
    /\ m \in refundEvents
    /\ refundEvents' = refundEvents \ {m}
    /\ StockUnchanged /\ UNCHANGED <<orders, handlers, captured, refunded>>

\* A replica stops, or the request's context ends.
Crash(h) ==
    /\ "crash" \in Faults
    /\ ~Idle(h)
    /\ Return(h)
    /\ StockUnchanged /\ UNCHANGED orders /\ PaymentsUnchanged

\* Meanwhile staff may set the quantities.
Restock(s) ==
    /\ \E q \in Quantities : UpsertItem(s, q)
    /\ UNCHANGED orderVars

\* The calls a handler makes once it has begun.
Continue(h) ==
    \/ CallReserve(h) \/ CallRelease(h) \/ CallCommit(h)
    \/ SaveCreated(h)
    \/ Reread(h) \/ Persist(h) \/ Reconcile(h) \/ PersistAgain(h)
    \/ ShipIfPaid(h) \/ SaveCanceled(h) \/ SaveFulfilled(h)

Next ==
    \/ \E h \in Handler : Continue(h) \/ Crash(h)
    \/ \E h \in HttpHandler, o \in Order :
          BeginCreate(h, o) \/ BeginShip(h, o) \/ BeginCancel(h, o) \/ BeginFulfil(h, o)
    \/ \E h \in ExpiryWorker, o \in Order : Expire(h, o)
    \/ \E h \in SucceededConsumer, m \in Payment : BeginPay(h, m)
    \/ \E h \in CanceledConsumer, m \in Payment : CancelForRefund(h, m)
    \/ \E m \in Payment : Capture(m) \/ Refund(m) \/ LoseRefundEvent(m)
    \/ \E s \in Sku : Restock(s)

Spec == Init /\ [][Next]_vars

-----------------------------------------------------------------------------
\* The type invariant.
TypeOK ==
    /\ InventoryTypeOK
    /\ orders \in [Order -> Row]
    /\ handlers \in [Handler -> Job]
    /\ captured \subseteq Payment
    /\ refunded \subseteq captured
    /\ refundEvents \subseteq refunded

\* A customer who may still pay, or has paid, has the goods put aside: the
\* reservation such an order names was not released, and is only committed by
\* a shipment of a paid order.  Expiry, refund and staff cancels release it in a
\* later step than the one that writes canceled, late payments reinstate the
\* order in between, and stale copies are written back.
OpenOrderHasStock ==
    \A o \in Order :
        LET row == orders[o]
        IN  /\ row.status = "pending" => IsActive(row.reservation)
            /\ row.status = "paid" =>
                  /\ row.reservation \in DOMAIN reservations
                  /\ reservations[row.reservation].status # "released"

\* Stock moves only by the operations of the product service, so everything
\* proved of Inventory holds with these handlers as its clients.
UsesInventory == [][InventoryNext]_inventoryVars

\* An order that carries a payment was paid the full amount by it.
PaidByItsPayment ==
    \A o \in Order :
        orders[o].payment # NoPayment =>
            /\ orders[o].payment \in captured \ Mispaid
            /\ OrderOf[orders[o].payment] = o

\* payment-service.md:15-21, in_transit and fulfilled: the stock is committed.
ShippedStockIsCommitted ==
    \A o \in Order :
        orders[o].status \in {"in_transit", "fulfilled"} =>
            reservations[orders[o].reservation].status = "committed"

\* One order takes its units out of stock once, whatever is repeated or raced.
ShippedOnce ==
    \A r, q \in DOMAIN reservations :
        /\ reservations[r].order = reservations[q].order
        /\ reservations[r].status = "committed"
        /\ reservations[q].status = "committed"
        => r = q

Quiescent == \A h \in Handler : Idle(h)

\* Once no handler runs, stock is put aside only for orders that can still ship:
\* every reservation taken for a late or repeated payment was used or given back.
NoStockLeak ==
    Quiescent =>
        \A r \in DOMAIN reservations :
            IsActive(r) =>
                LET row == orders[reservations[r].order]
                IN  row.reservation = r /\ row.status \in {"pending", "paid"}

\* Reservations end up as their orders did: committed for what was shipped, once,
\* and given back by all others.
StockFollowsOrders == ShippedStockIsCommitted /\ ShippedOnce /\ NoStockLeak

\* What left the warehouse stays shipped: the only way on from in_transit is
\* fulfilled (order-v1.yaml:195-198).
ShippedStaysShipped ==
    [][\A o \in Order :
         /\ orders[o].status = "in_transit" => orders'[o].status \in {"in_transit", "fulfilled"}
         /\ orders[o].status = "fulfilled" => orders'[o].status = "fulfilled"]_orders

\* A paid order is canceled only for a refund of its own payment (when staff do
\* not cancel): expiry and events about other payments cannot undo it.
OnlyRefundUndoesPayment ==
    [][\A o \in Order :
         orders[o].status = "paid" /\ orders'[o].status = "canceled" =>
            orders[o].payment \in refunded]_orders

\* An order that carries a payment and left pending is done with that payment: no
\* further delivery of the same payment.succeeded pays it again (service.go:244-250).
ReplayIsNoOp ==
    [][\A o \in Order, m \in Payment :
         orders[o].payment = m /\ orders[o].status \notin {"pending", "paid"} =>
            ~(orders'[o].status = "paid" /\ orders'[o].payment = m)]_orders

\* A canceled order stays canceled, unless it was the expiry worker that canceled
\* it (order.go:192-194); stated for systems where that worker does not run.
StaffCancelIsFinal ==
    [][\A o \in Order :
         orders[o].status = "canceled" => orders'[o].status = "canceled"]_orders

-----------------------------------------------------------------------------
\* Handlers run on, payment.succeeded is republished until the order took it,
\* and payment.canceled reaches a consumer.  Nobody must pay, ship or cancel.
Fairness ==
    /\ \A h \in Handler : WF_vars(Continue(h))
    /\ \A m \in Payment :
          /\ SF_vars(\E h \in SucceededConsumer : BeginPay(h, m))
          /\ SF_vars(\E h \in CanceledConsumer : CancelForRefund(h, m))

FairSpec == Spec /\ Fairness

\* A captured payment of the right amount ends up on its order, also when the
\* order expired in the meantime (as long as the goods can be reserved again).
CapturedIsApplied ==
    \A m \in Payment \ Mispaid :
        m \in captured ~> orders[OrderOf[m]].payment = m

\* A refund that is announced after its order was paid takes the order out of the
\* queue of orders to ship.
RefundStopsPaidOrder ==
    \A m \in Payment :
        LET row == orders[OrderOf[m]]
            queued == row.status = "paid" /\ row.payment = m
        IN  m \in refundEvents /\ queued ~> ~queued

\* A refunded order does not stay in the queue of orders to ship, whichever of
\* its two events is handled first.
RefundStopsShipping ==
    \A m \in Payment :
        m \in refunded ~>
            ~(orders[OrderOf[m]].status = "paid" /\ orders[OrderOf[m]].payment = m)
=============================================================================
