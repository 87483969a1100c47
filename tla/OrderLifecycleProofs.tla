------------------------- MODULE OrderLifecycleProofs -------------------------
(***************************************************************************)
(* Theorems about OrderLifecycle, for any number of orders, payments,      *)
(* handlers and reservations and any combination of the faults.  An open   *)
(* order keeps its stock because of who may know a reservation: one that a *)
(* handler has taken and not saved is known to nobody else, and one that a *)
(* handler is about to release is named by no order that is still open.    *)
(* Then: whose payment an order carries, and how its status may move, when  *)
(* only the handlers of the payment events, the shipping staff and the      *)
(* expiry worker change it.                                                 *)
(***************************************************************************)
EXTENDS OrderLifecycle, InventoryProofs

\* What a handler has at each step of its work.
JobOK(job) ==
    /\ job \in Job
    /\ job.step = "idle" => job = IdleJob
    /\ job.step # "idle" => job.order \in Order
    /\ job.step = "reread" => job.rsv = NoReservation
    /\ job.step \in {"save", "persistAgain"} => job.rsv # NoReservation
    /\ job.step \in {"save", "persist", "persistAgain"} =>
          job.rsv \in {NoReservation, job.row.reservation}

JobsOK == \A h \in Handler : JobOK(handlers[h])

\* A reservation that is written down anywhere was made for that order.
Refers(r, o) ==
    r # NoReservation => r \in DOMAIN reservations /\ reservations[r].order = o

ReferencesOK ==
    /\ \A o \in Order : Refers(orders[o].reservation, o)
    /\ \A h \in Handler : /\ Refers(handlers[h].rsv, handlers[h].order)
                          /\ Refers(handlers[h].row.reservation, handlers[h].order)

\* A reservation taken and not saved is active and known to its handler alone.
Holding(h) ==
    /\ handlers[h].step \in {"save", "persist", "reconcile", "reinstateAgain", "persistAgain"}
    /\ handlers[h].rsv # NoReservation

HeldOK ==
    \A h \in Handler : Holding(h) =>
        /\ IsActive(handlers[h].rsv)
        /\ \A o \in Order : orders[o].reservation # handlers[h].rsv
        /\ \A g \in Handler \ {h} : /\ handlers[g].rsv # handlers[h].rsv
                                    /\ handlers[g].row.reservation # handlers[h].rsv

\* What is about to be released belongs to no open order.
ReleaseOK ==
    \A h \in Handler, o \in Order :
        At(h, "release") /\ orders[o].reservation = handlers[h].rsv =>
            orders[o].status \notin {"pending", "paid"}

\* An order is created once, by a handler that works on it alone.
CreateOK ==
    \A h \in Handler : handlers[h].step \in {"reserve", "save"} =>
        /\ orders[handlers[h].order] = NoRow
        /\ \A g \in Handler \ {h} : handlers[g].order # handlers[h].order

\* Every other handler found its order in the table; what a payment read of a
\* pending order is still so while it is pending; what is shipped is not pending.
StartedOK ==
    \A h \in Handler :
        LET job == handlers[h]
            row == orders[handlers[h].order]
        IN  /\ job.step \notin {"idle", "reserve", "save", "release"} => row.status # "none"
            /\ job.step = "commit" => row.status # "pending"
            /\ /\ job.step \in {"reread", "persist"}
               /\ job.rsv = NoReservation
               /\ row.status = "pending"
               => job.row.reservation = row.reservation

StockInv ==
    /\ TypeOK /\ JobsOK /\ ReferencesOK
    /\ HeldOK /\ ReleaseOK /\ CreateOK /\ StartedOK
    /\ OpenOrderHasStock

-----------------------------------------------------------------------------
(* Types.                                                                  *)

\* Every step leaves the stock to one operation of Inventory.
LEMMA StepUsesInventory ==
    ASSUME TypeOK, JobsOK, [Next]_vars
    PROVE  [InventoryNext]_inventoryVars
<1> USE OrderAssumption, InventoryAssumption
<1>1. ASSUME NEW h \in Handler, CallReserve(h)
      PROVE  [InventoryNext]_inventoryVars
  <2>1. handlers[h].order \in Order
    BY <1>1 DEF CallReserve, Reserves, At, JobsOK, JobOK
  <2>2. ItemsOf[handlers[h].order] \in Items
    BY <2>1
  <2> QED
    BY <1>1, <2>1, <2>2 DEF CallReserve, InventoryNext, StockUnchanged
<1>2. ASSUME NEW h \in Handler, CallRelease(h)
      PROVE  [InventoryNext]_inventoryVars
  BY <1>2 DEF CallRelease, InventoryNext, StockUnchanged, IsActive, TypeOK, InventoryTypeOK
<1>3. ASSUME NEW h \in Handler, CallCommit(h)
      PROVE  [InventoryNext]_inventoryVars
  BY <1>3 DEF CallCommit, CommitReservation, InventoryNext, StockUnchanged, IsActive, TypeOK,
              InventoryTypeOK
<1>4. ASSUME NEW s \in Sku, Restock(s)
      PROVE  [InventoryNext]_inventoryVars
  BY <1>4 DEF Restock, InventoryNext
<1>5. ASSUME NEW h \in Handler,
             \/ SaveCreated(h) \/ Reread(h) \/ Persist(h) \/ Reconcile(h) \/ PersistAgain(h)
             \/ ShipIfPaid(h) \/ SaveCanceled(h) \/ SaveFulfilled(h) \/ Crash(h)
      PROVE  UNCHANGED inventoryVars
  BY <1>5 DEF SaveCreated, Reread, Persist, Reconcile, PersistAgain, ShipIfPaid, SaveCanceled,
              SaveFulfilled, Crash, StockUnchanged
<1>6. ASSUME NEW h \in Handler, NEW o \in Order,
             \/ BeginCreate(h, o) \/ BeginShip(h, o) \/ BeginCancel(h, o) \/ BeginFulfil(h, o)
             \/ Expire(h, o)
      PROVE  UNCHANGED inventoryVars
  BY <1>6 DEF BeginCreate, BeginShip, BeginCancel, BeginFulfil, Expire, CancelRow, StockUnchanged
<1>7. ASSUME NEW h \in Handler, NEW m \in Payment, BeginPay(h, m) \/ CancelForRefund(h, m)
      PROVE  UNCHANGED inventoryVars
  BY <1>7 DEF BeginPay, CancelForRefund, CancelRow, StockUnchanged
<1>8. ASSUME NEW m \in Payment, Capture(m) \/ Refund(m) \/ LoseRefundEvent(m)
      PROVE  UNCHANGED inventoryVars
  BY <1>8 DEF Capture, Refund, LoseRefundEvent, StockUnchanged
<1>9. CASE UNCHANGED vars
  BY <1>9 DEF vars, inventoryVars
<1> QED
  BY <1>1, <1>2, <1>3, <1>4, <1>5, <1>6, <1>7, <1>8, <1>9 DEF Next, Continue, Handler

LEMMA RowTypes ==
    ASSUME NEW row \in Row
    PROVE  /\ row = [status |-> row.status, reservation |-> row.reservation,
                     payment |-> row.payment]
           /\ row.status \in Status
           /\ row.reservation \in ReservationId \cup {NoReservation}
           /\ row.payment \in Payment \cup {NoPayment}
           /\ \A st \in Status : [row EXCEPT !.status = st] \in Row
           /\ \A r \in ReservationId : [row EXCEPT !.reservation = r] \in Row
  BY DEF Row

LEMMA WriteTypes ==
    ASSUME orders \in [Order -> Row], NEW o \in Order, NEW row \in Row, Write(o, row)
    PROVE  orders' \in [Order -> Row]
  BY DEF Write

\* One handler changes its job at a time.
LEMMA ChangeJob ==
    ASSUME handlers \in [Handler -> Job], JobsOK, NEW h \in Handler, NEW job, JobOK(job),
           handlers' = [handlers EXCEPT ![h] = job]
    PROVE  handlers' \in [Handler -> Job] /\ JobsOK'
<1>1. /\ handlers'[h] = job
      /\ \A g \in Handler \ {h} : handlers'[g] = handlers[g]
      /\ handlers' \in [Handler -> Job]
  BY DEF JobOK
<1>2. ASSUME NEW g \in Handler
      PROVE  JobOK(handlers[g])'
  <2>1. JobOK(handlers'[g])
    BY <1>1 DEF JobsOK
  <2> QED
    BY <2>1 DEF JobOK
<1> QED
  BY <1>1, <1>2 DEF JobsOK

LEMMA IdleJobOK == JobOK(IdleJob)
  BY DEF JobOK, IdleJob, Job, Step, Row, Status, NoRow

LEMMA ReturnTypes ==
    ASSUME handlers \in [Handler -> Job], JobsOK, NEW h \in Handler, Return(h)
    PROVE  handlers' \in [Handler -> Job] /\ JobsOK'
  BY IdleJobOK, ChangeJob DEF Return

LEMMA GotoTypes ==
    ASSUME handlers \in [Handler -> Job], JobsOK, NEW h \in Handler, ~Idle(h),
           NEW step \in {"release", "shipIfPaid", "reconcile", "persist"},
           step = "persist" => handlers[h].rsv = NoReservation,
           Goto(h, step)
    PROVE  handlers' \in [Handler -> Job] /\ JobsOK'
<1>1. JobOK(handlers[h])
  BY DEF JobsOK
<1>2. JobOK([handlers[h] EXCEPT !.step = step])
  BY <1>1 DEF JobOK, Job, Idle, Step
<1> QED
  BY <1>2, ChangeJob DEF Goto

LEMMA AbandonTypes ==
    ASSUME handlers \in [Handler -> Job], JobsOK, NEW h \in Handler, ~Idle(h), Abandon(h)
    PROVE  handlers' \in [Handler -> Job] /\ JobsOK'
<1>1. CASE Return(h)
  BY <1>1, ReturnTypes
<1>2. CASE Goto(h, "release")
  <2> QED
    BY <1>2, GotoTypes
<1> QED
  BY <1>1, <1>2 DEF Abandon

LEMMA BeginTypes ==
    ASSUME handlers \in [Handler -> Job], JobsOK, orders \in [Order -> Row],
           NEW h \in Handler, NEW o \in Order, NEW m \in Payment \cup {NoPayment},
           NEW step \in Step \ {"idle", "save", "persist", "persistAgain"},
           Begin(h, step, o, m)
    PROVE  handlers' \in [Handler -> Job] /\ JobsOK'
<1>1. JobOK([step |-> step, order |-> o, payment |-> m, row |-> orders[o],
             rsv |-> NoReservation])
  BY DEF JobOK, Job
<1> QED
  BY <1>1, ChangeJob DEF Begin

LEMMA RereadTypes ==
    ASSUME handlers \in [Handler -> Job], JobsOK, NEW h \in Handler, NEW row \in Row, ~Idle(h),
           NEW step \in {"reinstate", "reinstateAgain"},
           GotoWith(h, step, row)
    PROVE  handlers' \in [Handler -> Job] /\ JobsOK'
<1>1. JobOK(handlers[h])
  BY DEF JobsOK
<1>2. JobOK([handlers[h] EXCEPT !.step = step, !.row = row])
  BY <1>1 DEF JobOK, Job, Step, Idle
<1> QED
  BY <1>2, ChangeJob DEF GotoWith

LEMMA CancelRowTypes ==
    ASSUME handlers \in [Handler -> Job], JobsOK, orders \in [Order -> Row],
           NEW h \in Handler, NEW o \in Order, CancelRow(h, o)
    PROVE  handlers' \in [Handler -> Job] /\ JobsOK' /\ orders' \in [Order -> Row]
<1>1. orders[o] \in Row /\ "canceled" \in Status
  BY DEF Status
<1>2. [orders[o] EXCEPT !.status = "canceled"] \in Row
  BY <1>1, RowTypes
<1> DEFINE job == [step |-> "release", order |-> o, payment |-> NoPayment, row |-> NoRow,
                   rsv |-> orders[o].reservation]
<1>3. orders[o].reservation \in ReservationId \cup {NoReservation} /\ NoRow \in Row
  BY <1>1, RowTypes DEF NoRow, Row, Status
<1>4. JobOK(job)
  BY <1>3 DEF JobOK, Job, Step
<1>5. handlers' = [handlers EXCEPT ![h] = job]
  BY DEF CancelRow
<1>6. handlers' \in [Handler -> Job] /\ JobsOK'
  BY <1>4, <1>5, ChangeJob
<1> QED
  BY <1>2, <1>6, WriteTypes DEF CancelRow

LEMMA AfterReserveTypes ==
    ASSUME handlers \in [Handler -> Job], JobsOK, NEW h \in Handler, NEW r \in ReservationId,
           Reserves(h), AfterReserve(h, r)
    PROVE  handlers' \in [Handler -> Job] /\ JobsOK'
<1>1. JobOK(handlers[h])
  BY DEF JobsOK
<1> DEFINE step == CASE At(h, "reserve") -> "save"
                     [] At(h, "reinstateAgain") -> "persistAgain"
                     [] At(h, "reinstate") ->
                           IF handlers[h].payment \in Mispaid THEN "release" ELSE "persist"
<1>2. step \in {"save", "persistAgain", "release", "persist"}
  BY DEF Reserves, At
<1>3. [handlers[h].row EXCEPT !.reservation = r] \in Row
  BY <1>1, RowTypes DEF JobOK, Job
<1> DEFINE job == [handlers[h] EXCEPT !.rsv = r, !.row = [handlers[h].row EXCEPT !.reservation = r],
                                      !.step = step]
<1>4. job.step = step /\ job.rsv = r /\ job.row.reservation = r /\ job.order = handlers[h].order
  BY <1>1, RowTypes DEF JobOK, Job, Row
<1>5. job \in Job
  <2> HIDE DEF step
  <2> QED
    BY <1>1, <1>2, <1>3 DEF JobOK, Job, Step
<1>6. job.order \in Order
  BY <1>1, <1>4 DEF JobOK, Reserves, At
<1>7. JobOK(job)
  <2> HIDE DEF step, job
  <2> QED
    BY <1>2, <1>4, <1>5, <1>6, OrderAssumption DEF JobOK
<1>8. handlers' = [handlers EXCEPT ![h] = job]
  BY DEF AfterReserve
<1> QED
  BY <1>7, <1>8, ChangeJob

\* The tables and the jobs keep their types and shapes.
Shapes ==
    /\ orders \in [Order -> Row]
    /\ handlers \in [Handler -> Job]
    /\ JobsOK

\* What a busy handler knows.
LEMMA BusyJob ==
    ASSUME Shapes, NEW h \in Handler, ~Idle(h)
    PROVE  /\ JobOK(handlers[h])
           /\ handlers[h].order \in Order
           /\ handlers[h].payment \in Payment \cup {NoPayment}
           /\ handlers[h].row \in Row
           /\ handlers[h].rsv \in ReservationId \cup {NoReservation}
           /\ orders[handlers[h].order] \in Row
  BY DEF Shapes, JobsOK, JobOK, Job, Idle

LEMMA SavePaidTypes ==
    ASSUME Shapes, NEW h \in Handler, ~Idle(h), SavePaid(h)
    PROVE  orders' \in [Order -> Row]
<1>1. /\ handlers[h].order \in Order
      /\ handlers[h].payment \in Payment \cup {NoPayment}
      /\ handlers[h].row.reservation \in ReservationId \cup {NoReservation}
  BY BusyJob, RowTypes
<1>2. [status |-> "paid", reservation |-> handlers[h].row.reservation,
       payment |-> handlers[h].payment] \in Row
  BY <1>1 DEF Row, Status
<1> QED
  BY <1>1, <1>2, WriteTypes DEF SavePaid, Shapes

LEMMA HandlerStepShapes ==
    ASSUME Shapes, NEW h \in Handler, Continue(h) \/ Crash(h)
    PROVE  Shapes'
<1> USE DEF Shapes
<1>1. ~Idle(h)
  BY DEF Continue, Crash, CallReserve, Reserves, CallRelease, CallCommit, SaveCreated, Reread,
         Persist, Reconcile, PersistAgain, ShipIfPaid, SaveCanceled, SaveFulfilled, At, Idle
<1>2. handlers[h].order \in Order /\ handlers[h].row \in Row /\ orders[handlers[h].order] \in Row
  BY <1>1, BusyJob
<1>3. CASE CallReserve(h)
  BY <1>3, AfterReserveTypes, ReturnTypes DEF CallReserve
<1>4. CASE CallRelease(h)
  BY <1>4, ReturnTypes DEF CallRelease
<1>5. CASE CallCommit(h)
  <2>1. CASE Goto(h, "shipIfPaid")
    <3>1. handlers' \in [Handler -> Job] /\ JobsOK'
      BY <1>1, <2>1, GotoTypes
    <3> QED
      BY <1>5, <3>1 DEF CallCommit
  <2>2. CASE Return(h)
    BY <1>5, <2>2, ReturnTypes DEF CallCommit
  <2> QED
    BY <1>5, <2>1, <2>2 DEF CallCommit
<1>6. CASE SaveCreated(h)
  <2>1. [status |-> "pending", reservation |-> handlers[h].rsv, payment |-> NoPayment] \in Row
    BY <1>1, BusyJob DEF Row, Status
  <2>2. orders' \in [Order -> Row]
    BY <1>2, <1>6, <2>1, WriteTypes DEF SaveCreated
  <2>3. CASE Return(h)
    BY <2>2, <2>3, ReturnTypes
  <2>4. CASE Goto(h, "release")
    <3>1. handlers' \in [Handler -> Job] /\ JobsOK'
      BY <1>1, <2>4, GotoTypes
    <3> QED
      BY <2>2, <3>1
  <2> QED
    BY <1>6, <2>3, <2>4 DEF SaveCreated
<1>7. CASE Reread(h)
  <2>1. CASE Goto(h, "persist")
    <3>1. handlers[h].rsv = NoReservation
      BY <1>7 DEF Reread, At, JobsOK, JobOK
    <3>2. handlers' \in [Handler -> Job] /\ JobsOK'
      BY <1>1, <2>1, <3>1, GotoTypes
    <3> QED
      BY <1>7, <3>2 DEF Reread
  <2>2. CASE Return(h)
    BY <1>7, <2>2, ReturnTypes DEF Reread
  <2>3. CASE GotoWith(h, "reinstate", orders[handlers[h].order])
    BY <1>1, <1>2, <1>7, <2>3, RereadTypes DEF Reread
  <2> QED
    BY <1>7, <2>1, <2>2, <2>3 DEF Reread
<1>8. CASE Persist(h)
  <2>1. CASE SavePaid(h) /\ (Return(h) \/ Abandon(h))
    BY <1>1, <2>1, SavePaidTypes, ReturnTypes, AbandonTypes
  <2>2. CASE UNCHANGED orders /\ Goto(h, "reconcile")
    <3>1. handlers' \in [Handler -> Job] /\ JobsOK'
      BY <1>1, <2>2, GotoTypes
    <3> QED
      BY <2>2, <3>1
  <2>3. CASE UNCHANGED orders /\ Abandon(h)
    BY <1>1, <2>3, AbandonTypes
  <2> QED
    BY <1>8, <2>1, <2>2, <2>3 DEF Persist
<1>9. CASE Reconcile(h)
  <2>1. CASE Abandon(h)
    BY <1>1, <1>9, <2>1, AbandonTypes DEF Reconcile
  <2>2. CASE GotoWith(h, "reinstateAgain", orders[handlers[h].order])
    BY <1>1, <1>2, <1>9, <2>2, RereadTypes DEF Reconcile
  <2> QED
    BY <1>9, <2>1, <2>2 DEF Reconcile
<1>10. CASE PersistAgain(h)
  <2>1. CASE SavePaid(h) /\ (Return(h) \/ Abandon(h))
    BY <1>1, <2>1, SavePaidTypes, ReturnTypes, AbandonTypes
  <2>2. CASE UNCHANGED orders /\ Abandon(h)
    BY <1>1, <2>2, AbandonTypes
  <2> QED
    BY <1>10, <2>1, <2>2 DEF PersistAgain
<1>11. CASE ShipIfPaid(h)
  <2>1. [orders[handlers[h].order] EXCEPT !.status = "in_transit"] \in Row
    BY <1>2, RowTypes DEF Status
  <2>2. handlers' \in [Handler -> Job] /\ JobsOK'
    BY <1>11, ReturnTypes DEF ShipIfPaid
  <2>3. CASE Write(handlers[h].order,
                   [orders[handlers[h].order] EXCEPT !.status = "in_transit"])
    <3>1. orders' \in [Order -> Row]
      BY <1>2, <2>1, <2>3 DEF Write
    <3> QED
      BY <2>2, <3>1
  <2>4. CASE UNCHANGED orders
    BY <2>2, <2>4
  <2> QED
    BY <1>11, <2>3, <2>4 DEF ShipIfPaid
<1>12. CASE SaveCanceled(h)
  <2>1. CASE UNCHANGED orders /\ Return(h)
    BY <2>1, ReturnTypes
  <2>2. CASE /\ Write(handlers[h].order, [handlers[h].row EXCEPT !.status = "canceled"])
             /\ GotoRelease(h, handlers[h].row.reservation)
    <3>1. [handlers[h].row EXCEPT !.status = "canceled"] \in Row
      BY <1>2, RowTypes DEF Status
    <3>2. JobOK([handlers[h] EXCEPT !.step = "release", !.rsv = handlers[h].row.reservation])
      BY <1>1, BusyJob, RowTypes DEF JobOK, Job, Step
    <3> QED
      BY <1>2, <2>2, <3>1, <3>2, WriteTypes, ChangeJob DEF GotoRelease
  <2> QED
    BY <1>12, <2>1, <2>2 DEF SaveCanceled
<1>13. CASE SaveFulfilled(h)
  <2>1. [handlers[h].row EXCEPT !.status = "fulfilled"] \in Row
    BY <1>2, RowTypes DEF Status
  <2> QED
    BY <1>2, <1>13, <2>1, ReturnTypes, WriteTypes DEF SaveFulfilled
<1>14. CASE Crash(h)
  BY <1>14, ReturnTypes DEF Crash
<1> QED
  BY <1>3, <1>4, <1>5, <1>6, <1>7, <1>8, <1>9, <1>10, <1>11, <1>12, <1>13, <1>14 DEF Continue

LEMMA StepShapes ==
    ASSUME TypeOK, JobsOK, [Next]_vars
    PROVE  /\ TypeOK'
           /\ JobsOK'
<1> USE OrderAssumption DEF TypeOK
<1>1. Shapes
  BY DEF Shapes
<1>2. InventoryTypeOK'
  BY StepUsesInventory, NextType
<1>3. Shapes'
  <2>1. ASSUME NEW h \in Handler, Continue(h) \/ Crash(h)
        PROVE  Shapes'
    BY <1>1, <2>1, HandlerStepShapes
  <2>2. ASSUME NEW h \in Handler, NEW o \in Order,
               NEW step \in Step \ {"idle", "save", "persist", "persistAgain"},
               NEW m \in Payment \cup {NoPayment}, Begin(h, step, o, m), UNCHANGED orders
        PROVE  Shapes'
    BY <1>1, <2>2, BeginTypes DEF Shapes
  <2>3. ASSUME NEW h \in Handler, NEW o \in Order,
               \/ BeginCreate(h, o) \/ BeginShip(h, o) \/ BeginCancel(h, o) \/ BeginFulfil(h, o)
        PROVE  Shapes'
    BY <2>2, <2>3 DEF BeginCreate, BeginShip, BeginCancel, BeginFulfil, Step
  <2>4. ASSUME NEW h \in Handler, NEW m \in Payment, BeginPay(h, m)
        PROVE  Shapes'
    BY <2>2, <2>4 DEF BeginPay, Step
  <2>5. ASSUME NEW h \in Handler, NEW o \in Order, Expire(h, o)
        PROVE  Shapes'
    BY <1>1, <2>5, CancelRowTypes DEF Expire, Shapes
  <2>6. ASSUME NEW h \in Handler, NEW m \in Payment, CancelForRefund(h, m)
        PROVE  Shapes'
    <3>1. CASE CancelRow(h, OrderOf[m])
      BY <1>1, <3>1, CancelRowTypes DEF Shapes
    <3>2. CASE UNCHANGED <<orders, handlers>>
      BY <1>1, <3>2 DEF Shapes, JobsOK, JobOK
    <3> QED
      BY <2>6, <3>1, <3>2 DEF CancelForRefund
  <2>7. ASSUME UNCHANGED <<orders, handlers>>
        PROVE  Shapes'
    BY <1>1, <2>7 DEF Shapes, JobsOK, JobOK
  <2>8. ASSUME NEW m \in Payment, Capture(m) \/ Refund(m) \/ LoseRefundEvent(m)
        PROVE  Shapes'
    BY <2>7, <2>8 DEF Capture, Refund, LoseRefundEvent
  <2>9. ASSUME NEW s \in Sku, Restock(s)
        PROVE  Shapes'
    BY <2>7, <2>9 DEF Restock, orderVars
  <2>10. CASE UNCHANGED vars
    BY <2>7, <2>10 DEF vars, orderVars
  <2> QED
    BY <2>1, <2>3, <2>4, <2>5, <2>6, <2>8, <2>9, <2>10 DEF Next, Handler
<1>4. (/\ captured \subseteq Payment /\ refunded \subseteq captured
       /\ refundEvents \subseteq refunded)'
  <2>1. ASSUME NEW h \in Handler, Continue(h) \/ Crash(h)
        PROVE  PaymentsUnchanged
    BY <2>1 DEF Continue, Crash, CallReserve, CallRelease, CallCommit, SaveCreated, Reread,
                Persist, Reconcile, PersistAgain, ShipIfPaid, SaveCanceled, SaveFulfilled
  <2>2. ASSUME NEW h \in Handler, NEW o \in Order,
               \/ BeginCreate(h, o) \/ BeginShip(h, o) \/ BeginCancel(h, o) \/ BeginFulfil(h, o)
               \/ Expire(h, o)
        PROVE  PaymentsUnchanged
    BY <2>2 DEF BeginCreate, BeginShip, BeginCancel, BeginFulfil, Expire
  <2>3. ASSUME NEW h \in Handler, NEW m \in Payment, BeginPay(h, m)
        PROVE  PaymentsUnchanged
    BY <2>3 DEF BeginPay
  <2>4. ASSUME NEW s \in Sku, Restock(s)
        PROVE  PaymentsUnchanged
    BY <2>4 DEF Restock, orderVars, PaymentsUnchanged
  <2>5. CASE UNCHANGED vars
    BY <2>5 DEF vars, orderVars
  <2>6. ASSUME NEW h \in Handler, NEW m \in Payment, CancelForRefund(h, m)
        PROVE  (/\ captured \subseteq Payment /\ refunded \subseteq captured
                /\ refundEvents \subseteq refunded)'
    BY <2>6 DEF CancelForRefund
  <2>7. ASSUME NEW m \in Payment, Capture(m) \/ Refund(m) \/ LoseRefundEvent(m)
        PROVE  (/\ captured \subseteq Payment /\ refunded \subseteq captured
                /\ refundEvents \subseteq refunded)'
    BY <2>7 DEF Capture, Refund, LoseRefundEvent
  <2> QED
    BY <2>1, <2>2, <2>3, <2>4, <2>5, <2>6, <2>7 DEF Next, Handler, PaymentsUnchanged
<1> QED
  BY <1>2, <1>3, <1>4 DEF Shapes

LEMMA InitShapes == Init => TypeOK /\ JobsOK
<1> SUFFICES ASSUME Init PROVE TypeOK /\ JobsOK
  OBVIOUS
<1>1. InventoryTypeOK
  BY InitType DEF Init
<1>2. NoRow \in Row /\ IdleJob \in Job
  BY IdleJobOK DEF NoRow, Row, Status, JobOK
<1> QED
  BY <1>1, <1>2, IdleJobOK DEF Init, TypeOK, JobsOK

\* The tables of both services and the handlers' copies keep their types.
THEOREM OrderTypeCorrect == Spec => []TypeOK
<1>1. Init => TypeOK /\ JobsOK
  BY InitShapes
<1>2. TypeOK /\ JobsOK /\ [Next]_vars => (TypeOK /\ JobsOK)'
  BY StepShapes
<1> QED
  BY <1>1, <1>2, PTL DEF Spec

\* The order service is a client of Inventory: whatever its handlers do, and
\* however they fail, stock and reservations move by Inventory's operations.
THEOREM OrdersUseInventory == Spec => UsesInventory /\ InventorySpec
<1>1. Init => TypeOK /\ JobsOK /\ InventoryInit
  BY InitShapes DEF Init
<1>2. TypeOK /\ JobsOK /\ [Next]_vars => (TypeOK /\ JobsOK)'
  BY StepShapes
<1>3. TypeOK /\ JobsOK /\ [Next]_vars => [InventoryNext]_inventoryVars
  BY StepUsesInventory
<1> QED
  BY <1>1, <1>2, <1>3, PTL DEF Spec, UsesInventory, InventorySpec

\* So a reservation of an order can always be shipped or given back.
THEOREM OrderReservationsCanClose ==
    Spec => []StockIsSound
  BY OrdersUseInventory, StockIsSoundHolds, PTL

-----------------------------------------------------------------------------
(* An open order keeps its stock: every step of every handler keeps       *)
(* StockInv.                                                               *)


\* One handler's job changes, the others' do not.
LEMMA JobUpdate ==
    ASSUME TypeOK, NEW h \in Handler, NEW job, handlers' = [handlers EXCEPT ![h] = job]
    PROVE  /\ handlers'[h] = job
           /\ \A g \in Handler \ {h} : handlers'[g] = handlers[g]
  BY DEF TypeOK

LEMMA RowUpdate ==
    ASSUME TypeOK, NEW o \in Order, NEW row, Write(o, row)
    PROVE  /\ orders'[o] = row
           /\ \A p \in Order \ {o} : orders'[p] = orders[p]
  BY DEF TypeOK, Write

LEMMA GotoUpdate ==
    ASSUME TypeOK, NEW h \in Handler, NEW step, Goto(h, step)
    PROVE  /\ handlers'[h].step = step
           /\ handlers'[h].order = handlers[h].order
           /\ handlers'[h].payment = handlers[h].payment
           /\ handlers'[h].row = handlers[h].row
           /\ handlers'[h].rsv = handlers[h].rsv
           /\ \A g \in Handler \ {h} : handlers'[g] = handlers[g]
<1>1. handlers \in [Handler -> Job]
  BY DEF TypeOK
<1> QED
  BY <1>1 DEF Goto, Job

\* A job changes; neither table does.
LEMMA JobStep ==
    ASSUME StockInv, TypeOK', JobsOK', UNCHANGED <<orders, reservations>>,
           NEW h \in Handler, \A g \in Handler \ {h} : handlers'[g] = handlers[g],
           Refers(handlers'[h].rsv, handlers'[h].order),
           Refers(handlers'[h].row.reservation, handlers'[h].order),
           Holding(h)' => Holding(h) /\ handlers'[h].rsv = handlers[h].rsv,
           \A g \in Handler \ {h} : Holding(g) =>
              /\ handlers'[h].rsv # handlers[g].rsv
              /\ handlers'[h].row.reservation # handlers[g].rsv,
           ReleaseOK', CreateOK', StartedOK'
    PROVE  StockInv'
<1>1. ReferencesOK'
  BY DEF StockInv, ReferencesOK, Refers
<1>2. HeldOK'
  BY DEF StockInv, HeldOK, Holding, IsActive
<1>3. OpenOrderHasStock'
  BY DEF StockInv, OpenOrderHasStock, IsActive
<1> QED
  BY <1>1, <1>2, <1>3 DEF StockInv

LEMMA ReturnStep ==
    ASSUME StockInv, TypeOK', JobsOK', UNCHANGED <<orders, reservations>>,
           NEW h \in Handler, Return(h)
    PROVE  StockInv'
<1>1. /\ handlers'[h] = IdleJob
      /\ \A g \in Handler \ {h} : handlers'[g] = handlers[g]
  BY JobUpdate DEF Return, StockInv
<1>2. IdleJob.step = "idle" /\ IdleJob.rsv = NoReservation /\ IdleJob.order = NoOrder
      /\ IdleJob.row.reservation = NoReservation
  BY DEF IdleJob, NoRow
<1>3. ReleaseOK'
  BY <1>1, <1>2 DEF StockInv, ReleaseOK, At
<1>4. CreateOK'
  BY <1>1, <1>2, OrderAssumption DEF StockInv, CreateOK, JobsOK, JobOK
<1>5. StartedOK'
  BY <1>1, <1>2 DEF StockInv, StartedOK
<1> QED
  BY <1>1, <1>2, <1>3, <1>4, <1>5, JobStep DEF Refers, Holding

\* A handler that gives up a reservation nobody else knows may release it.
LEMMA AbandonStep ==
    ASSUME StockInv, TypeOK', JobsOK', UNCHANGED <<orders, reservations>>,
           NEW h \in Handler, handlers[h].rsv = NoReservation \/ Holding(h), Abandon(h)
    PROVE  StockInv'
<1>1. CASE Return(h)
  BY <1>1, ReturnStep
<1>2. CASE handlers[h].rsv # NoReservation /\ Goto(h, "release")
  <2>1. /\ handlers'[h].step = "release"
        /\ handlers'[h].rsv = handlers[h].rsv
        /\ handlers'[h].row = handlers[h].row
        /\ handlers'[h].order = handlers[h].order
        /\ \A g \in Handler \ {h} : handlers'[g] = handlers[g]
    BY <1>2, GotoUpdate DEF StockInv
  <2>2. ReleaseOK'
    BY <1>2, <2>1 DEF StockInv, ReleaseOK, HeldOK, Holding, At
  <2>3. CreateOK'
    BY <1>2, <2>1 DEF StockInv, CreateOK
  <2>4. StartedOK'
    BY <2>1 DEF StockInv, StartedOK
  <2>5. /\ Refers(handlers[h].rsv, handlers[h].order)'
        /\ Refers(handlers[h].row.reservation, handlers[h].order)'
    BY <2>1 DEF StockInv, ReferencesOK, Refers
  <2>6. \A g \in Handler \ {h} : Holding(g) =>
              /\ handlers'[h].rsv # handlers[g].rsv
              /\ handlers'[h].row.reservation # handlers[g].rsv
    BY <2>1 DEF StockInv, HeldOK
  <2>7. ~ Holding(h)'
    BY <2>1 DEF Holding
  <2> QED
    BY <2>1, <2>2, <2>3, <2>4, <2>5, <2>6, <2>7, JobStep DEF Refers
<1> QED
  BY <1>1, <1>2 DEF Abandon


-----------------------------------------------------------------------------
(* Steps that only read.                                                   *)

LEMMA BeginStep ==
    ASSUME StockInv, TypeOK', JobsOK', UNCHANGED <<orders, reservations>>,
           NEW h \in Handler, NEW o \in Order, NEW m,
           NEW step \in Step \ {"idle", "save", "persist", "reconcile", "persistAgain", "release"},
           step = "reserve" => /\ orders[o] = NoRow
                               /\ \A g \in Handler : handlers[g].order # o,
           step # "reserve" => orders[o].status # "none",
           step = "commit" => orders[o].status # "pending",
           Begin(h, step, o, m)
    PROVE  StockInv'
<1>1. /\ handlers'[h] = [step |-> step, order |-> o, payment |-> m, row |-> orders[o],
                         rsv |-> NoReservation]
      /\ \A g \in Handler \ {h} : handlers'[g] = handlers[g]
  BY JobUpdate DEF Begin, StockInv
<1>2. /\ handlers'[h].step = step /\ handlers'[h].order = o /\ handlers'[h].row = orders[o]
      /\ handlers'[h].rsv = NoReservation
  BY <1>1
<1>3. ReleaseOK'
  BY <1>1, <1>2 DEF StockInv, ReleaseOK, At
<1>4. CreateOK'
  BY <1>1, <1>2 DEF StockInv, CreateOK, JobsOK, JobOK, NoRow
<1>5. StartedOK'
  BY <1>1, <1>2 DEF StockInv, StartedOK
<1>6. Refers(handlers'[h].rsv, handlers'[h].order) /\ Refers(orders[o].reservation, o)
  BY <1>2 DEF StockInv, ReferencesOK, Refers
<1>7. \A g \in Handler \ {h} : Holding(g) =>
         /\ handlers'[h].rsv # handlers[g].rsv
         /\ handlers'[h].row.reservation # handlers[g].rsv
  BY <1>2 DEF StockInv, HeldOK, Holding
<1> QED
  BY <1>1, <1>2, <1>3, <1>4, <1>5, <1>6, <1>7, JobStep DEF Refers, Holding

LEMMA RereadStep ==
    ASSUME StockInv, TypeOK', JobsOK', UNCHANGED <<orders, reservations>>,
           NEW h \in Handler, NEW step \in {"reinstate", "reinstateAgain"},
           At(h, "reread") \/ At(h, "reconcile"),
           At(h, "reread") => step = "reinstate",
           GotoWith(h, step, orders[handlers[h].order])
    PROVE  StockInv'
<1>1. /\ handlers'[h].step = step
      /\ handlers'[h].order = handlers[h].order
      /\ handlers'[h].row = orders[handlers[h].order]
      /\ handlers'[h].rsv = handlers[h].rsv
      /\ \A g \in Handler \ {h} : handlers'[g] = handlers[g]
  <2>1. handlers \in [Handler -> Job]
    BY DEF StockInv, TypeOK
  <2> QED
    BY <2>1 DEF Job, GotoWith
<1>2. handlers[h].order \in Order
  BY DEF At, StockInv, JobsOK, JobOK
<1>3. /\ handlers'[h].step \notin
              {"idle", "reserve", "save", "release", "commit", "reread", "persist"}
      /\ handlers[h].step \notin {"idle", "reserve", "save", "release"}
  BY <1>1 DEF At
<1>4. /\ handlers'[h].order = handlers[h].order
       /\ \A g \in Handler \ {h} : handlers'[g] = handlers[g]
       /\ orders' = orders
  BY <1>1
<1>5. ReleaseOK'
  BY <1>1 DEF StockInv, ReleaseOK, At
<1>6. CreateOK'
  BY <1>3, <1>4 DEF StockInv, CreateOK
<1>7. StartedOK'
  BY <1>3, <1>4 DEF StockInv, StartedOK
<1>8. /\ Refers(handlers[h].rsv, handlers[h].order)
      /\ Refers(orders[handlers[h].order].reservation, handlers[h].order)
  BY <1>2 DEF StockInv, ReferencesOK
<1>9. \A g \in Handler \ {h} : Holding(g) =>
         /\ handlers'[h].rsv # handlers[g].rsv
         /\ handlers'[h].row.reservation # handlers[g].rsv
  BY <1>1, <1>2 DEF StockInv, HeldOK
<1>10. Holding(h)' => Holding(h)
  BY <1>1 DEF Holding, At, StockInv, JobsOK, JobOK
<1> QED
  BY <1>1, <1>5, <1>6, <1>7, <1>8, <1>9, <1>10, JobStep DEF Refers

LEMMA GoOnStep ==
    ASSUME StockInv, TypeOK', JobsOK', UNCHANGED <<orders, reservations>>,
           NEW h \in Handler,
           \/ At(h, "reread") /\ Goto(h, "persist")
           \/ At(h, "persist") /\ Goto(h, "reconcile")
    PROVE  StockInv'
<1>1. /\ \/ At(h, "reread") /\ handlers'[h].step = "persist"
         \/ At(h, "persist") /\ handlers'[h].step = "reconcile"
      /\ handlers'[h].order = handlers[h].order
      /\ handlers'[h].row = handlers[h].row
      /\ handlers'[h].rsv = handlers[h].rsv
      /\ \A g \in Handler \ {h} : handlers'[g] = handlers[g]
  BY GotoUpdate DEF StockInv
<1>2. ReleaseOK'
  BY <1>1 DEF StockInv, ReleaseOK, At
<1>3. CreateOK'
  BY <1>1 DEF StockInv, CreateOK, At
<1>4. StartedOK'
  BY <1>1 DEF StockInv, StartedOK, At, JobsOK, JobOK
<1>5. /\ Refers(handlers[h].rsv, handlers[h].order)
      /\ Refers(handlers[h].row.reservation, handlers[h].order)
  BY DEF StockInv, ReferencesOK
<1>6. \A g \in Handler \ {h} : Holding(g) =>
         /\ handlers'[h].rsv # handlers[g].rsv
         /\ handlers'[h].row.reservation # handlers[g].rsv
  BY <1>1 DEF StockInv, HeldOK
<1>7. Holding(h)' => Holding(h)
  BY <1>1 DEF Holding, At, StockInv, JobsOK, JobOK
<1> QED
  BY <1>1, <1>2, <1>3, <1>4, <1>5, <1>6, <1>7, JobStep DEF Refers

-----------------------------------------------------------------------------
(* Steps that write an order.                                              *)

\* Handler h writes the row of order o and returns, or goes on to a release.
LEMMA WriteStep ==
    ASSUME StockInv, TypeOK', JobsOK', UNCHANGED reservations,
           NEW h \in Handler, NEW o \in Order, NEW row, Write(o, row),
           row.status # "none",
           Refers(row.reservation, o),
           row.status = "pending" => /\ IsActive(row.reservation)
                                     /\ \A g \in Handler \ {h} : handlers[g].order # o,
           row.status = "paid" => /\ row.reservation \in DOMAIN reservations
                                  /\ reservations[row.reservation].status # "released",
           \A g \in Handler \ {h} :
              /\ handlers[g].step \in {"reserve", "save"} =>
                    handlers[g].order # o /\ handlers'[h].order # handlers[g].order
              /\ Holding(g) => /\ row.reservation # handlers[g].rsv
                               /\ handlers'[h].rsv # handlers[g].rsv
                               /\ handlers'[h].row.reservation # handlers[g].rsv
              /\ At(g, "release") /\ handlers[g].rsv = row.reservation =>
                    row.status \notin {"pending", "paid"},
           \A g \in Handler \ {h} : handlers'[g] = handlers[g],
           handlers'[h].step \in {"idle", "release"},
           Refers(handlers'[h].rsv, handlers'[h].order),
           Refers(handlers'[h].row.reservation, handlers'[h].order),
           \A p \in Order :
              At(h, "release")' /\ orders'[p].reservation = handlers'[h].rsv =>
                 orders'[p].status \notin {"pending", "paid"}
    PROVE  StockInv'
<1>1. /\ orders'[o] = row
      /\ \A p \in Order \ {o} : orders'[p] = orders[p]
  BY RowUpdate DEF StockInv
<1>2. ReferencesOK'
  BY <1>1 DEF StockInv, ReferencesOK, Refers
<1>3. HeldOK'
  BY <1>1 DEF StockInv, HeldOK, Holding, IsActive
<1>4. ReleaseOK'
  BY <1>1 DEF StockInv, ReleaseOK, At
<1>5. CreateOK'
  BY <1>1 DEF StockInv, CreateOK, JobsOK, JobOK
<1>6. StartedOK'
  <2> SUFFICES ASSUME NEW g \in Handler \ {h}
               PROVE  LET job == handlers[g]
                          r == orders'[handlers[g].order]
                      IN  /\ job.step \notin {"idle", "reserve", "save", "release"} =>
                                r.status # "none"
                          /\ job.step = "commit" => r.status # "pending"
                          /\ /\ job.step \in {"reread", "persist"}
                             /\ job.rsv = NoReservation
                             /\ r.status = "pending"
                             => job.row.reservation = r.reservation
    BY DEF StartedOK
  <2>1. CASE handlers[g].order = o
    BY <1>1, <2>1
  <2>2. CASE handlers[g].order \in Order \ {o}
    BY <1>1, <2>2 DEF StockInv, StartedOK
  <2>3. CASE handlers[g].step = "idle"
    BY <2>3
  <2> QED
    BY <2>1, <2>2, <2>3 DEF StockInv, JobsOK, JobOK
<1>7. OpenOrderHasStock'
  BY <1>1 DEF StockInv, OpenOrderHasStock, IsActive
<1> QED
  BY <1>2, <1>3, <1>4, <1>5, <1>6, <1>7 DEF StockInv

\* The row of its own order, after which the handler returns.
LEMMA SaveStep ==
    ASSUME StockInv, TypeOK', JobsOK', UNCHANGED reservations,
           NEW h \in Handler, ~Idle(h), NEW row, Write(handlers[h].order, row), Return(h),
           row.status # "none",
           Refers(row.reservation, handlers[h].order),
           row.status = "pending" =>
              /\ IsActive(row.reservation)
              /\ \A g \in Handler \ {h} : handlers[g].order # handlers[h].order,
           row.status = "paid" => /\ row.reservation \in DOMAIN reservations
                                  /\ reservations[row.reservation].status # "released",
           \A g \in Handler \ {h} :
              /\ Holding(g) => row.reservation # handlers[g].rsv
              /\ At(g, "release") /\ handlers[g].rsv = row.reservation =>
                    row.status \notin {"pending", "paid"}
    PROVE  StockInv'
<1>1. /\ handlers'[h] = IdleJob
      /\ \A g \in Handler \ {h} : handlers'[g] = handlers[g]
  BY JobUpdate DEF Return, StockInv
<1>2. /\ handlers'[h].step = "idle" /\ handlers'[h].rsv = NoReservation
      /\ handlers'[h].order = NoOrder /\ handlers'[h].row.reservation = NoReservation
  BY <1>1 DEF IdleJob, NoRow
<1>3. handlers[h].order \in Order
  BY DEF Idle, StockInv, JobsOK, JobOK
<1>4. \A g \in Handler \ {h} :
         handlers[g].step \in {"reserve", "save"} =>
            handlers[g].order # handlers[h].order /\ handlers'[h].order # handlers[g].order
  BY <1>2, OrderAssumption DEF StockInv, CreateOK, JobsOK, JobOK
<1>5. ~ At(h, "release")'
  BY <1>2 DEF At
<1>6. Refers(NoReservation, NoOrder)
  BY DEF Refers
<1> QED
  BY <1>1, <1>2, <1>3, <1>4, <1>5, <1>6, WriteStep DEF Holding

LEMMA SaveCreatedStep ==
    ASSUME "unacked" \notin Faults,
           StockInv, TypeOK', JobsOK', NEW h \in Handler, SaveCreated(h)
    PROVE  StockInv'
<1>1. UNCHANGED reservations /\ ~Idle(h) /\ At(h, "save")
  BY DEF SaveCreated, StockUnchanged, inventoryVars, At, Idle
<1>2. Holding(h) /\ handlers[h].rsv # NoReservation
  BY <1>1 DEF At, Holding, StockInv, JobsOK, JobOK
<1> DEFINE row == [status |-> "pending", reservation |-> handlers[h].rsv, payment |-> NoPayment]
<1>3. CASE Write(handlers[h].order, row) /\ Return(h)
  <2>1. row.status = "pending" /\ row.reservation = handlers[h].rsv
    OBVIOUS
  <2>2. /\ Refers(handlers[h].rsv, handlers[h].order)
        /\ IsActive(handlers[h].rsv)
        /\ \A g \in Handler \ {h} : handlers[g].order # handlers[h].order
        /\ \A g \in Handler \ {h} : handlers[g].rsv # handlers[h].rsv
    BY <1>1, <1>2 DEF At, StockInv, ReferencesOK, HeldOK, CreateOK
  <2> HIDE DEF row
  <2> QED
    BY <1>1, <1>3, <2>1, <2>2, SaveStep
<1>4. CASE UNCHANGED orders /\ Goto(h, "release")
  BY <1>1, <1>2, <1>4, AbandonStep DEF Abandon
<1> QED
  BY <1>3, <1>4 DEF SaveCreated

\* Paying a pending order keeps its reservation; a reinstated one gets the
\* reservation its handler took.
LEMMA SavePaidStep ==
    ASSUME StockInv, TypeOK', JobsOK', UNCHANGED reservations,
           NEW h \in Handler, SavePaid(h), Return(h),
           \/ At(h, "persist") /\ orders[handlers[h].order].status = PayableStatus(h)
           \/ At(h, "persistAgain")
    PROVE  StockInv'
<1> DEFINE o == handlers[h].order
           r == handlers[h].row.reservation
           row == [status |-> "paid", reservation |-> r, payment |-> handlers[h].payment]
<1>1. ~Idle(h) /\ o \in Order
  BY DEF At, Idle, StockInv, JobsOK, JobOK
<1>2. CASE handlers[h].rsv = NoReservation
  <2>1. orders[o].status = "pending" /\ r = orders[o].reservation
    BY <1>2 DEF At, PayableStatus, StockInv, StartedOK, JobsOK, JobOK
  <2>2. /\ Refers(r, o)
        /\ r \in DOMAIN reservations /\ reservations[r].status # "released"
        /\ \A g \in Handler \ {h} : /\ Holding(g) => r # handlers[g].rsv
                                    /\ At(g, "release") => handlers[g].rsv # r
    BY <1>1, <2>1 DEF StockInv, ReferencesOK, OpenOrderHasStock, IsActive, HeldOK, ReleaseOK
  <2> QED
    BY <1>1, <2>2, SaveStep DEF SavePaid
<1>3. CASE handlers[h].rsv # NoReservation
  <2>1. Holding(h) /\ r = handlers[h].rsv
    BY <1>3 DEF At, Holding, StockInv, JobsOK, JobOK
  <2>2. /\ Refers(r, o)
        /\ r \in DOMAIN reservations /\ reservations[r].status # "released"
        /\ \A g \in Handler \ {h} : handlers[g].rsv # r
    BY <2>1 DEF StockInv, ReferencesOK, HeldOK, IsActive
  <2> QED
    BY <1>1, <2>2, SaveStep DEF SavePaid
<1> QED
  BY <1>2, <1>3

LEMMA PersistStep ==
    ASSUME "unacked" \notin Faults,
           StockInv, TypeOK', JobsOK', NEW h \in Handler, Persist(h) \/ PersistAgain(h)
    PROVE  StockInv'
<1>1. UNCHANGED reservations
  BY DEF Persist, PersistAgain, StockUnchanged, inventoryVars
<1>2. At(h, "persist") \/ At(h, "persistAgain")
  BY DEF Persist, PersistAgain
<1>3. CASE /\ SavePaid(h) /\ Return(h)
           /\ \/ At(h, "persist") /\ orders[handlers[h].order].status = PayableStatus(h)
              \/ At(h, "persistAgain")
  BY <1>1, <1>3, SavePaidStep
<1>4. CASE UNCHANGED orders /\ At(h, "persist") /\ Goto(h, "reconcile")
  BY <1>1, <1>4, GoOnStep
<1>5. CASE UNCHANGED orders /\ Abandon(h)
  <2>1. handlers[h].rsv = NoReservation \/ Holding(h)
    BY <1>2 DEF At, Holding
  <2> QED
    BY <1>1, <1>5, <2>1, AbandonStep
<1> QED
  BY <1>3, <1>4, <1>5 DEF Persist, PersistAgain

LEMMA ShipIfPaidStep ==
    ASSUME StockInv, TypeOK', JobsOK', NEW h \in Handler, ShipIfPaid(h)
    PROVE  StockInv'
<1>1. UNCHANGED reservations /\ Return(h) /\ ~Idle(h)
  BY DEF ShipIfPaid, StockUnchanged, inventoryVars, At, Idle
<1> DEFINE o == handlers[h].order
           row == [orders[o] EXCEPT !.status = "in_transit"]
<1>2. o \in Order /\ orders[o] \in Row
  BY <1>1 DEF Idle, StockInv, JobsOK, JobOK, TypeOK
<1>3. row.status = "in_transit" /\ row.reservation = orders[o].reservation
  BY <1>2 DEF Row
<1>4. CASE Write(o, row)
  <2>1. /\ Refers(orders[o].reservation, o)
        /\ \A g \in Handler : Holding(g) => orders[o].reservation # handlers[g].rsv
    BY <1>2 DEF StockInv, ReferencesOK, HeldOK
  <2> HIDE DEF row, o
  <2> QED
    BY <1>1, <1>3, <1>4, <2>1, SaveStep DEF o
<1>5. CASE UNCHANGED orders
  BY <1>1, <1>5, ReturnStep
<1> QED
  BY <1>4, <1>5 DEF ShipIfPaid

LEMMA SaveFulfilledStep ==
    ASSUME StockInv, TypeOK', JobsOK', NEW h \in Handler, SaveFulfilled(h)
    PROVE  StockInv'
<1>1. UNCHANGED reservations /\ Return(h) /\ ~Idle(h)
  BY DEF SaveFulfilled, StockUnchanged, inventoryVars, At, Idle
<1> DEFINE row == [handlers[h].row EXCEPT !.status = "fulfilled"]
<1>2. handlers[h].row \in Row
  BY DEF StockInv, TypeOK, Job
<1>3. row.status = "fulfilled" /\ row.reservation = handlers[h].row.reservation
  BY <1>2 DEF Row
<1>4. CASE Write(handlers[h].order, row)
  <2>1. /\ Refers(handlers[h].row.reservation, handlers[h].order)
        /\ \A g \in Handler \ {h} : Holding(g) => handlers[h].row.reservation # handlers[g].rsv
    BY DEF StockInv, ReferencesOK, HeldOK
  <2> HIDE DEF row
  <2> QED
    BY <1>1, <1>3, <1>4, <2>1, SaveStep
<1>5. CASE UNCHANGED orders
  BY <1>1, <1>5, ReturnStep
<1> QED
  BY <1>4, <1>5 DEF SaveFulfilled

\* A reservation that refers to one order is not named by another one.
LEMMA OthersDoNotName ==
    ASSUME StockInv, NEW o \in Order, NEW r, Refers(r, o), NEW p \in Order \ {o},
           orders[p].reservation = r
    PROVE  orders[p].status \notin {"pending", "paid"}
<1>1. r # NoReservation => reservations[r].order = p /\ reservations[r].order = o
  BY DEF StockInv, ReferencesOK, Refers
<1>2. NoReservation \notin DOMAIN reservations
  BY OrderAssumption DEF StockInv, TypeOK, InventoryTypeOK
<1> QED
  BY <1>1, <1>2 DEF StockInv, OpenOrderHasStock, IsActive

LEMMA SaveCanceledStep ==
    ASSUME StockInv, TypeOK', JobsOK', NEW h \in Handler, SaveCanceled(h)
    PROVE  StockInv'
<1>1. UNCHANGED reservations /\ At(h, "saveCanceled")
  BY DEF SaveCanceled, StockUnchanged, inventoryVars
<1> DEFINE o == handlers[h].order
           r == handlers[h].row.reservation
           row == [handlers[h].row EXCEPT !.status = "canceled"]
<1>2. handlers[h].row \in Row /\ o \in Order
  BY <1>1 DEF At, StockInv, TypeOK, JobsOK, JobOK, Job
<1>3. row.status = "canceled" /\ row.reservation = r
  BY <1>2 DEF Row
<1>4. CASE Write(o, row) /\ GotoRelease(h, r)
  <2>1. /\ handlers'[h].step = "release" /\ handlers'[h].order = o
        /\ handlers'[h].rsv = r /\ handlers'[h].row.reservation = r
        /\ \A g \in Handler \ {h} : handlers'[g] = handlers[g]
    <3>1. handlers \in [Handler -> Job]
      BY DEF StockInv, TypeOK
    <3> QED
      BY <1>4, <3>1 DEF GotoRelease, Job
  <2>2. /\ Refers(r, o)
        /\ \A g \in Handler \ {h} :
              /\ Holding(g) => r # handlers[g].rsv
              /\ handlers[g].step \in {"reserve", "save"} => handlers[g].order # o
    BY DEF StockInv, ReferencesOK, HeldOK, CreateOK
  <2>3. ASSUME NEW p \in Order, orders'[p].reservation = r
        PROVE  orders'[p].status \notin {"pending", "paid"}
    <3> HIDE DEF row
    <3>1. orders'[o] = row /\ \A q \in Order \ {o} : orders'[q] = orders[q]
      BY <1>2, <1>4, RowUpdate DEF StockInv
    <3> QED
      BY <1>2, <1>3, <2>2, <2>3, <3>1, OthersDoNotName
  <2> HIDE DEF row, o, r
  <2> QED
    BY <1>1, <1>2, <1>3, <1>4, <2>1, <2>2, <2>3, WriteStep
<1>5. CASE UNCHANGED orders /\ Return(h)
  BY <1>1, <1>5, ReturnStep
<1> QED
  BY <1>4, <1>5 DEF SaveCanceled

\* Expiry and refunds cancel an open order and go on to release its reservation.
LEMMA CancelRowStep ==
    ASSUME StockInv, TypeOK', JobsOK', NEW h \in Handler, NEW o \in Order,
           orders[o].status \in {"pending", "paid"}, CancelRow(h, o)
    PROVE  StockInv'
<1>1. UNCHANGED reservations
  BY DEF CancelRow, StockUnchanged, inventoryVars
<1> DEFINE r == orders[o].reservation
           row == [orders[o] EXCEPT !.status = "canceled"]
<1>2. orders[o] \in Row
  BY DEF StockInv, TypeOK
<1>3. row.status = "canceled" /\ row.reservation = r
  BY <1>2 DEF Row
<1>4. Write(o, row)
  BY DEF CancelRow
<1>5. /\ handlers'[h].step = "release" /\ handlers'[h].order = o /\ handlers'[h].rsv = r
      /\ handlers'[h].row.reservation = NoReservation
      /\ \A g \in Handler \ {h} : handlers'[g] = handlers[g]
  <2>1. /\ handlers'[h] = [step |-> "release", order |-> o, payment |-> NoPayment,
                           row |-> NoRow, rsv |-> r]
        /\ \A g \in Handler \ {h} : handlers'[g] = handlers[g]
    BY JobUpdate DEF CancelRow, StockInv
  <2> QED
    BY <2>1 DEF NoRow
<1>6. /\ Refers(r, o) /\ Refers(NoReservation, o)
      /\ \A g \in Handler \ {h} :
            /\ Holding(g) => r # handlers[g].rsv
            /\ handlers[g].step \in {"reserve", "save"} => handlers[g].order # o
  BY DEF StockInv, ReferencesOK, Refers, HeldOK, CreateOK, NoRow
<1>7. ASSUME NEW p \in Order, orders'[p].reservation = r
      PROVE  orders'[p].status \notin {"pending", "paid"}
  <2> HIDE DEF row
  <2>1. orders'[o] = row /\ \A q \in Order \ {o} : orders'[q] = orders[q]
    BY <1>4, RowUpdate DEF StockInv
  <2> QED
    BY <1>3, <1>6, <1>7, <2>1, OthersDoNotName
<1> HIDE DEF row, r
<1> QED
  BY <1>1, <1>3, <1>4, <1>5, <1>6, <1>7, WriteStep DEF Holding

-----------------------------------------------------------------------------
(* Steps that call the product service.                                    *)

\* A new reservation is written down nowhere before its handler has it.
LEMMA FreshReservation ==
    ASSUME StockInv, NEW r \in ReservationId \ DOMAIN reservations
    PROVE  /\ \A o \in Order : orders[o].reservation # r
           /\ \A g \in Handler : handlers[g].rsv # r /\ handlers[g].row.reservation # r
  BY OrderAssumption DEF StockInv, ReferencesOK, Refers

LEMMA ReserveEffect ==
    ASSUME StockInv, NEW r, NEW o, NEW items, Reserve(r, o, items)
    PROVE  /\ r \notin DOMAIN reservations
           /\ DOMAIN reservations' = DOMAIN reservations \cup {r}
           /\ reservations'[r].order = o /\ reservations'[r].status = "active"
           /\ \A q \in DOMAIN reservations : reservations'[q] = reservations[q]
  BY DEF Reserve

LEMMA AfterReserveUpdate ==
    ASSUME StockInv, NEW h \in Handler, NEW r \in ReservationId, Reserves(h), AfterReserve(h, r)
    PROVE  /\ \/ At(h, "reserve") /\ handlers'[h].step = "save"
              \/ ~At(h, "reserve") /\ handlers'[h].step \in {"persistAgain", "persist", "release"}
           /\ handlers'[h].rsv = r
           /\ handlers'[h].row.reservation = r
           /\ handlers'[h].order = handlers[h].order
           /\ \A g \in Handler \ {h} : handlers'[g] = handlers[g]
<1>1. handlers \in [Handler -> Job] /\ handlers[h] \in Job /\ handlers[h].row \in Row
  BY DEF StockInv, TypeOK, Job
<1> QED
  BY <1>1 DEF AfterReserve, Reserves, At, Job, Row

\* Another reservation appears; nobody changes a job or an order.
LEMMA LostReserveStep ==
    ASSUME StockInv, TypeOK', JobsOK', NEW h \in Handler, NEW r \in ReservationId,
           NEW o, NEW items, Reserve(r, o, items), UNCHANGED orders, Return(h)
    PROVE  StockInv'
<1>1. /\ r \notin DOMAIN reservations
      /\ DOMAIN reservations' = DOMAIN reservations \cup {r}
      /\ \A q \in DOMAIN reservations : reservations'[q] = reservations[q]
  BY ReserveEffect
<1>2. /\ handlers'[h] = IdleJob
      /\ \A g \in Handler \ {h} : handlers'[g] = handlers[g]
  BY JobUpdate DEF Return, StockInv
<1>3. /\ handlers'[h].step = "idle" /\ handlers'[h].rsv = NoReservation
      /\ handlers'[h].order = NoOrder /\ handlers'[h].row.reservation = NoReservation
  BY <1>2 DEF IdleJob, NoRow
<1>4. ReferencesOK'
  BY <1>1, <1>2, <1>3 DEF StockInv, ReferencesOK, Refers
<1>5. HeldOK'
  BY <1>1, <1>2, <1>3 DEF StockInv, HeldOK, Holding, IsActive
<1>6. ReleaseOK'
  BY <1>2, <1>3 DEF StockInv, ReleaseOK, At
<1>7. CreateOK'
  BY <1>2, <1>3, OrderAssumption DEF StockInv, CreateOK, JobsOK, JobOK
<1>8. StartedOK'
  BY <1>2, <1>3 DEF StockInv, StartedOK
<1>9. OpenOrderHasStock'
  BY <1>1 DEF StockInv, OpenOrderHasStock, IsActive
<1> QED
  BY <1>4, <1>5, <1>6, <1>7, <1>8, <1>9 DEF StockInv

LEMMA ReserveStep ==
    ASSUME StockInv, TypeOK', JobsOK', NEW h \in Handler, CallReserve(h)
    PROVE  StockInv'
<1> DEFINE o == handlers[h].order
<1>1. UNCHANGED orders /\ Reserves(h)
  BY DEF CallReserve
<1>2. o \in Order
  BY <1>1 DEF Reserves, At, StockInv, JobsOK, JobOK
<1>3. ASSUME NEW r \in ReservationId, Reserve(r, o, ItemsOf[o]), AfterReserve(h, r)
      PROVE  StockInv'
  <2>1. /\ r \notin DOMAIN reservations
        /\ DOMAIN reservations' = DOMAIN reservations \cup {r}
        /\ reservations'[r].order = o /\ reservations'[r].status = "active"
        /\ \A q \in DOMAIN reservations : reservations'[q] = reservations[q]
    BY <1>3, ReserveEffect
  <2>2. /\ \/ At(h, "reserve") /\ handlers'[h].step = "save"
           \/ ~At(h, "reserve") /\ handlers'[h].step \in {"persistAgain", "persist", "release"}
        /\ handlers'[h].rsv = r
        /\ handlers'[h].row.reservation = r
        /\ handlers'[h].order = o
        /\ \A g \in Handler \ {h} : handlers'[g] = handlers[g]
    BY <1>1, <1>3, AfterReserveUpdate
  <2>3. /\ \A p \in Order : orders[p].reservation # r
        /\ \A g \in Handler : handlers[g].rsv # r /\ handlers[g].row.reservation # r
    BY <2>1, FreshReservation
  <2>4. ReferencesOK'
    BY <1>1, <2>1, <2>2 DEF StockInv, ReferencesOK, Refers
  <2>5. HeldOK'
    BY <1>1, <2>1, <2>2, <2>3 DEF StockInv, HeldOK, Holding, IsActive
  <2>6. ReleaseOK'
    BY <1>1, <2>2, <2>3 DEF StockInv, ReleaseOK, At
  <2>7. CreateOK'
    BY <1>1, <2>2 DEF StockInv, CreateOK, At
  <2>8. StartedOK'
    BY <1>1, <1>2, <2>2, OrderAssumption DEF StockInv, StartedOK, Reserves, At, TypeOK, Job, Row
  <2>9. OpenOrderHasStock'
    BY <1>1, <2>1 DEF StockInv, OpenOrderHasStock, IsActive
  <2> QED
    BY <2>4, <2>5, <2>6, <2>7, <2>8, <2>9 DEF StockInv
<1>4. ASSUME NEW r \in ReservationId, Reserve(r, o, ItemsOf[o]), Return(h)
      PROVE  StockInv'
  BY <1>1, <1>4, LostReserveStep
<1>5. CASE StockUnchanged /\ Return(h)
  BY <1>1, <1>5, ReturnStep DEF StockUnchanged, inventoryVars
<1> QED
  BY <1>3, <1>4, <1>5 DEF CallReserve

\* What closing a reservation leaves alone.
LEMMA CloseEffect ==
    ASSUME StockInv, NEW r \in DOMAIN reservations, NEW status, Close(r, status)
    PROVE  /\ DOMAIN reservations' = DOMAIN reservations
           /\ \A q \in DOMAIN reservations : reservations'[q].order = reservations[q].order
           /\ \A q \in DOMAIN reservations \ {r} : reservations'[q] = reservations[q]
           /\ reservations'[r].status = status
<1>1. /\ reservations = [q \in DOMAIN reservations |-> reservations[q]]
      /\ \A q \in DOMAIN reservations : reservations[q] \in Reservation
  BY DEF StockInv, TypeOK, InventoryTypeOK
<1> QED
  BY <1>1 DEF Close, Reservation

LEMMA ReleaseStep ==
    ASSUME StockInv, TypeOK', JobsOK', NEW h \in Handler, CallRelease(h)
    PROVE  StockInv'
<1> DEFINE r == handlers[h].rsv
<1>1. UNCHANGED orders /\ Return(h) /\ At(h, "release")
  BY DEF CallRelease
<1>2. CASE IsActive(r) /\ Close(r, "released")
  <2>1. /\ r \in DOMAIN reservations
        /\ DOMAIN reservations' = DOMAIN reservations
        /\ \A q \in DOMAIN reservations : reservations'[q].order = reservations[q].order
        /\ \A q \in DOMAIN reservations \ {r} : reservations'[q] = reservations[q]
    BY <1>2, CloseEffect DEF IsActive
  <2>2. /\ handlers'[h] = IdleJob
        /\ \A g \in Handler \ {h} : handlers'[g] = handlers[g]
    BY <1>1, JobUpdate DEF Return, StockInv
  <2>3. /\ handlers'[h].step = "idle" /\ handlers'[h].rsv = NoReservation
        /\ handlers'[h].order = NoOrder /\ handlers'[h].row.reservation = NoReservation
    BY <2>2 DEF IdleJob, NoRow
  <2>4. ReferencesOK'
    BY <1>1, <2>1, <2>2, <2>3 DEF StockInv, ReferencesOK, Refers
  <2>5. HeldOK'
    BY <1>1, <2>1, <2>2, <2>3 DEF StockInv, HeldOK, Holding, IsActive
  <2>6. ReleaseOK'
    BY <1>1, <2>2, <2>3 DEF StockInv, ReleaseOK, At
  <2>7. CreateOK'
    BY <1>1, <2>2, <2>3, OrderAssumption DEF StockInv, CreateOK, JobsOK, JobOK
  <2>8. StartedOK'
    BY <1>1, <2>2, <2>3 DEF StockInv, StartedOK
  <2>9. OpenOrderHasStock'
    BY <1>1, <2>1 DEF StockInv, OpenOrderHasStock, ReleaseOK, IsActive
  <2> QED
    BY <2>4, <2>5, <2>6, <2>7, <2>8, <2>9 DEF StockInv
<1>3. CASE StockUnchanged
  BY <1>1, <1>3, ReturnStep DEF StockUnchanged, inventoryVars
<1> QED
  BY <1>2, <1>3 DEF CallRelease, ReleaseReservation

\* The reservation that a shipment commits is named by its order only, and that
\* order is not pending any more.
LEMMA CommitStep ==
    ASSUME StockInv, TypeOK', JobsOK', NEW h \in Handler, CallCommit(h)
    PROVE  StockInv'
<1> DEFINE r == handlers[h].row.reservation
           o == handlers[h].order
<1>1. UNCHANGED orders /\ At(h, "commit") /\ (Goto(h, "shipIfPaid") \/ Return(h))
  BY DEF CallCommit
<1>2. o \in Order /\ orders[o].status \notin {"none", "pending"}
  BY <1>1 DEF At, StockInv, JobsOK, JobOK, StartedOK
<1>3. /\ handlers'[h].step \in {"idle", "shipIfPaid"}
      /\ handlers'[h].rsv \in {handlers[h].rsv, NoReservation}
      /\ handlers'[h].row.reservation \in {r, NoReservation}
      /\ handlers'[h].order \in {o, NoOrder}
      /\ handlers'[h].order = o \/ /\ handlers'[h].order = NoOrder
                                   /\ handlers'[h].rsv = NoReservation
                                   /\ handlers'[h].row.reservation = NoReservation
      /\ handlers'[h].step = "shipIfPaid" => handlers'[h].order = o
      /\ \A g \in Handler \ {h} : handlers'[g] = handlers[g]
  <2>1. CASE Goto(h, "shipIfPaid")
    BY <2>1, GotoUpdate DEF StockInv
  <2>2. CASE Return(h)
    <3>1. /\ handlers'[h] = IdleJob
          /\ \A g \in Handler \ {h} : handlers'[g] = handlers[g]
      BY <2>2, JobUpdate DEF Return, StockInv
    <3> QED
      BY <3>1 DEF IdleJob, NoRow
  <2> QED
    BY <1>1, <2>1, <2>2
<1>4. ReleaseOK'
  BY <1>1, <1>3 DEF StockInv, ReleaseOK, At
<1>5. CreateOK'
  BY <1>1, <1>3, OrderAssumption DEF StockInv, CreateOK, JobsOK, JobOK
<1>6. StartedOK'
  BY <1>1, <1>2, <1>3 DEF StockInv, StartedOK
<1>7. CASE CommitReservation(r)
  <2>1. /\ r \in DOMAIN reservations
        /\ DOMAIN reservations' = DOMAIN reservations
        /\ \A q \in DOMAIN reservations : reservations'[q].order = reservations[q].order
        /\ \A q \in DOMAIN reservations \ {r} : reservations'[q] = reservations[q]
        /\ reservations'[r].status = "committed"
    BY <1>7, CloseEffect DEF CommitReservation, IsActive
  <2>2. r # NoReservation /\ reservations[r].order = o
    BY <2>1, OrderAssumption DEF StockInv, ReferencesOK, Refers, TypeOK, InventoryTypeOK
  <2>3. ReferencesOK'
    BY <1>1, <1>3, <2>1 DEF StockInv, ReferencesOK, Refers
  <2>4. HeldOK'
    BY <1>1, <1>3, <2>1 DEF StockInv, HeldOK, Holding, IsActive
  <2>5. ASSUME NEW p \in Order, orders[p].status = "pending"
        PROVE  orders[p].reservation # r
    BY <1>2, <2>2, <2>5 DEF StockInv, ReferencesOK, Refers
  <2>6. OpenOrderHasStock'
    BY <1>1, <2>1, <2>5 DEF StockInv, OpenOrderHasStock, IsActive
  <2> QED
    BY <1>4, <1>5, <1>6, <2>3, <2>4, <2>6 DEF StockInv
<1>8. CASE StockUnchanged
  <2>1. UNCHANGED reservations
    BY <1>8 DEF StockUnchanged, inventoryVars
  <2>2. ReferencesOK'
    BY <1>1, <1>3, <2>1 DEF StockInv, ReferencesOK, Refers
  <2>3. HeldOK'
    BY <1>1, <1>3, <2>1 DEF StockInv, HeldOK, Holding, IsActive
  <2>4. OpenOrderHasStock'
    BY <1>1, <2>1 DEF StockInv, OpenOrderHasStock, IsActive
  <2> QED
    BY <1>4, <1>5, <1>6, <2>2, <2>3, <2>4 DEF StockInv
<1> QED
  BY <1>7, <1>8 DEF CallCommit

-----------------------------------------------------------------------------
(* Every step, and the theorem.                                            *)

LEMMA NextStock ==
    ASSUME "unacked" \notin Faults, StockInv, [Next]_vars
    PROVE  StockInv'
<1>1. TypeOK' /\ JobsOK'
  BY StepShapes DEF StockInv
<1>2. ASSUME NEW h \in Handler, Reread(h) \/ Reconcile(h)
      PROVE  StockInv'
  <2>1. UNCHANGED <<orders, reservations>>
    BY <1>2 DEF Reread, Reconcile, StockUnchanged, inventoryVars
  <2>2. CASE At(h, "reread") /\ GotoWith(h, "reinstate", orders[handlers[h].order])
    BY <1>1, <2>1, <2>2, RereadStep DEF At
  <2>3. CASE At(h, "reconcile") /\ GotoWith(h, "reinstateAgain", orders[handlers[h].order])
    BY <1>1, <2>1, <2>3, RereadStep DEF At
  <2>4. CASE At(h, "reread") /\ Goto(h, "persist")
    BY <1>1, <2>1, <2>4, GoOnStep
  <2>5. CASE Return(h)
    BY <1>1, <2>1, <2>5, ReturnStep
  <2>6. CASE At(h, "reconcile") /\ Abandon(h)
    BY <1>1, <2>1, <2>6, AbandonStep DEF At, Holding
  <2> QED
    BY <1>2, <2>2, <2>3, <2>4, <2>5, <2>6 DEF Reread, Reconcile
<1>3. ASSUME NEW h \in Handler, Continue(h)
      PROVE  StockInv'
  BY <1>1, <1>2, <1>3, ReserveStep, ReleaseStep, CommitStep, SaveCreatedStep, PersistStep,
     ShipIfPaidStep, SaveCanceledStep, SaveFulfilledStep DEF Continue
<1>4. ASSUME NEW h \in Handler, Crash(h)
      PROVE  StockInv'
  BY <1>1, <1>4, ReturnStep DEF Crash, StockUnchanged, inventoryVars
<1>5. ASSUME NEW h \in Handler, NEW o \in Order,
             \/ BeginCreate(h, o) \/ BeginShip(h, o) \/ BeginCancel(h, o) \/ BeginFulfil(h, o)
      PROVE  StockInv'
  <2>1. UNCHANGED <<orders, reservations>>
    BY <1>5 DEF BeginCreate, BeginShip, BeginCancel, BeginFulfil, StockUnchanged, inventoryVars
  <2>2. CASE BeginCreate(h, o)
    BY <1>1, <2>1, <2>2, BeginStep DEF BeginCreate, Step
  <2>3. CASE BeginShip(h, o)
    BY <1>1, <2>1, <2>3, BeginStep DEF BeginShip, Step
  <2>4. CASE BeginCancel(h, o)
    BY <1>1, <2>1, <2>4, BeginStep DEF BeginCancel, Step
  <2>5. CASE BeginFulfil(h, o)
    BY <1>1, <2>1, <2>5, BeginStep DEF BeginFulfil, Step
  <2> QED
    BY <1>5, <2>2, <2>3, <2>4, <2>5
<1>6. ASSUME NEW h \in Handler, NEW m \in Payment, BeginPay(h, m)
      PROVE  StockInv'
  <2>1. UNCHANGED <<orders, reservations>> /\ OrderOf[m] \in Order
    BY <1>6, OrderAssumption DEF BeginPay, StockUnchanged, inventoryVars
  <2> QED
    BY <1>1, <1>6, <2>1, BeginStep DEF BeginPay, Step
<1>7. ASSUME NEW h \in Handler, NEW o \in Order, Expire(h, o)
      PROVE  StockInv'
  BY <1>1, <1>7, CancelRowStep DEF Expire
<1>8. ASSUME UNCHANGED <<orders, handlers, reservations>>
      PROVE  StockInv'
  BY <1>1, <1>8 DEF StockInv, ReferencesOK, Refers, HeldOK, Holding, ReleaseOK, At, CreateOK,
                    StartedOK, OpenOrderHasStock, IsActive
<1>9. ASSUME NEW h \in Handler, NEW m \in Payment, CancelForRefund(h, m)
      PROVE  StockInv'
  <2>1. CASE orders[OrderOf[m]].status = "paid" /\ CancelRow(h, OrderOf[m])
    BY <1>1, <2>1, CancelRowStep, OrderAssumption
  <2>2. CASE StockUnchanged /\ UNCHANGED <<orders, handlers>>
    BY <1>8, <2>2 DEF StockUnchanged, inventoryVars
  <2> QED
    BY <1>9, <2>1, <2>2 DEF CancelForRefund
<1>10. ASSUME NEW m \in Payment, Capture(m) \/ Refund(m) \/ LoseRefundEvent(m)
       PROVE  StockInv'
  BY <1>8, <1>10 DEF Capture, Refund, LoseRefundEvent, StockUnchanged, inventoryVars
<1>11. ASSUME NEW s \in Sku, Restock(s)
       PROVE  StockInv'
  BY <1>8, <1>11 DEF Restock, UpsertItem, orderVars
<1>12. CASE UNCHANGED vars
  BY <1>8, <1>12 DEF vars, orderVars
<1> QED
  BY <1>3, <1>4, <1>5, <1>6, <1>7, <1>9, <1>10, <1>11, <1>12 DEF Next, Handler

LEMMA InitStock == Init => StockInv
<1> SUFFICES ASSUME Init PROVE StockInv
  OBVIOUS
<1>1. /\ \A o \in Order : orders[o].status = "none" /\ orders[o].reservation = NoReservation
      /\ \A h \in Handler : /\ handlers[h].step = "idle"
                            /\ handlers[h].rsv = NoReservation
                            /\ handlers[h].row.reservation = NoReservation
  BY DEF Init, NoRow, IdleJob
<1>2. ReferencesOK
  BY <1>1 DEF ReferencesOK, Refers
<1>3. HeldOK /\ ReleaseOK /\ CreateOK /\ StartedOK /\ OpenOrderHasStock
  BY <1>1 DEF HeldOK, Holding, ReleaseOK, At, CreateOK, StartedOK, OpenOrderHasStock
<1> QED
  BY <1>2, <1>3, InitShapes DEF StockInv

\* A pending or paid order has its stock put aside (CreateOrder, MarkOrderPaid,
\* ShipOrder, CancelOrder, expiry and refunds, interleaved and failing anywhere),
\* provided an error of the database means that the row was not written.
THEOREM OpenOrderHasStockHolds ==
    ASSUME "unacked" \notin Faults PROVE Spec => []OpenOrderHasStock
<1>1. StockInv /\ [Next]_vars => StockInv'
  BY NextStock
<1>2. StockInv => OpenOrderHasStock
  BY DEF StockInv
<1> QED
  BY <1>1, <1>2, InitStock, PTL DEF Spec

-----------------------------------------------------------------------------
(* Who paid for what.                                                      *)

\* The payment a row carries was captured, in full, for that order.
PaidRow(row, o) ==
    row.payment # NoPayment =>
        /\ row.payment \in captured \ Mispaid
        /\ OrderOf[row.payment] = o

\* A handler works for a captured payment of its order, whose amount has been
\* compared once it is past the reservation of a reinstatement.
PayingJob(job) ==
    /\ PaidRow(job.row, job.order)
    /\ job.step \in {"reinstate", "reread", "persist", "reconcile", "reinstateAgain",
                     "persistAgain"} =>
          /\ job.payment \in captured
          /\ OrderOf[job.payment] = job.order
          /\ job.step # "reinstate" => job.payment \notin Mispaid

PaidInv ==
    /\ TypeOK /\ JobsOK
    /\ \A o \in Order : PaidRow(orders[o], o)
    /\ \A h \in Handler : PayingJob(handlers[h])

\* A step of one handler that writes at most paid rows and knows what it does.
LEMMA PayStep ==
    ASSUME PaidInv, TypeOK', JobsOK', captured \subseteq captured', NEW h \in Handler,
           \A g \in Handler \ {h} : handlers'[g] = handlers[g],
           PayingJob(handlers[h])',
           \A o \in Order : orders'[o] = orders[o] \/ PaidRow(orders[o], o)'
    PROVE  PaidInv'
<1>1. ASSUME NEW o \in Order
      PROVE  PaidRow(orders[o], o)'
  BY DEF PaidInv, PaidRow
<1>2. ASSUME NEW g \in Handler
      PROVE  PayingJob(handlers[g])'
  BY DEF PaidInv, PayingJob, PaidRow
<1> QED
  BY <1>1, <1>2 DEF PaidInv

\* A row is written only as paid by its payment.
Saves == UNCHANGED orders \/ \E o \in Order, row \in Row : Write(o, row) /\ PaidRow(row, o)

LEMMA PaySaveReturn ==
    ASSUME PaidInv, TypeOK', JobsOK', UNCHANGED captured, NEW h \in Handler, Return(h), Saves
    PROVE  PaidInv'
<1>1. /\ handlers'[h] = IdleJob
      /\ \A g \in Handler \ {h} : handlers'[g] = handlers[g]
  BY JobUpdate DEF Return, PaidInv
<1>2. PayingJob(IdleJob)'
  BY DEF PayingJob, PaidRow, IdleJob, NoRow
<1>3. \A o \in Order : orders'[o] = orders[o] \/ PaidRow(orders[o], o)'
  BY RowUpdate DEF PaidInv, PaidRow, Saves
<1> QED
  BY <1>1, <1>2, <1>3, PayStep

LEMMA PayGoto ==
    ASSUME PaidInv, TypeOK', JobsOK', UNCHANGED captured, NEW h \in Handler, NEW step,
           Goto(h, step), Saves,
           \/ step \in {"release", "shipIfPaid"}
           \/ /\ handlers[h].step \in {"reread", "persist"}
              /\ step # "reinstate"
    PROVE  PaidInv'
<1>1. /\ handlers'[h].step = step
      /\ handlers'[h].order = handlers[h].order
      /\ handlers'[h].payment = handlers[h].payment
      /\ handlers'[h].row = handlers[h].row
      /\ \A g \in Handler \ {h} : handlers'[g] = handlers[g]
  BY GotoUpdate DEF PaidInv
<1>2. PayingJob(handlers[h])'
  BY <1>1 DEF PaidInv, PayingJob, PaidRow
<1>3. \A o \in Order : orders'[o] = orders[o] \/ PaidRow(orders[o], o)'
  BY RowUpdate DEF PaidInv, PaidRow, Saves
<1> QED
  BY <1>1, <1>2, <1>3, PayStep

LEMMA PayAbandon ==
    ASSUME PaidInv, TypeOK', JobsOK', UNCHANGED captured, NEW h \in Handler, Abandon(h), Saves
    PROVE  PaidInv'
  BY PayGoto, PaySaveReturn DEF Abandon

LEMMA PayReread ==
    ASSUME PaidInv, TypeOK', JobsOK', UNCHANGED <<captured, orders>>, NEW h \in Handler,
           NEW step \in {"reinstate", "reinstateAgain"},
           GotoWith(h, step, orders[handlers[h].order]),
           handlers[h].step \in {"reread", "reconcile"}
    PROVE  PaidInv'
<1>1. handlers \in [Handler -> Job] /\ handlers[h].order \in Order
  BY DEF PaidInv, TypeOK, JobsOK, JobOK
<1>2. /\ handlers'[h].step = step
      /\ handlers'[h].order = handlers[h].order
      /\ handlers'[h].payment = handlers[h].payment
      /\ handlers'[h].row = orders[handlers[h].order]
      /\ \A g \in Handler \ {h} : handlers'[g] = handlers[g]
  BY <1>1 DEF GotoWith, Job
<1>3. PayingJob(handlers[h])'
  BY <1>1, <1>2 DEF PaidInv, PayingJob, PaidRow
<1> QED
  BY <1>2, <1>3, PayStep

LEMMA PayBegin ==
    ASSUME PaidInv, TypeOK', JobsOK', UNCHANGED <<captured, orders>>, NEW h \in Handler,
           NEW o \in Order, NEW m, NEW step, Begin(h, step, o, m),
           \/ step \in {"reserve", "commit", "saveCanceled", "saveFulfilled"}
           \/ /\ m \in captured /\ OrderOf[m] = o
              /\ step \in {"reinstate", "reread"}
              /\ step = "reread" => m \notin Mispaid
    PROVE  PaidInv'
<1>1. /\ handlers'[h] = [step |-> step, order |-> o, payment |-> m, row |-> orders[o],
                         rsv |-> NoReservation]
      /\ \A g \in Handler \ {h} : handlers'[g] = handlers[g]
  BY JobUpdate DEF Begin, PaidInv
<1>2. PayingJob(handlers[h])'
  BY <1>1 DEF PaidInv, PayingJob, PaidRow
<1> QED
  BY <1>1, <1>2, PayStep

LEMMA PayReserve ==
    ASSUME PaidInv, TypeOK', JobsOK', NEW h \in Handler, CallReserve(h)
    PROVE  PaidInv'
<1>1. UNCHANGED <<captured, orders>> /\ Reserves(h)
  BY DEF CallReserve, PaymentsUnchanged
<1>2. ASSUME NEW r \in ReservationId, AfterReserve(h, r)
      PROVE  PaidInv'
  <2>1. handlers \in [Handler -> Job] /\ handlers[h] \in Job /\ handlers[h].row \in Row
    BY DEF PaidInv, TypeOK, Job
  <2>2. /\ \/ handlers[h].step = "reserve" /\ handlers'[h].step = "save"
           \/ handlers[h].step = "reinstateAgain" /\ handlers'[h].step = "persistAgain"
           \/ /\ handlers[h].step = "reinstate"
              /\ \/ handlers'[h].step = "release"
                 \/ handlers'[h].step = "persist" /\ handlers[h].payment \notin Mispaid
        /\ handlers'[h].order = handlers[h].order
        /\ handlers'[h].payment = handlers[h].payment
        /\ handlers'[h].row.payment = handlers[h].row.payment
        /\ \A g \in Handler \ {h} : handlers'[g] = handlers[g]
    BY <1>1, <1>2, <2>1 DEF AfterReserve, Reserves, At, Job, Row
  <2>3. PayingJob(handlers[h])'
    BY <1>1, <2>2 DEF PaidInv, PayingJob, PaidRow
  <2> QED
    BY <1>1, <2>2, <2>3, PayStep
<1>3. CASE Return(h)
  BY <1>1, <1>3, PaySaveReturn DEF Saves
<1> QED
  BY <1>2, <1>3 DEF CallReserve

\* The row that SavePaid writes carries the payment its handler works for.
LEMMA PaySavePaid ==
    ASSUME PaidInv, TypeOK', JobsOK', UNCHANGED captured, NEW h \in Handler,
           handlers[h].step \in {"persist", "persistAgain"}, SavePaid(h), Return(h) \/ Abandon(h)
    PROVE  PaidInv'
<1> DEFINE o == handlers[h].order
           row == [status |-> "paid", reservation |-> handlers[h].row.reservation,
                   payment |-> handlers[h].payment]
<1>1. o \in Order /\ handlers[h] \in Job
  BY DEF PaidInv, TypeOK, JobsOK, JobOK
<1>2. row \in Row
  BY <1>1 DEF Job, Row, Status
<1>3. PaidRow(row, o)
  BY DEF PaidInv, PayingJob, PaidRow
<1> QED
  BY <1>1, <1>2, <1>3, PaySaveReturn, PayAbandon DEF SavePaid, Saves

LEMMA NextPaid ==
    ASSUME PaidInv, [Next]_vars
    PROVE  PaidInv'
<1>1. TypeOK' /\ JobsOK'
  BY StepShapes DEF PaidInv
<1> DEFINE o(h) == handlers[h].order
<1>2. \A h \in Handler : /\ handlers[h].step # "idle" => o(h) \in Order /\ orders[o(h)] \in Row
                         /\ handlers[h].row \in Row
                         /\ handlers[h].rsv \in ReservationId \cup {NoReservation}
                         /\ PaidRow(handlers[h].row, o(h))
  BY DEF PaidInv, PayingJob, TypeOK, JobsOK, JobOK, Job
<1>3. ASSUME NEW h \in Handler, CallReserve(h)
      PROVE  PaidInv'
  BY <1>1, <1>3, PayReserve
<1>4. ASSUME NEW h \in Handler, CallRelease(h)
      PROVE  PaidInv'
  BY <1>1, <1>4, PaySaveReturn DEF CallRelease, PaymentsUnchanged, Saves
<1>5. ASSUME NEW h \in Handler, CallCommit(h)
      PROVE  PaidInv'
  <2>1. UNCHANGED <<captured, orders>> /\ (Goto(h, "shipIfPaid") \/ Return(h))
    BY <1>5 DEF CallCommit, PaymentsUnchanged
  <2> QED
    BY <1>1, <2>1, PayGoto, PaySaveReturn DEF Saves
<1>6. ASSUME NEW h \in Handler, SaveCreated(h)
      PROVE  PaidInv'
  <2>1. UNCHANGED captured /\ handlers[h].step = "save"
    BY <1>6 DEF SaveCreated, PaymentsUnchanged, At
  <2> DEFINE row == [status |-> "pending", reservation |-> handlers[h].rsv,
                     payment |-> NoPayment]
  <2>2. row \in Row /\ PaidRow(row, o(h)) /\ o(h) \in Order
    BY <1>2, <2>1 DEF Row, Status, PaidRow
  <2>3. /\ UNCHANGED orders \/ Write(o(h), row)
        /\ Return(h) \/ Goto(h, "release")
    BY <1>6 DEF SaveCreated
  <2> HIDE DEF row
  <2>4. Saves
    BY <2>2, <2>3 DEF Saves
  <2> QED
    BY <1>1, <2>1, <2>3, <2>4, PaySaveReturn, PayGoto
<1>7. ASSUME NEW h \in Handler, Reread(h)
      PROVE  PaidInv'
  <2>1. UNCHANGED <<captured, orders>> /\ handlers[h].step = "reread"
    BY <1>7 DEF Reread, PaymentsUnchanged, At
  <2>2. \/ Return(h) \/ Goto(h, "persist") \/ GotoWith(h, "reinstate", orders[o(h)])
    BY <1>7 DEF Reread
  <2> QED
    BY <1>1, <2>1, <2>2, PaySaveReturn, PayGoto, PayReread DEF Saves
<1>8. ASSUME NEW h \in Handler, Reconcile(h)
      PROVE  PaidInv'
  <2>1. UNCHANGED <<captured, orders>> /\ handlers[h].step = "reconcile"
    BY <1>8 DEF Reconcile, PaymentsUnchanged, At
  <2>2. Abandon(h) \/ GotoWith(h, "reinstateAgain", orders[o(h)])
    BY <1>8 DEF Reconcile
  <2> QED
    BY <1>1, <2>1, <2>2, PayAbandon, PayReread DEF Saves
<1>9. ASSUME NEW h \in Handler, Persist(h) \/ PersistAgain(h)
      PROVE  PaidInv'
  <2>1. UNCHANGED captured /\ handlers[h].step \in {"persist", "persistAgain"}
    BY <1>9 DEF Persist, PersistAgain, PaymentsUnchanged, At
  <2>2. \/ SavePaid(h) /\ (Return(h) \/ Abandon(h))
        \/ UNCHANGED orders /\ Abandon(h)
        \/ UNCHANGED orders /\ Goto(h, "reconcile") /\ handlers[h].step = "persist"
    BY <1>9 DEF Persist, PersistAgain, At
  <2> QED
    BY <1>1, <2>1, <2>2, PaySavePaid, PayAbandon, PayGoto DEF Saves
<1>10. ASSUME NEW h \in Handler, ShipIfPaid(h)
       PROVE  PaidInv'
  <2> DEFINE row == [orders[o(h)] EXCEPT !.status = "in_transit"]
  <2>1. UNCHANGED captured /\ handlers[h].step = "shipIfPaid" /\ Return(h)
    BY <1>10 DEF ShipIfPaid, PaymentsUnchanged, At
  <2>2. row \in Row /\ row.payment = orders[o(h)].payment /\ o(h) \in Order
    BY <1>2, <2>1 DEF Row, Status
  <2>3. PaidRow(row, o(h))
    BY <2>2 DEF PaidInv, PaidRow
  <2>4. UNCHANGED orders \/ Write(o(h), row)
    BY <1>10 DEF ShipIfPaid
  <2> HIDE DEF row
  <2> QED
    BY <1>1, <2>1, <2>2, <2>3, <2>4, PaySaveReturn DEF Saves
<1>11. ASSUME NEW h \in Handler, SaveFulfilled(h)
       PROVE  PaidInv'
  <2> DEFINE row == [handlers[h].row EXCEPT !.status = "fulfilled"]
  <2>1. UNCHANGED captured /\ handlers[h].step = "saveFulfilled" /\ Return(h)
    BY <1>11 DEF SaveFulfilled, PaymentsUnchanged, At
  <2>2. row \in Row /\ row.payment = handlers[h].row.payment /\ o(h) \in Order
    BY <1>2, <2>1 DEF Row, Status
  <2>3. PaidRow(row, o(h))
    BY <1>2, <2>2 DEF PaidRow
  <2>4. UNCHANGED orders \/ Write(o(h), row)
    BY <1>11 DEF SaveFulfilled
  <2> HIDE DEF row
  <2> QED
    BY <1>1, <2>1, <2>2, <2>3, <2>4, PaySaveReturn DEF Saves
<1>12. ASSUME NEW h \in Handler, SaveCanceled(h)
       PROVE  PaidInv'
  <2> DEFINE row == [handlers[h].row EXCEPT !.status = "canceled"]
  <2>1. UNCHANGED captured /\ handlers[h].step = "saveCanceled"
    BY <1>12 DEF SaveCanceled, PaymentsUnchanged, At
  <2>2. CASE Write(o(h), row) /\ GotoRelease(h, handlers[h].row.reservation)
    <3>1. row \in Row /\ row.payment = handlers[h].row.payment /\ o(h) \in Order
      BY <1>2, <2>1 DEF Row, Status
    <3>2. PaidRow(row, o(h))
      BY <1>2, <3>1 DEF PaidRow
    <3>3. \A p \in Order : orders'[p] = orders[p] \/ PaidRow(orders[p], p)'
      <4> HIDE DEF row
      <4> QED
        BY <2>1, <2>2, <3>1, <3>2, RowUpdate DEF PaidInv, PaidRow
    <3>4. /\ handlers'[h].step = "release"
          /\ handlers'[h].order = handlers[h].order
          /\ handlers'[h].row = handlers[h].row
          /\ \A g \in Handler \ {h} : handlers'[g] = handlers[g]
      <4>1. handlers \in [Handler -> Job]
        BY DEF PaidInv, TypeOK
      <4> QED
        BY <2>2, <4>1 DEF GotoRelease, Job
    <3>5. PayingJob(handlers[h])'
      BY <2>1, <3>4 DEF PaidInv, PayingJob, PaidRow
    <3> QED
      BY <1>1, <2>1, <3>3, <3>4, <3>5, PayStep
  <2>3. CASE UNCHANGED orders /\ Return(h)
    BY <1>1, <2>1, <2>3, PaySaveReturn DEF Saves
  <2> QED
    BY <1>12, <2>2, <2>3 DEF SaveCanceled
<1>13. ASSUME NEW h \in Handler, Crash(h)
       PROVE  PaidInv'
  BY <1>1, <1>13, PaySaveReturn DEF Crash, PaymentsUnchanged, Saves
<1>14. ASSUME NEW h \in Handler, NEW p \in Order,
              \/ BeginCreate(h, p) \/ BeginShip(h, p) \/ BeginCancel(h, p) \/ BeginFulfil(h, p)
       PROVE  PaidInv'
  <2>1. /\ UNCHANGED <<captured, orders>>
        /\ \/ Begin(h, "reserve", p, NoPayment) \/ Begin(h, "commit", p, NoPayment)
           \/ Begin(h, "saveCanceled", p, NoPayment) \/ Begin(h, "saveFulfilled", p, NoPayment)
    BY <1>14 DEF BeginCreate, BeginShip, BeginCancel, BeginFulfil, PaymentsUnchanged
  <2> QED
    BY <1>1, <2>1, PayBegin
<1>15. ASSUME NEW h \in Handler, NEW m \in Payment, BeginPay(h, m)
       PROVE  PaidInv'
  <2>1. /\ UNCHANGED <<captured, orders>> /\ m \in captured /\ OrderOf[m] \in Order
        /\ \/ m \notin Mispaid /\ Begin(h, "reread", OrderOf[m], m)
           \/ Begin(h, "reinstate", OrderOf[m], m)
    BY <1>15, OrderAssumption DEF BeginPay, PaymentsUnchanged
  <2> QED
    BY <1>1, <2>1, PayBegin
<1>16. ASSUME NEW h \in Handler, NEW p \in Order, CancelRow(h, p), UNCHANGED captured
       PROVE  PaidInv'
  <2> DEFINE row == [orders[p] EXCEPT !.status = "canceled"]
  <2>1. row.payment = orders[p].payment
    BY DEF PaidInv, TypeOK, Row
  <2>2. PaidRow(row, p) /\ row \in Row
    BY <2>1 DEF PaidInv, TypeOK, Row, Status, PaidRow
  <2>3. Write(p, row)
    BY <1>16 DEF CancelRow
  <2>4. \A q \in Order : orders'[q] = orders[q] \/ PaidRow(orders[q], q)'
    <3> HIDE DEF row
    <3> QED
      BY <1>16, <2>2, <2>3, RowUpdate DEF PaidInv, PaidRow
  <2>5. /\ handlers'[h] = [step |-> "release", order |-> p, payment |-> NoPayment,
                           row |-> NoRow, rsv |-> orders[p].reservation]
        /\ \A g \in Handler \ {h} : handlers'[g] = handlers[g]
    BY <1>16, JobUpdate DEF CancelRow, PaidInv
  <2>6. PayingJob(handlers[h])'
    BY <2>5 DEF PayingJob, PaidRow, NoRow
  <2> QED
    BY <1>1, <1>16, <2>4, <2>5, <2>6, PayStep
<1>17. ASSUME NEW h \in Handler, NEW p \in Order, Expire(h, p)
       PROVE  PaidInv'
  BY <1>16, <1>17 DEF Expire, PaymentsUnchanged
<1>18. ASSUME UNCHANGED <<orders, handlers>>, captured \subseteq captured'
       PROVE  PaidInv'
  BY <1>1, <1>18 DEF PaidInv, PayingJob, PaidRow
<1>19. ASSUME NEW h \in Handler, NEW m \in Payment, CancelForRefund(h, m)
       PROVE  PaidInv'
  <2>1. UNCHANGED captured /\ OrderOf[m] \in Order
        /\ (CancelRow(h, OrderOf[m]) \/ UNCHANGED <<orders, handlers>>)
    BY <1>19, OrderAssumption DEF CancelForRefund
  <2> QED
    BY <1>16, <1>18, <2>1
<1>20. ASSUME NEW m \in Payment, Capture(m) \/ Refund(m) \/ LoseRefundEvent(m)
       PROVE  PaidInv'
  BY <1>18, <1>20 DEF Capture, Refund, LoseRefundEvent
<1>21. ASSUME NEW s \in Sku, Restock(s)
       PROVE  PaidInv'
  BY <1>18, <1>21 DEF Restock, orderVars
<1>22. CASE UNCHANGED vars
  BY <1>18, <1>22 DEF vars, orderVars
<1> QED
  BY <1>3, <1>4, <1>5, <1>6, <1>7, <1>8, <1>9, <1>10, <1>11, <1>12, <1>13, <1>14, <1>15,
     <1>17, <1>19, <1>20, <1>21, <1>22 DEF Next, Continue, Handler

\* An order that names a payment was paid the full amount by it, however often a
\* payment event is delivered and whatever the handlers read before
\* (payment_consumer.go:22-35, MarkOrderPaid).
THEOREM PaidByItsPaymentHolds == Spec => []PaidByItsPayment
<1>1. Init => PaidInv
  <2> SUFFICES ASSUME Init PROVE PaidInv
    OBVIOUS
  <2>1. \A o \in Order : PaidRow(orders[o], o)
    BY DEF Init, NoRow, PaidRow
  <2>2. \A h \in Handler : PayingJob(handlers[h])
    BY DEF Init, IdleJob, NoRow, PayingJob, PaidRow
  <2> QED
    BY <2>1, <2>2, InitShapes DEF PaidInv
<1>2. PaidInv /\ [Next]_vars => PaidInv'
  BY NextPaid
<1>3. PaidInv => PaidByItsPayment
  BY DEF PaidInv, PaidRow, PaidByItsPayment
<1> QED
  BY <1>1, <1>2, <1>3, PTL DEF Spec

-----------------------------------------------------------------------------
(* How the status of an order moves when staff do not cancel.              *)

NoStaffCancel == \A h \in Handler : handlers[h].step # "saveCanceled"

\* The moves of CreateOrder, MarkOrderPaid, ShipOrder, FulfillOrder, expiry and
\* refund: each UPDATE compares the status it moves from, except fulfilment's.
Move(o) ==
    \/ orders'[o] = orders[o]
    \/ orders[o].status = "none" /\ orders'[o].status = "pending"
    \/ /\ orders[o].status \in {"pending", "canceled"} /\ orders'[o].status = "paid"
       /\ \E h \in Handler :
             handlers[h].order = o /\ handlers[h].step \in {"persist", "persistAgain"}
    \/ orders[o].status = "paid" /\ orders'[o].status = "in_transit"
    \/ orders'[o].status = "fulfilled"
    \/ orders[o].status = "pending" /\ orders'[o].status = "canceled"
    \/ /\ orders[o].status = "paid" /\ orders'[o].status = "canceled"
       /\ orders[o].payment \in refunded

LEMMA StepMoves ==
    ASSUME StockInv, NoStaffCancel, [Next]_vars, NEW o \in Order
    PROVE  Move(o)
<1>1. ASSUME NEW h \in Handler, SaveCreated(h)
      PROVE  Move(o)
  <2> DEFINE row == [status |-> "pending", reservation |-> handlers[h].rsv,
                     payment |-> NoPayment]
  <2>1. orders[handlers[h].order].status = "none" /\ handlers[h].order \in Order
    BY <1>1 DEF SaveCreated, At, StockInv, CreateOK, JobsOK, JobOK, NoRow
  <2>2. UNCHANGED orders \/ Write(handlers[h].order, row)
    BY <1>1 DEF SaveCreated
  <2>3. row.status = "pending"
    OBVIOUS
  <2> HIDE DEF row
  <2> QED
    BY <2>1, <2>2, <2>3, RowUpdate DEF Move, StockInv
<1>2. ASSUME NEW h \in Handler, Persist(h) \/ PersistAgain(h)
      PROVE  Move(o)
  <2> DEFINE row == [status |-> "paid", reservation |-> handlers[h].row.reservation,
                     payment |-> handlers[h].payment]
  <2>1. handlers[h].order \in Order /\ handlers[h].step \in {"persist", "persistAgain"}
    BY <1>2 DEF Persist, PersistAgain, At, StockInv, JobsOK, JobOK
  <2>2. \/ UNCHANGED orders
        \/ /\ orders[handlers[h].order].status \in {"pending", "canceled"}
           /\ Write(handlers[h].order, row)
    BY <1>2 DEF Persist, PersistAgain, SavePaid, PayableStatus
  <2>3. row.status = "paid"
    OBVIOUS
  <2> HIDE DEF row
  <2> QED
    BY <2>1, <2>2, <2>3, RowUpdate DEF Move, StockInv
<1>3. ASSUME NEW h \in Handler, ShipIfPaid(h)
      PROVE  Move(o)
  <2> DEFINE row == [orders[handlers[h].order] EXCEPT !.status = "in_transit"]
  <2>1. handlers[h].order \in Order
    BY <1>3 DEF ShipIfPaid, At, StockInv, JobsOK, JobOK
  <2>2. \/ UNCHANGED orders
        \/ orders[handlers[h].order].status = "paid" /\ Write(handlers[h].order, row)
    BY <1>3 DEF ShipIfPaid
  <2>3. row.status = "in_transit"
    BY <2>1 DEF StockInv, TypeOK, Row
  <2> HIDE DEF row
  <2> QED
    BY <2>1, <2>2, <2>3, RowUpdate DEF Move, StockInv
<1>4. ASSUME NEW h \in Handler, SaveFulfilled(h)
      PROVE  Move(o)
  <2> DEFINE row == [handlers[h].row EXCEPT !.status = "fulfilled"]
  <2>1. handlers[h].order \in Order /\ handlers[h].row \in Row
    BY <1>4 DEF SaveFulfilled, At, StockInv, TypeOK, Job, JobsOK, JobOK
  <2>2. UNCHANGED orders \/ Write(handlers[h].order, row)
    BY <1>4 DEF SaveFulfilled
  <2>3. row.status = "fulfilled"
    BY <2>1 DEF Row
  <2> HIDE DEF row
  <2> QED
    BY <2>1, <2>2, <2>3, RowUpdate DEF Move, StockInv
<1>5. ASSUME NEW h \in Handler, NEW p \in Order, CancelRow(h, p),
             \/ orders[p].status = "pending"
             \/ orders[p].status = "paid" /\ orders[p].payment \in refunded
      PROVE  Move(o)
  <2> DEFINE row == [orders[p] EXCEPT !.status = "canceled"]
  <2>1. Write(p, row)
    BY <1>5 DEF CancelRow
  <2>2. row.status = "canceled"
    BY DEF StockInv, TypeOK, Row
  <2> HIDE DEF row
  <2> QED
    BY <1>5, <2>1, <2>2, RowUpdate DEF Move, StockInv
<1>6. ASSUME NEW h \in Handler, NEW p \in Order, Expire(h, p)
      PROVE  Move(o)
  BY <1>5, <1>6 DEF Expire
<1>7. ASSUME NEW h \in Handler, NEW m \in Payment, CancelForRefund(h, m)
      PROVE  Move(o)
  <2>1. CASE /\ orders[OrderOf[m]].status = "paid" /\ orders[OrderOf[m]].payment = m
             /\ CancelRow(h, OrderOf[m])
    BY <1>5, <1>7, <2>1, OrderAssumption DEF CancelForRefund, StockInv, TypeOK
  <2>2. CASE UNCHANGED orders
    BY <2>2 DEF Move
  <2> QED
    BY <1>7, <2>1, <2>2 DEF CancelForRefund
<1>8. ASSUME UNCHANGED orders
      PROVE  Move(o)
  BY <1>8 DEF Move
<1>9. ASSUME NEW h \in Handler,
             \/ CallReserve(h) \/ CallRelease(h) \/ CallCommit(h) \/ Reread(h) \/ Reconcile(h)
             \/ Crash(h)
      PROVE  Move(o)
  BY <1>8, <1>9 DEF CallReserve, CallRelease, CallCommit, Reread, Reconcile, Crash
<1>10. ASSUME NEW h \in Handler, SaveCanceled(h)
       PROVE  Move(o)
  BY <1>10 DEF SaveCanceled, At, NoStaffCancel
<1>11. ASSUME NEW h \in Handler, NEW p \in Order,
              \/ BeginCreate(h, p) \/ BeginShip(h, p) \/ BeginCancel(h, p) \/ BeginFulfil(h, p)
       PROVE  Move(o)
  BY <1>8, <1>11 DEF BeginCreate, BeginShip, BeginCancel, BeginFulfil
<1>12. ASSUME NEW h \in Handler, NEW m \in Payment, BeginPay(h, m)
       PROVE  Move(o)
  BY <1>8, <1>12 DEF BeginPay
<1>13. ASSUME NEW m \in Payment, Capture(m) \/ Refund(m) \/ LoseRefundEvent(m)
       PROVE  Move(o)
  BY <1>8, <1>13 DEF Capture, Refund, LoseRefundEvent
<1>14. ASSUME NEW s \in Sku, Restock(s)
       PROVE  Move(o)
  BY <1>8, <1>14 DEF Restock, orderVars
<1>15. CASE UNCHANGED vars
  BY <1>8, <1>15 DEF vars, orderVars
<1> QED
  BY <1>1, <1>2, <1>3, <1>4, <1>6, <1>7, <1>9, <1>10, <1>11, <1>12, <1>13, <1>14, <1>15
     DEF Next, Continue, Handler

LEMMA NextNoStaffCancel ==
    ASSUME StockInv, NoStaffCancel, [Next]_vars, ~StaffCancels
    PROVE  NoStaffCancel'
<1> DEFINE Other(h) == \A g \in Handler \ {h} : handlers'[g] = handlers[g]
<1>1. handlers \in [Handler -> Job]
  BY DEF StockInv, TypeOK
<1>2. ASSUME NEW h \in Handler, NEW step, step # "saveCanceled", Goto(h, step)
      PROVE  NoStaffCancel'
  BY <1>2, GotoUpdate DEF NoStaffCancel, StockInv
<1>3. ASSUME NEW h \in Handler, Return(h)
      PROVE  NoStaffCancel'
  BY <1>3, JobUpdate DEF Return, IdleJob, NoStaffCancel, StockInv
<1>4. ASSUME NEW h \in Handler, Abandon(h)
      PROVE  NoStaffCancel'
  BY <1>2, <1>3, <1>4 DEF Abandon
<1>5. ASSUME NEW h \in Handler, NEW step, NEW p, NEW m, step # "saveCanceled",
             Begin(h, step, p, m)
      PROVE  NoStaffCancel'
  <2>1. /\ handlers'[h] = [step |-> step, order |-> p, payment |-> m, row |-> orders[p],
                           rsv |-> NoReservation]
        /\ Other(h)
    BY <1>5, JobUpdate DEF Begin, StockInv
  <2> QED
    BY <1>5, <2>1 DEF NoStaffCancel
<1>6. ASSUME NEW h \in Handler, NEW step, NEW row, step # "saveCanceled",
             GotoWith(h, step, row)
      PROVE  NoStaffCancel'
  <2>1. handlers'[h].step = step /\ Other(h)
    BY <1>1, <1>6 DEF GotoWith, Job
  <2> QED
    BY <1>6, <2>1 DEF NoStaffCancel
<1>7. ASSUME NEW h \in Handler, CallReserve(h)
      PROVE  NoStaffCancel'
  <2>1. ASSUME NEW r \in ReservationId, AfterReserve(h, r)
        PROVE  NoStaffCancel'
    <3>1. handlers'[h].step \in {"save", "persist", "persistAgain", "release"} /\ Other(h)
      BY <1>1, <1>7, <2>1 DEF AfterReserve, CallReserve, Reserves, At, Job
    <3> QED
      BY <3>1 DEF NoStaffCancel
  <2> QED
    BY <1>3, <1>7, <2>1 DEF CallReserve
<1>8. ASSUME NEW h \in Handler, Continue(h) \/ Crash(h)
      PROVE  NoStaffCancel'
  <2>1. ~SaveCanceled(h)
    BY DEF SaveCanceled, At, NoStaffCancel
  <2> QED
    BY <1>2, <1>3, <1>4, <1>6, <1>7, <1>8, <2>1
       DEF Continue, CallRelease, CallCommit, SaveCreated, Reread, Persist, Reconcile,
           PersistAgain, ShipIfPaid, SaveFulfilled, Crash
<1>9. ASSUME NEW h \in Handler, NEW p \in Order,
             \/ BeginCreate(h, p) \/ BeginShip(h, p) \/ BeginCancel(h, p) \/ BeginFulfil(h, p)
      PROVE  NoStaffCancel'
  BY <1>5, <1>9 DEF BeginCreate, BeginShip, BeginCancel, BeginFulfil
<1>10. ASSUME NEW h \in Handler, NEW m \in Payment, BeginPay(h, m)
       PROVE  NoStaffCancel'
  BY <1>5, <1>10 DEF BeginPay
<1>11. ASSUME NEW h \in Handler, NEW p \in Order, CancelRow(h, p)
       PROVE  NoStaffCancel'
  <2>1. handlers'[h].step = "release" /\ Other(h)
    BY <1>1, <1>11, JobUpdate DEF CancelRow, StockInv
  <2> QED
    BY <2>1 DEF NoStaffCancel
<1>12. ASSUME NEW h \in Handler, NEW m \in Payment, CancelForRefund(h, m)
       PROVE  NoStaffCancel'
  BY <1>11, <1>12, OrderAssumption DEF CancelForRefund, NoStaffCancel
<1>13. ASSUME UNCHANGED handlers
       PROVE  NoStaffCancel'
  BY <1>13 DEF NoStaffCancel
<1>14. ASSUME NEW m \in Payment, Capture(m) \/ Refund(m) \/ LoseRefundEvent(m)
       PROVE  NoStaffCancel'
  BY <1>13, <1>14 DEF Capture, Refund, LoseRefundEvent
<1>15. ASSUME NEW s \in Sku, Restock(s)
       PROVE  NoStaffCancel'
  BY <1>13, <1>15 DEF Restock, orderVars
<1>16. CASE UNCHANGED vars
  BY <1>13, <1>16 DEF vars, orderVars
<1> QED
  BY <1>8, <1>9, <1>10, <1>11, <1>12, <1>14, <1>15, <1>16 DEF Next, Expire, Handler

\* What the staff do not cancel ships for good: no late payment, expiry, refund or
\* fulfilment of a stale copy takes an order back out of in_transit or fulfilled.
THEOREM ShippedStaysShippedHolds ==
    ASSUME ~StaffCancels, "unacked" \notin Faults
    PROVE  Spec => ShippedStaysShipped
<1>1. Init => StockInv /\ NoStaffCancel
  BY InitStock DEF Init, IdleJob, NoStaffCancel
<1>2. StockInv /\ NoStaffCancel /\ [Next]_vars => StockInv' /\ NoStaffCancel'
  BY NextStock, NextNoStaffCancel
<1>3. StockInv /\ NoStaffCancel /\ [Next]_vars =>
        [\A o \in Order :
            /\ orders[o].status = "in_transit" => orders'[o].status \in {"in_transit", "fulfilled"}
            /\ orders[o].status = "fulfilled" => orders'[o].status = "fulfilled"]_orders
  BY StepMoves DEF Move
<1> QED
  BY <1>1, <1>2, <1>3, PTL DEF Spec, ShippedStaysShipped

\* When staff do not cancel, a paid order is canceled only because the payment it
\* carries was refunded: neither the expiry worker nor a refund of another payment
\* undoes it (payment_consumer.go:73-101, 146-219).
THEOREM OnlyRefundUndoesPaymentHolds ==
    ASSUME ~StaffCancels, "unacked" \notin Faults
    PROVE  Spec => OnlyRefundUndoesPayment
<1>1. Init => StockInv /\ NoStaffCancel
  BY InitStock DEF Init, IdleJob, NoStaffCancel
<1>2. StockInv /\ NoStaffCancel /\ [Next]_vars => StockInv' /\ NoStaffCancel'
  BY NextStock, NextNoStaffCancel
<1>3. StockInv /\ NoStaffCancel /\ [Next]_vars =>
        [\A o \in Order :
            orders[o].status = "paid" /\ orders'[o].status = "canceled" =>
                orders[o].payment \in refunded]_orders
  BY StepMoves DEF Move
<1> QED
  BY <1>1, <1>2, <1>3, PTL DEF Spec, OnlyRefundUndoesPayment

-----------------------------------------------------------------------------
(* Shipped once, and nothing put aside for nobody: the reservations of an  *)
(* order follow it, where one consumer handles payment.succeeded and no    *)
(* two payments pay the same order.                                        *)

\* The steps of MarkOrderPaid, which only a consumer of payment.succeeded takes.
PaySteps == {"reread", "reinstate", "persist", "reconcile", "reinstateAgain", "persistAgain"}

\* Left the warehouse.
Shipped == {"in_transit", "fulfilled"}

\* One consumer of payment.succeeded (one replica), at most one payment that pays an
\* order, and no cancels by staff: two payments of one order, or two consumers that
\* overlap, can pay an order again after it was refunded.
OnePayer ==
    /\ ~StaffCancels
    /\ "unacked" \notin Faults
    /\ \A g, h \in SucceededConsumer : g = h
    /\ \A m, n \in Payment \ Mispaid : OrderOf[m] = OrderOf[n] => m = n

\* A row says which payment paid it, and a shipped one names what was committed.
RowSettled(o) ==
    LET row == orders[o]
    IN  /\ row.status \in {"none", "pending"} => row.payment = NoPayment
        /\ row.status \in Shipped \cup {"paid"} => row.payment # NoPayment
        /\ row.payment # NoPayment => row.reservation # NoReservation
        /\ row.status \in Shipped => reservations[row.reservation].status = "committed"

\* Only the consumer works on an unpaid order; who ships or fulfils an order has read
\* the reservation and the payment that its row still has.
JobSettled(h) ==
    LET job == handlers[h]
        row == orders[job.order]
    IN  /\ job.step \in PaySteps =>
              /\ h \in SucceededConsumer
              /\ job.payment \notin Mispaid => row.payment = NoPayment
        /\ job.step \in {"commit", "shipIfPaid"} =>
              row.payment # NoPayment /\ job.row.reservation = row.reservation
        /\ job.step = "shipIfPaid" => reservations[row.reservation].status = "committed"
        /\ job.step = "saveFulfilled" =>
              /\ row.status \in Shipped
              /\ job.row.reservation = row.reservation
              /\ job.row.payment = row.payment

\* What was committed is the reservation of an order that was paid.
CommittedOK ==
    \A r \in DOMAIN reservations : reservations[r].status = "committed" =>
        LET row == orders[reservations[r].order]
        IN  row.payment # NoPayment /\ row.reservation = r

SettledInv ==
    /\ \A o \in Order : RowSettled(o)
    /\ \A h \in Handler : JobSettled(h)
    /\ CommittedOK

\* Whoever takes a reservation has none, and holds it for an order still canceled.
JobTidy(h) ==
    LET job == handlers[h]
    IN  /\ job.step \in {"reserve", "reinstate", "reconcile", "reinstateAgain"} =>
              job.rsv = NoReservation
        /\ \/ job.step = "reinstate"
           \/ job.step = "persist" /\ job.rsv # NoReservation
           => orders[job.order].status = "canceled"

\* An open order counts on reservation r.
Owed(r) ==
    LET row == orders[reservations[r].order]
    IN  row.reservation = r /\ row.status \in {"pending", "paid"}

\* Handler h will save or release reservation r.
Kept(h, r) == handlers[h].rsv = r /\ (Holding(h) \/ At(h, "release"))

\* What is put aside is owed to an order or in somebody's hands.
ActiveOK ==
    \A r \in DOMAIN reservations :
        IsActive(r) => Owed(r) \/ \E h \in Handler : Kept(h, r)

TidyInv == (\A h \in Handler : JobTidy(h)) /\ ActiveOK

\* A row that carries a payment is written only to move its status on.
Keeps(o) ==
    /\ orders'[o].payment = orders[o].payment
    /\ orders'[o].reservation = orders[o].reservation
    /\ orders[o].status \in Shipped => orders'[o].status \in Shipped

LEMMA SettledStep ==
    ASSUME OnePayer, StockInv, SettledInv, NEW h \in Handler,
           \A g \in Handler \ {h} : handlers'[g] = handlers[g],
           \A r \in DOMAIN reservations :
              /\ r \in DOMAIN reservations'
              /\ reservations[r].status = "committed" => reservations'[r].status = "committed",
           \A o \in Order :
              \/ Keeps(o)
              \/ /\ orders[o].payment = NoPayment
                 /\ orders'[o].payment = NoPayment \/ handlers[h].step \in PaySteps,
           JobSettled(h)', CommittedOK', \A o \in Order : RowSettled(o)'
    PROVE  SettledInv'
<1>1. ASSUME NEW g \in Handler \ {h}
      PROVE  JobSettled(g)'
  <2> DEFINE o == handlers[g].order
             row == orders[o]
  <2>1. CASE handlers[g].step \notin PaySteps \cup {"commit", "shipIfPaid", "saveFulfilled"}
    BY <2>1 DEF JobSettled
  <2>2. CASE handlers[g].step \in PaySteps \cup {"commit", "shipIfPaid", "saveFulfilled"}
    <3>1. o \in Order
      BY <2>2 DEF PaySteps, StockInv, JobsOK, JobOK
    <3>2. JobSettled(g) /\ RowSettled(o)
      BY <3>1 DEF SettledInv
    <3>3. Refers(row.reservation, o)
      BY <3>1 DEF StockInv, ReferencesOK
    <3>4. CASE handlers[g].step \in PaySteps
      <4>1. g \in SucceededConsumer /\ handlers[h].step \notin PaySteps
        BY <3>2, <3>4 DEF JobSettled, SettledInv, OnePayer
      <4>2. handlers[g].payment \notin Mispaid => orders'[o].payment = NoPayment
        BY <3>1, <3>2, <3>4, <4>1 DEF JobSettled, Keeps
      <4> QED
        BY <3>4, <4>1, <4>2 DEF JobSettled, PaySteps
    <3>5. CASE handlers[g].step \in {"commit", "shipIfPaid"}
      <4>1. row.payment # NoPayment /\ handlers[g].row.reservation = row.reservation
        BY <3>2, <3>5 DEF JobSettled
      <4>2. Keeps(o) /\ row.reservation \in DOMAIN reservations
        BY <3>1, <3>2, <3>3, <4>1 DEF RowSettled, Refers
      <4> QED
        BY <3>2, <3>5, <4>1, <4>2 DEF JobSettled, Keeps, PaySteps
    <3>6. CASE handlers[g].step = "saveFulfilled"
      <4>1. Keeps(o)
        BY <3>1, <3>2, <3>6 DEF JobSettled, RowSettled
      <4> QED
        BY <3>2, <3>6, <4>1 DEF JobSettled, Keeps, PaySteps
    <3> QED
      BY <2>2, <3>4, <3>5, <3>6
  <2> QED
    BY <2>1, <2>2
<1> QED
  BY <1>1 DEF SettledInv

\* A job changes, and perhaps a reservation appears or is released.
LEMMA SettledJob ==
    ASSUME OnePayer, StockInv, SettledInv, NEW h \in Handler, UNCHANGED orders,
           \A g \in Handler \ {h} : handlers'[g] = handlers[g],
           \A r \in DOMAIN reservations :
              /\ r \in DOMAIN reservations'
              /\ reservations[r].status = "committed" => reservations'[r].status = "committed",
           \A r \in DOMAIN reservations' : reservations'[r].status = "committed" =>
              /\ r \in DOMAIN reservations /\ reservations[r].status = "committed"
              /\ reservations'[r].order = reservations[r].order,
           JobSettled(h)'
    PROVE  SettledInv'
<1>1. \A o \in Order : Keeps(o)
  BY DEF Keeps
<1>2. CommittedOK'
  BY DEF SettledInv, CommittedOK
<1>3. ASSUME NEW o \in Order
      PROVE  RowSettled(o)'
  <2>1. RowSettled(o) /\ Refers(orders[o].reservation, o)
    BY DEF SettledInv, StockInv, ReferencesOK
  <2>2. orders[o].status \in Shipped => orders[o].reservation \in DOMAIN reservations
    BY <2>1 DEF RowSettled, Refers
  <2> QED
    BY <2>1, <2>2 DEF RowSettled, Shipped
<1> QED
  BY <1>1, <1>2, <1>3, SettledStep

LEMMA SettledReturn ==
    ASSUME OnePayer, StockInv, SettledInv, NEW h \in Handler, Return(h),
           UNCHANGED <<orders, reservations>>
    PROVE  SettledInv'
<1>1. /\ handlers'[h].step = "idle"
      /\ \A g \in Handler \ {h} : handlers'[g] = handlers[g]
  <2>1. /\ handlers'[h] = IdleJob
        /\ \A g \in Handler \ {h} : handlers'[g] = handlers[g]
    BY JobUpdate DEF Return, StockInv
  <2> QED
    BY <2>1 DEF IdleJob
<1>2. JobSettled(h)'
  BY <1>1 DEF JobSettled, PaySteps
<1> QED
  BY <1>1, <1>2, SettledJob

\* On to another step of the same payment, or to a release.
LEMMA SettledGoto ==
    ASSUME OnePayer, StockInv, SettledInv, NEW h \in Handler, UNCHANGED <<orders, reservations>>,
           NEW step, Goto(h, step),
           \/ step = "release"
           \/ step \in PaySteps /\ handlers[h].step \in PaySteps
    PROVE  SettledInv'
<1>1. /\ handlers'[h].step = step
      /\ handlers'[h].order = handlers[h].order
      /\ handlers'[h].payment = handlers[h].payment
      /\ handlers'[h].row = handlers[h].row
      /\ \A g \in Handler \ {h} : handlers'[g] = handlers[g]
  BY GotoUpdate DEF StockInv
<1>2. JobSettled(h)'
  BY <1>1 DEF JobSettled, SettledInv, PaySteps
<1> QED
  BY <1>1, <1>2, SettledJob

LEMMA SettledAbandon ==
    ASSUME OnePayer, StockInv, SettledInv, NEW h \in Handler, UNCHANGED <<orders, reservations>>,
           Abandon(h)
    PROVE  SettledInv'
  BY SettledReturn, SettledGoto DEF Abandon

-----------------------------------------------------------------------------
(* One step of each kind.                                                  *)

\* Reread and Reconcile take up a canceled order, for the same payment.
LEMMA SettledReread ==
    ASSUME OnePayer, StockInv, PaidInv, SettledInv, NEW h \in Handler,
           UNCHANGED <<orders, reservations>>,
           handlers[h].step \in {"reread", "reconcile"}, NEW step \in PaySteps,
           GotoWith(h, step, orders[handlers[h].order])
    PROVE  SettledInv'
<1>1. /\ handlers'[h].step = step
      /\ handlers'[h].order = handlers[h].order
      /\ handlers'[h].payment = handlers[h].payment
      /\ \A g \in Handler \ {h} : handlers'[g] = handlers[g]
  <2>1. handlers \in [Handler -> Job]
    BY DEF StockInv, TypeOK
  <2> QED
    BY <2>1 DEF Job, GotoWith
<1>2. JobSettled(h)'
  BY <1>1 DEF JobSettled, SettledInv, PaySteps
<1> QED
  BY <1>1, <1>2, SettledJob

\* The order that a payment event finds open or canceled carries no payment yet.
LEMMA Unpaid ==
    ASSUME OnePayer, PaidInv, SettledInv, NEW m \in Payment \ Mispaid, m \in captured,
           ~AlreadyPaidBy(orders[OrderOf[m]], m),
           orders[OrderOf[m]].status \in {"pending", "canceled"}
    PROVE  orders[OrderOf[m]].payment = NoPayment
<1> DEFINE o == OrderOf[m]
<1>1. o \in Order /\ orders[o].payment \in Payment \cup {NoPayment}
  BY OrderAssumption DEF PaidInv, TypeOK, Row
<1>2. orders[o].payment # NoPayment =>
         orders[o].payment \in Payment \ Mispaid /\ OrderOf[orders[o].payment] = o
  BY <1>1 DEF PaidInv, PaidRow
<1>3. orders[o].payment # NoPayment => orders[o].payment = m
  BY <1>2 DEF OnePayer
<1> QED
  BY <1>1, <1>3 DEF AlreadyPaidBy, SettledInv, RowSettled

LEMMA SettledBegin ==
    ASSUME OnePayer, StockInv, SettledInv, NEW h \in Handler, NEW o \in Order, NEW m, NEW step,
           UNCHANGED <<orders, reservations>>, Begin(h, step, o, m),
           \/ step = "reserve"
           \/ step = "commit" /\ orders[o].status = "paid"
           \/ step = "saveFulfilled" /\ orders[o].status = "in_transit"
           \/ /\ step \in PaySteps /\ h \in SucceededConsumer
              /\ m \notin Mispaid => orders[o].payment = NoPayment
    PROVE  SettledInv'
<1>1. /\ handlers'[h] = [step |-> step, order |-> o, payment |-> m, row |-> orders[o],
                         rsv |-> NoReservation]
      /\ \A g \in Handler \ {h} : handlers'[g] = handlers[g]
  BY JobUpdate DEF Begin, StockInv
<1>2. RowSettled(o)
  BY DEF SettledInv
<1>3. JobSettled(h)'
  BY <1>1, <1>2 DEF JobSettled, RowSettled, PaySteps, Shipped
<1> QED
  BY <1>1, <1>3, SettledJob

LEMMA SettledReserve ==
    ASSUME OnePayer, StockInv, SettledInv, NEW h \in Handler, CallReserve(h)
    PROVE  SettledInv'
<1> DEFINE o == handlers[h].order
<1>1. UNCHANGED orders /\ Reserves(h)
  BY DEF CallReserve
<1>2. ASSUME NEW r \in ReservationId, Reserve(r, o, ItemsOf[o])
      PROVE  /\ r \notin DOMAIN reservations
             /\ DOMAIN reservations' = DOMAIN reservations \cup {r}
             /\ reservations'[r].status = "active"
             /\ \A q \in DOMAIN reservations : reservations'[q] = reservations[q]
  BY <1>2, ReserveEffect
<1>3. ASSUME NEW r \in ReservationId, Reserve(r, o, ItemsOf[o]), AfterReserve(h, r)
      PROVE  SettledInv'
  <2>1. /\ \/ At(h, "reserve") /\ handlers'[h].step = "save"
           \/ ~At(h, "reserve") /\ handlers'[h].step \in {"persistAgain", "persist", "release"}
        /\ handlers'[h].order = o
        /\ \A g \in Handler \ {h} : handlers'[g] = handlers[g]
    BY <1>1, <1>3, AfterReserveUpdate
  <2>2. handlers'[h].payment = handlers[h].payment
    <3>1. handlers \in [Handler -> Job] /\ handlers[h] \in Job
      BY DEF StockInv, TypeOK
    <3> QED
      BY <1>3, <3>1 DEF AfterReserve, Job
  <2>3. JobSettled(h)'
    BY <1>1, <2>1, <2>2 DEF JobSettled, SettledInv, PaySteps, Reserves, At
  <2> QED
    BY <1>1, <1>2, <1>3, <2>1, <2>3, SettledJob
<1>4. CASE Return(h) /\ (StockUnchanged \/ \E r \in ReservationId : Reserve(r, o, ItemsOf[o]))
  <2>1. /\ handlers'[h].step = "idle"
        /\ \A g \in Handler \ {h} : handlers'[g] = handlers[g]
    <3>1. /\ handlers'[h] = IdleJob
          /\ \A g \in Handler \ {h} : handlers'[g] = handlers[g]
      BY <1>4, JobUpdate DEF Return, StockInv
    <3> QED
      BY <3>1 DEF IdleJob
  <2>2. JobSettled(h)'
    BY <2>1 DEF JobSettled, PaySteps
  <2> QED
    BY <1>1, <1>2, <1>4, <2>1, <2>2, SettledJob DEF StockUnchanged, inventoryVars
<1> QED
  BY <1>3, <1>4 DEF CallReserve

LEMMA SettledRelease ==
    ASSUME OnePayer, StockInv, SettledInv, NEW h \in Handler, CallRelease(h)
    PROVE  SettledInv'
<1> DEFINE r == handlers[h].rsv
<1>1. UNCHANGED orders /\ Return(h)
  BY DEF CallRelease
<1>2. CASE IsActive(r) /\ Close(r, "released")
  <2>1. /\ DOMAIN reservations' = DOMAIN reservations
        /\ \A q \in DOMAIN reservations \ {r} : reservations'[q] = reservations[q]
        /\ reservations[r].status = "active" /\ reservations'[r].status = "released"
    BY <1>2, CloseEffect DEF IsActive
  <2>2. /\ handlers'[h] = IdleJob
        /\ \A g \in Handler \ {h} : handlers'[g] = handlers[g]
    BY <1>1, JobUpdate DEF Return, StockInv
  <2>3. JobSettled(h)'
    BY <2>2 DEF JobSettled, IdleJob, PaySteps
  <2> QED
    BY <1>1, <2>1, <2>2, <2>3, SettledJob
<1>3. CASE StockUnchanged
  BY <1>1, <1>3, SettledReturn DEF StockUnchanged, inventoryVars
<1> QED
  BY <1>2, <1>3 DEF CallRelease, ReleaseReservation

\* A shipment commits the reservation of the order it is about.
LEMMA SettledCommit ==
    ASSUME OnePayer, StockInv, SettledInv, NEW h \in Handler, CallCommit(h)
    PROVE  SettledInv'
<1> DEFINE r == handlers[h].row.reservation
           o == handlers[h].order
<1>1. UNCHANGED orders /\ At(h, "commit") /\ o \in Order
  BY DEF CallCommit, At, StockInv, JobsOK, JobOK
<1>2. orders[o].payment # NoPayment /\ r = orders[o].reservation
  BY <1>1 DEF SettledInv, JobSettled, At
<1>3. r \in DOMAIN reservations /\ reservations[r].order = o
  BY <1>1, <1>2 DEF SettledInv, RowSettled, StockInv, ReferencesOK, Refers
<1>4. CASE Return(h) /\ StockUnchanged
  BY <1>1, <1>4, SettledReturn DEF StockUnchanged, inventoryVars
<1>5. CASE Goto(h, "shipIfPaid") /\ StockUnchanged /\ reservations[r].status = "committed"
  <2>1. /\ handlers'[h].step = "shipIfPaid"
        /\ handlers'[h].order = handlers[h].order
        /\ handlers'[h].row = handlers[h].row
        /\ \A g \in Handler \ {h} : handlers'[g] = handlers[g]
    BY <1>5, GotoUpdate DEF StockInv
  <2>2. UNCHANGED reservations
    BY <1>5 DEF StockUnchanged, inventoryVars
  <2>3. JobSettled(h)'
    BY <1>1, <1>2, <1>5, <2>1, <2>2 DEF JobSettled, PaySteps
  <2> QED
    BY <1>1, <2>1, <2>2, <2>3, SettledJob
<1>6. CASE CommitReservation(r) /\ (Goto(h, "shipIfPaid") \/ Return(h))
  <2>1. /\ DOMAIN reservations' = DOMAIN reservations
        /\ \A q \in DOMAIN reservations : reservations'[q].order = reservations[q].order
        /\ \A q \in DOMAIN reservations \ {r} : reservations'[q] = reservations[q]
        /\ reservations'[r].status = "committed"
    BY <1>3, <1>6, CloseEffect DEF CommitReservation
  <2>2. /\ \/ /\ handlers'[h].step = "shipIfPaid"
              /\ handlers'[h].order = handlers[h].order
              /\ handlers'[h].row = handlers[h].row
           \/ handlers'[h].step = "idle"
        /\ \A g \in Handler \ {h} : handlers'[g] = handlers[g]
    <3>1. CASE Goto(h, "shipIfPaid")
      BY <3>1, GotoUpdate DEF StockInv
    <3>2. CASE Return(h)
      <4>1. /\ handlers'[h] = IdleJob
            /\ \A g \in Handler \ {h} : handlers'[g] = handlers[g]
        BY <3>2, JobUpdate DEF Return, StockInv
      <4> QED
        BY <4>1 DEF IdleJob
    <3> QED
      BY <1>6, <3>1, <3>2
  <2>3. JobSettled(h)'
    BY <1>1, <1>2, <2>1, <2>2 DEF JobSettled, PaySteps
  <2>4. CommittedOK'
    BY <1>1, <1>2, <1>3, <2>1 DEF CommittedOK, SettledInv
  <2>5. ASSUME NEW p \in Order
        PROVE  RowSettled(p)'
    <3>1. RowSettled(p) /\ Refers(orders[p].reservation, p)
      BY DEF SettledInv, StockInv, ReferencesOK
    <3>2. orders[p].status \in Shipped => orders[p].reservation \in DOMAIN reservations
      BY <3>1 DEF RowSettled, Refers
    <3> QED
      BY <1>1, <2>1, <3>1, <3>2 DEF RowSettled
  <2>6. \A p \in Order : Keeps(p)
    BY <1>1 DEF Keeps
  <2>7. \A q \in DOMAIN reservations :
           /\ q \in DOMAIN reservations'
           /\ reservations[q].status = "committed" => reservations'[q].status = "committed"
    BY <2>1
  <2> QED
    BY <2>2, <2>3, <2>4, <2>5, <2>6, <2>7, SettledStep
<1> QED
  BY <1>4, <1>5, <1>6 DEF CallCommit

\* Handler h writes a row and returns, or goes on to a release.
LEMMA SettledWrite ==
    ASSUME OnePayer, StockInv, SettledInv, UNCHANGED reservations,
           NEW h \in Handler, NEW o \in Order, NEW row, Write(o, row),
           handlers'[h].step \in {"idle", "release"},
           \A g \in Handler \ {h} : handlers'[g] = handlers[g],
           \/ /\ row.payment = orders[o].payment
              /\ row.reservation = orders[o].reservation
              /\ orders[o].status \in Shipped => row.status \in Shipped
           \/ /\ orders[o].payment = NoPayment
              /\ row.payment = NoPayment \/ handlers[h].step \in PaySteps,
           row.status \in {"none", "pending"} => row.payment = NoPayment,
           row.status \in Shipped \cup {"paid"} => row.payment # NoPayment,
           row.payment # NoPayment => row.reservation # NoReservation,
           row.status \in Shipped => reservations[row.reservation].status = "committed"
    PROVE  SettledInv'
<1>1. /\ orders'[o] = row
      /\ \A p \in Order \ {o} : orders'[p] = orders[p]
  BY RowUpdate DEF StockInv
<1>2. ASSUME NEW p \in Order
      PROVE  RowSettled(p)'
  BY <1>1 DEF SettledInv, RowSettled
<1>3. \A p \in Order :
         \/ Keeps(p)
         \/ /\ orders[p].payment = NoPayment
            /\ orders'[p].payment = NoPayment \/ handlers[h].step \in PaySteps
  BY <1>1 DEF Keeps
<1>4. JobSettled(h)'
  BY DEF JobSettled, PaySteps
<1>5. CommittedOK'
  <2> SUFFICES ASSUME NEW r \in DOMAIN reservations, reservations[r].status = "committed"
               PROVE  LET w == orders'[reservations[r].order]
                      IN  w.payment # NoPayment /\ w.reservation = r
    BY DEF CommittedOK
  <2>1. reservations[r].order \in Order
    BY DEF StockInv, TypeOK, InventoryTypeOK, Reservation
  <2>2. /\ orders[reservations[r].order].payment # NoPayment
        /\ orders[reservations[r].order].reservation = r
    BY DEF SettledInv, CommittedOK
  <2> QED
    BY <1>1, <2>1, <2>2
<1> QED
  BY <1>2, <1>3, <1>4, <1>5, SettledStep

LEMMA SettledSave ==
    ASSUME OnePayer, StockInv, SettledInv, NEW h \in Handler,
           SaveCreated(h) \/ ShipIfPaid(h) \/ SaveFulfilled(h)
    PROVE  SettledInv'
<1> DEFINE o == handlers[h].order
<1>1. /\ Return(h) \/ Goto(h, "release")
      /\ o \in Order /\ handlers[h].row \in Row /\ orders[o] \in Row
  BY DEF SaveCreated, ShipIfPaid, SaveFulfilled, StockUnchanged, inventoryVars, At, StockInv,
         TypeOK, JobsOK, JobOK, Job
<1>2. /\ handlers'[h].step \in {"idle", "release"}
      /\ \A g \in Handler \ {h} : handlers'[g] = handlers[g]
  <2>1. CASE Return(h)
    <3>1. /\ handlers'[h] = IdleJob
          /\ \A g \in Handler \ {h} : handlers'[g] = handlers[g]
      BY <2>1, JobUpdate DEF Return, StockInv
    <3> QED
      BY <3>1 DEF IdleJob
  <2>2. CASE Goto(h, "release")
    BY <2>2, GotoUpdate DEF StockInv
  <2> QED
    BY <1>1, <2>1, <2>2
<1>3. CASE UNCHANGED orders
  <2>1. UNCHANGED reservations
    BY DEF SaveCreated, ShipIfPaid, SaveFulfilled, StockUnchanged, inventoryVars
  <2> QED
    BY <1>1, <1>3, <2>1, SettledReturn, SettledGoto
<1>4. UNCHANGED reservations
  BY DEF SaveCreated, ShipIfPaid, SaveFulfilled, StockUnchanged, inventoryVars
<1>5. CASE At(h, "save") /\ Write(o, [status |-> "pending", reservation |-> handlers[h].rsv,
                                      payment |-> NoPayment])
  <2> DEFINE row == [status |-> "pending", reservation |-> handlers[h].rsv,
                     payment |-> NoPayment]
  <2>1. orders[o].payment = NoPayment
    BY <1>5 DEF At, StockInv, CreateOK, NoRow
  <2>2. row.status = "pending" /\ row.payment = NoPayment
    OBVIOUS
  <2>3. Write(o, row)
    BY <1>5
  <2> HIDE DEF row, o
  <2> QED
    BY <1>1, <1>2, <1>4, <2>1, <2>2, <2>3, SettledWrite DEF Shipped
<1>6. CASE /\ At(h, "shipIfPaid") /\ orders[o].status = "paid"
           /\ Write(o, [orders[o] EXCEPT !.status = "in_transit"])
  <2> DEFINE row == [orders[o] EXCEPT !.status = "in_transit"]
  <2>1. /\ row.status = "in_transit" /\ row.payment = orders[o].payment
        /\ row.reservation = orders[o].reservation
    BY <1>1 DEF Row
  <2>2. /\ orders[o].payment # NoPayment
        /\ orders[o].reservation # NoReservation
        /\ reservations[orders[o].reservation].status = "committed"
    BY <1>1, <1>6 DEF SettledInv, JobSettled, RowSettled, At
  <2>3. Write(o, row)
    BY <1>6
  <2> HIDE DEF row, o
  <2> QED
    BY <1>1, <1>2, <1>4, <2>1, <2>2, <2>3, SettledWrite DEF Shipped
<1>7. CASE At(h, "saveFulfilled") /\ Write(o, [handlers[h].row EXCEPT !.status = "fulfilled"])
  <2> DEFINE row == [handlers[h].row EXCEPT !.status = "fulfilled"]
  <2>1. /\ row.status = "fulfilled" /\ row.payment = handlers[h].row.payment
        /\ row.reservation = handlers[h].row.reservation
    BY <1>1 DEF Row
  <2>2. /\ orders[o].status \in Shipped
        /\ row.payment = orders[o].payment /\ row.reservation = orders[o].reservation
    BY <1>1, <1>7, <2>1 DEF SettledInv, JobSettled, At
  <2>3. RowSettled(o)
    BY <1>1 DEF SettledInv
  <2>4. Write(o, row)
    BY <1>7
  <2> HIDE DEF row, o
  <2> QED
    BY <1>1, <1>2, <1>4, <2>1, <2>2, <2>3, <2>4, SettledWrite DEF RowSettled, Shipped
<1> QED
  BY <1>3, <1>5, <1>6, <1>7 DEF SaveCreated, ShipIfPaid, SaveFulfilled

\* The one payer pays an order that carries no payment.
LEMMA SettledPay ==
    ASSUME OnePayer, StockInv, PaidInv, StockInv', SettledInv, NEW h \in Handler,
           Persist(h) \/ PersistAgain(h)
    PROVE  SettledInv'
<1> DEFINE o == handlers[h].order
           row == [status |-> "paid", reservation |-> handlers[h].row.reservation,
                   payment |-> handlers[h].payment]
<1>1. /\ UNCHANGED reservations
      /\ At(h, "persist") \/ At(h, "persistAgain")
      /\ o \in Order
  BY DEF Persist, PersistAgain, StockUnchanged, inventoryVars, At, StockInv, JobsOK, JobOK
<1>2. handlers[h].step \in PaySteps
  BY <1>1 DEF At, PaySteps
<1>3. CASE SavePaid(h) /\ Return(h)
  <2>1. /\ orders'[o] = row
        /\ handlers'[h] = IdleJob
        /\ \A g \in Handler \ {h} : handlers'[g] = handlers[g]
    <3>1. Write(o, row)
      BY <1>3 DEF SavePaid
    <3>2. orders'[o] = row
      <4> HIDE DEF row, o
      <4> QED
        BY <1>1, <3>1, RowUpdate DEF StockInv
    <3> QED
      BY <1>3, <3>2, JobUpdate DEF Return, StockInv
  <2>2. handlers'[h].step = "idle"
    BY <2>1 DEF IdleJob
  <2>3. handlers[h].payment \in captured \ Mispaid
    BY <1>1 DEF PaidInv, PayingJob, At
  <2>4. handlers[h].payment # NoPayment /\ orders[o].payment = NoPayment
    BY <1>2, <2>3, OrderAssumption DEF SettledInv, JobSettled, StockInv, TypeOK
  <2>5. row.status = "paid" /\ row.payment = handlers[h].payment
    OBVIOUS
  <2> HIDE DEF row
  <2>6. row.reservation # NoReservation
    BY <1>1, <2>1, <2>5, OrderAssumption DEF StockInv, OpenOrderHasStock, TypeOK, InventoryTypeOK
  <2>7. Write(o, row)
    BY <1>3 DEF SavePaid, row
  <2> HIDE DEF o
  <2> QED
    BY <1>1, <1>2, <2>1, <2>2, <2>4, <2>5, <2>6, <2>7, SettledWrite DEF Shipped
<1>4. CASE UNCHANGED orders /\ Goto(h, "reconcile")
  BY <1>1, <1>2, <1>4, SettledGoto DEF PaySteps
<1>5. CASE UNCHANGED orders /\ Abandon(h)
  BY <1>1, <1>5, SettledAbandon
<1> QED
  BY <1>3, <1>4, <1>5 DEF Persist, PersistAgain, OnePayer

LEMMA SettledCancelRow ==
    ASSUME OnePayer, StockInv, SettledInv, NEW h \in Handler, NEW o \in Order,
           orders[o].status \in {"pending", "paid"}, CancelRow(h, o)
    PROVE  SettledInv'
<1> DEFINE row == [orders[o] EXCEPT !.status = "canceled"]
<1>1. /\ row.status = "canceled" /\ row.payment = orders[o].payment
      /\ row.reservation = orders[o].reservation
  BY DEF StockInv, TypeOK, Row
<1>2. Write(o, row) /\ UNCHANGED reservations
  BY DEF CancelRow, StockUnchanged, inventoryVars
<1>3. /\ handlers'[h] = [step |-> "release", order |-> o, payment |-> NoPayment,
                         row |-> NoRow, rsv |-> orders[o].reservation]
      /\ \A g \in Handler \ {h} : handlers'[g] = handlers[g]
  BY JobUpdate DEF CancelRow, StockInv
<1>4. RowSettled(o) /\ handlers'[h].step = "release"
  BY <1>3 DEF SettledInv
<1> HIDE DEF row
<1> QED
  BY <1>1, <1>2, <1>3, <1>4, SettledWrite DEF RowSettled, Shipped

LEMMA NextSettled ==
    ASSUME OnePayer, StockInv, PaidInv, NoStaffCancel, SettledInv, [Next]_vars
    PROVE  SettledInv'
<1>1. StockInv'
  BY NextStock DEF OnePayer
<1>2. ASSUME NEW h \in Handler, Continue(h)
      PROVE  SettledInv'
  <2>1. CASE Reread(h) \/ Reconcile(h)
    <3>1. /\ UNCHANGED <<orders, reservations>>
          /\ handlers[h].step \in {"reread", "reconcile"}
          /\ handlers[h].step \in PaySteps
      BY <2>1 DEF Reread, Reconcile, StockUnchanged, inventoryVars, At, PaySteps
    <3>2. \/ Return(h) \/ Goto(h, "persist") \/ Abandon(h)
          \/ GotoWith(h, "reinstate", orders[handlers[h].order])
          \/ GotoWith(h, "reinstateAgain", orders[handlers[h].order])
      BY <2>1 DEF Reread, Reconcile
    <3> QED
      BY <3>1, <3>2, SettledReturn, SettledGoto, SettledAbandon, SettledReread DEF PaySteps
  <2>2. ~SaveCanceled(h)
    BY DEF SaveCanceled, At, NoStaffCancel
  <2> QED
    BY <1>1, <1>2, <2>1, <2>2, SettledReserve, SettledRelease, SettledCommit, SettledSave,
       SettledPay DEF Continue
<1>3. ASSUME NEW h \in Handler, Crash(h)
      PROVE  SettledInv'
  BY <1>3, SettledReturn DEF Crash, StockUnchanged, inventoryVars
<1>4. ASSUME NEW h \in Handler, NEW o \in Order,
             \/ BeginCreate(h, o) \/ BeginShip(h, o) \/ BeginCancel(h, o) \/ BeginFulfil(h, o)
      PROVE  SettledInv'
  BY <1>4, SettledBegin DEF BeginCreate, BeginShip, BeginCancel, BeginFulfil, StockUnchanged,
                            inventoryVars, OnePayer
<1>5. ASSUME NEW h \in SucceededConsumer, NEW m \in Payment, BeginPay(h, m)
      PROVE  SettledInv'
  <2>1. /\ UNCHANGED <<orders, reservations>> /\ OrderOf[m] \in Order /\ h \in Handler
        /\ m \notin Mispaid => orders[OrderOf[m]].payment = NoPayment
    BY <1>5, Unpaid, OrderAssumption DEF BeginPay, StockUnchanged, inventoryVars, Handler
  <2>2. \/ Begin(h, "reread", OrderOf[m], m) \/ Begin(h, "reinstate", OrderOf[m], m)
    BY <1>5 DEF BeginPay
  <2> QED
    BY <2>1, <2>2, SettledBegin DEF PaySteps
<1>6. ASSUME NEW h \in Handler, NEW o \in Order, Expire(h, o)
      PROVE  SettledInv'
  BY <1>6, SettledCancelRow DEF Expire
<1>7. ASSUME UNCHANGED <<orders, handlers, reservations>>
      PROVE  SettledInv'
  BY <1>7 DEF SettledInv, RowSettled, JobSettled, CommittedOK
<1>8. ASSUME NEW h \in Handler, NEW m \in Payment, CancelForRefund(h, m)
      PROVE  SettledInv'
  <2>1. CASE orders[OrderOf[m]].status = "paid" /\ CancelRow(h, OrderOf[m])
    BY <2>1, SettledCancelRow, OrderAssumption
  <2>2. CASE StockUnchanged /\ UNCHANGED <<orders, handlers>>
    BY <1>7, <2>2 DEF StockUnchanged, inventoryVars
  <2> QED
    BY <1>8, <2>1, <2>2 DEF CancelForRefund
<1>9. ASSUME NEW m \in Payment, Capture(m) \/ Refund(m) \/ LoseRefundEvent(m)
      PROVE  SettledInv'
  BY <1>7, <1>9 DEF Capture, Refund, LoseRefundEvent, StockUnchanged, inventoryVars
<1>10. ASSUME NEW s \in Sku, Restock(s)
       PROVE  SettledInv'
  BY <1>7, <1>10 DEF Restock, UpsertItem, orderVars
<1>11. CASE UNCHANGED vars
  BY <1>7, <1>11 DEF vars, orderVars
<1> QED
  BY <1>2, <1>3, <1>4, <1>5, <1>6, <1>8, <1>9, <1>10, <1>11 DEF Next, Handler

-----------------------------------------------------------------------------
(* Nothing stays put aside for nobody, as long as no call fails.           *)

\* The steps of handler h that concern a canceled order or a reservation.
LEMMA TidyStep ==
    ASSUME OnePayer, StockInv, SettledInv, TidyInv, NEW h \in Handler,
           \A g \in Handler \ {h} : handlers'[g] = handlers[g],
           \A o \in Order : orders[o].status = "canceled" =>
              orders'[o].status = "canceled" \/ handlers[h].step \in PaySteps,
           JobTidy(h)',
           \A r \in DOMAIN reservations' : IsActive(r)' =>
              \/ Kept(h, r)'
              \/ IsActive(r) /\ (Owed(r) \/ Kept(h, r) => Owed(r)' \/ Kept(h, r)')
    PROVE  TidyInv'
<1>1. ASSUME NEW g \in Handler \ {h}
      PROVE  JobTidy(g)'
  <2> DEFINE job == handlers[g]
  <2>1. JobTidy(g) /\ handlers'[g] = job
    BY DEF TidyInv
  <2>2. CASE job.step = "reinstate" \/ (job.step = "persist" /\ job.rsv # NoReservation)
    <3>1. job.step \in PaySteps /\ job.order \in Order
      BY <2>2 DEF PaySteps, StockInv, JobsOK, JobOK
    <3>2. handlers[h].step \notin PaySteps
      BY <3>1 DEF SettledInv, JobSettled, OnePayer
    <3> QED
      BY <2>1, <2>2, <3>1, <3>2 DEF JobTidy
  <2> QED
    BY <2>1, <2>2 DEF JobTidy
<1>2. ActiveOK'
  <2> SUFFICES ASSUME NEW r \in DOMAIN reservations', IsActive(r)'
               PROVE  Owed(r)' \/ \E g \in Handler : Kept(g, r)'
    BY DEF ActiveOK
  <2>1. CASE Kept(h, r)'
    BY <2>1
  <2>2. CASE IsActive(r) /\ (Owed(r) \/ Kept(h, r) => Owed(r)' \/ Kept(h, r)')
    <3>1. PICK g \in Handler : Owed(r) \/ Kept(g, r)
      BY <2>2 DEF TidyInv, ActiveOK, IsActive
    <3>2. CASE Owed(r) \/ g = h
      BY <2>2, <3>1, <3>2
    <3>3. CASE Kept(g, r) /\ g # h
      <4>1. Kept(g, r)'
        BY <3>3 DEF Kept, Holding, At
      <4> QED
        BY <4>1
    <3> QED
      BY <3>1, <3>2, <3>3
  <2> QED
    BY <2>1, <2>2
<1> QED
  BY <1>1, <1>2 DEF TidyInv

\* A job changes; the tables do not.
LEMMA TidyJob ==
    ASSUME OnePayer, StockInv, SettledInv, TidyInv, NEW h \in Handler,
           UNCHANGED <<orders, reservations>>,
           \A g \in Handler \ {h} : handlers'[g] = handlers[g],
           JobTidy(h)',
           \A r \in DOMAIN reservations : IsActive(r) /\ Kept(h, r) => Kept(h, r)'
    PROVE  TidyInv'
<1>1. \A r \in DOMAIN reservations' : IsActive(r)' =>
          IsActive(r) /\ (Owed(r) \/ Kept(h, r) => Owed(r)' \/ Kept(h, r)')
  BY DEF IsActive, Owed
<1> QED
  BY <1>1, TidyStep

LEMMA TidyReturn ==
    ASSUME OnePayer, StockInv, SettledInv, TidyInv, NEW h \in Handler,
           UNCHANGED <<orders, reservations>>, Return(h),
           ~(Holding(h) \/ (At(h, "release") /\ IsActive(handlers[h].rsv)))
    PROVE  TidyInv'
<1>1. /\ handlers'[h] = IdleJob
      /\ \A g \in Handler \ {h} : handlers'[g] = handlers[g]
  BY JobUpdate DEF Return, StockInv
<1>2. JobTidy(h)'
  BY <1>1 DEF JobTidy, IdleJob
<1> QED
  BY <1>1, <1>2, TidyJob DEF Kept

LEMMA TidyAbandon ==
    ASSUME OnePayer, StockInv, SettledInv, TidyInv, NEW h \in Handler,
           UNCHANGED <<orders, reservations>>, Abandon(h), ~At(h, "release")
    PROVE  TidyInv'
<1>1. CASE handlers[h].rsv = NoReservation /\ Return(h)
  BY <1>1, TidyReturn DEF Holding
<1>2. CASE Goto(h, "release")
  <2>1. /\ handlers'[h].step = "release" /\ handlers'[h].rsv = handlers[h].rsv
        /\ \A g \in Handler \ {h} : handlers'[g] = handlers[g]
    BY <1>2, GotoUpdate DEF StockInv
  <2>2. JobTidy(h)'
    BY <2>1 DEF JobTidy
  <2>3. \A r \in DOMAIN reservations : Kept(h, r) => Kept(h, r)'
    BY <2>1 DEF Kept, At
  <2> QED
    BY <2>1, <2>2, <2>3, TidyJob
<1> QED
  BY <1>1, <1>2 DEF Abandon

LEMMA TidyBegin ==
    ASSUME OnePayer, StockInv, SettledInv, TidyInv, NEW h \in Handler, NEW o \in Order, NEW m,
           NEW step, UNCHANGED <<orders, reservations>>, Begin(h, step, o, m),
           step = "reinstate" => orders[o].status = "canceled"
    PROVE  TidyInv'
<1>1. /\ handlers'[h] = [step |-> step, order |-> o, payment |-> m, row |-> orders[o],
                         rsv |-> NoReservation]
      /\ \A g \in Handler \ {h} : handlers'[g] = handlers[g]
  BY JobUpdate DEF Begin, StockInv
<1>2. JobTidy(h)'
  BY <1>1 DEF JobTidy
<1> QED
  BY <1>1, <1>2, TidyJob DEF Begin, Idle, Kept, Holding, At

LEMMA TidyRead ==
    ASSUME OnePayer, StockInv, SettledInv, TidyInv, NEW h \in Handler, Faults = {},
           Reread(h) \/ Reconcile(h)
    PROVE  TidyInv'
<1> DEFINE fresh == orders[handlers[h].order]
<1>1. /\ UNCHANGED <<orders, reservations>>
      /\ At(h, "reread") \/ At(h, "reconcile")
  BY DEF Reread, Reconcile, StockUnchanged, inventoryVars
<1>2. handlers[h].rsv = NoReservation
  BY <1>1 DEF At, StockInv, JobsOK, JobOK, TidyInv, JobTidy
<1>3. CASE Return(h) \/ Abandon(h)
  BY <1>1, <1>2, <1>3, TidyReturn DEF Abandon, Holding, At
<1>4. CASE Goto(h, "persist")
  <2>1. /\ handlers'[h].step = "persist" /\ handlers'[h].rsv = handlers[h].rsv
        /\ \A g \in Handler \ {h} : handlers'[g] = handlers[g]
    BY <1>4, GotoUpdate DEF StockInv
  <2>2. JobTidy(h)'
    BY <1>2, <2>1 DEF JobTidy
  <2> QED
    BY <1>1, <1>2, <2>1, <2>2, TidyJob DEF Kept, Holding, At
<1>5. ASSUME NEW step \in {"reinstate", "reinstateAgain"}, GotoWith(h, step, fresh),
             fresh.status = "canceled"
      PROVE  TidyInv'
  <2>1. /\ handlers'[h].step = step
        /\ handlers'[h].order = handlers[h].order
        /\ handlers'[h].rsv = handlers[h].rsv
        /\ \A g \in Handler \ {h} : handlers'[g] = handlers[g]
    <3>1. handlers \in [Handler -> Job]
      BY DEF StockInv, TypeOK
    <3> QED
      BY <1>5, <3>1 DEF Job, GotoWith
  <2>2. JobTidy(h)'
    BY <1>1, <1>2, <1>5, <2>1 DEF JobTidy
  <2> QED
    BY <1>1, <1>2, <2>1, <2>2, TidyJob DEF Kept, Holding, At
<1> QED
  BY <1>3, <1>4, <1>5 DEF Reread, Reconcile

LEMMA TidyReserve ==
    ASSUME OnePayer, StockInv, SettledInv, TidyInv, NEW h \in Handler, Faults = {},
           CallReserve(h)
    PROVE  TidyInv'
<1> DEFINE o == handlers[h].order
<1>1. UNCHANGED orders /\ Reserves(h)
  BY DEF CallReserve
<1>2. handlers[h].rsv = NoReservation
  BY <1>1 DEF Reserves, At, TidyInv, JobTidy
<1>3. ASSUME NEW r \in ReservationId, Reserve(r, o, ItemsOf[o]), AfterReserve(h, r)
      PROVE  TidyInv'
  <2>1. /\ r \notin DOMAIN reservations
        /\ DOMAIN reservations' = DOMAIN reservations \cup {r}
        /\ \A q \in DOMAIN reservations : reservations'[q] = reservations[q]
    BY <1>3, ReserveEffect
  <2>2. /\ handlers'[h].step \in {"save", "persistAgain", "persist", "release"}
        /\ handlers'[h].rsv = r
        /\ handlers'[h].order = o
        /\ \A g \in Handler \ {h} : handlers'[g] = handlers[g]
    BY <1>1, <1>3, AfterReserveUpdate
  <2>3. handlers'[h].step = "persist" => handlers[h].step = "reinstate"
    <3>1. handlers \in [Handler -> Job] /\ handlers[h] \in Job
      BY DEF StockInv, TypeOK
    <3> QED
      BY <1>1, <1>3, <3>1 DEF AfterReserve, Job, Reserves, At
  <2>4. JobTidy(h)'
    BY <1>1, <2>2, <2>3 DEF JobTidy, TidyInv
  <2>5. Kept(h, r)'
    BY <2>2, OrderAssumption DEF Kept, Holding, At
  <2>6. \A q \in DOMAIN reservations' : IsActive(q)' =>
           \/ Kept(h, q)'
           \/ IsActive(q) /\ (Owed(q) \/ Kept(h, q) => Owed(q)' \/ Kept(h, q)')
    <3> SUFFICES ASSUME NEW q \in DOMAIN reservations' \ {r}, IsActive(q)'
                 PROVE  IsActive(q) /\ (Owed(q) \/ Kept(h, q) => Owed(q)')
      BY <2>5
    <3>1. q \in DOMAIN reservations /\ reservations'[q] = reservations[q]
      BY <2>1
    <3>2. q # NoReservation
      BY <3>1, OrderAssumption DEF StockInv, TypeOK, InventoryTypeOK
    <3> QED
      BY <1>1, <1>2, <3>1, <3>2 DEF IsActive, Owed, Kept
  <2> QED
    BY <1>1, <2>2, <2>4, <2>6, TidyStep
<1>4. CASE StockUnchanged /\ Return(h)
  BY <1>1, <1>2, <1>4, TidyReturn DEF StockUnchanged, inventoryVars, Holding, Reserves, At
<1> QED
  BY <1>3, <1>4 DEF CallReserve

LEMMA TidyRelease ==
    ASSUME OnePayer, StockInv, SettledInv, TidyInv, NEW h \in Handler, Faults = {},
           CallRelease(h)
    PROVE  TidyInv'
<1> DEFINE r == handlers[h].rsv
<1>1. UNCHANGED orders /\ Return(h) /\ At(h, "release")
  BY DEF CallRelease
<1>2. CASE IsActive(r) /\ Close(r, "released")
  <2>1. /\ DOMAIN reservations' = DOMAIN reservations
        /\ \A q \in DOMAIN reservations \ {r} : reservations'[q] = reservations[q]
        /\ reservations'[r].status = "released"
    BY <1>2, CloseEffect DEF IsActive
  <2>2. /\ handlers'[h] = IdleJob
        /\ \A g \in Handler \ {h} : handlers'[g] = handlers[g]
    BY <1>1, JobUpdate DEF Return, StockInv
  <2>3. JobTidy(h)'
    BY <2>2 DEF JobTidy, IdleJob
  <2>4. \A q \in DOMAIN reservations' : IsActive(q)' =>
           IsActive(q) /\ (Owed(q) \/ Kept(h, q) => Owed(q)')
    BY <1>1, <2>1 DEF IsActive, Owed, Kept
  <2> QED
    BY <1>1, <2>2, <2>3, <2>4, TidyStep
<1>3. CASE StockUnchanged /\ ~IsActive(r)
  BY <1>1, <1>3, TidyReturn DEF StockUnchanged, inventoryVars, Holding, At
<1> QED
  BY <1>2, <1>3 DEF CallRelease, ReleaseReservation

LEMMA TidyCommit ==
    ASSUME OnePayer, StockInv, SettledInv, TidyInv, NEW h \in Handler, CallCommit(h)
    PROVE  TidyInv'
<1> DEFINE r == handlers[h].row.reservation
<1>1. UNCHANGED orders /\ At(h, "commit") /\ (Goto(h, "shipIfPaid") \/ Return(h))
  BY DEF CallCommit
<1>2. /\ handlers'[h].step \in {"idle", "shipIfPaid"}
      /\ \A g \in Handler \ {h} : handlers'[g] = handlers[g]
  <2>1. CASE Goto(h, "shipIfPaid")
    BY <2>1, GotoUpdate DEF StockInv
  <2>2. CASE Return(h)
    <3>1. /\ handlers'[h] = IdleJob
          /\ \A g \in Handler \ {h} : handlers'[g] = handlers[g]
      BY <2>2, JobUpdate DEF Return, StockInv
    <3> QED
      BY <3>1 DEF IdleJob
  <2> QED
    BY <1>1, <2>1, <2>2
<1>3. JobTidy(h)' /\ \A q : ~Kept(h, q)
  BY <1>1, <1>2 DEF JobTidy, Kept, Holding, At
<1>4. CASE CommitReservation(r)
  <2>1. /\ DOMAIN reservations' = DOMAIN reservations
        /\ \A q \in DOMAIN reservations \ {r} : reservations'[q] = reservations[q]
        /\ reservations'[r].status = "committed"
    BY <1>4, CloseEffect DEF CommitReservation, IsActive
  <2>2. \A q \in DOMAIN reservations' : IsActive(q)' => IsActive(q) /\ (Owed(q) => Owed(q)')
    BY <1>1, <2>1 DEF IsActive, Owed
  <2> QED
    BY <1>1, <1>2, <1>3, <2>2, TidyStep
<1>5. CASE StockUnchanged
  BY <1>1, <1>2, <1>3, <1>5, TidyJob DEF StockUnchanged, inventoryVars
<1> QED
  BY <1>4, <1>5 DEF CallCommit

\* A row is written; each reservation it was owed, or its handler kept, is owed by the
\* new row or still kept.
LEMMA TidyWrite ==
    ASSUME OnePayer, StockInv, SettledInv, TidyInv, UNCHANGED reservations,
           NEW h \in Handler, NEW o \in Order, NEW row, Write(o, row),
           handlers'[h].step \in {"idle", "release"},
           \A g \in Handler \ {h} : handlers'[g] = handlers[g],
           orders[o].status = "canceled" =>
              row.status = "canceled" \/ handlers[h].step \in PaySteps,
           \A r \in DOMAIN reservations :
              /\ IsActive(r)
              /\ \/ /\ reservations[r].order = o /\ orders[o].reservation = r
                    /\ orders[o].status \in {"pending", "paid"}
                 \/ Kept(h, r)
              => \/ /\ reservations[r].order = o /\ row.reservation = r
                    /\ row.status \in {"pending", "paid"}
                 \/ handlers'[h].step = "release" /\ handlers'[h].rsv = r
    PROVE  TidyInv'
<1>1. /\ orders'[o] = row
      /\ \A p \in Order \ {o} : orders'[p] = orders[p]
  BY RowUpdate DEF StockInv
<1>2. JobTidy(h)'
  BY DEF JobTidy
<1>3. ASSUME NEW r \in DOMAIN reservations', IsActive(r)'
      PROVE  /\ IsActive(r)
             /\ Owed(r) \/ Kept(h, r) => Owed(r)' \/ Kept(h, r)'
  <2>1. r \in DOMAIN reservations /\ IsActive(r) /\ reservations[r].order \in Order
    BY <1>3 DEF IsActive, StockInv, TypeOK, InventoryTypeOK, Reservation
  <2>2. CASE reservations[r].order = o \/ Kept(h, r)
    BY <1>1, <2>1, <2>2 DEF Owed, Kept, At
  <2>3. CASE reservations[r].order # o /\ ~Kept(h, r)
    BY <1>1, <2>1, <2>3 DEF Owed
  <2> QED
    BY <2>1, <2>2, <2>3
<1>4. \A p \in Order : orders[p].status = "canceled" =>
         orders'[p].status = "canceled" \/ handlers[h].step \in PaySteps
  BY <1>1
<1> QED
  BY <1>2, <1>3, <1>4, TidyStep

LEMMA TidyPay ==
    ASSUME OnePayer, StockInv, SettledInv, TidyInv, NEW h \in Handler, Faults = {},
           Persist(h) \/ PersistAgain(h)
    PROVE  TidyInv'
<1> DEFINE o == handlers[h].order
           row == [status |-> "paid", reservation |-> handlers[h].row.reservation,
                   payment |-> handlers[h].payment]
<1>1. /\ UNCHANGED reservations
      /\ At(h, "persist") \/ At(h, "persistAgain")
      /\ o \in Order /\ handlers[h].step \in PaySteps
  BY DEF Persist, PersistAgain, StockUnchanged, inventoryVars, At, StockInv, JobsOK, JobOK,
         PaySteps
<1>2. CASE /\ SavePaid(h) /\ Return(h)
           /\ \/ At(h, "persist") /\ orders[o].status = PayableStatus(h)
              \/ At(h, "persistAgain") /\ orders[o].status = "canceled"
  <2>1. Write(o, row)
    BY <1>2 DEF SavePaid
  <2>2. /\ handlers'[h] = IdleJob
        /\ \A g \in Handler \ {h} : handlers'[g] = handlers[g]
    BY <1>2, JobUpdate DEF Return, StockInv
  <2>3. handlers'[h].step = "idle"
    BY <2>2 DEF IdleJob
  <2>4. /\ row.status = "paid" /\ row.reservation = handlers[h].row.reservation
        /\ handlers[h].rsv \in {NoReservation, handlers[h].row.reservation}
        /\ Refers(handlers[h].rsv, o)
    BY <1>1 DEF At, StockInv, JobsOK, JobOK, ReferencesOK
  <2>5. orders[o].status = "pending" =>
           handlers[h].rsv = NoReservation /\ row.reservation = orders[o].reservation
    BY <1>2, <2>4 DEF PayableStatus, At, StockInv, StartedOK
  <2>6. orders[o].status \in {"pending", "canceled"}
    BY <1>2 DEF PayableStatus
  <2>7. NoReservation \notin DOMAIN reservations
    BY OrderAssumption DEF StockInv, TypeOK, InventoryTypeOK
  <2> HIDE DEF row, o
  <2>8. ASSUME NEW r \in DOMAIN reservations, Kept(h, r)
        PROVE  reservations[r].order = o /\ row.reservation = r
    BY <2>4, <2>7, <2>8 DEF Kept, Refers
  <2> QED
    BY <1>1, <2>1, <2>2, <2>3, <2>4, <2>5, <2>6, <2>8, TidyWrite
<1>3. CASE /\ UNCHANGED orders /\ Goto(h, "reconcile") /\ At(h, "persist")
           /\ orders[o].status # PayableStatus(h)
  <2>1. handlers[h].rsv = NoReservation
    BY <1>3 DEF PayableStatus, At, TidyInv, JobTidy
  <2>2. /\ handlers'[h].step = "reconcile" /\ handlers'[h].rsv = handlers[h].rsv
        /\ \A g \in Handler \ {h} : handlers'[g] = handlers[g]
    BY <1>3, GotoUpdate DEF StockInv
  <2>3. JobTidy(h)'
    BY <2>1, <2>2 DEF JobTidy
  <2>4. \A r \in DOMAIN reservations : IsActive(r) /\ Kept(h, r) => Kept(h, r)'
    BY <1>3, <2>1 DEF Kept, Holding, At
  <2> QED
    BY <1>1, <1>3, <2>2, <2>3, <2>4, TidyJob
<1>4. CASE UNCHANGED orders /\ Abandon(h)
  BY <1>1, <1>4, TidyAbandon DEF At
<1> QED
  BY <1>2, <1>3, <1>4 DEF Persist, PersistAgain

LEMMA TidySave ==
    ASSUME OnePayer, StockInv, SettledInv, TidyInv, NEW h \in Handler, Faults = {},
           SaveCreated(h) \/ ShipIfPaid(h) \/ SaveFulfilled(h)
    PROVE  TidyInv'
<1> DEFINE o == handlers[h].order
<1>1. /\ UNCHANGED reservations /\ Return(h)
      /\ o \in Order /\ handlers[h].row \in Row /\ orders[o] \in Row
      /\ RowSettled(o)
      /\ Refers(orders[o].reservation, o) /\ Refers(handlers[h].rsv, o)
  BY DEF SaveCreated, ShipIfPaid, SaveFulfilled, StockUnchanged, inventoryVars, At, StockInv,
         TypeOK, JobsOK, JobOK, Job, SettledInv, ReferencesOK
<1>2. /\ handlers'[h] = IdleJob
      /\ \A g \in Handler \ {h} : handlers'[g] = handlers[g]
  BY <1>1, JobUpdate DEF Return, StockInv
<1>3. handlers'[h].step = "idle"
  BY <1>2 DEF IdleJob
<1>4. CASE UNCHANGED orders /\ ~At(h, "save")
  BY <1>1, <1>4, TidyReturn DEF SaveCreated, ShipIfPaid, SaveFulfilled, Holding, At
<1>5. CASE At(h, "save") /\ Write(o, [status |-> "pending", reservation |-> handlers[h].rsv,
                                      payment |-> NoPayment])
  <2> DEFINE row == [status |-> "pending", reservation |-> handlers[h].rsv,
                     payment |-> NoPayment]
  <2>1. orders[o].status = "none"
    BY <1>5 DEF At, StockInv, CreateOK, NoRow
  <2>2. row.status = "pending" /\ row.reservation = handlers[h].rsv
    OBVIOUS
  <2>3. Write(o, row)
    BY <1>5
  <2>4. NoReservation \notin DOMAIN reservations
    BY OrderAssumption DEF StockInv, TypeOK, InventoryTypeOK
  <2> HIDE DEF row, o
  <2>5. ASSUME NEW r \in DOMAIN reservations, Kept(h, r)
        PROVE  reservations[r].order = o /\ row.reservation = r
    BY <1>1, <2>2, <2>4, <2>5 DEF Kept, Refers
  <2> QED
    BY <1>1, <1>2, <1>3, <2>1, <2>2, <2>3, <2>5, TidyWrite
<1>6. CASE /\ At(h, "shipIfPaid") /\ orders[o].status = "paid"
           /\ Write(o, [orders[o] EXCEPT !.status = "in_transit"])
  <2> DEFINE row == [orders[o] EXCEPT !.status = "in_transit"]
  <2>1. reservations[orders[o].reservation].status = "committed"
    BY <1>6 DEF SettledInv, JobSettled, At
  <2>2. Write(o, row)
    BY <1>6
  <2>3. \A r \in DOMAIN reservations : ~Kept(h, r)
    BY <1>6 DEF Kept, Holding, At
  <2> HIDE DEF row, o
  <2> QED
    BY <1>1, <1>2, <1>3, <1>6, <2>1, <2>2, <2>3, TidyWrite DEF IsActive
<1>7. CASE At(h, "saveFulfilled") /\ Write(o, [handlers[h].row EXCEPT !.status = "fulfilled"])
  <2> DEFINE row == [handlers[h].row EXCEPT !.status = "fulfilled"]
  <2>1. orders[o].status \in Shipped
    BY <1>7 DEF SettledInv, JobSettled, At
  <2>2. Write(o, row)
    BY <1>7
  <2>3. \A r \in DOMAIN reservations : ~Kept(h, r)
    BY <1>7 DEF Kept, Holding, At
  <2> HIDE DEF row, o
  <2> QED
    BY <1>1, <1>2, <1>3, <2>1, <2>2, <2>3, TidyWrite DEF Shipped
<1> QED
  BY <1>4, <1>5, <1>6, <1>7 DEF SaveCreated, ShipIfPaid, SaveFulfilled, At

LEMMA TidyCancelRow ==
    ASSUME OnePayer, StockInv, SettledInv, TidyInv, NEW h \in Handler, NEW o \in Order,
           CancelRow(h, o)
    PROVE  TidyInv'
<1> DEFINE row == [orders[o] EXCEPT !.status = "canceled"]
<1>1. Write(o, row) /\ UNCHANGED reservations
  BY DEF CancelRow, StockUnchanged, inventoryVars
<1>2. row.status = "canceled"
  BY DEF StockInv, TypeOK, Row
<1>3. /\ handlers'[h] = [step |-> "release", order |-> o, payment |-> NoPayment,
                         row |-> NoRow, rsv |-> orders[o].reservation]
      /\ \A g \in Handler \ {h} : handlers'[g] = handlers[g]
  BY JobUpdate DEF CancelRow, StockInv
<1>4. handlers'[h].step = "release" /\ handlers'[h].rsv = orders[o].reservation
  BY <1>3
<1>5. \A r \in DOMAIN reservations : ~Kept(h, r)
  BY DEF CancelRow, Idle, Kept, Holding, At
<1> HIDE DEF row
<1> QED
  BY <1>1, <1>2, <1>3, <1>4, <1>5, TidyWrite

LEMMA NextTidy ==
    ASSUME OnePayer, Faults = {}, StockInv, NoStaffCancel, SettledInv, TidyInv, [Next]_vars
    PROVE  TidyInv'
<1>1. ASSUME NEW h \in Handler, Continue(h)
      PROVE  TidyInv'
  <2>1. ~SaveCanceled(h)
    BY DEF SaveCanceled, At, NoStaffCancel
  <2> QED
    BY <1>1, <2>1, TidyRead, TidyReserve, TidyRelease, TidyCommit, TidyPay, TidySave
       DEF Continue
<1>2. ASSUME NEW h \in Handler, Crash(h)
      PROVE  TidyInv'
  BY <1>2 DEF Crash
<1>3. ASSUME NEW h \in Handler, NEW o \in Order,
             \/ BeginCreate(h, o) \/ BeginShip(h, o) \/ BeginCancel(h, o) \/ BeginFulfil(h, o)
      PROVE  TidyInv'
  BY <1>3, TidyBegin DEF BeginCreate, BeginShip, BeginCancel, BeginFulfil, StockUnchanged,
                         inventoryVars
<1>4. ASSUME NEW h \in Handler, NEW m \in Payment, BeginPay(h, m)
      PROVE  TidyInv'
  <2>1. UNCHANGED <<orders, reservations>> /\ OrderOf[m] \in Order
    BY <1>4, OrderAssumption DEF BeginPay, StockUnchanged, inventoryVars
  <2>2. \/ Begin(h, "reread", OrderOf[m], m)
        \/ Begin(h, "reinstate", OrderOf[m], m) /\ orders[OrderOf[m]].status = "canceled"
    BY <1>4 DEF BeginPay
  <2> QED
    BY <2>1, <2>2, TidyBegin
<1>5. ASSUME NEW h \in Handler, NEW o \in Order, Expire(h, o)
      PROVE  TidyInv'
  BY <1>5, TidyCancelRow DEF Expire
<1>6. ASSUME UNCHANGED <<orders, handlers, reservations>>
      PROVE  TidyInv'
  BY <1>6 DEF TidyInv, JobTidy, ActiveOK, IsActive, Owed, Kept, Holding, At
<1>7. ASSUME NEW h \in Handler, NEW m \in Payment, CancelForRefund(h, m)
      PROVE  TidyInv'
  <2>1. CASE CancelRow(h, OrderOf[m])
    BY <2>1, TidyCancelRow, OrderAssumption
  <2>2. CASE StockUnchanged /\ UNCHANGED <<orders, handlers>>
    BY <1>6, <2>2 DEF StockUnchanged, inventoryVars
  <2> QED
    BY <1>7, <2>1, <2>2 DEF CancelForRefund
<1>8. ASSUME NEW m \in Payment, Capture(m) \/ Refund(m) \/ LoseRefundEvent(m)
      PROVE  TidyInv'
  BY <1>6, <1>8 DEF Capture, Refund, LoseRefundEvent, StockUnchanged, inventoryVars
<1>9. ASSUME NEW s \in Sku, Restock(s)
      PROVE  TidyInv'
  BY <1>6, <1>9 DEF Restock, UpsertItem, orderVars
<1>10. CASE UNCHANGED vars
  BY <1>6, <1>10 DEF vars, orderVars
<1> QED
  BY <1>1, <1>2, <1>3, <1>4, <1>5, <1>7, <1>8, <1>9, <1>10 DEF Next, Handler

-----------------------------------------------------------------------------
(* The theorems.                                                           *)

LEMMA InitSettled == Init => StockInv /\ PaidInv /\ NoStaffCancel /\ SettledInv /\ TidyInv
<1> SUFFICES ASSUME Init
             PROVE  StockInv /\ PaidInv /\ NoStaffCancel /\ SettledInv /\ TidyInv
  OBVIOUS
<1>1. /\ \A o \in Order : orders[o].status = "none" /\ orders[o].payment = NoPayment
      /\ \A h \in Handler : /\ handlers[h].step = "idle"
                            /\ handlers[h].row.payment = NoPayment
      /\ DOMAIN reservations = {}
  BY DEF Init, InventoryInit, NoRow, IdleJob
<1>2. PaidInv
  BY <1>1, InitShapes DEF PaidInv, PaidRow, PayingJob
<1>3. SettledInv
  BY <1>1 DEF SettledInv, RowSettled, JobSettled, CommittedOK, PaySteps, Shipped
<1>4. TidyInv
  BY <1>1 DEF TidyInv, JobTidy, ActiveOK
<1> QED
  BY <1>1, <1>2, <1>3, <1>4, InitStock DEF NoStaffCancel

LEMMA SettledAlways ==
    ASSUME OnePayer
    PROVE  Spec => [](StockInv /\ PaidInv /\ NoStaffCancel /\ SettledInv)
<1>1. /\ StockInv /\ PaidInv /\ NoStaffCancel /\ SettledInv /\ [Next]_vars
      => (StockInv /\ PaidInv /\ NoStaffCancel /\ SettledInv)'
  BY NextStock, NextPaid, NextNoStaffCancel, NextSettled DEF OnePayer
<1> QED
  BY <1>1, InitSettled, PTL DEF Spec

\* With one consumer of payment.succeeded and one payment per order, what is shipped was
\* taken out of stock, and once: a shipment that fails half way is repeated with the
\* same reservation, and a refund in between leaves the order canceled (ShipOrder,
\* CommitReservation, MarkOrderPaid), wherever a call fails or a handler dies.
THEOREM ShippedOnceHolds ==
    ASSUME OnePayer PROVE Spec => [](ShippedStockIsCommitted /\ ShippedOnce)
<1>1. SettledInv => ShippedStockIsCommitted /\ ShippedOnce
  BY DEF SettledInv, RowSettled, CommittedOK, Shipped, ShippedStockIsCommitted, ShippedOnce
<1> QED
  BY <1>1, SettledAlways, PTL

\* And when no call fails either, no reservation outlives its order: whatever a late
\* or repeated payment, an expiry or a refund does, each one is used or given back.
THEOREM StockFollowsOrdersHolds ==
    ASSUME OnePayer, Faults = {} PROVE Spec => []StockFollowsOrders
<1>1. StockInv /\ NoStaffCancel /\ SettledInv /\ TidyInv /\ [Next]_vars => TidyInv'
  BY NextTidy
<1>2. SettledInv /\ TidyInv => StockFollowsOrders
  <2>1. TidyInv => NoStockLeak
    <3> SUFFICES ASSUME TidyInv, Quiescent, NEW r \in DOMAIN reservations, IsActive(r)
                 PROVE  Owed(r)
      BY DEF NoStockLeak, Owed
    <3>1. \A h \in Handler : ~Kept(h, r)
      BY DEF Quiescent, Idle, Kept, Holding, At
    <3> QED
      BY <3>1 DEF TidyInv, ActiveOK
  <2> QED
    BY <2>1 DEF SettledInv, RowSettled, CommittedOK, Shipped, StockFollowsOrders,
                ShippedStockIsCommitted, ShippedOnce
<1> QED
  BY <1>1, <1>2, SettledAlways, InitSettled, PTL DEF Spec

\* A payment that already paid its order pays it no second time (service.go:244-250),
\* whatever the order went through since and however often the event is delivered.
THEOREM ReplayIsNoOpHolds ==
    ASSUME OnePayer PROVE Spec => ReplayIsNoOp
<1>1. StockInv /\ PaidInv /\ NoStaffCancel /\ SettledInv /\ [Next]_vars =>
        [\A o \in Order, m \in Payment :
            orders[o].payment = m /\ orders[o].status \notin {"pending", "paid"} =>
               ~(orders'[o].status = "paid" /\ orders'[o].payment = m)]_orders
  <2> SUFFICES ASSUME StockInv, PaidInv, NoStaffCancel, SettledInv, [Next]_vars,
                      NEW o \in Order, NEW m \in Payment, orders[o].payment = m,
                      orders[o].status \notin {"pending", "paid"}, orders'[o].status = "paid"
               PROVE  FALSE
    OBVIOUS
  <2>1. PICK h \in Handler :
           handlers[h].order = o /\ handlers[h].step \in {"persist", "persistAgain"}
    BY StepMoves DEF Move
  <2>2. handlers[h].payment \notin Mispaid
    BY <2>1 DEF PaidInv, PayingJob
  <2>3. orders[o].payment = NoPayment
    BY <2>1, <2>2 DEF SettledInv, JobSettled, PaySteps
  <2> QED
    BY <2>3, OrderAssumption
<1> QED
  BY <1>1, SettledAlways, PTL DEF Spec, ReplayIsNoOp
=============================================================================
