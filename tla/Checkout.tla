------------------------------ MODULE Checkout ------------------------------
(***************************************************************************)
(* Checkout sessions and the creation of orders: order/pkg/service/        *)
(* checkout.go and CreateOrder, with the rows they keep and a step for     *)
(* each call to the database, the product service (prices, coupons) and    *)
(* the stock.                                                              *)
(*                                                                         *)
(* A session is read, changed in memory and saved whole, without a lock or *)
(* a version; only the completion is a conditional UPDATE.  An order is    *)
(* created before the session is claimed for it and canceled when another  *)
(* request was faster.  A direct create may carry an idempotency key.      *)
(***************************************************************************)
EXTENDS Integers, FiniteSets

CONSTANTS
    Session,
    Variant,
    Key,            \* idempotency keys of one customer
    Body,           \* what a create request asks for, as its hash tells
    Request,        \* HTTP requests in progress
    MaxOrders,      \* bound on the order ids drawn
    EditsOverlap,   \* whether a client edits a session while it completes it
    Faults          \* subset of FaultKinds

FaultKinds == {"refused", "lost", "crash"}

NoOrder == 0
NoKey == "no key"

ASSUME CheckoutAssumption ==
    /\ MaxOrders \in Nat
    /\ NoKey \notin Key
    /\ EditsOverlap \in BOOLEAN /\ Faults \subseteq FaultKinds

VARIABLES
    sessions,       \* the table checkout_sessions with its lines
    late,           \* sessions whose expires_at has passed
    orders,         \* the table orders
    keys,           \* the table order_idempotency_keys
    stock,          \* the state of each order's reservation
    nextOrder,      \* the id sequence
    req,            \* the requests
    claims,         \* history: the orders that were completed for each session
    answers,        \* history: what creates with a key were answered
    faulty          \* history: whether a call failed or a process stopped

tables == <<sessions, orders, keys, stock, nextOrder>>
history == <<claims, answers, faulty>>
vars == <<sessions, late, orders, keys, stock, nextOrder, req, claims, answers, faulty>>

OrderId == 1..MaxOrders

NoSession ==
    [status |-> "none", items |-> {}, coupon |-> FALSE, discounted |-> FALSE, order |-> NoOrder]

NoOrderRow == [status |-> "none", items |-> {}, discounted |-> FALSE, key |-> NoKey]

NoRequest ==
    [pc |-> "idle", op |-> "none", ses |-> "none", arg |-> {}, copy |-> NoSession,
     key |-> NoKey, body |-> "none", discount |-> FALSE, order |-> NoOrder]

Init ==
    /\ sessions = [s \in Session |-> NoSession]
    /\ late = {}
    /\ orders = [o \in OrderId |-> NoOrderRow]
    /\ keys = [k \in Key |-> [order |-> NoOrder, body |-> "none"]]
    /\ stock = [o \in OrderId |-> "none"]
    /\ nextOrder = 1
    /\ req = [r \in Request |-> NoRequest]
    /\ claims = [s \in Session |-> {}]
    /\ answers = {}
    /\ faulty = FALSE

At(r, pc) == req[r].pc = pc

Goto(r, pc) == req' = [req EXCEPT ![r].pc = pc]

\* The request ends, with an answer or an error.
Done(r) == req' = [req EXCEPT ![r] = NoRequest]

Works(r, ops) == ~At(r, "idle") /\ req[r].op \in ops

\* A call without effect: refused by the network, the server or the database.
Refused == "refused" \in Faults /\ faulty' = TRUE

\* A call that took effect while its reply was lost.
Lost == "lost" \in Faults /\ faulty' = TRUE

Fine == UNCHANGED faulty

-----------------------------------------------------------------------------
\* The operations on a session as it is held in memory.
\* Expired gone wrong: a completed session expires as well.
ExpiredAny(session, s) == session.status = "expired" \/ (session.status # "none" /\ s \in late)

Expired(session, s) == session.status = "expired" \/ (session.status = "open" /\ s \in late)

\* EnsureOpen gone wrong: it looks at the time only.
EnsureInTime(session, s) ==
    [session EXCEPT !.status = IF s \in late THEN "expired" ELSE "open"]

\* EnsureOpen also marks the copy as expired.
EnsureOpen(session, s) ==
    IF Expired(session, s) THEN [session EXCEPT !.status = "expired"] ELSE session

\* The totals are recalculated without the discount; the coupon's code stays.
SetItems(session, items) == [session EXCEPT !.items = items, !.discounted = FALSE]

UpsertItem(session, arg) == SetItems(session, session.items \cup arg)

RemoveItem(session, arg) == SetItems(session, session.items \ arg)

RemoveItemBySkuID(session, arg) == SetItems(session, session.items \ arg)

ApplyCoupon(session) == [session EXCEPT !.coupon = TRUE, !.discounted = TRUE]

Edits == {"set", "upsert", "remove", "remove by id", "coupon"}

-----------------------------------------------------------------------------
\* POST of a session, by its customer or by a caller with order:create:any.
CreateCheckoutSession(s) ==
    /\ sessions[s] = NoSession
    /\ sessions' = [sessions EXCEPT ![s].status = "open"]
    /\ UNCHANGED <<late, orders, keys, stock, nextOrder, req, history>>

Expire(s) ==
    /\ s \notin late /\ sessions[s] # NoSession
    /\ late' = late \cup {s}
    /\ UNCHANGED <<tables, req, history>>

\* Bound on what a client does at once: EditsOverlap.
Overlaps(s, ops) == \E r \in Request : Works(r, ops) /\ req[r].ses = s

checkoutSession(r, s) ==
    /\ At(r, "idle") /\ sessions[s] # NoSession
    /\ \E op \in Edits \cup {"get", "complete"} :
          /\ ~EditsOverlap => /\ op \in Edits => ~Overlaps(s, Edits \cup {"complete"})
                              /\ op = "complete" => ~Overlaps(s, Edits)
          /\ \E arg \in CASE op = "set" -> SUBSET Variant
                          [] op \in {"upsert", "remove", "remove by id"} -> {{v} : v \in Variant}
                          [] OTHER -> {{}} :
                req' = [req EXCEPT ![r] = [NoRequest EXCEPT !.pc = "access", !.op = op,
                                                            !.ses = s, !.arg = arg]]
    /\ UNCHANGED <<tables, late, history>>

\* Every route first reads the session to see whose it is; a session that turns
\* out to be expired is saved, before the caller is turned away.
GetCheckoutSession(r) ==
    /\ At(r, "access")
    /\ LET row == sessions[req[r].ses]
       IN  \/ /\ Expired(row, req[r].ses)
              /\ req' = [req EXCEPT ![r].pc = "save back",
                                    ![r].copy = EnsureOpen(row, req[r].ses)]
           \/ /\ ~Expired(row, req[r].ses)
              /\ IF req[r].op = "get" THEN Done(r) ELSE Goto(r, "open")
           \/ Done(r)     \* not the caller's session
    /\ UNCHANGED <<tables, late, history>>

\* What comes after a session was read and is open.
NextPc(op, session) ==
    CASE op \in {"set", "upsert"} -> "price"
      [] op \in {"remove", "remove by id"} -> "save"
      [] op = "coupon" -> "redeem"
      [] op = "complete" -> "price"

getOpenCheckoutSession(r) ==
    /\ At(r, "open")
    /\ LET row == EnsureOpen(sessions[req[r].ses], req[r].ses)
           op == req[r].op
       IN  IF row.status # "open"
             THEN req' = [req EXCEPT ![r].pc = "save back", ![r].copy = row]
           ELSE IF op \in {"coupon", "complete"} /\ row.items = {}
             THEN Done(r)
           ELSE req' = [req EXCEPT ![r].pc = NextPc(op, row),
                          ![r].copy = CASE op = "remove" -> RemoveItem(row, req[r].arg)
                                        [] op = "remove by id" -> RemoveItemBySkuID(row, req[r].arg)
                                        [] OTHER -> row]
    /\ UNCHANGED <<tables, late, history>>

\* The row that was read goes back as it was, or expired; an error is ignored.
SaveBack(r) ==
    /\ At(r, "save back")
    /\ \/ sessions' = [sessions EXCEPT ![req[r].ses] = req[r].copy] /\ Fine
       \/ UNCHANGED sessions /\ Refused
    /\ Done(r)
    /\ UNCHANGED <<late, orders, keys, stock, nextOrder, claims, answers>>

\* Every line gets its price from the product service, or the request fails.
priceItems(r) ==
    /\ At(r, "price")
    /\ LET copy == req[r].copy
       IN  \/ /\ req[r].op = "complete"
              /\ Goto(r, IF copy.coupon THEN "redeem" ELSE "reserve")
           \/ /\ req[r].op # "complete" /\ req[r].ses \notin late
              /\ req' = [req EXCEPT ![r].pc = "save",
                            ![r].copy = IF req[r].op = "set" THEN SetItems(copy, req[r].arg)
                                        ELSE UpsertItem(copy, req[r].arg)]
           \/ Done(r)
    /\ UNCHANGED <<tables, late, history>>

\* A completion redeems the session's coupon anew: it may be gone by now.
Redeem(r) ==
    /\ At(r, "redeem")
    /\ \/ /\ req[r].op = "complete"
          /\ req' = [req EXCEPT ![r].pc = "reserve", ![r].discount = TRUE]
       \/ /\ req[r].op = "coupon" /\ req[r].ses \notin late
          /\ req' = [req EXCEPT ![r].pc = "save", ![r].copy = ApplyCoupon(req[r].copy)]
       \/ Done(r)
    /\ UNCHANGED <<tables, late, history>>

\* The whole copy replaces the row and its lines, whatever they are by now.
SaveCheckoutSession(r) ==
    /\ At(r, "save")
    /\ \/ sessions' = [sessions EXCEPT ![req[r].ses] = req[r].copy] /\ Fine
       \/ UNCHANGED sessions /\ Refused
    /\ Done(r)
    /\ UNCHANGED <<late, orders, keys, stock, nextOrder, claims, answers>>

-----------------------------------------------------------------------------
\* POST of an order with an idempotency key.
createOrder(r, k, b) ==
    /\ At(r, "idle")
    /\ req' = [req EXCEPT ![r] = [NoRequest EXCEPT !.pc = "find", !.op = "create",
                                                   !.key = k, !.body = b]]
    /\ UNCHANGED <<tables, late, history>>

Replay(r) == req[r].key \in Key /\ keys[req[r].key].order # NoOrder

\* The same key and the same body give the order created then; another body is
\* a conflict.  A request that already failed to save does not try again.
loadIdempotentOrder(r) ==
    /\ At(r, "find") \/ At(r, "find again")
    /\ IF Replay(r) /\ keys[req[r].key].body = req[r].body
         THEN /\ answers' = answers \cup {[key |-> req[r].key, body |-> req[r].body,
                                           order |-> keys[req[r].key].order]}
              /\ Done(r)
         ELSE /\ UNCHANGED answers
              /\ IF Replay(r) \/ At(r, "find again") THEN Done(r) ELSE Goto(r, "reserve")
    /\ UNCHANGED <<tables, late, claims, faulty>>

ItemsOf(r) == IF req[r].op = "complete" THEN req[r].copy.items ELSE {}

\* Prices again, a new id, and the reservation.
Reserve(r) ==
    /\ At(r, "reserve")
    /\ \/ /\ nextOrder <= MaxOrders
          /\ nextOrder' = nextOrder + 1
          /\ \/ /\ stock' = [stock EXCEPT ![nextOrder] = "active"]
                /\ req' = [req EXCEPT ![r].pc = "save order", ![r].order = nextOrder]
                /\ Fine
             \/ stock' = [stock EXCEPT ![nextOrder] = "active"] /\ Done(r) /\ Lost
             \/ UNCHANGED stock /\ Done(r) /\ Fine         \* not enough stock
       \/ UNCHANGED <<nextOrder, stock>> /\ Done(r) /\ Fine   \* no price, no id
    /\ UNCHANGED <<sessions, late, orders, keys, claims, answers>>

\* NewRow gone wrong: the discount of the coupon is not handed on.
NewRowUndiscounted(r) ==
    [status |-> "pending", items |-> ItemsOf(r), discounted |-> FALSE, key |-> req[r].key]

\* The order as NewOrder builds it.
NewRow(r) ==
    [status |-> "pending", items |-> ItemsOf(r), discounted |-> req[r].discount,
     key |-> req[r].key]

Inserted(r) ==
    /\ orders' = [orders EXCEPT ![req[r].order] = NewRow(r)]
    /\ keys' = IF req[r].key = NoKey THEN keys
               ELSE [keys EXCEPT ![req[r].key] = [order |-> req[r].order, body |-> req[r].body]]

\* KeyFree gone wrong: the key's row is an upsert.
AlwaysFree(r) == TRUE

\* The key's row is inserted in the order's transaction; its primary key admits
\* one order.
KeyFree(r) == ~Replay(r)

SaveOrder(r) ==
    /\ At(r, "save order")
    /\ \/ /\ KeyFree(r)
          /\ Inserted(r) /\ Fine
          /\ IF req[r].op = "complete"
               THEN Goto(r, "claim") /\ UNCHANGED answers
               ELSE /\ Done(r)
                    /\ answers' = answers \cup {[key |-> req[r].key, body |-> req[r].body,
                                                 order |-> req[r].order]}
       \/ ~KeyFree(r) /\ Goto(r, "unwind") /\ UNCHANGED <<orders, keys, answers>> /\ Fine
       \/ Goto(r, "unwind") /\ UNCHANGED <<orders, keys, answers>> /\ Refused
       \/ KeyFree(r) /\ Inserted(r) /\ Goto(r, "unwind") /\ UNCHANGED answers /\ Lost
    /\ UNCHANGED <<sessions, late, stock, nextOrder, claims>>

\* The save failed: the reservation is released, and with a key the order of
\* whoever was faster is answered.
Unwind(r) ==
    /\ At(r, "unwind")
    /\ \/ stock' = [stock EXCEPT ![req[r].order] = "released"] /\ Fine
       \/ UNCHANGED stock /\ Refused
    /\ IF req[r].key = NoKey THEN Done(r) ELSE Goto(r, "find again")
    /\ UNCHANGED <<sessions, late, orders, keys, nextOrder, claims, answers>>

-----------------------------------------------------------------------------
Claimed(r) ==
    /\ sessions' = [sessions EXCEPT ![req[r].ses].status = "completed",
                                    ![req[r].ses].order = req[r].order]
    /\ claims' = [claims EXCEPT ![req[r].ses] = @ \cup {req[r].order}]

\* Claimable gone wrong: the status is not looked at.
AnyClaimable(s) == sessions[s] # NoSession

\* UPDATE ... WHERE status = 'open'; the expiry is not looked at again.
Claimable(s) == sessions[s].status = "open"

CompleteCheckoutSessionIfOpen(r) ==
    /\ At(r, "claim")
    /\ \/ Claimable(req[r].ses) /\ Claimed(r) /\ Done(r) /\ Fine
       \/ ~Claimable(req[r].ses) /\ Goto(r, "cancel") /\ UNCHANGED <<sessions, claims>> /\ Fine
       \/ Goto(r, "cancel") /\ UNCHANGED <<sessions, claims>> /\ Refused
       \/ Claimable(req[r].ses) /\ Claimed(r) /\ Goto(r, "cancel") /\ Lost
    /\ UNCHANGED <<late, orders, keys, stock, nextOrder, answers>>

\* CancelOrder gone wrong: the reservation is not released.
CancelOnly(r) ==
    /\ At(r, "cancel")
    /\ orders' = [orders EXCEPT ![req[r].order].status = "canceled"]
    /\ Done(r)
    /\ UNCHANGED <<sessions, late, keys, stock, nextOrder, history>>

\* The order of a completion that came too late is canceled; an error is ignored.
CancelOrder(r) ==
    /\ At(r, "cancel")
    /\ \/ /\ orders' = [orders EXCEPT ![req[r].order].status = "canceled"]
          /\ Goto(r, "release") /\ Fine
       \/ UNCHANGED orders /\ Done(r) /\ Refused
    /\ UNCHANGED <<sessions, late, keys, stock, nextOrder, claims, answers>>

ReleaseReservation(r) ==
    /\ At(r, "release")
    /\ \/ stock' = [stock EXCEPT ![req[r].order] = "released"] /\ Fine
       \/ UNCHANGED stock /\ Refused
    /\ Done(r)
    /\ UNCHANGED <<sessions, late, orders, keys, nextOrder, claims, answers>>

Crash(r) ==
    /\ "crash" \in Faults /\ ~At(r, "idle")
    /\ Done(r)
    /\ faulty' = TRUE
    /\ UNCHANGED <<tables, late, claims, answers>>

Next ==
    \/ \E s \in Session : CreateCheckoutSession(s) \/ Expire(s)
    \/ \E r \in Request :
          \/ \E s \in Session : checkoutSession(r, s)
          \/ \E k \in Key, b \in Body : createOrder(r, k, b)
          \/ GetCheckoutSession(r) \/ getOpenCheckoutSession(r) \/ SaveBack(r)
          \/ priceItems(r) \/ Redeem(r) \/ SaveCheckoutSession(r)
          \/ loadIdempotentOrder(r) \/ Reserve(r) \/ SaveOrder(r) \/ Unwind(r)
          \/ CompleteCheckoutSessionIfOpen(r) \/ CancelOrder(r) \/ ReleaseReservation(r)
          \/ Crash(r)

Spec == Init /\ [][Next]_vars

-----------------------------------------------------------------------------
\* The type invariant.
TypeOK ==
    /\ \A s \in Session :
          /\ sessions[s].status \in {"none", "open", "completed", "expired"}
          /\ sessions[s].items \subseteq Variant
          /\ sessions[s].order # NoOrder <=> sessions[s].status = "completed"
    /\ \A o \in OrderId : orders[o].status \in {"none", "pending", "canceled"}
    /\ stock \in [OrderId -> {"none", "active", "released"}]
    /\ nextOrder \in 1..(MaxOrders + 1)

\* However often a session is completed, by a double click or a retry after a
\* lost answer, it is completed for one order.
OneOrderPerSession == \A s \in Session : Cardinality(claims[s]) <= 1

\* A completed session is not reopened.
CompletedIsNotReopenedStep ==
    \A s \in Session : sessions[s].status = "completed" => sessions'[s].status # "open"

\* What a completed session shows is what was ordered: the lines, and the
\* discount if it quoted one.
SessionMatchesOrder ==
    \A s \in Session :
        sessions[s].status = "completed" =>
            LET o == orders[sessions[s].order]
            IN  o.items = sessions[s].items /\ (sessions[s].discounted => o.discounted)

\* A session ends with one order, the one it shows, and stays ended.
SessionKeepsItsOrder ==
    /\ [](TypeOK /\ OneOrderPerSession /\ SessionMatchesOrder)
    /\ [][CompletedIsNotReopenedStep]_vars

\* Without faults every request leaves its order in order: pending and holding
\* stock if a session or a key names it, else canceled or never saved, and then
\* holding none.
LosersAreUndone ==
    \A o \in OrderId :
        (~faulty /\ ~\E r \in Request : req[r].order = o) =>
            /\ stock[o] = "active" <=> orders[o].status = "pending"
            /\ orders[o].status = "pending" <=>
                  (\E s \in Session : o \in claims[s]) \/ (\E k \in Key : keys[k].order = o)

\* All creates that succeed under one key are answered with the same order, for
\* the same body, under every fault.
AnswersAgree ==
    \A a, b \in answers : a.key = b.key => a = b
=============================================================================
