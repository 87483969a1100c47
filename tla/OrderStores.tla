----------------------------- MODULE OrderStores -----------------------------
(* The order service's two stores side by side: the Postgres repository        *)
(* (order/pkg/infra/pg/repository.go) and the in-memory one that every service *)
(* test and a start without a database use (infra/memory/repository.go).  They *)
(* are given the same calls; what the tests show of one is worth for the other *)
(* as far as they then hold the same.                                          *)
(*                                                                             *)
(* A caller reads an order or a session, changes its copy, and has it saved    *)
(* when other callers may have moved the row.  Postgres replaces the columns   *)
(* of an UPDATE, memory the whole entry.  Each call is atomic in both: a       *)
(* transaction on one row, a mutex.                                            *)
EXTENDS Naturals

CONSTANTS Order, Key, Payment, Caller,
          Moved,           \* bound: the orders that move on once created
          NoOrder, NoKey, NoPayment,
          MaxReservation,  \* bound: reservations an order is reinstated with
          MaxClock         \* bound: deadlines that can pass

OrderStoresAssumption ==
    /\ NoKey \notin Key /\ NoPayment \notin Payment
    /\ MaxReservation \in Nat /\ MaxClock \in Nat /\ Moved \subseteq Order

VARIABLES rows,      \* per store: the orders
          told,      \* per store and order: the status its last event carries
          keys,      \* per store: the order an Idempotency-Key is stored for
          session,   \* per store: the checkout session
          copy,      \* per caller: the order it has read
          draft,     \* per caller: the session it has read
          clock

vars == <<rows, told, keys, session, copy, draft, clock>>

Store == {"postgres", "memory"}
Status == {"none", "pending", "paid", "in_transit", "fulfilled", "canceled"}
Row == [status : Status, payment : Payment \cup {NoPayment},
        reservation : 0..MaxReservation, due : 0..MaxClock]
NoRow == [status |-> "none", payment |-> NoPayment, reservation |-> 0, due |-> 0]
Session == [status : {"open", "completed", "expired"}, order : Order \cup {NoOrder}]
OpenSession == [status |-> "open", order |-> NoOrder]

Nothing == [order |-> NoOrder]
Copy == {Nothing} \cup [order : Order, row : [Store -> Row]]
Draft == {Nothing} \cup [Store -> Session]

\* What was paid for names its payment.
NamesItsPayment(row) ==
    row.status \in {"paid", "in_transit", "fulfilled"} => row.payment # NoPayment

TypeOK ==
    /\ rows \in [Store -> [Order -> Row]]
    /\ told \in [Store -> [Order -> Status]]
    /\ keys \in [Store -> [Key -> Order \cup {NoOrder}]]
    /\ session \in [Store -> Session]
    /\ copy \in [Caller -> Copy] /\ draft \in [Caller -> Draft]
    /\ clock \in 0..MaxClock
    /\ \A s \in Store, o \in Order : NamesItsPayment(rows[s][o])

Init ==
    /\ rows = [s \in Store |-> [o \in Order |-> NoRow]]
    /\ told = [s \in Store |-> [o \in Order |-> "none"]]
    /\ keys = [s \in Store |-> [k \in Key |-> NoOrder]]
    /\ session = [s \in Store |-> OpenSession]
    /\ copy = [c \in Caller |-> Nothing] /\ draft = [c \in Caller |-> Nothing]
    /\ clock = 0

OrdersUnchanged == UNCHANGED <<rows, told, keys, copy>>
SessionsUnchanged == UNCHANGED <<session, draft>>

-----------------------------------------------------------------------------
(* What a call leaves of the stored row and the caller's copy *)

NewOrder == [NoRow EXCEPT !.status = "pending", !.due = clock]

\* Order.MarkPaid; ReinstateForLatePayment goes before it on a canceled order.
MarkPaid(row, m) == [row EXCEPT !.status = "paid", !.payment = m]
ReinstateForLatePayment(row, r) == [row EXCEPT !.reservation = r, !.due = clock]
IsPaymentExpired(row) == row.status = "pending" /\ clock > row.due

PgPaidIfPending(old, new) ==
    IF old.status = "pending"
    THEN [old EXCEPT !.status = "paid", !.payment = new.payment,
                     !.reservation = new.reservation]
    ELSE old
PgPaidIfCanceled(old, new) ==
    IF old.status = "canceled"
    THEN [old EXCEPT !.status = "paid", !.payment = new.payment,
                     !.reservation = new.reservation, !.due = new.due]
    ELSE old

\* Gone wrong: the whole copy is written, as it was read.
ShipWholeRow(old, new) == IF old.status = "paid" THEN new ELSE old

PgShipIfPaid(old, new) ==
    IF old.status = "paid" THEN [old EXCEPT !.status = "in_transit"] ELSE old

MemoryPaidIfPending(old, new) == IF old.status = "pending" THEN new ELSE old
MemoryPaidIfCanceled(old, new) == IF old.status = "canceled" THEN new ELSE old
MemoryShipIfPaid(old, new) == IF old.status = "paid" THEN new ELSE old

PgCancelExpired(old) ==
    IF IsPaymentExpired(old) THEN [old EXCEPT !.status = "canceled"] ELSE old
MemoryCancelExpired(old) ==
    IF old.status # "pending" \/ clock <= old.due THEN old
    ELSE [old EXCEPT !.status = "canceled"]

PgCancelForRefund(old, m) ==
    IF old.status = "paid" /\ old.payment = m THEN [old EXCEPT !.status = "canceled"] ELSE old

\* Gone wrong: any paid order is canceled, whichever payment was refunded.
MemoryCancelAnyPaid(old, m) ==
    IF old.status = "paid" THEN [old EXCEPT !.status = "canceled"] ELSE old

MemoryCancelForRefund(old, m) ==
    IF old.status # "paid" \/ old.payment # m THEN old ELSE [old EXCEPT !.status = "canceled"]

-----------------------------------------------------------------------------
(* The calls on orders *)

\* Gone wrong: the events are appended whether or not the row was updated.
LogAnyway(o, pg, mem, status) ==
    LET new == [postgres |-> pg, memory |-> mem] IN
    /\ rows' = [s \in Store |-> [rows[s] EXCEPT ![o] = new[s]]]
    /\ told' = [s \in Store |-> [told[s] EXCEPT ![o] = status]]
    /\ UNCHANGED <<keys, clock>>
    /\ SessionsUnchanged

\* Both stores hold pg and mem for o; one that changed its row appends the
\* caller's events, which carry the status, in the same transaction.
Write(o, pg, mem, status) ==
    LET new == [postgres |-> pg, memory |-> mem] IN
    /\ rows' = [s \in Store |-> [rows[s] EXCEPT ![o] = new[s]]]
    /\ told' = [s \in Store |-> [told[s] EXCEPT
                  ![o] = IF new[s] = rows[s][o] THEN @ ELSE status]]
    /\ UNCHANGED <<keys, clock>>
    /\ SessionsUnchanged

\* Gone wrong: memory compares the request's hash and not the order.
KeyByHash(s, k) == s = "memory" \/ k = NoKey \/ keys[s][k] = NoOrder

\* The idempotency row of another order refuses the save: a unique index in
\* Postgres, a lookup in memory.  An order's own id is always new.
KeyFree(s, k) == k = NoKey \/ keys[s][k] = NoOrder

\* SaveWithOutbox of a new order.
Create(o, k) ==
    LET saved == {s \in Store : KeyFree(s, k)} IN
    /\ \A s \in Store : rows[s][o] = NoRow
    /\ rows' = [s \in Store |-> IF s \in saved THEN [rows[s] EXCEPT ![o] = NewOrder]
                                ELSE rows[s]]
    /\ told' = [s \in Store |-> IF s \in saved THEN [told[s] EXCEPT ![o] = "pending"]
                                ELSE told[s]]
    /\ keys' = [s \in Store |-> IF s \in saved /\ k # NoKey THEN [keys[s] EXCEPT ![k] = o]
                                ELSE keys[s]]
    /\ UNCHANGED <<copy, clock>> /\ SessionsUnchanged

\* bound: a caller reads one thing at a time
Free(c) == copy[c] = Nothing /\ draft[c] = Nothing

\* Get, ListByCustomer, ListAll: a copy, which later calls do not change.
Get(c, o) ==
    /\ Free(c) /\ \A s \in Store : rows[s][o] # NoRow
    /\ copy' = [copy EXCEPT ![c] = [order |-> o, row |-> [s \in Store |-> rows[s][o]]]]
    /\ UNCHANGED <<rows, told, keys, clock>> /\ SessionsUnchanged

Holds(c, status) == copy[c] # Nothing /\ \A s \in Store : copy[c].row[s].status = status
Done(c) == copy' = [copy EXCEPT ![c] = Nothing]

PayPending(c, m) ==
    LET o == copy[c].order
        new == [s \in Store |-> MarkPaid(copy[c].row[s], m)] IN
    /\ Holds(c, "pending")
    /\ Write(o, PgPaidIfPending(rows["postgres"][o], new["postgres"]),
              MemoryPaidIfPending(rows["memory"][o], new["memory"]), "paid")
    /\ Done(c)

PayCanceled(c, m, r) ==
    LET o == copy[c].order
        new == [s \in Store |-> MarkPaid(ReinstateForLatePayment(copy[c].row[s], r), m)] IN
    /\ Holds(c, "canceled") /\ copy[c].row["postgres"].payment # m
    /\ Write(o, PgPaidIfCanceled(rows["postgres"][o], new["postgres"]),
              MemoryPaidIfCanceled(rows["memory"][o], new["memory"]), "paid")
    /\ Done(c)

Shipped(row) == [row EXCEPT !.status = "in_transit"]

Ship(c) ==
    LET o == copy[c].order IN
    /\ Holds(c, "paid")
    /\ Write(o, PgShipIfPaid(rows["postgres"][o], Shipped(copy[c].row["postgres"])),
              MemoryShipIfPaid(rows["memory"][o], Shipped(copy[c].row["memory"])),
              "in_transit")
    /\ Done(c)

\* saveStatusChange: SaveWithOutbox, the whole row in both stores.
SaveStatus(c, status) ==
    LET o == copy[c].order
        new == [s \in Store |-> [copy[c].row[s] EXCEPT !.status = status]] IN
    /\ Write(o, new["postgres"], new["memory"], status)
    /\ Done(c)

Cancel(c) == (Holds(c, "pending") \/ Holds(c, "paid")) /\ SaveStatus(c, "canceled")
Fulfil(c) == Holds(c, "in_transit") /\ SaveStatus(c, "fulfilled")

\* The expiry worker: what the list shows is looked at again by the update.
Expire(o) ==
    /\ Write(o, PgCancelExpired(rows["postgres"][o]), MemoryCancelExpired(rows["memory"][o]),
              "canceled")
    /\ UNCHANGED copy

Refund(o, m) ==
    /\ Write(o, PgCancelForRefund(rows["postgres"][o], m),
              MemoryCancelForRefund(rows["memory"][o], m), "canceled")
    /\ UNCHANGED copy

-----------------------------------------------------------------------------
(* The checkout session, which is open until the clock moves *)

SessionOver == clock > 0

GetSession(c) ==
    /\ Free(c)
    /\ draft' = [draft EXCEPT ![c] = session]
    /\ UNCHANGED <<session, clock>> /\ OrdersUnchanged

\* EnsureOpen: a copy that is over is saved as expired; an open one is saved
\* with the edit.  Both stores replace the whole session.
SaveCheckoutSession(c) ==
    /\ draft[c] # Nothing /\ \A s \in Store : draft[c][s].status = "open"
    /\ session' = [s \in Store |-> IF SessionOver THEN [draft[c][s] EXCEPT !.status = "expired"]
                                   ELSE draft[c][s]]
    /\ draft' = [draft EXCEPT ![c] = Nothing]
    /\ UNCHANGED clock /\ OrdersUnchanged

PgComplete(old, o) ==
    IF old.status = "open" THEN [status |-> "completed", order |-> o] ELSE old

\* Gone wrong: memory claims the session for whoever asks.
MemoryCompleteAny(old, o) == [status |-> "completed", order |-> o]

\* Only the memory store looks at the time.
MemoryComplete(old, o) ==
    IF old.status # "open" THEN old
    ELSE IF SessionOver THEN [old EXCEPT !.status = "expired"]
    ELSE [status |-> "completed", order |-> o]

CompleteCheckoutSessionIfOpen(o) ==
    /\ \A s \in Store : rows[s][o] # NoRow
    /\ session' = [postgres |-> PgComplete(session["postgres"], o),
                   memory |-> MemoryComplete(session["memory"], o)]
    /\ UNCHANGED <<draft, clock>> /\ OrdersUnchanged

TimePasses ==
    /\ clock < MaxClock
    /\ clock' = clock + 1
    /\ SessionsUnchanged /\ OrdersUnchanged

Next ==
    \/ \E o \in Order :
        \/ \E k \in Key \cup {NoKey} : Create(o, k)
        \/ CompleteCheckoutSessionIfOpen(o)
    \/ \E o \in Moved :
        \/ Expire(o)
        \/ \E m \in Payment : Refund(o, m)
        \/ \E c \in Caller : Get(c, o)
    \/ \E c \in Caller :
        \/ \E m \in Payment : PayPending(c, m)
        \/ \E m \in Payment, r \in 1..MaxReservation : PayCanceled(c, m, r)
        \/ Ship(c) \/ Cancel(c) \/ Fulfil(c) \/ GetSession(c) \/ SaveCheckoutSession(c)
    \/ TimePasses

Spec == Init /\ [][Next]_vars

-----------------------------------------------------------------------------
(* Properties *)

SameOrder(pg, mem) ==
    /\ mem.status = pg.status
    /\ mem.status \notin {"in_transit", "fulfilled"} => mem = pg

\* The in-memory store moves every order as Postgres does, and holds the same
\* row until it is shipped: whatever the callers read before, and whatever
\* moved the row in between.
OrdersAgree == \A o \in Order : SameOrder(rows["postgres"][o], rows["memory"][o])

\* SaveWithOutbox and the conditional saves: the last event of an order that was
\* appended to the outbox carries the status the row has, in both stores.
EventsTellTheRow ==
    \A s \in Store, o \in Order : told[s][o] = rows[s][o].status

\* An Idempotency-Key creates one order: the order it is stored for never
\* changes, and no second order is saved under it, in either store.
OneOrderPerKeyStep ==
    \A s \in Store, k \in Key :
        keys[s][k] # NoOrder
        => keys'[s][k] = keys[s][k] /\ keys'["memory"][k] = keys'["postgres"][k]

OneOrderPerKey == [][OneOrderPerKeyStep]_vars

\* ShipIfPaid of a copy that was read under an earlier payment, since refunded
\* and replaced: in Postgres the shipped order keeps the payment and the
\* reservation it was paid with.  (The memory store puts the earlier ones back.)
ShipKeepsPaymentStep ==
    \A o \in Order :
        (rows["postgres"][o].status = "paid" /\ rows'["postgres"][o].status = "in_transit")
        => rows'["postgres"][o] = [rows["postgres"][o] EXCEPT !.status = "in_transit"]

ShipKeepsPayment == [][ShipKeepsPaymentStep]_vars

\* CompleteCheckoutSessionIfOpen: until a session's time is over both stores
\* give it to the same order.  (Afterwards only the memory store refuses.)
SessionsAgree == SessionOver \/ session["memory"] = session["postgres"]

-----------------------------------------------------------------------------
(* The inductive invariant of the proofs: what callers have read, of an order or of a *)
(* session, is the same in both stores too, and an order that is still pending is as  *)
(* they have all read it.                                                             *)
CopyOK(x) ==
    x # Nothing =>
        /\ SameOrder(x.row["postgres"], x.row["memory"])
        /\ \A s \in Store :
            /\ NamesItsPayment(x.row[s]) /\ x.row[s].status # "none"
            /\ rows[s][x.order] # NoRow
            /\ rows[s][x.order].status = "pending" => x.row[s] = rows[s][x.order]

OrdersInv ==
    /\ TypeOK /\ OrdersAgree /\ EventsTellTheRow /\ keys["memory"] = keys["postgres"]
    /\ \A s \in Store, o \in Order : rows[s][o].status = "none" => rows[s][o] = NoRow
    /\ \A c \in Caller : CopyOK(copy[c])

SessionsInv ==
    SessionOver
        \/ /\ session["memory"] = session["postgres"]
           /\ \A c \in Caller : draft[c] # Nothing => draft[c]["memory"] = draft[c]["postgres"]

StoresInv == OrdersInv /\ SessionsInv
=============================================================================
