----------------------------- MODULE InventoryTx -----------------------------
(***************************************************************************)
(* The inventory store at the granularity of its row locks: each database  *)
(* transaction of product/pkg/infra/pg/inventory_store.go locks one row at *)
(* a time (SELECT ... FOR UPDATE or UPDATE, READ COMMITTED), waits while   *)
(* another transaction holds it, and checks the row once it has it.        *)
(*                                                                         *)
(* A transaction's own writes are invisible until it commits and touch     *)
(* only rows it has locked, so they are applied when it commits.  The      *)
(* committed state is that of Inventory, which this module implements.     *)
(***************************************************************************)
EXTENDS Inventory, Sequences, Functions

CONSTANTS
    Tx,         \* concurrent database connections
    Rank        \* the string order of sku ids, by which rows are locked

ASSUME InventoryTxAssumption ==
    /\ Rank \in [Sku -> Nat]
    /\ \A s, t \in Sku : Rank[s] = Rank[t] => s = t

VARIABLE
    tx          \* the transaction open on each connection

vars == <<stock, reservations, sold, tx>>

\* Lockable rows: stock_items, reservations, products and the id sequence.
StockRow(s) == <<"stock", s>>
ReservationRow(r) == <<"reservation", r>>
ProductRow(p) == <<"product", p>>
SequenceRow == <<"sequence">>

NoTx == [op |-> "none", rsv |-> 0, order |-> {}, items |-> [s \in Sku |-> 0],
         route |-> <<>>, held |-> {}]

Idle(t) == tx[t].op = "none"

Listed(items) == {s \in Sku : items[s] > 0}

Parents(items) == {ProductOf[s] : s \in Listed(items)}

\* The sequences of all members of a finite set, each once.
Enumerations(S) == Bijection(1..Cardinality(S), S)

\* LockOrder gone wrong: rows are locked in the order the lines came in.
AnyLockOrder(items) == Enumerations(Listed(items))

\* The order in which a transaction may lock the stock rows of its lines.
LockOrder(items) ==
    {skus \in Enumerations(Listed(items)) :
        \A i, j \in DOMAIN skus : i < j => Rank[skus[i]] < Rank[skus[j]]}

StockRows(skus) == [i \in DOMAIN skus |-> StockRow(skus[i])]

\* CreateReservation locks the stock rows by sku id, then draws the id.
ReserveRoutes(items) ==
    {StockRows(skus) \o <<SequenceRow>> : skus \in LockOrder(items)}

\* FinalizeReservation locks the reservation, then the stock rows by sku id;
\* a commit then updates the parents in whatever order the plan visits them.
FinalizeRoutes(op, r, items) ==
    {<<ReservationRow(r)>> \o StockRows(skus) \o parents :
        skus \in LockOrder(items),
        parents \in IF op = "commit"
                      THEN {[i \in DOMAIN ps |-> ProductRow(ps[i])] :
                                ps \in Enumerations(Parents(items))}
                      ELSE {<<>>}}

Holder(row) == {t \in Tx : row \in tx[t].held}

Init == InventoryInit /\ tx = [t \in Tx |-> NoTx]

-----------------------------------------------------------------------------
\* Bound: the id sequence of the code has no end, this one does.
IdsLeft ==
    Cardinality(DOMAIN reservations) + Cardinality({u \in Tx : tx[u].op = "reserve"})
        < Cardinality(ReservationId)

BeginReserve(t, o, items) ==
    /\ Idle(t)
    /\ IdsLeft
    /\ Listed(items) # {}
    /\ \E route \in ReserveRoutes(items) :
           tx' = [tx EXCEPT ![t] = [NoTx EXCEPT !.op = "reserve", !.order = o,
                                                !.items = items, !.route = route]]
    /\ UNCHANGED inventoryVars

\* The items are read after the reservation row is locked; they never change,
\* so they are known here.
BeginFinalize(t, op, r) ==
    /\ Idle(t)
    /\ r \in DOMAIN reservations
    /\ \E route \in FinalizeRoutes(op, r, reservations[r].items) :
           tx' = [tx EXCEPT ![t] = [NoTx EXCEPT !.op = op, !.rsv = r,
                                                !.items = reservations[r].items,
                                                !.route = route]]
    /\ UNCHANGED inventoryVars

\* The check made on a row as soon as it is locked.
Accepts(t, row) ==
    /\ row[1] = "reservation" => IsActive(row[2])
    /\ row[1] = "stock" =>
          LET n == tx[t].items[row[2]]
          IN  /\ row[2] \in DOMAIN stock
              /\ tx[t].op = "reserve" => Available(row[2]) >= n
              /\ tx[t].op # "reserve" => stock[row[2]].reserved >= n
              /\ tx[t].op = "commit" => stock[row[2]].quantity >= n

\* Lock gone wrong: rows are checked as they are locked, but FOR UPDATE is missing.
LockNothing(t) ==
    /\ tx[t].route # <<>>
    /\ \/ Accepts(t, Head(tx[t].route)) /\ tx' = [tx EXCEPT ![t].route = Tail(@)]
       \/ ~Accepts(t, Head(tx[t].route)) /\ tx' = [tx EXCEPT ![t] = NoTx]
    /\ UNCHANGED inventoryVars

\* Lock gone wrong: the statement that got its row is sent again.
LockTwice(t) ==
    /\ tx[t].route # <<>>
    /\ Holder(Head(tx[t].route)) = {}
    /\ tx' = [tx EXCEPT ![t].held = @ \cup {Head(tx[t].route)}]
    /\ UNCHANGED inventoryVars

\* The next row is granted once nobody holds it; a failed check rolls back.
Lock(t) ==
    /\ tx[t].route # <<>>
    /\ LET row == Head(tx[t].route)
       IN  /\ Holder(row) = {}
           /\ \/ Accepts(t, row)
                 /\ tx' = [tx EXCEPT ![t].held = @ \cup {row}, ![t].route = Tail(@)]
              \/ ~Accepts(t, row) /\ tx' = [tx EXCEPT ![t] = NoTx]
    /\ UNCHANGED inventoryVars

NextReservationId == {r \in ReservationId : r = Cardinality(DOMAIN reservations) + 1}

\* All rows are locked: COMMIT.
Apply(t, rsv, status) ==
    /\ reservations' = rsv
    /\ stock' = [s \in DOMAIN stock |->
          LET n == tx[t].items[s]
          IN  CASE status = "active"    -> [stock[s] EXCEPT !.reserved = @ + n]
                [] status = "released"  -> [stock[s] EXCEPT !.reserved = @ - n]
                [] status = "committed" -> [quantity |-> stock[s].quantity - n,
                                            reserved |-> stock[s].reserved - n]]
    /\ sold' = IF status = "committed"
                 THEN [p \in Product |-> sold[p] + UnitsOf(tx[t].items, p)]
                 ELSE sold
    /\ tx' = [tx EXCEPT ![t] = NoTx]

CommitReserve(t) ==
    /\ tx[t].op = "reserve" /\ tx[t].route = <<>>
    /\ \E r \in NextReservationId :
           Apply(t, [x \in DOMAIN reservations \cup {r} |->
                        IF x = r
                          THEN [order |-> tx[t].order, items |-> tx[t].items,
                                status |-> "active"]
                          ELSE reservations[x]],
                 "active")

CommitFinalize(t, op, status) ==
    /\ tx[t].op = op /\ tx[t].route = <<>>
    /\ Apply(t, [reservations EXCEPT ![tx[t].rsv].status = status], status)

\* Rollback gone wrong: without the deferred Rollback the connection goes back to
\* the pool with its transaction open, and the rows stay locked.
AbandonOpen(t) ==
    /\ ~Idle(t)
    /\ tx' = [tx EXCEPT ![t] = [NoTx EXCEPT !.held = tx[t].held]]
    /\ UNCHANGED inventoryVars

\* The request is canceled, the connection drops or the deadlock detector
\* picks this transaction: Postgres rolls it back.
Rollback(t) ==
    /\ ~Idle(t)
    /\ tx' = [tx EXCEPT ![t] = NoTx]
    /\ UNCHANGED inventoryVars

\* Single statements outside those transactions wait for the row as well.
Edit(s) ==
    /\ Holder(StockRow(s)) = {}
    /\ \/ \E q \in 0..MaxQuantity : UpsertItem(s, q)
       \/ \E delta \in (-MaxQuantity)..MaxQuantity : AdjustStock(s, delta)
    /\ UNCHANGED tx

AddVariant(s) == CreateVariant(s) /\ UNCHANGED tx

Next ==
    \/ \E s \in Sku : AddVariant(s) \/ Edit(s)
    \/ \E t \in Tx, o \in Order, items \in Items : BeginReserve(t, o, items)
    \/ \E t \in Tx, op \in {"release", "commit"}, r \in ReservationId : BeginFinalize(t, op, r)
    \/ \E t \in Tx :
          \/ Lock(t)
          \/ CommitReserve(t)
          \/ CommitFinalize(t, "release", "released")
          \/ CommitFinalize(t, "commit", "committed")
          \/ Rollback(t)

-----------------------------------------------------------------------------
WaitsFor(t, u) == tx[t].route # <<>> /\ u # t /\ u \in Holder(Head(tx[t].route))

\* Every member waits for another member: none of them can ever be granted.
Stuck(T) == T # {} /\ \A t \in T : \E u \in T : WaitsFor(t, u)

\* Postgres breaks a wait cycle by rolling one of its members back.
DetectDeadlock(t) ==
    /\ \E T \in SUBSET Tx : t \in T /\ Stuck(T)
    /\ Rollback(t)

\* A connection keeps executing its statements, and the lock queue of a row is
\* first come first served, so a lock that is free again and again is granted.
Fairness ==
    \A t \in Tx :
        /\ SF_vars(Lock(t))
        /\ WF_vars(CommitReserve(t))
        /\ WF_vars(CommitFinalize(t, "release", "released"))
        /\ WF_vars(CommitFinalize(t, "commit", "committed"))
        /\ WF_vars(DetectDeadlock(t))

Spec == Init /\ [][Next]_vars /\ Fairness

\* The type invariant.
TypeOK ==
    /\ InventoryTypeOK
    /\ \A t \in Tx :
          /\ tx[t].op \in {"none", "reserve", "release", "commit"}
          /\ ~Idle(t) => tx[t].items \in Items
          /\ \A i \in DOMAIN tx[t].route : tx[t].route[i] \notin tx[t].held

\* CreateReservation sorts by sku id so that it cannot deadlock: a wait cycle
\* never contains a reserve or a release, only shipments, whose update of the
\* parents' sold_count visits the products in no particular order.
OnlyShipmentsDeadlock ==
    \A T \in SUBSET Tx :
        Stuck(T) => \E U \in SUBSET T : Stuck(U) /\ \A t \in U : tx[t].op = "commit"

\* Transactions that overlap in any way have the effect of Inventory's
\* operations one after another.
ImplementsInventory == InventorySpec

\* A transaction that was begun ends, whatever the others lock.
EveryTransactionEnds == \A t \in Tx : ~Idle(t) ~> Idle(t)
=============================================================================
