------------------------------ MODULE Inventory ------------------------------
(***************************************************************************)
(* Stock levels and reservations of the product service, one action per    *)
(* operation of product/pkg/service/inventory_service.go.  Each operation  *)
(* is one Postgres transaction (product/pkg/infra/pg/inventory_store.go),  *)
(* so here it is one step; InventoryTx opens the transactions up to the    *)
(* row locks they take and is shown to implement this module.              *)
(*                                                                         *)
(* A reservation is taken when an order is created, committed when the     *)
(* order ships, released when the order is canceled.                       *)
(***************************************************************************)
EXTENDS Integers, FiniteSets

CONSTANTS
    Sku,            \* canonical sku ids
    Product,        \* parent products, which carry the denormalised sold_count
    ProductOf,      \* the parent of each sku
    Order,          \* order ids that reservations are made for
    ReservationId,  \* ids the reservation sequence can hand out
    MaxQuantity     \* largest value of the INTEGER quantity column

ASSUME InventoryAssumption ==
    /\ MaxQuantity \in Nat
    /\ ProductOf \in [Sku -> Product]
    /\ IsFiniteSet(Sku)
    /\ IsFiniteSet(ReservationId)

VARIABLES
    stock,          \* stock_items: a row per sku that has a variant
    reservations,   \* reservations and their reservation_items
    sold            \* products.sold_count

inventoryVars == <<stock, reservations, sold>>

Level == [quantity : 0..MaxQuantity, reserved : 0..MaxQuantity]

\* Items of a reservation: how many units of each sku, 0 when the sku has no
\* line.  resolveReservationItems has merged the lines that name one sku twice.
Items == [Sku -> 0..MaxQuantity]

ReservationStatus == {"active", "committed", "released"}

Reservation == [order : Order, items : Items, status : ReservationStatus]

Available(s) == stock[s].quantity - stock[s].reserved

IsActive(r) == r \in DOMAIN reservations /\ reservations[r].status = "active"

\* A store that was stocked (cmd/import-inventory, staff) before any order came.
InventoryInit ==
    /\ \E skus \in SUBSET Sku : stock \in [skus -> {l \in Level : l.reserved = 0}]
    /\ reservations = [r \in {} |-> {}]
    /\ sold = [p \in Product |-> 0]

-----------------------------------------------------------------------------
\* A variant is inserted together with its stock row, so a sku that resolves has a
\* row.  Only the deletion of a product takes rows away: Catalog has it, and this
\* module speaks of the time in which no product is deleted.
CreateVariant(s) ==
    /\ s \notin DOMAIN stock
    /\ stock' = [t \in DOMAIN stock \cup {s} |->
                    IF t = s THEN [quantity |-> 0, reserved |-> 0] ELSE stock[t]]
    /\ UNCHANGED <<reservations, sold>>

SetQuantity(s, q) == stock' = [stock EXCEPT ![s].quantity = q]

\* UpsertItem gone wrong: the guard forgets the reserved units.
UpsertBelowReserved(s, q) ==
    /\ s \in DOMAIN stock
    /\ SetQuantity(s, q)
    /\ UNCHANGED <<reservations, sold>>

\* UpsertItem sets the absolute quantity; never below what is reserved.
UpsertItem(s, q) ==
    /\ s \in DOMAIN stock
    /\ q >= stock[s].reserved
    /\ SetQuantity(s, q)
    /\ UNCHANGED <<reservations, sold>>

\* AdjustStock gone wrong: the delta is applied without the lower bounds.
AdjustUnchecked(s, delta) ==
    /\ s \in DOMAIN stock
    /\ stock[s].quantity + delta <= MaxQuantity
    /\ SetQuantity(s, stock[s].quantity + delta)
    /\ UNCHANGED <<reservations, sold>>

\* AdjustStock adds a signed delta under the same guard; a sum the column
\* cannot hold is an error of the UPDATE.
AdjustStock(s, delta) ==
    /\ s \in DOMAIN stock
    /\ stock[s].quantity + delta >= 0
    /\ stock[s].quantity + delta >= stock[s].reserved
    /\ stock[s].quantity + delta <= MaxQuantity
    /\ SetQuantity(s, stock[s].quantity + delta)
    /\ UNCHANGED <<reservations, sold>>

HasStockFor(items) ==
    \A s \in Sku : items[s] > 0 => s \in DOMAIN stock /\ Available(s) >= items[s]

\* CreateReservation: all lines or none.  Nothing makes order ids unique, so a
\* repeated call makes a second reservation for the same order.
Reserve(r, o, items) ==
    /\ r \notin DOMAIN reservations
    /\ \E s \in Sku : items[s] > 0
    /\ HasStockFor(items)
    /\ stock' = [s \in DOMAIN stock |->
                    [stock[s] EXCEPT !.reserved = @ + items[s]]]
    /\ reservations' = [x \in DOMAIN reservations \cup {r} |->
                            IF x = r
                              THEN [order |-> o, items |-> items, status |-> "active"]
                              ELSE reservations[x]]
    /\ UNCHANGED sold

\* Units of product p among some items, one element per unit, and their number:
\* the SUM(quantity) ... GROUP BY product_id of the sold_count update.
Units(items, p) ==
    {u \in Sku \X (1..MaxQuantity) : ProductOf[u[1]] = p /\ u[2] <= items[u[1]]}

UnitsOf(items, p) == Cardinality(Units(items, p))

\* The reservation's lines are still backed by the stock rows.
Backed(items, committing) ==
    \A s \in Sku : items[s] > 0 =>
        /\ s \in DOMAIN stock
        /\ stock[s].reserved >= items[s]
        /\ committing => stock[s].quantity >= items[s]

Close(r, status) ==
    reservations' = [reservations EXCEPT ![r].status = status]

ReleaseReservation(r) ==
    /\ IsActive(r)
    /\ Backed(reservations[r].items, FALSE)
    /\ stock' = [s \in DOMAIN stock |->
                    [stock[s] EXCEPT !.reserved = @ - reservations[r].items[s]]]
    /\ Close(r, "released")
    /\ UNCHANGED sold

\* CommitReservation gone wrong: neither the status nor the stock is checked.
CommitUnchecked(r) ==
    /\ r \in DOMAIN reservations
    /\ stock' = [s \in DOMAIN stock |->
                    [quantity |-> stock[s].quantity - reservations[r].items[s],
                     reserved |-> stock[s].reserved - reservations[r].items[s]]]
    /\ Close(r, "committed")
    /\ sold' = [p \in Product |-> sold[p] + UnitsOf(reservations[r].items, p)]

\* Shipping takes the units out of stock, and the same transaction adds them to
\* the sold_count of each parent product.
CommitReservation(r) ==
    /\ IsActive(r)
    /\ Backed(reservations[r].items, TRUE)
    /\ stock' = [s \in DOMAIN stock |->
                    [quantity |-> stock[s].quantity - reservations[r].items[s],
                     reserved |-> stock[s].reserved - reservations[r].items[s]]]
    /\ Close(r, "committed")
    /\ sold' = [p \in Product |-> sold[p] + UnitsOf(reservations[r].items, p)]

InventoryNext ==
    \/ \E s \in Sku : CreateVariant(s)
    \/ \E s \in Sku, q \in 0..MaxQuantity : UpsertItem(s, q)
    \/ \E s \in Sku, delta \in (-MaxQuantity)..MaxQuantity : AdjustStock(s, delta)
    \/ \E r \in ReservationId, o \in Order, items \in Items : Reserve(r, o, items)
    \/ \E r \in ReservationId : ReleaseReservation(r)
    \/ \E r \in ReservationId : CommitReservation(r)

InventorySpec == InventoryInit /\ [][InventoryNext]_inventoryVars

-----------------------------------------------------------------------------
\* The type invariant.
InventoryTypeOK ==
    /\ DOMAIN stock \subseteq Sku
    /\ \A s \in DOMAIN stock : stock[s] \in Level
    /\ stock = [s \in DOMAIN stock |-> stock[s]]
    /\ DOMAIN reservations \subseteq ReservationId
    /\ \A r \in DOMAIN reservations : reservations[r] \in Reservation
    /\ reservations = [r \in DOMAIN reservations |-> reservations[r]]
    /\ sold \in [Product -> Nat]

\* The units of a sku that active reservations hold, one element per unit.
HeldUnits(s) ==
    {u \in (DOMAIN reservations) \X (1..MaxQuantity) :
        /\ reservations[u[1]].status = "active"
        /\ u[2] <= reservations[u[1]].items[s]}

\* The reserved column is a counter kept beside the reservation rows; it equals
\* what the active reservations hold, however reserves, commits, releases and
\* stock edits follow each other.
ReservedMatchesActive ==
    \A s \in Sku :
        Cardinality(HeldUnits(s)) = IF s \in DOMAIN stock THEN stock[s].reserved ELSE 0

\* Staff may set or adjust a quantity at any time, and no sequence of edits and
\* reservations promises more units than there are.
NeverOversold == \A s \in DOMAIN stock : stock[s].reserved <= stock[s].quantity

\* The ErrInsufficientStock branches of FinalizeReservation are never taken: a
\* reservation that is still active can always be released and always be shipped.
ActiveCanClose ==
    \A r \in DOMAIN reservations :
        IsActive(r) => Backed(reservations[r].items, TRUE)

\* The units of product p that were shipped, each counted once.
SoldUnits(p) ==
    {u \in (DOMAIN reservations) \X (Sku \X (1..MaxQuantity)) :
        /\ reservations[u[1]].status = "committed"
        /\ u[2] \in Units(reservations[u[1]].items, p)}

\* sold_count is a denormalised sum: the units of every sku of the product in
\* every reservation that was shipped, whatever was repeated or released.
SoldMatchesCommitted == \A p \in Product : sold[p] = Cardinality(SoldUnits(p))

\* The rows and the counters kept beside them agree, nothing is promised twice,
\* and what is promised can be shipped or given back.
StockIsSound ==
    ReservedMatchesActive /\ NeverOversold /\ ActiveCanClose /\ SoldMatchesCommitted
=============================================================================
