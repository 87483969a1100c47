------------------------------ MODULE CartStore ------------------------------
(***************************************************************************)
(* What a cart repository promises (cart/pkg/ports): a call takes effect   *)
(* at one instant between its begin and its end, or fails and has none.    *)
(* cart/pkg/infra/memory keeps a map under a mutex and is this module;     *)
(* Cart shows that the Postgres repository does the same.                  *)
(*                                                                         *)
(* A variant stands for its (sku_id, sku) pair, so the memory store's key  *)
(* (the sku) and the table's key (the sku_id) name the same line.          *)
(***************************************************************************)
EXTENDS Integers

CONSTANTS
    Customer,
    Variant,
    MaxQty,         \* bound on the quantity of a line
    Request

VARIABLES
    carts,          \* the quantity of each variant in each customer's cart
    call            \* the calls in progress

storeVars == <<carts, call>>

Contents == [Variant -> 0..MaxQty]

NoItems == [v \in Variant |-> 0]

NoCall == [op |-> "none", cart |-> "none", items |-> NoItems]

Call == [op : {"replace", "upsert", "remove", "clear"}, cart : Customer, items : Contents]

StoreInit ==
    /\ carts = [c \in Customer |-> NoItems]
    /\ call = [q \in Request |-> NoCall]

-----------------------------------------------------------------------------
ReplaceItems(c, items) == carts' = [carts EXCEPT ![c] = items]

\* The line is replaced, or added to the others.
UpsertItem(c, items) ==
    carts' = [carts EXCEPT ![c] = [v \in Variant |-> IF items[v] > 0 THEN items[v] ELSE @[v]]]

\* The lines that match are filtered out; a missing cart is no error.
RemoveItem(c, items) ==
    carts' = [carts EXCEPT ![c] = [v \in Variant |-> IF items[v] > 0 THEN 0 ELSE @[v]]]

Clear(c) == carts' = [carts EXCEPT ![c] = NoItems]

Begin(q) ==
    /\ call[q] = NoCall
    /\ \E new \in Call : call' = [call EXCEPT ![q] = new]
    /\ UNCHANGED carts

Fail(q) == call' = [call EXCEPT ![q] = NoCall] /\ UNCHANGED carts

Finish(q) ==
    /\ \/ call[q].op = "replace" /\ ReplaceItems(call[q].cart, call[q].items)
       \/ call[q].op = "upsert" /\ UpsertItem(call[q].cart, call[q].items)
       \/ call[q].op = "remove" /\ RemoveItem(call[q].cart, call[q].items)
       \/ call[q].op = "clear" /\ Clear(call[q].cart)
    /\ call' = [call EXCEPT ![q] = NoCall]

StoreNext == \E q \in Request : Begin(q) \/ Fail(q) \/ Finish(q)

StoreSpec == StoreInit /\ [][StoreNext]_storeVars
=============================================================================
