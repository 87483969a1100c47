---------------------------- MODULE InventoryTxMC ----------------------------
(***************************************************************************)
(* Instances of InventoryTx: two skus from an empty store, and four skus   *)
(* of two products with two orders ready to ship.                          *)
(***************************************************************************)
EXTENDS InventoryTx, TLC

CONSTANTS s1, s2, s3, s4, bag, wallet

\* Skus that exist are ordered by their number.
MCProductOf == [s \in Sku |-> IF s \in {s1, s2} THEN bag ELSE wallet]

MCRank == [s \in Sku |-> CASE s = s1 -> 1 [] s = s2 -> 2 [] s = s3 -> 3 [] s = s4 -> 4]

\* Each order holds a bag and a wallet; no sku is in both, so their shipments
\* lock different stock rows and meet only in the products table.
ItemsOf(skus) == [s \in Sku |-> IF s \in skus THEN 1 ELSE 0]

ReservedFor(o, skus) == [order |-> o, items |-> ItemsOf(skus), status |-> "active"]

ReadyToShip ==
    /\ stock = [s \in Sku |-> [quantity |-> 1, reserved |-> 1]]
    /\ \E o \in Order :
          reservations = (1 :> ReservedFor(o, {s1, s3})) @@ (2 :> ReservedFor(o, {s2, s4}))
    /\ sold = [p \in Product |-> 0]
    /\ tx = [t \in Tx |-> NoTx]

ShipmentsSpec == ReadyToShip /\ [][Next]_vars /\ Fairness
=============================================================================
