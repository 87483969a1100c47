--------------------------- MODULE InventoryProofs ---------------------------
(***************************************************************************)
(* Theorems about Inventory, for any number of skus, products, orders and  *)
(* reservations and any column width.  The two counters of the store, the  *)
(* reserved column and sold_count, are shown to equal the number of units  *)
(* that the reservation rows account for; from that and from "reserved is  *)
(* at most quantity" it follows that an active reservation can be closed.  *)
(***************************************************************************)
EXTENDS Inventory, FiniteSetTheorems, TLAPS

\* Tagging the members of a finite set with a key does not change their number.
LEMMA TaggedCardinality ==
    ASSUME NEW r, NEW T, IsFiniteSet(T)
    PROVE  IsFiniteSet({r} \X T) /\ Cardinality({r} \X T) = Cardinality(T)
<1>1. IsFiniteSet({r}) /\ Cardinality({r}) = 1
  BY FS_Singleton
<1>2. Cardinality(T) \in Nat
  BY FS_CardinalityType
<1>3. /\ IsFiniteSet({r} \X T)
      /\ Cardinality({r} \X T) = Cardinality({r}) * Cardinality(T)
  BY <1>1, FS_Product, Zenon
<1> QED
  BY <1>1, <1>2, <1>3

\* Adding a set to a finite set it is disjoint from adds their numbers up.
LEMMA DisjointUnion ==
    ASSUME NEW S, IsFiniteSet(S), NEW T, IsFiniteSet(T), S \cap T = {}
    PROVE  /\ IsFiniteSet(S \cup T)
           /\ Cardinality(S \cup T) = Cardinality(S) + Cardinality(T)
<1>1. Cardinality(S) \in Nat /\ Cardinality(T) \in Nat
  BY FS_CardinalityType
<1>2. Cardinality(S \cap T) = 0
  BY FS_EmptySet
<1>3. /\ IsFiniteSet(S \cup T)
      /\ Cardinality(S \cup T) = Cardinality(S) + Cardinality(T) - Cardinality(S \cap T)
  BY FS_Union, Zenon
<1> QED
  BY <1>1, <1>2, <1>3

\* The units of a product among the lines of a reservation can be counted.
LEMMA UnitsFinite ==
    ASSUME NEW items \in Items, NEW p \in Product
    PROVE  IsFiniteSet(Units(items, p)) /\ UnitsOf(items, p) \in Nat
<1>1. IsFiniteSet(Sku) /\ IsFiniteSet(1..MaxQuantity)
  BY InventoryAssumption, FS_Interval
<1>2. IsFiniteSet(Sku \X (1..MaxQuantity))
  BY <1>1, FS_Product, Zenon
<1>3. Units(items, p) \in SUBSET (Sku \X (1..MaxQuantity))
  BY DEF Units
<1>4. IsFiniteSet(Units(items, p))
  BY <1>2, <1>3, FS_Subset
<1> QED
  BY <1>4, FS_CardinalityType DEF UnitsOf

-----------------------------------------------------------------------------
(* The type invariant.                                                     *)

LEMMA InitType == InventoryInit => InventoryTypeOK
<1> SUFFICES ASSUME InventoryInit PROVE InventoryTypeOK
  OBVIOUS
<1>1. PICK skus \in SUBSET Sku : stock \in [skus -> {l \in Level : l.reserved = 0}]
  BY DEF InventoryInit
<1>2. /\ DOMAIN stock \subseteq Sku
      /\ \A s \in DOMAIN stock : stock[s] \in Level
      /\ stock = [s \in DOMAIN stock |-> stock[s]]
  BY <1>1
<1>3. /\ DOMAIN reservations = {}
      /\ reservations = [r \in DOMAIN reservations |-> reservations[r]]
      /\ sold \in [Product -> Nat]
  BY DEF InventoryInit
<1> QED
  BY <1>2, <1>3 DEF InventoryTypeOK

\* Closing a reservation keeps every counter within its column.
LEMMA CloseType ==
    ASSUME InventoryTypeOK, NEW r, IsActive(r), NEW committing \in BOOLEAN,
           Backed(reservations[r].items, committing),
           NEW s \in DOMAIN stock
    PROVE  LET n == reservations[r].items[s]
           IN  /\ n \in 0..MaxQuantity
               /\ stock[s].reserved - n \in 0..MaxQuantity
               /\ committing => stock[s].quantity - n \in 0..MaxQuantity
<1> USE InventoryAssumption
<1>1. reservations[r].items \in Items /\ stock[s] \in Level /\ s \in Sku
  BY DEF InventoryTypeOK, IsActive, Reservation
<1>2. reservations[r].items[s] \in 0..MaxQuantity
  BY <1>1 DEF Items
<1>3. /\ stock[s].reserved \in 0..MaxQuantity
      /\ stock[s].quantity \in 0..MaxQuantity
  BY <1>1 DEF Level
<1>4. reservations[r].items[s] > 0 =>
        /\ stock[s].reserved >= reservations[r].items[s]
        /\ committing => stock[s].quantity >= reservations[r].items[s]
  BY <1>1 DEF Backed
<1> QED
  BY <1>2, <1>3, <1>4

LEMMA NextType ==
    ASSUME InventoryTypeOK, [InventoryNext]_inventoryVars
    PROVE  InventoryTypeOK'
<1> USE InventoryAssumption
<1>1. ASSUME NEW s \in Sku, CreateVariant(s)
      PROVE  InventoryTypeOK'
  BY <1>1 DEF CreateVariant, InventoryTypeOK, Level
<1>2. ASSUME NEW s \in Sku, NEW q \in 0..MaxQuantity, s \in DOMAIN stock, SetQuantity(s, q),
             UNCHANGED <<reservations, sold>>
      PROVE  InventoryTypeOK'
  BY <1>2 DEF SetQuantity, InventoryTypeOK, Level
<1>3. ASSUME NEW s \in Sku, NEW q \in 0..MaxQuantity, UpsertItem(s, q)
      PROVE  InventoryTypeOK'
  BY <1>2, <1>3 DEF UpsertItem
<1>4. ASSUME NEW s \in Sku, NEW delta \in (-MaxQuantity)..MaxQuantity, AdjustStock(s, delta)
      PROVE  InventoryTypeOK'
  <2>1. stock[s].quantity \in Int
    BY <1>4 DEF AdjustStock, InventoryTypeOK, Level
  <2>2. stock[s].quantity + delta \in 0..MaxQuantity
    BY <1>4, <2>1 DEF AdjustStock
  <2> QED
    BY <1>2, <1>4, <2>2 DEF AdjustStock
<1>5. ASSUME NEW r \in ReservationId, NEW o \in Order, NEW items \in Items,
             Reserve(r, o, items)
      PROVE  InventoryTypeOK'
  <2>1. ASSUME NEW s \in DOMAIN stock
        PROVE  stock[s].reserved + items[s] \in 0..MaxQuantity
    <3>1. s \in Sku /\ stock[s] \in Level /\ items[s] \in 0..MaxQuantity
      BY <2>1 DEF InventoryTypeOK, Items
    <3>2. items[s] > 0 => stock[s].quantity - stock[s].reserved >= items[s]
      BY <1>5, <3>1 DEF Reserve, HasStockFor, Available
    <3> QED
      BY <3>1, <3>2 DEF Level
  <2>2. /\ DOMAIN stock' = DOMAIN stock
        /\ \A s \in DOMAIN stock : stock'[s] \in Level
        /\ stock' = [s \in DOMAIN stock' |-> stock'[s]]
    BY <1>5, <2>1 DEF Reserve, InventoryTypeOK, Level
  <2>3. /\ DOMAIN reservations' = DOMAIN reservations \cup {r}
        /\ \A x \in DOMAIN reservations' : reservations'[x] \in Reservation
        /\ reservations' = [x \in DOMAIN reservations' |-> reservations'[x]]
    BY <1>5 DEF Reserve, InventoryTypeOK, Reservation, ReservationStatus
  <2> QED
    BY <1>5, <2>2, <2>3 DEF Reserve, InventoryTypeOK
<1>6. ASSUME NEW r \in ReservationId, ReleaseReservation(r)
      PROVE  InventoryTypeOK'
  <2>1. /\ DOMAIN stock' = DOMAIN stock
        /\ \A s \in DOMAIN stock : stock'[s] \in Level
        /\ stock' = [s \in DOMAIN stock' |-> stock'[s]]
    BY <1>6, CloseType DEF ReleaseReservation, InventoryTypeOK, Level
  <2> QED
    BY <1>6, <2>1 DEF ReleaseReservation, Close, InventoryTypeOK, Reservation, ReservationStatus
<1>7. ASSUME NEW r \in ReservationId, CommitReservation(r)
      PROVE  InventoryTypeOK'
  <2>1. /\ DOMAIN stock' = DOMAIN stock
        /\ \A s \in DOMAIN stock : stock'[s] \in Level
        /\ stock' = [s \in DOMAIN stock' |-> stock'[s]]
    BY <1>7, CloseType DEF CommitReservation, InventoryTypeOK, Level
  <2>2. sold' \in [Product -> Nat]
    <3>1. reservations[r].items \in Items
      BY <1>7 DEF CommitReservation, IsActive, InventoryTypeOK, Reservation
    <3> QED
      BY <1>7, <3>1, UnitsFinite DEF CommitReservation, InventoryTypeOK
  <2> QED
    BY <1>7, <2>1, <2>2 DEF CommitReservation, Close, InventoryTypeOK, Reservation,
                            ReservationStatus
<1>8. CASE UNCHANGED inventoryVars
  BY <1>8 DEF inventoryVars, InventoryTypeOK
<1> QED
  BY <1>1, <1>3, <1>4, <1>5, <1>6, <1>7, <1>8 DEF InventoryNext

\* The store keeps its types: every counter stays within its column.
THEOREM InventoryTypeCorrect == InventorySpec => []InventoryTypeOK
<1>1. InventoryInit => InventoryTypeOK
  BY InitType
<1>2. InventoryTypeOK /\ [InventoryNext]_inventoryVars => InventoryTypeOK'
  BY NextType
<1> QED
  BY <1>1, <1>2, PTL DEF InventorySpec

-----------------------------------------------------------------------------
(* More is never promised than there is.                                   *)

LEMMA NextNeverOversold ==
    ASSUME InventoryTypeOK, NeverOversold, [InventoryNext]_inventoryVars
    PROVE  NeverOversold'
<1> USE InventoryAssumption
<1>1. \A s \in DOMAIN stock : /\ stock[s].reserved \in Nat /\ stock[s].quantity \in Nat
                              /\ stock[s].reserved <= stock[s].quantity
  BY DEF InventoryTypeOK, Level, NeverOversold
<1>2. ASSUME NEW s \in Sku, CreateVariant(s)
      PROVE  NeverOversold'
  BY <1>1, <1>2 DEF CreateVariant, NeverOversold
<1>3. ASSUME NEW s \in Sku, NEW q \in 0..MaxQuantity, UpsertItem(s, q)
      PROVE  NeverOversold'
  BY <1>1, <1>3 DEF UpsertItem, SetQuantity, NeverOversold, InventoryTypeOK, Level
<1>4. ASSUME NEW s \in Sku, NEW delta \in (-MaxQuantity)..MaxQuantity, AdjustStock(s, delta)
      PROVE  NeverOversold'
  BY <1>1, <1>4 DEF AdjustStock, SetQuantity, NeverOversold, InventoryTypeOK, Level
<1>5. ASSUME NEW r \in ReservationId, NEW o \in Order, NEW items \in Items,
             Reserve(r, o, items)
      PROVE  NeverOversold'
  <2> SUFFICES ASSUME NEW s \in DOMAIN stock
               PROVE  stock'[s].reserved <= stock'[s].quantity
    BY <1>5 DEF Reserve, NeverOversold
  <2>1. s \in Sku /\ stock[s] \in Level /\ items[s] \in Nat
    BY DEF InventoryTypeOK, Items
  <2>2. items[s] > 0 => stock[s].quantity - stock[s].reserved >= items[s]
    BY <1>5, <2>1 DEF Reserve, HasStockFor, Available
  <2>3. /\ stock'[s].reserved = stock[s].reserved + items[s]
        /\ stock'[s].quantity = stock[s].quantity
    BY <1>5, <2>1 DEF Reserve, Level
  <2> QED
    BY <1>1, <2>1, <2>2, <2>3
<1>6. ASSUME NEW r \in ReservationId, ReleaseReservation(r)
      PROVE  NeverOversold'
  <2> SUFFICES ASSUME NEW s \in DOMAIN stock
               PROVE  stock'[s].reserved <= stock'[s].quantity
    BY <1>6 DEF ReleaseReservation, NeverOversold
  <2>1. reservations[r].items[s] \in Nat
    BY <1>6 DEF ReleaseReservation, IsActive, InventoryTypeOK, Reservation, Items
  <2>2. stock[s] \in Level
    BY DEF InventoryTypeOK
  <2>3. /\ stock'[s].reserved = stock[s].reserved - reservations[r].items[s]
        /\ stock'[s].quantity = stock[s].quantity
    BY <1>6, <2>2 DEF ReleaseReservation, Level
  <2> QED
    BY <1>1, <2>1, <2>3
<1>7. ASSUME NEW r \in ReservationId, CommitReservation(r)
      PROVE  NeverOversold'
  <2> SUFFICES ASSUME NEW s \in DOMAIN stock
               PROVE  stock'[s].reserved <= stock'[s].quantity
    BY <1>7 DEF CommitReservation, NeverOversold
  <2>1. reservations[r].items[s] \in Nat
    BY <1>7 DEF CommitReservation, IsActive, InventoryTypeOK, Reservation, Items
  <2>2. /\ stock'[s].reserved = stock[s].reserved - reservations[r].items[s]
        /\ stock'[s].quantity = stock[s].quantity - reservations[r].items[s]
    BY <1>7 DEF CommitReservation
  <2> QED
    BY <1>1, <2>1, <2>2
<1>8. CASE UNCHANGED inventoryVars
  BY <1>8 DEF inventoryVars, NeverOversold
<1> QED
  BY <1>2, <1>3, <1>4, <1>5, <1>6, <1>7, <1>8 DEF InventoryNext

\* No sequence of reservations and stock edits, in any order, promises more units
\* of a sku than its quantity (CreateReservation, SetQuantity, AdjustQuantity).
THEOREM NeverOversoldHolds == InventorySpec => []NeverOversold
<1>1. InventoryInit => NeverOversold
  <2> SUFFICES ASSUME InventoryInit, NEW s \in DOMAIN stock
               PROVE  stock[s].reserved <= stock[s].quantity
    BY DEF NeverOversold
  <2>1. stock[s] \in Level /\ stock[s].reserved = 0
    BY DEF InventoryInit
  <2> QED
    BY <2>1, InventoryAssumption DEF Level
<1>2. InventoryTypeOK /\ NeverOversold /\ [InventoryNext]_inventoryVars => NeverOversold'
  BY NextNeverOversold
<1> QED
  BY <1>1, <1>2, InventoryTypeCorrect, PTL DEF InventorySpec

-----------------------------------------------------------------------------
(* The reserved column counts the units that active reservations hold.     *)

LEMMA HeldFinite ==
    ASSUME InventoryTypeOK, NEW s
    PROVE  IsFiniteSet(HeldUnits(s)) /\ Cardinality(HeldUnits(s)) \in Nat
<1>1. IsFiniteSet(ReservationId) /\ IsFiniteSet(1..MaxQuantity)
  BY InventoryAssumption, FS_Interval
<1>2. IsFiniteSet(ReservationId \X (1..MaxQuantity))
  BY <1>1, FS_Product, Zenon
<1>3. HeldUnits(s) \in SUBSET (ReservationId \X (1..MaxQuantity))
  BY DEF HeldUnits, InventoryTypeOK
<1>4. IsFiniteSet(HeldUnits(s))
  BY <1>2, <1>3, FS_Subset
<1> QED
  BY <1>4, FS_CardinalityType

\* The units of one line, and what one reservation adds to those held.
LEMMA LineCardinality ==
    ASSUME NEW r, NEW n \in 0..MaxQuantity
    PROVE  IsFiniteSet({r} \X (1..n)) /\ Cardinality({r} \X (1..n)) = n
<1>1. n \in Nat /\ IsFiniteSet(1..n) /\ Cardinality(1..n) = n
  BY InventoryAssumption, FS_Interval
<1> QED
  BY <1>1, TaggedCardinality

LEMMA HeldAfterReserve ==
    ASSUME InventoryTypeOK, NEW r \in ReservationId, NEW o \in Order, NEW items \in Items,
           Reserve(r, o, items), NEW s \in Sku
    PROVE  Cardinality(HeldUnits(s))' = Cardinality(HeldUnits(s)) + items[s]
<1> DEFINE line == {r} \X (1..items[s])
<1>1. items[s] \in 0..MaxQuantity
  BY DEF Items
<1>2. HeldUnits(s)' = HeldUnits(s) \cup line
  BY <1>1, InventoryAssumption DEF HeldUnits, Reserve
<1>3. HeldUnits(s) \cap line = {}
  BY DEF HeldUnits, Reserve
<1>4. IsFiniteSet(line) /\ Cardinality(line) = items[s]
  BY <1>1, LineCardinality
<1> QED
  BY <1>2, <1>3, <1>4, HeldFinite, DisjointUnion

LEMMA HeldAfterClose ==
    ASSUME InventoryTypeOK, NEW r, IsActive(r), NEW status \in {"released", "committed"},
           Close(r, status), NEW s \in Sku
    PROVE  /\ HeldUnits(s) = HeldUnits(s)' \cup ({r} \X (1..reservations[r].items[s]))
           /\ Cardinality(HeldUnits(s)') \in Nat
           /\ Cardinality(HeldUnits(s)) =
                 Cardinality(HeldUnits(s)') + reservations[r].items[s]
<1> DEFINE line == {r} \X (1..reservations[r].items[s])
<1>1. reservations[r].items[s] \in 0..MaxQuantity
  BY DEF Items, IsActive, InventoryTypeOK, Reservation
<1>2. HeldUnits(s)' = HeldUnits(s) \ line
  BY <1>1, InventoryAssumption DEF HeldUnits, Close, IsActive, InventoryTypeOK, Reservation
<1>3. line \subseteq HeldUnits(s)
  BY <1>1, InventoryAssumption DEF HeldUnits, IsActive
<1>4. IsFiniteSet(line) /\ Cardinality(line) = reservations[r].items[s]
  BY <1>1, LineCardinality
<1>5. IsFiniteSet(HeldUnits(s)') /\ Cardinality(HeldUnits(s)') \in Nat
  <2>1. IsFiniteSet(HeldUnits(s))
    BY HeldFinite
  <2>2. IsFiniteSet(HeldUnits(s) \ line)
    BY <2>1, FS_Difference
  <2> QED
    BY <1>2, <2>2, FS_CardinalityType
<1>6. HeldUnits(s) = HeldUnits(s)' \cup line /\ HeldUnits(s)' \cap line = {}
  BY <1>2, <1>3
<1> QED
  BY <1>4, <1>5, <1>6, DisjointUnion

LEMMA NextReservedMatches ==
    ASSUME InventoryTypeOK, ReservedMatchesActive, [InventoryNext]_inventoryVars
    PROVE  ReservedMatchesActive'
<1> USE InventoryAssumption
<1> SUFFICES ASSUME NEW s \in Sku
             PROVE  Cardinality(HeldUnits(s))' =
                       (IF s \in DOMAIN stock THEN stock[s].reserved ELSE 0)'
  BY DEF ReservedMatchesActive
<1>1. Cardinality(HeldUnits(s)) = IF s \in DOMAIN stock THEN stock[s].reserved ELSE 0
  BY DEF ReservedMatchesActive
<1>2. s \in DOMAIN stock => stock[s] \in Level
  BY DEF InventoryTypeOK
<1>3. ASSUME UNCHANGED reservations
      PROVE  Cardinality(HeldUnits(s))' = Cardinality(HeldUnits(s))
  BY <1>3 DEF HeldUnits
<1>4. ASSUME NEW t \in Sku, CreateVariant(t)
      PROVE  Cardinality(HeldUnits(s))' =
                (IF s \in DOMAIN stock THEN stock[s].reserved ELSE 0)'
  BY <1>1, <1>3, <1>4 DEF CreateVariant
<1>5. ASSUME NEW t \in Sku, t \in DOMAIN stock, NEW q, SetQuantity(t, q),
             UNCHANGED reservations
      PROVE  Cardinality(HeldUnits(s))' =
                (IF s \in DOMAIN stock THEN stock[s].reserved ELSE 0)'
  <2>1. /\ DOMAIN stock' = DOMAIN stock
        /\ s \in DOMAIN stock => stock'[s].reserved = stock[s].reserved
    BY <1>2, <1>5 DEF SetQuantity, InventoryTypeOK, Level
  <2> QED
    BY <1>1, <1>3, <1>5, <2>1
<1>6. ASSUME NEW t \in Sku, NEW q \in 0..MaxQuantity, UpsertItem(t, q)
      PROVE  Cardinality(HeldUnits(s))' =
                (IF s \in DOMAIN stock THEN stock[s].reserved ELSE 0)'
  BY <1>5, <1>6 DEF UpsertItem
<1>7. ASSUME NEW t \in Sku, NEW delta \in (-MaxQuantity)..MaxQuantity, AdjustStock(t, delta)
      PROVE  Cardinality(HeldUnits(s))' =
                (IF s \in DOMAIN stock THEN stock[s].reserved ELSE 0)'
  BY <1>5, <1>7 DEF AdjustStock
<1>8. ASSUME NEW r \in ReservationId, NEW o \in Order, NEW items \in Items,
             Reserve(r, o, items)
      PROVE  Cardinality(HeldUnits(s))' =
                (IF s \in DOMAIN stock THEN stock[s].reserved ELSE 0)'
  <2>1. items[s] \in Nat
    BY DEF Items
  <2>2. s \notin DOMAIN stock => items[s] = 0
    BY <1>8, <2>1 DEF Reserve, HasStockFor
  <2>3. /\ DOMAIN stock' = DOMAIN stock
        /\ s \in DOMAIN stock => stock'[s].reserved = stock[s].reserved + items[s]
    BY <1>2, <1>8 DEF Reserve, Level
  <2>4. Cardinality(HeldUnits(s))' = Cardinality(HeldUnits(s)) + items[s]
    BY <1>8, HeldAfterReserve
  <2> QED
    BY <1>1, <2>1, <2>2, <2>3, <2>4
<1>9. ASSUME NEW r \in ReservationId, IsActive(r), NEW status \in {"released", "committed"},
             Close(r, status), DOMAIN stock' = DOMAIN stock,
             s \in DOMAIN stock =>
                stock'[s].reserved = stock[s].reserved - reservations[r].items[s]
      PROVE  Cardinality(HeldUnits(s))' =
                (IF s \in DOMAIN stock THEN stock[s].reserved ELSE 0)'
  <2>1. reservations[r].items[s] \in Nat
    BY <1>9 DEF Items, IsActive, InventoryTypeOK, Reservation
  <2>2. /\ Cardinality(HeldUnits(s)') \in Nat
        /\ Cardinality(HeldUnits(s)) = Cardinality(HeldUnits(s)') + reservations[r].items[s]
    BY <1>9, HeldAfterClose
  <2> QED
    BY <1>1, <1>2, <1>9, <2>1, <2>2 DEF Level
<1>10. ASSUME NEW r \in ReservationId, ReleaseReservation(r)
       PROVE  Cardinality(HeldUnits(s))' =
                 (IF s \in DOMAIN stock THEN stock[s].reserved ELSE 0)'
  <2>1. /\ DOMAIN stock' = DOMAIN stock
        /\ s \in DOMAIN stock =>
              stock'[s].reserved = stock[s].reserved - reservations[r].items[s]
    BY <1>2, <1>10 DEF ReleaseReservation, Level
  <2> QED
    BY <1>9, <1>10, <2>1 DEF ReleaseReservation
<1>11. ASSUME NEW r \in ReservationId, CommitReservation(r)
       PROVE  Cardinality(HeldUnits(s))' =
                 (IF s \in DOMAIN stock THEN stock[s].reserved ELSE 0)'
  <2>1. /\ DOMAIN stock' = DOMAIN stock
        /\ s \in DOMAIN stock =>
              stock'[s].reserved = stock[s].reserved - reservations[r].items[s]
    BY <1>11 DEF CommitReservation
  <2> QED
    BY <1>9, <1>11, <2>1 DEF CommitReservation
<1>12. CASE UNCHANGED inventoryVars
  BY <1>1, <1>3, <1>12 DEF inventoryVars
<1> QED
  BY <1>4, <1>6, <1>7, <1>8, <1>10, <1>11, <1>12 DEF InventoryNext

\* The reserved counter of a sku (stock_items.reserved) and the reservation rows
\* it was derived from never drift apart.
THEOREM ReservedMatchesActiveHolds == InventorySpec => []ReservedMatchesActive
<1>1. InventoryInit => ReservedMatchesActive
  <2> SUFFICES ASSUME InventoryInit, NEW s \in Sku
               PROVE  Cardinality(HeldUnits(s)) =
                         IF s \in DOMAIN stock THEN stock[s].reserved ELSE 0
    BY DEF ReservedMatchesActive
  <2>1. HeldUnits(s) = {}
    BY DEF InventoryInit, HeldUnits
  <2>2. s \in DOMAIN stock => stock[s].reserved = 0
    BY DEF InventoryInit
  <2> QED
    BY <2>1, <2>2, FS_EmptySet
<1>2. /\ InventoryTypeOK /\ ReservedMatchesActive /\ [InventoryNext]_inventoryVars
      => ReservedMatchesActive'
  BY NextReservedMatches
<1> QED
  BY <1>1, <1>2, InventoryTypeCorrect, PTL DEF InventorySpec

\* The reservation rows cover what closing them takes, so the insufficient-stock
\* branches of FinalizeReservation are dead: a shipment or a release of an active
\* reservation is never refused for lack of units, whatever staff edited.
THEOREM ActiveCanCloseHolds == InventorySpec => []ActiveCanClose
<1>1. InventoryTypeOK /\ NeverOversold /\ ReservedMatchesActive => ActiveCanClose
  <2> SUFFICES ASSUME InventoryTypeOK, NeverOversold, ReservedMatchesActive,
                      NEW r \in DOMAIN reservations, IsActive(r),
                      NEW s \in Sku, reservations[r].items[s] > 0
               PROVE  /\ s \in DOMAIN stock
                      /\ stock[s].reserved >= reservations[r].items[s]
                      /\ stock[s].quantity >= reservations[r].items[s]
    BY DEF ActiveCanClose, Backed
  <2> DEFINE n == reservations[r].items[s]
  <2>1. n \in 0..MaxQuantity /\ n \in Nat
    BY InventoryAssumption DEF InventoryTypeOK, Reservation, Items
  <2>2. ({r} \X (1..n)) \in SUBSET HeldUnits(s)
    BY <2>1, InventoryAssumption DEF HeldUnits, IsActive
  <2>3. Cardinality({r} \X (1..n)) = n
    BY <2>1, LineCardinality
  <2>4. IsFiniteSet(HeldUnits(s)) /\ Cardinality(HeldUnits(s)) \in Nat
    BY HeldFinite
  <2>5. n <= Cardinality(HeldUnits(s))
    BY <2>2, <2>3, <2>4, FS_Subset
  <2>6. Cardinality(HeldUnits(s)) = IF s \in DOMAIN stock THEN stock[s].reserved ELSE 0
    BY DEF ReservedMatchesActive
  <2>7. s \in DOMAIN stock /\ stock[s].reserved >= n
    BY <2>1, <2>4, <2>5, <2>6
  <2>8. /\ stock[s].reserved \in Nat /\ stock[s].quantity \in Nat
        /\ stock[s].reserved <= stock[s].quantity
    BY <2>7, InventoryAssumption DEF InventoryTypeOK, Level, NeverOversold
  <2> QED
    BY <2>1, <2>7, <2>8
<1> QED
  BY <1>1, InventoryTypeCorrect, NeverOversoldHolds, ReservedMatchesActiveHolds, PTL

-----------------------------------------------------------------------------
(* sold_count counts the units of the committed reservations.              *)

LEMMA SoldFinite ==
    ASSUME InventoryTypeOK, NEW p
    PROVE  IsFiniteSet(SoldUnits(p)) /\ Cardinality(SoldUnits(p)) \in Nat
<1>1. IsFiniteSet(ReservationId) /\ IsFiniteSet(Sku) /\ IsFiniteSet(1..MaxQuantity)
  BY InventoryAssumption, FS_Interval
<1>2. IsFiniteSet(Sku \X (1..MaxQuantity))
  BY <1>1, FS_Product, Zenon
<1>3. IsFiniteSet(ReservationId \X (Sku \X (1..MaxQuantity)))
  BY <1>1, <1>2, FS_Product, Zenon
<1>4. SoldUnits(p) \in SUBSET (ReservationId \X (Sku \X (1..MaxQuantity)))
  BY DEF SoldUnits, InventoryTypeOK
<1>5. IsFiniteSet(SoldUnits(p))
  BY <1>3, <1>4, FS_Subset
<1> QED
  BY <1>5, FS_CardinalityType

LEMMA SoldAfterCommit ==
    ASSUME InventoryTypeOK, NEW r, IsActive(r), Close(r, "committed"), NEW p \in Product
    PROVE  Cardinality(SoldUnits(p))' =
              Cardinality(SoldUnits(p)) + UnitsOf(reservations[r].items, p)
<1> DEFINE U == Units(reservations[r].items, p)
<1>1. reservations[r].items \in Items /\ r \in DOMAIN reservations
  BY DEF IsActive, InventoryTypeOK, Reservation
<1>2. IsFiniteSet(U) /\ U \subseteq Sku \X (1..MaxQuantity)
  BY <1>1, UnitsFinite DEF Units
<1>3. SoldUnits(p)' = SoldUnits(p) \cup ({r} \X U)
  <2>1. /\ DOMAIN reservations' = DOMAIN reservations
        /\ \A x \in DOMAIN reservations :
              /\ reservations'[x].items = reservations[x].items
              /\ reservations'[x].status =
                    IF x = r THEN "committed" ELSE reservations[x].status
    BY <1>1 DEF Close, InventoryTypeOK, Reservation
  <2>2. \A items : Units(items, p)' = Units(items, p)
    BY DEF Units
  <2>3. SoldUnits(p)' =
          {u \in (DOMAIN reservations) \X (Sku \X (1..MaxQuantity)) :
              /\ (IF u[1] = r THEN "committed" ELSE reservations[u[1]].status) = "committed"
              /\ u[2] \in Units(reservations[u[1]].items, p)}
    BY <2>1 DEF SoldUnits, Units
  <2> QED
    BY <1>1, <1>2, <2>3 DEF SoldUnits
<1>4. SoldUnits(p) \cap ({r} \X U) = {}
  BY DEF SoldUnits, IsActive
<1>5. IsFiniteSet({r} \X U) /\ Cardinality({r} \X U) = Cardinality(U)
  BY <1>2, TaggedCardinality
<1> QED
  BY <1>3, <1>4, <1>5, SoldFinite, DisjointUnion DEF UnitsOf

LEMMA NextSoldMatches ==
    ASSUME InventoryTypeOK, SoldMatchesCommitted, [InventoryNext]_inventoryVars
    PROVE  SoldMatchesCommitted'
<1> SUFFICES ASSUME NEW p \in Product
             PROVE  sold'[p] = Cardinality(SoldUnits(p))'
  BY DEF SoldMatchesCommitted
<1>1. sold[p] = Cardinality(SoldUnits(p))
  BY DEF SoldMatchesCommitted
<1>2. ASSUME UNCHANGED <<reservations, sold>>
      PROVE  sold'[p] = Cardinality(SoldUnits(p))'
  BY <1>1, <1>2 DEF SoldUnits, Units
<1>3. ASSUME NEW r \in ReservationId, NEW o \in Order, NEW items \in Items,
             Reserve(r, o, items)
      PROVE  sold'[p] = Cardinality(SoldUnits(p))'
  <2>1. SoldUnits(p)' = SoldUnits(p)
    BY <1>3 DEF Reserve, SoldUnits, Units
  <2> QED
    BY <1>1, <1>3, <2>1 DEF Reserve
<1>4. ASSUME NEW r \in ReservationId, ReleaseReservation(r)
      PROVE  sold'[p] = Cardinality(SoldUnits(p))'
  <2>1. SoldUnits(p)' = SoldUnits(p)
    BY <1>4 DEF ReleaseReservation, Close, IsActive, SoldUnits, Units, InventoryTypeOK,
                Reservation
  <2> QED
    BY <1>1, <1>4, <2>1 DEF ReleaseReservation
<1>5. ASSUME NEW r \in ReservationId, CommitReservation(r)
      PROVE  sold'[p] = Cardinality(SoldUnits(p))'
  <2>1. Cardinality(SoldUnits(p))' =
           Cardinality(SoldUnits(p)) + UnitsOf(reservations[r].items, p)
    BY <1>5, SoldAfterCommit DEF CommitReservation
  <2>2. sold'[p] = sold[p] + UnitsOf(reservations[r].items, p)
    BY <1>5 DEF CommitReservation
  <2> QED
    BY <1>1, <2>1, <2>2
<1> QED
  BY <1>2, <1>3, <1>4, <1>5
     DEF InventoryNext, inventoryVars, CreateVariant, UpsertItem, AdjustStock

\* The denormalised sold_count of a product (inventory_store.go, finalize with
\* countSold) equals what its committed reservations add up to.
THEOREM SoldMatchesCommittedHolds == InventorySpec => []SoldMatchesCommitted
<1>1. InventoryInit => SoldMatchesCommitted
  <2> SUFFICES ASSUME InventoryInit, NEW p \in Product
               PROVE  sold[p] = Cardinality(SoldUnits(p))
    BY DEF SoldMatchesCommitted
  <2>1. SoldUnits(p) = {}
    BY DEF InventoryInit, SoldUnits
  <2> QED
    BY <2>1, FS_EmptySet DEF InventoryInit
<1>2. /\ InventoryTypeOK /\ SoldMatchesCommitted /\ [InventoryNext]_inventoryVars
      => SoldMatchesCommitted'
  BY NextSoldMatches
<1> QED
  BY <1>1, <1>2, InventoryTypeCorrect, PTL DEF InventorySpec

\* All of it together: no order of edits, reserves, releases and commits makes
\* the stock rows, the reservations and the sold counts disagree.
THEOREM StockIsSoundHolds == InventorySpec => []StockIsSound
BY ReservedMatchesActiveHolds, NeverOversoldHolds, ActiveCanCloseHolds,
   SoldMatchesCommittedHolds, PTL DEF StockIsSound
=============================================================================
